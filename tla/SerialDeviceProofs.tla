------------------------- MODULE SerialDeviceProofs -------------------------
(* Theorems about SerialDevice: how open() finds the tty (DeviceResolve),   *)
(* for any ttys, names and moves, and the frames of setMeasurementRate      *)
(* (UbxFrame), for any threads, periods, calls and short writes.            *)
EXTENDS DeviceResolve, UbxFrame, TLAPS, SequenceTheorems

-----------------------------------------------------------------------------
(* Finding the tty                                                         *)

\* Walking up finds the receivers within reach, and nothing else.
LEMMA WalkFindsReceivers ==
    \A tty \in Ttys : ttyMatchesUsbId(tty) <=> IsReceiver(tty)
<1> SUFFICES ASSUME NEW tty \in Ttys PROVE ttyMatchesUsbId(tty) <=> IsReceiver(tty)
  OBVIOUS
<1>1. /\ tty.depth \in Nat \ {0} /\ (tty.usb = NoId => tty.above = NoId)
      /\ tty # Absent /\ UsbId # NoId
  BY ResolveAssumption
<1>2. ASSUME IsReceiver(tty) PROVE ttyMatchesUsbId(tty)
  <2>1. tty.depth \in 1 .. kMaxDepth
    BY <1>1, <1>2 DEF IsReceiver, kMaxDepth
  <2>2. IdAt(tty, tty.depth) = UsbId
    BY <1>1, <1>2 DEF IsReceiver, IdAt
  <2>3. \A e \in 1 .. tty.depth - 1 : IdAt(tty, e) = NoId
    BY <1>1 DEF IdAt
  <2> QED
    BY <2>1, <2>2, <2>3 DEF ttyMatchesUsbId
<1>3. ASSUME ttyMatchesUsbId(tty) PROVE IsReceiver(tty)
  <2>1. PICK d \in 1 .. kMaxDepth :
            IdAt(tty, d) = UsbId /\ \A e \in 1 .. d - 1 : IdAt(tty, e) = NoId
    BY <1>3 DEF ttyMatchesUsbId
  <2>2. d \in Int /\ 1 <= d /\ d <= 4
    BY DEF kMaxDepth
  <2>3. ~(d < tty.depth)
    BY <1>1, <2>1 DEF IdAt
  <2>4. ~(tty.depth < d)
    <3> SUFFICES ASSUME tty.depth < d PROVE FALSE
      OBVIOUS
    <3>1. tty.depth \in 1 .. d - 1
      BY <1>1, <2>2
    <3>2. IdAt(tty, tty.depth) = NoId
      BY <2>1, <3>1
    <3>3. tty.usb = NoId
      BY <1>1, <3>2 DEF IdAt
    <3>4. IdAt(tty, d) \in {tty.usb, tty.above}
      BY <1>1, <2>2 DEF IdAt
    <3> QED
      BY <1>1, <2>1, <3>3, <3>4
  <2>5. tty.depth = d
    BY <1>1, <2>2, <2>3, <2>4
  <2> QED
    BY <1>1, <2>1, <2>2, <2>5 DEF IsReceiver, IdAt, kMaxDepth
<1> QED
  BY <1>2, <1>3

-----------------------------------------------------------------------------
\* What the scan knows of the names that have not moved.
ScanInv ==
    /\ \A n \in steady : sysfs[n] # Absent
    /\ \A n \in steady : n \in visited => (n \in matches <=> IsReceiver(sysfs[n]))
    /\ \A n \in unmoved : n \in visited /\ (n \in matches => IsReceiver(sysfs[n]))

\* What it has concluded when it is over.
ResultInv ==
    /\ step = "unresolved" => matches = {} /\ steady \subseteq visited
    /\ step \in {"node", "opened", "refused"} /\ ~explicit =>
          steady \subseteq visited /\ mDevicePath \in LowestMatch

ResolveInv == ResolveTypeOK /\ ScanInv /\ ResultInv

LEMMA ResolveInvInit == ResolveInit => ResolveInv
<1> SUFFICES ASSUME ResolveInit PROVE ResolveInv
  OBVIOUS
<1>1. ResolveTypeOK
  BY DEF ResolveInit, ResolveTypeOK, Steps
<1>2. ScanInv
  BY DEF ResolveInit, ScanInv
<1>3. ResultInv
  BY DEF ResolveInit, ResultInv
<1> QED
  BY <1>1, <1>2, <1>3 DEF ResolveInv

LEMMA ResolveInvStep == ResolveInv /\ [ResolveNext]_resolveVars => ResolveInv'
<1> SUFFICES ASSUME ResolveInv, [ResolveNext]_resolveVars PROVE ResolveInv'
  OBVIOUS
<1> USE DEF ResolveInv, ResolveTypeOK, Steps
<1>1. CASE OpenBegin
  BY <1>1 DEF OpenBegin, ScanInv, ResultInv
<1>2. CASE BeginScan
  BY <1>2 DEF BeginScan, ScanInv, ResultInv, LowestMatch
<1>3. ASSUME NEW n \in Names, ScanEntry(n) PROVE ResolveInv'
  <2>1. sysfs[n] \in Ttys
    BY <1>3 DEF ScanEntry
  <2>2. matches' = IF IsReceiver(sysfs[n]) THEN matches \union {n} ELSE matches
    BY <1>3, <2>1, WalkFindsReceivers DEF ScanEntry
  <2>3. n \notin matches
    BY <1>3 DEF ScanEntry
  <2>4. ScanInv'
    BY <1>3, <2>2, <2>3 DEF ScanEntry, ScanInv, IsReceiver
  <2>5. ResultInv'
    BY <1>3 DEF ScanEntry, ResultInv
  <2>6. ResolveTypeOK'
    BY <1>3, <2>2 DEF ScanEntry
  <2> QED
    BY <2>4, <2>5, <2>6
<1>4. CASE ScanEnd
  <2>1. mDevicePath' \in LowestMatch => mDevicePath' \in Names
    BY <1>4 DEF LowestMatch
  <2>2. ScanInv'
    BY <1>4 DEF ScanEnd, ScanInv, IsReceiver
  <2>3. ResultInv'
    BY <1>4 DEF ScanEnd, ResultInv, LowestMatch
  <2>4. ResolveTypeOK'
    BY <1>4, <2>1 DEF ScanEnd
  <2> QED
    BY <2>2, <2>3, <2>4
<1>5. CASE OpenNode
  BY <1>5 DEF OpenNode, ScanInv, ResultInv, LowestMatch, IsReceiver
<1>6. CASE CloseNode
  BY <1>6 DEF CloseNode, ScanInv, ResultInv, LowestMatch, IsReceiver
<1>7. ASSUME NEW n \in Names, NEW tty \in Ttys \union {Absent}, Move(n, tty) PROVE ResolveInv'
  <2>1. ScanInv'
    BY <1>7 DEF Move, ScanInv, IsReceiver
  <2>2. ResultInv'
    BY <1>7 DEF Move, ResultInv, LowestMatch
  <2>3. ResolveTypeOK'
    BY <1>7 DEF Move
  <2> QED
    BY <2>1, <2>2, <2>3
<1>8. CASE UNCHANGED resolveVars
  BY <1>8 DEF resolveVars, ScanInv, ResultInv, LowestMatch, IsReceiver
<1> QED
  BY <1>1, <1>2, <1>3, <1>4, <1>5, <1>6, <1>7, <1>8 DEF ResolveNext

LEMMA ResolveInvariant == ResolveSpec => []ResolveInv
  BY ResolveInvInit, ResolveInvStep, PTL DEF ResolveSpec

\* Types, and the path is never taken from an empty list of matches.
THEOREM ResolveTypeCorrect == ResolveSpec => []ResolveTypeOK
<1>1. ResolveInv => ResolveTypeOK
  BY DEF ResolveInv
<1> QED
  BY ResolveInvariant, <1>1, PTL

\* However ttys come and go, a receiver attached all the time is found.
THEOREM AttachedReceiverFound == ResolveSpec => []ReceiverFound
<1>1. ResolveInv => ReceiverFound
  BY DEF ResolveInv, ScanInv, ResultInv, ReceiverFound
<1> QED
  BY ResolveInvariant, <1>1, PTL

\* ... and the lowest name of those is used, or a lower one that came.
THEOREM LowestNameUsed == ResolveSpec => []LowestUsed
<1>1. ResolveInv => LowestUsed
  BY DEF ResolveInv, ResolveTypeOK, ScanInv, ResultInv, LowestUsed, LowestMatch
<1> QED
  BY ResolveInvariant, <1>1, PTL

\* What is opened is a receiver unless the name changed hands since.
THEOREM OpenedIsReceiver == ResolveSpec => []ReceiverOpened
<1>1. ResolveInv => ReceiverOpened
  BY DEF ResolveInv, ScanInv, ResultInv, ReceiverOpened, LowestMatch
<1> QED
  BY ResolveInvariant, <1>1, PTL

-----------------------------------------------------------------------------
(* CFG-RATE frames: the checksum                                           *)

Byte  == 0 .. 255
Short == {p \in Nat : p < 65536}

\* Reducing a summand does not change the reduced sum.
LEMMA ModAdd ==
    \A a, b \in Int : /\ ((a % 256) + b) % 256 = (a + b) % 256
                      /\ a % 256 \in Byte
BY SMT DEF Byte

\* One byte more, in both sums.
StepSums(ck, byte) == LET ckA == (ck[1] + byte) % 256 IN <<ckA, (ck[2] + ckA) % 256>>

\* ck holds the sums a and b.
Holds(ck, a, b) == a \in Int /\ b \in Int /\ ck = <<a % 256, b % 256>>

\* Reduced after every byte or once at the end, the sums are the same.
LEMMA StepAdds ==
    ASSUME NEW ck, NEW a, NEW b, Holds(ck, a, b), NEW byte \in Int
    PROVE  Holds(StepSums(ck, byte), a + byte, b + a + byte)
<1>0. a \in Int /\ b \in Int /\ ck = <<a % 256, b % 256>>
  BY DEF Holds
<1>1. ((a % 256) + byte) % 256 = (a + byte) % 256
  BY <1>0, ModAdd
<1>2. ((b % 256) + ((a + byte) % 256)) % 256 = (b + a + byte) % 256
  <2>1. ((b % 256) + ((a + byte) % 256)) % 256 = (b + ((a + byte) % 256)) % 256
    BY <1>0, ModAdd
  <2>2. (((a + byte) % 256) + b) % 256 = ((a + byte) + b) % 256
    BY <1>0, ModAdd
  <2>3. (a + byte) % 256 \in Int
    BY <1>0, ModAdd DEF Byte
  <2>4. b + ((a + byte) % 256) = ((a + byte) % 256) + b /\ (a + byte) + b = b + a + byte
    BY <1>0, <2>3
  <2> QED
    BY <2>1, <2>2, <2>4
<1> QED
  BY <1>0, <1>1, <1>2 DEF StepSums, Holds

\* The recursion of ubxChecksum over ten bytes.
Sums(g, msg) ==
    g = [i \in 0 .. Len(msg) |-> IF i = 0 THEN <<0, 0>> ELSE StepSums(g[i - 1], msg[i])]

\* The recursion has a solution.
LEMMA SumsExist == ASSUME NEW msg, Len(msg) = 10 PROVE \E g : Sums(g, msg)
<1> DEFINE s1 == StepSums(<<0, 0>>, msg[1])
           s2 == StepSums(s1, msg[2])
           s3 == StepSums(s2, msg[3])
           s4 == StepSums(s3, msg[4])
           s5 == StepSums(s4, msg[5])
           s6 == StepSums(s5, msg[6])
           s7 == StepSums(s6, msg[7])
           s8 == StepSums(s7, msg[8])
           s9 == StepSums(s8, msg[9])
           s10 == StepSums(s9, msg[10])
           g == [i \in 0 .. 10 |->
                   IF i = 0 THEN <<0, 0>> ELSE IF i = 1 THEN s1 ELSE IF i = 2 THEN s2
                   ELSE IF i = 3 THEN s3 ELSE IF i = 4 THEN s4 ELSE IF i = 5 THEN s5
                   ELSE IF i = 6 THEN s6 ELSE IF i = 7 THEN s7 ELSE IF i = 8 THEN s8
                   ELSE IF i = 9 THEN s9 ELSE s10]
<1>0. /\ s1 = StepSums(<<0, 0>>, msg[1]) /\ s2 = StepSums(s1, msg[2])
      /\ s3 = StepSums(s2, msg[3]) /\ s4 = StepSums(s3, msg[4])
      /\ s5 = StepSums(s4, msg[5]) /\ s6 = StepSums(s5, msg[6])
      /\ s7 = StepSums(s6, msg[7]) /\ s8 = StepSums(s7, msg[8])
      /\ s9 = StepSums(s8, msg[9]) /\ s10 = StepSums(s9, msg[10])
  OBVIOUS
<1> HIDE DEF s1, s2, s3, s4, s5, s6, s7, s8, s9, s10
<1>1. ASSUME NEW i \in 0 .. 10
      PROVE  g[i] = IF i = 0 THEN <<0, 0>> ELSE StepSums(g[i - 1], msg[i])
  <2>1. i \in {0, 1, 2, 3, 4, 5, 6, 7, 8, 9, 10}
    OBVIOUS
  <2> QED
    BY <1>0, <2>1
<1>2. g = [i \in 0 .. 10 |-> g[i]]
  OBVIOUS
<1> HIDE DEF g
<1>3. Sums(g, msg)
  BY <1>1, <1>2 DEF Sums
<1> QED
  BY <1>3

LEMMA ChecksumSums ==
    ASSUME NEW msg, Len(msg) = 10
    PROVE  \E g : Sums(g, msg) /\ ubxChecksum(msg) = g[10]
<1> DEFINE g == CHOOSE f : Sums(f, msg)
<1>1. Sums(g, msg)
  BY SumsExist
<1>2. ubxChecksum(msg) = g[Len(msg)]
  BY DEF ubxChecksum, Sums, StepSums
<1> QED
  BY <1>1, <1>2

LEMMA SmallMods == \A a \in Byte : a % 256 = a
BY SMT DEF Byte

\* The two bytes of a message's period.
Lo(p) == p % 256
Hi(p) == (p \div 256) % 256

\* The two bytes give the period back.
LEMMA PeriodBytes ==
    \A p \in Short : Lo(p) \in Byte /\ Hi(p) \in Byte /\ Lo(p) + 256 * Hi(p) = p
<1> SUFFICES ASSUME NEW p \in Short
             PROVE  Lo(p) \in Byte /\ Hi(p) \in Byte /\ Lo(p) + 256 * Hi(p) = p
  OBVIOUS
<1>1. p \in Int /\ 0 <= p /\ p < 65536
  BY SMT DEF Short
<1>2. p \div 256 \in Byte
  BY <1>1, SMT DEF Byte
<1>3. Hi(p) = p \div 256
  BY <1>2, SmallMods DEF Hi
<1>4. p = 256 * (p \div 256) + (p % 256)
  BY <1>1, SMT
<1>5. p % 256 \in Byte
  BY <1>1, SMT DEF Byte
<1> QED
  <2>1. Lo(p) = p % 256
    BY DEF Lo
  <2>2. Lo(p) \in Byte /\ Hi(p) \in Byte
    BY <1>2, <1>3, <1>5, <2>1
  <2>3. Lo(p) + 256 * Hi(p) = p
    BY <1>1, <1>2, <1>3, <1>4, <1>5, <2>1, <2>2, SMT DEF Byte
  <2> QED
    BY <2>2, <2>3

LEMMA MessageIs ==
    \A p : Message(p) = <<6, 8, 6, 0, Lo(p), Hi(p), 1, 0, 1, 0>>
BY DEF Message, Lo, Hi

\* The sums of a message are those of the definition.
LEMMA ChecksumIs ==
    ASSUME NEW p \in Short
    PROVE  ubxChecksum(Message(p)) = <<(22 + Lo(p) + Hi(p)) % 256,
                                       (186 + 6 * Lo(p) + 5 * Hi(p)) % 256>>
<1> DEFINE msg == Message(p)
<1>1. Len(msg) = 10
  BY MessageIs
<1>2. PICK g : Sums(g, msg) /\ ubxChecksum(msg) = g[10]
  BY <1>1, ChecksumSums
<1>3. Lo(p) \in Int /\ Hi(p) \in Int
  BY PeriodBytes DEF Byte
<1>4. /\ msg[1] = 6 /\ msg[2] = 8 /\ msg[3] = 6 /\ msg[4] = 0 /\ msg[5] = Lo(p)
      /\ msg[6] = Hi(p) /\ msg[7] = 1 /\ msg[8] = 0 /\ msg[9] = 1 /\ msg[10] = 0
  BY MessageIs
<1>5. \A i \in 0 .. 10 : g[i] = IF i = 0 THEN <<0, 0>> ELSE StepSums(g[i - 1], msg[i])
  BY <1>1, <1>2 DEF Sums
<1> HIDE DEF msg
<1>6. /\ g[0] = <<0, 0>> /\ g[1] = StepSums(g[0], 6) /\ g[2] = StepSums(g[1], 8)
      /\ g[3] = StepSums(g[2], 6) /\ g[4] = StepSums(g[3], 0)
      /\ g[5] = StepSums(g[4], Lo(p)) /\ g[6] = StepSums(g[5], Hi(p))
      /\ g[7] = StepSums(g[6], 1) /\ g[8] = StepSums(g[7], 0)
      /\ g[9] = StepSums(g[8], 1) /\ g[10] = StepSums(g[9], 0)
  <2>1. \A i \in 1 .. 10 : g[i] = StepSums(g[i - 1], msg[i])
    BY <1>5
  <2> QED
    BY <1>4, <1>5, <2>1
<1>7. Holds(g[4], 20, 60)
  <2>1. Holds(g[0], 0, 0)
    BY <1>6, SmallMods DEF Holds, Byte
  <2>2. Holds(g[1], 6, 6)
    BY <1>6, <2>1, StepAdds
  <2>3. Holds(g[2], 14, 20)
    BY <1>6, <2>2, StepAdds
  <2>4. Holds(g[3], 20, 40)
    BY <1>6, <2>3, StepAdds
  <2> QED
    BY <1>6, <2>4, StepAdds
<1> DEFINE a == 20 + Lo(p) + Hi(p)
           b == 80 + Lo(p) + (20 + Lo(p)) + Hi(p)
<1>8. Holds(g[6], a, b)
  <2>1. Holds(g[5], 20 + Lo(p), 60 + 20 + Lo(p))
    BY <1>3, <1>6, <1>7, StepAdds
  <2>2. Holds(g[6], 20 + Lo(p) + Hi(p), (60 + 20 + Lo(p)) + (20 + Lo(p)) + Hi(p))
    BY <1>3, <1>6, <2>1, StepAdds
  <2> QED
    BY <1>3, <2>2
<1>9. Holds(g[10], 22 + Lo(p) + Hi(p), 186 + 6 * Lo(p) + 5 * Hi(p))
  <2>1. a \in Int /\ b \in Int
    BY <1>3
  <2> HIDE DEF a, b
  <2>2. Holds(g[7], a + 1, b + a + 1)
    BY <1>6, <1>8, <2>1, StepAdds
  <2>3. Holds(g[8], a + 1 + 0, (b + a + 1) + (a + 1) + 0)
    BY <1>6, <2>2, StepAdds
  <2>4. Holds(g[9], a + 1 + 0 + 1, ((b + a + 1) + (a + 1) + 0) + (a + 1 + 0) + 1)
    BY <1>6, <2>3, StepAdds
  <2>5. Holds(g[10], a + 1 + 0 + 1 + 0,
              (((b + a + 1) + (a + 1) + 0) + (a + 1 + 0) + 1) + (a + 1 + 0 + 1) + 0)
    BY <1>6, <2>4, StepAdds
  <2>6. a + 1 + 0 + 1 + 0 = 22 + Lo(p) + Hi(p)
    BY <1>3 DEF a
  <2>7. (((b + a + 1) + (a + 1) + 0) + (a + 1 + 0) + 1) + (a + 1 + 0 + 1) + 0
        = 186 + 6 * Lo(p) + 5 * Hi(p)
    BY <1>3 DEF a, b
  <2> QED
    BY <2>5, <2>6, <2>7
<1> QED
  BY <1>2, <1>9 DEF msg, Holds

-----------------------------------------------------------------------------
(* Frames                                                                  *)

LEMMA Concat ==
    \A s, t \in Seq(Int) :
       /\ s \o t \in Seq(Int) /\ Len(s \o t) = Len(s) + Len(t)
       /\ \A i \in 1 .. Len(s) + Len(t) :
             (s \o t)[i] = IF i <= Len(s) THEN s[i] ELSE t[i - Len(s)]
BY ConcatProperties

\* The fourteen bytes of a frame.
LEMMA BuffIs ==
    ASSUME NEW p \in Short
    PROVE  LET b == Buff(p)
           IN  /\ b \in Seq(Int) /\ Len(b) = 14
               /\ b[1] = 181 /\ b[2] = 98 /\ b[3] = 6 /\ b[4] = 8 /\ b[5] = 6 /\ b[6] = 0
               /\ b[7] = Lo(p) /\ b[8] = Hi(p)
               /\ b[9] = 1 /\ b[10] = 0 /\ b[11] = 1 /\ b[12] = 0
               /\ b[13] = (22 + Lo(p) + Hi(p)) % 256
               /\ b[14] = (186 + 6 * Lo(p) + 5 * Hi(p)) % 256
<1> DEFINE ckA == (22 + Lo(p) + Hi(p)) % 256
           ckB == (186 + 6 * Lo(p) + 5 * Hi(p)) % 256
           head == <<181, 98>>
           msg == <<6, 8, 6, 0, Lo(p), Hi(p), 1, 0, 1, 0>>
           ck == <<ckA, ckB>>
<1>1. Buff(p) = (head \o msg) \o ck
  <2>1. Message(p) = msg
    BY ONLY MessageIs
  <2>2. ubxChecksum(Message(p)) = ck
    BY ChecksumIs
  <2>3. Buff(p) = (head \o Message(p)) \o ubxChecksum(Message(p))
    BY ONLY DEF Buff
  <2> HIDE DEF msg, ck, head
  <2> QED
    BY ONLY <2>1, <2>2, <2>3
<1>2. Lo(p) \in Int /\ Hi(p) \in Int
  BY PeriodBytes DEF Byte
<1>3. ckA \in Int /\ ckB \in Int
  BY <1>2
<1> HIDE DEF ckA, ckB
<1>4. /\ head \in Seq(Int) /\ Len(head) = 2 /\ head[1] = 181 /\ head[2] = 98
      /\ ck \in Seq(Int) /\ Len(ck) = 2 /\ ck[1] = ckA /\ ck[2] = ckB
  BY <1>3
<1>5. /\ msg \in Seq(Int) /\ Len(msg) = 10
      /\ msg[1] = 6 /\ msg[2] = 8 /\ msg[3] = 6 /\ msg[4] = 0 /\ msg[5] = Lo(p)
      /\ msg[6] = Hi(p) /\ msg[7] = 1 /\ msg[8] = 0 /\ msg[9] = 1 /\ msg[10] = 0
  BY <1>2
<1> DEFINE top == head \o msg
<1> HIDE DEF head, msg, ck
<1>6. /\ top \in Seq(Int) /\ Len(top) = 12
      /\ \A i \in 1 .. 12 : top[i] = IF i <= 2 THEN head[i] ELSE msg[i - 2]
  <2>1. head \in Seq(Int) /\ msg \in Seq(Int)
    BY <1>4, <1>5
  <2>2. /\ top \in Seq(Int) /\ Len(top) = Len(head) + Len(msg)
        /\ \A i \in 1 .. Len(head) + Len(msg) :
              top[i] = IF i <= Len(head) THEN head[i] ELSE msg[i - Len(head)]
    BY <2>1, Concat
  <2>3. Len(head) = 2 /\ Len(msg) = 10
    BY <1>4, <1>5
  <2> HIDE DEF top
  <2> QED
    BY <2>2, <2>3
<1> HIDE DEF top
<1>7. /\ Buff(p) \in Seq(Int) /\ Len(Buff(p)) = 14
      /\ \A i \in 1 .. 14 : Buff(p)[i] = IF i <= 12 THEN top[i] ELSE ck[i - 12]
  <2>1. Buff(p) = top \o ck
    BY <1>1 DEF top
  <2>2. top \in Seq(Int) /\ ck \in Seq(Int)
    BY <1>4, <1>6
  <2>3. /\ Buff(p) \in Seq(Int) /\ Len(Buff(p)) = Len(top) + Len(ck)
        /\ \A i \in 1 .. Len(top) + Len(ck) :
              Buff(p)[i] = IF i <= Len(top) THEN top[i] ELSE ck[i - Len(top)]
    BY <2>1, <2>2, Concat
  <2>4. Len(top) = 12 /\ Len(ck) = 2
    BY <1>4, <1>6
  <2> QED
    BY <2>3, <2>4
<1>8. \A i \in 1 .. 14 : Buff(p)[i] = IF i <= 2 THEN head[i]
                                      ELSE IF i <= 12 THEN msg[i - 2] ELSE ck[i - 12]
  <2> TAKE i \in 1 .. 14
  <2>1. i <= 12 => i \in 1 .. 12
    OBVIOUS
  <2>2. i <= 2 => i <= 12
    OBVIOUS
  <2>3. Buff(p)[i] = IF i <= 12 THEN top[i] ELSE ck[i - 12]
    BY <1>7
  <2>4. i <= 12 => top[i] = IF i <= 2 THEN head[i] ELSE msg[i - 2]
    BY <1>6, <2>1
  <2> QED
    BY <2>2, <2>3, <2>4
<1>9. /\ Buff(p)[1] = 181 /\ Buff(p)[2] = 98 /\ Buff(p)[3] = 6 /\ Buff(p)[4] = 8
      /\ Buff(p)[5] = 6 /\ Buff(p)[6] = 0 /\ Buff(p)[7] = Lo(p) /\ Buff(p)[8] = Hi(p)
      /\ Buff(p)[9] = 1 /\ Buff(p)[10] = 0 /\ Buff(p)[11] = 1 /\ Buff(p)[12] = 0
      /\ Buff(p)[13] = ckA /\ Buff(p)[14] = ckB
  BY <1>4, <1>5, <1>8
<1> QED
  BY <1>7, <1>9 DEF ckA, ckB

\* The frame the receiver looks for, and what it takes from it.
LEMMA FrameRecognised ==
    ASSUME NEW p \in Short
    PROVE  /\ Len(Buff(p)) = 14 /\ IsFrame(Buff(p))
           /\ Buff(p)[7] + 256 * Buff(p)[8] = p
<1> DEFINE b == Buff(p)
           ckA == (22 + Lo(p) + Hi(p)) % 256
           ckB == (186 + 6 * Lo(p) + 5 * Hi(p)) % 256
<1>1. Lo(p) \in Int /\ Hi(p) \in Int /\ Lo(p) + 256 * Hi(p) = p
  BY PeriodBytes DEF Byte
<1>2. b \in Seq(Int) /\ Len(b) = 14
  BY BuffIs
<1>3. /\ b[1] = 181 /\ b[2] = 98 /\ b[3] = 6 /\ b[4] = 8 /\ b[5] = 6
      /\ b[6] = 0 /\ b[7] = Lo(p) /\ b[8] = Hi(p) /\ b[9] = 1 /\ b[10] = 0 /\ b[11] = 1
      /\ b[12] = 0 /\ b[13] = ckA /\ b[14] = ckB
  BY BuffIs
<1> HIDE DEF b, ckA, ckB
<1>4. SubSeq(b, 1, 6) = <<181, 98, 6, 8, 6, 0>>
  <2> DEFINE head == <<181, 98, 6, 8, 6, 0>>
  <2>1. \A i \in 1 .. 6 : b[i] \in Int
    BY <1>3
  <2>2. /\ SubSeq(b, 1, 6) \in Seq(Int) /\ Len(SubSeq(b, 1, 6)) = 6
        /\ \A i \in 1 .. 6 : SubSeq(b, 1, 6)[i] = b[i]
    BY <2>1, SubSeqProperties
  <2>3. head \in Seq(Int) /\ Len(head) = 6 /\ \A i \in 1 .. 6 : head[i] = b[i]
    BY <1>3
  <2> HIDE DEF head
  <2>4. SubSeq(b, 1, 6) = head
    BY <2>2, <2>3, SeqEqual
  <2> QED
    BY <2>4 DEF head
<1>5. FirstSum(b) = ckA
  <2>1. b[3] + b[4] + b[5] + b[6] + b[7] + b[8] + b[9] + b[10] + b[11] + b[12]
        = 22 + Lo(p) + Hi(p)
    BY <1>1, <1>3
  <2> QED
    BY <2>1 DEF FirstSum, ckA
<1>6. SecondSum(b) = ckB
  <2>1. 10 * b[3] + 9 * b[4] + 8 * b[5] + 7 * b[6] + 6 * b[7]
        + 5 * b[8] + 4 * b[9] + 3 * b[10] + 2 * b[11] + b[12] = 186 + 6 * Lo(p) + 5 * Hi(p)
    BY <1>1, <1>3
  <2> QED
    BY <2>1 DEF SecondSum, ckB
<1>7. IsFrame(b)
  BY <1>3, <1>4, <1>5, <1>6 DEF IsFrame
<1>8. b[7] + 256 * b[8] = p
  BY <1>1, <1>3
<1> QED
  BY <1>2, <1>7, <1>8 DEF b

-----------------------------------------------------------------------------
(* The wire                                                                *)

\* What writer w has written of its frame.
Sent(w) == 14 - Len(rest[w])

\* A writer has the end of its frame left, and as long as nobody else wrote in
\* between, the wire ends with the beginning.
WriterInv(w) ==
    /\ sending[w] \in Short
    /\ Sent(w) \in 0 .. 13
    /\ rest[w] = SubSeq(Buff(sending[w]), Sent(w) + 1, 14)
    /\ ~torn[w] =>
          /\ Sent(w) <= Len(wire)
          /\ \A j \in 1 .. Sent(w) : wire[Len(wire) - Sent(w) + j] = Buff(sending[w])[j]

WireInv ==
    /\ wire \in Seq(Int)
    /\ rest \in [Writers -> Seq(Int)]
    /\ DOMAIN sending = Writers /\ DOMAIN torn = Writers
    /\ \A w \in Writers : rest[w] # <<>> => WriterInv(w)
    /\ \A p \in intact : \E i \in 0 .. Len(wire) - 14 :
          p \in Short /\ \A j \in 1 .. 14 : wire[i + j] = Buff(p)[j]

\* What is left of a frame after m bytes.
LEMMA BuffBytes ==
    ASSUME NEW p \in Short
    PROVE  /\ Buff(p) \in Seq(Int) /\ Len(Buff(p)) = 14
           /\ \A m \in 0 .. 13 : /\ SubSeq(Buff(p), m + 1, 14) \in Seq(Int)
                                 /\ Len(SubSeq(Buff(p), m + 1, 14)) = 14 - m
                                 /\ \A i \in 1 .. 14 - m :
                                       SubSeq(Buff(p), m + 1, 14)[i] = Buff(p)[m + i]
<1>1. Buff(p) \in Seq(Int) /\ Len(Buff(p)) = 14
  BY BuffIs
<1>2. \A i \in 1 .. 14 : Buff(p)[i] \in Int
  BY <1>1, ElementOfSeq
<1>3. ASSUME NEW m \in 0 .. 13
      PROVE  /\ SubSeq(Buff(p), m + 1, 14) \in Seq(Int)
             /\ Len(SubSeq(Buff(p), m + 1, 14)) = 14 - m
             /\ \A i \in 1 .. 14 - m : SubSeq(Buff(p), m + 1, 14)[i] = Buff(p)[m + i]
  <2>1. \A i \in m + 1 .. 14 : Buff(p)[i] \in Int
    BY <1>2
  <2>2. m + 1 \in Int /\ 14 \in Int
    OBVIOUS
  <2> DEFINE t == SubSeq(Buff(p), m + 1, 14)
  <2>3. /\ t \in Seq(Int)
        /\ Len(t) = IF m + 1 <= 14 THEN 14 - (m + 1) + 1 ELSE 0
        /\ \A i \in 1 .. 14 - (m + 1) + 1 : t[i] = Buff(p)[(m + 1) + i - 1]
    BY <2>1, <2>2, SubSeqProperties
  <2> HIDE DEF t
  <2>4. Len(t) = 14 - m /\ \A i \in 1 .. 14 - m : t[i] = Buff(p)[m + i]
    BY <2>3
  <2> QED
    BY <2>3, <2>4 DEF t
<1> QED
  BY <1>1, <1>3

LEMMA PeriodsAreShort == Periods \subseteq Short
BY FrameAssumption DEF Short

\* Fourteen bytes of the wire that are a frame are found as one.
LEMMA IntactFollows == WireInv => IntactApplied
<1> SUFFICES ASSUME WireInv, NEW p \in intact PROVE p \in Applied
  BY DEF IntactApplied
<1>1. wire \in Seq(Int)
  BY DEF WireInv
<1>2. PICK i \in 0 .. Len(wire) - 14 :
         p \in Short /\ \A j \in 1 .. 14 : wire[i + j] = Buff(p)[j]
  BY DEF WireInv
<1>3. /\ Buff(p) \in Seq(Int) /\ Len(Buff(p)) = 14 /\ IsFrame(Buff(p))
      /\ Buff(p)[7] + 256 * Buff(p)[8] = p
  BY <1>2, FrameRecognised, BuffIs
<1> DEFINE m == i + 1
           b == SubSeq(wire, m, m + 13)
<1>4. Len(wire) \in Nat /\ m \in 1 .. Len(wire) - 13 /\ i = m - 1
  BY <1>1, LenProperties
<1>5. b = Buff(p)
  <2>1. \A e \in m .. m + 13 : wire[e] \in Int
    BY <1>1, <1>4, ElementOfSeq
  <2>2. m \in Int /\ m + 13 \in Int
    BY <1>4
  <2> HIDE DEF m
  <2>3. /\ b \in Seq(Int)
        /\ Len(b) = IF m <= m + 13 THEN (m + 13) - m + 1 ELSE 0
        /\ \A j \in 1 .. (m + 13) - m + 1 : b[j] = wire[m + j - 1]
    BY <2>1, <2>2, SubSeqProperties
  <2> HIDE DEF b
  <2>4. Len(b) = 14 /\ \A j \in 1 .. 14 : b[j] = wire[m + j - 1]
    <3>1. (m + 13) - m + 1 = 14 /\ m <= m + 13
      BY <2>2
    <3> HIDE DEF b
    <3> QED
      BY <2>3, <3>1
  <2>5. ASSUME NEW j \in 1 .. 14 PROVE b[j] = Buff(p)[j]
    <3>1. i + j = m + j - 1
      BY <1>4, <2>2
    <3> QED
      BY <1>2, <2>4, <3>1
  <2> QED
    BY <1>3, <2>3, <2>4, <2>5, SeqEqual
<1>6. b \in {SubSeq(wire, e, e + 13) : e \in 1 .. Len(wire) - 13}
  BY <1>4
<1> HIDE DEF b, m
<1> QED
  BY <1>3, <1>5, <1>6 DEF Applied

\* The steps keep the invariant, and it holds at first.
LEMMA WireInit == FrameInit => WireInv
<1> SUFFICES ASSUME FrameInit PROVE WireInv
  OBVIOUS
<1>1. /\ rest = [w \in Writers |-> <<>>] /\ wire = <<>> /\ intact = {}
      /\ DOMAIN sending = Writers /\ DOMAIN torn = Writers
  BY DEF FrameInit
<1>2. <<>> \in Seq(Int)
  BY EmptySeq
<1> QED
  BY <1>1, <1>2 DEF WireInv

LEMMA CallKeeps ==
    ASSUME WireInv, NEW w \in Writers, CallRate(w) PROVE WireInv'
<1>1. PICK p \in Periods :
         /\ sending' = [sending EXCEPT ![w] = p]
         /\ rest' = [rest EXCEPT ![w] = Buff(p)]
  BY DEF CallRate
<1>2. torn' = [torn EXCEPT ![w] = FALSE] /\ wire' = wire /\ intact' = intact
  BY DEF CallRate
<1>3. p \in Short
  BY PeriodsAreShort
<1>4. Buff(p) \in Seq(Int) /\ Len(Buff(p)) = 14
  BY <1>3, BuffIs
<1>5. SubSeq(Buff(p), 1, 14) = Buff(p)
  BY <1>4, SubSeqFull
<1>6. WriterInv(w)'
  <2>1. rest'[w] = Buff(p) /\ sending'[w] = p
    BY <1>1 DEF WireInv
  <2>2. Sent(w)' = 0
    BY <1>4, <2>1 DEF Sent
  <2>3. rest'[w] = SubSeq(Buff(sending'[w]), Sent(w)' + 1, 14)
    BY <1>5, <2>1, <2>2
  <2>4. Len(wire') \in Nat
    BY <1>2, LenProperties DEF WireInv
  <2> QED
    BY <1>3, <2>1, <2>2, <2>3, <2>4 DEF WriterInv
<1>7. ASSUME NEW u \in Writers, u # w, rest'[u] # <<>> PROVE WriterInv(u)'
  <2>1. rest'[u] = rest[u] /\ sending'[u] = sending[u] /\ torn'[u] = torn[u]
    BY <1>1, <1>2, <1>7 DEF WireInv
  <2>2. WriterInv(u)
    BY <1>7, <2>1 DEF WireInv
  <2> QED
    BY <1>2, <2>1, <2>2 DEF WriterInv, Sent
<1>8. /\ rest' \in [Writers -> Seq(Int)]
      /\ DOMAIN sending' = Writers /\ DOMAIN torn' = Writers
  BY <1>1, <1>2, <1>4 DEF WireInv
<1> QED
  BY <1>2, <1>6, <1>7, <1>8 DEF WireInv

LEMMA FailureKeeps ==
    ASSUME WireInv, NEW w \in Writers, WriteFails(w) PROVE WireInv'
<1>1. /\ rest' = [rest EXCEPT ![w] = <<>>] /\ sending' = sending /\ torn' = torn
      /\ wire' = wire /\ intact' = intact
  BY DEF WriteFails
<1>2. ASSUME NEW u \in Writers, rest'[u] # <<>> PROVE WriterInv(u)'
  <2>1. rest'[u] = rest[u]
    BY <1>1, <1>2 DEF WireInv
  <2>2. WriterInv(u)
    BY <1>2, <2>1 DEF WireInv
  <2> QED
    BY <1>1, <2>1, <2>2 DEF WriterInv, Sent
<1>3. rest' \in [Writers -> Seq(Int)]
  BY <1>1, EmptySeq DEF WireInv
<1> QED
  BY <1>1, <1>2, <1>3 DEF WireInv

\* What write() of n bytes does to the wire and to what is left of the frame.
LEMMA WriteBytes ==
    ASSUME WireInv, NEW w \in Writers, NEW n \in 1 .. 14, Write(w, n)
    PROVE  /\ Len(wire) \in Nat /\ Sent(w) \in 0 .. 13 /\ Len(rest[w]) = 14 - Sent(w)
           /\ sending[w] \in Short /\ n <= Len(rest[w])
           /\ wire' \in Seq(Int) /\ Len(wire') = Len(wire) + n
           /\ \A i \in 1 .. Len(wire) : wire'[i] = wire[i]
           /\ \A i \in 1 .. n : wire'[Len(wire) + i] = Buff(sending[w])[Sent(w) + i]
           /\ rest' \in [Writers -> Seq(Int)]
           /\ n < Len(rest[w]) =>
                 /\ rest'[w] = SubSeq(Buff(sending[w]), (Sent(w) + n) + 1, 14)
                 /\ Len(rest'[w]) = 14 - (Sent(w) + n)
           /\ n = Len(rest[w]) => rest'[w] = <<>>
<1> DEFINE k == Sent(w)
           q == sending[w]
           r == rest[w]
           t == SubSeq(r, 1, n)
<1>1. /\ n \in 1 .. Len(r)
      /\ wire' = wire \o t
      /\ rest' = [rest EXCEPT ![w] = SubSeq(r, n + 1, Len(r))]
      /\ torn' = [u \in Writers |-> torn[u] \/ (u # w /\ Len(rest[u]) \in 1 .. 13)]
      /\ intact' = IF rest'[w] = <<>> /\ ~torn[w] THEN intact \union {q} ELSE intact
      /\ sending' = sending
  BY DEF Write, After, MidFrame
<1>2. wire \in Seq(Int) /\ Len(wire) \in Nat /\ r \in Seq(Int) /\ Len(r) \in Nat
  BY LenProperties DEF WireInv
<1>3. WriterInv(w)
  <2>1. r # <<>>
    BY <1>1, EmptySeq
  <2> QED
    BY <2>1 DEF WireInv
<1>4. /\ q \in Short /\ k \in 0 .. 13 /\ Len(r) = 14 - k
      /\ r = SubSeq(Buff(q), k + 1, 14)
  BY <1>2, <1>3 DEF WriterInv, Sent
<1>5. \A i \in 1 .. 14 - k : r[i] = Buff(q)[k + i]
  BY <1>4, BuffBytes
<1> HIDE DEF r, k
<1>6. /\ t \in Seq(Int) /\ Len(t) = n
      /\ \A i \in 1 .. n : t[i] = Buff(q)[k + i]
  <2>1. \A i \in 1 .. n : r[i] \in Int
    BY <1>1, <1>2, ElementOfSeq
  <2>2. /\ t \in Seq(Int) /\ Len(t) = IF 1 <= n THEN n - 1 + 1 ELSE 0
        /\ \A i \in 1 .. n - 1 + 1 : t[i] = r[1 + i - 1]
    BY <2>1, SubSeqProperties
  <2> HIDE DEF t
  <2>3. Len(t) = n /\ \A i \in 1 .. n : t[i] = r[i]
    BY <2>2
  <2>4. \A i \in 1 .. n : i \in 1 .. 14 - k
    BY <1>1, <1>4
  <2> QED
    BY <1>5, <2>2, <2>3, <2>4
<1> HIDE DEF t
<1>7. /\ wire' \in Seq(Int) /\ Len(wire') = Len(wire) + n
      /\ \A i \in 1 .. Len(wire) : wire'[i] = wire[i]
      /\ \A i \in 1 .. n : wire'[Len(wire) + i] = t[i]
  <2>1. /\ wire' \in Seq(Int) /\ Len(wire') = Len(wire) + Len(t)
        /\ \A i \in 1 .. Len(wire) + Len(t) :
              wire'[i] = IF i <= Len(wire) THEN wire[i] ELSE t[i - Len(wire)]
    BY <1>1, <1>2, <1>6, Concat
  <2>2. ASSUME NEW i \in 1 .. Len(wire) PROVE wire'[i] = wire[i]
    BY <1>2, <1>6, <2>1, SMTT(30)
  <2>3. ASSUME NEW i \in 1 .. n PROVE wire'[Len(wire) + i] = t[i]
    <3>1. /\ Len(wire) + i \in 1 .. Len(wire) + Len(t) /\ ~(Len(wire) + i <= Len(wire))
          /\ (Len(wire) + i) - Len(wire) = i
      BY <1>2, <1>6
    <3> QED
      BY <2>1, <3>1
  <2> QED
    BY <1>6, <2>1, <2>2, <2>3
<1>8. /\ rest' \in [Writers -> Seq(Int)]
      /\ n < Len(r) => rest'[w] = SubSeq(Buff(q), (k + n) + 1, 14) /\ Len(rest'[w]) = 14 - (k + n)
      /\ n = Len(r) => rest'[w] = <<>>
  <2> DEFINE s == SubSeq(r, n + 1, Len(r))
  <2>1. /\ s \in Seq(Int)
        /\ Len(s) = IF n + 1 <= Len(r) THEN Len(r) - (n + 1) + 1 ELSE 0
        /\ \A i \in 1 .. Len(r) - (n + 1) + 1 : s[i] = r[(n + 1) + i - 1]
    <3>1. \A i \in n + 1 .. Len(r) : r[i] \in Int
      BY <1>2, ElementOfSeq
    <3> QED
      BY <1>2, <3>1, SubSeqProperties
  <2>2. n = Len(r) => s = <<>>
    BY <1>2, SubSeqEmpty
  <2>3. rest'[w] = s /\ rest' \in [Writers -> Seq(Int)]
    BY <1>1, <2>1 DEF WireInv
  <2> HIDE DEF s
  <2>4. ASSUME n < Len(r) PROVE s = SubSeq(Buff(q), (k + n) + 1, 14) /\ Len(s) = 14 - (k + n)
    <3> DEFINE m == k + n
               c == SubSeq(Buff(q), m + 1, 14)
    <3>1. m \in 0 .. 13
      BY <1>4, <2>4
    <3>2. c \in Seq(Int) /\ Len(c) = 14 - m /\ \A i \in 1 .. 14 - m : c[i] = Buff(q)[m + i]
      BY <1>4, <3>1, BuffBytes
    <3> HIDE DEF c
    <3>3. Len(s) = 14 - m
      BY <1>4, <2>1, <2>4
    <3>4. ASSUME NEW i \in 1 .. 14 - m PROVE s[i] = c[i]
      <4>1. i \in 1 .. Len(r) - (n + 1) + 1 /\ (n + 1) + i - 1 = n + i
        BY <1>4
      <4>2. n + i \in 1 .. 14 - k /\ k + (n + i) = m + i
        BY <1>4
      <4>3. s[i] = r[n + i]
        BY <2>1, <4>1
      <4>4. r[n + i] = Buff(q)[m + i]
        BY <1>5, <4>2
      <4> QED
        BY <3>2, <4>3, <4>4
    <3>5. s = c
      BY <2>1, <3>2, <3>3, <3>4, SeqEqual
    <3> QED
      BY <3>3, <3>5 DEF c
  <2> QED
    BY <2>2, <2>3, <2>4
<1>9. \A i \in 1 .. n : wire'[Len(wire) + i] = Buff(q)[k + i]
  BY <1>6, <1>7
<1>10. n <= Len(r)
  BY <1>1, <1>2
<1> HIDE DEF q
<1> QED
  BY <1>2, <1>4, <1>7, <1>8, <1>9, <1>10, Zenon DEF k, r, q

LEMMA WriteKeeps ==
    ASSUME WireInv, NEW w \in Writers, NEW n \in 1 .. 14, Write(w, n) PROVE WireInv'
<1> DEFINE k == Sent(w)
           q == sending[w]
           r == rest[w]
<1>1. /\ torn' = [u \in Writers |-> torn[u] \/ (u # w /\ Len(rest[u]) \in 1 .. 13)]
      /\ intact' = IF rest'[w] = <<>> /\ ~torn[w] THEN intact \union {q} ELSE intact
      /\ sending' = sending /\ n \in 1 .. Len(r)
      /\ \A u \in Writers : u # w => rest'[u] = rest[u]
  BY DEF Write, After, MidFrame, WireInv
<1>2. wire \in Seq(Int) /\ Len(wire) \in Nat /\ r \in Seq(Int) /\ Len(r) \in Nat
  BY LenProperties DEF WireInv
<1>3. WriterInv(w)
  <2>1. r # <<>>
    BY <1>1, EmptySeq
  <2> QED
    BY <2>1 DEF WireInv
<1>4. q \in Short /\ k \in 0 .. 13 /\ Len(r) = 14 - k
  BY WriteBytes
<1>6. \A i \in 1 .. n : wire'[Len(wire) + i] = Buff(q)[k + i]
  BY WriteBytes
<1>7. /\ wire' \in Seq(Int) /\ Len(wire') = Len(wire) + n
      /\ \A i \in 1 .. Len(wire) : wire'[i] = wire[i]
  BY WriteBytes
<1>8. /\ rest' \in [Writers -> Seq(Int)]
      /\ n < Len(r) => rest'[w] = SubSeq(Buff(q), (k + n) + 1, 14) /\ Len(rest'[w]) = 14 - (k + n)
      /\ n = Len(r) => rest'[w] = <<>>
  BY WriteBytes
<1> HIDE DEF r, k
<1>9. ASSUME ~torn[w]
      PROVE  /\ k + n <= Len(wire')
             /\ \A j \in 1 .. k + n : wire'[Len(wire') - (k + n) + j] = Buff(q)[j]
  <2>1. k <= Len(wire) /\ \A j \in 1 .. k : wire[Len(wire) - k + j] = Buff(q)[j]
    BY <1>3, <1>9 DEF WriterInv, k
  <2>2. k + n <= Len(wire')
    BY <1>2, <1>4, <1>7, <2>1
  <2>3. ASSUME NEW j \in 1 .. k + n PROVE wire'[Len(wire') - (k + n) + j] = Buff(q)[j]
    <3>1. Len(wire') - (k + n) + j = Len(wire) - k + j
      BY <1>2, <1>4, <1>7
    <3>2. CASE j <= k
      <4>1. \A l \in Nat : \A i \in 0 .. l : \A e \in 1 .. i : l - i + e \in 1 .. l
        OBVIOUS
      <4>2. j \in 1 .. k /\ k \in 0 .. Len(wire)
        <5> DEFINE lw == Len(wire)
        <5>1. lw \in Nat /\ k \in 0 .. 13 /\ n \in 1 .. 14 /\ k <= lw
          BY <1>2, <1>4, <2>1
        <5>2. j \in 1 .. k + n /\ j <= k
          BY <2>3, <3>2
        <5> HIDE DEF lw
        <5>3. j \in 1 .. k /\ k \in 0 .. lw
          BY ONLY <5>1, <5>2
        <5> QED
          BY <5>3 DEF lw
      <4>3. Len(wire) - k + j \in 1 .. Len(wire)
        BY <1>2, <4>1, <4>2
      <4> QED
        BY <1>7, <2>1, <3>1, <4>2, <4>3
    <3>3. CASE ~(j <= k)
      <4>1. j - k \in 1 .. n /\ Len(wire) - k + j = Len(wire) + (j - k) /\ k + (j - k) = j
        BY <1>2, <1>4, <3>3
      <4> QED
        BY <1>6, <1>7, <3>1, <4>1
    <3> QED
      BY <3>2, <3>3
  <2> QED
    BY <2>2, <2>3
<1>10. ASSUME NEW u \in Writers, rest'[u] # <<>> PROVE WriterInv(u)'
  <2>1. CASE u = w
    <3>1. n < Len(r)
      BY <1>1, <1>2, <1>8, <1>10, <2>1
    <3>2. Sent(w)' = k + n /\ k + n \in 0 .. 13
      BY <1>4, <1>8, <3>1 DEF Sent
    <3>3. (~torn'[w] => ~torn[w]) /\ sending'[w] = q
      BY <1>1
    <3> QED
      BY <1>4, <1>8, <1>9, <2>1, <3>1, <3>2, <3>3 DEF WriterInv
  <2>2. CASE u # w
    <3>1. rest'[u] = rest[u] /\ sending'[u] = sending[u]
      BY <1>1, <2>2
    <3>2. WriterInv(u)
      BY <1>10, <3>1 DEF WireInv
    <3>3. Sent(u)' = Sent(u)
      BY <3>1 DEF Sent
    <3>4. ~torn'[u] => Sent(u) = 0
      <4>1. ~torn'[u] => Len(rest[u]) \notin 1 .. 13
        BY <1>1, <2>2
      <4>2. Len(rest[u]) \in Nat
        BY LenProperties DEF WireInv
      <4>3. Sent(u) \in 0 .. 13 /\ Sent(u) = 14 - Len(rest[u])
        BY <3>2 DEF WriterInv, Sent
      <4>4. \A l \in Nat, s \in 0 .. 13 : s = 14 - l /\ s # 0 => l \in 1 .. 13
        OBVIOUS
      <4>5. Sent(u) # 0 => Len(rest[u]) \in 1 .. 13
        BY <4>2, <4>3, <4>4
      <4> QED
        BY <4>1, <4>5
    <3>5. Len(wire') \in Nat
      BY <1>2, <1>7
    <3> QED
      BY <3>1, <3>2, <3>3, <3>4, <3>5 DEF WriterInv
  <2> QED
    BY <2>1, <2>2
<1>11. ASSUME NEW p \in intact'
       PROVE  \E i \in 0 .. Len(wire') - 14 :
                 p \in Short /\ \A j \in 1 .. 14 : wire'[i + j] = Buff(p)[j]
  <2>1. CASE p \in intact
    <3>1. PICK i \in 0 .. Len(wire) - 14 :
             p \in Short /\ \A j \in 1 .. 14 : wire[i + j] = Buff(p)[j]
      BY <2>1 DEF WireInv
    <3>2. i \in 0 .. Len(wire') - 14 /\ \A j \in 1 .. 14 : i + j \in 1 .. Len(wire)
      <4>1. \A l \in Nat, m \in Nat :
               l <= m => \A e \in 0 .. l - 14 :
                            e \in 0 .. m - 14 /\ \A j \in 1 .. 14 : e + j \in 1 .. l
        OBVIOUS
      <4>2. Len(wire') \in Nat /\ Len(wire) <= Len(wire')
        BY <1>2, <1>7
      <4> QED
        BY <1>2, <4>1, <4>2
    <3> QED
      BY <1>7, <3>1, <3>2
  <2>2. CASE p \notin intact
    <3>1. p = q /\ ~torn[w] /\ rest'[w] = <<>>
      BY <1>1, <1>11, <2>2
    <3>2. n = Len(r)
      <4>1. n < Len(r) => Len(rest'[w]) = 14 - (k + n) /\ 14 - (k + n) > 0
        BY <1>4, <1>8
      <4>2. Len(rest'[w]) = 0
        BY <3>1, EmptySeq
      <4> QED
        BY <1>1, <1>2, <4>1, <4>2
    <3>3. k + n = 14
      BY <1>4, <3>2
    <3>4. /\ 14 <= Len(wire') /\ \A j \in 1 .. 14 : wire'[Len(wire') - 14 + j] = Buff(p)[j]
      BY <1>9, <3>1, <3>3
    <3>5. Len(wire') - 14 \in 0 .. Len(wire') - 14
      <4>1. Len(wire') \in Int
        BY <1>2, <1>7
      <4>2. \A l \in Int : 14 <= l => l - 14 \in 0 .. l - 14
        OBVIOUS
      <4> QED
        BY <3>4, <4>1, <4>2
    <3> QED
      BY <1>4, <3>1, <3>4, <3>5
  <2> QED
    BY <2>1, <2>2
<1>12. DOMAIN sending' = Writers /\ DOMAIN torn' = Writers
  BY <1>1 DEF WireInv
<1> QED
  BY <1>7, <1>8, <1>10, <1>11, <1>12 DEF WireInv

\* A frame that no other thread wrote into is found by the receiver and sets it
\* to the period asked for, however many threads, calls and short writes there
\* are and whatever pieces of frames came before.
THEOREM IntactFramesApplied == FrameSpec => []IntactApplied
<1>1. FrameInit => WireInv
  BY WireInit
<1>2. WireInv /\ [FrameNext]_frameVars => WireInv'
  <2> SUFFICES ASSUME WireInv, [FrameNext]_frameVars PROVE WireInv'
    OBVIOUS
  <2>1. CASE FrameNext
    BY <2>1, CallKeeps, FailureKeeps, WriteKeeps DEF FrameNext
  <2>2. CASE UNCHANGED frameVars
    BY <2>2 DEF frameVars, WireInv, WriterInv, Sent
  <2> QED
    BY <2>1, <2>2
<1> QED
  BY <1>1, <1>2, IntactFollows, PTL DEF FrameSpec

-----------------------------------------------------------------------------
(* Frames in turn: what the wire looks like until one is torn              *)

\* The wire as pieces of frames: place[i] is the place of byte i in its frame and
\* per[i] the frame's period.  A piece begins with its frame and does not end
\* between the header and the two bytes of the period.
Pieces(place, per) ==
    /\ place \in [1 .. Len(wire) -> 1 .. 14]
    /\ per \in [1 .. Len(wire) -> asked]
    /\ \A i \in 1 .. Len(wire) : wire[i] = Buff(per[i])[place[i]]
    /\ \A i \in 1 .. Len(wire) - 1 :
          \/ place[i + 1] = place[i] + 1 /\ per[i + 1] = per[i]
          \/ place[i + 1] = 1 /\ place[i] \notin {6, 7}

\* The last byte is where the writer that is inside its frame has got to; with
\* no such writer it is not the end of a bare header.
EndsWith(place, per) ==
    /\ \A w \in Writers : MidFrame(w) =>
          /\ Len(wire) >= 1
          /\ place[Len(wire)] = Sent(w) /\ per[Len(wire)] = sending[w]
    /\ (\A w \in Writers : ~MidFrame(w)) => Len(wire) = 0 \/ place[Len(wire)] \notin {6, 7}

InTurnInv ==
    /\ asked \subseteq Short
    /\ \A w \in Writers : rest[w] # <<>> => sending[w] \in asked
    /\ \A u, w \in Writers : MidFrame(u) /\ MidFrame(w) => u = w
    /\ \E place, per : Pieces(place, per) /\ EndsWith(place, per)

\* Where a frame can have the bytes of the header.
LEMMA HeaderBytes ==
    ASSUME NEW p \in Short, NEW a \in 1 .. 14
    PROVE  /\ Buff(p)[a] = 181 => a \in {1, 7, 8, 13, 14}
           /\ a = 1 => Buff(p)[a] = 181
           /\ a = 9 => Buff(p)[a] = 1
<1>1. /\ Buff(p)[1] = 181 /\ Buff(p)[2] = 98 /\ Buff(p)[3] = 6 /\ Buff(p)[4] = 8
      /\ Buff(p)[5] = 6 /\ Buff(p)[6] = 0 /\ Buff(p)[9] = 1 /\ Buff(p)[10] = 0
      /\ Buff(p)[11] = 1 /\ Buff(p)[12] = 0
  BY BuffIs
<1>2. a \in {1, 2, 3, 4, 5, 6, 7, 8, 9, 10, 11, 12, 13, 14}
  OBVIOUS
<1> QED
  BY <1>1, <1>2

\* The header of CFG-RATE is found only where a frame begins, and the two bytes
\* behind it are those of that frame's period.
LEMMA HeaderAligned ==
    ASSUME NEW place, NEW per, Pieces(place, per), asked \subseteq Short,
           NEW i \in 1 .. Len(wire) - 13, Len(wire) \in Nat,
           wire[i] = 181, wire[i + 1] = 98, wire[i + 2] = 6, wire[i + 3] = 8,
           wire[i + 4] = 6, wire[i + 5] = 0
    PROVE  \E p \in asked : wire[i + 6] = Buff(p)[7] /\ wire[i + 7] = Buff(p)[8]
<1> DEFINE P(j) == per[i + j]
           A(j) == place[i + j]
           W(j) == wire[i + j]
<1>1. ASSUME NEW j \in 0 .. 7
      PROVE  /\ P(j) \in Short /\ P(j) \in asked /\ A(j) \in 1 .. 14
             /\ W(j) = Buff(P(j))[A(j)]
  <2> DEFINE e == i + j
  <2>1. e \in 1 .. Len(wire)
    OBVIOUS
  <2> HIDE DEF e
  <2>2. per[e] \in asked /\ place[e] \in 1 .. 14
    <3>1. /\ per \in [1 .. Len(wire) -> asked]
          /\ place \in [1 .. Len(wire) -> 1 .. 14]
      BY DEF Pieces
    <3> QED
      BY <2>1, <3>1
  <2>3. wire[e] = Buff(per[e])[place[e]]
    BY <2>1 DEF Pieces
  <2>4. per[e] \in Short
    BY <2>2
  <2> QED
    BY <2>2, <2>3, <2>4 DEF e
<1>2. ASSUME NEW j \in 0 .. 6
      PROVE  \/ A(j + 1) = A(j) + 1 /\ P(j + 1) = P(j)
             \/ A(j + 1) = 1 /\ A(j) \notin {6, 7}
  <2>1. i + j \in 1 .. Len(wire) - 1 /\ i + (j + 1) = (i + j) + 1
    OBVIOUS
  <2> QED
    BY <2>1 DEF Pieces
<1>3. ASSUME NEW j \in 0 .. 7
      PROVE  /\ W(j) = 181 => A(j) \in {1, 7, 8, 13, 14}
             /\ A(j) = 1 => W(j) = 181
             /\ A(j) = 9 => W(j) = 1
  <2> DEFINE p == P(j)
             a == A(j)
  <2>1. p \in Short /\ a \in 1 .. 14 /\ W(j) = Buff(p)[a]
    BY <1>1
  <2> HIDE DEF p, a
  <2>2. /\ Buff(p)[a] = 181 => a \in {1, 7, 8, 13, 14}
        /\ a = 1 => Buff(p)[a] = 181
        /\ a = 9 => Buff(p)[a] = 1
    BY <2>1, HeaderBytes
  <2> QED
    BY <2>1, <2>2 DEF p, a
<1>4. /\ W(0) = 181 /\ W(1) = 98 /\ W(2) = 6 /\ W(3) = 8 /\ W(4) = 6 /\ W(5) = 0
  <2>1. i + 0 = i
    OBVIOUS
  <2> QED
    BY <2>1
<1> HIDE DEF A, P, W
<1>5. /\ A(1) # 1 /\ A(2) # 1 /\ A(3) # 1 /\ A(4) # 1 /\ A(5) # 1 /\ A(2) # 9 /\ A(1) # 9
  BY <1>3, <1>4
<1>6. A(0) \in {1, 7, 8, 13, 14}
  BY <1>3, <1>4
<1>7. /\ A(1) = A(0) + 1 /\ A(2) = A(1) + 1 /\ A(3) = A(2) + 1
      /\ A(4) = A(3) + 1 /\ A(5) = A(4) + 1
      /\ P(1) = P(0) /\ P(2) = P(1) /\ P(3) = P(2) /\ P(4) = P(3) /\ P(5) = P(4)
  <2>0. ASSUME NEW j \in 0 .. 6, NEW l, l = j + 1, A(l) # 1
        PROVE  A(l) = A(j) + 1 /\ P(l) = P(j)
    BY <1>2, <2>0
  <2>1. A(1) = A(0) + 1 /\ P(1) = P(0)
    BY <1>5, <2>0, 0 + 1 = 1
  <2>2. A(2) = A(1) + 1 /\ P(2) = P(1)
    BY <1>5, <2>0, 1 + 1 = 2
  <2>3. A(3) = A(2) + 1 /\ P(3) = P(2)
    BY <1>5, <2>0, 2 + 1 = 3
  <2>4. A(4) = A(3) + 1 /\ P(4) = P(3)
    BY <1>5, <2>0, 3 + 1 = 4
  <2>5. A(5) = A(4) + 1 /\ P(5) = P(4)
    BY <1>5, <2>0, 4 + 1 = 5
  <2> QED
    BY <2>1, <2>2, <2>3, <2>4, <2>5
<1>8. A(0) = 1
  <2>1. A(2) \in 1 .. 14 /\ A(1) \in 1 .. 14
    BY <1>1
  <2>2. A(1) = A(0) + 1 /\ A(2) = A(1) + 1 /\ A(2) # 9 /\ A(1) # 9
    BY <1>5, <1>7
  <2> DEFINE a == A(0)
             b == A(1)
             c == A(2)
  <2>3. /\ a \in {1, 7, 8, 13, 14} /\ b \in 1 .. 14 /\ c \in 1 .. 14
        /\ b = a + 1 /\ c = b + 1 /\ b # 9 /\ c # 9
    BY <1>6, <2>1, <2>2
  <2> HIDE DEF a, b, c
  <2>4. a = 1
    BY <2>3
  <2> QED
    BY <2>4 DEF a
<1>9. A(6) = 7 /\ P(6) = P(5) /\ A(7) = 8 /\ P(7) = P(6)
  <2>1. A(5) = 6
    BY <1>7, <1>8
  <2>2. A(6) = 7 /\ P(6) = P(5)
    <3>1. 5 \in 0 .. 6 /\ 5 + 1 = 6
      OBVIOUS
    <3> QED
      BY <1>2, <2>1, <3>1
  <2>3. 6 \in 0 .. 6 /\ 6 + 1 = 7
    OBVIOUS
  <2> QED
    BY <1>2, <2>2, <2>3
<1>10. P(0) \in asked /\ W(6) = Buff(P(6))[A(6)] /\ W(7) = Buff(P(7))[A(7)]
  BY <1>1
<1>11. P(6) = P(0) /\ P(7) = P(0)
  BY <1>7, <1>9
<1>12. W(6) = Buff(P(0))[7] /\ W(7) = Buff(P(0))[8]
  BY <1>9, <1>10, <1>11
<1> QED
  BY <1>10, <1>12 DEF W

\* Every frame the receiver finds is one that was written from its beginning.
LEMMA InTurnFollows == WireInv /\ InTurnInv => NoPhantomPeriod
<1> SUFFICES ASSUME WireInv, InTurnInv, NEW x \in Applied PROVE x \in asked
  BY DEF NoPhantomPeriod
<1>1. wire \in Seq(Int) /\ Len(wire) \in Nat
  BY LenProperties DEF WireInv
<1>2. PICK i \in 1 .. Len(wire) - 13 :
         LET b == SubSeq(wire, i, i + 13) IN IsFrame(b) /\ x = b[7] + 256 * b[8]
  BY DEF Applied
<1> DEFINE b == SubSeq(wire, i, i + 13)
<1>3. Len(b) = 14 /\ b \in Seq(Int) /\ \A j \in 1 .. 14 : b[j] = wire[i + j - 1]
  <2>1. \A e \in i .. i + 13 : wire[e] \in Int
    BY <1>1, ElementOfSeq
  <2>2. i \in Int /\ i + 13 \in Int
    OBVIOUS
  <2>3. /\ b \in Seq(Int) /\ Len(b) = IF i <= i + 13 THEN (i + 13) - i + 1 ELSE 0
        /\ \A j \in 1 .. (i + 13) - i + 1 : b[j] = wire[i + j - 1]
    BY <2>1, <2>2, SubSeqProperties
  <2>4. i <= i + 13 /\ (i + 13) - i + 1 = 14
    OBVIOUS
  <2> HIDE DEF b
  <2> QED
    BY <2>3, <2>4
<1>4. IsFrame(b) /\ x = b[7] + 256 * b[8]
  BY <1>2
<1> HIDE DEF b
<1>5. /\ b[1] = 181 /\ b[2] = 98 /\ b[3] = 6 /\ b[4] = 8 /\ b[5] = 6 /\ b[6] = 0
  <2> DEFINE h == SubSeq(b, 1, 6)
  <2>1. h = <<181, 98, 6, 8, 6, 0>>
    BY <1>4 DEF IsFrame
  <2>2. \A j \in 1 .. 6 : b[j] \in Int
    <3>1. \A j \in 1 .. 6 : j \in 1 .. 14
      OBVIOUS
    <3> QED
      BY <1>3, <3>1, ElementOfSeq
  <2>3. \A j \in 1 .. 6 : h[j] = b[j]
    BY <2>2, SubSeqProperties
  <2> HIDE DEF h
  <2>4. h[1] = 181 /\ h[2] = 98 /\ h[3] = 6 /\ h[4] = 8 /\ h[5] = 6 /\ h[6] = 0
    BY <2>1
  <2> QED
    BY <2>3, <2>4
<1>6. /\ wire[i] = 181 /\ wire[i + 1] = 98 /\ wire[i + 2] = 6 /\ wire[i + 3] = 8
      /\ wire[i + 4] = 6 /\ wire[i + 5] = 0 /\ wire[i + 6] = b[7] /\ wire[i + 7] = b[8]
  <2>1. /\ i + 1 - 1 = i /\ i + 2 - 1 = i + 1 /\ i + 3 - 1 = i + 2 /\ i + 4 - 1 = i + 3
        /\ i + 5 - 1 = i + 4 /\ i + 6 - 1 = i + 5 /\ i + 7 - 1 = i + 6 /\ i + 8 - 1 = i + 7
    OBVIOUS
  <2>2. ASSUME NEW j \in 1 .. 14, NEW e, e = i + j - 1 PROVE wire[e] = b[j]
    BY <1>3, <2>2
  <2>3. wire[i] = b[1] /\ wire[i + 1] = b[2] /\ wire[i + 2] = b[3]
    BY <2>1, <2>2
  <2>4. wire[i + 3] = b[4] /\ wire[i + 4] = b[5] /\ wire[i + 5] = b[6]
    BY <2>1, <2>2
  <2>5. wire[i + 6] = b[7] /\ wire[i + 7] = b[8]
    BY <2>1, <2>2
  <2> QED
    BY <1>5, <2>3, <2>4, <2>5
<1>7. PICK p \in asked : b[7] = Buff(p)[7] /\ b[8] = Buff(p)[8]
  <2>1. PICK place, per : Pieces(place, per)
    BY DEF InTurnInv
  <2>2. asked \subseteq Short
    BY DEF InTurnInv
  <2>3. \E p \in asked : wire[i + 6] = Buff(p)[7] /\ wire[i + 7] = Buff(p)[8]
    BY <1>1, <1>6, <2>1, <2>2, HeaderAligned, ZenonT(30)
  <2> QED
    BY <1>6, <2>3
<1>8. p \in Short /\ Buff(p)[7] + 256 * Buff(p)[8] = p
  BY FrameRecognised DEF InTurnInv
<1> QED
  BY <1>4, <1>7, <1>8

LEMMA InTurnCall ==
    ASSUME WireInv, InTurnInv, NEW w \in Writers, CallRate(w) PROVE InTurnInv'
<1>1. PICK p \in Periods :
         /\ sending' = [sending EXCEPT ![w] = p]
         /\ rest' = [rest EXCEPT ![w] = Buff(p)]
         /\ asked' = asked \union {p}
  BY DEF CallRate
<1>2. wire' = wire /\ rest[w] = <<>>
  BY DEF CallRate
<1>3. p \in Short /\ Len(Buff(p)) = 14
  BY PeriodsAreShort, BuffIs
<1>4. rest'[w] = Buff(p) /\ sending'[w] = p
  BY <1>1 DEF WireInv
<1>5. ASSUME NEW u \in Writers, u # w
      PROVE  rest'[u] = rest[u] /\ sending'[u] = sending[u]
  BY <1>1, <1>5 DEF WireInv
<1>6. ~MidFrame(w) /\ ~MidFrame(w)'
  <2>1. Len(rest[w]) = 0 /\ Len(rest'[w]) = 14
    BY <1>2, <1>3, <1>4, EmptySeq
  <2>2. 0 \notin 1 .. 13 /\ 14 \notin 1 .. 13
    OBVIOUS
  <2> QED
    BY <2>1, <2>2, Zenon DEF MidFrame
<1>7. ASSUME NEW u \in Writers
      PROVE  /\ MidFrame(u)' <=> MidFrame(u)
             /\ MidFrame(u) => Sent(u)' = Sent(u) /\ sending'[u] = sending[u]
  BY <1>5, <1>6 DEF MidFrame, Sent
<1>8. asked' \subseteq Short /\ asked \subseteq asked'
  BY <1>1, <1>3 DEF InTurnInv
<1>9. ASSUME NEW u \in Writers, rest'[u] # <<>> PROVE sending'[u] \in asked'
  BY <1>1, <1>4, <1>5, <1>9 DEF InTurnInv
<1>10. PICK place, per : Pieces(place, per) /\ EndsWith(place, per)
  BY DEF InTurnInv
<1>11. Pieces(place, per)'
  <2>1. per \in [1 .. Len(wire) -> asked']
    BY <1>8, <1>10 DEF Pieces
  <2> QED
    BY <1>2, <1>10, <2>1 DEF Pieces
<1>12. EndsWith(place, per)'
  BY <1>2, <1>7, <1>10 DEF EndsWith
<1>13. \A u, v \in Writers : MidFrame(u)' /\ MidFrame(v)' => u = v
  BY <1>7 DEF InTurnInv
<1> QED
  BY <1>8, <1>9, <1>11, <1>12, <1>13 DEF InTurnInv

\* A write that fails inside a frame leaves a piece that does not end between
\* the header and the period.
LEMMA InTurnFailure ==
    ASSUME WireInv, InTurnInv, NEW w \in Writers, WriteFails(w), Len(rest[w]) \notin {7, 8}
    PROVE  InTurnInv'
<1>1. /\ rest' = [rest EXCEPT ![w] = <<>>] /\ rest[w] # <<>>
      /\ sending' = sending /\ wire' = wire /\ asked' = asked
  BY DEF WriteFails
<1>2. rest'[w] = <<>> /\ \A u \in Writers : u # w => rest'[u] = rest[u]
  BY <1>1 DEF WireInv
<1>3. ~MidFrame(w)'
  BY <1>2 DEF MidFrame
<1>4. \A u \in Writers : u # w => (MidFrame(u)' <=> MidFrame(u)) /\ Sent(u)' = Sent(u)
  BY <1>2 DEF MidFrame, Sent
<1>5. PICK place, per : Pieces(place, per) /\ EndsWith(place, per)
  BY DEF InTurnInv
<1>6. Pieces(place, per)'
  BY <1>1, <1>5 DEF Pieces
<1>7. ASSUME \A u \in Writers : ~MidFrame(u)'
      PROVE  Len(wire) = 0 \/ place[Len(wire)] \notin {6, 7}
  <2>1. CASE MidFrame(w)
    <3>1. place[Len(wire)] = Sent(w)
      BY <1>5, <2>1 DEF EndsWith
    <3>2. Len(rest[w]) \in Nat /\ Sent(w) = 14 - Len(rest[w])
      BY LenProperties DEF WireInv, Sent
    <3>3. Sent(w) \notin {6, 7}
      <4> DEFINE e == Len(rest[w])
                 f == Sent(w)
      <4>1. e \in Nat /\ f = 14 - e /\ e \notin {7, 8}
        BY <3>2
      <4> HIDE DEF e, f
      <4>2. f \notin {6, 7}
        BY <4>1
      <4> QED
        BY <4>2 DEF f
    <3> QED
      BY <3>1, <3>3
  <2>2. CASE ~MidFrame(w)
    BY <1>4, <1>5, <1>7, <2>2 DEF EndsWith
  <2> QED
    BY <2>1, <2>2
<1>8. EndsWith(place, per)'
  <2>1. ASSUME NEW u \in Writers, MidFrame(u)'
        PROVE  /\ Len(wire) >= 1
               /\ place[Len(wire)] = Sent(u)' /\ per[Len(wire)] = sending[u]
    <3>1. u # w
      BY <1>3, <2>1
    <3>2. MidFrame(u) /\ Sent(u)' = Sent(u)
      BY <1>4, <2>1, <3>1
    <3> QED
      BY <1>5, <3>2 DEF EndsWith
  <2> QED
    BY <1>1, <1>7, <2>1 DEF EndsWith
<1>9. \A u, v \in Writers : MidFrame(u)' /\ MidFrame(v)' => u = v
  BY <1>3, <1>4 DEF InTurnInv
<1>10. \A u \in Writers : rest'[u] # <<>> => sending'[u] \in asked'
  BY <1>1, <1>2 DEF InTurnInv
<1> QED
  BY <1>1, <1>6, <1>8, <1>9, <1>10 DEF InTurnInv

\* The bytes of a write continue the writer's piece, or begin one.
LEMMA InTurnWrite ==
    ASSUME WireInv, InTurnInv, NEW w \in Writers, NEW n \in 1 .. 14, Write(w, n),
           \A u \in Writers \ {w} : ~MidFrame(u)
    PROVE  InTurnInv'
<1> DEFINE k == Sent(w)
           q == sending[w]
           l == Len(wire)
           m == Len(wire')
<1>1. PICK place, per : Pieces(place, per) /\ EndsWith(place, per)
  BY DEF InTurnInv
<1>2. /\ l \in Nat /\ k \in 0 .. 13 /\ k + n <= 14 /\ m = l + n
      /\ Len(rest[w]) = 14 - k
  <2>1. l \in Nat /\ k \in 0 .. 13 /\ m = l + n /\ Len(rest[w]) = 14 - k /\ n <= Len(rest[w])
    BY WriteBytes
  <2> HIDE DEF k, l, m
  <2>2. k + n <= 14
    BY <2>1
  <2> QED
    BY <2>1, <2>2
<1>3. /\ \A i \in 1 .. l : wire'[i] = wire[i]
      /\ \A i \in 1 .. n : wire'[l + i] = Buff(q)[k + i]
  BY WriteBytes
<1>4. sending' = sending /\ asked' = asked
  BY DEF Write
<1>5. \A u \in Writers : u # w => rest'[u] = rest[u] /\ ~MidFrame(u) /\ ~MidFrame(u)'
  <2>1. ASSUME NEW u \in Writers, u # w PROVE rest'[u] = rest[u]
    BY <2>1 DEF Write, WireInv
  <2> QED
    BY <2>1 DEF MidFrame
<1>6. /\ k + n < 14 => MidFrame(w)' /\ Sent(w)' = k + n
      /\ k + n = 14 => ~MidFrame(w)' /\ rest'[w] = <<>>
  <2>1. n < Len(rest[w]) => Len(rest'[w]) = 14 - (k + n)
    BY WriteBytes
  <2>2. n = Len(rest[w]) => rest'[w] = <<>>
    BY WriteBytes
  <2> DEFINE e == Len(rest[w])
             f == Len(rest'[w])
  <2>3. /\ k \in 0 .. 13 /\ e = 14 - k
        /\ n < e => f = 14 - (k + n)
        /\ n = e => rest'[w] = <<>> /\ f = 0
    BY <1>2, <2>1, <2>2, EmptySeq
  <2> HIDE DEF k, e, f
  <2>4. /\ k + n < 14 => f \in 1 .. 13 /\ 14 - f = k + n
        /\ k + n = 14 => rest'[w] = <<>> /\ f \notin 1 .. 13
    BY <2>3, SMTT(30)
  <2> QED
    BY <2>4 DEF MidFrame, Sent, f
<1>7. q \in asked
  <2>1. rest[w] # <<>>
    BY DEF Write
  <2> QED
    BY <2>1 DEF InTurnInv
<1>8. /\ k > 0 => l >= 1 /\ place[l] = k /\ per[l] = q
      /\ k = 0 => l = 0 \/ place[l] \notin {6, 7}
  <2>1. k > 0 => MidFrame(w)
    BY <1>2, SMTT(30) DEF MidFrame
  <2>2. k = 0 => ~MidFrame(w)
    BY <1>2, SMTT(30) DEF MidFrame
  <2>3. k = 0 => \A u \in Writers : ~MidFrame(u)
    BY <1>5, <2>2
  <2> QED
    BY <1>1, <2>1, <2>3 DEF EndsWith
<1> HIDE DEF k, q, l, m
<1>9. /\ place \in [1 .. l -> 1 .. 14] /\ per \in [1 .. l -> asked]
      /\ \A i \in 1 .. l : wire[i] = Buff(per[i])[place[i]]
      /\ \A i \in 1 .. l - 1 : \/ place[i + 1] = place[i] + 1 /\ per[i + 1] = per[i]
                               \/ place[i + 1] = 1 /\ place[i] \notin {6, 7}
  BY <1>1 DEF Pieces, l
<1> DEFINE pl == [i \in 1 .. m |-> IF i <= l THEN place[i] ELSE k + (i - l)]
           pr == [i \in 1 .. m |-> IF i <= l THEN per[i] ELSE q]
<1>10. ASSUME NEW i \in 1 .. m
       PROVE  /\ i <= l => pl[i] = place[i] /\ pr[i] = per[i] /\ i \in 1 .. l
              /\ ~(i <= l) => pl[i] = k + (i - l) /\ pr[i] = q /\ i - l \in 1 .. n
  BY <1>2
<1>11. pl \in [1 .. m -> 1 .. 14] /\ pr \in [1 .. m -> asked]
  <2>1. ASSUME NEW i \in 1 .. m
        PROVE  /\ (IF i <= l THEN place[i] ELSE k + (i - l)) \in 1 .. 14
               /\ (IF i <= l THEN per[i] ELSE q) \in asked
    <3>1. CASE i <= l
      <4>1. i \in 1 .. l
        BY <1>2, <3>1
      <4> QED
        BY <1>9, <3>1, <4>1
    <3>2. CASE ~(i <= l)
      <4>1. k + (i - l) \in 1 .. 14
        BY <1>2, <3>2
      <4> QED
        BY <1>7, <3>2, <4>1
    <3> QED
      BY <3>1, <3>2
  <2> QED
    BY <2>1
<1> HIDE DEF pl, pr
<1>12. ASSUME NEW i \in 1 .. m PROVE wire'[i] = Buff(pr[i])[pl[i]]
  <2>1. CASE i <= l
    BY <1>3, <1>9, <1>10, <2>1
  <2>2. CASE ~(i <= l)
    <3> DEFINE j == i - l
    <3>1. j \in 1 .. n /\ l + j = i
      BY <1>2, <1>10, <2>2
    <3>2. wire'[l + j] = Buff(q)[k + j]
      BY <1>3, <3>1
    <3> QED
      BY <1>10, <2>2, <3>1, <3>2
  <2> QED
    BY <2>1, <2>2
<1>13. ASSUME NEW i \in 1 .. m - 1
       PROVE  \/ pl[i + 1] = pl[i] + 1 /\ pr[i + 1] = pr[i]
              \/ pl[i + 1] = 1 /\ pl[i] \notin {6, 7}
  <2>0. i \in 1 .. m /\ i + 1 \in 1 .. m
    BY <1>2
  <2>1. CASE i + 1 <= l
    <3>1. i \in 1 .. l - 1 /\ i <= l
      BY <1>2, <2>1
    <3>2. pl[i] = place[i] /\ pr[i] = per[i] /\ pl[i + 1] = place[i + 1] /\ pr[i + 1] = per[i + 1]
      BY <1>10, <2>0, <2>1, <3>1
    <3>3. \/ place[i + 1] = place[i] + 1 /\ per[i + 1] = per[i]
          \/ place[i + 1] = 1 /\ place[i] \notin {6, 7}
      BY <1>9, <3>1
    <3> QED
      BY <3>2, <3>3
  <2>2. CASE i = l
    <3>1. pl[i] = place[l] /\ pr[i] = per[l] /\ pl[i + 1] = k + 1 /\ pr[i + 1] = q
      <4>1. i <= l /\ ~(i + 1 <= l) /\ (i + 1) - l = 1
        BY <1>2, <2>2
      <4> QED
        BY <1>10, <2>0, <2>2, <4>1
    <3>2. CASE k > 0
      BY <1>8, <3>1, <3>2
    <3>3. CASE k = 0
      BY <1>2, <1>8, <2>2, <3>1, <3>3
    <3> QED
      BY <1>2, <3>2, <3>3
  <2>3. CASE i > l
    <3>1. ~(i <= l) /\ ~(i + 1 <= l)
      BY <1>2, <2>3
    <3>2. pl[i] = k + (i - l) /\ pr[i] = q /\ pl[i + 1] = k + ((i + 1) - l) /\ pr[i + 1] = q
      BY <1>10, <2>0, <3>1
    <3>3. k + ((i + 1) - l) = (k + (i - l)) + 1
      BY <1>2
    <3> QED
      BY <3>2, <3>3
  <2> QED
    BY <1>2, <2>1, <2>2, <2>3
<1>14. pl[m] = k + n /\ pr[m] = q /\ m >= 1
  <2>1. m \in 1 .. m /\ ~(m <= l) /\ m - l = n
    BY <1>2
  <2> QED
    BY <1>10, <2>1
<1>15. PICK np, nr : np = pl /\ nr = pr
  OBVIOUS
<1>16. Pieces(np, nr)'
  <2>1. np \in [1 .. m -> 1 .. 14] /\ nr \in [1 .. m -> asked']
    BY <1>4, <1>11, <1>15
  <2>2. \A i \in 1 .. m : wire'[i] = Buff(nr[i])[np[i]]
    BY <1>12, <1>15
  <2>3. \A i \in 1 .. m - 1 : \/ np[i + 1] = np[i] + 1 /\ nr[i + 1] = nr[i]
                              \/ np[i + 1] = 1 /\ np[i] \notin {6, 7}
    BY <1>13, <1>15
  <2> QED
    BY <2>1, <2>2, <2>3 DEF Pieces, m
<1>17. EndsWith(np, nr)'
  <2>1. ASSUME NEW u \in Writers, MidFrame(u)'
        PROVE  m >= 1 /\ np[m] = Sent(u)' /\ nr[m] = sending'[u]
    <3>1. u = w /\ k + n < 14
      <4>1. u = w
        BY <1>5, <2>1
      <4>2. k + n # 14
        BY ONLY <1>6, <2>1, <4>1
      <4>3. k \in Int /\ n \in Int /\ k + n <= 14
        BY <1>2
      <4> HIDE DEF k
      <4>4. k + n < 14
        BY ONLY <4>2, <4>3
      <4> QED
        BY <4>1, <4>4
    <3> QED
      BY <1>4, <1>6, <1>14, <1>15, <3>1 DEF q
  <2>2. (\A u \in Writers : ~MidFrame(u)') => np[m] \notin {6, 7}
    <3>1. ~MidFrame(w)' => k + n = 14
      <4>1. k + n < 14 \/ k + n = 14
        BY <1>2
      <4>2. CASE k + n < 14
        <5>1. MidFrame(w)'
          BY ONLY <1>6, <4>2
        <5> QED
          BY ONLY <5>1
      <4>3. CASE k + n = 14
        BY ONLY <4>3
      <4> QED
        BY ONLY <4>1, <4>2, <4>3
    <3>2. 14 \notin {6, 7}
      OBVIOUS
    <3> QED
      BY <1>14, <1>15, <3>1, <3>2
  <2> QED
    BY <2>1, <2>2 DEF EndsWith, m
<1>18. \A u, v \in Writers : MidFrame(u)' /\ MidFrame(v)' => u = v
  BY <1>5
<1>19. \A u \in Writers : rest'[u] # <<>> => sending'[u] \in asked'
  BY <1>4, <1>5, <1>7 DEF InTurnInv, q
<1> QED
  BY <1>4, <1>16, <1>17, <1>18, <1>19 DEF InTurnInv

\* A step in turn keeps the frames on the wire in pieces.
LEMMA InTurnStep ==
    ASSUME WireInv, InTurnInv, FrameNext, inTurn' PROVE InTurnInv'
<1>1. ASSUME NEW w \in Writers, CallRate(w) PROVE InTurnInv'
  BY <1>1, InTurnCall
<1>2. ASSUME NEW w \in Writers, WriteFails(w) PROVE InTurnInv'
  <2>1. Len(rest[w]) \notin {7, 8}
    BY <1>2 DEF WriteFails
  <2> QED
    BY <1>2, <2>1, InTurnFailure
<1>3. ASSUME NEW w \in Writers, NEW n \in 1 .. 14, Write(w, n) PROVE InTurnInv'
  <2>1. \A u \in Writers \ {w} : ~MidFrame(u)
    BY <1>3 DEF Write
  <2> QED
    BY <1>3, <2>1, InTurnWrite
<1> QED
  BY <1>1, <1>2, <1>3 DEF FrameNext

\* What was out of turn stays on the wire.
LEMMA TearsStay == [FrameNext]_frameVars /\ inTurn' => inTurn
  BY DEF FrameNext, CallRate, WriteFails, Write, frameVars

\* A period nobody asked for is obeyed only after a thread wrote inside another's
\* frame or a write failed with six or seven bytes out, for any threads, periods,
\* numbers of calls and pieces of frames.
THEOREM PhantomsNeedTears == FrameSpec => []PhantomNeedsTear
<1> DEFINE Inv == WireInv /\ (inTurn => InTurnInv)
<1>1. FrameInit => Inv
  <2> SUFFICES ASSUME FrameInit PROVE WireInv /\ InTurnInv
    OBVIOUS
  <2>1. /\ rest = [w \in Writers |-> <<>>] /\ wire = <<>> /\ asked = {}
    BY DEF FrameInit
  <2>2. \A w \in Writers : rest[w] = <<>> /\ ~MidFrame(w)
    BY <2>1 DEF MidFrame
  <2>3. Len(wire) = 0
    BY <2>1
  <2> DEFINE none == [i \in 1 .. 0 |-> 1]
  <2>4. Pieces(none, none) /\ EndsWith(none, none)
    <3>1. 1 .. 0 = {} /\ 1 .. 0 - 1 = {}
      OBVIOUS
    <3> QED
      BY <2>1, <2>2, <2>3, <3>1 DEF Pieces, EndsWith
  <2>5. InTurnInv
    BY <2>1, <2>2, <2>4 DEF InTurnInv
  <2> QED
    BY <2>5, WireInit
<1>2. Inv /\ [FrameNext]_frameVars => Inv'
  <2> SUFFICES ASSUME Inv, [FrameNext]_frameVars PROVE Inv'
    OBVIOUS
  <2>1. WireInv'
    <3>1. CASE FrameNext
      BY <3>1, CallKeeps, FailureKeeps, WriteKeeps DEF FrameNext
    <3>2. CASE UNCHANGED frameVars
      BY <3>2 DEF frameVars, WireInv, WriterInv, Sent
    <3> QED
      BY <3>1, <3>2
  <2>2. ASSUME inTurn' PROVE InTurnInv'
    <3>1. InTurnInv
      BY <2>2, TearsStay
    <3>2. CASE FrameNext
      BY <2>2, <3>1, <3>2, InTurnStep
    <3>3. CASE UNCHANGED frameVars
      <4>1. PICK place, per : Pieces(place, per) /\ EndsWith(place, per)
        BY <3>1 DEF InTurnInv
      <4>2. Pieces(place, per)'
        BY <3>3, <4>1 DEF frameVars, Pieces
      <4>3. \A w \in Writers : (MidFrame(w)' <=> MidFrame(w)) /\ Sent(w)' = Sent(w)
        BY <3>3 DEF frameVars, MidFrame, Sent
      <4>4. EndsWith(place, per)'
        BY <3>3, <4>1, <4>3 DEF frameVars, EndsWith
      <4> QED
        BY <3>1, <3>3, <4>2, <4>3, <4>4 DEF frameVars, InTurnInv
    <3> QED
      BY <3>2, <3>3
  <2> QED
    BY <2>1, <2>2
<1>3. Inv => PhantomNeedsTear
  BY InTurnFollows DEF PhantomNeedsTear
<1> QED
  BY <1>1, <1>2, <1>3, PTL DEF FrameSpec
=============================================================================
