--------------------------- MODULE NmeaFixProofs ---------------------------
(* Theorems of NmeaFix, for any set of sentence orders and any losses.     *)
EXTENDS NmeaFix, TLAPS

\* NoAltitudeIn2D with what makes it inductive: count is a number, and while
\* it is 0 nothing of this cycle is recorded as sent.
MaskInv ==
    /\ count \in Nat
    /\ (count = 0 => sent = NoLocation)
    /\ NoAltitudeIn2D

\* The tail of parseSentence keeps the invariant if the sentence has masked
\* the altitude, or nothing is due, or GSA is not known (NmeaParser.cpp:381-387).
LEMMA FinishKeepsMask ==
    ASSUME NEW sendFix, NEW newFlags, NEW written, NEW haveGsa,
           MaskInv, UNCHANGED fixNow,
           Finish(sendFix, newFlags, written, haveGsa),
           sendFix /\ haveGsa /\ fixNow = "2D" => "altitude" \notin newFlags
    PROVE  MaskInv'
<1>1. CASE sendFix /\ "latLong" \in newFlags
    <2>1. /\ count' = count + 1
          /\ sent'.flags = newFlags
          /\ sent'.haveGsa = haveGsa
        BY <1>1 DEF Finish
    <2> QED
        BY <1>1, <2>1 DEF MaskInv, NoAltitudeIn2D
<1>2. CASE ~(sendFix /\ "latLong" \in newFlags)
    BY <1>2 DEF Finish, MaskInv, NoAltitudeIn2D, NoLocation
<1> QED
    BY <1>1, <1>2

\* In a 2D cycle no altitude is sent once GSA sentences are known, whatever
\* the order of the sentences and whichever are lost (NmeaParser.cpp:218-236).
THEOREM NoAltitudeSentIn2D == Spec => []NoAltitudeIn2D
<1>1. Init => MaskInv
    BY DEF Init, CycleBegins, MaskInv, NoAltitudeIn2D
<1>2. MaskInv /\ [Next]_fixVars => MaskInv'
    <2> SUFFICES ASSUME MaskInv, [Next]_fixVars
                 PROVE  MaskInv'
        OBVIOUS
    <2>1. CASE GGA
        \* While GSA is unknown the location says so; afterwards none is due.
        <3> DEFINE due(hdop) == ~mHaveGsa /\ hdop # "empty"
                   new(alt, hdop) ==
                       (IF HasFix THEN {"latLong"} ELSE {})
                       \union (IF HasFix /\ alt THEN {"altitude"} ELSE {})
                       \union (IF due(hdop) /\ hdop = "good" /\ HasFix THEN {"accuracy"} ELSE {})
        <3>1. PICK alt \in BOOLEAN, hdop \in Hdops :
                Finish(due(hdop), flags \union new(alt, hdop), new(alt, hdop), mHaveGsa)
            BY <2>1 DEF GGA
        <3>2. ~(due(hdop) /\ mHaveGsa)
            OBVIOUS
        <3>3. UNCHANGED fixNow
            BY <2>1 DEF GGA, SentenceArrives
        <3> HIDE DEF due, new
        <3> QED
            BY <3>1, <3>2, <3>3, FinishKeepsMask
    <2>2. CASE GSA
        <3> DEFINE masked == IF fixNow = "2D" THEN flags \ {"altitude"} ELSE flags
                   accuracy(hdop) == IF HasFix /\ hdop = "good" THEN {"accuracy"} ELSE {}
        <3>1. PICK hdop \in Hdops : Finish(TRUE, masked \union accuracy(hdop), accuracy(hdop),
            TRUE)
            BY <2>2 DEF GSA
        <3>2. fixNow = "2D" => "altitude" \notin masked \union accuracy(hdop)
            OBVIOUS
        <3>3. UNCHANGED fixNow
            BY <2>2 DEF GSA, SentenceArrives
        <3> HIDE DEF masked, accuracy
        <3> QED
            BY <3>1, <3>2, <3>3, FinishKeepsMask
    <2>3. CASE RMC
        <3>1. PICK motion \in SUBSET {"bearing", "speed"} :
                LET new  == IF HasFix THEN {"latLong"} \union motion ELSE {}
                    time == IF HasFix THEN {"time"} ELSE {}
                IN  Finish(FALSE, flags \union new, new \union time, mHaveGsa)
            BY <2>3 DEF RMC
        <3> QED
            BY <2>3, <3>1, FinishKeepsMask DEF RMC, SentenceArrives
    <2>4. CASE VTG
        <3>1. PICK motion \in SUBSET {"bearing", "speed"} :
                LET new == IF HasFix THEN motion ELSE {}
                IN  Finish(FALSE, flags \union new, new, mHaveGsa)
            BY <2>4 DEF VTG
        <3> QED
            BY <2>4, <3>1, FinishKeepsMask DEF VTG, SentenceArrives
    <2>5. CASE Lose
        BY <2>5 DEF Lose, MaskInv, NoAltitudeIn2D
    <2>6. CASE NextCycle
        BY <2>6 DEF NextCycle, MaskInv, NoAltitudeIn2D
    <2>7. CASE UNCHANGED fixVars
        BY <2>7 DEF fixVars, MaskInv, NoAltitudeIn2D
    <2> QED
        BY <2>1, <2>2, <2>3, <2>4, <2>5, <2>6, <2>7 DEF Next
<1>3. MaskInv => NoAltitudeIn2D
    BY DEF MaskInv
<1> QED
    BY <1>1, <1>2, <1>3, PTL DEF Spec

-----------------------------------------------------------------------------
(* The type invariant, in groups that are disturbed together, with what     *)
(* bounds count: every sentence of a cycle counts at most one location.     *)

Locations == [flags: SUBSET Fields, ages: [Values -> 0 .. MaxAge], haveGsa: BOOLEAN]

ParserTypes ==
    /\ flags \in SUBSET Fields
    /\ ages \in [Values -> 0 .. MaxAge]
    /\ mHaveGsa \in BOOLEAN

HistoryTypes == gsaSeen \in BOOLEAN /\ lost \in BOOLEAN

CycleTypes == order \in Orders /\ fixNow \in Fixes /\ next \in 1 .. Len(order) + 1

CountTypes == count \in Nat /\ count < next

FixTypeInv == ParserTypes /\ HistoryTypes /\ CycleTypes /\ sent \in Locations /\ CountTypes

LEMMA OrderLength ==
    ASSUME order \in Orders
    PROVE  Len(order) \in Nat /\ Len(order) > 0
<1>1. order \in Seq({"GGA", "GSA", "RMC", "VTG"}) /\ order # <<>>
    BY NmeaFixAssumption
<1> QED
    BY <1>1

LEMMA FixTypeInvTypes == FixTypeInv => NmeaFixTypeOK
<1> SUFFICES ASSUME FixTypeInv PROVE NmeaFixTypeOK
    OBVIOUS
<1>1. Len(order) \in Nat
    BY OrderLength DEF FixTypeInv, CycleTypes
<1>2. count \in 0 .. Len(order)
    BY <1>1 DEF FixTypeInv, CycleTypes, CountTypes
<1> QED
    BY <1>2 DEF FixTypeInv, ParserTypes, HistoryTypes, CycleTypes, Locations, NmeaFixTypeOK

\* A new location is a location.
LEMMA AgesOfSentence ==
    ASSUME ages \in [Values -> 0 .. MaxAge], NEW written
    PROVE  [f \in Values |-> IF f \in written THEN 0 ELSE ages[f]] \in [Values -> 0 .. MaxAge]
<1>1. 0 \in 0 .. MaxAge
    BY NmeaFixAssumption
<1> QED
    BY <1>1

\* What SentenceArrives leaves and advances.
LEMMA ArrivalKeepsCycle ==
    ASSUME NEW type, CycleTypes, SentenceArrives(type)
    PROVE  CycleTypes' /\ next' = next + 1
<1>1. /\ next <= Len(order) /\ next' = next + 1
      /\ order' = order /\ fixNow' = fixNow
    BY DEF SentenceArrives
<1>2. Len(order) \in Nat
    BY OrderLength DEF CycleTypes
<1>3. next + 1 \in 1 .. Len(order) + 1
    BY <1>1, <1>2 DEF CycleTypes
<1> QED
    BY <1>1, <1>3 DEF CycleTypes

\* The tail of parseSentence keeps the types of a parser whose flags are among
\* the five (NmeaParser.cpp:381-387).
LEMMA FinishKeepsTypes ==
    ASSUME NEW type, FixTypeInv, SentenceArrives(type),
           NEW sendFix, NEW newFlags \in SUBSET Fields, NEW written, NEW haveGsa \in BOOLEAN,
           mHaveGsa' \in BOOLEAN, gsaSeen' \in BOOLEAN,
           Finish(sendFix, newFlags, written, haveGsa)
    PROVE  FixTypeInv'
<1> DEFINE newAges == [f \in Values |-> IF f \in written THEN 0 ELSE ages[f]]
<1>1. newAges \in [Values -> 0 .. MaxAge]
    BY AgesOfSentence DEF FixTypeInv, ParserTypes
<1>2. /\ ages' = newAges /\ flags' \in SUBSET Fields
      /\ \/ sent' = sent /\ count' = count
         \/ /\ sent' = [flags |-> newFlags, ages |-> newAges, haveGsa |-> haveGsa]
            /\ count' = count + 1
    BY DEF Finish
<1> HIDE DEF newAges
<1>3. ParserTypes'
    BY <1>1, <1>2 DEF ParserTypes
<1>4. HistoryTypes'
    BY DEF FixTypeInv, HistoryTypes, SentenceArrives
<1>5. CycleTypes' /\ next' = next + 1
    BY ArrivalKeepsCycle DEF FixTypeInv
<1>6. sent' \in Locations
    BY <1>1, <1>2 DEF Locations, FixTypeInv
<1>7. Locations' = Locations
    BY DEF Locations
<1>8. CountTypes'
    <2>1. count' \in {count, count + 1}
        BY <1>2
    <2>2. next \in Int /\ count \in Nat /\ count < next
        BY DEF FixTypeInv, CycleTypes, CountTypes
    <2> QED
        BY <1>5, <2>1, <2>2 DEF CountTypes
<1> QED
    BY <1>3, <1>4, <1>5, <1>6, <1>7, <1>8 DEF FixTypeInv

\* The parser's state, the history and what is sent keep their types.
LEMMA FixTypesHold == Spec => []FixTypeInv
<1>1. Init => FixTypeInv
    <2> SUFFICES ASSUME Init PROVE FixTypeInv
        OBVIOUS
    <2>1. MaxAge \in 0 .. MaxAge
        BY NmeaFixAssumption
    <2>2. ParserTypes /\ HistoryTypes
        BY <2>1 DEF Init, CycleBegins, ParserTypes, HistoryTypes
    <2>3. order \in Orders /\ fixNow \in Fixes /\ next = 1 /\ count = 0 /\ sent = NoLocation
        BY DEF Init, CycleBegins
    <2>4. CycleTypes /\ CountTypes
        BY <2>3, OrderLength DEF CycleTypes, CountTypes
    <2>5. sent \in Locations
        BY <2>1, <2>3 DEF NoLocation, Locations
    <2> QED
        BY <2>2, <2>4, <2>5 DEF FixTypeInv
<1>2. FixTypeInv /\ [Next]_fixVars => FixTypeInv'
    <2> SUFFICES ASSUME FixTypeInv, [Next]_fixVars PROVE FixTypeInv'
        OBVIOUS
    <2>0. flags \in SUBSET Fields /\ mHaveGsa \in BOOLEAN /\ gsaSeen \in BOOLEAN
        BY DEF FixTypeInv, ParserTypes, HistoryTypes
    <2>1. CASE GGA
      <3>1. \E sendFix, written : \E newFlags \in SUBSET Fields : Finish(sendFix, newFlags,
          written, mHaveGsa)
        <4>1. PICK alt \in BOOLEAN, hdop \in Hdops :
                LET position == IF HasFix THEN {"latLong"} ELSE {}
                    altitude == IF HasFix /\ alt THEN {"altitude"} ELSE {}
                    due      == ~mHaveGsa /\ hdop # "empty"
                    accuracy == IF due /\ hdop = "good" /\ HasFix THEN {"accuracy"} ELSE {}
                    new      == position \union altitude \union accuracy
                IN  Finish(due, flags \union new, new, mHaveGsa)
          BY <2>1 DEF GGA
        <4> DEFINE new == (IF HasFix THEN {"latLong"} ELSE {})
                          \union (IF HasFix /\ alt THEN {"altitude"} ELSE {})
                          \union (IF (~mHaveGsa /\ hdop # "empty") /\ hdop = "good" /\ HasFix
                                  THEN {"accuracy"} ELSE {})
        <4>2. flags \union new \in SUBSET Fields
          BY <2>0 DEF Fields
        <4>3. Finish(~mHaveGsa /\ hdop # "empty", flags \union new, new, mHaveGsa)
          BY <4>1
        <4> HIDE DEF new
        <4> QED BY <4>2, <4>3
      <3> QED
        BY <2>0, <2>1, <3>1, FinishKeepsTypes DEF GGA
    <2>2. CASE GSA
      <3>1. PICK hdop \in Hdops :
              LET masked   == IF fixNow = "2D" THEN flags \ {"altitude"} ELSE flags
                  accuracy == IF HasFix /\ hdop = "good" THEN {"accuracy"} ELSE {}
              IN  Finish(TRUE, masked \union accuracy, accuracy, TRUE)
        BY <2>2 DEF GSA
      <3> DEFINE accuracy == IF HasFix /\ hdop = "good" THEN {"accuracy"} ELSE {}
                 newFlags == (IF fixNow = "2D" THEN flags \ {"altitude"} ELSE flags) \union accuracy
      <3>2. newFlags \in SUBSET Fields
        BY <2>0 DEF Fields
      <3>3. Finish(TRUE, newFlags, accuracy, TRUE)
        BY <3>1
      <3> HIDE DEF accuracy, newFlags
      <3> QED
        BY <2>2, <3>2, <3>3, FinishKeepsTypes DEF GSA
    <2>3. CASE RMC
      <3>1. PICK motion \in SUBSET {"bearing", "speed"} :
              LET new  == IF HasFix THEN {"latLong"} \union motion ELSE {}
                  time == IF HasFix THEN {"time"} ELSE {}
              IN  Finish(FALSE, flags \union new, new \union time, mHaveGsa)
        BY <2>3 DEF RMC
      <3> DEFINE new     == IF HasFix THEN {"latLong"} \union motion ELSE {}
                 written == new \union (IF HasFix THEN {"time"} ELSE {})
      <3>2. flags \union new \in SUBSET Fields
        BY <2>0 DEF Fields
      <3>3. Finish(FALSE, flags \union new, written, mHaveGsa)
        BY <3>1
      <3> HIDE DEF new, written
      <3> QED
        BY <2>0, <2>3, <3>2, <3>3, FinishKeepsTypes DEF RMC
    <2>4. CASE VTG
      <3>1. PICK motion \in SUBSET {"bearing", "speed"} :
              LET new == IF HasFix THEN motion ELSE {}
              IN  Finish(FALSE, flags \union new, new, mHaveGsa)
        BY <2>4 DEF VTG
      <3> DEFINE new == IF HasFix THEN motion ELSE {}
      <3>2. flags \union new \in SUBSET Fields
        BY <2>0 DEF Fields
      <3>3. Finish(FALSE, flags \union new, new, mHaveGsa)
        BY <3>1
      <3> HIDE DEF new
      <3> QED
        BY <2>0, <2>4, <3>2, <3>3, FinishKeepsTypes DEF VTG
    <2>5. CASE Lose
        <3>1. Len(order) \in Nat
            BY OrderLength DEF FixTypeInv, CycleTypes
        <3>2. next + 1 \in 1 .. Len(order) + 1
            BY <2>5, <3>1 DEF Lose, FixTypeInv, CycleTypes
        <3>3. CycleTypes'
            BY <2>5, <3>2 DEF Lose, FixTypeInv, CycleTypes
        <3>4. count \in Nat /\ count < next + 1
            BY DEF FixTypeInv, CycleTypes, CountTypes
        <3>5. CountTypes'
            BY <2>5, <3>4 DEF Lose, CountTypes
        <3>6. ParserTypes' /\ HistoryTypes' /\ sent' \in Locations
            BY <2>5 DEF Lose, FixTypeInv, ParserTypes, HistoryTypes
        <3> QED
            BY <3>3, <3>5, <3>6 DEF FixTypeInv, Locations
    <2>6. CASE NextCycle
        <3>1. MaxAge \in Nat /\ MaxAge \in 0 .. MaxAge
            BY NmeaFixAssumption
        <3>2. \A a \in 0 .. MaxAge : (IF a < MaxAge THEN a + 1 ELSE MaxAge) \in 0 .. MaxAge
            BY <3>1
        <3>3. [f \in Values |-> IF ages[f] < MaxAge THEN ages[f] + 1 ELSE MaxAge]
                  \in [Values -> 0 .. MaxAge]
            BY <3>2 DEF FixTypeInv, ParserTypes
        <3>4. ParserTypes' /\ HistoryTypes'
            BY <2>6, <3>3 DEF NextCycle, FixTypeInv, ParserTypes, HistoryTypes
        <3>5. CycleTypes' /\ CountTypes'
            <4>1. Len(order) \in Nat /\ Len(order) > 0
                BY OrderLength DEF FixTypeInv, CycleTypes
            <4> QED
                BY <2>6, <4>1 DEF NextCycle, FixTypeInv, CycleTypes, CountTypes
        <3>6. sent' \in Locations
            BY <2>6, <3>1 DEF NextCycle, NoLocation, Locations
        <3> QED
            BY <3>4, <3>5, <3>6 DEF FixTypeInv, Locations
    <2>7. CASE UNCHANGED fixVars
        BY <2>7 DEF fixVars, FixTypeInv, ParserTypes, HistoryTypes, CycleTypes, CountTypes,
           Locations
    <2> QED
        BY <2>1, <2>2, <2>3, <2>4, <2>5, <2>6, <2>7 DEF Next
<1> QED
    BY <1>1, <1>2, PTL DEF Spec

\* The accumulator and what is sent keep their types, and no cycle sends more
\* locations than it has sentences, for any orders, ages and losses.
THEOREM FixTypeCorrect == Spec => []NmeaFixTypeOK
BY FixTypesHold, FixTypeInvTypes, PTL

-----------------------------------------------------------------------------
(* What is sent in a cycle, for the orders of sentences the theorems name.  *)

SentenceTypes == {"GGA", "GSA", "RMC", "VTG"}

\* What parsing one sentence does to flags, ages and the location sent: the
\* tail of parseSentence with the sentence's own part put in.
Parses(type, due, newFlags, written) ==
    /\ next <= Len(order) /\ order[next] = type /\ next' = next + 1
    /\ order' = order /\ fixNow' = fixNow /\ lost' = lost
    /\ mHaveGsa' = IF type = "GSA" THEN TRUE ELSE mHaveGsa
    /\ gsaSeen' = IF type = "GSA" THEN TRUE ELSE gsaSeen
    /\ ages' = [f \in Values |-> IF f \in written THEN 0 ELSE ages[f]]
    /\ IF due /\ "latLong" \in newFlags
       THEN /\ sent'.flags = newFlags /\ sent'.ages = ages' /\ count' = count + 1 /\ flags' = {}
       ELSE flags' = newFlags /\ sent' = sent /\ count' = count
    \* who can be due, and who writes a position
    /\ due => type = "GSA" \/ (type = "GGA" /\ ~mHaveGsa)
    /\ type = "GSA" => due
    /\ "latLong" \in newFlags <=> "latLong" \in flags \/ (HasFix /\ type \in PositionSentences)
    /\ "latLong" \in written <=> HasFix /\ type \in PositionSentences
    /\ "time" \in written <=> HasFix /\ type = "RMC"

\* Every handler is one of these (NmeaParser.cpp:172-387).
LEMMA HandlerParses ==
    ASSUME mHaveGsa \in BOOLEAN, gsaSeen \in BOOLEAN, GGA \/ GSA \/ RMC \/ VTG
    PROVE  \E type \in SentenceTypes, due \in BOOLEAN : \E newFlags, written :
             Parses(type, due, newFlags, written)
<1>1. CASE GGA
  <2>1. PICK alt \in BOOLEAN, hdop \in Hdops :
          LET position == IF HasFix THEN {"latLong"} ELSE {}
              altitude == IF HasFix /\ alt THEN {"altitude"} ELSE {}
              due      == ~mHaveGsa /\ hdop # "empty"
              accuracy == IF due /\ hdop = "good" /\ HasFix THEN {"accuracy"} ELSE {}
              new      == position \union altitude \union accuracy
          IN  Finish(due, flags \union new, new, mHaveGsa)
    BY <1>1 DEF GGA
  <2> DEFINE due == ~mHaveGsa /\ hdop # "empty"
             new == (IF HasFix THEN {"latLong"} ELSE {})
                    \union (IF HasFix /\ alt THEN {"altitude"} ELSE {})
                    \union (IF due /\ hdop = "good" /\ HasFix THEN {"accuracy"} ELSE {})
  <2>2. Finish(due, flags \union new, new, mHaveGsa)
    BY <2>1
  <2>3. ("latLong" \in new <=> HasFix) /\ "time" \notin new
    OBVIOUS
  <2>4. due \in BOOLEAN /\ (due => ~mHaveGsa)
    OBVIOUS
  <2> HIDE DEF due, new
  <2>5. Parses("GGA", due, flags \union new, new)
    BY <1>1, <2>2, <2>3, <2>4 DEF GGA, SentenceArrives, Finish, Parses, PositionSentences
  <2> QED
    BY <2>4, <2>5 DEF SentenceTypes
<1>2. CASE GSA
  <2>1. PICK hdop \in Hdops :
          LET masked   == IF fixNow = "2D" THEN flags \ {"altitude"} ELSE flags
              accuracy == IF HasFix /\ hdop = "good" THEN {"accuracy"} ELSE {}
          IN  Finish(TRUE, masked \union accuracy, accuracy, TRUE)
    BY <1>2 DEF GSA
  <2> DEFINE accuracy == IF HasFix /\ hdop = "good" THEN {"accuracy"} ELSE {}
             new == (IF fixNow = "2D" THEN flags \ {"altitude"} ELSE flags) \union accuracy
  <2>2. Finish(TRUE, new, accuracy, TRUE)
    BY <2>1
  <2>3. /\ "latLong" \in new <=> "latLong" \in flags
        /\ "latLong" \notin accuracy /\ "time" \notin accuracy
    OBVIOUS
  <2> HIDE DEF accuracy, new
  <2>4. Parses("GSA", TRUE, new, accuracy)
    BY <1>2, <2>2, <2>3 DEF GSA, SentenceArrives, Finish, Parses, PositionSentences
  <2> QED
    BY <2>4 DEF SentenceTypes
<1>3. CASE RMC
  <2>1. PICK motion \in SUBSET {"bearing", "speed"} :
          LET new  == IF HasFix THEN {"latLong"} \union motion ELSE {}
              time == IF HasFix THEN {"time"} ELSE {}
          IN  Finish(FALSE, flags \union new, new \union time, mHaveGsa)
    BY <1>3 DEF RMC
  <2> DEFINE new == IF HasFix THEN {"latLong"} \union motion ELSE {}
             written == new \union (IF HasFix THEN {"time"} ELSE {})
  <2>2. Finish(FALSE, flags \union new, written, mHaveGsa)
    BY <2>1
  <2>3. /\ "latLong" \in new <=> HasFix
        /\ "latLong" \in written <=> HasFix
        /\ "time" \in written <=> HasFix
    OBVIOUS
  <2> HIDE DEF new, written
  <2>4. Parses("RMC", FALSE, flags \union new, written)
    BY <1>3, <2>2, <2>3 DEF RMC, SentenceArrives, Finish, Parses, PositionSentences
  <2> QED
    BY <2>4 DEF SentenceTypes
<1>4. CASE VTG
  <2>1. PICK motion \in SUBSET {"bearing", "speed"} :
          LET new == IF HasFix THEN motion ELSE {}
          IN  Finish(FALSE, flags \union new, new, mHaveGsa)
    BY <1>4 DEF VTG
  <2> DEFINE new == IF HasFix THEN motion ELSE {}
  <2>2. Finish(FALSE, flags \union new, new, mHaveGsa)
    BY <2>1
  <2>3. "latLong" \notin new /\ "time" \notin new
    OBVIOUS
  <2> HIDE DEF new
  <2>4. Parses("VTG", FALSE, flags \union new, new)
    BY <1>4, <2>2, <2>3 DEF VTG, SentenceArrives, Finish, Parses, PositionSentences
  <2> QED
    BY <2>4 DEF SentenceTypes
<1> QED
  BY <1>1, <1>2, <1>3, <1>4

\* The sentences of the cycle that are behind the receiver.
PositionArrived == \E j \in 1 .. next - 1 : order[j] \in PositionSentences
GsaArrived      == \E k \in 1 .. next - 1 : order[k] = "GSA"

LEMMA IndexTypes ==
    ASSUME FixTypeInv
    PROVE  /\ next \in Nat /\ next > 0 /\ next - 1 \in Nat
           /\ Len(order) \in Nat /\ order \in Orders
BY OrderLength DEF FixTypeInv, CycleTypes

\* One sentence on.
LEMMA ArrivedAfter ==
    ASSUME FixTypeInv, NEW type, next' = next + 1, order' = order, order[next] = type
    PROVE  /\ PositionArrived' <=> PositionArrived \/ type \in PositionSentences
           /\ GsaArrived' <=> GsaArrived \/ type = "GSA"
<1>1. 1 .. next' - 1 = (1 .. next - 1) \union {next}
  BY IndexTypes
<1> QED
  BY <1>1 DEF PositionArrived, GsaArrived, PositionSentences

\* A location sent means one sentence sent it, and any position accumulated
\* since came with a later sentence.
OnceInv ==
    /\ count \in {0, 1}
    /\ count = 1 =>
         \E i \in 1 .. next - 1 :
           /\ order[i] = "GGA" \/ (order[i] = "GSA" /\ mHaveGsa)
           /\ "latLong" \in flags =>
                \E j \in i + 1 .. next - 1 : order[j] \in PositionSentences

LEMMA OnceParses ==
    ASSUME \A o \in Orders : ReportsOnce(o), FixTypeInv, OnceInv,
           NEW type \in SentenceTypes, NEW due \in BOOLEAN, NEW newFlags, NEW written,
           Parses(type, due, newFlags, written)
    PROVE  OnceInv'
<1>0. /\ next \in Nat /\ next > 0 /\ Len(order) \in Nat /\ order \in Orders
      /\ next \in 1 .. Len(order) /\ mHaveGsa \in BOOLEAN
  BY IndexTypes DEF FixTypeInv, CycleTypes, ParserTypes, Parses
<1>1. /\ order[next] = type /\ next' = next + 1 /\ order' = order
      /\ mHaveGsa' = IF type = "GSA" THEN TRUE ELSE mHaveGsa
      /\ due => type = "GSA" \/ (type = "GGA" /\ ~mHaveGsa)
      /\ "latLong" \in newFlags => "latLong" \in flags \/ type \in PositionSentences
  BY DEF Parses
<1>2. next' - 1 = next /\ next \in 1 .. next /\ \A i \in 1 .. next - 1 : i \in 1 .. next
  BY <1>0, <1>1
<1>3. CASE due /\ "latLong" \in newFlags
  <2>1. count' = count + 1 /\ flags' = {}
    BY <1>3 DEF Parses
  <2>2. ASSUME count = 1 PROVE FALSE
    <3>1. PICK i \in 1 .. next - 1 :
            /\ order[i] = "GGA" \/ (order[i] = "GSA" /\ mHaveGsa)
            /\ "latLong" \in flags =>
                 \E j \in i + 1 .. next - 1 : order[j] \in PositionSentences
      BY <2>2 DEF OnceInv
    <3>2. i \in 1 .. Len(order) /\ i < next
      BY <1>0
    <3>3. CASE type = "GSA"
      <4>1. "latLong" \in flags
        BY <1>1, <1>3, <3>3 DEF PositionSentences
      <4>2. PICK j \in i + 1 .. next - 1 : order[j] \in PositionSentences
        BY <3>1, <4>1
      <4>3. j \in 1 .. Len(order) /\ i < j /\ j < next
        BY <1>0, <3>2
      <4> QED
        BY <1>0, <1>1, <3>1, <3>2, <3>3, <4>2, <4>3 DEF ReportsOnce
    <3>4. CASE type = "GGA" /\ ~mHaveGsa
      BY <1>0, <1>1, <3>1, <3>2, <3>4 DEF ReportsOnce
    <3> QED
      BY <1>1, <1>3, <3>3, <3>4
  <2>3. count' = 1
    BY <2>1, <2>2 DEF OnceInv
  <2>4. order'[next] = "GGA" \/ (order'[next] = "GSA" /\ mHaveGsa')
    BY <1>1, <1>3
  <2> QED
    BY <1>2, <2>1, <2>3, <2>4 DEF OnceInv
<1>4. CASE ~(due /\ "latLong" \in newFlags)
  <2>1. count' = count /\ flags' = newFlags
    BY <1>4 DEF Parses
  <2>2. ASSUME count = 1
        PROVE  \E i \in 1 .. next' - 1 :
                 /\ order'[i] = "GGA" \/ (order'[i] = "GSA" /\ mHaveGsa')
                 /\ "latLong" \in flags' =>
                      \E j \in i + 1 .. next' - 1 : order'[j] \in PositionSentences
    <3>1. PICK i \in 1 .. next - 1 :
            /\ order[i] = "GGA" \/ (order[i] = "GSA" /\ mHaveGsa)
            /\ "latLong" \in flags =>
                 \E j \in i + 1 .. next - 1 : order[j] \in PositionSentences
      BY <2>2 DEF OnceInv
    <3>2. order'[i] = "GGA" \/ (order'[i] = "GSA" /\ mHaveGsa')
      BY <1>1, <3>1
    <3>3. /\ next \in i + 1 .. next' - 1
          /\ \A j \in i + 1 .. next - 1 : j \in i + 1 .. next' - 1
      BY <1>0, <1>1
    <3>4. ASSUME "latLong" \in flags'
          PROVE  \E j \in i + 1 .. next' - 1 : order'[j] \in PositionSentences
      <4>1. "latLong" \in flags \/ type \in PositionSentences
        BY <1>1, <2>1, <3>4
      <4> QED
        BY <1>1, <3>1, <3>3, <4>1
    <3> QED
      BY <1>2, <3>2, <3>4
  <2> QED
    BY <2>1, <2>2 DEF OnceInv
<1> QED
  BY <1>3, <1>4

\* Receivers that have no position between two sentences that can send one get
\* one location per cycle at most, whichever sentences are lost.
THEOREM OneFixAtMost == (\A o \in Orders : ReportsOnce(o)) /\ Spec => []OneFixPerCycle
<1> SUFFICES ASSUME \A o \in Orders : ReportsOnce(o) PROVE Spec => []OneFixPerCycle
  OBVIOUS
<1>1. Init => OnceInv
  BY DEF Init, CycleBegins, OnceInv
<1>2. FixTypeInv /\ OnceInv /\ [Next]_fixVars => OnceInv'
  <2> SUFFICES ASSUME FixTypeInv, OnceInv, [Next]_fixVars PROVE OnceInv'
    OBVIOUS
  <2>1. CASE GGA \/ GSA \/ RMC \/ VTG
    BY <2>1, HandlerParses, OnceParses DEF FixTypeInv, ParserTypes, HistoryTypes
  <2>2. CASE Lose
    <3>1. \A i \in 1 .. next - 1 : /\ i \in 1 .. next' - 1
                                   /\ i + 1 .. next - 1 \subseteq i + 1 .. next' - 1
      BY <2>2, IndexTypes DEF Lose
    <3>2. UNCHANGED <<order, flags, count, mHaveGsa>>
      BY <2>2 DEF Lose
    <3> QED
      BY <3>1, <3>2 DEF OnceInv
  <2>3. CASE NextCycle
    BY <2>3 DEF NextCycle, OnceInv
  <2>4. CASE UNCHANGED fixVars
    BY <2>4 DEF fixVars, OnceInv
  <2> QED
    BY <2>1, <2>2, <2>3, <2>4 DEF Next
<1>3. OnceInv => OneFixPerCycle
  BY DEF OnceInv, OneFixPerCycle
<1> QED
  BY <1>1, <1>2, <1>3, FixTypesHold, PTL DEF Spec

\* In a cycle with a fix, until it loses a sentence: once a position arrived it
\* is this cycle's, it was sent or waits to be, and what was sent is no older.
FreshInv ==
    /\ count > 0 => "latLong" \in sent.flags
    /\ gsaSeen => GsaArrived
    /\ ~lost /\ HasFix =>
         /\ PositionArrived => ages["latLong"] = 0
         /\ PositionArrived => "latLong" \in flags \/ count > 0
         /\ count > 0 => sent.ages["latLong"] = 0
         /\ GsaArrived => count > 0

LEMMA FreshParses ==
    ASSUME \A o \in Orders : PositionFirst(o), FixTypeInv, FreshInv,
           NEW type \in SentenceTypes, NEW due \in BOOLEAN, NEW newFlags, NEW written,
           Parses(type, due, newFlags, written)
    PROVE  FreshInv'
<1>0. /\ order \in Orders /\ next \in 1 .. Len(order) /\ count \in Nat
      /\ gsaSeen \in BOOLEAN /\ lost \in BOOLEAN
  BY IndexTypes DEF FixTypeInv, CycleTypes, CountTypes, HistoryTypes, Parses
<1>1. /\ order[next] = type /\ next' = next + 1 /\ order' = order /\ lost' = lost
      /\ gsaSeen' = IF type = "GSA" THEN TRUE ELSE gsaSeen
      /\ due => type = "GSA" \/ type = "GGA"
      /\ type = "GSA" => due
      /\ "latLong" \in newFlags <=> "latLong" \in flags \/ (HasFix /\ type \in PositionSentences)
  BY DEF Parses
<1>2. HasFix' <=> HasFix
  BY DEF Parses, HasFix
<1>3. /\ PositionArrived' <=> PositionArrived \/ type \in PositionSentences
      /\ GsaArrived' <=> GsaArrived \/ type = "GSA"
  BY <1>1, ArrivedAfter
<1>4. ages'["latLong"] = IF HasFix /\ type \in PositionSentences THEN 0 ELSE ages["latLong"]
  BY DEF Parses, Values, Fields
<1>5. type = "GSA" => PositionArrived
  BY <1>0, <1>1 DEF PositionFirst, PositionArrived
<1>6. type = "GGA" => type \in PositionSentences
  BY DEF PositionSentences
<1>7. \/ /\ due /\ "latLong" \in newFlags
         /\ sent'.flags = newFlags /\ sent'.ages = ages' /\ count' = count + 1
      \/ /\ ~(due /\ "latLong" \in newFlags)
         /\ flags' = newFlags /\ sent' = sent /\ count' = count
  BY DEF Parses
<1>8. gsaSeen' => GsaArrived'
  BY <1>1, <1>3 DEF FreshInv
<1>9. count' > 0 => "latLong" \in sent'.flags
  BY <1>7 DEF FreshInv
<1>10. ASSUME ~lost, HasFix
       PROVE  /\ PositionArrived' => ages'["latLong"] = 0
              /\ PositionArrived' => "latLong" \in flags' \/ count' > 0
              /\ count' > 0 => sent'.ages["latLong"] = 0
              /\ GsaArrived' => count' > 0
  <2>1. PositionArrived' => ages'["latLong"] = 0
    BY <1>3, <1>4, <1>10 DEF FreshInv
  <2>2. PositionArrived' => "latLong" \in newFlags \/ count > 0
    BY <1>1, <1>3, <1>10 DEF FreshInv
  <2>3. PositionArrived' => "latLong" \in flags' \/ count' > 0
    BY <1>0, <1>7, <2>2
  <2>4. due => PositionArrived'
    BY <1>1, <1>3, <1>5, <1>6
  <2>5. count' > 0 => sent'.ages["latLong"] = 0
    BY <1>7, <1>10, <2>1, <2>4 DEF FreshInv
  <2>6. GsaArrived' => count' > 0
    BY <1>0, <1>1, <1>3, <1>7, <1>10, <2>2, <2>4 DEF FreshInv
  <2> QED
    BY <2>1, <2>3, <2>5, <2>6
<1> QED
  BY <1>1, <1>2, <1>8, <1>9, <1>10 DEF FreshInv

LEMMA FreshStep ==
    ASSUME \A o \in Orders : PositionFirst(o), FixTypeInv, FreshInv, [Next]_fixVars
    PROVE  FreshInv'
<1>1. CASE GGA \/ GSA \/ RMC \/ VTG
  BY <1>1, HandlerParses, FreshParses DEF FixTypeInv, ParserTypes, HistoryTypes
<1>2. CASE Lose
  <2>1. GsaArrived => GsaArrived'
    BY <1>2, IndexTypes DEF Lose, GsaArrived
  <2>2. lost' = TRUE /\ UNCHANGED <<count, sent, gsaSeen>>
    BY <1>2 DEF Lose
  <2> QED
    BY <2>1, <2>2 DEF FreshInv
<1>3. CASE NextCycle
  BY <1>3 DEF NextCycle, FreshInv, PositionArrived, GsaArrived
<1>4. CASE UNCHANGED fixVars
  BY <1>4 DEF fixVars, FreshInv, PositionArrived, GsaArrived, HasFix
<1> QED
  BY <1>1, <1>2, <1>3, <1>4 DEF Next

LEMMA FreshInit == Init => FreshInv
BY DEF Init, CycleBegins, FreshInv, PositionArrived, GsaArrived

\* Receivers that send a position before any GSA have every fix reported in
\* its cycle, if the cycle arrives complete, whatever was lost before.
THEOREM FixesReported == (\A o \in Orders : PositionFirst(o)) /\ Spec => []EveryFixReported
<1> SUFFICES ASSUME \A o \in Orders : PositionFirst(o) PROVE Spec => []EveryFixReported
  OBVIOUS
<1>1. FreshInv => EveryFixReported
  BY DEF FreshInv, EveryFixReported
<1> QED
  BY <1>1, FreshInit, FreshStep, FixTypesHold, PTL DEF Spec

\* In a cycle with a fix that begins with RMC, until it loses a sentence: the time
\* is this cycle's once RMC was parsed, and what was sent has it.
TimeInv ==
    ~lost /\ HasFix /\ order[1] = "RMC" =>
      /\ next > 1 => ages["time"] = 0
      /\ count > 0 => sent.ages["time"] = 0

LEMMA TimeParses ==
    ASSUME FixTypeInv, TimeInv,
           NEW type \in SentenceTypes, NEW due \in BOOLEAN, NEW newFlags, NEW written,
           Parses(type, due, newFlags, written)
    PROVE  TimeInv'
<1>0. next \in Nat /\ next > 0 /\ count \in Nat /\ lost \in BOOLEAN
  BY IndexTypes DEF FixTypeInv, CountTypes, HistoryTypes
<1>1. order[next] = type /\ next' = next + 1 /\ order' = order /\ lost' = lost
  BY DEF Parses
<1>2. HasFix' <=> HasFix
  BY DEF Parses, HasFix
<1>3. ages'["time"] = IF HasFix /\ type = "RMC" THEN 0 ELSE ages["time"]
  BY DEF Parses, Values, Fields
<1>4. sent'.ages = ages' \/ (sent' = sent /\ count' = count)
  BY DEF Parses
<1>5. ASSUME ~lost, HasFix, order[1] = "RMC"
      PROVE  ages'["time"] = 0 /\ (count' > 0 => sent'.ages["time"] = 0)
  <2>1. ages'["time"] = 0
    BY <1>0, <1>1, <1>3, <1>5 DEF TimeInv
  <2> QED
    BY <1>4, <1>5, <2>1 DEF TimeInv
<1> QED
  BY <1>1, <1>2, <1>5 DEF TimeInv

LEMMA TimeStep == ASSUME FixTypeInv, TimeInv, [Next]_fixVars PROVE TimeInv'
<1>1. CASE GGA \/ GSA \/ RMC \/ VTG
  BY <1>1, HandlerParses, TimeParses DEF FixTypeInv, ParserTypes, HistoryTypes
<1>2. CASE Lose
  BY <1>2 DEF Lose, TimeInv
<1>3. CASE NextCycle
  <2>1. next' = 1 /\ count' = 0
    BY <1>3 DEF NextCycle
  <2> QED
    BY <2>1 DEF TimeInv
<1>4. CASE UNCHANGED fixVars
  BY <1>4 DEF fixVars, TimeInv, HasFix
<1> QED
  BY <1>1, <1>2, <1>3, <1>4 DEF Next

\* For receivers that send a position before any GSA, a location of a cycle with
\* a fix is this cycle's, if the cycle arrives complete; one whose cycle begins
\* with RMC has its own cycle's timestamp.
THEOREM LocationsAreFresh == (\A o \in Orders : PositionFirst(o)) /\ Spec => []LocationAge
<1> SUFFICES ASSUME \A o \in Orders : PositionFirst(o) PROVE Spec => []LocationAge
  OBVIOUS
<1>1. Init => TimeInv
  BY DEF Init, CycleBegins, TimeInv
<1>2. ASSUME FixTypeInv, FreshInv, TimeInv PROVE LocationAge
  <2> SUFFICES ASSUME count > 0, HasFix, ~lost
               PROVE  /\ sent.ages["latLong"] = 0
                      /\ order[1] = "RMC" => sent.ages["time"] = 0
    BY DEF LocationAge
  <2> QED
    BY <1>2 DEF FreshInv, TimeInv
<1> QED
  BY <1>1, <1>2, FreshInit, FreshStep, TimeStep, FixTypesHold, PTL DEF Spec
=============================================================================
