------------------------------ MODULE UbxFrame ------------------------------
(***************************************************************************)
(* SerialDevice::setMeasurementRate: the bytes of a UBX CFG-RATE frame,    *)
(* written in as many pieces as the tty takes them in, by the reader and   *)
(* the binder threads without a lock; and the receiver at the other end,   *)
(* which looks for frames in whatever arrives.                             *)
(***************************************************************************)
EXTENDS Integers, Sequences

CONSTANTS
    Writers,            \* threads in setMeasurementRate
    Periods,            \* periodMs, unsigned short
    MaxFrames,          \* bound on the calls
    MaxShortWrites      \* bound on the writes that take only part of the rest

ASSUME FrameAssumption ==
    /\ \A periodMs \in Periods : periodMs \in Nat /\ periodMs < 65536
    /\ MaxFrames \in Nat /\ MaxShortWrites \in Nat

VARIABLES
    rest,           \* per writer: the bytes of its buff not written yet
    sending,        \* per writer: the period they are about
    wire,           \* the bytes the receiver got
    asked,          \* history: the periods of all calls
    torn,           \* history, per writer: others wrote between its bytes
    intact,         \* history: the periods of frames that were written in one go
    inTurn,         \* history: nobody wrote inside another thread's frame, and
                    \* no frame broke off just before or inside its period
    shortWrites, frames

frameVars == <<rest, sending, wire, asked, torn, intact, inTurn, shortWrites, frames>>

FrameInit ==
    /\ rest = [w \in Writers |-> <<>>]
    /\ sending = [w \in Writers |-> 0]
    /\ wire = <<>>
    /\ asked = {} /\ intact = {}
    /\ torn = [w \in Writers |-> FALSE]
    /\ inTurn = TRUE
    /\ shortWrites = 0 /\ frames = 0

-----------------------------------------------------------------------------
\* Mutant: the second sum is of the bytes, not of the first sum.
ubxChecksumPlain(msg) ==
    LET ck[i \in 0 .. Len(msg)] ==
            IF i = 0 THEN <<0, 0>>
            ELSE <<(ck[i - 1][1] + msg[i]) % 256, (ck[i - 1][2] + msg[i]) % 256>>
    IN  ck[Len(msg)]

\* unsigned chars: `*ckA += msg[i]; *ckB += *ckA;`
ubxChecksum(msg) ==
    LET ck[i \in 0 .. Len(msg)] ==
            IF i = 0 THEN <<0, 0>>
            ELSE LET ckA == (ck[i - 1][1] + msg[i]) % 256
                 IN  <<ckA, (ck[i - 1][2] + ckA) % 256>>
    IN  ck[Len(msg)]

\* Mutant: only the low byte of the period is sent.
MessageLowByte(periodMs) == <<6, 8, 6, 0, periodMs % 256, 0, 1, 0, 1, 0>>

\* measRate, navRate 1, timeRef 1, each of them low byte first
Message(periodMs) == <<6, 8, 6, 0, periodMs % 256, (periodMs \div 256) % 256, 1, 0, 1, 0>>

Buff(periodMs) == <<181, 98>> \o Message(periodMs) \o ubxChecksum(Message(periodMs))

\* The call; with no tty open (`mFd < 0`) it returns at once.
CallRate(w) ==
    /\ rest[w] = <<>>
    /\ frames < MaxFrames
    /\ \E periodMs \in Periods :
          /\ sending' = [sending EXCEPT ![w] = periodMs]
          /\ rest' = [rest EXCEPT ![w] = Buff(periodMs)]
          /\ asked' = asked \union {periodMs}
    /\ torn' = [torn EXCEPT ![w] = FALSE]
    /\ frames' = frames + 1
    /\ UNCHANGED <<wire, intact, inTurn, shortWrites>>

\* A thread has written part of its frame.
MidFrame(w) == Len(rest[w]) \in 1 .. 13

\* `n += ret;`
After(w, n) == SubSeq(rest[w], n + 1, Len(rest[w]))

\* write() takes the first n bytes.
Write(w, n) ==
    /\ n \in 1 .. Len(rest[w])
    /\ n < Len(rest[w]) => shortWrites < MaxShortWrites
    /\ shortWrites' = shortWrites + IF n < Len(rest[w]) THEN 1 ELSE 0
    /\ wire' = wire \o SubSeq(rest[w], 1, n)
    /\ rest' = [rest EXCEPT ![w] = After(w, n)]
    /\ torn' = [u \in Writers |-> torn[u] \/ (u # w /\ MidFrame(u))]
    /\ inTurn' = (inTurn /\ \A u \in Writers \ {w} : ~MidFrame(u))
    /\ intact' = IF rest'[w] = <<>> /\ ~torn[w] THEN intact \union {sending[w]} ELSE intact
    /\ UNCHANGED <<sending, asked, frames>>

\* An error other than EINTR: the rest of the frame is dropped, also its last
\* eight bytes (the period and what follows it) or seven.
WriteFails(w) ==
    /\ rest[w] # <<>>
    /\ rest' = [rest EXCEPT ![w] = <<>>]
    /\ inTurn' = (inTurn /\ Len(rest[w]) \notin {7, 8})
    /\ UNCHANGED <<sending, wire, asked, torn, intact, shortWrites, frames>>

FrameNext ==
    \E w \in Writers : CallRate(w) \/ WriteFails(w) \/ \E n \in 1 .. 14 : Write(w, n)

FrameSpec == FrameInit /\ [][FrameNext]_frameVars

-----------------------------------------------------------------------------
(* The receiver.  It looks for a frame at every position, that is, after a *)
(* bad one it looks again from the byte behind its start.  (One that skips *)
(* the length a torn header announces loses the frame that follows.)       *)

\* The checksum as u-blox defines it by its sums, of the third to the twelfth byte.
FirstSum(b) ==
    (b[3] + b[4] + b[5] + b[6] + b[7] + b[8] + b[9] + b[10] + b[11] + b[12]) % 256
SecondSum(b) ==
    (10 * b[3] + 9 * b[4] + 8 * b[5] + 7 * b[6] + 6 * b[7]
     + 5 * b[8] + 4 * b[9] + 3 * b[10] + 2 * b[11] + b[12]) % 256

IsFrame(bytes) ==
    /\ SubSeq(bytes, 1, 6) = <<181, 98, 6, 8, 6, 0>>
    /\ bytes[13] = FirstSum(bytes)
    /\ bytes[14] = SecondSum(bytes)

\* The periods the receiver was set to.
Applied ==
    {bytes[7] + 256 * bytes[8] : bytes \in
        {b \in {SubSeq(wire, i, i + 13) : i \in 1 .. Len(wire) - 13} : IsFrame(b)}}

-----------------------------------------------------------------------------
(* Properties.  The instance ends when all its calls have been made.       *)

\* The receiver is never set to a period nobody asked for.  This is NOT so: what
\* is left of a header and a whole frame behind it can read as another frame.
NoPhantomPeriod == Applied \subseteq asked

\* It takes a torn frame to set the receiver to a period nobody asked for: a
\* thread must write inside another's frame, or a write must fail when six or
\* seven bytes are out (SerialDevice.cpp:222-231).  Frames in turn, in pieces of
\* any length, and frames that break off anywhere else do no such harm.
PhantomNeedsTear == inTurn => NoPhantomPeriod

\* A frame nobody wrote into is understood, whatever came before it, and
\* however many pieces it was written in, by a receiver that looks for frames
\* at every position (SerialDevice.cpp:222-231).
IntactApplied == intact \subseteq Applied
=============================================================================
