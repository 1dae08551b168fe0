------------------------------ MODULE NmeaLine ------------------------------
(***************************************************************************)
(* The line accumulator of NmeaParser (addBytes, addChar and the head of   *)
(* parseSentence), fed from a wire on which the receiver sends one line    *)
(* after the other.  Bytes that arrive while no session is active are      *)
(* thrown away by the reader thread and never reach the parser, whose      *)
(* state stays as it is.                                                   *)
(*                                                                         *)
(* Of the contents of the buffer the module keeps where its bytes come     *)
(* from: the current line alone, or anything else.                         *)
(***************************************************************************)
EXTENDS Integers

CONSTANTS
    kMaxNmeaSize,   \* capacity of mLine, without its terminator (255)
    MinSentence,    \* shorter lines are not parsed (9)
    Lengths         \* lengths of lines on the wire, '\n' included

ASSUME NmeaLineAssumption ==
    /\ kMaxNmeaSize \in Nat \ {0}
    /\ MinSentence \in 1 .. kMaxNmeaSize
    /\ Lengths \subseteq Nat \ {0}

VARIABLES
    mPos, mOverflow,
    holds,      \* what mLine[0 .. mPos-1] is, see Contents
    wire,       \* current line: its length, and how much of it was sent
    fed,        \* history: every byte of the current line reached the parser
    good,       \* history: every line before was fed completely and fits
    lost,       \* history: bytes were lost since the parser last saw '\n'
    active,     \* Gnss::mSessionActive, as the reader saw it
    emitted     \* what the last byte made the parser report

lineVars == <<mPos, mOverflow, holds, wire, fed, good, lost, active, emitted>>

\* "nothing": empty; "current": the first mPos bytes of the current line;
\* "earlier": the same of a line before it; "mixed": anything else.
Contents == {"nothing", "current", "earlier", "mixed"}

NmeaLineTypeOK ==
    /\ mPos \in Nat
    /\ mOverflow \in BOOLEAN
    /\ holds \in Contents
    /\ wire \in [len: Nat \ {0}, sent: Nat]
    /\ wire.sent <= wire.len
    /\ fed \in BOOLEAN /\ good \in BOOLEAN /\ lost \in BOOLEAN
    /\ active \in BOOLEAN
    /\ emitted \in {"none", "line", "splice"}

\* The wire at the start of a line, with nothing lost yet.
WireStarts ==
    /\ holds = "nothing"
    /\ \E n \in Lengths : wire = [len |-> n, sent |-> 0]
    /\ fed = TRUE /\ good = TRUE /\ lost = FALSE
    /\ active = TRUE
    /\ emitted = "none"

Init == mPos = 0 /\ mOverflow = FALSE /\ WireStarts

-----------------------------------------------------------------------------
Newline == wire.sent + 1 = wire.len

\* mLine with the next byte of the wire appended.
Appended ==
    IF wire.sent = 0 /\ mPos = 0 THEN "current"
    ELSE IF holds = "current" /\ wire.sent = mPos THEN "current"
    ELSE "mixed"

\* Mutant: a line may fill the terminator's place too.
addCharOffByOne ==
    IF mOverflow
    THEN mOverflow' = ~Newline /\ emitted' = "none" /\ UNCHANGED <<mPos, holds>>
    ELSE IF mPos >= kMaxNmeaSize + 1
    THEN mOverflow' = TRUE /\ mPos' = 0 /\ holds' = "nothing" /\ emitted' = "none"
    ELSE /\ mPos' = IF Newline THEN 0 ELSE mPos + 1
         /\ holds' = IF Newline THEN "nothing" ELSE Appended
         /\ emitted' = IF ~Newline \/ mPos + 1 < MinSentence THEN "none"
                       ELSE IF Appended = "current" THEN "line" ELSE "splice"
         /\ UNCHANGED mOverflow

\* Mutant: what follows an overflow is taken for the start of a line.
addCharNoSkip ==
    IF mPos >= kMaxNmeaSize
    THEN mPos' = 0 /\ holds' = "nothing" /\ emitted' = "none" /\ UNCHANGED mOverflow
    ELSE /\ mPos' = IF Newline THEN 0 ELSE mPos + 1
         /\ holds' = IF Newline THEN "nothing" ELSE Appended
         /\ emitted' = IF ~Newline \/ mPos + 1 < MinSentence THEN "none"
                       ELSE IF Appended = "current" THEN "line" ELSE "splice"
         /\ UNCHANGED mOverflow

\* Mutant: the buffer is not emptied after a sentence that was too short.
addCharKeepsShort ==
    IF mOverflow
    THEN mOverflow' = ~Newline /\ emitted' = "none" /\ UNCHANGED <<mPos, holds>>
    ELSE IF mPos >= kMaxNmeaSize
    THEN mOverflow' = TRUE /\ mPos' = 0 /\ holds' = "nothing" /\ emitted' = "none"
    ELSE IF Newline /\ mPos + 1 >= MinSentence
    THEN /\ mPos' = 0 /\ holds' = "nothing"
         /\ emitted' = IF Appended = "current" THEN "line" ELSE "splice"
         /\ UNCHANGED mOverflow
    ELSE mPos' = mPos + 1 /\ holds' = Appended /\ emitted' = "none" /\ UNCHANGED mOverflow

\* The overflowing byte is dropped, and so is everything up to the next
\* '\n'.  A line too short to be a sentence is dropped by parseSentence.
addChar ==
    IF mOverflow
    THEN mOverflow' = ~Newline /\ emitted' = "none" /\ UNCHANGED <<mPos, holds>>
    ELSE IF mPos >= kMaxNmeaSize
    THEN mOverflow' = TRUE /\ mPos' = 0 /\ holds' = "nothing" /\ emitted' = "none"
    ELSE /\ mPos' = IF Newline THEN 0 ELSE mPos + 1
         /\ holds' = IF Newline THEN "nothing" ELSE Appended
         /\ emitted' = IF ~Newline \/ mPos + 1 < MinSentence THEN "none"
                       ELSE IF Appended = "current" THEN "line" ELSE "splice"
         /\ UNCHANGED mOverflow

-----------------------------------------------------------------------------
\* `if (mSessionActive) mParser.addBytes(buf, n);` for one byte of the buffer.
Receive ==
    /\ wire.sent < wire.len
    /\ active
    /\ addChar
    /\ wire' = [wire EXCEPT !.sent = @ + 1]
    /\ lost' = (lost /\ ~Newline)
    /\ UNCHANGED <<fed, good, active>>

\* ... and without a session.
Discard ==
    /\ wire.sent < wire.len
    /\ ~active
    /\ wire' = [wire EXCEPT !.sent = @ + 1]
    /\ fed' = FALSE
    /\ lost' = TRUE
    /\ emitted' = "none"
    /\ UNCHANGED <<mPos, mOverflow, holds, good, active>>

NextLine ==
    /\ wire.sent = wire.len
    /\ \E n \in Lengths : wire' = [len |-> n, sent |-> 0]
    /\ fed' = TRUE
    /\ good' = (good /\ fed /\ wire.len <= kMaxNmeaSize)
    /\ holds' = IF holds = "current" THEN "earlier" ELSE holds
    /\ emitted' = "none"
    /\ UNCHANGED <<mPos, mOverflow, lost, active>>

\* Sessions begin and end between two reads.
SwitchSession ==
    /\ active' = ~active
    /\ UNCHANGED <<mPos, mOverflow, holds, wire, fed, good, lost, emitted>>

Next == Receive \/ Discard \/ NextLine \/ SwitchSession

Spec == Init /\ [][Next]_lineVars

-----------------------------------------------------------------------------
(* Properties                                                              *)

\* Types; and mLine[mPos] is inside the array, for the next byte and for the
\* terminator parseSentence() writes (NmeaParser.cpp:159, 168).
BufferFits == NmeaLineTypeOK /\ mPos <= kMaxNmeaSize

\* Bytes of different lines are reported as one sentence only if bytes were
\* lost since the last '\n' the parser saw: one '\n' resynchronises it.
SplicedOnlyAfterLoss ==
    [][wire' # wire /\ emitted' = "splice" => lost]_lineVars

\* As long as no byte was lost and no line was too long, every sentence of
\* fit length is reported.
CleanLineReported ==
    wire.sent = wire.len /\ good /\ fed /\ wire.len \in MinSentence .. kMaxNmeaSize
    => emitted = "line"
=============================================================================
