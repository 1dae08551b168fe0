------------------------------ MODULE NmeaFix ------------------------------
(***************************************************************************)
(* How NmeaParser::parseSentence fuses GGA, GSA, RMC and VTG sentences     *)
(* into a GnssLocation.  The receiver reports once per cycle, always with  *)
(* the same sentences in the same order; some may not reach the parser.    *)
(*                                                                         *)
(* A field's value is represented by its age: how many cycles ago the      *)
(* parser took it from a sentence.  The sentences of one cycle agree on    *)
(* the fix: GGA's quality, GSA's mode and RMC's and VTG's status all tell  *)
(* fixNow.  A sentence with a fix carries a position, and an RMC with a    *)
(* fix the date and time as well; the other fields may be empty.           *)
(***************************************************************************)
EXTENDS Integers, Sequences

CONSTANTS
    Orders,     \* the sentences of a cycle, as the receivers of interest send them
    MaxAge      \* ages are counted up to this bound

Fields == {"latLong", "altitude", "accuracy", "bearing", "speed"}
Values == Fields \union {"time"}       \* mFix's members; timestampMillis has no flag
Fixes  == {"none", "2D", "3D"}
Hdops  == {"empty", "good", "bad"}     \* "bad": above 99.0

ASSUME NmeaFixAssumption ==
    /\ Orders \subseteq Seq({"GGA", "GSA", "RMC", "VTG"}) \ {<<>>}
    /\ MaxAge \in Nat \ {0}

NoLocation == [flags |-> {}, ages |-> [f \in Values |-> MaxAge], haveGsa |-> FALSE]

VARIABLES
    flags,      \* mFix.gnssLocationFlags
    ages,       \* mFix's values
    mHaveGsa,
    order,      \* the sentences of this receiver's cycle
    fixNow,     \* the receiver's fix in this cycle
    next,       \* index in order of the next sentence of the cycle
    gsaSeen,    \* history: a GSA was parsed in this cycle
    lost,       \* history: a sentence of this cycle was lost
    sent,       \* the last location handed to mLocationCb in this cycle
    count       \* how many were, in this cycle

fixVars == <<flags, ages, mHaveGsa, order, fixNow, next, gsaSeen, lost, sent, count>>

NmeaFixTypeOK ==
    /\ flags \subseteq Fields
    /\ ages \in [Values -> 0 .. MaxAge]
    /\ mHaveGsa \in BOOLEAN /\ gsaSeen \in BOOLEAN /\ lost \in BOOLEAN
    /\ order \in Orders
    /\ fixNow \in Fixes
    /\ next \in 1 .. Len(order) + 1
    /\ sent \in [flags: SUBSET Fields, ages: [Values -> 0 .. MaxAge], haveGsa: BOOLEAN]
    /\ count \in 0 .. Len(order)

\* The first cycle, with nothing parsed and nothing sent.
CycleBegins ==
    /\ order \in Orders
    /\ fixNow \in Fixes
    /\ next = 1
    /\ gsaSeen = FALSE
    /\ lost = FALSE
    /\ sent = NoLocation
    /\ count = 0

\* The parser as it is constructed: reset()'s values.
Init ==
    /\ flags = {}
    /\ ages = [f \in Values |-> MaxAge]
    /\ mHaveGsa = FALSE
    /\ CycleBegins

HasFix == fixNow # "none"

-----------------------------------------------------------------------------
\* Mutant: the flags survive the location.
FinishKeepsFlags(sendFix, newFlags, written, haveGsa) ==
    LET newAges == [f \in Values |-> IF f \in written THEN 0 ELSE ages[f]]
    IN  /\ ages' = newAges
        /\ flags' = newFlags
        /\ IF sendFix /\ "latLong" \in newFlags
           THEN /\ sent' = [flags |-> newFlags, ages |-> newAges, haveGsa |-> haveGsa]
                /\ count' = count + 1
           ELSE UNCHANGED <<sent, count>>

\* Mutant: the flags are cleared whether a location was sent or not.
FinishClearsAlways(sendFix, newFlags, written, haveGsa) ==
    LET newAges == [f \in Values |-> IF f \in written THEN 0 ELSE ages[f]]
    IN  /\ ages' = newAges
        /\ flags' = {}
        /\ IF sendFix /\ "latLong" \in newFlags
           THEN /\ sent' = [flags |-> newFlags, ages |-> newAges, haveGsa |-> haveGsa]
                /\ count' = count + 1
           ELSE UNCHANGED <<sent, count>>

\* The tail of parseSentence: hand the location over when the sentence asks
\* for it and a position was accumulated, and clear the flags.
Finish(sendFix, newFlags, written, haveGsa) ==
    LET newAges == [f \in Values |-> IF f \in written THEN 0 ELSE ages[f]]
    IN  /\ ages' = newAges
        /\ IF sendFix /\ "latLong" \in newFlags
           THEN /\ sent' = [flags |-> newFlags, ages |-> newAges, haveGsa |-> haveGsa]
                /\ count' = count + 1
                /\ flags' = {}
           ELSE /\ flags' = newFlags
                /\ UNCHANGED <<sent, count>>

SentenceArrives(type) ==
    /\ next <= Len(order)
    /\ order[next] = type
    /\ next' = next + 1
    /\ UNCHANGED <<order, fixNow, lost>>

\* GGA: position and altitude of a valid fix; while no GSA was ever seen also
\* the accuracy, and the location is due.
GGA ==
    /\ SentenceArrives("GGA")
    /\ UNCHANGED <<mHaveGsa, gsaSeen>>
    /\ \E alt \in BOOLEAN, hdop \in Hdops :
         LET position == IF HasFix THEN {"latLong"} ELSE {}
             altitude == IF HasFix /\ alt THEN {"altitude"} ELSE {}
             due      == ~mHaveGsa /\ hdop # "empty"
             accuracy == IF due /\ hdop = "good" /\ HasFix THEN {"accuracy"} ELSE {}
             new      == position \union altitude \union accuracy
         IN  Finish(due, flags \union new, new, mHaveGsa)

\* Mutant: the altitude survives a 2D fix.
GSAKeepsAltitude ==
    /\ SentenceArrives("GSA")
    /\ mHaveGsa' = TRUE
    /\ gsaSeen' = TRUE
    /\ \E hdop \in Hdops :
         LET accuracy == IF HasFix /\ hdop = "good" THEN {"accuracy"} ELSE {}
         IN  Finish(TRUE, flags \union accuracy, accuracy, TRUE)

\* GSA: a 2D fix takes the altitude back; the location is due in any mode.
GSA ==
    /\ SentenceArrives("GSA")
    /\ mHaveGsa' = TRUE
    /\ gsaSeen' = TRUE
    /\ \E hdop \in Hdops :
         LET masked   == IF fixNow = "2D" THEN flags \ {"altitude"} ELSE flags
             accuracy == IF HasFix /\ hdop = "good" THEN {"accuracy"} ELSE {}
         IN  Finish(TRUE, masked \union accuracy, accuracy, TRUE)

\* Mutant: the time is taken only while there is none.
RMCKeepsTime ==
    /\ SentenceArrives("RMC")
    /\ UNCHANGED <<mHaveGsa, gsaSeen>>
    /\ \E motion \in SUBSET {"bearing", "speed"} :
         LET new  == IF HasFix THEN {"latLong"} \union motion ELSE {}
             time == IF HasFix /\ ages["time"] = MaxAge THEN {"time"} ELSE {}
         IN  Finish(FALSE, flags \union new, new \union time, mHaveGsa)

\* RMC with status 'A': position and time, and bearing and speed when present.
RMC ==
    /\ SentenceArrives("RMC")
    /\ UNCHANGED <<mHaveGsa, gsaSeen>>
    /\ \E motion \in SUBSET {"bearing", "speed"} :
         LET new  == IF HasFix THEN {"latLong"} \union motion ELSE {}
             time == IF HasFix THEN {"time"} ELSE {}
         IN  Finish(FALSE, flags \union new, new \union time, mHaveGsa)

\* VTG with a mode other than 'N': bearing and speed when present.
VTG ==
    /\ SentenceArrives("VTG")
    /\ UNCHANGED <<mHaveGsa, gsaSeen>>
    /\ \E motion \in SUBSET {"bearing", "speed"} :
         LET new == IF HasFix THEN motion ELSE {}
         IN  Finish(FALSE, flags \union new, new, mHaveGsa)

-----------------------------------------------------------------------------
(* The receiver and the line                                               *)

Lose ==
    /\ next <= Len(order)
    /\ next' = next + 1
    /\ lost' = TRUE
    /\ UNCHANGED <<flags, ages, mHaveGsa, order, fixNow, gsaSeen, sent, count>>

NextCycle ==
    /\ next = Len(order) + 1
    /\ next' = 1
    /\ fixNow' \in Fixes
    /\ ages' = [f \in Values |-> IF ages[f] < MaxAge THEN ages[f] + 1 ELSE MaxAge]
    /\ gsaSeen' = FALSE
    /\ lost' = FALSE
    /\ sent' = NoLocation
    /\ count' = 0
    /\ UNCHANGED <<flags, mHaveGsa, order>>

Next == GGA \/ GSA \/ RMC \/ VTG \/ Lose \/ NextCycle

Spec == Init /\ [][Next]_fixVars

-----------------------------------------------------------------------------
(* The orders of sentences the properties are about.  The parser takes any *)
(* order; receivers have these.                                            *)

PositionSentences == {"GGA", "RMC"}

\* No position between two sentences that can send one.
ReportsOnce(o) ==
    /\ \A i, j, k \in 1 .. Len(o) :
         i < j /\ j < k /\ o[i] \in {"GGA", "GSA"} /\ o[k] = "GSA"
            => o[j] \notin PositionSentences
    /\ \A i, k \in 1 .. Len(o) : o[i] = "GGA" /\ o[k] = "GGA" => i = k

\* A position before every GSA.
PositionFirst(o) ==
    \A k \in 1 .. Len(o) : o[k] = "GSA" => \E j \in 1 .. k - 1 : o[j] \in PositionSentences

-----------------------------------------------------------------------------
(* Properties                                                              *)

\* A location is sent once per cycle at most, however many GSAs a cycle has
\* and whichever sentences are lost (NmeaParser.cpp:381-387).
OneFixPerCycle == count <= 1

\* A cycle with a fix and a GSA that arrives complete ends with a location sent,
\* at this cycle's position, whatever was lost in the cycles before, in the orders
\* with PositionFirst (NmeaParser.cpp:381-387).
EveryFixReported ==
    next = Len(order) + 1 /\ HasFix /\ gsaSeen /\ ~lost =>
        count > 0 /\ "latLong" \in sent.flags /\ sent.ages["latLong"] = 0

\* In a 2D cycle no altitude is reported once the receiver is known to send
\* GSA: neither the cycle's own nor an older one (NmeaParser.h:91).
NoAltitudeIn2D == count > 0 /\ fixNow = "2D" /\ sent.haveGsa => "altitude" \notin sent.flags

\* A location of a cycle with a fix that arrives complete has this cycle's position
\* (NmeaParser.h:37, "once a position fix is complete"), whatever was left behind
\* by the cycles before; and if the receiver sends RMC before the rest, its own
\* cycle's time (NmeaParser.cpp:331-333, 381-387).  Nothing is said of a cycle
\* without a fix: GSA then sends a position that an earlier cycle left.
LocationAge ==
    count > 0 /\ HasFix /\ ~lost =>
        /\ sent.ages["latLong"] = 0
        /\ order[1] = "RMC" => sent.ages["time"] = 0
=============================================================================
