------------------------------ MODULE NmeaSvs ------------------------------
(***************************************************************************)
(* The satellite bookkeeping of NmeaParser::parseSentence: the list mSvs   *)
(* that GSV messages build up and the satellites of the last GSA.          *)
(*                                                                         *)
(* A receiver describes the satellites in view of one talker after the     *)
(* other, each in a burst of numbered GSV messages, and sends GSA between  *)
(* bursts.  Any sentence may be lost before it reaches the parser: on the  *)
(* line, or because no session was active.  Elevation, azimuth and signal  *)
(* are left out.                                                           *)
(***************************************************************************)
EXTENDS Integers, Sequences

CONSTANTS
    Talkers,        \* talker ids the receiver uses
    Views,          \* what it may see of one constellation: sequences of PRNs
    SatsPerGSV,     \* satellites in one GSV message (4)
    kMaxSvs         \* capacity of mSvs (64)

ASSUME SvsAssumption ==
    /\ Views \subseteq Seq(Nat \ {0})
    /\ SatsPerGSV \in Nat \ {0}
    /\ kMaxSvs \in Nat

Constellations == {"GPS", "GLONASS", "GALILEO", "BEIDOU", "QZSS", "UNKNOWN"}

constellationForTalker(talker) ==
    CASE talker = "GP" -> "GPS"
      [] talker = "GL" -> "GLONASS"
      [] talker = "GA" -> "GALILEO"
      [] talker \in {"GB", "BD"} -> "BEIDOU"
      [] talker = "GQ" -> "QZSS"
      [] OTHER -> "UNKNOWN"

VARIABLES
    mSvs,           \* the list, as records of svid, constellation, USED_IN_FIX
    mUsedInFix,     \* the PRNs of the last GSA
    burst,          \* the current burst: talker, satellites, next message
    intact,         \* history: every message of the current burst so far was parsed
    begun,          \* history: message 1 of the current burst was parsed
    heard,          \* history: the satellites named by the burst's messages parsed so far
    reported        \* the last step handed mSvs to mSvStatusCb

svVars == <<mSvs, mUsedInFix, burst, intact, begun, heard, reported>>

GnssSvInfo == [svid: Nat \ {0}, constellation: Constellations, used: BOOLEAN]

SvsTypeOK ==
    /\ mSvs \in Seq(GnssSvInfo)
    /\ mUsedInFix \subseteq Nat \ {0}
    /\ burst \in [talker: Talkers, sats: Views, next: Nat \ {0}]
    /\ heard \in Seq(Nat \ {0})
    /\ intact \in BOOLEAN /\ begun \in BOOLEAN /\ reported \in BOOLEAN

\* An empty view takes one message all the same.
numMessages == IF burst.sats = <<>> THEN 1
               ELSE (Len(burst.sats) + SatsPerGSV - 1) \div SatsPerGSV

BurstDone == burst.next > numMessages

Init ==
    /\ mSvs = <<>>
    /\ mUsedInFix = {}
    /\ burst \in [talker: Talkers, sats: Views, next: {1}]
    /\ heard = <<>>
    /\ intact = FALSE /\ begun = FALSE /\ reported = FALSE

-----------------------------------------------------------------------------
Constellation == constellationForTalker(burst.talker)

\* The entries of some constellations, in their order: what std::remove_if
\* leaves of the others.
OfThese(svs, ks) ==
    LET these[n \in 0 .. Len(svs)] ==
            IF n = 0 THEN <<>>
            ELSE IF svs[n].constellation \in ks THEN Append(these[n - 1], svs[n])
            ELSE these[n - 1]
    IN  these[Len(svs)]

\* The entries of one constellation, and the others.
Of(svs, k)     == OfThese(svs, {k})
Except(svs, k) == OfThese(svs, Constellations \ {k})

AtMost(s, n) == IF Len(s) <= n THEN s ELSE SubSeq(s, 1, n)

\* The satellites of the message burst.next.
Message == AtMost(SubSeq(burst.sats, (burst.next - 1) * SatsPerGSV + 1, Len(burst.sats)),
                  SatsPerGSV)

\* A satellite is used in the fix if the last GSA named its number.
Entries(sats) == [i \in 1 .. Len(sats) |->
                    [svid |-> sats[i], constellation |-> Constellation,
                     used |-> sats[i] \in mUsedInFix]]

\* Mutant: a new burst drops the whole list.
KeptClearsAll == IF burst.next = 1 THEN <<>> ELSE mSvs

\* Mutant: a new burst drops nothing.
KeptKeepsAll == mSvs

\* Message 1 drops what an earlier burst said of the constellation.
Kept == IF burst.next = 1 THEN Except(mSvs, Constellation) ELSE mSvs

\* Mutant: a message that does not fit as a whole is left out.
AppendWholeMessages(svs, entries) ==
    IF Len(svs) + Len(entries) <= kMaxSvs THEN svs \o entries ELSE svs

\* Entry by entry: `if ((int)mSvs.size() < kMaxSvs) mSvs.push_back(sv);`
AppendUpToMax(svs, entries) ==
    LET list[n \in 0 .. Len(entries)] ==
            IF n = 0 THEN svs
            ELSE IF Len(list[n - 1]) < kMaxSvs THEN Append(list[n - 1], entries[n])
            ELSE list[n - 1]
    IN  list[Len(entries)]

Deliver(parsed) ==
    /\ ~BurstDone
    /\ burst' = [burst EXCEPT !.next = @ + 1]
    /\ intact' = (parsed /\ (burst.next = 1 \/ intact))
    /\ begun' = (IF burst.next = 1 THEN parsed ELSE begun)
    /\ heard' = IF ~parsed THEN heard
                ELSE IF burst.next = 1 THEN Message ELSE heard \o Message

GSV ==
    /\ Deliver(TRUE)
    /\ mSvs' = AppendUpToMax(Kept, Entries(Message))
    /\ reported' = (burst.next = numMessages)
    /\ UNCHANGED mUsedInFix

LoseGSV ==
    /\ Deliver(FALSE)
    /\ reported' = FALSE
    /\ UNCHANGED <<mSvs, mUsedInFix>>

\* The receiver uses some of the satellites in view of the last talker.
GSA ==
    /\ BurstDone
    /\ \E k \in 0 .. Len(burst.sats) : mUsedInFix' = {burst.sats[i] : i \in 1 .. k}
    /\ reported' = FALSE
    /\ UNCHANGED <<mSvs, burst, intact, begun, heard>>

NextBurst ==
    /\ BurstDone
    /\ burst' \in [talker: Talkers, sats: Views, next: {1}]
    /\ heard' = <<>>
    /\ intact' = FALSE /\ begun' = FALSE /\ reported' = FALSE
    /\ UNCHANGED <<mSvs, mUsedInFix>>

Next == GSV \/ LoseGSV \/ GSA \/ NextBurst

Spec == Init /\ [][Next]_svVars

-----------------------------------------------------------------------------
(* Properties                                                              *)

\* A list reported after a burst that arrived complete holds exactly this
\* burst of the constellation, nothing older and nothing twice, each flagged
\* by the last GSA, unless the list is full (NmeaParser.h:38).
CompleteBurstReported ==
    reported /\ intact /\ Len(mSvs) < kMaxSvs =>
        Of(mSvs, Constellation) = Entries(burst.sats)

\* From message 1 of a burst until its list is reported, the list holds of the
\* constellation the satellites named since, in their order, and nothing older
\* or twice, whichever messages before and after message 1 were lost; a list
\* that is full keeps the first of them (NmeaParser.cpp:243-250, 276).  Nothing is
\* said of a burst whose message 1 was lost: it adds to what the last one left.
BurstReplaces ==
    begun /\ (reported \/ ~BurstDone) =>
        \E n \in 0 .. Len(heard) :
            /\ Of(mSvs, Constellation) = Entries(AtMost(heard, n))
            /\ Len(mSvs) < kMaxSvs => n = Len(heard)

\* A burst of one constellation leaves the entries of the others as they
\* are, whatever was lost (NmeaParser.cpp:243-250).
OthersKept == [][\A k \in Constellations \ {Constellation} : Of(mSvs', k) = Of(mSvs, k)]_svVars
=============================================================================
