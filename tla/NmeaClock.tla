----------------------------- MODULE NmeaClock -----------------------------
(***************************************************************************)
(* What NmeaParser makes of the date and time of RMC sentences: the date   *)
(* carried from one RMC to the next, the two-digit year, the correction of *)
(* receivers whose ten-bit week counter rolled over, the timestamp of the  *)
(* fix, and the steering of the system clock.                              *)
(*                                                                         *)
(* Instants are counted from the epoch; a date is the instant of its       *)
(* midnight.  The true time utc runs on while a sentence is on the line    *)
(* and while it is handled, and other parts of the system set the clock.   *)
(***************************************************************************)
EXTENDS Integers

CONSTANTS
    Day,                    \* length of a day
    Y2000, Century,         \* 2000-01-01, and from a date of 1980-99 to its namesake in 2080-99
    kRolloverPeriodSec,     \* 1024 weeks
    kPlausibleFloorSec,     \* 2025-01-01
    Behind,                 \* numbers of rollovers receivers may be behind by
    Thresholds,             \* values of persist.vendor.gps.time_sync
    MaxDelay,               \* bound on the age of a sentence when its handling ends
    Starts, Times,          \* bounds: first instants, and instants, of the runs
    ClockErrors             \* how far off others set the system clock

ASSUME ClockAssumption ==
    /\ Day \in Nat \ {0}
    /\ Y2000 \in Nat \ {0}
    /\ Century \in Nat
    /\ kRolloverPeriodSec \in Nat \ {0}
    /\ kPlausibleFloorSec \in Nat /\ Y2000 < kPlausibleFloorSec
    /\ Behind \subseteq Nat
    /\ Thresholds \subseteq Int
    /\ MaxDelay \in Nat
    /\ Starts \subseteq Times /\ Times \subseteq Nat
    \* receivers count from the first days of 1980
    /\ \A b \in Behind, t \in Starts : Day <= t - b * kRolloverPeriodSec
    /\ ClockErrors \subseteq Int

\* Week counters roll over at midnight, the floor is a midnight, and a year
\* 19yy that is read as 20yy lies past the correctable time.
ASSUME CalendarAssumption ==
    /\ kRolloverPeriodSec % Day = 0 /\ kPlausibleFloorSec % Day = 0
    /\ kPlausibleFloorSec + kRolloverPeriodSec <= Century

NoDate  == -1       \* mUtcYear == -1
NoStamp == 0        \* mFix.timestampMillis of a GnssLocation{}

VARIABLES
    utc,                \* the true time
    sysError,           \* the system clock minus utc
    behind,             \* the receiver's rollovers
    mTimeSyncThreshold,
    mUtcDate,           \* mUtcYear, mUtcMon, mUtcDay
    step,               \* where the handling of an RMC is
    gmt,                \* its local of that name, later `corrected`
    timestamp,          \* mFix.timestampMillis
    told,               \* history: the true instant the last RMC was about,
    toldDated,          \* and the last one with a date
    timely,             \* history: the last RMC had a time
    clockSource         \* history: who set the clock, and whether it was checked since

clockVars == <<utc, sysError, behind, mTimeSyncThreshold, mUtcDate, step, gmt, timestamp,
               told, toldDated, timely, clockSource>>

Steps == {"idle", "shift", "compare", "steer"}

\* Types; what the code adds to them is that no timestamp is from before the
\* floor (NmeaParser.cpp:314-332).  That told is no later than utc only says
\* what the environment sends: no RMC is about an instant to come.
NmeaClockTypeOK ==
    /\ utc \in Nat
    /\ sysError \in Int
    /\ behind \in Behind
    /\ mTimeSyncThreshold \in Thresholds
    /\ mUtcDate \in Int /\ (mUtcDate # NoDate => 0 < mUtcDate)
    /\ step \in Steps
    /\ gmt \in Int
    /\ timestamp \in Int /\ (timestamp # NoStamp => kPlausibleFloorSec <= timestamp)
    /\ told \in Int /\ told <= utc /\ toldDated \in Int /\ timely \in BOOLEAN
    /\ clockSource \in {"other", "checked", "gps"}

Init ==
    /\ utc \in Starts
    /\ sysError \in ClockErrors
    /\ behind \in Behind
    /\ mTimeSyncThreshold \in Thresholds
    /\ mUtcDate = NoDate
    /\ step = "idle"
    /\ gmt = 0 /\ timestamp = NoStamp
    /\ told = utc /\ toldDated = utc       \* nothing older is on the line
    /\ timely = FALSE
    /\ clockSource = "other"

-----------------------------------------------------------------------------
\* What the receiver takes for the time.
ReceiverTime(t) == t - behind * kRolloverPeriodSec

SecondOfDay(t) == t % Day

\* The date, sent with two digits of the year, to which 2000 is added.
DateFromDdmmyy(t) == t - SecondOfDay(t) + IF t < Y2000 THEN Century ELSE 0

\* Mutant: the carried date is not replaced.
CarryOld(t, dated) ==
    IF dated /\ mUtcDate = NoDate THEN DateFromDdmmyy(ReceiverTime(t)) ELSE mUtcDate

\* `if (tokDate.len() == 6)`: else the date of an earlier RMC is used.
Carry(t, dated) == IF dated THEN DateFromDdmmyy(ReceiverTime(t)) ELSE mUtcDate

\* A valid RMC about instant t with its time, and with or without its date.
\* With no date known (`mUtcYear > 0`) the time is ignored.
RMC ==
    /\ step = "idle"
    /\ \E t \in utc - MaxDelay .. utc, dated \in BOOLEAN :
          /\ t >= told                      \* sentences stay in order on the line
          /\ told' = t /\ toldDated' = IF dated THEN t ELSE toldDated
          /\ mUtcDate' = Carry(t, dated)
          /\ mUtcDate' # NoDate
          /\ gmt' = mUtcDate' + SecondOfDay(ReceiverTime(t))
    /\ step' = "shift" /\ timely' = TRUE
    /\ UNCHANGED <<utc, sysError, behind, mTimeSyncThreshold, timestamp, clockSource>>

\* A valid RMC with a date and no time (`tokTime.len() >= 6` fails): the date
\* is kept for the RMCs to come, the timestamp stays as it is.
TimelessRMC ==
    /\ step = "idle"
    /\ \E t \in utc - MaxDelay .. utc :
          /\ t >= told
          /\ told' = t /\ toldDated' = t
          /\ mUtcDate' = Carry(t, TRUE)
    /\ timely' = FALSE
    /\ UNCHANGED <<utc, sysError, behind, mTimeSyncThreshold, step, gmt, timestamp, clockSource>>

\* Mutant: the last day before the floor is let through.
ImplausibleLate == gmt > 0 /\ gmt < kPlausibleFloorSec - Day

\* Mutant: a date on the floor's day is still shifted.
ImplausibleOffByDay == gmt > 0 /\ gmt < kPlausibleFloorSec + Day

\* `if (gmt > 0 && gmt < kPlausibleFloorSec)`, and the condition of the loop.
Implausible == gmt > 0 /\ gmt < kPlausibleFloorSec

\* `corrected += kRolloverPeriodSec;`
Shift ==
    /\ step = "shift"
    /\ Implausible
    /\ gmt' = gmt + kRolloverPeriodSec
    /\ UNCHANGED <<utc, sysError, behind, mTimeSyncThreshold, mUtcDate, step, timestamp, told,
                   toldDated, timely, clockSource>>

Stamp ==
    /\ step = "shift"
    /\ ~Implausible
    /\ timestamp' = gmt
    /\ step' = IF mTimeSyncThreshold > 0 THEN "compare" ELSE "idle"
    /\ UNCHANGED <<utc, sysError, behind, mTimeSyncThreshold, mUtcDate, gmt, told, toldDated,
                   timely, clockSource>>

\* `time(nullptr) - gmt`
Diff == utc + sysError - gmt

\* Mutant: only a clock that is ahead counts as off.
OffAheadOnly == Diff > mTimeSyncThreshold

\* Mutant: the clock is always off.
OffAlways == TRUE

Off == Diff < -mTimeSyncThreshold \/ Diff > mTimeSyncThreshold

Exact == timestamp = told

Compare ==
    /\ step = "compare"
    /\ step' = IF Off THEN "steer" ELSE "idle"
    /\ clockSource' = IF ~Off /\ Exact /\ clockSource = "other" THEN "checked" ELSE clockSource
    /\ UNCHANGED <<utc, sysError, behind, mTimeSyncThreshold, mUtcDate, gmt, timestamp, told,
                   toldDated, timely>>

\* settimeofday, which may be refused.
Steer ==
    /\ step = "steer"
    /\ step' = "idle"
    /\ \/ /\ sysError' = gmt - utc
          /\ clockSource' = IF Exact THEN "gps" ELSE "other"
       \/ UNCHANGED <<sysError, clockSource>>
    /\ UNCHANGED <<utc, behind, mTimeSyncThreshold, mUtcDate, gmt, timestamp, told,
                   toldDated, timely>>

-----------------------------------------------------------------------------
(* Time, and the rest of the system                                        *)

Tick ==
    /\ utc + 1 \in Times
    /\ step # "idle" => utc + 1 - told <= MaxDelay
    /\ utc' = utc + 1
    /\ UNCHANGED <<sysError, behind, mTimeSyncThreshold, mUtcDate, step, gmt, timestamp, told,
                   toldDated, timely, clockSource>>

\* The network or the user sets the clock, also between time() and
\* settimeofday().
OtherSetsClock ==
    /\ sysError' \in ClockErrors
    /\ clockSource' = "other"
    /\ UNCHANGED <<utc, behind, mTimeSyncThreshold, mUtcDate, step, gmt, timestamp, told,
                   toldDated, timely>>

Next ==
    RMC \/ TimelessRMC \/ Shift \/ Stamp \/ Compare \/ Steer \/ Tick \/ OtherSetsClock

Spec == Init /\ [][Next]_clockVars

-----------------------------------------------------------------------------
(* Properties                                                              *)

\* The last RMC has been stamped: none is being handled, none came without time.
Stamped == step # "shift" /\ timestamp # NoStamp /\ timely

\* Times the correction is made for (README.md:195-199: until about 2044).
Correctable(t) == kPlausibleFloorSec <= t /\ t < kPlausibleFloorSec + kRolloverPeriodSec

\* The date in use is the date of the instant told.
DateCurrent == mUtcDate = DateFromDdmmyy(ReceiverTime(told))

\* The timestamp of an RMC with its own date is the true time exactly as long
\* as the receiver believes to be in this century (NmeaParser.cpp:317-326).  One
\* that is further behind sends a two-digit year of the last century, which is
\* read as 2080-99 and not corrected, although README.md:195-199 sets no bound
\* on the rollovers: with two of them that is so for every instant until 2039.
RolloverExact ==
    Stamped /\ Correctable(told) /\ DateCurrent =>
        (Exact <=> Y2000 <= ReceiverTime(told))

\* A timestamp never lies after the instant told: it is on the day of the last
\* RMC that had a date (NmeaParser.h:86), so right unless midnight has passed
\* since, if that day too was correctable.
CarriedDateLags ==
    Stamped /\ Y2000 <= mUtcDate
    /\ Correctable(mUtcDate + behind * kRolloverPeriodSec) =>
        /\ timestamp <= told
        /\ timestamp - SecondOfDay(timestamp) = toldDated - SecondOfDay(toldDated)

\* Once a right RMC was compared with the clock and left it alone, or set it,
\* the clock is right up to the threshold and the age of sentences, until
\* somebody else sets it (README.md:85).
ClockHealed ==
    /\ clockSource = "checked" =>
          -(mTimeSyncThreshold + MaxDelay) <= sysError /\ sysError <= mTimeSyncThreshold
    /\ clockSource = "gps" => -MaxDelay <= sysError /\ sysError <= 0

\* A clock set from a right RMC is not set again because of another right
\* RMC: the delay of sentences does not make the clock jump back and forth,
\* if the threshold is not below that delay (README.md:85).
SteeringSettles ==
    clockSource = "gps" /\ step = "steer" /\ MaxDelay <= mTimeSyncThreshold => ~Exact
=============================================================================
