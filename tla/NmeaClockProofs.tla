-------------------------- MODULE NmeaClockProofs --------------------------
(* Theorems of NmeaClock, for every calendar, receiver, threshold and delay.*)
EXTENDS NmeaClock, TLAPS

\* The time of day lies inside the day.
LEMMA DayRange == \A t \in Int : SecondOfDay(t) \in 0 .. Day - 1
  BY ClockAssumption DEF SecondOfDay

-----------------------------------------------------------------------------
\* What the proof of type correctness needs besides the types.
Started == \E s \in Starts : s <= told

TypeInv == NmeaClockTypeOK /\ Started /\ (step # "idle" => mUtcDate # NoDate /\ gmt > 0)

LEMMA TypeInit == Init => TypeInv
<1>1. Init => timely \in BOOLEAN
  BY Zenon DEF Init
<1> QED
  BY <1>1, ClockAssumption DEF Init, TypeInv, NmeaClockTypeOK, Started, NoDate, NoStamp, Steps

\* A receiver's time is a time after the first day of its epoch.
LEMMA ReceiverTimePositive ==
    ASSUME TypeInv, NEW t \in Int, t >= told
    PROVE  ReceiverTime(t) \in Int /\ Day <= ReceiverTime(t)
<1>1. behind \in Behind /\ told \in Int
  BY DEF TypeInv, NmeaClockTypeOK
<1>2. PICK s \in Starts : s <= told
  BY DEF TypeInv, Started
<1>3. Day <= s - behind * kRolloverPeriodSec
  BY <1>1, ClockAssumption
<1>4. behind * kRolloverPeriodSec \in Int
  BY <1>1, ClockAssumption
<1> QED
  BY <1>1, <1>2, <1>3, <1>4, ClockAssumption DEF ReceiverTime

LEMMA DatePositive ==
    ASSUME NEW t \in Int, Day <= t
    PROVE  DateFromDdmmyy(t) \in Int /\ 0 < DateFromDdmmyy(t)
<1>1. SecondOfDay(t) \in 0 .. Day - 1
  BY DayRange
<1> QED
  BY <1>1, ClockAssumption DEF DateFromDdmmyy

LEMMA TypeStep == TypeInv /\ [Next]_clockVars => TypeInv'
<1> SUFFICES ASSUME TypeInv, [Next]_clockVars PROVE TypeInv'
  OBVIOUS
<1> USE ClockAssumption DEF TypeInv, NmeaClockTypeOK, Steps, NoDate, NoStamp
<1>1. CASE RMC
  <2>1. PICK t \in utc - MaxDelay .. utc, dated \in BOOLEAN :
            /\ t >= told
            /\ told' = t /\ toldDated' = IF dated THEN t ELSE toldDated
            /\ mUtcDate' = Carry(t, dated)
            /\ mUtcDate' # NoDate
            /\ gmt' = mUtcDate' + SecondOfDay(ReceiverTime(t))
    BY <1>1 DEF RMC
  <2>2. t \in Int /\ ReceiverTime(t) \in Int /\ Day <= ReceiverTime(t)
    BY <2>1, ReceiverTimePositive
  <2>3. DateFromDdmmyy(ReceiverTime(t)) \in Int /\ 0 < DateFromDdmmyy(ReceiverTime(t))
    BY <2>2, DatePositive
  <2>4. mUtcDate' \in Int /\ 0 < mUtcDate'
    BY <2>1, <2>3 DEF Carry
  <2>5. SecondOfDay(ReceiverTime(t)) \in 0 .. Day - 1
    BY <2>2, DayRange
  <2>6. gmt' \in Int /\ gmt' > 0
    BY <2>1, <2>4, <2>5
  <2>7. told' \in Int /\ told' <= utc /\ toldDated' \in Int
    BY <2>1, <2>2
  <2>8. Started'
    BY <2>1, <2>2 DEF Started
  <2>9. UNCHANGED <<utc, sysError, behind, mTimeSyncThreshold, timestamp,
      clockSource>> /\ step' = "shift" /\ timely' = TRUE
    BY <1>1 DEF RMC
  <2> QED
    BY <2>1, <2>4, <2>6, <2>7, <2>8, <2>9
<1>9. CASE TimelessRMC
  <2>1. PICK t \in utc - MaxDelay .. utc :
            t >= told /\ told' = t /\ toldDated' = t /\ mUtcDate' = Carry(t, TRUE)
    BY <1>9 DEF TimelessRMC
  <2>2. t \in Int /\ ReceiverTime(t) \in Int /\ Day <= ReceiverTime(t)
    BY <2>1, ReceiverTimePositive
  <2>3. mUtcDate' \in Int /\ 0 < mUtcDate'
    BY <2>1, <2>2, DatePositive DEF Carry
  <2>4. told' \in Int /\ told' <= utc /\ toldDated' \in Int
    BY <2>1, <2>2
  <2>5. Started'
    BY <2>1, <2>2 DEF Started
  <2>6. UNCHANGED <<utc, sysError, behind, mTimeSyncThreshold, step, gmt, timestamp,
      clockSource>> /\ step = "idle" /\ timely' = FALSE
    BY <1>9 DEF TimelessRMC
  <2> QED
    BY <2>3, <2>4, <2>5, <2>6
<1>2. CASE Shift
  BY <1>2 DEF Shift, Started
<1>3. CASE Stamp
  BY <1>3 DEF Stamp, Implausible, Started
<1>4. CASE Compare
  BY <1>4 DEF Compare, Started
<1>5. CASE Steer
  BY <1>5 DEF Steer, Started
<1>6. CASE Tick
  BY <1>6 DEF Tick, Started
<1>7. CASE OtherSetsClock
  BY <1>7 DEF OtherSetsClock, Started
<1>8. CASE UNCHANGED clockVars
  BY <1>8 DEF clockVars, Started
<1> QED
  BY <1>1, <1>2, <1>3, <1>4, <1>5, <1>6, <1>7, <1>8, <1>9 DEF Next

\* The types, and no timestamp is from before the floor.
THEOREM ClockTypeCorrect == Spec => []NmeaClockTypeOK
<1>1. TypeInv => NmeaClockTypeOK
  BY DEF TypeInv
<1> QED
  BY TypeInit, TypeStep, <1>1, PTL DEF Spec

-----------------------------------------------------------------------------
(* The rollover                                                            *)

\* The claim is about this instant and date.  The receiver's year is read right,
\* or as one of 2080-99.
Claimed == Correctable(told) /\ DateCurrent
InCentury == Claimed /\ Y2000 <= ReceiverTime(told)
Unread == Claimed /\ ReceiverTime(told) < Y2000

WindowEnd == kPlausibleFloorSec + kRolloverPeriodSec

\* While the loop runs, a time read right is whole periods away from the instant
\* told and has not passed the window of plausible times; one read wrong starts
\* behind that window.
ShiftInv ==
    step = "shift" =>
        /\ InCentury => /\ \E k \in Int : gmt = told - k * kRolloverPeriodSec
                        /\ gmt < WindowEnd
        /\ Unread => WindowEnd <= gmt

RolloverInv == TypeInv /\ ShiftInv /\ RolloverExact

\* Two instants of a window of one period, whole periods apart, are the same.
LEMMA SameInWindow ==
    ASSUME NEW P \in Nat \ {0}, NEW F \in Int, NEW a \in Int, NEW b \in Int,
           F <= a, a < F + P, F <= b, b < F + P,
           NEW k \in Int, a = b - k * P
    PROVE  a = b
<1>1. k * P \in Int /\ k * P < P /\ -P < k * P
  OBVIOUS
<1>2. CASE k = 0
  BY <1>2
<1>3. CASE k >= 1
  <2>1. k * P = P + (k - 1) * P
    OBVIOUS
  <2>2. (k - 1) * P >= 0
    BY <1>3
  <2> QED BY <2>1, <2>2, <1>1
<1>4. CASE k <= -1
  <2>1. k * P = (k + 1) * P - P
    OBVIOUS
  <2>2. (k + 1) * P <= 0
    BY <1>4
  <2> QED BY <2>1, <2>2, <1>1
<1> QED
  BY <1>2, <1>3, <1>4

\* A claim is of one kind or the other.
LEMMA ReadOrNot == TypeInv /\ Claimed => (Unread <=> ~(Y2000 <= ReceiverTime(told)))
  BY ClockAssumption DEF TypeInv, NmeaClockTypeOK, Unread, ReceiverTime

\* What an RMC with the receiver's own date makes of its time.
LEMMA TimeRead ==
    ASSUME NEW t \in Int, ReceiverTime(t) \in Int, Day <= ReceiverTime(t),
           NEW d, d = DateFromDdmmyy(ReceiverTime(t)),
           NEW g, g = d + SecondOfDay(ReceiverTime(t))
    PROVE  /\ Y2000 <= ReceiverTime(t) => g = ReceiverTime(t)
           /\ ReceiverTime(t) < Y2000 => WindowEnd <= g
<1>1. SecondOfDay(ReceiverTime(t)) \in Int
  BY DayRange
<1> QED
  BY <1>1, ClockAssumption, CalendarAssumption DEF DateFromDdmmyy, WindowEnd

LEMMA RolloverStep == RolloverInv /\ [Next]_clockVars => RolloverInv'
<1> SUFFICES ASSUME RolloverInv, [Next]_clockVars PROVE RolloverInv'
  OBVIOUS
<1>0. TypeInv /\ TypeInv'
  BY TypeStep DEF RolloverInv
<1> USE DEF RolloverInv
<1>9. /\ gmt \in Int /\ told \in Int /\ timestamp \in Int
      /\ gmt' \in Int /\ told' \in Int /\ behind \in Int
      /\ WindowEnd \in Int
  BY <1>0, ClockAssumption DEF TypeInv, NmeaClockTypeOK, WindowEnd
<1>1. CASE RMC
  <2>1. PICK t \in utc - MaxDelay .. utc, dated \in BOOLEAN :
            t >= told /\ told' = t /\ gmt' = mUtcDate' + SecondOfDay(ReceiverTime(t))
    BY <1>1 DEF RMC
  <2>2. step' = "shift" /\ behind' = behind
    BY <1>1 DEF RMC
  <2>3. RolloverExact'
    BY <2>2 DEF RolloverExact, Stamped
  <2>4. /\ t \in Int /\ ReceiverTime(t) \in Int /\ Day <= ReceiverTime(t)
        /\ ReceiverTime(told)' = ReceiverTime(t)
        /\ ReceiverTime(t) = t - behind * kRolloverPeriodSec
    BY <1>0, <2>1, <2>2, ReceiverTimePositive DEF ReceiverTime, TypeInv, NmeaClockTypeOK
  <2>5. Claimed' => mUtcDate' = DateFromDdmmyy(ReceiverTime(t))
    BY <2>1, <2>2 DEF Claimed, DateCurrent, ReceiverTime, DateFromDdmmyy, SecondOfDay
  <2>6. ASSUME InCentury' PROVE gmt' = told' - behind * kRolloverPeriodSec
    <3>1. Y2000 <= ReceiverTime(t) /\ mUtcDate' = DateFromDdmmyy(ReceiverTime(t))
      BY <2>4, <2>5, <2>6 DEF InCentury
    <3> QED
      BY <2>1, <2>4, <3>1, TimeRead
  <2>7. ASSUME InCentury' PROVE gmt' < WindowEnd
    <3>1. \E b \in Nat : b = behind * kRolloverPeriodSec
      BY <1>0, ClockAssumption DEF TypeInv, NmeaClockTypeOK
    <3>2. told' < WindowEnd
      BY <2>7 DEF InCentury, Claimed, Correctable, WindowEnd
    <3>3. PICK b \in Nat : gmt' = told' - b
      BY <2>6, <2>7, <3>1
    <3>4. \A x, y, w \in Int : x = y - b /\ y < w => x < w
      OBVIOUS
    <3> QED
      BY <1>9, <3>2, <3>3, <3>4
  <2>8. ASSUME InCentury' PROVE \E k \in Int : gmt' = told' - k * kRolloverPeriodSec
    BY <2>6, <2>8, <1>9, Zenon
  <2>9. ASSUME Unread' PROVE WindowEnd <= gmt'
    <3>1. ReceiverTime(t) < Y2000 /\ mUtcDate' = DateFromDdmmyy(ReceiverTime(t))
      BY <2>4, <2>5, <2>9 DEF Unread
    <3> QED
      BY <2>1, <2>4, <3>1, TimeRead
  <2>10. WindowEnd' = WindowEnd
    BY DEF WindowEnd
  <2>11. ShiftInv'
    BY <2>7, <2>8, <2>9, <2>10, Zenon DEF ShiftInv
  <2> QED
    BY <1>0, <2>3, <2>11
<1>2. CASE Shift
  <2>1. /\ step = "shift" /\ gmt < kPlausibleFloorSec /\ gmt' = gmt + kRolloverPeriodSec
        /\ UNCHANGED <<told, behind, mUtcDate, step, WindowEnd>>
    BY <1>2 DEF Shift, Implausible, WindowEnd
  <2>2. (InCentury' <=> InCentury) /\ (Unread' <=> Unread)
    BY <2>1 DEF InCentury, Unread, Claimed, DateCurrent, ReceiverTime
  <2>3. ASSUME InCentury PROVE \E k \in Int : gmt' = told' - k * kRolloverPeriodSec
    <3>1. PICK k \in Int : gmt = told - k * kRolloverPeriodSec
      BY <2>1, <2>3 DEF ShiftInv
    <3>2. gmt' = told - (k - 1) * kRolloverPeriodSec
      BY <2>1, <3>1, <1>9, ClockAssumption
    <3>3. k - 1 \in Int
      OBVIOUS
    <3> QED
      BY <2>1, <3>2, <3>3
  <2>4. gmt' < WindowEnd
    BY <2>1, <1>9, ClockAssumption DEF WindowEnd
  <2>5. ~Unread
    BY <2>1, <1>9, ClockAssumption DEF ShiftInv, WindowEnd
  <2>6. RolloverExact'
    BY <2>1 DEF RolloverExact, Stamped
  <2>7. ShiftInv'
    BY <2>1, <2>2, <2>3, <2>4, <2>5, Zenon DEF ShiftInv
  <2> QED
    BY <1>0, <2>6, <2>7
<1>3. CASE Stamp
  <2>1. /\ step = "shift" /\ step' # "shift" /\ timestamp' = gmt
        /\ UNCHANGED <<told, behind, mUtcDate, gmt>>
    BY <1>3 DEF Stamp
  <2>2. kPlausibleFloorSec <= gmt
    BY <1>3, <1>0, <1>9, ClockAssumption DEF Stamp, Implausible, TypeInv
  <2>3. ASSUME InCentury PROVE gmt = told
    <3>1. PICK k \in Int : gmt = told - k * kRolloverPeriodSec
      BY <2>1, <2>3 DEF ShiftInv
    <3>2. /\ gmt < kPlausibleFloorSec + kRolloverPeriodSec
          /\ kPlausibleFloorSec <= told /\ told < kPlausibleFloorSec + kRolloverPeriodSec
      BY <2>1, <2>3 DEF ShiftInv, InCentury, Claimed, Correctable, WindowEnd
    <3>3. kRolloverPeriodSec \in Nat \ {0} /\ kPlausibleFloorSec \in Int
      BY ClockAssumption
    <3> QED
      BY <2>2, <3>1, <3>2, <3>3, <1>9, SameInWindow
  <2>4. ASSUME Unread PROVE gmt # told
    BY <2>1, <2>4, <1>9 DEF ShiftInv, Unread, Claimed, Correctable, WindowEnd
  <2>5. /\ Claimed' <=> Claimed
        /\ ReceiverTime(told)' = ReceiverTime(told)
    BY <2>1 DEF Claimed, DateCurrent, ReceiverTime
  <2>6. Claimed => (gmt = told <=> Y2000 <= ReceiverTime(told))
    BY <1>0, <2>3, <2>4, ReadOrNot DEF InCentury
  <2>7. Exact' <=> gmt = told
    BY <2>1 DEF Exact
  <2>8. RolloverExact'
    BY <2>5, <2>6, <2>7 DEF RolloverExact, Claimed
  <2>9. ShiftInv'
    BY <2>1 DEF ShiftInv
  <2> QED
    BY <1>0, <2>8, <2>9
<1>4. ASSUME UNCHANGED <<told, behind, mUtcDate, gmt, timestamp, timely>>,
             step = step' \/ (step # "shift" /\ step' # "shift")
      PROVE  RolloverInv'
  <2>1. (InCentury' <=> InCentury) /\ (Unread' <=> Unread) /\ WindowEnd' = WindowEnd
    BY <1>4 DEF InCentury, Unread, Claimed, DateCurrent, ReceiverTime, WindowEnd
  <2>2. ShiftInv'
    BY <1>4, <2>1 DEF ShiftInv
  <2>3. RolloverExact'
    BY <1>4 DEF RolloverExact, DateCurrent, ReceiverTime, Exact, Stamped
  <2> QED
    BY <1>0, <2>2, <2>3
<1>5. CASE Compare
  BY <1>5, <1>4 DEF Compare
<1>6. CASE Steer
  BY <1>6, <1>4 DEF Steer
<1>7. CASE Tick \/ OtherSetsClock \/ UNCHANGED clockVars
  BY <1>7, <1>4 DEF Tick, OtherSetsClock, clockVars
<1>8. CASE TimelessRMC
  <2>1. step' = "idle" /\ timely' = FALSE
    BY <1>8 DEF TimelessRMC
  <2> QED
    BY <1>0, <2>1 DEF ShiftInv, RolloverExact, Stamped
<1> QED
  BY <1>1, <1>2, <1>3, <1>5, <1>6, <1>7, <1>8 DEF Next

\* For every receiver and instant in the range of the correction, the loop ends
\* at the true time if the receiver believes to be in this century, and at a
\* wrong one if it does not.
THEOREM RolloverIsExact == Spec => []RolloverExact
<1>1. Init => RolloverInv
  BY TypeInit DEF Init, RolloverInv, ShiftInv, RolloverExact, Stamped
<1>2. RolloverInv => RolloverExact
  BY DEF RolloverInv
<1> QED
  BY <1>1, <1>2, RolloverStep, PTL DEF Spec

\* A receiver that is not behind, or by one rollover, is always corrected: no
\* instant of the correctable time is a period or more away from this century.
THEOREM OneRolloverIsExact ==
    ASSUME \A b \in Behind : b <= 1, Y2000 + kRolloverPeriodSec <= kPlausibleFloorSec
    PROVE  Spec => [](Stamped /\ Correctable(told) /\ DateCurrent => Exact)
<1>1. RolloverInv => (Stamped /\ Correctable(told) /\ DateCurrent => Exact)
  <2> SUFFICES ASSUME RolloverInv, Stamped, Correctable(told), DateCurrent PROVE Exact
    OBVIOUS
  <2>1. behind \in Nat /\ behind <= 1 /\ told \in Int
    BY ClockAssumption DEF RolloverInv, TypeInv, NmeaClockTypeOK
  <2>2. behind = 0 \/ behind = 1
    BY <2>1
  <2>3. kPlausibleFloorSec <= told
    BY DEF Correctable
  <2>4. Y2000 <= ReceiverTime(told)
    BY <2>1, <2>2, <2>3, ClockAssumption DEF ReceiverTime
  <2> QED
    BY <2>4 DEF RolloverInv, RolloverExact
<1>2. Init => RolloverInv
  BY TypeInit DEF Init, RolloverInv, ShiftInv, RolloverExact, Stamped
<1> QED
  BY <1>1, <1>2, RolloverStep, PTL DEF Spec

-----------------------------------------------------------------------------
(* The system clock                                                        *)

\* A sentence is handled before it is MaxDelay old, and what is compared and
\* set is its timestamp.
HandlingInv ==
    /\ step # "idle" => utc - told <= MaxDelay
    /\ step \in {"compare", "steer"} => gmt = timestamp

ClockInv == TypeInv /\ HandlingInv /\ ClockHealed /\ SteeringSettles

LEMMA ClockStep == ClockInv /\ [Next]_clockVars => ClockInv'
<1> SUFFICES ASSUME ClockInv, [Next]_clockVars PROVE ClockInv'
  OBVIOUS
<1>0. TypeInv /\ TypeInv'
  BY TypeStep DEF ClockInv
<1>9. /\ utc \in Int /\ told \in Int /\ told <= utc /\ sysError \in Int
      /\ gmt \in Int /\ timestamp \in Int /\ mTimeSyncThreshold \in Int /\ MaxDelay \in Int
  BY <1>0, ClockAssumption DEF TypeInv, NmeaClockTypeOK
<1> USE DEF ClockInv, HandlingInv, ClockHealed, SteeringSettles, Exact
<1>1. CASE RMC
  <2>1. /\ step' = "shift" /\ utc' = utc /\ utc - told' <= MaxDelay
        /\ UNCHANGED <<sysError, mTimeSyncThreshold, clockSource>>
    BY <1>1, <1>9 DEF RMC
  <2> QED
    BY <1>0, <2>1
<1>2. CASE Shift
  BY <1>0, <1>2 DEF Shift
<1>3. CASE Stamp
  BY <1>0, <1>3 DEF Stamp
<1>4. CASE Compare
  <2>1. /\ step = "compare" /\ gmt = timestamp /\ utc - told <= MaxDelay
        /\ UNCHANGED <<utc, sysError, mTimeSyncThreshold, gmt, timestamp, told>>
    BY <1>4 DEF Compare
  <2>2. CASE Off
    <3>1. step' = "steer" /\ clockSource' = clockSource
      BY <1>4, <2>2 DEF Compare
    <3>2. ~(clockSource = "gps" /\ MaxDelay <= mTimeSyncThreshold /\ timestamp = told)
      BY <2>1, <2>2, <1>9 DEF Off, Diff
    <3> QED
      BY <1>0, <2>1, <3>1, <3>2
  <2>3. CASE ~Off
    <3>1. step' = "idle"
      BY <1>4, <2>3 DEF Compare
    <3>2. CASE timestamp = told /\ clockSource = "other"
      <4>1. -(mTimeSyncThreshold + MaxDelay) <= sysError /\ sysError <= mTimeSyncThreshold
        BY <2>1, <2>3, <3>2, <1>9 DEF Off, Diff
      <4>2. clockSource' = "checked"
        BY <1>4, <2>3, <3>2 DEF Compare
      <4> QED
        BY <1>0, <2>1, <3>1, <4>1, <4>2
    <3>3. CASE ~(timestamp = told /\ clockSource = "other")
      <4>1. clockSource' = clockSource
        BY <1>4, <3>3 DEF Compare
      <4> QED
        BY <1>0, <2>1, <3>1, <4>1
    <3> QED BY <3>2, <3>3
  <2> QED BY <2>2, <2>3
<1>5. CASE Steer
  BY <1>0, <1>9, <1>5 DEF Steer
<1>6. CASE Tick
  BY <1>0, <1>9, <1>6 DEF Tick
<1>7. CASE OtherSetsClock
  BY <1>0, <1>7 DEF OtherSetsClock
<1>8. CASE UNCHANGED clockVars
  BY <1>0, <1>8 DEF clockVars
<1>10. CASE TimelessRMC
  BY <1>0, <1>10 DEF TimelessRMC
<1> QED
  BY <1>1, <1>2, <1>3, <1>4, <1>5, <1>6, <1>7, <1>8, <1>10 DEF Next

LEMMA ClockInvariant == Spec => []ClockInv
<1>1. Init => ClockInv
  BY TypeInit DEF Init, ClockInv, HandlingInv, ClockHealed, SteeringSettles
<1> QED
  BY <1>1, ClockStep, PTL DEF Spec

\* A clock that was compared with a right RMC is right up to the threshold.
THEOREM ClockStaysHealed == Spec => []ClockHealed
<1>1. ClockInv => ClockHealed
  BY DEF ClockInv
<1> QED
  BY ClockInvariant, <1>1, PTL

\* A clock set from a right RMC is left alone by the right RMCs after it.
THEOREM SteeringIsSettled == Spec => []SteeringSettles
<1>1. ClockInv => SteeringSettles
  BY DEF ClockInv
<1> QED
  BY ClockInvariant, <1>1, PTL

-----------------------------------------------------------------------------
(* The carried date                                                        *)

Midnight(t) == t - SecondOfDay(t)

\* The date in use came from the last RMC that had one, which is not younger
\* than the last RMC.
DateInv ==
    /\ toldDated <= told
    /\ \E s \in Starts : s <= toldDated
    /\ mUtcDate # NoDate => mUtcDate = DateFromDdmmyy(ReceiverTime(toldDated))

\* The true instant of the date in use, if the correction is right.
TrueDate == mUtcDate + behind * kRolloverPeriodSec

DateClaimed == Y2000 <= mUtcDate /\ Correctable(TrueDate)

\* While the loop runs, its time is whole periods away from where it ends.
CarriedInv ==
    DateClaimed =>
        /\ step = "shift" =>
              /\ \E k \in Int : gmt = TrueDate + SecondOfDay(told) - k * kRolloverPeriodSec
              /\ gmt < kPlausibleFloorSec + kRolloverPeriodSec
        /\ Stamped => timestamp = TrueDate + SecondOfDay(told)

LEMMA Decompose == \A t \in Int : \E q \in Int : t = q * Day + SecondOfDay(t)
<1> SUFFICES ASSUME NEW t \in Int PROVE \E q \in Int : t = q * Day + SecondOfDay(t)
  OBVIOUS
<1>1. Day \in Int /\ Day > 0
  BY ClockAssumption
<1>2. t \div Day \in Int /\ t = (t \div Day) * Day + (t % Day)
  BY <1>1
<1> QED
  BY <1>2 DEF SecondOfDay

\* Instants whole days apart have the same time of day.
LEMMA SameTimeOfDay ==
    ASSUME NEW a \in Int, NEW q \in Int, NEW s \in 0 .. Day - 1, a = q * Day + s
    PROVE  SecondOfDay(a) = s
<1>1. PICK p \in Int : a = p * Day + SecondOfDay(a)
  BY Decompose
<1>2. SecondOfDay(a) \in 0 .. Day - 1
  BY DayRange
<1>3. SecondOfDay(a) = s - (p - q) * Day
  BY <1>1, <1>2, ClockAssumption
<1>4. p - q \in Int /\ Day \in Nat \ {0}
  BY ClockAssumption
<1> QED
  BY <1>2, <1>3, <1>4, SameInWindow

LEMMA RolloverDays ==
    \E w \in Int : kRolloverPeriodSec = w * Day
<1>1. SecondOfDay(kRolloverPeriodSec) = 0 /\ kRolloverPeriodSec \in Int
  BY ClockAssumption, CalendarAssumption DEF SecondOfDay
<1>2. PICK w \in Int : kRolloverPeriodSec = w * Day + SecondOfDay(kRolloverPeriodSec)
  BY <1>1, Decompose
<1>3. w * Day \in Int
  BY ClockAssumption
<1> QED
  BY <1>1, <1>2, <1>3

LEMMA FloorDays ==
    \E w \in Int : kPlausibleFloorSec = w * Day
<1>1. SecondOfDay(kPlausibleFloorSec) = 0 /\ kPlausibleFloorSec \in Int
  BY ClockAssumption, CalendarAssumption DEF SecondOfDay
<1>2. PICK w \in Int : kPlausibleFloorSec = w * Day + SecondOfDay(kPlausibleFloorSec)
  BY <1>1, Decompose
<1>3. w * Day \in Int
  BY ClockAssumption
<1> QED
  BY <1>1, <1>2, <1>3

\* A receiver that is behind by whole rollovers has the true time of day.
LEMMA ReceiverTimeOfDay ==
    ASSUME NEW t \in Int, behind \in Int
    PROVE  ReceiverTime(t) \in Int /\ SecondOfDay(ReceiverTime(t)) = SecondOfDay(t)
<1>1. PICK q \in Int : t = q * Day + SecondOfDay(t)
  BY Decompose
<1>2. PICK w \in Int : kRolloverPeriodSec = w * Day
  BY RolloverDays
<1>3. SecondOfDay(t) \in 0 .. Day - 1
  BY DayRange
<1>4. behind * w \in Int /\ behind * (w * Day) = (behind * w) * Day
  BY ClockAssumption
<1>5. ReceiverTime(t) = (q - behind * w) * Day + SecondOfDay(t)
  BY <1>1, <1>2, <1>3, <1>4, ClockAssumption DEF ReceiverTime
<1>6. ReceiverTime(t) \in Int
  BY ClockAssumption DEF ReceiverTime
<1> QED
  BY <1>3, <1>4, <1>5, <1>6, SameTimeOfDay

\* Midnights do not overtake each other.
LEMMA MidnightMonotone ==
    ASSUME NEW a \in Int, NEW b \in Int, a <= b PROVE Midnight(a) <= Midnight(b)
<1>1. PICK p \in Int : a = p * Day + SecondOfDay(a)
  BY Decompose
<1>2. PICK q \in Int : b = q * Day + SecondOfDay(b)
  BY Decompose
<1>3. SecondOfDay(a) \in 0 .. Day - 1 /\ SecondOfDay(b) \in 0 .. Day - 1
  BY DayRange
<1>4. p <= q
  <2> SUFFICES ASSUME q + 1 <= p PROVE FALSE
    OBVIOUS
  <2>1. q * Day + Day <= p * Day
    <3>1. 0 <= (p - (q + 1)) * Day
      BY ClockAssumption
    <3> QED BY <3>1, ClockAssumption
  <2> QED BY <1>1, <1>2, <1>3, <2>1, ClockAssumption
<1>5. p * Day <= q * Day
  <2>1. 0 <= (q - p) * Day
    BY <1>4, ClockAssumption
  <2> QED BY <2>1, ClockAssumption
<1> QED
  BY <1>1, <1>2, <1>3, <1>5, ClockAssumption DEF Midnight

LEMMA StartedReceiver ==
    ASSUME behind \in Behind, NEW t \in Int, \E s \in Starts : s <= t
    PROVE  ReceiverTime(t) \in Int /\ Day <= ReceiverTime(t)
<1>1. PICK s \in Starts : s <= t
  OBVIOUS
<1>2. Day <= s - behind * kRolloverPeriodSec
  BY <1>1, ClockAssumption
<1>3. behind * kRolloverPeriodSec \in Int
  BY ClockAssumption
<1> QED
  BY <1>1, <1>2, <1>3, ClockAssumption DEF ReceiverTime

LEMMA DateStep == ASSUME TypeInv, DateInv, [Next]_clockVars PROVE DateInv'
<1> USE DEF DateInv
<1>0. /\ told \in Int /\ toldDated \in Int /\ utc \in Int /\ MaxDelay \in Int
  BY ClockAssumption DEF TypeInv, NmeaClockTypeOK
<1>1. CASE RMC
  <2>1. PICK t \in utc - MaxDelay .. utc, dated \in BOOLEAN :
            /\ t >= told
            /\ told' = t /\ toldDated' = IF dated THEN t ELSE toldDated
            /\ mUtcDate' = Carry(t, dated)
    BY <1>1 DEF RMC
  <2>2. behind' = behind
    BY <1>1 DEF RMC
  <2>3. toldDated' <= told' /\ \E s \in Starts : s <= toldDated'
    BY <1>0, <2>1, ClockAssumption
  <2>4. mUtcDate' # NoDate => mUtcDate' = DateFromDdmmyy(ReceiverTime(toldDated)')
    BY <2>1, <2>2 DEF Carry, ReceiverTime
  <2> QED
    BY <2>2, <2>3, <2>4 DEF ReceiverTime
<1>2. CASE UNCHANGED <<told, toldDated, mUtcDate, behind>>
  BY <1>2 DEF ReceiverTime
<1>3. CASE TimelessRMC
  <2>1. PICK t \in utc - MaxDelay .. utc :
            t >= told /\ told' = t /\ toldDated' = t /\ mUtcDate' = Carry(t, TRUE)
    BY <1>3 DEF TimelessRMC
  <2>2. behind' = behind
    BY <1>3 DEF TimelessRMC
  <2>3. toldDated' <= told' /\ \E s \in Starts : s <= toldDated'
    BY <1>0, <2>1, ClockAssumption
  <2>4. mUtcDate' = DateFromDdmmyy(ReceiverTime(toldDated)')
    BY <2>1, <2>2 DEF Carry, ReceiverTime
  <2> QED
    BY <2>2, <2>3, <2>4 DEF ReceiverTime
<1> QED
  BY <1>1, <1>2, <1>3 DEF Next, Shift, Stamp, Compare, Steer, Tick, OtherSetsClock, clockVars

\* A date the claim is about is the receiver's own: what is read as a year of
\* this century is one.
LEMMA TrueDateIsMidnight ==
    ASSUME TypeInv, DateInv, DateClaimed PROVE TrueDate = Midnight(toldDated)
<1>0. toldDated \in Int /\ behind \in Behind /\ behind \in Nat /\ mUtcDate \in Int
  BY ClockAssumption DEF TypeInv, NmeaClockTypeOK
<1> DEFINE r == ReceiverTime(toldDated)
           b == behind * kRolloverPeriodSec
<1>1. r \in Int /\ Day <= r
  BY <1>0, StartedReceiver DEF DateInv
<1>2. b \in Nat /\ r = toldDated - b
  BY <1>0, ClockAssumption DEF ReceiverTime
<1>3. SecondOfDay(r) \in 0 .. Day - 1
  BY <1>1, DayRange
<1>4. SecondOfDay(r) = SecondOfDay(toldDated)
  BY <1>0, ReceiverTimeOfDay
<1>5. mUtcDate = DateFromDdmmyy(r)
  BY ClockAssumption DEF DateInv, DateClaimed, NoDate
<1>6. TrueDate = mUtcDate + b /\ mUtcDate + b < kPlausibleFloorSec + kRolloverPeriodSec
  BY DEF DateClaimed, Correctable, TrueDate
<1> HIDE DEF r, b
<1>7. ~(r < Y2000)
  <2> SUFFICES ASSUME r < Y2000 PROVE FALSE
    OBVIOUS
  <2>1. mUtcDate = r - SecondOfDay(r) + Century
    BY <1>5 DEF DateFromDdmmyy
  <2> QED
    BY <1>1, <1>2, <1>3, <1>6, <2>1, ClockAssumption, CalendarAssumption
<1>8. mUtcDate = r - SecondOfDay(r)
  BY <1>1, <1>3, <1>5, <1>7 DEF DateFromDdmmyy
<1> QED
  BY <1>0, <1>1, <1>2, <1>3, <1>4, <1>6, <1>8 DEF Midnight

\* The true date, with any time of day, is in the window the loop ends in.
LEMMA TrueDateInWindow ==
    ASSUME TypeInv, DateInv, DateClaimed, NEW s \in 0 .. Day - 1
    PROVE  /\ TrueDate \in Int
           /\ kPlausibleFloorSec <= TrueDate + s
           /\ TrueDate + s < kPlausibleFloorSec + kRolloverPeriodSec
<1>0. toldDated \in Int /\ Day \in Nat \ {0} /\ kPlausibleFloorSec \in Int
  BY ClockAssumption DEF TypeInv, NmeaClockTypeOK
<1>1. TrueDate = Midnight(toldDated)
  BY TrueDateIsMidnight
<1>2. PICK q \in Int : toldDated = q * Day + SecondOfDay(toldDated)
  BY <1>0, Decompose
<1>3. SecondOfDay(toldDated) \in 0 .. Day - 1
  BY <1>0, DayRange
<1>4. q * Day \in Int /\ TrueDate = q * Day
  BY <1>0, <1>1, <1>2, <1>3 DEF Midnight
<1>5. PICK v \in Int : kPlausibleFloorSec = v * Day
  BY FloorDays
<1>6. PICK w \in Int : kRolloverPeriodSec = w * Day
  BY RolloverDays
<1>7. kPlausibleFloorSec <= TrueDate /\ TrueDate < kPlausibleFloorSec + kRolloverPeriodSec
  BY DEF DateClaimed, Correctable
<1>8. q * Day < v * Day + w * Day
  BY <1>4, <1>5, <1>6, <1>7
<1>9. q + 1 <= v + w
  <2> SUFFICES ASSUME v + w <= q PROVE FALSE
    OBVIOUS
  <2>1. 0 <= (q - (v + w)) * Day
    BY <1>0
  <2> QED BY <1>0, <1>8, <2>1
<1>10. q * Day + Day <= v * Day + w * Day
  <2>1. 0 <= ((v + w) - (q + 1)) * Day
    BY <1>0, <1>9
  <2> QED BY <1>0, <2>1
<1> QED
  BY <1>0, <1>4, <1>5, <1>6, <1>7, <1>10

\* No time of the true day is a period past the floor, in this state and in the
\* next.
DayInWindow ==
    \A s \in 0 .. Day - 1 : TrueDate + s < kPlausibleFloorSec + kRolloverPeriodSec

LEMMA NextTrueDateInWindow == TypeInv' /\ DateInv' /\ DateClaimed' => DayInWindow'
<1>1. TypeInv /\ DateInv /\ DateClaimed => DayInWindow
  BY TrueDateInWindow DEF DayInWindow
<1> QED
  BY <1>1, PTL

LEMMA CarriedStep ==
    ASSUME TypeInv, TypeInv', DateInv, DateInv', CarriedInv, [Next]_clockVars
    PROVE  CarriedInv'
<1>0. /\ gmt \in Int /\ told \in Int /\ timestamp \in Int /\ mUtcDate \in Int
      /\ gmt' \in Int /\ told' \in Int /\ mUtcDate' \in Int /\ behind \in Nat
      /\ kRolloverPeriodSec \in Nat \ {0} /\ kPlausibleFloorSec \in Int
  BY ClockAssumption DEF TypeInv, NmeaClockTypeOK
<1>1. CASE RMC
  <2>1. PICK t \in utc - MaxDelay .. utc, dated \in BOOLEAN :
            told' = t /\ gmt' = mUtcDate' + SecondOfDay(ReceiverTime(t))
    BY <1>1 DEF RMC
  <2>2. step' = "shift" /\ behind' = behind
    BY <1>1 DEF RMC
  <2>3. SecondOfDay(ReceiverTime(t)) = SecondOfDay(told') /\ SecondOfDay(told') \in 0 .. Day - 1
    BY <1>0, <2>1, ReceiverTimeOfDay, DayRange
  <2>4. PICK b \in Nat : b = behind * kRolloverPeriodSec
    BY <1>0
  <2>5. TrueDate' = mUtcDate' + b
    BY <2>2, <2>4 DEF TrueDate
  <2>6. gmt' = TrueDate' + SecondOfDay(told') - behind * kRolloverPeriodSec
    BY <1>0, <2>1, <2>3, <2>4, <2>5, ClockAssumption
  <2>7. ASSUME DateClaimed' PROVE gmt' < kPlausibleFloorSec + kRolloverPeriodSec
    <3>1. TrueDate' + SecondOfDay(told') < kPlausibleFloorSec + kRolloverPeriodSec
      BY <2>3, <2>7, NextTrueDateInWindow DEF DayInWindow
    <3> QED
      BY <1>0, <2>3, <2>4, <2>5, <2>6, <3>1, ClockAssumption
  <2>8. \E k \in Int : gmt' = TrueDate' + SecondOfDay(told') - k * kRolloverPeriodSec
    BY <1>0, <2>6
  <2> QED
    BY <2>2, <2>7, <2>8 DEF CarriedInv, Stamped
<1>2. CASE Shift
  <2>1. /\ step = "shift" /\ gmt < kPlausibleFloorSec /\ gmt' = gmt + kRolloverPeriodSec
        /\ UNCHANGED <<told, behind, mUtcDate, step>>
    BY <1>2 DEF Shift, Implausible
  <2>2. (DateClaimed' <=> DateClaimed) /\ TrueDate' = TrueDate
    BY <2>1 DEF DateClaimed, TrueDate
  <2>3. ASSUME DateClaimed
        PROVE  \E k \in Int : gmt' = TrueDate' + SecondOfDay(told') - k * kRolloverPeriodSec
    <3>1. PICK k \in Int : gmt = TrueDate + SecondOfDay(told) - k * kRolloverPeriodSec
      BY <2>1, <2>3 DEF CarriedInv
    <3>0. TrueDate \in Int /\ SecondOfDay(told) \in Int
      BY <1>0, DayRange, ClockAssumption DEF TrueDate
    <3>2. PICK b \in Int : b = TrueDate + SecondOfDay(told)
      BY <3>0
    <3>3. PICK m \in Int : m = k * kRolloverPeriodSec
      BY <1>0
    <3>4. (k - 1) * kRolloverPeriodSec = m - kRolloverPeriodSec
      BY <1>0, <3>3
    <3>5. gmt = b - m
      BY <1>0, <3>0, <3>1, <3>2, <3>3
    <3>6. gmt' = b - (k - 1) * kRolloverPeriodSec
      BY <1>0, <2>1, <3>4, <3>5
    <3>7. gmt' = TrueDate' + SecondOfDay(told') - (k - 1) * kRolloverPeriodSec
      BY <1>0, <2>1, <2>2, <3>0, <3>2, <3>6
    <3> QED
      BY <3>7
  <2>4. gmt' < kPlausibleFloorSec + kRolloverPeriodSec
    BY <1>0, <2>1
  <2> QED
    BY <2>1, <2>2, <2>3, <2>4 DEF CarriedInv, Stamped
<1>3. CASE Stamp
  <2>1. /\ step = "shift" /\ step' # "shift" /\ timestamp' = gmt
        /\ UNCHANGED <<told, behind, mUtcDate>>
    BY <1>3 DEF Stamp
  <2>2. kPlausibleFloorSec <= gmt
    BY <1>0, <1>3 DEF Stamp, Implausible, TypeInv
  <2>3. (DateClaimed' <=> DateClaimed) /\ TrueDate' = TrueDate
    BY <2>1 DEF DateClaimed, TrueDate
  <2>4. ASSUME DateClaimed PROVE gmt = TrueDate + SecondOfDay(told)
    <3>1. PICK k \in Int : gmt = TrueDate + SecondOfDay(told) - k * kRolloverPeriodSec
      BY <2>1, <2>4 DEF CarriedInv
    <3>2. gmt < kPlausibleFloorSec + kRolloverPeriodSec
      BY <2>1, <2>4 DEF CarriedInv
    <3>3. SecondOfDay(told) \in 0 .. Day - 1
      BY <1>0, DayRange
    <3>4. /\ TrueDate + SecondOfDay(told) \in Int
          /\ kPlausibleFloorSec <= TrueDate + SecondOfDay(told)
          /\ TrueDate + SecondOfDay(told) < kPlausibleFloorSec + kRolloverPeriodSec
      BY <2>4, <3>3, TrueDateInWindow, ClockAssumption
    <3>0. TrueDate \in Int /\ SecondOfDay(told) \in Int
      BY <1>0, <3>3, ClockAssumption DEF TrueDate
    <3>5. PICK b \in Int : b = TrueDate + SecondOfDay(told)
      BY <3>4
    <3>6. kPlausibleFloorSec <= b /\ b < kPlausibleFloorSec + kRolloverPeriodSec
      BY <3>4, <3>5
    <3>7. gmt = b - k * kRolloverPeriodSec
      BY <1>0, <3>0, <3>1, <3>5
    <3>8. b = gmt
      BY <1>0, <2>2, <3>2, <3>6, <3>7, SameInWindow
    <3> QED
      BY <3>5, <3>8
  <2> QED
    BY <2>1, <2>3, <2>4 DEF CarriedInv
<1>4. CASE /\ UNCHANGED <<told, behind, mUtcDate, gmt, timestamp, timely>>
           /\ step = step' \/ (step # "shift" /\ step' # "shift")
  BY <1>4 DEF CarriedInv, DateClaimed, TrueDate, Stamped
<1>5. CASE Compare \/ Steer \/ Tick \/ OtherSetsClock \/ UNCHANGED clockVars
  BY <1>4, <1>5 DEF Compare, Steer, Tick, OtherSetsClock, clockVars
<1>6. CASE TimelessRMC
  BY <1>6 DEF TimelessRMC, CarriedInv, Stamped
<1> QED
  BY <1>1, <1>2, <1>3, <1>5, <1>6 DEF Next

\* A carried date makes the time lag, by whole days and never beyond the day
\* of the last RMC that had one (NmeaParser.cpp:277-291).
THEOREM CarriedDateOnlyLags == Spec => []CarriedDateLags
<1>1. Init => DateInv /\ CarriedInv
  BY ClockAssumption DEF Init, DateInv, CarriedInv, Stamped, DateClaimed, NoDate
<1>2. TypeInv /\ DateInv /\ CarriedInv => CarriedDateLags
  <2> SUFFICES ASSUME TypeInv, DateInv, CarriedInv, Stamped, DateClaimed
               PROVE  /\ timestamp <= told
                      /\ timestamp - SecondOfDay(timestamp) = Midnight(toldDated)
    BY DEF CarriedDateLags, DateClaimed, TrueDate, Midnight
  <2>1. toldDated \in Int /\ told \in Int /\ toldDated <= told
    BY DEF TypeInv, NmeaClockTypeOK, DateInv
  <2>2. timestamp = Midnight(toldDated) + SecondOfDay(told)
    BY TrueDateIsMidnight DEF CarriedInv
  <2>3. SecondOfDay(told) \in 0 .. Day - 1 /\ SecondOfDay(toldDated) \in 0 .. Day - 1
    BY <2>1, DayRange
  <2>4. timestamp <= told
    <3>1. Midnight(toldDated) <= Midnight(told)
      BY <2>1, MidnightMonotone
    <3> QED
      BY <2>1, <2>2, <2>3, <3>1, ClockAssumption DEF Midnight
  <2>5. SecondOfDay(timestamp) = SecondOfDay(told)
    <3>1. PICK q \in Int : toldDated = q * Day + SecondOfDay(toldDated)
      BY <2>1, Decompose
    <3>2. q * Day \in Int /\ timestamp = q * Day + SecondOfDay(told) /\ timestamp \in Int
      BY <2>1, <2>2, <2>3, <3>1, ClockAssumption DEF Midnight
    <3> QED
      BY <2>3, <3>2, SameTimeOfDay
  <2> QED
    BY <2>1, <2>2, <2>3, <2>4, <2>5, ClockAssumption DEF Midnight
<1> QED
  BY <1>1, <1>2, TypeInit, TypeStep, DateStep, CarriedStep, PTL DEF Spec
=============================================================================
