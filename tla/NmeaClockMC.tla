---------------------------- MODULE NmeaClockMC ----------------------------
(* Values of NmeaClock's constants for TLC.  The calendar is the real one, *)
(* in units of six hours.                                                  *)
EXTENDS NmeaClock

days == 4

Date2000   == 10957 * days
HundredYears == 36525 * days
Weeks1024  == 7168 * days
Date2025   == 20089 * days

\* Around the floor; in 2026; around the last correctable instant (2044).
Windows   == {Date2025 - 3, 20600 * days, Date2025 + Weeks1024 - 5}
SomeTimes == UNION {s .. s + 7 : s \in Windows}

UpToTwoBehind   == 0 .. 2
SomeThresholds  == {0, 1, 2}
SomeClockErrors == {-9, 0, 9}
=============================================================================
