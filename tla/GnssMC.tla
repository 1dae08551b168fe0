------------------------------- MODULE GnssMC -------------------------------
(* Values of Gnss's constants for TLC.                                     *)
EXTENDS GnssRefinement, TLC

CONSTANTS c1, c2, cb1, cb2, r1, r2, r3, noCallback, noThread

OneClient  == {c1}
TwoClients == {c1, c2}

\* With one more reader than clients a slot is always free: a client holds
\* at most one unassigned thread, and mThread one more.
TwoReaders   == {r1, r2}
ThreeReaders == {r1, r2, r3}

OneCallback  == {cb1}
TwoCallbacks == {cb1, cb2}

\* Below and above the clamp's range; and one value inside it.
ClampedIntervals == {0, 70000}
OneInterval      == {1000}

\* persist.vendor.gps.max_rate is not set.
MaxRateUnset == {0}

EveryFault     == AllFaults
NoFaults       == {}
CableFaults    == {"unplug", "open", "termios", "readError"}
TermiosAndRead == {"termios", "readError"}
ReadErrorsOnly == {"readError"}

Lifecycle        == {"setCallback", "start", "stop", "close"}
LifecycleAndRate == Lifecycle \union {"setPositionMode"}
LifecycleAndNmea == Lifecycle \union {"nmea"}

ReaderSymmetry == Permutations(TwoReaders)
RacingSymmetry ==
    Permutations(TwoClients) \union Permutations(ThreeReaders) \union Permutations(TwoCallbacks)
=============================================================================
