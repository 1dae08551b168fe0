---------------------------- MODULE ExtensionsMC ----------------------------
(* Values of Extensions's constants for TLC.                               *)
EXTENDS Extensions

CONSTANTS t1, t2, cb1, cb2, p1, p2

TwoThreads   == {t1, t2}
TwoCallbacks == {cb1, cb2}
TwoObjects   == {p1, p2}
=============================================================================
