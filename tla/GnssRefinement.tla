--------------------------- MODULE GnssRefinement ---------------------------
(* Gnss, called once at a time, implements GnssContract.                   *)
EXTENDS Gnss

\* The session flag and the history of reported statuses, as one phase.
ContractPhase ==
    CASE mSessionActive  /\ balance = 0 -> "starting"
      [] mSessionActive  /\ balance = 1 -> "begun"
      [] ~mSessionActive /\ balance = 1 -> "ending"
      [] ~mSessionActive /\ balance = 0 -> "ended"
      [] OTHER -> "broken"

\* A report whose toggle test has passed is still to be issued.
ContractPending ==
    [r \in Readers |-> IF pc[r] = "reportLock" THEN batch[r] + 1 ELSE batch[r]]

Contract == INSTANCE GnssContract
    WITH phase <- ContractPhase, pending <- ContractPending, callback <- mCallback

\* Every behaviour of the threads, seen through the mapping, is one the
\* contract allows (start, stop, close and reader thread, Gnss.cpp:104-167).
ImplementsContract == Contract!Spec
=============================================================================
