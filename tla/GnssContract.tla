---------------------------- MODULE GnssContract ----------------------------
(***************************************************************************)
(* What the service promises the framework about sessions and reports,     *)
(* without locks, buffers or descriptors:                                 *)
(*   - SESSION_BEGIN and SESSION_END alternate;                            *)
(*   - a buffer of the receiver's bytes is taken up for reporting only     *)
(*     while the session is active;                                        *)
(*   - reports come only from a buffer that was taken up;                  *)
(*   - close() gives the callback up only after the end of the session was *)
(*     reported, with no report outstanding.                               *)
(* It holds when the framework makes its calls one at a time.              *)
(***************************************************************************)
EXTENDS Naturals

CONSTANTS Readers, Callbacks, NoCallback, MaxReports

VARIABLES
    phase,      \* "ended", "starting", "begun" or "ending"
    pending,    \* per reader: reports its current buffer may still issue
    callback    \* the registered callback

contractVars == <<phase, pending, callback>>

Init ==
    /\ phase = "ended"
    /\ pending = [r \in Readers |-> 0]
    /\ callback = NoCallback

Phase(from, to) == phase = from /\ phase' = to

\* The session becomes active, and then the framework is told so.
Activate == Phase("ended", "starting") /\ UNCHANGED <<pending, callback>>
ReportBegin == Phase("starting", "begun") /\ UNCHANGED <<pending, callback>>

Deactivate == Phase("begun", "ending") /\ UNCHANGED <<pending, callback>>
ReportEnd == Phase("ending", "ended") /\ UNCHANGED <<pending, callback>>

TakeBuffer(r) ==
    /\ phase \in {"starting", "begun"}
    /\ pending[r] = 0
    /\ \E n \in 0 .. MaxReports : pending' = [pending EXCEPT ![r] = n]
    /\ UNCHANGED <<phase, callback>>

\* One report issued, or suppressed by its toggle.
Report(r) ==
    /\ pending[r] > 0
    /\ pending' = [pending EXCEPT ![r] = @ - 1]
    /\ UNCHANGED <<phase, callback>>

Register ==
    /\ callback' \in Callbacks
    /\ UNCHANGED <<phase, pending>>

Release ==
    /\ phase = "ended"
    /\ \A r \in Readers : pending[r] = 0
    /\ callback' = NoCallback
    /\ UNCHANGED <<phase, pending>>

\* The process is restarted.
Crash ==
    /\ phase' = "ended"
    /\ pending' = [r \in Readers |-> 0]
    /\ callback' = NoCallback

Next ==
    \/ Activate \/ ReportBegin \/ Deactivate \/ ReportEnd
    \/ \E r \in Readers : TakeBuffer(r) \/ Report(r)
    \/ Register \/ Release \/ Crash

Spec == Init /\ [][Next]_contractVars
=============================================================================
