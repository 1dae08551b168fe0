----------------------------- MODULE Extensions -----------------------------
(***************************************************************************)
(* The extensions of IGnss: what the getters answer (Gnss.cpp) and what    *)
(* the framework makes of it, and IGnssPowerIndication                     *)
(* (GnssPowerIndication.cpp), whose methods call the framework while they  *)
(* hold the mutex.  Any binder thread may serve any call.                  *)
(*                                                                         *)
(* The other extensions answer ok() and do nothing.  A callback they are   *)
(* given they keep, and never call.                                        *)
(***************************************************************************)
EXTENDS Naturals

CONSTANTS
    BinderThreads,  \* the pool's threads, and main's (service.cpp)
    NoThread,       \* mMutex is free
    Callbacks,      \* IGnssPowerIndicationCallback objects
    NoCallback,     \* nullptr
    Objects,        \* GnssPowerIndication objects that may be made
    Power           \* the one the Gnss constructor makes

ASSUME ExtensionsAssumption ==
    /\ NoThread \notin BinderThreads
    /\ NoCallback \notin Callbacks
    /\ Power \in Objects

\* Made once, and made by each call of the getter.
Shared == {"Configuration", "PowerIndication"}
Fresh  == {"Measurement", "AGnss", "AGnssRil", "VisibilityControl", "Debug", "AntennaInfo"}
Unsupported == {"Psds", "Batching", "Geofence", "NavigationMessage", "MeasurementCorrections"}

AllExtensions == Shared \union Fresh \union Unsupported

VARIABLES
    pc,             \* where a binder thread is in setCallback or requestGnssPowerStats
    object,         \* the object it serves
    arg,            \* setCallback's argument
    mMutex, mCallback,      \* per object
    calling,        \* the callback it is calling
    extension,      \* the extension the framework asked for last
    wrapper,        \* what it holds of it: "absent", "object" or "null"
    handle,         \* the framework's IGnssPowerIndication
    crashed,        \* the framework called a method of null
    introduced,     \* history: callbacks told the capabilities since they were set
    registered,     \* history: the callback of the last setCallback, once it returned
    expected        \* history: the callback a request has to reach

powerVars == <<pc, object, arg, mMutex, mCallback, calling>>
frameworkVars == <<extension, wrapper, handle, crashed>>
historyVars == <<introduced, registered, expected>>
extensionVars == <<powerVars, frameworkVars, historyVars>>

Labels == {"idle", "setLock", "setCall", "setReturn", "statsLock", "statsCall", "statsReturn"}

InCritical(t) == pc[t] \in {"setCall", "setReturn", "statsCall", "statsReturn"}

\* Types; and who is between lock and unlock of an object, and only they, has
\* its mutex (GnssPowerIndication.cpp:16, 26).
ExtensionsTypeOK ==
    /\ pc \in [BinderThreads -> Labels]
    /\ object \in [BinderThreads -> Objects]
    /\ arg \in [BinderThreads -> Callbacks \union {NoCallback}]
    /\ mMutex \in [Objects -> BinderThreads \union {NoThread}]
    /\ \A o \in Objects, t \in BinderThreads : mMutex[o] = t <=> InCritical(t) /\ object[t] = o
    /\ mCallback \in [Objects -> Callbacks \union {NoCallback}]
    /\ calling \in [BinderThreads -> Callbacks \union {NoCallback}]
    /\ extension \in AllExtensions
    /\ wrapper \in {"absent", "object", "null"}
    /\ handle \in Objects
    /\ crashed \in BOOLEAN
    /\ introduced \subseteq Callbacks
    /\ registered \in Callbacks \union {NoCallback}
    /\ expected \in [BinderThreads -> Callbacks \union {NoCallback}]

Init ==
    /\ pc = [t \in BinderThreads |-> "idle"]
    /\ object = [t \in BinderThreads |-> Power]
    /\ arg = [t \in BinderThreads |-> NoCallback]
    /\ mMutex = [o \in Objects |-> NoThread]
    /\ mCallback = [o \in Objects |-> NoCallback]
    /\ calling = [t \in BinderThreads |-> NoCallback]
    /\ extension = "PowerIndication" /\ wrapper = "object"
    /\ handle = Power
    /\ crashed = FALSE
    /\ introduced = {}
    /\ registered = NoCallback
    /\ expected = [t \in BinderThreads |-> NoCallback]

Goto(t, label) == pc' = [pc EXCEPT ![t] = label]

-----------------------------------------------------------------------------
(* The getters, and the framework's wrapper of the result, which looks at  *)
(* the status alone.                                                       *)

\* Mutant: an extension that is not supported is answered by ok() and null.
StatusAlwaysOk(e) == "ok"

Status(e) == IF e \in Unsupported THEN "unsupported" ELSE "ok"

Out(e) == IF e \in Unsupported THEN "null" ELSE "object"

\* Mutant: every call of the getter makes an object.
FreshPowerObject == Objects

\* `*out = mGnssPowerIndication;`
PowerObject == {Power}

GetExtension(e) ==
    /\ extension' = e
    /\ wrapper' = IF Status(e) = "ok" THEN Out(e) ELSE "absent"
    /\ IF e = "PowerIndication" THEN handle' \in PowerObject ELSE handle' = handle
    /\ UNCHANGED <<powerVars, crashed, historyVars>>

\* The framework calls what it wraps.
UseExtension ==
    /\ wrapper # "absent"
    /\ crashed' = (crashed \/ wrapper = "null")
    /\ UNCHANGED <<powerVars, extension, wrapper, handle, historyVars>>

-----------------------------------------------------------------------------
(* GnssPowerIndication                                                     *)

\* Mutant: nobody waits for the mutex.
LockNothing(t) == UNCHANGED mMutex

Lock(t) ==
    /\ mMutex[object[t]] = NoThread
    /\ mMutex' = [mMutex EXCEPT ![object[t]] = t]

\* Mutant: with no callback to call, the method leaves without unlocking.
UnlockAfterCall(t) ==
    mMutex' = [mMutex EXCEPT ![object[t]] = IF calling[t] = NoCallback THEN @ ELSE NoThread]

Unlock(t) == mMutex' = [mMutex EXCEPT ![object[t]] = NoThread]

CallSetCallback(t) ==
    /\ pc[t] = "idle"
    /\ \E cb \in Callbacks \union {NoCallback} : arg' = [arg EXCEPT ![t] = cb]
    /\ object' = [object EXCEPT ![t] = handle]
    /\ Goto(t, "setLock")
    /\ registered' = NoCallback
    /\ expected' = [u \in BinderThreads |-> NoCallback]
    /\ UNCHANGED <<mMutex, mCallback, calling, frameworkVars, introduced>>

\* The locked assignment.
SetLock(t) ==
    /\ pc[t] = "setLock"
    /\ Lock(t)
    /\ mCallback' = [mCallback EXCEPT ![object[t]] = arg[t]]
    /\ introduced' = introduced \ {arg[t]}
    /\ Goto(t, "setCall")
    /\ UNCHANGED <<object, arg, calling, frameworkVars, registered, expected>>

\* `if (mCallback) mCallback->setCapabilitiesCb(0);`
SetCall(t) ==
    /\ pc[t] = "setCall"
    /\ calling' = [calling EXCEPT ![t] = mCallback[object[t]]]
    /\ introduced' = introduced \union ({calling'[t]} \ {NoCallback})
    /\ Goto(t, "setReturn")
    /\ UNCHANGED <<object, arg, mMutex, mCallback, frameworkVars, registered, expected>>

\* Nobody else is in setCallback.
LastSetter(t) ==
    \A u \in BinderThreads \ {t} : pc[u] \notin {"setLock", "setCall", "setReturn"}

\* The framework's callback, if one was called, returns.
SetReturn(t) ==
    /\ pc[t] = "setReturn"
    /\ Unlock(t)
    /\ calling' = [calling EXCEPT ![t] = NoCallback]
    /\ registered' = IF LastSetter(t) THEN arg[t] ELSE NoCallback
    /\ Goto(t, "idle")
    /\ UNCHANGED <<object, arg, mCallback, frameworkVars, introduced, expected>>

CallRequestStats(t) ==
    /\ pc[t] = "idle"
    /\ object' = [object EXCEPT ![t] = handle]
    /\ Goto(t, "statsLock")
    /\ expected' = [expected EXCEPT ![t] = registered]
    /\ UNCHANGED <<arg, mMutex, mCallback, calling, frameworkVars, introduced, registered>>

StatsLock(t) ==
    /\ pc[t] = "statsLock"
    /\ Lock(t)
    /\ Goto(t, "statsCall")
    /\ UNCHANGED <<object, arg, mCallback, calling, frameworkVars, historyVars>>

\* `if (mCallback) ... mCallback->gnssPowerStatsCb(stats);`
StatsCall(t) ==
    /\ pc[t] = "statsCall"
    /\ calling' = [calling EXCEPT ![t] = mCallback[object[t]]]
    /\ expected' = [expected EXCEPT ![t] = IF @ = calling'[t] THEN NoCallback ELSE @]
    /\ Goto(t, "statsReturn")
    /\ UNCHANGED <<object, arg, mMutex, mCallback, frameworkVars, introduced, registered>>

StatsReturn(t) ==
    /\ pc[t] = "statsReturn"
    /\ Unlock(t)
    /\ calling' = [calling EXCEPT ![t] = NoCallback]
    /\ Goto(t, "idle")
    /\ UNCHANGED <<object, arg, mCallback, frameworkVars, historyVars>>

-----------------------------------------------------------------------------
LockStep(t) == SetLock(t) \/ StatsLock(t)

InsideStep(t) == SetCall(t) \/ SetReturn(t) \/ StatsCall(t) \/ StatsReturn(t)

Next ==
    \/ \E e \in AllExtensions : GetExtension(e)
    \/ UseExtension
    \/ \E t \in BinderThreads :
          CallSetCallback(t) \/ CallRequestStats(t) \/ LockStep(t) \/ InsideStep(t)

Spec == Init /\ [][Next]_extensionVars

\* The framework's callbacks return, and do not call this interface again; a
\* thread that waits for a mutex which is free again and again gets it.
FairSpec ==
    /\ Spec
    /\ \A t \in BinderThreads :
          WF_extensionVars(InsideStep(t)) /\ SF_extensionVars(LockStep(t))

-----------------------------------------------------------------------------
(* Properties                                                              *)

\* The framework never calls null: what cannot be provided fails the getter
\* (Gnss.h:40-43, Gnss.cpp:282-286).
FrameworkSurvives == ~crashed

\* No callback gets power statistics before it was told the capabilities,
\* however setCallback and requestGnssPowerStats race.
CapabilitiesFirst ==
    \A t \in BinderThreads :
        pc[t] = "statsReturn" /\ calling[t] # NoCallback => calling[t] \in introduced

\* A callback is called only while it is the registered one: none is replaced
\* or dropped while a call through it is in flight.
CalledIsRegistered ==
    \A t \in BinderThreads : calling[t] # NoCallback => calling[t] = mCallback[object[t]]

\* A request made when a callback is registered reaches it, whatever handles
\* the framework got in between, unless the callback is replaced meanwhile.
StatsDelivered == \A t \in BinderThreads : pc[t] = "idle" => expected[t] = NoCallback

\* Every call returns: no thread keeps the mutex.
PowerCallsReturn == \A t \in BinderThreads : pc[t] # "idle" ~> pc[t] = "idle"
=============================================================================
