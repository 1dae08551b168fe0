-------------------------- MODULE ExtensionsProofs --------------------------
(* Theorems of Extensions, for any number of binder threads, callbacks and *)
(* objects.                                                                *)
EXTENDS Extensions, TLAPS

\* Every call is served by the one object the constructor made.
OneObject == handle = Power /\ \A t \in BinderThreads : object[t] = Power

TypeInv == ExtensionsTypeOK /\ OneObject /\ crashed = FALSE /\ wrapper # "null"

LEMMA TypeInit == Init => TypeInv
  BY ExtensionsAssumption
  DEF Init, TypeInv, ExtensionsTypeOK, OneObject, Labels, AllExtensions, Shared, InCritical

\* What a lock and an unlock do to the agreement of mutex and places.
LEMMA Locked ==
    ASSUME ExtensionsTypeOK, NEW t \in BinderThreads, Lock(t), NEW label, Goto(t, label),
           label \in {"setCall", "statsCall"}, object' = object
    PROVE  /\ mMutex' \in [Objects -> BinderThreads \union {NoThread}]
           /\ \A o \in Objects, u \in BinderThreads :
                  mMutex'[o] = u <=> InCritical(u)' /\ object'[u] = o
  BY ExtensionsAssumption DEF ExtensionsTypeOK, Lock, Goto, InCritical

LEMMA Unlocked ==
    ASSUME ExtensionsTypeOK, NEW t \in BinderThreads, InCritical(t), Unlock(t),
           Goto(t, "idle"), object' = object
    PROVE  /\ mMutex' \in [Objects -> BinderThreads \union {NoThread}]
           /\ \A o \in Objects, u \in BinderThreads :
                  mMutex'[o] = u <=> InCritical(u)' /\ object'[u] = o
  BY ExtensionsAssumption DEF ExtensionsTypeOK, Unlock, Goto, InCritical

LEMMA TypeStep == TypeInv /\ [Next]_extensionVars => TypeInv'
<1> SUFFICES ASSUME TypeInv, [Next]_extensionVars PROVE TypeInv'
  OBVIOUS
<1> USE DEF TypeInv, OneObject
<1>0. ExtensionsTypeOK
  OBVIOUS
<1> USE DEF Labels
<1>1. ASSUME NEW e \in AllExtensions, GetExtension(e) PROVE TypeInv'
  BY <1>1, ExtensionsAssumption
  DEF GetExtension, Status, Out, PowerObject, powerVars, historyVars, ExtensionsTypeOK, InCritical
<1>2. CASE UseExtension
  BY <1>2 DEF UseExtension, powerVars, historyVars, ExtensionsTypeOK, InCritical
<1>3. ASSUME NEW t \in BinderThreads, CallSetCallback(t) PROVE TypeInv'
  BY <1>3, ExtensionsAssumption
  DEF CallSetCallback, Goto, frameworkVars, ExtensionsTypeOK, InCritical
<1>4. ASSUME NEW t \in BinderThreads, CallRequestStats(t) PROVE TypeInv'
  BY <1>4, ExtensionsAssumption
  DEF CallRequestStats, Goto, frameworkVars, ExtensionsTypeOK, InCritical
<1>5. ASSUME NEW t \in BinderThreads, SetLock(t) PROVE TypeInv'
  <2>1. /\ mMutex' \in [Objects -> BinderThreads \union {NoThread}]
        /\ \A o \in Objects, u \in BinderThreads :
               mMutex'[o] = u <=> InCritical(u)' /\ object'[u] = o
    BY <1>0, <1>5, Locked DEF SetLock
  <2> QED
    BY <1>5, <2>1 DEF SetLock, Goto, frameworkVars, ExtensionsTypeOK
<1>6. ASSUME NEW t \in BinderThreads, StatsLock(t) PROVE TypeInv'
  <2>1. /\ mMutex' \in [Objects -> BinderThreads \union {NoThread}]
        /\ \A o \in Objects, u \in BinderThreads :
               mMutex'[o] = u <=> InCritical(u)' /\ object'[u] = o
    BY <1>0, <1>6, Locked DEF StatsLock
  <2> QED
    BY <1>6, <2>1 DEF StatsLock, Goto, frameworkVars, historyVars, ExtensionsTypeOK
<1>7. ASSUME NEW t \in BinderThreads, SetCall(t) PROVE TypeInv'
  BY <1>7 DEF SetCall, Goto, frameworkVars, ExtensionsTypeOK, InCritical
<1>8. ASSUME NEW t \in BinderThreads, StatsCall(t) PROVE TypeInv'
  BY <1>8 DEF StatsCall, Goto, frameworkVars, ExtensionsTypeOK, InCritical
<1>9. ASSUME NEW t \in BinderThreads, SetReturn(t) PROVE TypeInv'
  <2>1. /\ mMutex' \in [Objects -> BinderThreads \union {NoThread}]
        /\ \A o \in Objects, u \in BinderThreads :
               mMutex'[o] = u <=> InCritical(u)' /\ object'[u] = o
    BY <1>0, <1>9, Unlocked DEF SetReturn, InCritical
  <2> QED
    BY <1>9, <2>1 DEF SetReturn, Goto, frameworkVars, ExtensionsTypeOK
<1>10. ASSUME NEW t \in BinderThreads, StatsReturn(t) PROVE TypeInv'
  <2>1. /\ mMutex' \in [Objects -> BinderThreads \union {NoThread}]
        /\ \A o \in Objects, u \in BinderThreads :
               mMutex'[o] = u <=> InCritical(u)' /\ object'[u] = o
    BY <1>0, <1>10, Unlocked DEF StatsReturn, InCritical
  <2> QED
    BY <1>10, <2>1 DEF StatsReturn, Goto, frameworkVars, historyVars, ExtensionsTypeOK
<1>11. CASE UNCHANGED extensionVars
  BY <1>11 DEF extensionVars, powerVars, frameworkVars, historyVars, ExtensionsTypeOK, InCritical
<1> QED
  BY <1>1, <1>2, <1>3, <1>4, <1>5, <1>6, <1>7, <1>8, <1>9, <1>10, <1>11
  DEF Next, LockStep, InsideStep

LEMMA TypeInvariant == Spec => []TypeInv
  BY TypeInit, TypeStep, PTL DEF Spec

\* Types, and the mutex is held exactly between lock and unlock.
THEOREM ExtensionsTypeCorrect == Spec => []ExtensionsTypeOK
<1>1. TypeInv => ExtensionsTypeOK
  BY DEF TypeInv
<1> QED
  BY TypeInvariant, <1>1, PTL

\* No getter hands the framework a null it would call.
THEOREM FrameworkAlwaysSurvives == Spec => []FrameworkSurvives
<1>1. TypeInv => FrameworkSurvives
  BY DEF TypeInv, FrameworkSurvives
<1> QED
  BY TypeInvariant, <1>1, PTL

-----------------------------------------------------------------------------
(* What the callbacks see                                                  *)

\* A thread is calling only inside the mutex, and then the registered callback.
CallingInv ==
    \A t \in BinderThreads : calling[t] # NoCallback =>
        pc[t] \in {"setReturn", "statsReturn"} /\ calling[t] = mCallback[Power]

\* Unless a setCallback is about to introduce it, the registered callback knows
\* the capabilities.
IntroducedInv ==
    (\A t \in BinderThreads : pc[t] # "setCall") => mCallback[Power] \in introduced \union {NoCallback}

CallInv == TypeInv /\ CallingInv /\ IntroducedInv

\* Nobody calls while the mutex is free, and one thread is inside at a time.
LEMMA Exclusive ==
    ASSUME TypeInv
    PROVE  /\ \A t, u \in BinderThreads : InCritical(t) /\ InCritical(u) => t = u
           /\ mMutex[Power] = NoThread => \A t \in BinderThreads : ~InCritical(t)
  BY ExtensionsAssumption DEF TypeInv, ExtensionsTypeOK, OneObject

LEMMA CallStep == CallInv /\ [Next]_extensionVars => CallInv'
<1> SUFFICES ASSUME CallInv, [Next]_extensionVars PROVE CallInv'
  OBVIOUS
<1>0. TypeInv /\ TypeInv' /\ CallingInv /\ IntroducedInv
  BY TypeStep DEF CallInv
<1>1. /\ pc \in [BinderThreads -> Labels] /\ calling \in [BinderThreads -> Callbacks \union {NoCallback}]
      /\ mCallback \in [Objects -> Callbacks \union {NoCallback}] /\ Power \in Objects
      /\ \A t \in BinderThreads : object[t] = Power
  BY <1>0, ExtensionsAssumption DEF TypeInv, ExtensionsTypeOK, OneObject
<1> SUFFICES CallingInv' /\ IntroducedInv'
  BY <1>0 DEF CallInv
<1> USE DEF CallingInv, IntroducedInv
<1>2. CASE (\E e \in AllExtensions : GetExtension(e)) \/ UseExtension
  BY <1>0, <1>2 DEF GetExtension, UseExtension, powerVars, historyVars
<1>3. ASSUME NEW t \in BinderThreads, CallSetCallback(t) \/ CallRequestStats(t)
      PROVE  CallingInv' /\ IntroducedInv'
  BY <1>0, <1>1, <1>3 DEF CallSetCallback, CallRequestStats, Goto
<1>4. ASSUME NEW t \in BinderThreads, SetLock(t) PROVE CallingInv' /\ IntroducedInv'
  <2>1. \A u \in BinderThreads : ~InCritical(u)
    BY <1>0, <1>1, <1>4, Exclusive DEF SetLock, Lock
  <2>2. \A u \in BinderThreads : calling'[u] = NoCallback
    BY <1>0, <1>4, <2>1 DEF SetLock, InCritical
  <2>3. pc'[t] = "setCall"
    BY <1>1, <1>4 DEF SetLock, Goto
  <2> QED
    BY <2>2, <2>3
<1>5. ASSUME NEW t \in BinderThreads, StatsLock(t) PROVE CallingInv' /\ IntroducedInv'
  BY <1>0, <1>1, <1>5 DEF StatsLock, Goto, historyVars
<1>6. ASSUME NEW t \in BinderThreads, SetCall(t) PROVE CallingInv' /\ IntroducedInv'
  BY <1>0, <1>1, <1>6 DEF SetCall, Goto
<1>7. ASSUME NEW t \in BinderThreads, StatsCall(t) PROVE CallingInv' /\ IntroducedInv'
  BY <1>0, <1>1, <1>7 DEF StatsCall, Goto
<1>8. ASSUME NEW t \in BinderThreads, SetReturn(t) \/ StatsReturn(t)
      PROVE  CallingInv' /\ IntroducedInv'
  BY <1>0, <1>1, <1>8 DEF SetReturn, StatsReturn, Goto, historyVars
<1>9. CASE UNCHANGED extensionVars
  BY <1>0, <1>9 DEF extensionVars, powerVars, historyVars
<1> QED
  BY <1>2, <1>3, <1>4, <1>5, <1>6, <1>7, <1>8, <1>9 DEF Next, LockStep, InsideStep

LEMMA CallInvariant == Spec => []CallInv
<1>1. Init => CallInv
  BY TypeInit, ExtensionsAssumption DEF Init, CallInv, CallingInv, IntroducedInv
<1> QED
  BY <1>1, CallStep, PTL DEF Spec

\* Capabilities before statistics, for any number of racing binder threads.
THEOREM CapabilitiesComeFirst == Spec => []CapabilitiesFirst
<1>1. ASSUME CallInv PROVE CapabilitiesFirst
  <2> SUFFICES ASSUME NEW t \in BinderThreads, pc[t] = "statsReturn", calling[t] # NoCallback
               PROVE  calling[t] \in introduced
    BY DEF CapabilitiesFirst
  <2>1. \A u \in BinderThreads : pc[u] # "setCall"
    BY <1>1, Exclusive DEF CallInv, InCritical
  <2> QED
    BY <1>1, <2>1 DEF CallInv, CallingInv, IntroducedInv
<1>2. CallInv => CapabilitiesFirst
  BY <1>1
<1> QED
  BY CallInvariant, <1>2, PTL

\* A callback in use is never replaced.
THEOREM CalledStaysRegistered == Spec => []CalledIsRegistered
<1>1. CallInv => CalledIsRegistered
  BY DEF CallInv, TypeInv, OneObject, CallingInv, CalledIsRegistered
<1> QED
  BY CallInvariant, <1>1, PTL

-----------------------------------------------------------------------------
(* Delivery of the statistics                                              *)

Setting == {"setLock", "setCall", "setReturn"}

NobodySets == \A t \in BinderThreads : pc[t] \notin Setting

\* A setter inside the mutex has stored its argument.
StoredInv ==
    \A t \in BinderThreads : pc[t] \in {"setCall", "setReturn"} => mCallback[Power] = arg[t]

\* What is registered, and what a request has to reach, is the object's
\* callback, as long as nobody sets another.
ExpectedInv ==
    /\ registered # NoCallback => NobodySets /\ registered = mCallback[Power]
    /\ \A t \in BinderThreads : expected[t] # NoCallback =>
          /\ NobodySets
          /\ pc[t] \in {"statsLock", "statsCall"} /\ expected[t] = mCallback[Power]

DeliveryInv == TypeInv /\ StoredInv /\ ExpectedInv

LEMMA DeliveryStep == DeliveryInv /\ [Next]_extensionVars => DeliveryInv'
<1> SUFFICES ASSUME DeliveryInv, [Next]_extensionVars PROVE DeliveryInv'
  OBVIOUS
<1>0. TypeInv /\ TypeInv' /\ StoredInv /\ ExpectedInv
  BY TypeStep DEF DeliveryInv
<1>1. /\ pc \in [BinderThreads -> Labels] /\ Power \in Objects
      /\ arg \in [BinderThreads -> Callbacks \union {NoCallback}]
      /\ expected \in [BinderThreads -> Callbacks \union {NoCallback}]
      /\ mCallback \in [Objects -> Callbacks \union {NoCallback}]
      /\ \A t \in BinderThreads : object[t] = Power
  BY <1>0, ExtensionsAssumption DEF TypeInv, ExtensionsTypeOK, OneObject
<1> SUFFICES StoredInv' /\ ExpectedInv'
  BY <1>0 DEF DeliveryInv
<1> USE DEF StoredInv, ExpectedInv, NobodySets, Setting
<1>2. CASE (\E e \in AllExtensions : GetExtension(e)) \/ UseExtension
  BY <1>0, <1>2 DEF GetExtension, UseExtension, powerVars, historyVars
<1>3. ASSUME NEW t \in BinderThreads, CallSetCallback(t) PROVE StoredInv' /\ ExpectedInv'
  BY <1>0, <1>1, <1>3 DEF CallSetCallback, Goto
<1>4. ASSUME NEW t \in BinderThreads, CallRequestStats(t) PROVE StoredInv' /\ ExpectedInv'
  BY <1>0, <1>1, <1>4 DEF CallRequestStats, Goto
<1>5. ASSUME NEW t \in BinderThreads, SetLock(t) PROVE StoredInv' /\ ExpectedInv'
  <2>1. \A u \in BinderThreads : pc[u] \notin {"setCall", "setReturn"}
    BY <1>0, <1>1, <1>5, Exclusive DEF SetLock, Lock, InCritical
  <2>2. /\ pc' = [pc EXCEPT ![t] = "setCall"]
        /\ mCallback' = [mCallback EXCEPT ![Power] = arg[t]]
        /\ pc[t] = "setLock"
        /\ UNCHANGED <<arg, registered, expected>>
    BY <1>1, <1>5 DEF SetLock, Goto
  <2>3. StoredInv'
    BY <1>1, <2>1, <2>2
  <2>4. registered = NoCallback /\ \A u \in BinderThreads : expected[u] = NoCallback
    BY <1>0, <2>2
  <2>5. ExpectedInv'
    BY <2>2, <2>4
  <2> QED
    BY <2>3, <2>5
<1>6. ASSUME NEW t \in BinderThreads, StatsLock(t) PROVE StoredInv' /\ ExpectedInv'
  BY <1>0, <1>1, <1>6 DEF StatsLock, Goto, historyVars
<1>7. ASSUME NEW t \in BinderThreads, SetCall(t) PROVE StoredInv' /\ ExpectedInv'
  BY <1>0, <1>1, <1>7 DEF SetCall, Goto
<1>8. ASSUME NEW t \in BinderThreads, StatsCall(t) PROVE StoredInv' /\ ExpectedInv'
  <2>1. calling'[t] = mCallback[Power]
    BY <1>0, <1>1, <1>8 DEF StatsCall, TypeInv, ExtensionsTypeOK
  <2>2. expected'[t] = NoCallback
    <3>1. expected[t] = NoCallback \/ expected[t] = mCallback[Power]
      BY <1>0
    <3> QED
      BY <1>1, <1>8, <2>1, <3>1 DEF StatsCall
  <2>3. /\ pc' = [pc EXCEPT ![t] = "statsReturn"] /\ pc[t] = "statsCall"
        /\ \A u \in BinderThreads \ {t} : expected'[u] = expected[u]
        /\ UNCHANGED <<arg, mCallback, registered>>
    BY <1>1, <1>8 DEF StatsCall, Goto
  <2> QED
    BY <1>0, <1>1, <2>2, <2>3
<1>9. ASSUME NEW t \in BinderThreads, SetReturn(t) PROVE StoredInv' /\ ExpectedInv'
  <2>1. /\ pc' = [pc EXCEPT ![t] = "idle"] /\ pc[t] = "setReturn"
        /\ registered' = IF LastSetter(t) THEN arg[t] ELSE NoCallback
        /\ UNCHANGED <<arg, mCallback, expected>>
    BY <1>9 DEF SetReturn, Goto
  <2>2. mCallback[Power] = arg[t] /\ \A u \in BinderThreads : expected[u] = NoCallback
    BY <1>0, <2>1
  <2>3. LastSetter(t) => NobodySets'
    BY <1>1, <2>1 DEF LastSetter
  <2> QED
    BY <1>0, <1>1, <2>1, <2>2, <2>3
<1>10. ASSUME NEW t \in BinderThreads, StatsReturn(t) PROVE StoredInv' /\ ExpectedInv'
  BY <1>0, <1>1, <1>10 DEF StatsReturn, Goto, historyVars
<1>11. CASE UNCHANGED extensionVars
  BY <1>0, <1>11 DEF extensionVars, powerVars, historyVars
<1> QED
  BY <1>2, <1>3, <1>4, <1>5, <1>6, <1>7, <1>8, <1>9, <1>10, <1>11 DEF Next, LockStep, InsideStep

\* A request reaches the callback that was registered when it was made, for any
\* number of binder threads, unless the callback is replaced meanwhile.
THEOREM StatsAreDelivered == Spec => []StatsDelivered
<1>1. Init => DeliveryInv
  BY TypeInit
  DEF Init, DeliveryInv, StoredInv, ExpectedInv
<1>2. DeliveryInv => StatsDelivered
  BY DEF DeliveryInv, ExpectedInv, StatsDelivered
<1> QED
  BY <1>1, <1>2, DeliveryStep, PTL DEF Spec
=============================================================================
