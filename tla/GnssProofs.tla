----------------------------- MODULE GnssProofs -----------------------------
(***************************************************************************)
(* What holds of Gnss for any clients, readers, callbacks, intervals,      *)
(* faults and bounds that satisfy the assumptions of the module: types     *)
(* first, then the safety invariants, each from a strengthening that is    *)
(* inductive.                                                              *)
(***************************************************************************)
EXTENDS Gnss, FiniteSetTheorems, TLAPS

USE DEF Threads, Fds

\* The clamp and the constructor's conversion return a fix interval that the
\* unsigned short holds (Gnss.cpp:59-69, 76-80).
LEMMA ClampRange ==
    ASSUME NEW i \in Int PROVE FixPeriod(clampRateMs(i))
BY DEF clampRateMs, FixPeriod

LEMMA PeriodRange ==
    ASSUME NEW p \in Nat PROVE FixPeriod(periodFromMaxRate(p))
BY DEF periodFromMaxRate, FixPeriod

\* Every step inside a SerialDevice method keeps the device's variables in
\* their types.
LEMMA MethodKeepsType ==
    ASSUME DeviceTypeOK, NEW t \in Threads, MethodStep(t) \/ ReadOutcome(t)
    PROVE  DeviceTypeOK'
<1> USE DeviceAssumption DEF DeviceTypeOK, FdKinds, DevOps, At, Step, DevIdle
<1>1. CASE RateCheck(t)      BY <1>1 DEF RateCheck
<1>2. CASE RateWrite(t)
  <2>1. dev' = [dev EXCEPT ![t] = DevIdle] /\ UNCHANGED <<mFd, fdTable>>
    BY <1>2 DEF RateWrite
  <2>2. receiver' \in {receiver, [receiver EXCEPT !.ms = dev[t].ms, !.by = t]}
    BY <1>2 DEF RateWrite
  <2>3. dev[t].ms \in Nat
    OBVIOUS
  <2>4. receiver' \in [plugged: BOOLEAN, ms: Nat, by: Threads \union {Nobody}]
    BY <2>2, <2>3
  <2> QED BY <2>1, <2>4
<1>3. CASE CloseCheck(t)     BY <1>3 DEF CloseCheck
<1>4. CASE CloseFd(t)        BY <1>4 DEF CloseFd
<1>5. CASE CloseStore(t)     BY <1>5 DEF CloseStore
<1>6. CASE OpenSucceeds(t)   BY <1>6 DEF OpenSucceeds
<1>7. CASE OpenUnresolved(t) BY <1>7 DEF OpenUnresolved
<1>8. CASE OpenFails(t)      BY <1>8 DEF OpenFails
<1>9. CASE TermiosApplied(t) BY <1>9 DEF TermiosApplied
<1>10. CASE TermiosRefused(t) BY <1>10 DEF TermiosRefused
<1>11. CASE ReadEnter(t)      BY <1>11 DEF ReadEnter
<1>12. CASE ReadHangup(t)     BY <1>12 DEF ReadHangup
<1>13. CASE ReadBytes(t)       BY <1>13 DEF ReadBytes
<1>14. CASE ReadError(t)       BY <1>14 DEF ReadError
<1>15. CASE ReadInterrupted(t) BY <1>15 DEF ReadInterrupted
<1> QED
    BY <1>1, <1>2, <1>3, <1>4, <1>5, <1>6, <1>7, <1>8, <1>9, <1>10, <1>11, <1>12, <1>13,
       <1>14, <1>15
    DEF MethodStep, ReadOutcome

LEMMA EnvironmentKeepsType ==
    ASSUME DeviceTypeOK, DeviceEnvironment PROVE DeviceTypeOK'
<1> USE DeviceAssumption DEF DeviceTypeOK, FdKinds, DevOps, At, Step
<1>1. CASE Unplug     BY <1>1 DEF Unplug, UnsetRate
<1>2. CASE Plug       BY <1>2 DEF Plug
<1>3. CASE OtherOpen  BY <1>3 DEF OtherOpen
<1>4. CASE OtherClose BY <1>4 DEF OtherClose
<1> QED BY <1>1, <1>2, <1>3, <1>4 DEF DeviceEnvironment

\* What a caller does to the device's variables.
LEMMA CallKeepsDeviceType ==
    ASSUME DeviceTypeOK, NEW t \in Threads, UNCHANGED <<mFd, fdTable, receiver>>,
           CallClose(t) \/ CallOpen(t) \/ CallRead(t) \/ Consume(t)
    PROVE  DeviceTypeOK'
<1> USE DeviceAssumption DEF DeviceTypeOK, DevOps, At, Step, DevIdle
<1>1. CASE CallClose(t) BY <1>1 DEF CallClose
<1>2. CASE CallOpen(t)  BY <1>2 DEF CallOpen
<1>3. CASE CallRead(t)  BY <1>3 DEF CallRead
<1>4. CASE Consume(t)   BY <1>4 DEF Consume
<1> QED BY <1>1, <1>2, <1>3, <1>4

LEMMA RateCallKeepsDeviceType ==
    ASSUME DeviceTypeOK, NEW t \in Threads, UNCHANGED <<mFd, fdTable, receiver>>,
           NEW ms \in Nat, CallSetMeasurementRate(t, ms)
    PROVE  DeviceTypeOK'
BY DeviceAssumption DEF DeviceTypeOK, CallSetMeasurementRate, DevOps, At

LEMMA DeviceUnchanged ==
    ASSUME DeviceTypeOK, UNCHANGED devVars PROVE DeviceTypeOK'
BY DEF DeviceTypeOK, devVars

\* What a jump does to the program counters.
LEMMA ClientGoto ==
    ASSUME ControlTypeOK, NEW c \in Clients, NEW l \in ClientLabels, Goto(c, l)
    PROVE  ControlTypeOK'
<1>1. c \notin Readers
  BY DeviceAssumption
<1> QED BY <1>1 DEF ControlTypeOK, Goto

LEMMA ControlUnchanged ==
    ASSUME ControlTypeOK, UNCHANGED pc PROVE ControlTypeOK'
BY DEF ControlTypeOK

LEMMA ReaderGoto ==
    ASSUME ControlTypeOK, NEW r \in Readers, NEW l \in ReaderLabels, Goto(r, l)
    PROVE  ControlTypeOK'
<1>1. r \notin Clients
  BY DeviceAssumption
<1> QED BY <1>1 DEF ControlTypeOK, Goto

LEMMA NewCallKeepsType ==
    ASSUME TypeOK, NEW c \in Clients, NewCall(c) PROVE TypeOK'
<1> USE DeviceAssumption, GnssAssumption DEF TypeOK
<1>1. CASE SetCallback(c)
  <2>1. DeviceTypeOK'
    BY <1>1, DeviceUnchanged DEF SetCallback
  <2>2. ControlTypeOK'
    BY <1>1, ClientGoto DEF SetCallback, ClientLabels
  <2>3. SessionTypeOK' /\ CallbackTypeOK' /\ RateTypeOK' /\ ReportTypeOK' /\ HistoryTypeOK'
    BY <1>1 DEF SetCallback, sessionVars, threadVars, callbackVars, readerVars, rateVars,
      history, SessionTypeOK, CallbackTypeOK, RateTypeOK, ReportTypeOK, HistoryTypeOK
  <2> QED BY <2>1, <2>2, <2>3
<1>2. CASE StartExchange(c)
  <2>1. DeviceTypeOK'
    BY <1>2, DeviceUnchanged DEF StartExchange
  <2>2. ControlTypeOK'
    BY <1>2, ClientGoto DEF StartExchange, ClientLabels
  <2>3. SessionTypeOK' /\ CallbackTypeOK' /\ RateTypeOK' /\ ReportTypeOK' /\ HistoryTypeOK'
    BY <1>2 DEF StartExchange, sessionVars, threadVars, callbackVars, readerVars, rateVars,
      history, SessionTypeOK, CallbackTypeOK, RateTypeOK, ReportTypeOK, HistoryTypeOK
  <2> QED BY <2>1, <2>2, <2>3
<1>3. CASE Stop(c)
  <2>1. DeviceTypeOK'
    <3>1. kIdleRateMs \in Nat
      BY DEF kIdleRateMs
    <3> QED BY <1>3, <3>1, DeviceUnchanged, RateCallKeepsDeviceType DEF Stop, StopExchange
  <2>2. ControlTypeOK'
    BY <1>3, ClientGoto DEF Stop, StopExchange, ClientLabels
  <2>3. SessionTypeOK' /\ CallbackTypeOK' /\ RateTypeOK' /\ ReportTypeOK' /\ HistoryTypeOK'
    BY <1>3 DEF Stop, StopExchange, sessionVars, threadVars, callbackVars, readerVars, rateVars,
      history, SessionTypeOK, CallbackTypeOK, RateTypeOK, ReportTypeOK, HistoryTypeOK
  <2> QED BY <2>1, <2>2, <2>3
<1>4. CASE Close(c)
  <2>1. DeviceTypeOK'
    <3>1. kIdleRateMs \in Nat
      BY DEF kIdleRateMs
    <3> QED BY <1>4, <3>1, DeviceUnchanged, RateCallKeepsDeviceType DEF Close, StopExchange
  <2>2. ControlTypeOK'
    BY <1>4, ClientGoto DEF Close, StopExchange, ClientLabels
  <2>3. SessionTypeOK' /\ CallbackTypeOK' /\ RateTypeOK' /\ ReportTypeOK' /\ HistoryTypeOK'
    BY <1>4 DEF Close, StopExchange, sessionVars, threadVars, callbackVars, readerVars,
       rateVars,
      history, SessionTypeOK, CallbackTypeOK, RateTypeOK, ReportTypeOK, HistoryTypeOK
  <2> QED BY <2>1, <2>2, <2>3
<1>5. CASE SetPositionMode(c)
  <2>1. DeviceTypeOK'
    BY <1>5, DeviceUnchanged DEF SetPositionMode
  <2>2. ControlTypeOK'
    BY <1>5, ClientGoto DEF SetPositionMode, ClientLabels
  <2>3. RateTypeOK'
    <3>1. PICK i \in Intervals : /\ mFixIntervalMs' = clampRateMs(i)
                                /\ arg' = [arg EXCEPT ![c] = clampRateMs(i)]
      BY <1>5 DEF SetPositionMode
    <3>2. FixPeriod(clampRateMs(i))
      BY ClampRange
    <3> QED BY <3>1, <3>2 DEF RateTypeOK, FixPeriod
  <2>4. SessionTypeOK' /\ CallbackTypeOK' /\ ReportTypeOK' /\ HistoryTypeOK'
    BY <1>5 DEF SetPositionMode, sessionVars, threadVars, callbackVars, readerVars,
      history, SessionTypeOK, CallbackTypeOK, ReportTypeOK, HistoryTypeOK
  <2> QED BY <2>1, <2>2, <2>3, <2>4
<1>6. ASSUME NEW k \in Toggles, NEW on \in BOOLEAN, SetEnabled(c, k, on) PROVE TypeOK'
  <2>1. DeviceTypeOK'
    BY <1>6, DeviceUnchanged DEF SetEnabled
  <2>2. ControlTypeOK'
    BY <1>6, ControlUnchanged DEF SetEnabled
  <2>3. SessionTypeOK' /\ CallbackTypeOK' /\ RateTypeOK' /\ ReportTypeOK' /\ HistoryTypeOK'
    BY <1>6 DEF SetEnabled, sessionVars, threadVars, callbackVars, readerVars, rateVars,
      history, SessionTypeOK, CallbackTypeOK, RateTypeOK, ReportTypeOK, HistoryTypeOK
  <2> QED BY <2>1, <2>2, <2>3
<1> QED
    BY <1>1, <1>2, <1>3, <1>4, <1>5, <1>6 DEF NewCall

LEMMA CallStepKeepsType ==
    ASSUME TypeOK, NEW c \in Clients, CallStep(c) PROVE TypeOK'
<1> USE DeviceAssumption, GnssAssumption DEF TypeOK
<1>1. CASE StartThread(c)
  <2>1. DeviceTypeOK'
    BY <1>1, DeviceUnchanged DEF StartThread
  <2>2. ControlTypeOK'
    BY <1>1, ClientGoto DEF StartThread, ClientLabels
  <2>3. SessionTypeOK' /\ CallbackTypeOK' /\ RateTypeOK' /\ ReportTypeOK' /\ HistoryTypeOK'
    BY <1>1 DEF StartThread, sessionVars, threadVars, callbackVars, readerVars, rateVars,
      history, SessionTypeOK, CallbackTypeOK, RateTypeOK, ReportTypeOK, HistoryTypeOK
  <2> QED BY <2>1, <2>2, <2>3
<1>2. CASE SpawnReader(c)
  <2>1. DeviceTypeOK'
    BY <1>2, DeviceUnchanged DEF SpawnReader
  <2>2. ControlTypeOK'
    <3>1. PICK r \in Readers : pc' = [pc EXCEPT ![c] = "assign", ![r] = "open"]
      BY <1>2 DEF SpawnReader
    <3>2. c \notin Readers /\ r \notin Clients
      OBVIOUS
    <3>3. "assign" \in ClientLabels /\ "open" \in ReaderLabels
      BY DEF ClientLabels, ReaderLabels
    <3> QED BY <3>1, <3>2, <3>3 DEF ControlTypeOK
  <2>3. CallbackTypeOK' /\ RateTypeOK' /\ ReportTypeOK'
    BY <1>2 DEF SpawnReader, callbackVars, readerVars, rateVars, CallbackTypeOK, RateTypeOK,
      ReportTypeOK
  <2>4. SessionTypeOK'
    BY <1>2 DEF SpawnReader, SessionTypeOK
  <2>5. HistoryTypeOK'
    BY <1>2 DEF SpawnReader, history, HistoryTypeOK
  <2> QED BY <2>1, <2>2, <2>3, <2>4, <2>5
<1>3. CASE AssignThread(c)
  <2>1. DeviceTypeOK'
    BY <1>3, DeviceUnchanged DEF AssignThread
  <2>2. ControlTypeOK'
    BY <1>3, ClientGoto, ControlUnchanged DEF AssignThread, ClientLabels
  <2>3. CallbackTypeOK' /\ RateTypeOK' /\ ReportTypeOK'
    BY <1>3 DEF AssignThread, callbackVars, readerVars, rateVars, CallbackTypeOK, RateTypeOK,
      ReportTypeOK
  <2>4. SessionTypeOK'
    BY <1>3 DEF AssignThread, SessionTypeOK
  <2>5. HistoryTypeOK'
    BY <1>3 DEF AssignThread, history, HistoryTypeOK
  <2> QED BY <2>1, <2>2, <2>3, <2>4, <2>5
<1>4. CASE BeginLock(c)
  <2>1. DeviceTypeOK'
    BY <1>4, DeviceUnchanged DEF BeginLock, LockAndCall
  <2>2. ControlTypeOK'
    BY <1>4, ClientGoto DEF BeginLock, LockAndCall, ClientLabels
  <2>3. SessionTypeOK' /\ CallbackTypeOK' /\ RateTypeOK' /\ ReportTypeOK' /\ HistoryTypeOK'
    BY <1>4 DEF BeginLock, LockAndCall, sessionVars, threadVars, callbackVars, readerVars,
       rateVars,
      history, SessionTypeOK, CallbackTypeOK, RateTypeOK, ReportTypeOK, HistoryTypeOK
  <2> QED BY <2>1, <2>2, <2>3
<1>5. CASE BeginReturn(c)
  <2>1. DeviceTypeOK'
    BY <1>5, DeviceUnchanged DEF BeginReturn, ReturnAndUnlock
  <2>2. ControlTypeOK'
    BY <1>5, ClientGoto DEF BeginReturn, ReturnAndUnlock, ClientLabels
  <2>3. SessionTypeOK' /\ CallbackTypeOK' /\ RateTypeOK' /\ ReportTypeOK' /\ HistoryTypeOK'
    BY <1>5 DEF BeginReturn, ReturnAndUnlock, sessionVars, threadVars, callbackVars, readerVars,
       rateVars,
      history, SessionTypeOK, CallbackTypeOK, RateTypeOK, ReportTypeOK, HistoryTypeOK
  <2> QED BY <2>1, <2>2, <2>3
<1>6. CASE StartRate(c)
  <2>1. DeviceTypeOK'
    <3>1. mFixIntervalMs \in Nat
      BY DEF RateTypeOK, FixPeriod
    <3> QED BY <1>6, <3>1, DeviceUnchanged, RateCallKeepsDeviceType DEF StartRate
  <2>2. ControlTypeOK'
    BY <1>6, ClientGoto DEF StartRate, ClientLabels
  <2>3. SessionTypeOK' /\ CallbackTypeOK' /\ RateTypeOK' /\ ReportTypeOK' /\ HistoryTypeOK'
    BY <1>6 DEF StartRate, sessionVars, threadVars, callbackVars, readerVars, rateVars,
      history, SessionTypeOK, CallbackTypeOK, RateTypeOK, ReportTypeOK, HistoryTypeOK
  <2> QED BY <2>1, <2>2, <2>3
<1>7. CASE StopLock(c)
  <2>1. DeviceTypeOK'
    BY <1>7, DeviceUnchanged DEF StopLock, EndLock, LockAndCall
  <2>2. ControlTypeOK'
    BY <1>7, ClientGoto DEF StopLock, EndLock, LockAndCall, ClientLabels
  <2>3. SessionTypeOK' /\ CallbackTypeOK' /\ RateTypeOK' /\ ReportTypeOK' /\ HistoryTypeOK'
    BY <1>7 DEF StopLock, EndLock, LockAndCall, sessionVars, threadVars, callbackVars,
       readerVars, rateVars,
      history, SessionTypeOK, CallbackTypeOK, RateTypeOK, ReportTypeOK, HistoryTypeOK
  <2> QED BY <2>1, <2>2, <2>3
<1>8. CASE StopReturn(c)
  <2>1. DeviceTypeOK'
    BY <1>8, DeviceUnchanged DEF StopReturn, EndReturn, ReturnAndUnlock
  <2>2. ControlTypeOK'
    BY <1>8, ClientGoto DEF StopReturn, EndReturn, ReturnAndUnlock, ClientLabels
  <2>3. SessionTypeOK' /\ CallbackTypeOK' /\ RateTypeOK' /\ ReportTypeOK' /\ HistoryTypeOK'
    BY <1>8 DEF StopReturn, EndReturn, ReturnAndUnlock, sessionVars, threadVars, callbackVars,
       readerVars, rateVars,
      history, SessionTypeOK, CallbackTypeOK, RateTypeOK, ReportTypeOK, HistoryTypeOK
  <2> QED BY <2>1, <2>2, <2>3
<1>9. CASE CloseEndLock(c)
  <2>1. DeviceTypeOK'
    BY <1>9, DeviceUnchanged DEF CloseEndLock, EndLock, LockAndCall
  <2>2. ControlTypeOK'
    BY <1>9, ClientGoto DEF CloseEndLock, EndLock, LockAndCall, ClientLabels
  <2>3. SessionTypeOK' /\ CallbackTypeOK' /\ RateTypeOK' /\ ReportTypeOK' /\ HistoryTypeOK'
    BY <1>9 DEF CloseEndLock, EndLock, LockAndCall, sessionVars, threadVars, callbackVars,
       readerVars, rateVars,
      history, SessionTypeOK, CallbackTypeOK, RateTypeOK, ReportTypeOK, HistoryTypeOK
  <2> QED BY <2>1, <2>2, <2>3
<1>10. CASE CloseEndReturn(c)
  <2>1. DeviceTypeOK'
    BY <1>10, DeviceUnchanged DEF CloseEndReturn, EndReturn, ReturnAndUnlock
  <2>2. ControlTypeOK'
    BY <1>10, ClientGoto DEF CloseEndReturn, EndReturn, ReturnAndUnlock, ClientLabels
  <2>3. SessionTypeOK' /\ CallbackTypeOK' /\ RateTypeOK' /\ ReportTypeOK' /\ HistoryTypeOK'
    BY <1>10 DEF CloseEndReturn, EndReturn, ReturnAndUnlock, sessionVars, threadVars,
       callbackVars, readerVars, rateVars,
      history, SessionTypeOK, CallbackTypeOK, RateTypeOK, ReportTypeOK, HistoryTypeOK
  <2> QED BY <2>1, <2>2, <2>3
<1>11. CASE CloseRun(c)
  <2>1. DeviceTypeOK'
    BY <1>11, CallKeepsDeviceType DEF CloseRun
  <2>2. ControlTypeOK'
    BY <1>11, ClientGoto DEF CloseRun, ClientLabels
  <2>3. SessionTypeOK' /\ CallbackTypeOK' /\ RateTypeOK' /\ ReportTypeOK' /\ HistoryTypeOK'
    BY <1>11 DEF CloseRun, sessionVars, threadVars, callbackVars, readerVars, rateVars,
      history, SessionTypeOK, CallbackTypeOK, RateTypeOK, ReportTypeOK, HistoryTypeOK
  <2> QED BY <2>1, <2>2, <2>3
<1>12. CASE CloseJoinable(c)
  <2>1. DeviceTypeOK'
    BY <1>12, DeviceUnchanged DEF CloseJoinable
  <2>2. ControlTypeOK'
    BY <1>12, ClientGoto DEF CloseJoinable, ClientLabels
  <2>3. SessionTypeOK' /\ CallbackTypeOK' /\ RateTypeOK' /\ ReportTypeOK' /\ HistoryTypeOK'
    BY <1>12 DEF CloseJoinable, sessionVars, threadVars, callbackVars, readerVars, rateVars,
      history, SessionTypeOK, CallbackTypeOK, RateTypeOK, ReportTypeOK, HistoryTypeOK
  <2> QED BY <2>1, <2>2, <2>3
<1>13. CASE CloseJoin(c)
  <2>1. DeviceTypeOK'
    BY <1>13, DeviceUnchanged DEF CloseJoin
  <2>2. ControlTypeOK'
    BY <1>13, ClientGoto, ControlUnchanged DEF CloseJoin, ClientLabels
  <2>3. SessionTypeOK' /\ CallbackTypeOK' /\ RateTypeOK' /\ ReportTypeOK' /\ HistoryTypeOK'
    BY <1>13 DEF CloseJoin, sessionVars, threadVars, callbackVars, readerVars, rateVars,
      history, SessionTypeOK, CallbackTypeOK, RateTypeOK, ReportTypeOK, HistoryTypeOK
  <2> QED BY <2>1, <2>2, <2>3
<1>14. CASE CloseWait(c)
  <2>1. DeviceTypeOK'
    BY <1>14, DeviceUnchanged DEF CloseWait
  <2>2. ControlTypeOK'
    BY <1>14, ClientGoto DEF CloseWait, ClientLabels
  <2>3. SessionTypeOK' /\ CallbackTypeOK' /\ RateTypeOK' /\ ReportTypeOK' /\ HistoryTypeOK'
    BY <1>14 DEF CloseWait, sessionVars, threadVars, callbackVars, readerVars, rateVars,
      history, SessionTypeOK, CallbackTypeOK, RateTypeOK, ReportTypeOK, HistoryTypeOK
  <2> QED BY <2>1, <2>2, <2>3
<1>15. CASE CloseClear(c)
  <2>1. DeviceTypeOK'
    BY <1>15, DeviceUnchanged DEF CloseClear
  <2>2. ControlTypeOK'
    BY <1>15, ClientGoto DEF CloseClear, ClientLabels
  <2>3. SessionTypeOK' /\ CallbackTypeOK' /\ RateTypeOK' /\ ReportTypeOK' /\ HistoryTypeOK'
    BY <1>15 DEF CloseClear, sessionVars, threadVars, callbackVars, readerVars, rateVars,
      history, SessionTypeOK, CallbackTypeOK, RateTypeOK, ReportTypeOK, HistoryTypeOK
  <2> QED BY <2>1, <2>2, <2>3
<1>16. CASE ModeSession(c)
  <2>1. DeviceTypeOK'
    <3>1. arg[c] \in Nat
      BY DEF RateTypeOK
    <3> QED BY <1>16, <3>1, DeviceUnchanged, RateCallKeepsDeviceType DEF ModeSession, devVars
  <2>2. ControlTypeOK'
    BY <1>16, ClientGoto DEF ModeSession, ClientLabels
  <2>3. RateTypeOK'
    BY <1>16 DEF ModeSession, RateTypeOK, FixPeriod, kIdleRateMs
  <2>4. SessionTypeOK' /\ CallbackTypeOK' /\ ReportTypeOK' /\ HistoryTypeOK'
    BY <1>16 DEF ModeSession, sessionVars, threadVars, callbackVars, readerVars,
      history, SessionTypeOK, CallbackTypeOK, ReportTypeOK, HistoryTypeOK
  <2> QED BY <2>1, <2>2, <2>3, <2>4
<1> QED
    BY <1>1, <1>2, <1>3, <1>4, <1>5, <1>6, <1>7, <1>8, <1>9, <1>10, <1>11, <1>12, <1>13, <1>14,
       <1>15, <1>16 DEF CallStep

LEMMA ReaderStepKeepsType ==
    ASSUME TypeOK, NEW r \in Readers, ReaderStep(r) PROVE TypeOK'
<1> USE DeviceAssumption, GnssAssumption DEF TypeOK
<1>1. CASE ReaderOpen(r)
  <2>1. DeviceTypeOK'
    BY <1>1, CallKeepsDeviceType DEF ReaderOpen
  <2>2. ControlTypeOK'
    BY <1>1, ReaderGoto DEF ReaderOpen, ReaderLabels
  <2>3. SessionTypeOK' /\ CallbackTypeOK' /\ RateTypeOK' /\ ReportTypeOK' /\ HistoryTypeOK'
    BY <1>1 DEF ReaderOpen, sessionVars, threadVars, callbackVars, readerVars, rateVars,
      history, SessionTypeOK, CallbackTypeOK, RateTypeOK, ReportTypeOK, HistoryTypeOK
  <2> QED BY <2>1, <2>2, <2>3
<1>2. CASE ReaderOpened(r)
  <2>1. DeviceTypeOK'
    BY <1>2, CallKeepsDeviceType DEF ReaderOpened
  <2>2. ControlTypeOK'
    BY <1>2, ReaderGoto DEF ReaderOpened, ReaderLabels
  <2>3. SessionTypeOK' /\ CallbackTypeOK' /\ RateTypeOK' /\ ReportTypeOK' /\ HistoryTypeOK'
    BY <1>2 DEF ReaderOpened, sessionVars, threadVars, callbackVars, readerVars, rateVars,
      history, SessionTypeOK, CallbackTypeOK, RateTypeOK, ReportTypeOK, HistoryTypeOK
  <2> QED BY <2>1, <2>2, <2>3
<1>3. CASE ReaderOpenFailed(r)
  <2>1. DeviceTypeOK'
    BY <1>3, CallKeepsDeviceType DEF ReaderOpenFailed
  <2>2. ControlTypeOK'
    BY <1>3, ReaderGoto DEF ReaderOpenFailed, ReaderLabels
  <2>3. SessionTypeOK' /\ CallbackTypeOK' /\ RateTypeOK' /\ ReportTypeOK' /\ HistoryTypeOK'
    BY <1>3 DEF ReaderOpenFailed, sessionVars, threadVars, callbackVars, readerVars, rateVars,
      history, SessionTypeOK, CallbackTypeOK, RateTypeOK, ReportTypeOK, HistoryTypeOK
  <2> QED BY <2>1, <2>2, <2>3
<1>4. CASE ReaderRateSession(r)
  <2>1. DeviceTypeOK'
    <3>1. kIdleRateMs \in Nat
      BY DEF kIdleRateMs
    <3> QED BY <1>4, <3>1, DeviceUnchanged, RateCallKeepsDeviceType
        DEF ReaderRateSession, devVars
  <2>2. ControlTypeOK'
    BY <1>4, ReaderGoto DEF ReaderRateSession, ReaderLabels
  <2>3. SessionTypeOK' /\ CallbackTypeOK' /\ RateTypeOK' /\ ReportTypeOK' /\ HistoryTypeOK'
    BY <1>4 DEF ReaderRateSession, sessionVars, threadVars, callbackVars, readerVars, rateVars,
      history, SessionTypeOK, CallbackTypeOK, RateTypeOK, ReportTypeOK, HistoryTypeOK
  <2> QED BY <2>1, <2>2, <2>3
<1>5. CASE ReaderRateFix(r)
  <2>1. DeviceTypeOK'
    <3>1. mFixIntervalMs \in Nat
      BY DEF RateTypeOK, FixPeriod
    <3> QED BY <1>5, <3>1, DeviceUnchanged, RateCallKeepsDeviceType DEF ReaderRateFix
  <2>2. ControlTypeOK'
    BY <1>5, ReaderGoto DEF ReaderRateFix, ReaderLabels
  <2>3. SessionTypeOK' /\ CallbackTypeOK' /\ RateTypeOK' /\ ReportTypeOK' /\ HistoryTypeOK'
    BY <1>5 DEF ReaderRateFix, sessionVars, threadVars, callbackVars, readerVars, rateVars,
      history, SessionTypeOK, CallbackTypeOK, RateTypeOK, ReportTypeOK, HistoryTypeOK
  <2> QED BY <2>1, <2>2, <2>3
<1>6. CASE ReaderLoop(r)
  <2>1. DeviceTypeOK'
    BY <1>6, CallKeepsDeviceType DEF ReaderLoop
  <2>2. ControlTypeOK'
    BY <1>6, ReaderGoto DEF ReaderLoop, ReaderLabels
  <2>3. SessionTypeOK' /\ CallbackTypeOK' /\ RateTypeOK' /\ ReportTypeOK' /\ HistoryTypeOK'
    BY <1>6 DEF ReaderLoop, sessionVars, threadVars, callbackVars, readerVars, rateVars,
      history, SessionTypeOK, CallbackTypeOK, RateTypeOK, ReportTypeOK, HistoryTypeOK
  <2> QED BY <2>1, <2>2, <2>3
<1>7. CASE ReaderGotBytes(r)
  <2>1. DeviceTypeOK'
    BY <1>7, CallKeepsDeviceType DEF ReaderGotBytes
  <2>2. ControlTypeOK'
    BY <1>7, ReaderGoto DEF ReaderGotBytes, ReaderLabels
  <2>3. SessionTypeOK' /\ CallbackTypeOK' /\ RateTypeOK' /\ ReportTypeOK' /\ HistoryTypeOK'
    BY <1>7 DEF ReaderGotBytes, sessionVars, threadVars, callbackVars, readerVars, rateVars,
      history, SessionTypeOK, CallbackTypeOK, RateTypeOK, ReportTypeOK, HistoryTypeOK
  <2> QED BY <2>1, <2>2, <2>3
<1>8. CASE ReaderGotNothing(r)
  <2>1. DeviceTypeOK'
    BY <1>8, CallKeepsDeviceType DEF ReaderGotNothing
  <2>2. ControlTypeOK'
    BY <1>8, ReaderGoto DEF ReaderGotNothing, ReaderLabels
  <2>3. SessionTypeOK' /\ CallbackTypeOK' /\ RateTypeOK' /\ ReportTypeOK' /\ HistoryTypeOK'
    BY <1>8 DEF ReaderGotNothing, sessionVars, threadVars, callbackVars, readerVars, rateVars,
      history, SessionTypeOK, CallbackTypeOK, RateTypeOK, ReportTypeOK, HistoryTypeOK
  <2> QED BY <2>1, <2>2, <2>3
<1>9. CASE ReaderClosed(r)
  <2>1. DeviceTypeOK'
    BY <1>9, DeviceUnchanged DEF ReaderClosed
  <2>2. ControlTypeOK'
    BY <1>9, ReaderGoto DEF ReaderClosed, ReaderLabels
  <2>3. SessionTypeOK' /\ CallbackTypeOK' /\ RateTypeOK' /\ ReportTypeOK' /\ HistoryTypeOK'
    BY <1>9 DEF ReaderClosed, sessionVars, threadVars, callbackVars, readerVars, rateVars,
      history, SessionTypeOK, CallbackTypeOK, RateTypeOK, ReportTypeOK, HistoryTypeOK
  <2> QED BY <2>1, <2>2, <2>3
<1>10. CASE ReaderCheck(r)
  <2>1. DeviceTypeOK'
    BY <1>10, DeviceUnchanged DEF ReaderCheck
  <2>2. ControlTypeOK'
    BY <1>10, ReaderGoto DEF ReaderCheck, ReaderLabels
  <2>3. SessionTypeOK' /\ CallbackTypeOK' /\ RateTypeOK' /\ HistoryTypeOK'
    BY <1>10 DEF ReaderCheck, sessionVars, threadVars, callbackVars, rateVars, history,
      SessionTypeOK, CallbackTypeOK, RateTypeOK, HistoryTypeOK
  <2>4. ReportTypeOK'
    BY <1>10 DEF ReaderCheck, ReportTypeOK
  <2> QED BY <2>1, <2>2, <2>3, <2>4
<1>11. CASE ReaderReportLock(r)
  <2>1. DeviceTypeOK'
    BY <1>11, DeviceUnchanged DEF ReaderReportLock, LockAndCall
  <2>2. ControlTypeOK'
    BY <1>11, ReaderGoto DEF ReaderReportLock, LockAndCall, ReaderLabels
  <2>3. SessionTypeOK' /\ CallbackTypeOK' /\ RateTypeOK' /\ ReportTypeOK'
    BY <1>11 DEF ReaderReportLock, LockAndCall, sessionVars, threadVars, readerVars, rateVars,
      SessionTypeOK, CallbackTypeOK, RateTypeOK, ReportTypeOK
  <2>4. HistoryTypeOK'
    BY <1>11 DEF ReaderReportLock, HistoryTypeOK
  <2> QED BY <2>1, <2>2, <2>3, <2>4
<1>12. CASE ReaderReportReturn(r)
  <2>1. DeviceTypeOK'
    BY <1>12, DeviceUnchanged DEF ReaderReportReturn, ReturnAndUnlock
  <2>2. ControlTypeOK'
    BY <1>12, ReaderGoto DEF ReaderReportReturn, ReturnAndUnlock, ReaderLabels
  <2>3. SessionTypeOK' /\ CallbackTypeOK' /\ RateTypeOK' /\ HistoryTypeOK'
    BY <1>12 DEF ReaderReportReturn, ReturnAndUnlock, sessionVars, threadVars, rateVars,
       history,
      SessionTypeOK, CallbackTypeOK, RateTypeOK, HistoryTypeOK
  <2>4. ReportTypeOK'
    BY <1>12 DEF ReaderReportReturn, ReportTypeOK
  <2> QED BY <2>1, <2>2, <2>3, <2>4
<1>13. CASE ReaderBufferDone(r)
  <2>1. DeviceTypeOK'
    BY <1>13, DeviceUnchanged DEF ReaderBufferDone
  <2>2. ControlTypeOK'
    BY <1>13, ReaderGoto DEF ReaderBufferDone, ReaderLabels
  <2>3. SessionTypeOK' /\ CallbackTypeOK' /\ RateTypeOK' /\ ReportTypeOK' /\ HistoryTypeOK'
    BY <1>13 DEF ReaderBufferDone, sessionVars, threadVars, callbackVars, readerVars, rateVars,
      history, SessionTypeOK, CallbackTypeOK, RateTypeOK, ReportTypeOK, HistoryTypeOK
  <2> QED BY <2>1, <2>2, <2>3
<1>14. ASSUME NEW k \in Toggles \union {"fix"}, ReaderReport(r, k) PROVE TypeOK'
  <2>1. DeviceTypeOK'
    BY <1>14, DeviceUnchanged DEF ReaderReport
  <2>2. ControlTypeOK'
    BY <1>14, ReaderGoto, ControlUnchanged DEF ReaderReport, ReaderLabels
  <2>3. SessionTypeOK' /\ CallbackTypeOK' /\ RateTypeOK' /\ HistoryTypeOK'
    BY <1>14 DEF ReaderReport, sessionVars, threadVars, callbackVars, rateVars, history,
      SessionTypeOK, CallbackTypeOK, RateTypeOK, HistoryTypeOK
  <2>4. batch' \in [Readers -> 0 .. MaxReports]
    BY <1>14 DEF ReaderReport, ReportTypeOK
  <2>5. report' \in [Readers -> Toggles \union {"fix", "none"}]
    BY <1>14 DEF ReaderReport, ReportTypeOK
  <2>6. ReportTypeOK'
    BY <1>14, <2>4, <2>5 DEF ReaderReport, ReportTypeOK
  <2> QED BY <2>1, <2>2, <2>3, <2>6
<1> QED
    BY <1>1, <1>2, <1>3, <1>4, <1>5, <1>6, <1>7, <1>8, <1>9, <1>10, <1>11, <1>12, <1>13, <1>14
       DEF ReaderStep

\* The initial states, and those after a restart of the service.
LEMMA InitType ==
    ASSUME Init PROVE TypeOK
<1>1. DeviceTypeOK
  BY DeviceAssumption
  DEF Init, DeviceInit, DeviceTypeOK, FdKinds, DevOps, DevIdle, Step, At, UnsetRate
<1>2. ControlTypeOK
  BY DeviceAssumption DEF Init, GnssInit, ControlTypeOK, ClientLabels, ReaderLabels
<1>3. RateTypeOK
  <2>1. FixPeriod(mFixIntervalMs)
    BY GnssAssumption, PeriodRange DEF Init, GnssInit
  <2>2. FixPeriod(kIdleRateMs)
    BY DEF FixPeriod, kIdleRateMs
  <2> QED BY <2>1, <2>2 DEF Init, GnssInit, RateTypeOK, FixPeriod
<1>4. SessionTypeOK /\ CallbackTypeOK
  BY GnssAssumption DEF Init, GnssInit, SessionTypeOK, CallbackTypeOK
<1>5. ReportTypeOK
  BY GnssAssumption DEF Init, GnssInit, ReportTypeOK
<1>6. HistoryTypeOK
  <2>1. [k \in Toggles |-> 0] \in [Toggles -> Nat]
    OBVIOUS
  <2>2. late \in [Readers -> [Toggles -> Nat]]
    BY <2>1, Zenon DEF Init, GnssInit
  <2>3. aborted = FALSE /\ balance = 0 /\ lateAll = [r \in Readers |-> 0]
    BY Zenon DEF Init, GnssInit
  <2>4. aborted \in BOOLEAN
    BY <2>3, Zenon
  <2>5. balance \in Int /\ lateAll \in [Readers -> Nat]
    BY <2>3
  <2> QED BY <2>2, <2>4, <2>5, Zenon DEF HistoryTypeOK
<1> QED BY <1>1, <1>2, <1>3, <1>4, <1>5, <1>6 DEF TypeOK

LEMMA RestartKeepsType ==
    ASSUME TypeOK, Restart PROVE TypeOK'
<1>1. DeviceTypeOK'
  BY DeviceAssumption
  DEF Restart, TypeOK, DeviceProcessDies, DeviceTypeOK, FdKinds, DevOps, DevIdle, Step, At
<1>2. ControlTypeOK'
  BY DeviceAssumption DEF Restart, ControlTypeOK, ClientLabels, ReaderLabels
<1>3. RateTypeOK'
  <2>1. FixPeriod(mFixIntervalMs)'
    BY GnssAssumption, PeriodRange DEF Restart, FixPeriod
  <2>2. FixPeriod(kIdleRateMs)
    BY DEF FixPeriod, kIdleRateMs
  <2> QED BY <2>1, <2>2 DEF Restart, RateTypeOK, FixPeriod
<1>4. SessionTypeOK' /\ CallbackTypeOK'
  BY GnssAssumption DEF Restart, SessionTypeOK, CallbackTypeOK
<1>5. ReportTypeOK'
  BY GnssAssumption DEF Restart, ReportTypeOK
<1>6. HistoryTypeOK'
  <2>1. [k \in Toggles |-> 0] \in [Toggles -> Nat]
    OBVIOUS
  <2>2. late' \in [Readers -> [Toggles -> Nat]]
    BY <2>1, Zenon DEF Restart
  <2>3. aborted' = FALSE /\ balance' = 0 /\ lateAll' = [r \in Readers |-> 0]
    BY Zenon DEF Restart
  <2>4. aborted' \in BOOLEAN
    BY <2>3, Zenon
  <2>5. balance' \in Int /\ lateAll' \in [Readers -> Nat]
    BY <2>3
  <2> QED BY <2>2, <2>4, <2>5, Zenon DEF HistoryTypeOK
<1> QED BY <1>1, <1>2, <1>3, <1>4, <1>5, <1>6 DEF TypeOK

\* A step that leaves the variables of Gnss alone.
LEMMA GnssUnchanged ==
    ASSUME TypeOK, DeviceTypeOK', UNCHANGED gnssVars PROVE TypeOK'
BY DEF TypeOK, gnssVars, sessionVars, threadVars, callbackVars, rateVars, readerVars, history,
    ControlTypeOK, SessionTypeOK, CallbackTypeOK, RateTypeOK, ReportTypeOK, HistoryTypeOK

\* Type correctness, for every instance.
THEOREM TypeCorrect == Spec => []TypeOK
<1>1. Init => TypeOK
  BY InitType
<1>2. TypeOK /\ [Next]_vars => TypeOK'
  <2> SUFFICES ASSUME TypeOK, [Next]_vars PROVE TypeOK'
    OBVIOUS
  <2>1. ASSUME NEW c \in Clients, NewCall(c) PROVE TypeOK'
    BY <2>1, NewCallKeepsType
  <2>2. ASSUME NEW c \in Clients, CallStep(c) PROVE TypeOK'
    BY <2>2, CallStepKeepsType
  <2>3. ASSUME NEW r \in Readers, ReaderStep(r) PROVE TypeOK'
    BY <2>3, ReaderStepKeepsType
  <2>4. ASSUME NEW t \in Threads, DeviceStep(t) PROVE TypeOK'
    BY <2>4, MethodKeepsType, GnssUnchanged DEF DeviceStep, TypeOK
  <2>5. CASE Environment
    BY <2>5, EnvironmentKeepsType, GnssUnchanged DEF Environment, TypeOK
  <2>6. CASE Restart
    BY <2>6, RestartKeepsType
  <2>7. CASE UNCHANGED vars
    BY <2>7, DeviceUnchanged, GnssUnchanged DEF vars, TypeOK
  <2> QED BY <2>1, <2>2, <2>3, <2>4, <2>5, <2>6, <2>7 DEF Next
<1> QED BY <1>1, <1>2, PTL DEF Spec

-----------------------------------------------------------------------------
(* CallbackStable: nobody calls out without holding the lock, and nobody   *)
(* changes mCallback while somebody does.                                  *)

CallInv ==
    /\ CallbackStable
    /\ mCallbackMutex = NoThread => calling = NoCallback

\* Steps that leave the callback, its lock and its holder alone.
LEMMA NewCallCallback ==
    ASSUME NEW c \in Clients, NewCall(c) PROVE SetCallback(c) \/ UNCHANGED callbackVars
BY DEF NewCall, StartExchange, Stop, Close, StopExchange, SetPositionMode, SetEnabled

LEMMA CallStepCallback ==
    ASSUME NEW c \in Clients, CallStep(c)
    PROVE  \/ UNCHANGED callbackVars
           \/ LockAndCall(c) \/ ReturnAndUnlock(c) \/ CloseClear(c)
BY DEF CallStep, StartThread, SpawnReader, AssignThread, BeginLock, BeginReturn, StartRate,
       StopLock, StopReturn, CloseEndLock, CloseEndReturn, EndLock, EndReturn, CloseRun,
       CloseJoinable, CloseJoin, CloseWait, ModeSession

LEMMA ReaderStepCallback ==
    ASSUME NEW r \in Readers, ReaderStep(r)
    PROVE  UNCHANGED callbackVars \/ LockAndCall(r) \/ ReturnAndUnlock(r)
BY DEF ReaderStep, ReaderOpen, ReaderOpened, ReaderOpenFailed, ReaderRateSession,
       ReaderRateFix, ReaderLoop, ReaderGotBytes, ReaderGotNothing, ReaderClosed,
       ReaderCheck, ReaderReport, ReaderReportLock, ReaderReportReturn, ReaderBufferDone

LEMMA CallInvHolds == Spec => []CallInv
<1>1. Init => CallInv
  BY Zenon DEF Init, GnssInit, CallInv, CallbackStable
<1>2. CallInv /\ [Next]_vars => CallInv'
  <2> SUFFICES ASSUME CallInv, [Next]_vars PROVE CallInv'
    OBVIOUS
  <2> USE DEF CallInv, CallbackStable
  <2>1. ASSUME NEW t \in Threads, LockAndCall(t) PROVE CallInv'
    BY <2>1, GnssAssumption, Zenon DEF LockAndCall
  <2>2. ASSUME NEW t \in Threads, ReturnAndUnlock(t) PROVE CallInv'
    BY <2>2, Zenon DEF ReturnAndUnlock
  <2>3. CASE UNCHANGED callbackVars
    BY <2>3, Zenon DEF callbackVars
  <2>4. ASSUME NEW c \in Clients, NewCall(c) PROVE CallInv'
    <3>1. CASE SetCallback(c)
      BY <3>1, Zenon DEF SetCallback
    <3> QED BY <2>3, <2>4, <3>1, NewCallCallback
  <2>5. ASSUME NEW c \in Clients, CallStep(c) PROVE CallInv'
    <3>1. CASE CloseClear(c)
      BY <3>1, Zenon DEF CloseClear
    <3> QED BY <2>1, <2>2, <2>3, <2>5, <3>1, CallStepCallback
  <2>6. ASSUME NEW r \in Readers, ReaderStep(r) PROVE CallInv'
    BY <2>1, <2>2, <2>3, <2>6, ReaderStepCallback
  <2>7. CASE Restart
    BY <2>7, Zenon DEF Restart
  <2>8. CASE UNCHANGED gnssVars
    BY <2>3, <2>8 DEF gnssVars
  <2> QED BY <2>4, <2>5, <2>6, <2>7, <2>8 DEF Next, DeviceStep, Environment, vars
<1> QED BY <1>1, <1>2, PTL DEF Spec

\* The callback object stays while a call through it is in flight.
THEOREM CallbackStaysStable == Spec => []CallbackStable
<1>1. CallInv => CallbackStable
  BY DEF CallInv
<1> QED BY <1>1, CallInvHolds, PTL

-----------------------------------------------------------------------------
(* AtMostOneLate and AtMostOneLateBuffer: what a reader can still issue    *)
(* once the toggle is off, or the session over, was decided before.        *)

\* r has passed the toggle test of kind k and waits for the lock.
InFlight(r, k) == pc[r] = "reportLock" /\ report[r] = k

LateInv ==
    \A r \in Readers, k \in Toggles :
        /\ mEnabled[k] => late[r][k] = 0
        /\ InFlight(r, k) => late[r][k] = 0
        /\ late[r][k] <= 1

Outstanding(r) == IF pc[r] = "reportLock" THEN batch[r] + 1 ELSE batch[r]

BufferInv ==
    \A r \in Readers :
        /\ mSessionActive => lateAll[r] = 0
        /\ lateAll[r] + Outstanding(r) <= MaxReports

\* What the clients' steps leave of a reader's state.
LEMMA ClientGotoLeavesReader ==
    ASSUME ControlTypeOK, NEW c \in Clients, NEW r \in Readers, NEW l, Goto(c, l)
    PROVE  pc'[r] = pc[r]
<1>1. c # r
  BY DeviceAssumption
<1> QED BY <1>1 DEF Goto, ControlTypeOK

LEMMA NewCallLeavesReader ==
    ASSUME ControlTypeOK, NEW c \in Clients, NEW r \in Readers, NewCall(c)
    PROVE  pc'[r] = pc[r] /\ UNCHANGED readerVars
BY ClientGotoLeavesReader
DEF NewCall, SetCallback, StartExchange, Stop, Close, StopExchange, SetPositionMode, SetEnabled

LEMMA CallStepLeavesReader ==
    ASSUME ControlTypeOK, NEW c \in Clients, NEW r \in Readers, CallStep(c)
    PROVE  /\ pc'[r] = pc[r] \/ (pc[r] = "exited" /\ pc'[r] = "open")
           /\ UNCHANGED <<readerVars, mEnabled, late, lateAll>>
<1>1. CASE SpawnReader(c)
  <2>1. PICK s \in Readers : pc[s] = "exited" /\ pc' = [pc EXCEPT ![c] = "assign",
      ![s] = "open"]
    BY <1>1 DEF SpawnReader
  <2>2. c # r
    BY DeviceAssumption
  <2> QED BY <1>1, <2>1, <2>2 DEF SpawnReader, ControlTypeOK, history
<1>2. CASE ~SpawnReader(c)
  BY <1>2, ClientGotoLeavesReader
  DEF CallStep, StartThread, AssignThread, BeginLock, BeginReturn, StartRate,
      StopLock, StopReturn, CloseEndLock, CloseEndReturn, EndLock, EndReturn, CloseRun,
      CloseJoinable, CloseJoin, CloseWait, CloseClear, ModeSession, history
<1> QED BY <1>1, <1>2

\* The steps of a reader that are about reports, and what the others leave.
LEMMA ReaderStepReports ==
    ASSUME NEW s \in Readers, ReaderStep(s)
    PROVE  \/ ReaderCheck(s) \/ (\E k \in Toggles \union {"fix"} : ReaderReport(s, k))
           \/ ReaderReportLock(s) \/ ReaderReportReturn(s)
           \/ /\ UNCHANGED <<readerVars, mEnabled, late, lateAll, mSessionActive>>
              /\ \E l \in ReaderLabels \ {"reportLock"} : Goto(s, l)
BY DEF ReaderStep, ReaderOpen, ReaderOpened, ReaderOpenFailed, ReaderRateSession,
       ReaderRateFix, ReaderLoop, ReaderGotBytes, ReaderGotNothing, ReaderClosed,
       ReaderBufferDone, sessionVars, history, ReaderLabels

LEMMA LateInvReader ==
    ASSUME TypeOK, LateInv, NEW s \in Readers, ReaderStep(s) PROVE LateInv'
<1> USE DEF TypeOK, ControlTypeOK, ReportTypeOK, HistoryTypeOK
<1> SUFFICES ASSUME NEW r \in Readers, NEW k \in Toggles
             PROVE  /\ mEnabled'[k] => late'[r][k] = 0
                    /\ InFlight(r, k)' => late'[r][k] = 0
                    /\ late'[r][k] <= 1
  BY DEF LateInv
<1>0. /\ mEnabled[k] => late[r][k] = 0
      /\ InFlight(r, k) => late[r][k] = 0
      /\ late[r][k] <= 1
  BY DEF LateInv
<1>1. CASE ReaderCheck(s)
  BY <1>0, <1>1 DEF ReaderCheck, Goto, InFlight, history
<1>2. ASSUME NEW j \in Toggles \union {"fix"}, ReaderReport(s, j)
      PROVE  /\ mEnabled'[k] => late'[r][k] = 0
             /\ InFlight(r, k)' => late'[r][k] = 0
             /\ late'[r][k] <= 1
  <2>1. UNCHANGED <<mEnabled, late>>
    BY <1>2 DEF ReaderReport, history
  <2>2. InFlight(r, k)' => InFlight(r, k) \/ mEnabled[k]
    BY <1>2 DEF ReaderReport, Goto, InFlight
  <2> QED BY <1>0, <2>1, <2>2
<1>3. CASE ReaderReportLock(s)
  <2>1. UNCHANGED <<mEnabled, report>> /\ pc[s] = "reportLock"
    BY <1>3 DEF ReaderReportLock, AtLabel, readerVars
  <2>2. InFlight(r, k)' => InFlight(r, k) /\ r # s
    BY <1>3, <2>1 DEF ReaderReportLock, Goto, InFlight
  <2>3. late'[r][k] = late[r][k] \/ (r = s /\ InFlight(s, k) /\ ~mEnabled[k]
                                       /\ late'[r][k] = late[r][k] + 1)
    BY <1>3, <2>1 DEF ReaderReportLock, InFlight
  <2>4. late[r][k] \in Nat
    OBVIOUS
  <2>5. r # s => late'[r][k] = late[r][k]
    BY <2>3
  <2> QED BY <1>0, <2>1, <2>2, <2>3, <2>4, <2>5
<1>4. CASE ReaderReportReturn(s)
  <2>1. UNCHANGED <<mEnabled, late>>
    BY <1>4 DEF ReaderReportReturn, history
  <2>2. InFlight(r, k)' => InFlight(r, k)
    BY <1>4 DEF ReaderReportReturn, Goto, InFlight
  <2> QED BY <1>0, <2>1, <2>2
<1>5. ASSUME UNCHANGED <<readerVars, mEnabled, late>>,
             NEW l \in ReaderLabels \ {"reportLock"}, Goto(s, l)
      PROVE  /\ mEnabled'[k] => late'[r][k] = 0
             /\ InFlight(r, k)' => late'[r][k] = 0
             /\ late'[r][k] <= 1
  <2>1. InFlight(r, k)' => InFlight(r, k)
    BY <1>5 DEF Goto, InFlight, readerVars
  <2> QED BY <1>0, <1>5, <2>1
<1> QED BY <1>1, <1>2, <1>3, <1>4, <1>5, ReaderStepReports

\* After a toggle is switched off, each reader issues at most one report of
\* the kind.
THEOREM AtMostOneLateReport == Spec => []AtMostOneLate
<1>1. Init => LateInv
  BY DEF Init, GnssInit, LateInv, InFlight
<1>2. TypeOK /\ LateInv /\ [Next]_vars => LateInv'
  <2> SUFFICES ASSUME TypeOK, LateInv, [Next]_vars PROVE LateInv'
    OBVIOUS
  <2> USE DEF TypeOK
  <2>1. ASSUME NEW c \in Clients, NewCall(c) PROVE LateInv'
    <3>1. \A r \in Readers : pc'[r] = pc[r] /\ UNCHANGED report
      BY <2>1, NewCallLeavesReader DEF readerVars
    <3>2. ASSUME NEW j \in Toggles, NEW on \in BOOLEAN, SetEnabled(c, j, on)
          PROVE  LateInv'
      <4>1. \A r \in Readers, k \in Toggles :
              /\ late'[r][k] = IF k = j THEN 0 ELSE late[r][k]
              /\ k # j => mEnabled'[k] = mEnabled[k]
        BY <3>2 DEF SetEnabled, HistoryTypeOK, ReportTypeOK
      <4> QED BY <3>1, <4>1 DEF LateInv, InFlight
    <3>3. CASE \A j \in Toggles, on \in BOOLEAN : ~SetEnabled(c, j, on)
      <4>1. UNCHANGED <<mEnabled, late>>
        BY <2>1, <3>3 DEF NewCall, SetCallback, StartExchange, Stop, Close, StopExchange,
                          SetPositionMode, history
      <4> QED BY <3>1, <4>1 DEF LateInv, InFlight
    <3> QED BY <3>2, <3>3
  <2>2. ASSUME NEW c \in Clients, CallStep(c) PROVE LateInv'
    <3>1. \A r \in Readers : /\ UNCHANGED <<report, mEnabled, late>>
                             /\ pc'[r] = "reportLock" => pc[r] = "reportLock"
      BY <2>2, CallStepLeavesReader DEF readerVars
    <3> QED BY <3>1 DEF LateInv, InFlight
  <2>3. ASSUME NEW r \in Readers, ReaderStep(r) PROVE LateInv'
    BY <2>3, LateInvReader
  <2>4. CASE Restart
    BY <2>4 DEF Restart, LateInv, InFlight
  <2>5. CASE UNCHANGED gnssVars
    BY <2>5 DEF gnssVars, readerVars, history, LateInv, InFlight
  <2> QED BY <2>1, <2>2, <2>3, <2>4, <2>5 DEF Next, DeviceStep, Environment, vars
<1>3. LateInv => AtMostOneLate
  BY DEF LateInv, AtMostOneLate
<1> QED BY <1>1, <1>2, <1>3, TypeCorrect, PTL DEF Spec

LEMMA BufferInvReader ==
    ASSUME TypeOK, BufferInv, NEW s \in Readers, ReaderStep(s) PROVE BufferInv'
<1> USE GnssAssumption DEF TypeOK, ControlTypeOK, ReportTypeOK, HistoryTypeOK
<1> SUFFICES ASSUME NEW r \in Readers
             PROVE  /\ mSessionActive' => lateAll'[r] = 0
                    /\ lateAll'[r] + Outstanding(r)' <= MaxReports
  BY DEF BufferInv
<1>0. /\ mSessionActive => lateAll[r] = 0
      /\ lateAll[r] + Outstanding(r) <= MaxReports
      /\ lateAll[r] \in Nat /\ batch[r] \in 0 .. MaxReports
  BY DEF BufferInv
<1>1. CASE ReaderCheck(s)
  <2>1. UNCHANGED <<mSessionActive, lateAll>> /\ pc[s] = "check"
    BY <1>1 DEF ReaderCheck, AtLabel, sessionVars, history
  <2>2. CASE mSessionActive /\ r = s
    <3>1. batch'[r] \in 0 .. MaxReports /\ pc'[r] = "reports"
      BY <1>1, <2>2 DEF ReaderCheck, Goto
    <3> QED BY <1>0, <2>1, <2>2, <3>1 DEF Outstanding
  <2>3. CASE ~(mSessionActive /\ r = s)
    <3>1. batch'[r] = batch[r] /\ (pc'[r] = "reportLock" <=> pc[r] = "reportLock")
      BY <1>1, <2>1, <2>3 DEF ReaderCheck, Goto
    <3> QED BY <1>0, <2>1, <3>1 DEF Outstanding
  <2> QED BY <2>2, <2>3
<1>2. ASSUME NEW k \in Toggles \union {"fix"}, ReaderReport(s, k)
      PROVE  /\ mSessionActive' => lateAll'[r] = 0
             /\ lateAll'[r] + Outstanding(r)' <= MaxReports
  <2>1. UNCHANGED <<mSessionActive, lateAll>> /\ pc[s] = "reports"
    BY <1>2 DEF ReaderReport, AtLabel, sessionVars, history
  <2>2. batch' = [batch EXCEPT ![s] = @ - 1] /\ pc' \in {pc, [pc EXCEPT ![s] = "reportLock"]}
    BY <1>2 DEF ReaderReport, Goto
  <2>3. Outstanding(r)' <= Outstanding(r)
    BY <1>0, <2>1, <2>2 DEF Outstanding
  <2>4. Outstanding(r) \in Int /\ Outstanding(r)' \in Int
    BY <1>0, <2>2 DEF Outstanding
  <2> QED BY <1>0, <2>1, <2>3, <2>4
<1>3. CASE ReaderReportLock(s)
  <2>1. UNCHANGED <<mSessionActive, batch>> /\ pc[s] = "reportLock"
    BY <1>3 DEF ReaderReportLock, AtLabel, sessionVars, readerVars
  <2>2. pc' = [pc EXCEPT ![s] = "reportCall"]
    BY <1>3 DEF ReaderReportLock, Goto
  <2>3. lateAll' = lateAll \/ (~mSessionActive /\ lateAll' = [lateAll EXCEPT ![s] = @ + 1])
    BY <1>3 DEF ReaderReportLock
  <2> QED BY <1>0, <2>1, <2>2, <2>3 DEF Outstanding
<1>4. CASE ReaderReportReturn(s)
  <2>1. UNCHANGED <<mSessionActive, lateAll, batch>> /\ pc[s] = "reportCall"
    BY <1>4 DEF ReaderReportReturn, AtLabel, sessionVars, history
  <2>2. pc' = [pc EXCEPT ![s] = "reports"]
    BY <1>4 DEF ReaderReportReturn, Goto
  <2> QED BY <1>0, <2>1, <2>2 DEF Outstanding
<1>5. ASSUME UNCHANGED <<readerVars, lateAll, mSessionActive>>,
             NEW l \in ReaderLabels \ {"reportLock"}, Goto(s, l)
      PROVE  /\ mSessionActive' => lateAll'[r] = 0
             /\ lateAll'[r] + Outstanding(r)' <= MaxReports
  <2>1. pc'[r] = "reportLock" => pc[r] = "reportLock"
    BY <1>5 DEF Goto
  <2> QED BY <1>0, <1>5, <2>1 DEF Outstanding, readerVars
<1> QED BY <1>1, <1>2, <1>3, <1>4, <1>5, ReaderStepReports

\* After the end of the session, each reader issues at most what is left of
\* the one buffer it is parsing.
THEOREM AtMostOneLateBufferReports == Spec => []AtMostOneLateBuffer
<1>1. Init => BufferInv
  BY GnssAssumption DEF Init, GnssInit, BufferInv, Outstanding
<1>2. TypeOK /\ BufferInv /\ [Next]_vars => BufferInv'
  <2> SUFFICES ASSUME TypeOK, BufferInv, [Next]_vars PROVE BufferInv'
    OBVIOUS
  <2> USE GnssAssumption DEF TypeOK
  <2>0. \A r \in Readers : lateAll[r] \in Nat /\ batch[r] \in 0 .. MaxReports
    BY DEF HistoryTypeOK, ReportTypeOK
  <2>1. ASSUME NEW c \in Clients, NewCall(c) PROVE BufferInv'
    <3>1. \A r \in Readers : pc'[r] = pc[r] /\ batch' = batch
      BY <2>1, NewCallLeavesReader DEF readerVars
    <3>2. \/ lateAll' = lateAll /\ (mSessionActive' => mSessionActive)
          \/ lateAll' = [r \in Readers |-> 0]
      BY <2>1 DEF NewCall, SetCallback, StartExchange, Stop, Close, StopExchange,
                  SetPositionMode, SetEnabled, sessionVars, history
    <3> QED BY <2>0, <3>1, <3>2 DEF BufferInv, Outstanding
  <2>2. ASSUME NEW c \in Clients, CallStep(c) PROVE BufferInv'
    <3>1. \A r \in Readers : /\ UNCHANGED <<batch, lateAll>>
                             /\ pc'[r] = "reportLock" => pc[r] = "reportLock"
      BY <2>2, CallStepLeavesReader DEF readerVars
    <3>2. UNCHANGED mSessionActive
      BY <2>2 DEF CallStep, StartThread, SpawnReader, AssignThread, BeginLock, BeginReturn,
                  StartRate, StopLock, StopReturn, CloseEndLock, CloseEndReturn, EndLock,
                  EndReturn, CloseRun, CloseJoinable, CloseJoin, CloseWait, CloseClear,
                  ModeSession, sessionVars
    <3> QED BY <2>0, <3>1, <3>2 DEF BufferInv, Outstanding
  <2>3. ASSUME NEW r \in Readers, ReaderStep(r) PROVE BufferInv'
    BY <2>3, BufferInvReader
  <2>4. CASE Restart
    BY <2>4 DEF Restart, BufferInv, Outstanding
  <2>5. CASE UNCHANGED gnssVars
    BY <2>5 DEF gnssVars, sessionVars, readerVars, history, BufferInv, Outstanding
  <2> QED BY <2>1, <2>2, <2>3, <2>4, <2>5 DEF Next, DeviceStep, Environment, vars
<1>3. TypeOK /\ BufferInv => AtMostOneLateBuffer
  BY GnssAssumption
  DEF BufferInv, AtMostOneLateBuffer, Outstanding, TypeOK, HistoryTypeOK, ReportTypeOK
<1> QED BY <1>1, <1>2, <1>3, TypeCorrect, PTL DEF Spec

-----------------------------------------------------------------------------
(* StatusBalance: a begin or an end that is not reported yet is the        *)
(* business of exactly one of the clients that switched mSessionActive.    *)

BeginLabels == {"startThread", "spawn", "assign", "beginLock"}
EndLabels   == {"stopLock", "closeEndLock"}

Beginning == {c \in Clients : pc[c] \in BeginLabels}
Ending    == {c \in Clients : pc[c] \in EndLabels}

One(b) == IF b THEN 1 ELSE 0

BalanceInv == balance + Cardinality(Beginning) - Cardinality(Ending) = One(mSessionActive)

LEMMA CountsAreNat ==
    /\ IsFiniteSet(Beginning) /\ Cardinality(Beginning) \in Nat
    /\ IsFiniteSet(Ending) /\ Cardinality(Ending) \in Nat
BY GnssAssumption, FS_Subset, FS_CardinalityType DEF Beginning, Ending

\* How a client's jump moves it into and out of the two sets.
LEMMA GotoCounts ==
    ASSUME ControlTypeOK, NEW c \in Clients, NEW l, Goto(c, l)
    PROVE  /\ Cardinality(Beginning)' = Cardinality(Beginning)
                  + One(l \in BeginLabels) - One(pc[c] \in BeginLabels)
           /\ Cardinality(Ending)' = Cardinality(Ending)
                  + One(l \in EndLabels) - One(pc[c] \in EndLabels)
<1>1. /\ pc'[c] = l
      /\ \A d \in Clients : d # c => pc'[d] = pc[d]
  BY DEF Goto, ControlTypeOK
<1>2. /\ Beginning' = IF l \in BeginLabels THEN Beginning \union {c} ELSE Beginning \ {c}
      /\ c \in Beginning <=> pc[c] \in BeginLabels
  BY <1>1 DEF Beginning
<1>3. /\ Ending' = IF l \in EndLabels THEN Ending \union {c} ELSE Ending \ {c}
      /\ c \in Ending <=> pc[c] \in EndLabels
  BY <1>1 DEF Ending
<1>4. /\ Cardinality(Beginning \union {c})
           = IF c \in Beginning THEN Cardinality(Beginning) ELSE Cardinality(Beginning) + 1
      /\ Cardinality(Beginning \ {c})
           = IF c \in Beginning THEN Cardinality(Beginning) - 1 ELSE Cardinality(Beginning)
  BY CountsAreNat, FS_AddElement, FS_RemoveElement
<1>5. /\ Cardinality(Ending \union {c})
           = IF c \in Ending THEN Cardinality(Ending) ELSE Cardinality(Ending) + 1
      /\ Cardinality(Ending \ {c})
           = IF c \in Ending THEN Cardinality(Ending) - 1 ELSE Cardinality(Ending)
  BY CountsAreNat, FS_AddElement, FS_RemoveElement
<1>6. /\ Cardinality(Beginning') = Cardinality(Beginning)
                  + One(l \in BeginLabels) - One(pc[c] \in BeginLabels)
  BY <1>2, <1>4, CountsAreNat DEF One
<1>7. /\ Cardinality(Ending') = Cardinality(Ending)
                  + One(l \in EndLabels) - One(pc[c] \in EndLabels)
  BY <1>3, <1>5, CountsAreNat DEF One
<1> QED BY <1>6, <1>7

\* What a client's jump must do to the count of the reported statuses.
Weight(l) == One(l \in BeginLabels) - One(l \in EndLabels)

LEMMA JumpBalance ==
    ASSUME TypeOK, BalanceInv, NEW c \in Clients, NEW l, Goto(c, l), balance' \in Int,
           balance' + Weight(l) - One(mSessionActive')
               = balance + Weight(pc[c]) - One(mSessionActive)
    PROVE  BalanceInv'
<1>1. balance \in Int
  BY DEF TypeOK, HistoryTypeOK
<1>2. /\ Cardinality(Beginning)' = Cardinality(Beginning)
              + One(l \in BeginLabels) - One(pc[c] \in BeginLabels)
      /\ Cardinality(Ending)' = Cardinality(Ending)
              + One(l \in EndLabels) - One(pc[c] \in EndLabels)
  BY GotoCounts DEF TypeOK
<1>3. \A b : One(b) \in Int
  BY DEF One
<1> QED
  BY <1>1, <1>2, <1>3, CountsAreNat DEF BalanceInv, Weight

\* Steps that move no client into or out of the sets.
LEMMA SameClients ==
    ASSUME BalanceInv, UNCHANGED <<balance, mSessionActive>>,
           \A c \in Clients : pc'[c] = pc[c]
    PROVE  BalanceInv'
<1>1. Beginning' = Beginning /\ Ending' = Ending
  BY DEF Beginning, Ending
<1> QED BY <1>1 DEF BalanceInv

LEMMA NewCallBalance ==
    ASSUME TypeOK, BalanceInv, NEW c \in Clients, NewCall(c) PROVE BalanceInv'
<1>0. balance \in Int
  BY DEF TypeOK, HistoryTypeOK
<1> USE <1>0, JumpBalance DEF Available, Weight, One, BeginLabels, EndLabels, sessionVars,
    history
<1>1. CASE SetCallback(c)
  BY <1>1 DEF SetCallback
<1>2. CASE StartExchange(c)
  BY <1>2 DEF StartExchange
<1>3. CASE Stop(c)
  BY <1>3 DEF Stop, StopExchange
<1>4. CASE Close(c)
  BY <1>4 DEF Close, StopExchange
<1>5. CASE SetPositionMode(c)
  BY <1>5 DEF SetPositionMode
<1>6. ASSUME NEW k \in Toggles, NEW on \in BOOLEAN, SetEnabled(c, k, on) PROVE BalanceInv'
  BY <1>6, SameClients DEF SetEnabled
<1> QED BY <1>1, <1>2, <1>3, <1>4, <1>5, <1>6 DEF NewCall

LEMMA CallStepBalance ==
    ASSUME TypeOK, BalanceInv, NEW c \in Clients, CallStep(c) PROVE BalanceInv'
<1>0. balance \in Int
  BY DEF TypeOK, HistoryTypeOK
<1> USE <1>0, JumpBalance DEF AtLabel, Weight, One, BeginLabels, EndLabels, sessionVars, history
<1>1. CASE StartThread(c)
  BY <1>1 DEF StartThread
<1>2. CASE SpawnReader(c)
  <2>1. PICK r \in Readers : pc' = [pc EXCEPT ![c] = "assign", ![r] = "open"]
    BY <1>2 DEF SpawnReader
  <2>2. pc[c] = "spawn" /\ UNCHANGED <<balance, mSessionActive>>
    BY <1>2 DEF SpawnReader
  <2>3. \A d \in Clients : pc'[d] = IF d = c THEN "assign" ELSE pc[d]
    BY <2>1, DeviceAssumption DEF TypeOK, ControlTypeOK
  <2>4. Beginning' = Beginning /\ Ending' = Ending
    BY <2>2, <2>3 DEF Beginning, Ending
  <2> QED BY <2>2, <2>4 DEF BalanceInv
<1>3. CASE AssignThread(c)
  BY <1>3, SameClients DEF AssignThread
<1>4. CASE BeginLock(c)
  BY <1>4 DEF BeginLock
<1>5. CASE BeginReturn(c)
  BY <1>5 DEF BeginReturn
<1>6. CASE StartRate(c)
  BY <1>6 DEF StartRate
<1>7. CASE StopLock(c)
  BY <1>7 DEF StopLock, EndLock
<1>8. CASE StopReturn(c)
  BY <1>8 DEF StopReturn, EndReturn
<1>9. CASE CloseEndLock(c)
  BY <1>9 DEF CloseEndLock, EndLock
<1>10. CASE CloseEndReturn(c)
  BY <1>10 DEF CloseEndReturn, EndReturn
<1>11. CASE CloseRun(c)
  BY <1>11 DEF CloseRun
<1>12. CASE CloseJoinable(c)
  BY <1>12 DEF CloseJoinable
<1>13. CASE CloseJoin(c)
  BY <1>13, SameClients DEF CloseJoin
<1>14. CASE CloseWait(c)
  BY <1>14 DEF CloseWait
<1>15. CASE CloseClear(c)
  BY <1>15 DEF CloseClear
<1>16. CASE ModeSession(c)
  BY <1>16 DEF ModeSession
<1> QED
  BY <1>1, <1>2, <1>3, <1>4, <1>5, <1>6, <1>7, <1>8, <1>9, <1>10, <1>11, <1>12, <1>13, <1>14,
     <1>15, <1>16
  DEF CallStep

\* A reader's steps are none of the clients' business.
LEMMA ReaderStepBalance ==
    ASSUME TypeOK, BalanceInv, NEW r \in Readers, ReaderStep(r) PROVE BalanceInv'
<1>1. ASSUME NEW l, Goto(r, l) PROVE \A c \in Clients : pc'[c] = pc[c]
  BY <1>1, DeviceAssumption DEF Goto, TypeOK, ControlTypeOK
<1>2. UNCHANGED <<balance, mSessionActive>> /\ (UNCHANGED pc \/ \E l : Goto(r, l))
  BY DEF ReaderStep, ReaderOpen, ReaderOpened, ReaderOpenFailed, ReaderRateSession,
         ReaderRateFix, ReaderLoop, ReaderGotBytes, ReaderGotNothing, ReaderClosed,
         ReaderCheck, ReaderReport, ReaderReportLock, ReaderReportReturn, ReaderBufferDone,
         sessionVars, history
<1> QED BY <1>1, <1>2, SameClients

LEMMA BalanceHolds == Spec => []BalanceInv
<1>1. Init => BalanceInv
  <2> SUFFICES ASSUME Init PROVE BalanceInv
    OBVIOUS
  <2>1. balance = 0 /\ mSessionActive = FALSE /\ \A c \in Clients : pc[c] = "idle"
    BY DeviceAssumption DEF Init, GnssInit
  <2>2. Beginning = {} /\ Ending = {}
    BY <2>1 DEF Beginning, Ending, BeginLabels, EndLabels
  <2> QED BY <2>1, <2>2, FS_EmptySet DEF BalanceInv, One
<1>2. TypeOK /\ BalanceInv /\ [Next]_vars => BalanceInv'
  <2> SUFFICES ASSUME TypeOK, BalanceInv, [Next]_vars PROVE BalanceInv'
    OBVIOUS
  <2>1. CASE Restart
    <3>1. balance' = 0 /\ mSessionActive' = FALSE /\ \A c \in Clients : pc'[c] = "idle"
      BY <2>1, DeviceAssumption DEF Restart
    <3>2. Beginning' = {} /\ Ending' = {}
      BY <3>1 DEF Beginning, Ending, BeginLabels, EndLabels
    <3> QED BY <3>1, <3>2, FS_EmptySet DEF BalanceInv, One
  <2>2. CASE UNCHANGED gnssVars
    BY <2>2, SameClients DEF gnssVars, sessionVars, history
  <2> QED
    BY <2>1, <2>2, NewCallBalance, CallStepBalance, ReaderStepBalance
    DEF Next, DeviceStep, Environment, vars
<1> QED BY <1>1, <1>2, TypeCorrect, PTL DEF Spec

\* Once no call is in progress, the framework was told of as many begins as
\* ends, plus the open session.
THEOREM StatusesBalance == Spec => []StatusBalance
<1>1. TypeOK /\ BalanceInv => StatusBalance
  <2> SUFFICES ASSUME TypeOK, BalanceInv, NoCallInProgress
               PROVE  balance = IF mSessionActive THEN 1 ELSE 0
    BY DEF StatusBalance
  <2>1. Beginning = {} /\ Ending = {}
    BY DEF NoCallInProgress, Available, Beginning, Ending, BeginLabels, EndLabels
  <2>2. balance \in Int
    BY DEF TypeOK, HistoryTypeOK
  <2> QED BY <2>1, <2>2, FS_EmptySet DEF BalanceInv, One
<1> QED BY <1>1, BalanceHolds, TypeCorrect, PTL

-----------------------------------------------------------------------------
(* NoWaitCycle: who holds the lock is out in the framework, and waits for  *)
(* nobody here; who joins, joins a reader, which joins nobody.             *)

CallLabels == {"beginCall", "stopCall", "closeEndCall", "reportCall"}

WaitInv ==
    /\ \A t \in Threads : pc[t] \in CallLabels <=> mCallbackMutex = t
    /\ \A c \in Clients : pc[c] = "closeWait" => mThread \in Readers
    /\ \A c, d \in Clients : pc[c] = "closeWait" /\ pc[d] = "closeWait" => c = d

LEMMA NewCallWait ==
    ASSUME TypeOK, WaitInv, NEW c \in Clients, NewCall(c) PROVE WaitInv'
<1>0. pc \in [Threads -> ClientLabels \union ReaderLabels]
  BY DEF TypeOK, ControlTypeOK
<1> USE <1>0, DeviceAssumption
    DEF WaitInv, CallLabels, Goto, Available, Threads, sessionVars, threadVars, callbackVars
<1>1. CASE SetCallback(c)
  BY <1>1 DEF SetCallback
<1>2. CASE StartExchange(c)
  BY <1>2 DEF StartExchange
<1>3. CASE Stop(c)
  BY <1>3 DEF Stop, StopExchange
<1>4. CASE Close(c)
  BY <1>4 DEF Close, StopExchange
<1>5. CASE SetPositionMode(c)
  BY <1>5 DEF SetPositionMode
<1>6. ASSUME NEW k \in Toggles, NEW on \in BOOLEAN, SetEnabled(c, k, on) PROVE WaitInv'
  BY <1>6 DEF SetEnabled
<1> QED BY <1>1, <1>2, <1>3, <1>4, <1>5, <1>6 DEF NewCall

LEMMA CallStepWait ==
    ASSUME TypeOK, WaitInv, NEW c \in Clients, CallStep(c) PROVE WaitInv'
<1>0. /\ pc \in [Threads -> ClientLabels \union ReaderLabels]
      /\ \A r \in Readers : pc[r] \in ReaderLabels
      /\ mThread \in Readers \union {NoThread} /\ spawned \in [Clients -> Readers \union {NoThread}]
      /\ NoThread \notin Threads
  BY GnssAssumption DEF TypeOK, ControlTypeOK, SessionTypeOK
<1> USE <1>0, DeviceAssumption
    DEF WaitInv, CallLabels, Goto, AtLabel, Threads, sessionVars, threadVars, callbackVars,
        LockAndCall, ReturnAndUnlock
<1>1. CASE StartThread(c)
  BY <1>1 DEF StartThread
<1>2. CASE SpawnReader(c)
  BY <1>2 DEF SpawnReader
<1>3. CASE AssignThread(c)
  BY <1>3 DEF AssignThread
<1>4. CASE BeginLock(c)
  BY <1>4 DEF BeginLock
<1>5. CASE BeginReturn(c)
  BY <1>5 DEF BeginReturn
<1>6. CASE StartRate(c)
  BY <1>6 DEF StartRate
<1>7. CASE StopLock(c)
  BY <1>7 DEF StopLock, EndLock
<1>8. CASE StopReturn(c)
  BY <1>8 DEF StopReturn, EndReturn
<1>9. CASE CloseEndLock(c)
  BY <1>9 DEF CloseEndLock, EndLock
<1>10. CASE CloseEndReturn(c)
  BY <1>10 DEF CloseEndReturn, EndReturn
<1>11. CASE CloseRun(c)
  BY <1>11 DEF CloseRun
<1>12. CASE CloseJoinable(c)
  BY <1>12 DEF CloseJoinable
<1>13. CASE CloseJoin(c)
  BY <1>13 DEF CloseJoin
<1>14. CASE CloseWait(c)
  BY <1>14 DEF CloseWait
<1>15. CASE CloseClear(c)
  BY <1>15 DEF CloseClear
<1>16. CASE ModeSession(c)
  BY <1>16 DEF ModeSession
<1> QED
  BY <1>1, <1>2, <1>3, <1>4, <1>5, <1>6, <1>7, <1>8, <1>9, <1>10, <1>11, <1>12, <1>13, <1>14,
     <1>15, <1>16
  DEF CallStep

LEMMA ReaderStepWait ==
    ASSUME TypeOK, WaitInv, NEW r \in Readers, ReaderStep(r) PROVE WaitInv'
<1>0. /\ pc \in [Threads -> ClientLabels \union ReaderLabels]
      /\ NoThread \notin Threads /\ r \notin Clients
  BY GnssAssumption, DeviceAssumption DEF TypeOK, ControlTypeOK
<1> USE <1>0 DEF WaitInv, CallLabels, Goto, AtLabel, Threads, sessionVars, threadVars,
                 callbackVars, LockAndCall, ReturnAndUnlock
<1>1. CASE ReaderOpen(r)
  BY <1>1 DEF ReaderOpen
<1>2. CASE ReaderOpened(r)
  BY <1>2 DEF ReaderOpened
<1>3. CASE ReaderOpenFailed(r)
  BY <1>3 DEF ReaderOpenFailed
<1>4. CASE ReaderRateSession(r)
  BY <1>4 DEF ReaderRateSession
<1>5. CASE ReaderRateFix(r)
  BY <1>5 DEF ReaderRateFix
<1>6. CASE ReaderLoop(r)
  BY <1>6 DEF ReaderLoop
<1>7. CASE ReaderGotBytes(r)
  BY <1>7 DEF ReaderGotBytes
<1>8. CASE ReaderGotNothing(r)
  BY <1>8 DEF ReaderGotNothing
<1>9. CASE ReaderClosed(r)
  BY <1>9 DEF ReaderClosed
<1>10. CASE ReaderCheck(r)
  BY <1>10 DEF ReaderCheck
<1>11. CASE ReaderReportLock(r)
  BY <1>11 DEF ReaderReportLock
<1>12. CASE ReaderReportReturn(r)
  BY <1>12 DEF ReaderReportReturn
<1>13. CASE ReaderBufferDone(r)
  BY <1>13 DEF ReaderBufferDone
<1>14. ASSUME NEW k \in Toggles \union {"fix"}, ReaderReport(r, k) PROVE WaitInv'
  BY <1>14 DEF ReaderReport
<1> QED
  BY <1>1, <1>2, <1>3, <1>4, <1>5, <1>6, <1>7, <1>8, <1>9, <1>10, <1>11, <1>12, <1>13, <1>14
  DEF ReaderStep

LEMMA WaitHolds == Spec => []WaitInv
<1>0. NoThread \notin Threads
  BY GnssAssumption
<1>1. Init => WaitInv
  <2> SUFFICES ASSUME Init PROVE WaitInv
    OBVIOUS
  <2>1. mCallbackMutex = NoThread
    BY DEF Init, GnssInit
  <2>2. /\ \A t \in Threads : pc[t] \in {"exited", "idle"}
        /\ \A c \in Clients : pc[c] # "closeWait"
    BY DEF Init, GnssInit, Threads
  <2>3. \A t \in Threads : pc[t] \notin CallLabels /\ mCallbackMutex # t
    BY <1>0, <2>1, <2>2 DEF CallLabels
  <2> QED
    BY <2>2, <2>3 DEF WaitInv
<1>2. TypeOK /\ WaitInv /\ [Next]_vars => WaitInv'
  <2> SUFFICES ASSUME TypeOK, WaitInv, [Next]_vars PROVE WaitInv'
    OBVIOUS
  <2>1. CASE Restart
    BY <1>0, <2>1, DeviceAssumption DEF Restart, WaitInv, CallLabels, Threads
  <2>2. CASE UNCHANGED gnssVars
    BY <2>2 DEF gnssVars, sessionVars, threadVars, callbackVars, WaitInv
  <2> QED
    BY <2>1, <2>2, NewCallWait, CallStepWait, ReaderStepWait
    DEF Next, DeviceStep, Environment, vars
<1> QED BY <1>1, <1>2, TypeCorrect, PTL DEF Spec

\* Threads never wait for each other in a circle, whatever calls race, however
\* many clients and readers there are, and whatever fails.
THEOREM WaitsEnd == Spec => []NoWaitCycle
<1>1. TypeOK /\ WaitInv => NoWaitCycle
  <2> SUFFICES ASSUME TypeOK, WaitInv, NEW t \in Threads, NEW u \in Threads,
                      NEW v \in Threads, WaitsFor(t, u), WaitsFor(u, v)
               PROVE  pc[t] = "closeWait" /\ \A w \in Threads : ~WaitsFor(v, w)
    BY DEF NoWaitCycle
  <2>1. ASSUME NEW x \in Threads, mCallbackMutex = x
        PROVE  \A w \in Threads : ~WaitsFor(x, w)
    <3>1. pc[x] \in CallLabels
      BY <2>1 DEF WaitInv
    <3> QED
      BY <3>1 DEF CallLabels, WaitsFor, LockLabels
  <2>2. pc[t] = "closeWait" /\ u = mThread
    BY <2>1 DEF WaitsFor
  <2>3. t \in Clients
    BY <2>2 DEF TypeOK, ControlTypeOK, ReaderLabels, Threads
  <2>4. u \in Readers
    BY <2>2, <2>3 DEF WaitInv
  <2>5. pc[u] # "closeWait"
    BY <2>4 DEF TypeOK, ControlTypeOK, ReaderLabels
  <2>6. v = mCallbackMutex
    BY <2>5 DEF WaitsFor
  <2> QED
    BY <2>1, <2>2, <2>6
<1> QED BY <1>1, WaitHolds, TypeCorrect, PTL
=============================================================================
