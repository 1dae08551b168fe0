-------------------------------- MODULE Gnss --------------------------------
(***************************************************************************)
(* Class Gnss (serial/Gnss.cpp): the IGnss lifecycle calls served by the   *)
(* binder threads, and the reader thread they create, on top of the shared *)
(* SerialDevice.                                                           *)
(*                                                                         *)
(* A client is a binder thread; pc[c] is "idle" or "closed" (idle, and its *)
(* last call was close()) between calls.  Each step makes at most one      *)
(* access to state that another thread can change without a lock.  A call  *)
(* into SerialDevice is finished before the caller's next step.            *)
(*                                                                         *)
(* Of the parser this module keeps that addBytes() may issue any number    *)
(* (up to MaxReports) of reports for one buffer read.                      *)
(***************************************************************************)
EXTENDS SerialDevice, FiniteSets

CONSTANTS
    Callbacks,      \* IGnssCallback objects the framework registers
    NoCallback,     \* mCallback == nullptr
    NoThread,       \* mCallbackMutex is free
    Intervals,      \* minIntervalMs values the framework asks for
    MaxRateProps,   \* values of persist.vendor.gps.max_rate, 0 when unset
    MaxReports,     \* bound on the reports of one buffer
    Calls           \* the IGnss methods this instance's framework uses

Toggles == {"nmea", "sv"}

AllCalls == {"setCallback", "start", "stop", "close", "setPositionMode"} \union Toggles

ASSUME GnssAssumption ==
    /\ NoCallback \notin Callbacks
    /\ NoThread \notin Threads
    /\ IsFiniteSet(Clients)
    /\ Intervals \subseteq Int
    /\ MaxRateProps \subseteq Nat
    /\ MaxReports \in Nat
    /\ Calls \subseteq AllCalls

VARIABLES
    pc,
    mSessionActive, mThreadRunning,
    mThread,            \* the thread the std::thread refers to, if any
    spawned,            \* per client: the temporary std::thread of start()
    mCallback, mCallbackMutex,
    calling,            \* the callback object the mutex holder is calling
    mEnabled,           \* mNmeaEnabled, mSvStatusEnabled
    mFixIntervalMs,
    arg,                \* setPositionMode's local `rate`
    report,             \* reader: kind of report it is issuing
    batch,              \* reader: reports the current buffer may still issue
    aborted,            \* std::terminate was called
    balance,            \* history: SESSION_BEGINs minus SESSION_ENDs reported
    late,               \* history: reports of a kind since it was disabled
    lateAll             \* history: reports since the session ended

threadVars == <<mThread, spawned>>
sessionVars == <<mSessionActive, mThreadRunning, threadVars>>
callbackVars == <<mCallback, mCallbackMutex, calling>>
readerVars == <<report, batch>>
rateVars == <<mFixIntervalMs, arg>>
history == <<balance, late, lateAll>>
gnssVars == <<pc, sessionVars, callbackVars, mEnabled, rateVars, readerVars, aborted, history>>
vars == <<devVars, gnssVars>>

-----------------------------------------------------------------------------
(* Fix interval                                                            *)

\* "Slow background rate used while no session is active".
kIdleRateMs == 10000

\* Mutant: the clamp without its lower bound.
clampRateMsNoFloor(minIntervalMs) ==
    IF minIntervalMs > 65000 THEN 65000 ELSE minIntervalMs

\* minIntervalMs is a signed int from the framework.
clampRateMs(minIntervalMs) ==
    IF minIntervalMs < 250 THEN 250
    ELSE IF minIntervalMs > 65000 THEN 65000
    ELSE minIntervalMs

\* The constructor's reading of persist.vendor.gps.max_rate: seconds below
\* 66, milliseconds from 250 to what an unsigned short holds, else 1000 ms.
periodFromMaxRate(rate) ==
    IF rate > 0 /\ rate < 66 THEN rate * 1000
    ELSE IF rate >= 250 /\ rate < 65536 THEN rate
    ELSE 1000

-----------------------------------------------------------------------------
(* Initial state: the service registered, nothing called yet.              *)

GnssInit ==
    /\ pc = [t \in Threads |-> IF t \in Readers THEN "exited" ELSE "idle"]
    /\ mSessionActive = FALSE
    /\ mThreadRunning = FALSE
    /\ mThread = NoThread
    /\ spawned = [c \in Clients |-> NoThread]
    /\ mCallback = NoCallback
    /\ mCallbackMutex = NoThread
    /\ calling = NoCallback
    /\ mEnabled = [k \in Toggles |-> TRUE]
    /\ mFixIntervalMs \in {periodFromMaxRate(p) : p \in MaxRateProps}
    /\ arg = [c \in Clients |-> kIdleRateMs]
    /\ report = [r \in Readers |-> "none"]
    /\ batch = [r \in Readers |-> 0]
    /\ aborted = FALSE
    /\ balance = 0
    /\ late = [r \in Readers |-> [k \in Toggles |-> 0]]
    /\ lateAll = [r \in Readers |-> 0]

Init == DeviceInit /\ GnssInit

-----------------------------------------------------------------------------
(* Helpers                                                                 *)

Goto(t, label) == pc' = [pc EXCEPT ![t] = label]

\* t is at label, and has returned from any SerialDevice method.
AtLabel(t, label) == ~aborted /\ pc[t] = label /\ DeviceIdle(t)

\* Binder thread c is free to serve a call.
Available(c) == ~aborted /\ pc[c] \in {"idle", "closed"} /\ DeviceIdle(c)

\* Entering a report helper: the lock is held across the synchronous call on
\* mCallback, if there is one.
LockAndCall(t) ==
    /\ mCallbackMutex = NoThread
    /\ mCallbackMutex' = t
    /\ calling' = mCallback
    /\ UNCHANGED mCallback

ReturnAndUnlock(t) ==
    /\ mCallbackMutex = t
    /\ mCallbackMutex' = NoThread
    /\ calling' = NoCallback
    /\ UNCHANGED mCallback

-----------------------------------------------------------------------------
(* setCallback.  The two calls on the new callback that follow the locked  *)
(* assignment touch no state; a null argument changes nothing at all.      *)

\* Mutant: the callback is assigned without the lock.
SetCallbackUnlocked(c) ==
    /\ "setCallback" \in Calls
    /\ Available(c)
    /\ \E cb \in Callbacks : mCallback' = cb
    /\ Goto(c, "idle")
    /\ UNCHANGED <<devVars, sessionVars, mCallbackMutex, calling, mEnabled, rateVars,
                   readerVars, aborted, history>>

SetCallback(c) ==
    /\ "setCallback" \in Calls
    /\ Available(c)
    /\ mCallbackMutex = NoThread
    /\ \E cb \in Callbacks : mCallback' = cb
    /\ Goto(c, "idle")
    /\ UNCHANGED <<devVars, sessionVars, mCallbackMutex, calling, mEnabled, rateVars,
                   readerVars, aborted, history>>

-----------------------------------------------------------------------------
(* start                                                                   *)

\* Mutant: the previous value of the flag is ignored.
StartAlways(c) ==
    /\ "start" \in Calls
    /\ Available(c)
    /\ mSessionActive' = TRUE
    /\ lateAll' = [r \in Readers |-> 0]
    /\ Goto(c, "startThread")
    /\ UNCHANGED <<devVars, mThreadRunning, threadVars, callbackVars, mEnabled, rateVars,
                   readerVars, aborted, balance, late>>

\* `if (mSessionActive.exchange(true)) return ok;`
StartExchange(c) ==
    /\ "start" \in Calls
    /\ Available(c)
    /\ ~mSessionActive
    /\ mSessionActive' = TRUE
    /\ lateAll' = [r \in Readers |-> 0]
    /\ Goto(c, "startThread")
    /\ UNCHANGED <<devVars, mThreadRunning, threadVars, callbackVars, mEnabled, rateVars,
                   readerVars, aborted, balance, late>>

\* Mutant: the flag is set by the reader once it runs, not by the exchange.
StartThreadUnset(c) ==
    /\ AtLabel(c, "startThread")
    /\ Goto(c, IF mThreadRunning THEN "beginLock" ELSE "spawn")
    /\ UNCHANGED <<devVars, sessionVars, callbackVars, mEnabled, rateVars, readerVars, aborted,
                   history>>

\* `if (!mThreadRunning.exchange(true))`
StartThread(c) ==
    /\ AtLabel(c, "startThread")
    /\ mThreadRunning' = TRUE
    /\ Goto(c, IF mThreadRunning THEN "beginLock" ELSE "spawn")
    /\ UNCHANGED <<devVars, mSessionActive, threadVars, callbackVars, mEnabled, rateVars,
                   readerVars, aborted, history>>

\* `std::thread(...)`: a reader runs from here on, held by a temporary.
SpawnReader(c) ==
    /\ AtLabel(c, "spawn")
    /\ \E r \in Readers :
          /\ pc[r] = "exited" /\ mThread # r /\ \A d \in Clients : spawned[d] # r
          /\ spawned' = [spawned EXCEPT ![c] = r]
          /\ pc' = [pc EXCEPT ![c] = "assign", ![r] = "open"]
    /\ UNCHANGED <<devVars, mSessionActive, mThreadRunning, mThread, callbackVars, mEnabled,
                   rateVars, readerVars, aborted, history>>

\* `mThread = ...`: assigning to a joinable std::thread calls std::terminate.
AssignThread(c) ==
    /\ AtLabel(c, "assign")
    /\ \/ /\ mThread = NoThread
          /\ mThread' = spawned[c]
          /\ spawned' = [spawned EXCEPT ![c] = NoThread]
          /\ Goto(c, "beginLock")
          /\ UNCHANGED aborted
       \/ /\ mThread # NoThread
          /\ aborted' = TRUE
          /\ UNCHANGED <<pc, mThread, spawned>>
    /\ UNCHANGED <<devVars, mSessionActive, mThreadRunning, callbackVars, mEnabled, rateVars,
                   readerVars, history>>

\* reportStatus(SESSION_BEGIN)
BeginLock(c) ==
    /\ AtLabel(c, "beginLock")
    /\ LockAndCall(c)
    /\ balance' = balance + 1
    /\ Goto(c, "beginCall")
    /\ UNCHANGED <<devVars, sessionVars, mEnabled, rateVars, readerVars, aborted, late, lateAll>>

\* Mutant: the helper leaves without releasing the lock.
BeginReturnLocked(c) ==
    /\ AtLabel(c, "beginCall")
    /\ mCallbackMutex = c
    /\ calling' = NoCallback
    /\ Goto(c, "startRate")
    /\ UNCHANGED <<devVars, sessionVars, mCallback, mCallbackMutex, mEnabled, rateVars,
                   readerVars, aborted, history>>

BeginReturn(c) ==
    /\ AtLabel(c, "beginCall")
    /\ ReturnAndUnlock(c)
    /\ Goto(c, "startRate")
    /\ UNCHANGED <<devVars, sessionVars, mEnabled, rateVars, readerVars, aborted, history>>

\* `mDevice.setMeasurementRate(mFixIntervalMs);`
StartRate(c) ==
    /\ AtLabel(c, "startRate")
    /\ CallSetMeasurementRate(c, mFixIntervalMs)
    /\ Goto(c, "idle")
    /\ UNCHANGED <<mFd, fdTable, receiver, sessionVars, callbackVars, mEnabled, rateVars,
                   readerVars, aborted, history>>

-----------------------------------------------------------------------------
(* stop, and close, which begins with stop                                 *)

\* `if (!mSessionActive.exchange(false)) return ok;`, then the idle rate.
StopExchange(c, next) ==
    /\ mSessionActive
    /\ mSessionActive' = FALSE
    /\ CallSetMeasurementRate(c, kIdleRateMs)
    /\ Goto(c, next)
    /\ UNCHANGED <<mFd, fdTable, receiver, mThreadRunning, threadVars, callbackVars, mEnabled,
                   rateVars, readerVars, aborted, history>>

\* reportStatus(SESSION_END)
EndLock(c, label, next) ==
    /\ AtLabel(c, label)
    /\ LockAndCall(c)
    /\ balance' = balance - 1
    /\ Goto(c, next)
    /\ UNCHANGED <<devVars, sessionVars, mEnabled, rateVars, readerVars, aborted, late, lateAll>>

EndReturn(c, label, next) ==
    /\ AtLabel(c, label)
    /\ ReturnAndUnlock(c)
    /\ Goto(c, next)
    /\ UNCHANGED <<devVars, sessionVars, mEnabled, rateVars, readerVars, aborted, history>>

Stop(c)       == "stop" \in Calls /\ Available(c) /\ StopExchange(c, "stopLock")
StopLock(c)   == EndLock(c, "stopLock", "stopCall")
StopReturn(c) == EndReturn(c, "stopCall", "idle")

\* close() with a session to end, and without.
Close(c) ==
    /\ "close" \in Calls
    /\ Available(c)
    /\ \/ StopExchange(c, "closeEndLock")
       \/ /\ ~mSessionActive
          /\ Goto(c, "closeRun")
          /\ UNCHANGED <<devVars, sessionVars, callbackVars, mEnabled, rateVars, readerVars,
                         aborted, history>>

\* Mutant: close() keeps the lock until it is done.
CloseEndReturnLocked(c) ==
    /\ AtLabel(c, "closeEndCall")
    /\ calling' = NoCallback
    /\ Goto(c, "closeRun")
    /\ UNCHANGED <<devVars, sessionVars, mCallback, mCallbackMutex, mEnabled, rateVars,
                   readerVars, aborted, history>>

CloseEndLock(c)   == EndLock(c, "closeEndLock", "closeEndCall")
CloseEndReturn(c) == EndReturn(c, "closeEndCall", "closeRun")

\* `mThreadRunning = false; mDevice.close();`
CloseRun(c) ==
    /\ AtLabel(c, "closeRun")
    /\ mThreadRunning' = FALSE
    /\ CallClose(c)
    /\ Goto(c, "closeJoinable")
    /\ UNCHANGED <<mFd, fdTable, receiver, mSessionActive, threadVars, callbackVars, mEnabled,
                   rateVars, readerVars, aborted, history>>

\* Mutant: close() does not join the thread.
CloseDetached(c) ==
    /\ AtLabel(c, "closeJoinable")
    /\ Goto(c, "closeClear")
    /\ UNCHANGED <<devVars, sessionVars, callbackVars, mEnabled, rateVars, readerVars, aborted,
                   history>>

\* `if (mThread.joinable())`
CloseJoinable(c) ==
    /\ AtLabel(c, "closeJoinable")
    /\ Goto(c, IF mThread = NoThread THEN "closeClear" ELSE "closeJoin")
    /\ UNCHANGED <<devVars, sessionVars, callbackVars, mEnabled, rateVars, readerVars,
                   aborted, history>>

\* `mThread.join();` : joining a thread that another call has joined or is
\* joining fails, and the exception ends the process.
CloseJoin(c) ==
    /\ AtLabel(c, "closeJoin")
    /\ IF mThread = NoThread \/ \E d \in Clients : pc[d] = "closeWait"
       THEN aborted' = TRUE /\ UNCHANGED pc
       ELSE Goto(c, "closeWait") /\ UNCHANGED aborted
    /\ UNCHANGED <<devVars, sessionVars, callbackVars, mEnabled, rateVars, readerVars,
                   history>>

\* Mutant: the thread is given up without waiting for it.
CloseNoWait(c) ==
    /\ AtLabel(c, "closeWait")
    /\ mThread' = NoThread
    /\ Goto(c, "closeClear")
    /\ UNCHANGED <<devVars, mSessionActive, mThreadRunning, spawned, callbackVars, mEnabled,
                   rateVars, readerVars, aborted, history>>

\* join() returns once the thread's function has returned.
CloseWait(c) ==
    /\ AtLabel(c, "closeWait")
    /\ pc[mThread] = "exited"
    /\ mThread' = NoThread
    /\ Goto(c, "closeClear")
    /\ UNCHANGED <<devVars, mSessionActive, mThreadRunning, spawned, callbackVars, mEnabled,
                   rateVars, readerVars, aborted, history>>

\* `mCallback = nullptr;` under the lock
CloseClear(c) ==
    /\ AtLabel(c, "closeClear")
    /\ mCallbackMutex = NoThread
    /\ mCallback' = NoCallback
    /\ Goto(c, "closed")
    /\ UNCHANGED <<devVars, sessionVars, mCallbackMutex, calling, mEnabled, rateVars, readerVars,
                   aborted, history>>

-----------------------------------------------------------------------------
(* setPositionMode and the reporting toggles                               *)

\* `mFixIntervalMs = rate;`
SetPositionMode(c) ==
    /\ "setPositionMode" \in Calls
    /\ Available(c)
    /\ \E i \in Intervals :
          /\ mFixIntervalMs' = clampRateMs(i)
          /\ arg' = [arg EXCEPT ![c] = clampRateMs(i)]
    /\ Goto(c, "modeSession")
    /\ UNCHANGED <<devVars, sessionVars, callbackVars, mEnabled, readerVars, aborted, history>>

\* Mutant: the new interval is sent outside a session too.
ModeAlways(c) ==
    /\ AtLabel(c, "modeSession")
    /\ CallSetMeasurementRate(c, arg[c])
    /\ arg' = [arg EXCEPT ![c] = kIdleRateMs]
    /\ Goto(c, "idle")
    /\ UNCHANGED <<mFd, fdTable, receiver, sessionVars, callbackVars, mEnabled, mFixIntervalMs,
                   readerVars, aborted, history>>

\* `if (mSessionActive) mDevice.setMeasurementRate(rate);`
ModeSession(c) ==
    /\ AtLabel(c, "modeSession")
    /\ IF mSessionActive
       THEN CallSetMeasurementRate(c, arg[c]) /\ UNCHANGED <<mFd, fdTable, receiver>>
       ELSE UNCHANGED devVars
    /\ arg' = [arg EXCEPT ![c] = kIdleRateMs]
    /\ Goto(c, "idle")
    /\ UNCHANGED <<sessionVars, callbackVars, mEnabled, mFixIntervalMs, readerVars, aborted,
                   history>>

\* startNmea, stopNmea, startSvStatus, stopSvStatus
SetEnabled(c, k, on) ==
    /\ k \in Calls
    /\ Available(c)
    /\ mEnabled' = [mEnabled EXCEPT ![k] = on]
    /\ late' = [r \in Readers |-> [late[r] EXCEPT ![k] = 0]]
    /\ UNCHANGED <<devVars, pc, sessionVars, callbackVars, rateVars, readerVars, aborted,
                   balance, lateAll>>

-----------------------------------------------------------------------------
(* readerThreadLoop                                                        *)

ReaderOpen(r) ==
    /\ AtLabel(r, "open")
    /\ CallOpen(r)
    /\ Goto(r, "opened")
    /\ UNCHANGED <<mFd, fdTable, receiver, sessionVars, callbackVars, mEnabled, rateVars,
                   readerVars, aborted, history>>

ReaderOpened(r) ==
    /\ ~aborted /\ pc[r] = "opened" /\ dev[r].op = "ok"
    /\ Consume(r)
    /\ Goto(r, "rateSession")
    /\ UNCHANGED <<mFd, fdTable, receiver, sessionVars, callbackVars, mEnabled, rateVars,
                   readerVars, aborted, history>>

\* "reader thread exiting: serial device unavailable"
ReaderOpenFailed(r) ==
    /\ ~aborted /\ pc[r] = "opened" /\ dev[r].op = "fail"
    /\ mThreadRunning' = FALSE
    /\ Consume(r)
    /\ Goto(r, "exited")
    /\ UNCHANGED <<mFd, fdTable, receiver, mSessionActive, threadVars, callbackVars, mEnabled,
                   rateVars, readerVars, aborted, history>>

\* `setMeasurementRate(mSessionActive ? mFixIntervalMs.load() : kIdleRateMs)`
ReaderRateSession(r) ==
    /\ AtLabel(r, "rateSession")
    /\ IF mSessionActive
       THEN Goto(r, "rateFix") /\ UNCHANGED dev
       ELSE Goto(r, "loop") /\ CallSetMeasurementRate(r, kIdleRateMs)
    /\ UNCHANGED <<mFd, fdTable, receiver, sessionVars, callbackVars, mEnabled, rateVars,
                   readerVars, aborted, history>>

ReaderRateFix(r) ==
    /\ AtLabel(r, "rateFix")
    /\ CallSetMeasurementRate(r, mFixIntervalMs)
    /\ Goto(r, "loop")
    /\ UNCHANGED <<mFd, fdTable, receiver, sessionVars, callbackVars, mEnabled, rateVars,
                   readerVars, aborted, history>>

\* `while (mThreadRunning)`: read once more, or close the device and return.
ReaderLoop(r) ==
    /\ AtLabel(r, "loop")
    /\ IF mThreadRunning
       THEN CallRead(r) /\ Goto(r, "read")
       ELSE CallClose(r) /\ Goto(r, "closing")
    /\ UNCHANGED <<mFd, fdTable, receiver, sessionVars, callbackVars, mEnabled, rateVars,
                   readerVars, aborted, history>>

ReaderGotBytes(r) ==
    /\ ~aborted /\ pc[r] = "read" /\ dev[r].op = "bytes"
    /\ Consume(r)
    /\ Goto(r, "check")
    /\ UNCHANGED <<mFd, fdTable, receiver, sessionVars, callbackVars, mEnabled, rateVars,
                   readerVars, aborted, history>>

\* End of file or a read error: break, and close the device.
ReaderGotNothing(r) ==
    /\ ~aborted /\ pc[r] = "read" /\ dev[r].op \in {"eof", "err"}
    /\ CallClose(r)
    /\ Goto(r, "closing")
    /\ UNCHANGED <<mFd, fdTable, receiver, sessionVars, callbackVars, mEnabled, rateVars,
                   readerVars, aborted, history>>

ReaderClosed(r) ==
    /\ AtLabel(r, "closing")
    /\ Goto(r, "exited")
    /\ UNCHANGED <<devVars, sessionVars, callbackVars, mEnabled, rateVars, readerVars, aborted,
                   history>>

\* Mutant: what was read is parsed whether a session is active or not.
ReaderParsesAlways(r) ==
    /\ AtLabel(r, "check")
    /\ \E n \in 0 .. MaxReports : batch' = [batch EXCEPT ![r] = n]
    /\ Goto(r, "reports")
    /\ UNCHANGED <<devVars, sessionVars, callbackVars, mEnabled, rateVars, report, aborted,
                   history>>

\* Mutant: what was read is parsed if there is a callback to report to.
ReaderParsesForCallback(r) ==
    /\ AtLabel(r, "check")
    /\ IF mCallback # NoCallback
       THEN (\E n \in 0 .. MaxReports : batch' = [batch EXCEPT ![r] = n]) /\ Goto(r, "reports")
       ELSE Goto(r, "loop") /\ UNCHANGED batch
    /\ UNCHANGED <<devVars, sessionVars, callbackVars, mEnabled, rateVars, report, aborted,
                   history>>

\* `if (mSessionActive) mParser.addBytes(buf, n);` : the buffer is parsed if
\* the session is active now, whatever happens to the session meanwhile.
ReaderCheck(r) ==
    /\ AtLabel(r, "check")
    /\ IF mSessionActive
       THEN (\E n \in 0 .. MaxReports : batch' = [batch EXCEPT ![r] = n]) /\ Goto(r, "reports")
       ELSE Goto(r, "loop") /\ UNCHANGED batch
    /\ UNCHANGED <<devVars, sessionVars, callbackVars, mEnabled, rateVars, report, aborted,
                   history>>

\* Mutant: the toggle is not tested.
ReaderReportsAlways(r, k) ==
    /\ AtLabel(r, "reports")
    /\ batch[r] > 0
    /\ batch' = [batch EXCEPT ![r] = @ - 1]
    /\ report' = [report EXCEPT ![r] = k]
    /\ Goto(r, "reportLock")
    /\ UNCHANGED <<devVars, sessionVars, callbackVars, mEnabled, rateVars, aborted, history>>

\* reportNmea, reportSvStatus: `if (!enabled) return;` before the lock.
\* reportLocation has no toggle.
ReaderReport(r, k) ==
    /\ AtLabel(r, "reports")
    /\ batch[r] > 0
    /\ batch' = [batch EXCEPT ![r] = @ - 1]
    /\ IF k \in Toggles /\ ~mEnabled[k]
       THEN UNCHANGED <<pc, report>>
       ELSE report' = [report EXCEPT ![r] = k] /\ Goto(r, "reportLock")
    /\ UNCHANGED <<devVars, sessionVars, callbackVars, mEnabled, rateVars, aborted, history>>

\* `if (mCallback) mCallback->gnss...Cb(...)` under the lock.
ReaderReportLock(r) ==
    /\ AtLabel(r, "reportLock")
    /\ LockAndCall(r)
    /\ Goto(r, "reportCall")
    /\ late' = IF mCallback # NoCallback /\ report[r] \in Toggles /\ ~mEnabled[report[r]]
               THEN [late EXCEPT ![r][report[r]] = @ + 1] ELSE late
    /\ lateAll' = IF mCallback # NoCallback /\ ~mSessionActive
                  THEN [lateAll EXCEPT ![r] = @ + 1] ELSE lateAll
    /\ UNCHANGED <<devVars, sessionVars, mEnabled, rateVars, readerVars, aborted, balance>>

\* Mutant: the helper leaves without releasing the lock.
ReaderReportReturnLocked(r) ==
    /\ AtLabel(r, "reportCall")
    /\ mCallbackMutex = r
    /\ calling' = NoCallback
    /\ report' = [report EXCEPT ![r] = "none"]
    /\ Goto(r, "reports")
    /\ UNCHANGED <<devVars, sessionVars, mCallback, mCallbackMutex, mEnabled, rateVars, batch,
                   aborted, history>>

ReaderReportReturn(r) ==
    /\ AtLabel(r, "reportCall")
    /\ ReturnAndUnlock(r)
    /\ report' = [report EXCEPT ![r] = "none"]
    /\ Goto(r, "reports")
    /\ UNCHANGED <<devVars, sessionVars, mEnabled, rateVars, batch, aborted, history>>

ReaderBufferDone(r) ==
    /\ AtLabel(r, "reports")
    /\ batch[r] = 0
    /\ Goto(r, "loop")
    /\ UNCHANGED <<devVars, sessionVars, callbackVars, mEnabled, rateVars, readerVars, aborted,
                   history>>

-----------------------------------------------------------------------------
\* init starts an aborted service again (gnss-serial.rc: no oneshot).
Restart ==
    /\ aborted
    /\ DeviceProcessDies
    /\ pc' = [t \in Threads |-> IF t \in Readers THEN "exited" ELSE "idle"]
    /\ mSessionActive' = FALSE
    /\ mThreadRunning' = FALSE
    /\ mThread' = NoThread
    /\ spawned' = [c \in Clients |-> NoThread]
    /\ mCallback' = NoCallback
    /\ mCallbackMutex' = NoThread
    /\ calling' = NoCallback
    /\ mEnabled' = [k \in Toggles |-> TRUE]
    /\ mFixIntervalMs' \in {periodFromMaxRate(p) : p \in MaxRateProps}
    /\ arg' = [c \in Clients |-> kIdleRateMs]
    /\ report' = [r \in Readers |-> "none"]
    /\ batch' = [r \in Readers |-> 0]
    /\ aborted' = FALSE
    /\ balance' = 0
    /\ late' = [r \in Readers |-> [k \in Toggles |-> 0]]
    /\ lateAll' = [r \in Readers |-> 0]

-----------------------------------------------------------------------------
NewCall(c) ==
    \/ SetCallback(c) \/ StartExchange(c) \/ Stop(c) \/ Close(c) \/ SetPositionMode(c)
    \/ \E k \in Toggles, on \in BOOLEAN : SetEnabled(c, k, on)

CallStep(c) ==
    \/ StartThread(c) \/ SpawnReader(c) \/ AssignThread(c)
    \/ BeginLock(c) \/ BeginReturn(c) \/ StartRate(c)
    \/ StopLock(c) \/ StopReturn(c)
    \/ CloseEndLock(c) \/ CloseEndReturn(c) \/ CloseRun(c) \/ CloseJoinable(c)
    \/ CloseJoin(c) \/ CloseWait(c) \/ CloseClear(c)
    \/ ModeSession(c)

ReaderStep(r) ==
    \/ ReaderOpen(r) \/ ReaderOpened(r) \/ ReaderOpenFailed(r) \/ ReaderRateSession(r) \/ ReaderRateFix(r)
    \/ ReaderLoop(r) \/ ReaderGotBytes(r) \/ ReaderGotNothing(r) \/ ReaderClosed(r) \/ ReaderCheck(r)
    \/ (\E k \in Toggles \union {"fix"} : ReaderReport(r, k))
    \/ ReaderReportLock(r) \/ ReaderReportReturn(r) \/ ReaderBufferDone(r)

DeviceStep(t) == ~aborted /\ (MethodStep(t) \/ ReadOutcome(t)) /\ UNCHANGED gnssVars

Environment == ~aborted /\ DeviceEnvironment /\ UNCHANGED gnssVars

Next ==
    \/ \E c \in Clients : NewCall(c) \/ CallStep(c)
    \/ \E r \in Readers : ReaderStep(r)
    \/ \E t \in Threads : DeviceStep(t)
    \/ Environment
    \/ Restart

Spec == Init /\ [][Next]_vars

\* Every thread that can run does, the framework's callbacks return and writes
\* to the tty end, as both are steps of the thread that made them.  Nothing is
\* assumed of when the framework calls, of the cable, or of a read that waits
\* for the receiver.
ThreadFairness ==
    /\ \A c \in Clients : WF_vars(CallStep(c))
    /\ \A r \in Readers : WF_vars(ReaderStep(r))
    /\ \A t \in Threads : WF_vars(~aborted /\ MethodStep(t) /\ UNCHANGED gnssVars)

FairSpec == Spec /\ ThreadFairness

\* ... and a live receiver keeps sending sentences.
ReceiverSends == \A r \in Readers : WF_vars(~aborted /\ ReadBytes(r) /\ UNCHANGED gnssVars)

TalkingSpec == FairSpec /\ ReceiverSends

-----------------------------------------------------------------------------
(* Properties                                                              *)

ClientLabels == {"idle", "closed", "startThread", "spawn", "assign", "beginLock", "beginCall",
                 "startRate", "stopLock", "stopCall", "closeEndLock", "closeEndCall", "closeRun",
                 "closeJoinable", "closeJoin", "closeWait", "closeClear", "modeSession"}
ReaderLabels == {"exited", "open", "opened", "rateSession", "rateFix", "loop", "read", "check",
                 "reports", "reportLock", "reportCall", "closing"}

\* A fix interval the unsigned short holds, not below the receiver's shortest.
FixPeriod(ms) == ms \in Nat /\ 250 <= ms /\ ms < 65536

ControlTypeOK ==
    /\ pc \in [Threads -> ClientLabels \union ReaderLabels]
    /\ \A r \in Readers : pc[r] \in ReaderLabels
    /\ \A c \in Clients : pc[c] \in ClientLabels

SessionTypeOK ==
    /\ mSessionActive \in BOOLEAN
    /\ mThreadRunning \in BOOLEAN
    /\ mThread \in Readers \union {NoThread}
    /\ spawned \in [Clients -> Readers \union {NoThread}]

CallbackTypeOK ==
    /\ mCallback \in Callbacks \union {NoCallback}
    /\ mCallbackMutex \in Threads \union {NoThread}
    /\ calling \in Callbacks \union {NoCallback}

RateTypeOK ==
    /\ FixPeriod(mFixIntervalMs)
    /\ arg \in [Clients -> Nat]
    /\ \A c \in Clients : FixPeriod(arg[c])

ReportTypeOK ==
    /\ mEnabled \in [Toggles -> BOOLEAN]
    /\ report \in [Readers -> Toggles \union {"fix", "none"}]
    /\ batch \in [Readers -> 0 .. MaxReports]

HistoryTypeOK ==
    /\ aborted \in BOOLEAN
    /\ balance \in Int
    /\ late \in [Readers -> [Toggles -> Nat]]
    /\ lateAll \in [Readers -> Nat]

\* Type correctness.  The fix interval always fits what RateWrite sends.
TypeOK ==
    /\ DeviceTypeOK
    /\ ControlTypeOK
    /\ SessionTypeOK
    /\ CallbackTypeOK
    /\ RateTypeOK
    /\ ReportTypeOK
    /\ HistoryTypeOK

\* Binder thread c is inside an IGnss call.
InCall(c) == pc[c] \notin {"idle", "closed"} \/ ~DeviceIdle(c)

\* A framework that makes its next call, from whatever binder thread, only
\* when the last one has returned.
OneAtATime == \A c, d \in Clients : InCall(c) /\ InCall(d) => c = d

SerialSpec == Init /\ [][Next /\ OneAtATime']_vars

\* A framework that lets start(), stop(), setPositionMode(), setCallback() and
\* the toggles race, and only sees to it that close() runs alone.
CloseLabels == {"closeEndLock", "closeEndCall", "closeRun", "closeJoinable", "closeJoin",
                "closeWait", "closeClear"}

CloseAlone == \A c, d \in Clients : pc[c] \in CloseLabels /\ InCall(d) => c = d

CloseAloneSpec == Init /\ [][Next /\ CloseAlone']_vars

\* No binder thread is inside a call.
NoCallInProgress == ~aborted /\ \A c \in Clients : Available(c)

\* The callback object is never replaced or dropped while a call through it
\* is in flight: setCallback and close wait for the lock (Gnss.cpp:89, 136).
CallbackStable == calling # NoCallback => calling = mCallback

\* t cannot go on before u does: it waits for the lock u holds, or joins u.
LockLabels == {"beginLock", "stopLock", "closeEndLock", "closeClear", "reportLock"}

WaitsFor(t, u) ==
    \/ pc[t] \in LockLabels /\ u = mCallbackMutex
    \/ pc[t] = "closeWait" /\ u = mThread /\ pc[u] # "exited"

\* The service's threads never wait for each other in a circle: close() joins
\* the reader without the lock (Gnss.cpp:132), so that a wait ends at a thread
\* that waits for none, over at most one other, the reader that is joined.
NoWaitCycle ==
    \A t, u, v \in Threads :
       WaitsFor(t, u) /\ WaitsFor(u, v) =>
          pc[t] = "closeWait" /\ \A w \in Threads : ~WaitsFor(v, w)

\* After stopNmea() or stopSvStatus() returned, at most one more report of
\* that kind reaches the framework: the one whose toggle test came before.
AtMostOneLate == \A r \in Readers, k \in Toggles : late[r][k] <= 1

\* After the session has ended, what still reaches the framework is at most
\* what one buffer yields: no buffer is parsed that was read afterwards.
AtMostOneLateBuffer == \A r \in Readers : lateAll[r] <= MaxReports

\* However many threads race in start(), stop() and close(), once they are
\* done as many begins as ends were reported, plus one for the open session.
StatusBalance == NoCallInProgress => balance = IF mSessionActive THEN 1 ELSE 0

\* When close() has returned, and was the last call of every client,
\* everything is released: the reader gone, no descriptor held, no callback
\* kept.
ClosedMeansQuiet ==
    (\A c \in Clients : pc[c] = "closed") =>
        /\ ~mSessionActive /\ ~mThreadRunning
        /\ mThread = NoThread /\ \A r \in Readers : pc[r] = "exited"
        /\ mFd = -1 /\ \A f \in Fds : fdTable[f] \notin {"tty", "dead"}
        /\ mCallback = NoCallback /\ calling = NoCallback

\* However start() and stop() race, at most one reader thread is between its
\* spawn and the last thing it does to shared state: nobody else opens, reads
\* or parses meanwhile (Gnss.cpp:109, Gnss.h:115).
OneReader == \A r, s \in Readers : pc[r] # "exited" /\ pc[s] # "exited" => r = s

\* No descriptor of the receiver is lost, in particular not by an open() that
\* fails half-way (SerialDevice.cpp:150): it is the one in mFd, and as long as
\* mFd holds one, a reader is there to close it.
DescriptorKept ==
    /\ \A f \in Fds : fdTable[f] \in {"tty", "dead"} => f = mFd
    /\ mFd # -1 => \E r \in Readers : pc[r] # "exited"

\* The reader is past its set-up and in its read loop, on a live tty.
Serving ==
    /\ \E r \in Readers :
          /\ pc[r] \in {"loop", "read", "check", "reports", "reportLock", "reportCall"}
          /\ dev[r].op \notin {"rateCheck", "rateWrite"}
    /\ mFd \in Fds /\ fdTable[mFd] = "tty"

PeriodOfSession == IF mSessionActive THEN mFixIntervalMs ELSE kIdleRateMs

\* Between calls the receiver runs at the fix interval during a session and
\* at the idle rate otherwise (Gnss.cpp:37), whenever the last period it got
\* came from a binder thread: the reader's set-up may have overwritten it with
\* an older decision.
RateFollowsSessionOnceCalled ==
    NoCallInProgress /\ Serving /\ receiver.by \in Clients => receiver.ms = PeriodOfSession

\* The service stays up: no call ends the process (README.md:153).
ServiceStaysUp == ~aborted

\* A close() that began returns (Gnss.cpp:132, "unblock the reader's blocking
\* read()").
CloseReturns == \A c \in Clients : pc[c] = "closeRun" ~> pc[c] = "closed"

\* The reader ended by itself, and nobody noticed: mThreadRunning stays true
\* (Gnss.h:115 says "reader thread alive").
ReaderLost ==
    /\ mThreadRunning
    /\ \A r \in Readers : pc[r] \in {"closing", "exited"}
    /\ \A c \in Clients : pc[c] # "spawn"

\* An active session gets data parsed, again and again, until it ends; unless
\* its reader was lost.
SessionServed ==
    mSessionActive ~> ~mSessionActive \/ ReaderLost \/ \E r \in Readers : pc[r] = "reports"

\* A stop() that began returns, however busy the reader keeps the lock.
StopReturns == \A c \in Clients : pc[c] = "stopLock" ~> pc[c] = "idle"
=============================================================================
