-------------------------- MODULE GnssSerialProofs --------------------------
(***************************************************************************)
(* What holds of Gnss for a framework that keeps its calls apart, from any *)
(* number of binder threads.  When only close() runs alone and the other   *)
(* calls race: one reader runs at a time, it is joined before close()      *)
(* gives the callback up, and the descriptor has one owner.  When every    *)
(* call does: the receiver follows the session, and GnssContract is kept.  *)
(***************************************************************************)
EXTENDS GnssRefinement, GnssProofs

USE DEF Threads, Fds

-----------------------------------------------------------------------------
(* Where in SerialDevice a thread can be, given where it is in Gnss.       *)

RateOps  == {"rateCheck", "rateWrite"}
CloseOps == {"closeCheck", "closeFd", "closeStore"}
OpenOps  == {"openNode", "termios", "ok", "fail"}
ReadOps  == {"readEnter", "reading", "hungup", "bytes", "eof", "err"}

\* A thread at this label is inside the method of this operation, or has
\* returned from it.  A close() on the error path of open() tells so.
PlaceOf(t, label) ==
    LET op == dev[t].op
    IN  /\ op \in RateOps => label \in {"idle", "stopLock", "closeEndLock", "loop"}
        /\ op \in CloseOps =>
              \/ label \in {"closeJoinable", "closing"} /\ dev[t].ret = "idle"
              \/ label = "opened" /\ dev[t].ret = "fail"
        /\ op \in OpenOps => label = "opened"
        /\ op \in ReadOps <=> label = "read"
        /\ label = "opened" => op # "idle"

PlaceInv == \A t \in Threads : PlaceOf(t, pc[t])

-----------------------------------------------------------------------------
(* Who owns the reader thread, and what the flags say of it.               *)

Alive(r) == pc[r] # "exited"

ClosingLabels == {"closeRun", "closeJoinable", "closeJoin", "closeWait", "closeClear"}
JoiningLabels == {"closeJoinable", "closeJoin", "closeWait"}
StartLabels   == BeginLabels \union {"beginCall", "startRate"}

\* A client's part: what it knows of the flags and of the thread.
ClientOwnInv(c) ==
    /\ spawned[c] # NoThread <=> pc[c] = "assign"
    /\ pc[c] = "spawn" =>
          /\ mThreadRunning /\ \A r \in Readers : ~Alive(r)
          /\ \A d \in Clients : pc[d] = "spawn" => c = d
    /\ pc[c] \in CloseLabels => ~mSessionActive
    /\ pc[c] \in ClosingLabels \ {"closeRun"} => ~mThreadRunning
    /\ pc[c] \in {"closeJoin", "closeWait"} => mThread # NoThread
    /\ pc[c] = "closeClear" => mThread = NoThread /\ \A r \in Readers : ~Alive(r)

\* One reader runs at a time, and is in somebody's hands; the flag is down
\* only once the reader is gone, or while close() waits for it.
OwnInv ==
    /\ \A r \in Readers : Alive(r) => mThread = r \/ \E c \in Clients : spawned[c] = r
    /\ \A r, s \in Readers : Alive(r) /\ Alive(s) => r = s
    /\ \A c \in Clients : ClientOwnInv(c)
    /\ ~mThreadRunning =>
          \/ \A r \in Readers : ~Alive(r)
          \/ \E c \in Clients : pc[c] \in JoiningLabels

-----------------------------------------------------------------------------
(* Who holds the descriptor.                                               *)

Opening(r) == pc[r] = "open" \/ dev[r].op = "openNode"

ReadLoopLabels == {"loop", "read", "check", "reports", "reportLock", "reportCall"}

\* Between a successful ::open and the reader's own `mFd = -1`.
Holding(r) ==
    \/ pc[r] = "opened" /\ dev[r].op \in {"termios", "ok"} \union CloseOps
    \/ pc[r] \in {"rateSession", "rateFix"} \union ReadLoopLabels
    \/ pc[r] = "closing" /\ dev[r].op \in CloseOps

NoTty == \A f \in Fds : fdTable[f] \notin {"tty", "dead"}

\* A descriptor of the receiver is never lost: it is the one in mFd.  A
\* thread that is closing still has that value, or the device was closed.
DescriptorInv ==
    /\ mFd # -1 => \E r \in Readers : Holding(r)
    /\ \A f \in Fds : fdTable[f] \in {"tty", "dead"} => f = mFd
    /\ \A t \in Threads :
          /\ dev[t].op = "closeFd" => dev[t].fd = mFd \/ mFd = -1
          /\ dev[t].op = "closeStore" => NoTty
    /\ \A c \in Clients : dev[c].op \in {"closeFd", "closeStore"} =>
          \A r \in Readers : ~Opening(r)

-----------------------------------------------------------------------------
(* What the receiver was last told.                                        *)

\* A client is about to tell the receiver the period of the session.
RatePending(c) ==
    \/ dev[c].op \in RateOps
    \/ pc[c] \in StartLabels
    \/ pc[c] = "modeSession" /\ mSessionActive

\* The flag is what the call in progress has made it.
FlagInv ==
    \A c \in Clients :
       /\ pc[c] \in StartLabels => mSessionActive
       /\ pc[c] \in EndLabels => ~mSessionActive

\* A thread that is writing a period does so to the descriptor in mFd.
WriterInv ==
    /\ \A t \in Threads : dev[t].op = "rateWrite" => dev[t].fd = mFd \/ mFd = -1
    /\ \A c \in Clients : dev[c].op = "rateWrite" => \A r \in Readers : ~Opening(r)

RateInv ==
    /\ Serving /\ receiver.by \in Clients =>
          receiver.ms = PeriodOfSession \/ \E c \in Clients : RatePending(c)
    /\ \A c \in Clients :
          /\ dev[c].op \in RateOps => dev[c].ms = PeriodOfSession
          /\ pc[c] = "modeSession" => arg[c] = mFixIntervalMs

-----------------------------------------------------------------------------
(* What close() leaves, as long as nobody calls again.                     *)

Quiet ==
    /\ ~mSessionActive /\ ~mThreadRunning
    /\ mThread = NoThread /\ \A r \in Readers : ~Alive(r)
    /\ mFd = -1 /\ NoTty
    /\ mCallback = NoCallback /\ calling = NoCallback

QuietInv == (\A c \in Clients : pc[c] = "closed") => Quiet

-----------------------------------------------------------------------------
(* With a device that opens, nothing ends the process.                     *)

DeviceOpens == Faults \subseteq {"readError", "interrupt"}

UpInv ==
    /\ ~aborted
    /\ receiver.plugged
    /\ \A f \in Fds : fdTable[f] # "other"
    /\ \A r \in Readers : pc[r] = "opened" => dev[r].op \in {"openNode", "termios", "ok"}
    /\ mThread # NoThread => mThreadRunning \/ \E c \in Clients : pc[c] \in JoiningLabels
    /\ \A c \in Clients : pc[c] \in {"spawn", "assign"} =>
          /\ mThread = NoThread /\ mThreadRunning
          /\ \A d \in Clients : pc[d] \in {"spawn", "assign"} => c = d

-----------------------------------------------------------------------------
(* What ties the phases of the contract to the threads.                    *)

ReportLabels == {"reports", "reportLock", "reportCall"}

BatchInv == \A r \in Readers : pc[r] \notin ReportLabels => batch[r] = 0

\* A step inside a SerialDevice method is about one thread only.
LEMMA MethodFrame ==
    ASSUME DeviceTypeOK, NEW t \in Threads, MethodStep(t) \/ ReadOutcome(t)
    PROVE  dev' = [dev EXCEPT ![t] = dev'[t]]
BY DEF DeviceTypeOK, MethodStep, ReadOutcome, RateCheck, RateWrite, CloseCheck, CloseFd,
       CloseStore, OpenSucceeds, OpenUnresolved, OpenFails, TermiosApplied, TermiosRefused,
       ReadEnter, ReadHangup, ReadBytes, ReadError, ReadInterrupted

\* ... and leaves the thread in the same method, or at its end.
LEMMA MethodPlace ==
    ASSUME TypeOK, PlaceInv, NEW t \in Threads, MethodStep(t) \/ ReadOutcome(t), UNCHANGED pc
    PROVE  PlaceOf(t, pc[t])'
<1> USE DEF TypeOK, DeviceTypeOK, At, Step, DevIdle, PlaceInv, PlaceOf, RateOps, CloseOps,
            OpenOps, ReadOps
<1>1. CASE RateCheck(t)        BY <1>1 DEF RateCheck
<1>2. CASE RateWrite(t)        BY <1>2 DEF RateWrite
<1>3. CASE CloseCheck(t)       BY <1>3 DEF CloseCheck
<1>4. CASE CloseFd(t)          BY <1>4 DEF CloseFd
<1>5. CASE CloseStore(t)       BY <1>5 DEF CloseStore
<1>6. CASE OpenSucceeds(t)     BY <1>6 DEF OpenSucceeds
<1>7. CASE OpenUnresolved(t)   BY <1>7 DEF OpenUnresolved
<1>8. CASE OpenFails(t)        BY <1>8 DEF OpenFails
<1>9. CASE TermiosApplied(t)   BY <1>9 DEF TermiosApplied
<1>10. CASE TermiosRefused(t)  BY <1>10 DEF TermiosRefused
<1>11. CASE ReadEnter(t)       BY <1>11 DEF ReadEnter
<1>12. CASE ReadHangup(t)      BY <1>12 DEF ReadHangup
<1>13. CASE ReadBytes(t)       BY <1>13 DEF ReadBytes
<1>14. CASE ReadError(t)       BY <1>14 DEF ReadError
<1>15. CASE ReadInterrupted(t) BY <1>15 DEF ReadInterrupted
<1> QED
  BY <1>1, <1>2, <1>3, <1>4, <1>5, <1>6, <1>7, <1>8, <1>9, <1>10, <1>11, <1>12, <1>13,
     <1>14, <1>15 DEF MethodStep, ReadOutcome

LEMMA NewCallPlace ==
    ASSUME TypeOK, PlaceInv, NEW c \in Clients, NewCall(c) PROVE PlaceInv'
<1>0. /\ pc \in [Threads -> ClientLabels \union ReaderLabels]
      /\ dev \in [Threads -> [op: DevOps, fd: -1 .. MaxFd, ms: Nat, ret: {"idle", "fail"}]]
  BY DEF TypeOK, ControlTypeOK, DeviceTypeOK
<1> USE <1>0 DEF PlaceInv, PlaceOf, RateOps, CloseOps, OpenOps, ReadOps, Goto, At, Step,
                 DevIdle, DeviceIdle, Available, devVars, CallSetMeasurementRate
<1>1. CASE SetCallback(c)
  BY <1>1 DEF SetCallback
<1>2. CASE StartExchange(c)
  BY <1>2 DEF StartExchange
<1>3. CASE Stop(c)
  BY <1>3 DEF Stop, StopExchange
<1>4. CASE Close(c)
  BY <1>4 DEF Close, StopExchange
<1>5. CASE SetPositionMode(c)
  BY <1>5 DEF SetPositionMode
<1>6. ASSUME NEW k \in Toggles, NEW on \in BOOLEAN, SetEnabled(c, k, on) PROVE PlaceInv'
  BY <1>6 DEF SetEnabled
<1> QED BY <1>1, <1>2, <1>3, <1>4, <1>5, <1>6 DEF NewCall

LEMMA CallStepPlace ==
    ASSUME TypeOK, PlaceInv, NEW c \in Clients, CallStep(c) PROVE PlaceInv'
<1>0. /\ pc \in [Threads -> ClientLabels \union ReaderLabels]
      /\ dev \in [Threads -> [op: DevOps, fd: -1 .. MaxFd, ms: Nat, ret: {"idle", "fail"}]]
  BY DEF TypeOK, ControlTypeOK, DeviceTypeOK
<1> USE <1>0 DEF PlaceInv, PlaceOf, RateOps, CloseOps, OpenOps, ReadOps, Goto, At, Step,
                 DevIdle, DeviceIdle, AtLabel, devVars, CallSetMeasurementRate, CallClose
<1>1. CASE StartThread(c)
  BY <1>1 DEF StartThread
<1>2. CASE SpawnReader(c)
  BY <1>2 DEF SpawnReader
<1>3. CASE AssignThread(c)
  BY <1>3 DEF AssignThread
<1>4. CASE BeginLock(c)
  BY <1>4 DEF BeginLock
<1>5. CASE BeginReturn(c)
  BY <1>5 DEF BeginReturn
<1>6. CASE StartRate(c)
  BY <1>6 DEF StartRate
<1>7. CASE StopLock(c)
  BY <1>7 DEF StopLock, EndLock
<1>8. CASE StopReturn(c)
  BY <1>8 DEF StopReturn, EndReturn
<1>9. CASE CloseEndLock(c)
  BY <1>9 DEF CloseEndLock, EndLock
<1>10. CASE CloseEndReturn(c)
  BY <1>10 DEF CloseEndReturn, EndReturn
<1>11. CASE CloseRun(c)
  BY <1>11 DEF CloseRun
<1>12. CASE CloseJoinable(c)
  BY <1>12 DEF CloseJoinable
<1>13. CASE CloseJoin(c)
  BY <1>13 DEF CloseJoin
<1>14. CASE CloseWait(c)
  BY <1>14 DEF CloseWait
<1>15. CASE CloseClear(c)
  BY <1>15 DEF CloseClear
<1>16. CASE ModeSession(c)
  BY <1>16 DEF ModeSession
<1> QED BY <1>1, <1>2, <1>3, <1>4, <1>5, <1>6, <1>7, <1>8, <1>9, <1>10, <1>11, <1>12, <1>13,
    <1>14, <1>15, <1>16 DEF CallStep

LEMMA ReaderStepPlace ==
    ASSUME TypeOK, PlaceInv, NEW r \in Readers, ReaderStep(r) PROVE PlaceInv'
<1>0. /\ pc \in [Threads -> ClientLabels \union ReaderLabels]
      /\ dev \in [Threads -> [op: DevOps, fd: -1 .. MaxFd, ms: Nat, ret: {"idle", "fail"}]]
  BY DEF TypeOK, ControlTypeOK, DeviceTypeOK
<1> USE <1>0 DEF PlaceInv, PlaceOf, RateOps, CloseOps, OpenOps, ReadOps, Goto, At, Step,
                 DevIdle, DeviceIdle, AtLabel, devVars, CallSetMeasurementRate, CallClose,
                 CallOpen, CallRead, Consume
<1>1. CASE ReaderOpen(r)
  BY <1>1 DEF ReaderOpen
<1>2. CASE ReaderOpened(r)
  BY <1>2 DEF ReaderOpened
<1>3. CASE ReaderOpenFailed(r)
  BY <1>3 DEF ReaderOpenFailed
<1>4. CASE ReaderRateSession(r)
  BY <1>4 DEF ReaderRateSession
<1>5. CASE ReaderRateFix(r)
  BY <1>5 DEF ReaderRateFix
<1>6. CASE ReaderLoop(r)
  BY <1>6 DEF ReaderLoop
<1>7. CASE ReaderGotBytes(r)
  BY <1>7 DEF ReaderGotBytes
<1>8. CASE ReaderGotNothing(r)
  BY <1>8 DEF ReaderGotNothing
<1>9. CASE ReaderClosed(r)
  BY <1>9 DEF ReaderClosed
<1>10. CASE ReaderCheck(r)
  BY <1>10 DEF ReaderCheck
<1>11. CASE ReaderReportLock(r)
  BY <1>11 DEF ReaderReportLock
<1>12. CASE ReaderReportReturn(r)
  BY <1>12 DEF ReaderReportReturn
<1>13. CASE ReaderBufferDone(r)
  BY <1>13 DEF ReaderBufferDone
<1>14. ASSUME NEW k \in Toggles \union {"fix"}, ReaderReport(r, k) PROVE PlaceInv'
  BY <1>14 DEF ReaderReport
<1> QED BY <1>1, <1>2, <1>3, <1>4, <1>5, <1>6, <1>7, <1>8, <1>9, <1>10, <1>11, <1>12, <1>13,
    <1>14 DEF ReaderStep

\* While one client is in a call the others rest.
LEMMA OthersRest ==
    ASSUME OneAtATime, NEW c \in Clients, InCall(c)
    PROVE  \A d \in Clients : d # c => pc[d] \in {"idle", "closed"} /\ dev[d].op = "idle"
BY DEF OneAtATime, InCall, DeviceIdle

\* ... and in particular while it closes, if only close() runs alone.
LEMMA OthersRestInClose ==
    ASSUME CloseAlone, NEW c \in Clients, NEW d \in Clients, pc[c] \in CloseLabels, d # c
    PROVE  pc[d] \in {"idle", "closed"} /\ dev[d].op = "idle"
BY DEF CloseAlone, InCall, DeviceIdle

\* A client inside SerialDevice's close() got there in its own close().
LEMMA PlaceAtClose ==
    ASSUME TypeOK, PlaceInv, NEW c \in Clients, dev[c].op \in CloseOps
    PROVE  pc[c] \in CloseLabels
<1>1. pc[c] \in ClientLabels /\ PlaceOf(c, pc[c])
  BY DEF TypeOK, ControlTypeOK, PlaceInv
<1> QED BY <1>1 DEF PlaceOf, ClientLabels, CloseLabels

\* While one client is in a call no other closes.
LEMMA NobodyElseCloses ==
    ASSUME TypeOK, PlaceInv, CloseAlone, NEW c \in Clients, NEW d \in Clients, InCall(c),
           d # c
    PROVE  pc[d] \notin CloseLabels /\ dev[d].op \notin CloseOps
<1>1. pc[d] \notin CloseLabels
  BY DEF CloseAlone
<1> QED BY <1>1, PlaceAtClose

LEMMA NewCallOwn ==
    ASSUME TypeOK, OwnInv, CloseAlone', NEW c \in Clients, NewCall(c) PROVE OwnInv'
<1>0. /\ pc \in [Threads -> ClientLabels \union ReaderLabels]
      /\ spawned \in [Clients -> Readers \union {NoThread}]
      /\ mThread \in Readers \union {NoThread}
      /\ Readers \intersect Clients = {} /\ NoThread \notin Readers
      /\ InCall(c)' => \A d \in Clients : d # c => pc'[d] \notin CloseLabels
  BY DeviceAssumption, GnssAssumption
     DEF TypeOK, ControlTypeOK, SessionTypeOK, CloseAlone, InCall
<1> USE <1>0 DEF OwnInv, ClientOwnInv, Alive, ClosingLabels, JoiningLabels, CloseLabels,
                 Goto, InCall, Available, sessionVars, threadVars
<1>1. CASE SetCallback(c)
  BY <1>1 DEF SetCallback
<1>2. CASE StartExchange(c)
  BY <1>2 DEF StartExchange
<1>3. CASE Stop(c)
  BY <1>3 DEF Stop, StopExchange
<1>4. CASE Close(c)
  BY <1>4 DEF Close, StopExchange
<1>5. CASE SetPositionMode(c)
  BY <1>5 DEF SetPositionMode
<1>6. ASSUME NEW k \in Toggles, NEW on \in BOOLEAN, SetEnabled(c, k, on) PROVE OwnInv'
  BY <1>6 DEF SetEnabled
<1> QED BY <1>1, <1>2, <1>3, <1>4, <1>5, <1>6 DEF NewCall

LEMMA CallStepOwn ==
    ASSUME TypeOK, PlaceInv, OwnInv, CloseAlone, NEW c \in Clients, CallStep(c)
    PROVE  OwnInv'
<1>0. /\ pc \in [Threads -> ClientLabels \union ReaderLabels]
      /\ spawned \in [Clients -> Readers \union {NoThread}]
      /\ mThread \in Readers \union {NoThread}
      /\ Readers \intersect Clients = {} /\ NoThread \notin Readers
      /\ pc[c] \in CloseLabels => \A d \in Clients : d # c => pc[d] \in {"idle", "closed"}
      /\ pc[c] \notin {"idle", "closed"} =>
            \A d \in Clients : d # c => pc[d] \notin CloseLabels
  BY DeviceAssumption, GnssAssumption, OthersRestInClose, NobodyElseCloses
     DEF TypeOK, ControlTypeOK, SessionTypeOK, InCall
<1> USE <1>0 DEF OwnInv, ClientOwnInv, Alive, ClosingLabels, JoiningLabels, CloseLabels,
                 Goto, AtLabel, sessionVars, threadVars
<1>1. CASE StartThread(c)
  BY <1>1 DEF StartThread
<1>2. CASE SpawnReader(c)
  <2>1. PICK r \in Readers : /\ pc[r] = "exited"
                             /\ spawned' = [spawned EXCEPT ![c] = r]
                             /\ pc' = [pc EXCEPT ![c] = "assign", ![r] = "open"]
    BY <1>2 DEF SpawnReader
  <2>2. pc[c] = "spawn" /\ UNCHANGED <<mSessionActive, mThreadRunning, mThread>>
    BY <1>2 DEF SpawnReader
  <2>3. /\ \A d \in Clients : pc'[d] = IF d = c THEN "assign" ELSE pc[d]
        /\ \A s \in Readers : pc'[s] = IF s = r THEN "open" ELSE pc[s]
        /\ \A d \in Clients : spawned'[d] = IF d = c THEN r ELSE spawned[d]
    BY <2>1
  <2>4. \A d \in Clients : ClientOwnInv(d)'
    BY <2>2, <2>3
  <2> QED BY <2>2, <2>3, <2>4
<1>3. CASE AssignThread(c)
  BY <1>3 DEF AssignThread
<1>4. CASE BeginLock(c)
  BY <1>4 DEF BeginLock
<1>5. CASE BeginReturn(c)
  BY <1>5 DEF BeginReturn
<1>6. CASE StartRate(c)
  BY <1>6 DEF StartRate
<1>7. CASE StopLock(c)
  BY <1>7 DEF StopLock, EndLock
<1>8. CASE StopReturn(c)
  BY <1>8 DEF StopReturn, EndReturn
<1>9. CASE CloseEndLock(c)
  BY <1>9 DEF CloseEndLock, EndLock
<1>10. CASE CloseEndReturn(c)
  BY <1>10 DEF CloseEndReturn, EndReturn
<1>11. CASE CloseRun(c)
  BY <1>11 DEF CloseRun
<1>12. CASE CloseJoinable(c)
  BY <1>12 DEF CloseJoinable
<1>13. CASE CloseJoin(c)
  BY <1>13 DEF CloseJoin
<1>14. CASE CloseWait(c)
  BY <1>14 DEF CloseWait
<1>15. CASE CloseClear(c)
  BY <1>15 DEF CloseClear
<1>16. CASE ModeSession(c)
  BY <1>16 DEF ModeSession
<1> QED BY <1>1, <1>2, <1>3, <1>4, <1>5, <1>6, <1>7, <1>8, <1>9, <1>10, <1>11, <1>12, <1>13,
    <1>14, <1>15, <1>16 DEF CallStep

LEMMA ReaderStepOwn ==
    ASSUME TypeOK, OwnInv, CloseAlone, NEW r \in Readers, ReaderStep(r) PROVE OwnInv'
<1>0. /\ pc \in [Threads -> ClientLabels \union ReaderLabels]
      /\ spawned \in [Clients -> Readers \union {NoThread}]
      /\ mThread \in Readers \union {NoThread}
      /\ Readers \intersect Clients = {} /\ NoThread \notin Readers
  BY DeviceAssumption, GnssAssumption DEF TypeOK, ControlTypeOK, SessionTypeOK
<1> USE <1>0 DEF OwnInv, ClientOwnInv, Alive, ClosingLabels, JoiningLabels, CloseLabels,
                 Goto, AtLabel, sessionVars, threadVars
<1>1. CASE ReaderOpen(r)
  BY <1>1 DEF ReaderOpen
<1>2. CASE ReaderOpened(r)
  BY <1>2 DEF ReaderOpened
<1>3. CASE ReaderOpenFailed(r)
  BY <1>3 DEF ReaderOpenFailed
<1>4. CASE ReaderRateSession(r)
  BY <1>4 DEF ReaderRateSession
<1>5. CASE ReaderRateFix(r)
  BY <1>5 DEF ReaderRateFix
<1>6. CASE ReaderLoop(r)
  BY <1>6 DEF ReaderLoop
<1>7. CASE ReaderGotBytes(r)
  BY <1>7 DEF ReaderGotBytes
<1>8. CASE ReaderGotNothing(r)
  BY <1>8 DEF ReaderGotNothing
<1>9. CASE ReaderClosed(r)
  BY <1>9 DEF ReaderClosed
<1>10. CASE ReaderCheck(r)
  BY <1>10 DEF ReaderCheck
<1>11. CASE ReaderReportLock(r)
  BY <1>11 DEF ReaderReportLock
<1>12. CASE ReaderReportReturn(r)
  BY <1>12 DEF ReaderReportReturn
<1>13. CASE ReaderBufferDone(r)
  BY <1>13 DEF ReaderBufferDone
<1>14. ASSUME NEW k \in Toggles \union {"fix"}, ReaderReport(r, k) PROVE OwnInv'
  BY <1>14 DEF ReaderReport
<1> QED BY <1>1, <1>2, <1>3, <1>4, <1>5, <1>6, <1>7, <1>8, <1>9, <1>10, <1>11, <1>12, <1>13,
    <1>14 DEF ReaderStep

LEMMA NewCallDescriptor ==
    ASSUME TypeOK, DescriptorInv, NEW c \in Clients, NewCall(c) PROVE DescriptorInv'
<1>0. /\ pc \in [Threads -> ClientLabels \union ReaderLabels]
      /\ dev \in [Threads -> [op: DevOps, fd: -1 .. MaxFd, ms: Nat, ret: {"idle", "fail"}]]
      /\ Readers \intersect Clients = {}
  BY DeviceAssumption DEF TypeOK, ControlTypeOK, DeviceTypeOK
<1> USE <1>0 DEF DescriptorInv, Holding, Opening, NoTty, Goto, devVars, CallSetMeasurementRate,
                 At
<1>1. CASE SetCallback(c)
  BY <1>1 DEF SetCallback
<1>2. CASE StartExchange(c)
  BY <1>2 DEF StartExchange
<1>3. CASE Stop(c)
  BY <1>3 DEF Stop, StopExchange
<1>4. CASE Close(c)
  BY <1>4 DEF Close, StopExchange
<1>5. CASE SetPositionMode(c)
  BY <1>5 DEF SetPositionMode
<1>6. ASSUME NEW k \in Toggles, NEW on \in BOOLEAN, SetEnabled(c, k, on) PROVE DescriptorInv'
  BY <1>6 DEF SetEnabled
<1> QED BY <1>1, <1>2, <1>3, <1>4, <1>5, <1>6 DEF NewCall

LEMMA CallStepDescriptor ==
    ASSUME TypeOK, PlaceInv, OwnInv, DescriptorInv, CloseAlone, NEW c \in Clients, CallStep(c)
    PROVE  DescriptorInv'
<1>0. /\ pc \in [Threads -> ClientLabels \union ReaderLabels]
      /\ dev \in [Threads -> [op: DevOps, fd: -1 .. MaxFd, ms: Nat, ret: {"idle", "fail"}]]
      /\ Readers \intersect Clients = {}
      /\ pc[c] \notin {"idle", "closed"} => \A d \in Clients : d # c => dev[d].op \notin CloseOps
  BY DeviceAssumption, NobodyElseCloses DEF TypeOK, ControlTypeOK, DeviceTypeOK, InCall
<1> USE <1>0 DEF DescriptorInv, Holding, Opening, NoTty, Goto, AtLabel, DeviceIdle, devVars,
                 CallSetMeasurementRate, CallClose, At, Step
<1>1. CASE StartThread(c)
  BY <1>1 DEF StartThread
<1>2. CASE SpawnReader(c)
  <2>1. PICK r \in Readers :
          pc[r] = "exited" /\ pc' = [pc EXCEPT ![c] = "assign", ![r] = "open"]
    BY <1>2 DEF SpawnReader
  <2>2. dev[c].op = "idle" /\ UNCHANGED <<mFd, fdTable, dev>>
    BY <1>2 DEF SpawnReader
  <2>3. \A s \in Readers : pc'[s] = IF s = r THEN "open" ELSE pc[s]
    BY <2>1
  <2>4. \A s \in Readers : Holding(s) => Holding(s)'
    BY <2>1, <2>2, <2>3 DEF ReadLoopLabels
  <2>5. \A d \in Clients : dev[d].op \notin {"closeFd", "closeStore"}
    BY <1>2, <2>2 DEF SpawnReader, CloseOps
  <2> QED BY <2>2, <2>4, <2>5
<1>3. CASE AssignThread(c)
  BY <1>3 DEF AssignThread
<1>4. CASE BeginLock(c)
  BY <1>4 DEF BeginLock
<1>5. CASE BeginReturn(c)
  BY <1>5 DEF BeginReturn
<1>6. CASE StartRate(c)
  BY <1>6 DEF StartRate
<1>7. CASE StopLock(c)
  BY <1>7 DEF StopLock, EndLock
<1>8. CASE StopReturn(c)
  BY <1>8 DEF StopReturn, EndReturn
<1>9. CASE CloseEndLock(c)
  BY <1>9 DEF CloseEndLock, EndLock
<1>10. CASE CloseEndReturn(c)
  BY <1>10 DEF CloseEndReturn, EndReturn
<1>11. CASE CloseRun(c)
  BY <1>11 DEF CloseRun
<1>12. CASE CloseJoinable(c)
  BY <1>12 DEF CloseJoinable
<1>13. CASE CloseJoin(c)
  BY <1>13 DEF CloseJoin
<1>14. CASE CloseWait(c)
  BY <1>14 DEF CloseWait
<1>15. CASE CloseClear(c)
  BY <1>15 DEF CloseClear
<1>16. CASE ModeSession(c)
  BY <1>16 DEF ModeSession
<1> QED BY <1>1, <1>2, <1>3, <1>4, <1>5, <1>6, <1>7, <1>8, <1>9, <1>10, <1>11, <1>12, <1>13,
    <1>14, <1>15, <1>16 DEF CallStep

LEMMA ReaderStepDescriptor ==
    ASSUME TypeOK, PlaceInv, DescriptorInv, NEW r \in Readers, ReaderStep(r)
    PROVE  DescriptorInv'
<1>0. /\ pc \in [Threads -> ClientLabels \union ReaderLabels]
      /\ dev \in [Threads -> [op: DevOps, fd: -1 .. MaxFd, ms: Nat, ret: {"idle", "fail"}]]
      /\ Readers \intersect Clients = {}
      /\ PlaceOf(r, pc[r])
  BY DeviceAssumption DEF TypeOK, ControlTypeOK, DeviceTypeOK, PlaceInv
<1> USE <1>0 DEF DescriptorInv, Holding, Opening, NoTty, Goto, AtLabel, DeviceIdle, devVars,
                 CallSetMeasurementRate, CallClose, CallOpen, CallRead, Consume, At, Step,
                 DevIdle, PlaceOf, RateOps, CloseOps, OpenOps, ReadOps, ReadLoopLabels
<1>1. CASE ReaderOpen(r)
  BY <1>1 DEF ReaderOpen
<1>2. CASE ReaderOpened(r)
  BY <1>2 DEF ReaderOpened
<1>3. CASE ReaderOpenFailed(r)
  BY <1>3 DEF ReaderOpenFailed
<1>4. CASE ReaderRateSession(r)
  BY <1>4 DEF ReaderRateSession
<1>5. CASE ReaderRateFix(r)
  BY <1>5 DEF ReaderRateFix
<1>6. CASE ReaderLoop(r)
  BY <1>6 DEF ReaderLoop
<1>7. CASE ReaderGotBytes(r)
  BY <1>7 DEF ReaderGotBytes
<1>8. CASE ReaderGotNothing(r)
  BY <1>8 DEF ReaderGotNothing
<1>9. CASE ReaderClosed(r)
  BY <1>9 DEF ReaderClosed
<1>10. CASE ReaderCheck(r)
  BY <1>10 DEF ReaderCheck
<1>11. CASE ReaderReportLock(r)
  BY <1>11 DEF ReaderReportLock
<1>12. CASE ReaderReportReturn(r)
  BY <1>12 DEF ReaderReportReturn
<1>13. CASE ReaderBufferDone(r)
  BY <1>13 DEF ReaderBufferDone
<1>14. ASSUME NEW k \in Toggles \union {"fix"}, ReaderReport(r, k) PROVE DescriptorInv'
  BY <1>14 DEF ReaderReport
<1> QED BY <1>1, <1>2, <1>3, <1>4, <1>5, <1>6, <1>7, <1>8, <1>9, <1>10, <1>11, <1>12, <1>13,
    <1>14 DEF ReaderStep

\* Nobody else closes the descriptor while it is opened, and mFd is -1 then.
LEMMA OpeningAlone ==
    ASSUME TypeOK, PlaceInv, OwnInv, DescriptorInv, NEW r \in Readers, Opening(r)
    PROVE  /\ mFd = -1
           /\ \A t \in Threads : dev[t].op \notin {"closeFd", "closeStore"}
           /\ \A s \in Readers : s # r => ~Alive(s)
<1>1. Alive(r) /\ ~Holding(r)
  BY DEF Opening, Alive, Holding, PlaceInv, PlaceOf, OpenOps, CloseOps, ReadLoopLabels
<1>2. \A s \in Readers : s # r => ~Alive(s)
  BY <1>1 DEF OwnInv
<1>3. \A s \in Readers : Holding(s) => Alive(s)
  BY DEF Holding, Alive, ReadLoopLabels
<1>4. mFd = -1
  BY <1>1, <1>2, <1>3 DEF DescriptorInv
<1>5. \A s \in Readers : dev[s].op \notin {"closeFd", "closeStore"}
  BY <1>1, <1>2 DEF Opening, Alive, Holding, PlaceInv, PlaceOf, OpenOps, CloseOps,
     ReadLoopLabels
<1> QED BY <1>2, <1>4, <1>5 DEF DescriptorInv

LEMMA MethodDescriptor ==
    ASSUME TypeOK, PlaceInv, OwnInv, DescriptorInv,
           NEW t \in Threads, MethodStep(t) \/ ReadOutcome(t), UNCHANGED gnssVars
    PROVE  DescriptorInv'
<1>0. /\ pc \in [Threads -> ClientLabels \union ReaderLabels]
      /\ mFd \in -1 .. MaxFd
      /\ dev \in [Threads -> [op: DevOps, fd: -1 .. MaxFd, ms: Nat, ret: {"idle", "fail"}]]
      /\ Readers \intersect Clients = {}
      /\ UNCHANGED pc
      /\ PlaceOf(t, pc[t])
      /\ mFd # -1 => \A r \in Readers : ~Opening(r)
  BY DeviceAssumption, OpeningAlone DEF TypeOK, ControlTypeOK, DeviceTypeOK, PlaceInv, gnssVars
<1> USE <1>0 DEF DescriptorInv, Holding, Opening, NoTty, At, Step, DevIdle,
                 PlaceOf, RateOps, CloseOps, OpenOps, ReadOps, ReadLoopLabels
<1>1. CASE RateCheck(t)
  BY <1>1 DEF RateCheck
<1>2. CASE RateWrite(t)
  BY <1>2 DEF RateWrite
<1>3. CASE CloseCheck(t)
  BY <1>3 DEF CloseCheck
<1>4. CASE CloseFd(t)
  BY <1>4 DEF CloseFd
<1>5. CASE CloseStore(t)
  BY <1>5 DEF CloseStore
<1>6. CASE OpenSucceeds(t)
  <2>1. t \in Readers /\ Opening(t)
    BY <1>6 DEF OpenSucceeds, TypeOK, ControlTypeOK, ClientLabels
  <2>2. PICK fd \in Fds : fdTable' = [fdTable EXCEPT ![fd] = "tty"] /\ mFd' = fd
    BY <1>6 DEF OpenSucceeds
  <2>3. /\ mFd = -1
        /\ \A s \in Threads : dev[s].op \notin {"closeFd", "closeStore"}
    BY <2>1, OpeningAlone
  <2>4. dev' = [dev EXCEPT ![t] = Step("termios")] /\ pc[t] = "opened"
    BY <1>6 DEF OpenSucceeds
  <2>5. Holding(t)'
    BY <2>4
  <2>6. \A f \in Fds : fdTable'[f] \in {"tty", "dead"} => f = mFd'
    BY <2>2, <2>3 DEF TypeOK, DeviceTypeOK
  <2>7. \A s \in Threads : dev'[s].op \notin {"closeFd", "closeStore"}
    BY <2>3, <2>4
  <2> QED BY <2>1, <2>5, <2>6, <2>7
<1>7. CASE OpenUnresolved(t)
  BY <1>7 DEF OpenUnresolved
<1>8. CASE OpenFails(t)
  <2>1. t \in Readers /\ Opening(t)
    BY <1>8 DEF OpenFails, TypeOK, ControlTypeOK, ClientLabels
  <2>2. /\ mFd = -1
        /\ \A s \in Threads : dev[s].op \notin {"closeFd", "closeStore"}
    BY <2>1, OpeningAlone
  <2>3. dev' = [dev EXCEPT ![t] = Step("fail")] /\ UNCHANGED fdTable /\ mFd' = -1
    BY <1>8 DEF OpenFails
  <2>4. \A s \in Threads : dev'[s].op \notin {"closeFd", "closeStore"}
    BY <2>2, <2>3
  <2> QED BY <2>2, <2>3, <2>4
<1>9. CASE TermiosApplied(t)
  BY <1>9 DEF TermiosApplied
<1>10. CASE TermiosRefused(t)
  BY <1>10 DEF TermiosRefused
<1>11. CASE ReadEnter(t)
  BY <1>11 DEF ReadEnter
<1>12. CASE ReadHangup(t)
  BY <1>12 DEF ReadHangup
<1>13. CASE ReadBytes(t)
  BY <1>13 DEF ReadBytes
<1>14. CASE ReadError(t)
  BY <1>14 DEF ReadError
<1>15. CASE ReadInterrupted(t)
  BY <1>15 DEF ReadInterrupted
<1> QED BY <1>1, <1>2, <1>3, <1>4, <1>5, <1>6, <1>7, <1>8, <1>9, <1>10, <1>11, <1>12, <1>13,
    <1>14, <1>15 DEF MethodStep, ReadOutcome

LEMMA EnvironmentDescriptor ==
    ASSUME TypeOK, DescriptorInv, DeviceEnvironment, UNCHANGED gnssVars PROVE DescriptorInv'
<1>0. /\ fdTable \in [Fds -> FdKinds] /\ UNCHANGED pc
  BY DEF TypeOK, DeviceTypeOK, gnssVars
<1> USE <1>0 DEF DescriptorInv, Holding, Opening, NoTty, Step, At, CloseOps, ReadLoopLabels
<1>1. CASE Unplug     BY <1>1 DEF Unplug
<1>2. CASE Plug       BY <1>2 DEF Plug
<1>3. CASE OtherOpen  BY <1>3 DEF OtherOpen
<1>4. CASE OtherClose BY <1>4 DEF OtherClose
<1> QED BY <1>1, <1>2, <1>3, <1>4 DEF DeviceEnvironment

\* Steps of a reader are steps of a running reader, and move no client.
LEMMA ReaderStepAlive ==
    ASSUME TypeOK, NEW r \in Readers, ReaderStep(r)
    PROVE  Alive(r) /\ \A c \in Clients : pc'[c] = pc[c]
<1>0. \A c \in Clients : c # r
  BY DeviceAssumption
<1>1. UNCHANGED pc \/ \E l : Goto(r, l)
  BY DEF ReaderStep, ReaderOpen, ReaderOpened, ReaderOpenFailed, ReaderRateSession,
         ReaderRateFix, ReaderLoop, ReaderGotBytes, ReaderGotNothing, ReaderClosed, ReaderCheck,
         ReaderReport, ReaderReportLock, ReaderReportReturn, ReaderBufferDone
<1>2. Alive(r)
  BY DEF Alive, AtLabel, ReaderStep, ReaderOpen, ReaderOpened, ReaderOpenFailed,
         ReaderRateSession, ReaderRateFix, ReaderLoop, ReaderGotBytes, ReaderGotNothing,
         ReaderClosed, ReaderCheck, ReaderReport, ReaderReportLock, ReaderReportReturn,
         ReaderBufferDone
<1> QED BY <1>0, <1>1, <1>2 DEF Goto, TypeOK, ControlTypeOK

\* The one step that completes a close().
LEMMA CloseClearQuiet ==
    ASSUME TypeOK, OwnInv, DescriptorInv, CallInv, NEW c \in Clients, CloseClear(c)
    PROVE  Quiet'
<1>0. UNCHANGED <<mSessionActive, mThreadRunning, mThread, mFd, fdTable, calling>>
  BY DEF CloseClear, devVars, sessionVars, threadVars
<1>1. pc[c] = "closeClear" /\ mCallbackMutex = NoThread /\ mCallback' = NoCallback
  BY DEF CloseClear, AtLabel
<1>2. /\ ~mSessionActive /\ ~mThreadRunning /\ mThread = NoThread
      /\ \A r \in Readers : ~Alive(r)
  BY <1>1 DEF OwnInv, ClientOwnInv, ClosingLabels, CloseLabels
<1>3. \A r \in Readers : Alive(r)' <=> Alive(r)
  <2>1. \A r \in Readers : r # c
    BY DeviceAssumption
  <2> QED BY <2>1 DEF CloseClear, Goto, Alive, TypeOK, ControlTypeOK
<1>4. mFd = -1
  BY <1>2 DEF DescriptorInv, Holding, Alive, ReadLoopLabels
<1>5. NoTty
  BY <1>4 DEF DescriptorInv, NoTty
<1>6. calling = NoCallback
  BY <1>1 DEF CallInv
<1>7. NoTty'
  BY <1>0, <1>5 DEF NoTty
<1> QED BY <1>0, <1>1, <1>2, <1>3, <1>4, <1>6, <1>7 DEF Quiet

LEMMA QuietStep ==
    ASSUME TypeOK, PlaceInv, OwnInv, DescriptorInv, CallInv, QuietInv, [Next]_vars
    PROVE  QuietInv'
<1> SUFFICES ASSUME \A c \in Clients : pc'[c] = "closed" PROVE Quiet'
  BY DEF QuietInv
<1>0. ASSUME \A c \in Clients : pc[c] = "closed" PROVE Quiet
  BY <1>0 DEF QuietInv
<1>1. ASSUME NEW c \in Clients, NewCall(c) PROVE Quiet'
  <2>1. PICK k \in Toggles, on \in BOOLEAN : SetEnabled(c, k, on)
    BY <1>1 DEF NewCall, SetCallback, StartExchange, Stop, Close, StopExchange, SetPositionMode,
                Goto, TypeOK, ControlTypeOK
  <2>2. UNCHANGED <<pc, devVars, sessionVars, callbackVars>>
    BY <2>1 DEF SetEnabled
  <2>3. Quiet
    BY <1>0, <2>2
  <2> QED BY <2>2, <2>3 DEF Quiet, Alive, NoTty, devVars, sessionVars, threadVars, callbackVars
<1>2. ASSUME NEW c \in Clients, CallStep(c) PROVE Quiet'
  <2>1. CloseClear(c)
    BY <1>2 DEF CallStep, StartThread, SpawnReader, AssignThread, BeginLock, BeginReturn,
                StartRate, StopLock, StopReturn, CloseEndLock, CloseEndReturn, EndLock,
                EndReturn, CloseRun, CloseJoinable, CloseJoin, CloseWait, ModeSession, Goto,
                AtLabel, TypeOK, ControlTypeOK
  <2> QED BY <2>1, CloseClearQuiet
<1>3. ASSUME NEW r \in Readers, ReaderStep(r) PROVE Quiet'
  BY <1>0, <1>3, ReaderStepAlive DEF Quiet
<1>4. ASSUME NEW t \in Threads, DeviceStep(t) PROVE Quiet'
  <2>1. UNCHANGED pc
    BY <1>4 DEF DeviceStep, gnssVars
  <2>2. pc[t] \in {"closed", "exited"}
    BY <1>0, <2>1 DEF Quiet, Alive
  <2>3. dev[t].op \notin RateOps \union CloseOps \union OpenOps \union ReadOps
    BY <2>2 DEF PlaceInv, PlaceOf
  <2> QED
    BY <1>4, <2>3 DEF DeviceStep, MethodStep, ReadOutcome, RateCheck, RateWrite, CloseCheck,
                      CloseFd, CloseStore, OpenSucceeds, OpenUnresolved, OpenFails,
                      TermiosApplied, TermiosRefused, ReadEnter, ReadHangup, ReadBytes,
                      ReadError, ReadInterrupted, RateOps, CloseOps, OpenOps, ReadOps
<1>5. CASE Environment
  <2>1. UNCHANGED gnssVars /\ Quiet
    BY <1>0, <1>5 DEF Environment, gnssVars
  <2>2. UNCHANGED mFd /\ NoTty'
    <3>1. fdTable \in [Fds -> FdKinds] /\ NoTty
      BY <2>1 DEF Quiet, TypeOK, DeviceTypeOK
    <3>2. CASE Unplug
      BY <3>1, <3>2 DEF Unplug, NoTty
    <3>3. CASE Plug
      BY <3>1, <3>3 DEF Plug, NoTty
    <3>4. CASE OtherOpen
      BY <3>1, <3>4 DEF OtherOpen, NoTty
    <3>5. CASE OtherClose
      BY <3>1, <3>5 DEF OtherClose, NoTty
    <3> QED
      BY <1>5, <3>2, <3>3, <3>4, <3>5 DEF Environment, DeviceEnvironment
  <2> QED BY <2>1, <2>2 DEF Quiet, Alive, gnssVars, sessionVars, threadVars, callbackVars
<1>6. CASE Restart
  BY <1>6 DEF Restart, DeviceProcessDies, Quiet, Alive, NoTty
<1>7. CASE UNCHANGED vars
  BY <1>0, <1>7 DEF Quiet, Alive, NoTty, vars, devVars, gnssVars, sessionVars, threadVars,
                    callbackVars
<1> QED BY <1>1, <1>2, <1>3, <1>4, <1>5, <1>6, <1>7 DEF Next

-----------------------------------------------------------------------------
(* The invariants hold.                                                    *)

LEMMA PlaceHolds == Spec => []PlaceInv
<1>1. Init => PlaceInv
  BY DEF Init, DeviceInit, GnssInit, PlaceInv, PlaceOf, Step, At, DevIdle, RateOps, CloseOps,
         OpenOps, ReadOps
<1>2. TypeOK /\ PlaceInv /\ [Next]_vars => PlaceInv'
  <2> SUFFICES ASSUME TypeOK, PlaceInv, [Next]_vars PROVE PlaceInv'
    OBVIOUS
  <2>1. ASSUME NEW t \in Threads, DeviceStep(t) PROVE PlaceInv'
    <3>1. MethodStep(t) \/ ReadOutcome(t)
      BY <2>1 DEF DeviceStep
    <3>2. UNCHANGED pc
      BY <2>1 DEF DeviceStep, gnssVars
    <3>3. PlaceOf(t, pc[t])'
      BY <3>1, <3>2, MethodPlace
    <3>4. \A s \in Threads : s # t => dev'[s] = dev[s]
      BY <3>1, MethodFrame DEF TypeOK, DeviceTypeOK
    <3> QED BY <3>2, <3>3, <3>4 DEF PlaceInv, PlaceOf
  <2>2. CASE Environment
    BY <2>2 DEF Environment, gnssVars, DeviceEnvironment, Unplug, Plug, OtherOpen, OtherClose,
       PlaceInv, PlaceOf, Step, At, RateOps, CloseOps, OpenOps, ReadOps
  <2>3. CASE Restart
    BY <2>3 DEF Restart, DeviceProcessDies, PlaceInv, PlaceOf, Step, At, DevIdle, RateOps,
                CloseOps, OpenOps, ReadOps
  <2>4. CASE UNCHANGED vars
    BY <2>4 DEF vars, devVars, gnssVars, PlaceInv, PlaceOf
  <2> QED
    BY <2>1, <2>2, <2>3, <2>4, NewCallPlace, CallStepPlace, ReaderStepPlace DEF Next
<1> QED BY <1>1, <1>2, TypeCorrect, PTL DEF Spec

\* What is known in every state when close() runs alone.
CloseAloneInv == OwnInv /\ DescriptorInv /\ QuietInv

LEMMA CloseAloneInit == Init => CloseAloneInv
<1> SUFFICES ASSUME Init PROVE CloseAloneInv
  OBVIOUS
<1> USE DEF Init, DeviceInit, GnssInit
<1>0. /\ \A c \in Clients : pc[c] = "idle" /\ spawned[c] = NoThread
      /\ \A r \in Readers : ~Alive(r)
      /\ \A t \in Threads : dev[t].op = "idle"
  BY DeviceAssumption DEF Alive, Step, At, DevIdle
<1>1. OwnInv
  BY <1>0 DEF OwnInv, ClientOwnInv, ClosingLabels, CloseLabels
<1>2. DescriptorInv
  BY <1>0 DEF DescriptorInv
<1>3. QuietInv
  BY <1>0 DEF QuietInv, Quiet, NoTty
<1> QED BY <1>1, <1>2, <1>3 DEF CloseAloneInv

LEMMA CloseAloneRestart == ASSUME Restart PROVE OwnInv' /\ DescriptorInv'
<1> USE DEF Restart, DeviceProcessDies
<1>0. /\ \A c \in Clients : pc'[c] = "idle" /\ spawned'[c] = NoThread
      /\ \A r \in Readers : ~Alive(r)'
      /\ \A t \in Threads : dev'[t].op = "idle"
  BY DeviceAssumption DEF Alive, Step, At, DevIdle
<1>1. OwnInv'
  BY <1>0 DEF OwnInv, ClientOwnInv, ClosingLabels, CloseLabels
<1>2. DescriptorInv'
  BY <1>0 DEF DescriptorInv
<1> QED BY <1>1, <1>2

\* Steps that leave Gnss's own variables alone.
LEMMA OwnUnchanged == ASSUME OwnInv, UNCHANGED gnssVars PROVE OwnInv'
BY DEF OwnInv, ClientOwnInv, Alive, gnssVars, sessionVars, threadVars

LEMMA CloseAloneStep ==
    ASSUME TypeOK, PlaceInv, CallInv, CloseAloneInv, CloseAlone, CloseAlone', [Next]_vars
    PROVE  CloseAloneInv'
<1> USE DEF CloseAloneInv
<1>0. QuietInv'
  BY QuietStep
<1>1. ASSUME NEW c \in Clients, NewCall(c) PROVE OwnInv' /\ DescriptorInv'
  BY <1>1, NewCallOwn, NewCallDescriptor
<1>2. ASSUME NEW c \in Clients, CallStep(c) PROVE OwnInv' /\ DescriptorInv'
  BY <1>2, CallStepOwn, CallStepDescriptor
<1>3. ASSUME NEW r \in Readers, ReaderStep(r) PROVE OwnInv' /\ DescriptorInv'
  BY <1>3, ReaderStepOwn, ReaderStepDescriptor
<1>4. ASSUME NEW t \in Threads, DeviceStep(t) PROVE OwnInv' /\ DescriptorInv'
  BY <1>4, OwnUnchanged, MethodDescriptor DEF DeviceStep
<1>5. CASE Environment
  BY <1>0, <1>5, OwnUnchanged, EnvironmentDescriptor DEF Environment
<1>6. CASE Restart
  BY <1>0, <1>6, CloseAloneRestart
<1>7. CASE UNCHANGED vars
  <2>1. OwnInv'
    BY <1>7, OwnUnchanged DEF vars
  <2>2. DescriptorInv'
    BY <1>7 DEF vars, devVars, gnssVars, DescriptorInv, Holding, Opening, NoTty
  <2> QED BY <1>0, <2>1, <2>2
<1> QED BY <1>0, <1>1, <1>2, <1>3, <1>4, <1>5, <1>6, <1>7 DEF Next

LEMMA CloseAloneHolds == Spec /\ []CloseAlone => []CloseAloneInv
BY CloseAloneInit, CloseAloneStep, TypeCorrect, PlaceHolds, CallInvHolds, PTL DEF Spec

LEMMA CloseAloneCalls == CloseAloneSpec => Spec /\ []CloseAlone
<1>1. Init => CloseAlone
  BY DeviceAssumption DEF Init, DeviceInit, GnssInit, CloseAlone, CloseLabels
<1>2. CloseAlone /\ [Next /\ CloseAlone']_vars => CloseAlone' /\ [Next]_vars
  BY DEF vars, devVars, gnssVars, CloseAlone, InCall, DeviceIdle
<1> QED BY <1>1, <1>2, PTL DEF CloseAloneSpec, Spec

-----------------------------------------------------------------------------
(* Theorems about every framework that only keeps close() apart.           *)

\* At most one reader thread runs, however start() and stop() race: the second
\* start() finds mThreadRunning set (Gnss.cpp:109), and only a reader that is
\* leaving, or a close() that waits for it, clears the flag.
THEOREM OneReaderRuns == CloseAloneSpec => []OneReader
<1>1. OwnInv => OneReader
  BY DEF OwnInv, Alive, OneReader
<1> QED BY <1>1, CloseAloneCalls, CloseAloneHolds, PTL DEF CloseAloneInv

\* A descriptor of the receiver is never lost, whatever fails or is unplugged,
\* neither by open() nor by the closing of either thread (SerialDevice.cpp:136-188),
\* however start(), stop() and the other calls race.
THEOREM DescriptorNeverLost == CloseAloneSpec => []DescriptorKept
<1>1. DescriptorInv => DescriptorKept
  BY DEF DescriptorInv, DescriptorKept, Holding, ReadLoopLabels
<1> QED BY <1>1, CloseAloneCalls, CloseAloneHolds, PTL DEF CloseAloneInv

\* When close() was everybody's last call and has returned, the reader is gone,
\* the descriptor closed and the callback given up (Gnss.cpp:123-138), whatever
\* calls raced before.
THEOREM ClosedIsQuiet == CloseAloneSpec => []ClosedMeansQuiet
<1>1. CloseAloneInv => ClosedMeansQuiet
  BY DEF CloseAloneInv, QuietInv, Quiet, ClosedMeansQuiet, Alive, NoTty
<1> QED BY <1>1, CloseAloneCalls, CloseAloneHolds, PTL

-----------------------------------------------------------------------------
(* A device that opens keeps the service up.                               *)

LEMMA NewCallUp ==
    ASSUME TypeOK, UpInv, NEW c \in Clients, NewCall(c) PROVE UpInv'
<1>0. /\ pc \in [Threads -> ClientLabels \union ReaderLabels]
      /\ dev \in [Threads -> [op: DevOps, fd: -1 .. MaxFd, ms: Nat, ret: {"idle", "fail"}]]
      /\ Readers \intersect Clients = {}
  BY DeviceAssumption DEF TypeOK, ControlTypeOK, DeviceTypeOK
<1> USE <1>0 DEF UpInv, JoiningLabels, Goto, Available, devVars, sessionVars, threadVars,
    CallSetMeasurementRate
<1>1. CASE SetCallback(c)
  BY <1>1 DEF SetCallback
<1>2. CASE StartExchange(c)
  BY <1>2 DEF StartExchange
<1>3. CASE Stop(c)
  BY <1>3 DEF Stop, StopExchange
<1>4. CASE Close(c)
  BY <1>4 DEF Close, StopExchange
<1>5. CASE SetPositionMode(c)
  BY <1>5 DEF SetPositionMode
<1>6. ASSUME NEW k \in Toggles, NEW on \in BOOLEAN, SetEnabled(c, k, on) PROVE UpInv'
  BY <1>6 DEF SetEnabled
<1> QED BY <1>1, <1>2, <1>3, <1>4, <1>5, <1>6 DEF NewCall

LEMMA CallStepUp ==
    ASSUME TypeOK, PlaceInv, OwnInv, UpInv, CloseAlone, NEW c \in Clients, CallStep(c)
    PROVE  UpInv'
<1>0. /\ pc \in [Threads -> ClientLabels \union ReaderLabels]
      /\ dev \in [Threads -> [op: DevOps, fd: -1 .. MaxFd, ms: Nat, ret: {"idle", "fail"}]]
      /\ Readers \intersect Clients = {}
      /\ pc[c] \in CloseLabels => \A d \in Clients : d # c => pc[d] \in {"idle", "closed"}
      /\ pc[c] \notin {"idle", "closed"} =>
            \A d \in Clients : d # c => pc[d] \notin CloseLabels
      /\ ClientOwnInv(c)
  BY DeviceAssumption, OthersRestInClose, NobodyElseCloses
  DEF TypeOK, ControlTypeOK, DeviceTypeOK, InCall, OwnInv
<1> USE <1>0 DEF UpInv, ClientOwnInv, JoiningLabels, CloseLabels, Goto, AtLabel, devVars,
                 sessionVars, threadVars, CallSetMeasurementRate, CallClose
<1>1. CASE StartThread(c)
  BY <1>1 DEF StartThread
<1>2. CASE SpawnReader(c)
  BY <1>2 DEF SpawnReader
<1>3. CASE AssignThread(c)
  BY <1>3 DEF AssignThread
<1>4. CASE BeginLock(c)
  BY <1>4 DEF BeginLock
<1>5. CASE BeginReturn(c)
  BY <1>5 DEF BeginReturn
<1>6. CASE StartRate(c)
  BY <1>6 DEF StartRate
<1>7. CASE StopLock(c)
  BY <1>7 DEF StopLock, EndLock
<1>8. CASE StopReturn(c)
  BY <1>8 DEF StopReturn, EndReturn
<1>9. CASE CloseEndLock(c)
  BY <1>9 DEF CloseEndLock, EndLock
<1>10. CASE CloseEndReturn(c)
  BY <1>10 DEF CloseEndReturn, EndReturn
<1>11. CASE CloseRun(c)
  BY <1>11 DEF CloseRun
<1>12. CASE CloseJoinable(c)
  BY <1>12 DEF CloseJoinable
<1>13. CASE CloseJoin(c)
  BY <1>13 DEF CloseJoin
<1>14. CASE CloseWait(c)
  BY <1>14 DEF CloseWait
<1>15. CASE CloseClear(c)
  BY <1>15 DEF CloseClear
<1>16. CASE ModeSession(c)
  BY <1>16 DEF ModeSession
<1> QED BY <1>1, <1>2, <1>3, <1>4, <1>5, <1>6, <1>7, <1>8, <1>9, <1>10, <1>11, <1>12, <1>13,
    <1>14, <1>15, <1>16 DEF CallStep

LEMMA ReaderStepUp ==
    ASSUME TypeOK, UpInv, NEW r \in Readers, ReaderStep(r) PROVE UpInv'
<1>0. /\ pc \in [Threads -> ClientLabels \union ReaderLabels]
      /\ dev \in [Threads -> [op: DevOps, fd: -1 .. MaxFd, ms: Nat, ret: {"idle", "fail"}]]
      /\ Readers \intersect Clients = {}
  BY DeviceAssumption DEF TypeOK, ControlTypeOK, DeviceTypeOK
<1> USE <1>0 DEF UpInv, JoiningLabels, Goto, AtLabel, devVars, sessionVars, threadVars,
      CallSetMeasurementRate, CallClose, CallOpen, CallRead, Consume, Step, At
<1>1. CASE ReaderOpen(r)
  BY <1>1 DEF ReaderOpen
<1>2. CASE ReaderOpened(r)
  BY <1>2 DEF ReaderOpened
<1>3. CASE ReaderOpenFailed(r)
  BY <1>3 DEF ReaderOpenFailed
<1>4. CASE ReaderRateSession(r)
  BY <1>4 DEF ReaderRateSession
<1>5. CASE ReaderRateFix(r)
  BY <1>5 DEF ReaderRateFix
<1>6. CASE ReaderLoop(r)
  BY <1>6 DEF ReaderLoop
<1>7. CASE ReaderGotBytes(r)
  BY <1>7 DEF ReaderGotBytes
<1>8. CASE ReaderGotNothing(r)
  BY <1>8 DEF ReaderGotNothing
<1>9. CASE ReaderClosed(r)
  BY <1>9 DEF ReaderClosed
<1>10. CASE ReaderCheck(r)
  BY <1>10 DEF ReaderCheck
<1>11. CASE ReaderReportLock(r)
  BY <1>11 DEF ReaderReportLock
<1>12. CASE ReaderReportReturn(r)
  BY <1>12 DEF ReaderReportReturn
<1>13. CASE ReaderBufferDone(r)
  BY <1>13 DEF ReaderBufferDone
<1>14. ASSUME NEW k \in Toggles \union {"fix"}, ReaderReport(r, k) PROVE UpInv'
  BY <1>14 DEF ReaderReport
<1> QED BY <1>1, <1>2, <1>3, <1>4, <1>5, <1>6, <1>7, <1>8, <1>9, <1>10, <1>11, <1>12, <1>13,
    <1>14 DEF ReaderStep

\* With a receiver that stays and no other user of descriptors, open() has
\* nothing to fail for.
LEMMA MethodUp ==
    ASSUME DeviceOpens, TypeOK, PlaceInv, OwnInv, DescriptorInv, UpInv,
           NEW t \in Threads, MethodStep(t) \/ ReadOutcome(t), UNCHANGED gnssVars
    PROVE  UpInv'
<1>0. /\ dev \in [Threads -> [op: DevOps, fd: -1 .. MaxFd, ms: Nat, ret: {"idle", "fail"}]]
      /\ receiver \in [plugged: BOOLEAN, ms: Nat, by: Threads \union {Nobody}]
      /\ fdTable \in [Fds -> FdKinds]
      /\ UNCHANGED <<pc, aborted, mThread, mThreadRunning>>
      /\ PlaceOf(t, pc[t])
  BY DEF TypeOK, DeviceTypeOK, PlaceInv, gnssVars, sessionVars, threadVars
<1> USE <1>0 DEF UpInv, DeviceOpens, Step, At, DevIdle, PlaceOf, RateOps, CloseOps, OpenOps,
                 ReadOps
<1>1. CASE RateCheck(t)
  BY <1>1 DEF RateCheck
<1>2. CASE RateWrite(t)
  BY <1>2 DEF RateWrite
<1>3. CASE CloseCheck(t)
  BY <1>3 DEF CloseCheck
<1>4. CASE CloseFd(t)
  BY <1>4 DEF CloseFd
<1>5. CASE CloseStore(t)
  BY <1>5 DEF CloseStore
<1>6. CASE OpenSucceeds(t)
  BY <1>6 DEF OpenSucceeds
<1>7. ASSUME dev[t].op = "openNode" PROVE ~\A f \in Fds : fdTable[f] # "free"
  <2>1. t \in Readers /\ Opening(t)
    BY <1>7 DEF TypeOK, ControlTypeOK, ClientLabels, Opening
  <2>2. mFd = -1
    BY <2>1, OpeningAlone
  <2>3. \A f \in Fds : fdTable[f] = "free"
    BY <2>2 DEF DescriptorInv, FdKinds
  <2>4. 0 \in Fds
    BY DeviceAssumption
  <2> QED BY <2>3, <2>4
<1>8. CASE OpenUnresolved(t) \/ OpenFails(t)
  BY <1>7, <1>8 DEF OpenUnresolved, OpenFails
<1>9. CASE TermiosApplied(t)
  BY <1>9 DEF TermiosApplied
<1>10. CASE TermiosRefused(t)
  BY <1>10 DEF TermiosRefused
<1>11. CASE ReadEnter(t)
  BY <1>11 DEF ReadEnter
<1>12. CASE ReadHangup(t)
  BY <1>12 DEF ReadHangup
<1>13. CASE ReadBytes(t)
  BY <1>13 DEF ReadBytes
<1>14. CASE ReadError(t)
  BY <1>14 DEF ReadError
<1>15. CASE ReadInterrupted(t)
  BY <1>15 DEF ReadInterrupted
<1> QED BY <1>1, <1>2, <1>3, <1>4, <1>5, <1>6, <1>7, <1>8, <1>9, <1>10, <1>11, <1>12, <1>13,
    <1>14, <1>15 DEF MethodStep, ReadOutcome

LEMMA EnvironmentUp ==
    ASSUME DeviceOpens, TypeOK, UpInv, DeviceEnvironment, UNCHANGED gnssVars PROVE UpInv'
BY DEF DeviceOpens, UpInv, DeviceEnvironment, Unplug, Plug, OtherOpen, OtherClose, gnssVars,
   sessionVars, threadVars

\* As long as the device opens and close() runs alone, nothing ends the process
\* (README.md:153), not even racing start()s: an assignment finds no thread, a
\* join finds one.
THEOREM ServiceKeepsUp == DeviceOpens /\ CloseAloneSpec => []ServiceStaysUp
<1>1. Init => UpInv
  BY DeviceAssumption DEF Init, DeviceInit, GnssInit, UpInv, JoiningLabels
<1>2. DeviceOpens /\ TypeOK /\ PlaceInv /\ CloseAloneInv /\ CloseAlone /\ UpInv /\ [Next]_vars
        => UpInv'
  <2> SUFFICES ASSUME DeviceOpens, TypeOK, PlaceInv, CloseAloneInv, CloseAlone, UpInv,
                      [Next]_vars
               PROVE  UpInv'
    OBVIOUS
  <2> USE DEF CloseAloneInv
  <2>1. ASSUME NEW t \in Threads, DeviceStep(t) PROVE UpInv'
    BY <2>1, MethodUp DEF DeviceStep
  <2>2. CASE Environment
    BY <2>2, EnvironmentUp DEF Environment
  <2>3. CASE Restart
    BY <2>3 DEF Restart, UpInv
  <2>4. CASE UNCHANGED vars
    BY <2>4 DEF vars, devVars, gnssVars, sessionVars, threadVars, UpInv
  <2> QED BY <2>1, <2>2, <2>3, <2>4, NewCallUp, CallStepUp, ReaderStepUp DEF Next
<1>3. UpInv => ServiceStaysUp
  BY DEF UpInv, ServiceStaysUp
<1>4. DeviceOpens /\ [Next]_vars => DeviceOpens'
  OBVIOUS
<1> QED BY <1>1, <1>2, <1>3, <1>4, TypeCorrect, PlaceHolds, CloseAloneCalls, CloseAloneHolds, PTL
  DEF Spec

-----------------------------------------------------------------------------
(* From here on every call runs alone.                                     *)

LEMMA SerialClosesAlone == OneAtATime => CloseAlone
BY DEF OneAtATime, CloseAlone, InCall, CloseLabels

LEMMA FlagStep == ASSUME TypeOK, FlagInv, OneAtATime', [Next]_vars PROVE FlagInv'
<1>0. /\ pc \in [Threads -> ClientLabels \union ReaderLabels]
      /\ \A r \in Readers, c \in Clients : r # c
  BY DeviceAssumption DEF TypeOK, ControlTypeOK
<1> USE <1>0 DEF FlagInv, StartLabels, BeginLabels, EndLabels, Goto, AtLabel, sessionVars
<1>1. ASSUME NEW c \in Clients, NewCall(c) PROVE FlagInv'
  <2>1. InCall(c)' => \A d \in Clients : d # c => pc'[d] \in {"idle", "closed"}
    BY DEF OneAtATime, InCall
  <2> QED
    BY <1>1, <2>1 DEF NewCall, SetCallback, StartExchange, Stop, Close, StopExchange,
                      SetPositionMode, SetEnabled, InCall
<1>2. ASSUME NEW c \in Clients, CallStep(c) PROVE FlagInv'
  BY <1>2 DEF CallStep, StartThread, SpawnReader, AssignThread, BeginLock, BeginReturn,
              StartRate, StopLock, StopReturn, CloseEndLock, CloseEndReturn, EndLock, EndReturn,
              CloseRun, CloseJoinable, CloseJoin, CloseWait, CloseClear, ModeSession
<1>3. ASSUME NEW r \in Readers, ReaderStep(r) PROVE FlagInv'
  <2>1. UNCHANGED mSessionActive
    BY <1>3 DEF ReaderStep, ReaderOpen, ReaderOpened, ReaderOpenFailed, ReaderRateSession,
                ReaderRateFix, ReaderLoop, ReaderGotBytes, ReaderGotNothing, ReaderClosed,
                ReaderCheck, ReaderReport, ReaderReportLock, ReaderReportReturn,
                ReaderBufferDone
  <2>2. \A c \in Clients : pc'[c] = pc[c]
    BY <1>3, ReaderStepAlive
  <2> QED BY <2>1, <2>2
<1>4. CASE Restart
  BY <1>4, DeviceAssumption DEF Restart
<1>5. CASE UNCHANGED gnssVars
  BY <1>5 DEF gnssVars
<1> QED BY <1>1, <1>2, <1>3, <1>4, <1>5 DEF Next, DeviceStep, Environment, vars

\* A reader begins to open when it is spawned, and then nobody writes.
LEMMA CallStepWriter ==
    ASSUME TypeOK, WriterInv, OneAtATime, NEW c \in Clients, NewCall(c) \/ CallStep(c)
    PROVE  WriterInv'
<1>0. /\ pc \in [Threads -> ClientLabels \union ReaderLabels]
      /\ dev \in [Threads -> [op: DevOps, fd: -1 .. MaxFd, ms: Nat, ret: {"idle", "fail"}]]
      /\ \A r \in Readers, d \in Clients : r # d
  BY DeviceAssumption DEF TypeOK, ControlTypeOK, DeviceTypeOK
<1>1. /\ UNCHANGED mFd
      /\ \/ UNCHANGED dev
         \/ \E ms \in Nat : CallSetMeasurementRate(c, ms)
         \/ CallClose(c)
  BY DEF NewCall, SetCallback, StartExchange, Stop, Close, StopExchange, SetPositionMode,
         SetEnabled, CallStep, StartThread, SpawnReader, AssignThread, BeginLock, BeginReturn,
         StartRate, StopLock, StopReturn, CloseEndLock, CloseEndReturn, EndLock, EndReturn,
         CloseRun, CloseJoinable, CloseJoin, CloseWait, CloseClear, ModeSession, devVars,
         TypeOK, RateTypeOK, FixPeriod, kIdleRateMs
<1>2. \A t \in Threads : dev'[t].op = "rateWrite" => dev'[t] = dev[t]
  BY <1>0, <1>1 DEF CallSetMeasurementRate, CallClose, At, Step
<1>3. CASE SpawnReader(c)
  <2>1. pc[c] = "spawn" /\ dev[c].op = "idle" /\ UNCHANGED dev
    BY <1>3 DEF SpawnReader, AtLabel, DeviceIdle, devVars
  <2>2. \A d \in Clients : dev[d].op = "idle"
    BY <2>1, OthersRest DEF InCall
  <2> QED BY <1>1, <1>2, <2>1, <2>2 DEF WriterInv
<1>4. CASE ~SpawnReader(c)
  <2>1. \A r \in Readers : pc'[r] = pc[r]
    BY <1>0, <1>4 DEF NewCall, SetCallback, StartExchange, Stop, Close, StopExchange,
         SetPositionMode,
         SetEnabled, CallStep, StartThread, AssignThread, BeginLock, BeginReturn,
         StartRate, StopLock, StopReturn, CloseEndLock, CloseEndReturn, EndLock, EndReturn,
         CloseRun, CloseJoinable, CloseJoin, CloseWait, CloseClear, ModeSession, Goto
  <2>2. \A r \in Readers : dev'[r] = dev[r]
    BY <1>0, <1>1 DEF CallSetMeasurementRate, CallClose
  <2> QED BY <1>1, <1>2, <2>1, <2>2 DEF WriterInv, Opening
<1> QED BY <1>3, <1>4

LEMMA ReaderStepWriter ==
    ASSUME TypeOK, WriterInv, NEW r \in Readers, ReaderStep(r) PROVE WriterInv'
<1>0. /\ pc \in [Threads -> ClientLabels \union ReaderLabels]
      /\ dev \in [Threads -> [op: DevOps, fd: -1 .. MaxFd, ms: Nat, ret: {"idle", "fail"}]]
      /\ \A s \in Readers, d \in Clients : s # d
  BY DeviceAssumption DEF TypeOK, ControlTypeOK, DeviceTypeOK
<1> USE <1>0 DEF WriterInv, Opening, Goto, AtLabel, DeviceIdle, devVars, Step, At, DevIdle,
                 CallSetMeasurementRate, CallClose, CallOpen, CallRead, Consume
<1>1. CASE ReaderOpen(r)
  BY <1>1 DEF ReaderOpen
<1>2. CASE ReaderOpened(r)
  BY <1>2 DEF ReaderOpened
<1>3. CASE ReaderOpenFailed(r)
  BY <1>3 DEF ReaderOpenFailed
<1>4. CASE ReaderRateSession(r) \/ ReaderRateFix(r)
  BY <1>4 DEF ReaderRateSession, ReaderRateFix
<1>5. CASE ReaderLoop(r)
  BY <1>5 DEF ReaderLoop
<1>6. CASE ReaderGotBytes(r) \/ ReaderGotNothing(r) \/ ReaderClosed(r)
  BY <1>6 DEF ReaderGotBytes, ReaderGotNothing, ReaderClosed
<1>7. CASE ReaderCheck(r) \/ ReaderBufferDone(r)
  BY <1>7 DEF ReaderCheck, ReaderBufferDone
<1>8. CASE ReaderReportLock(r) \/ ReaderReportReturn(r)
  BY <1>8 DEF ReaderReportLock, ReaderReportReturn
<1>9. ASSUME NEW k \in Toggles \union {"fix"}, ReaderReport(r, k) PROVE WriterInv'
  BY <1>9 DEF ReaderReport
<1> QED BY <1>1, <1>2, <1>3, <1>4, <1>5, <1>6, <1>7, <1>8, <1>9 DEF ReaderStep

\* mFd changes while a period is written only because it is closed.
LEMMA MethodWriter ==
    ASSUME TypeOK, PlaceInv, OwnInv, DescriptorInv, WriterInv, NEW t \in Threads,
           MethodStep(t) \/ ReadOutcome(t), UNCHANGED gnssVars
    PROVE  WriterInv'
<1>0. /\ dev \in [Threads -> [op: DevOps, fd: -1 .. MaxFd, ms: Nat, ret: {"idle", "fail"}]]
      /\ mFd \in -1 .. MaxFd /\ MaxFd \in Nat
      /\ UNCHANGED pc
      /\ mFd # -1 => \A r \in Readers : ~Opening(r)
  BY DeviceAssumption, OpeningAlone DEF TypeOK, DeviceTypeOK, gnssVars
<1> USE <1>0 DEF WriterInv, Opening, At, Step, DevIdle
<1>1. CASE RateCheck(t)
  BY <1>1 DEF RateCheck
<1>2. CASE RateWrite(t)
  BY <1>2 DEF RateWrite
<1>3. CASE CloseCheck(t)
  BY <1>3 DEF CloseCheck
<1>4. CASE CloseFd(t)
  BY <1>4 DEF CloseFd
<1>5. CASE CloseStore(t)
  BY <1>5 DEF CloseStore
<1>6. CASE OpenSucceeds(t) \/ OpenFails(t)
  <2>1. t \in Readers /\ Opening(t) /\ dev[t].op = "openNode"
    <3>1. dev[t].op = "openNode" /\ PlaceOf(t, pc[t])
      BY <1>6 DEF OpenSucceeds, OpenFails, PlaceInv
    <3> QED BY <3>1 DEF PlaceOf, OpenOps, TypeOK, ControlTypeOK, ClientLabels
  <2>2. \A d \in Clients : dev[d].op # "rateWrite"
    BY <2>1
  <2>3. \A s \in Readers : dev[s].op # "rateWrite"
    BY <2>1, OpeningAlone DEF Alive, PlaceInv, PlaceOf, RateOps
  <2>4. \A s \in Threads : dev'[s].op # "rateWrite"
    BY <1>6, <2>2, <2>3 DEF OpenSucceeds, OpenFails
  <2> QED BY <2>4
<1>7. CASE OpenUnresolved(t)
  BY <1>7 DEF OpenUnresolved
<1>8. CASE TermiosApplied(t) \/ TermiosRefused(t)
  BY <1>8 DEF TermiosApplied, TermiosRefused
<1>9. CASE ReadEnter(t)
  BY <1>9 DEF ReadEnter
<1>10. CASE ReadHangup(t)
  BY <1>10 DEF ReadHangup
<1>11. CASE ReadOutcome(t)
  BY <1>11 DEF ReadOutcome, ReadBytes, ReadError, ReadInterrupted
<1> QED BY <1>1, <1>2, <1>3, <1>4, <1>5, <1>6, <1>7, <1>8, <1>9, <1>10, <1>11 DEF MethodStep

LEMMA WriterStep ==
    ASSUME TypeOK, PlaceInv, OwnInv, DescriptorInv, WriterInv, OneAtATime, [Next]_vars
    PROVE  WriterInv'
<1>1. ASSUME NEW t \in Threads, DeviceStep(t) PROVE WriterInv'
  BY <1>1, MethodWriter DEF DeviceStep
<1>2. CASE Environment
  <2>1. /\ UNCHANGED <<mFd, pc>>
        /\ \A t \in Threads : dev'[t].op \in {"rateWrite", "openNode"} => dev'[t] = dev[t]
    BY <1>2 DEF Environment, DeviceEnvironment, Unplug, Plug, OtherOpen, OtherClose, gnssVars,
                Step, At
  <2> QED BY <2>1 DEF WriterInv, Opening
<1>3. CASE Restart
  BY <1>3 DEF Restart, DeviceProcessDies, WriterInv, DevIdle, Step, At
<1>4. CASE UNCHANGED vars
  BY <1>4 DEF vars, devVars, gnssVars, WriterInv, Opening
<1> QED BY <1>1, <1>2, <1>3, <1>4, CallStepWriter, ReaderStepWriter DEF Next

LEMMA NewCallRate ==
    ASSUME TypeOK, RateInv, OneAtATime', NEW c \in Clients, NewCall(c)
    PROVE  RateInv'
<1>0. /\ pc \in [Threads -> ClientLabels \union ReaderLabels]
      /\ dev \in [Threads -> [op: DevOps, fd: -1 .. MaxFd, ms: Nat, ret: {"idle", "fail"}]]
      /\ arg \in [Clients -> Nat]
      /\ Readers \intersect Clients = {}
      /\ InCall(c)' =>
            \A d \in Clients : d # c => pc'[d] \in {"idle", "closed"} /\ dev'[d].op = "idle"
  BY DeviceAssumption DEF TypeOK, ControlTypeOK, DeviceTypeOK, RateTypeOK, OneAtATime, InCall,
                          DeviceIdle
<1> USE <1>0 DEF RateInv, Serving, PeriodOfSession, RatePending, RateOps, StartLabels,
                 BeginLabels, InCall, Available, DeviceIdle, Goto, devVars, sessionVars,
                 rateVars, CallSetMeasurementRate, At
<1>1. CASE SetCallback(c)
  BY <1>1 DEF SetCallback
<1>2. CASE StartExchange(c)
  BY <1>2 DEF StartExchange
<1>3. CASE Stop(c)
  BY <1>3 DEF Stop, StopExchange
<1>4. CASE Close(c)
  BY <1>4 DEF Close, StopExchange
<1>5. CASE SetPositionMode(c)
  BY <1>5 DEF SetPositionMode
<1>6. ASSUME NEW k \in Toggles, NEW on \in BOOLEAN, SetEnabled(c, k, on) PROVE RateInv'
  BY <1>6 DEF SetEnabled
<1> QED BY <1>1, <1>2, <1>3, <1>4, <1>5, <1>6 DEF NewCall

LEMMA CallStepRate ==
    ASSUME TypeOK, FlagInv, RateInv, OneAtATime, NEW c \in Clients, CallStep(c) PROVE RateInv'
<1>0. /\ pc \in [Threads -> ClientLabels \union ReaderLabels]
      /\ dev \in [Threads -> [op: DevOps, fd: -1 .. MaxFd, ms: Nat, ret: {"idle", "fail"}]]
      /\ arg \in [Clients -> Nat]
      /\ Readers \intersect Clients = {}
      /\ pc[c] \notin {"idle", "closed"} =>
            \A d \in Clients : d # c => pc[d] \in {"idle", "closed"} /\ dev[d].op = "idle"
      /\ pc[c] \in StartLabels => mSessionActive
  BY DeviceAssumption, OthersRest
  DEF TypeOK, ControlTypeOK, DeviceTypeOK, RateTypeOK, InCall, FlagInv
<1> USE <1>0 DEF RateInv, Serving, PeriodOfSession, RatePending, RateOps, StartLabels,
                 BeginLabels, AtLabel, DeviceIdle, Goto, devVars, sessionVars, rateVars,
                 CallSetMeasurementRate, CallClose, At, Step
<1>1. CASE StartThread(c)
  BY <1>1 DEF StartThread
<1>2. CASE SpawnReader(c)
  BY <1>2 DEF SpawnReader
<1>3. CASE AssignThread(c)
  BY <1>3 DEF AssignThread
<1>4. CASE BeginLock(c)
  BY <1>4 DEF BeginLock
<1>5. CASE BeginReturn(c)
  BY <1>5 DEF BeginReturn
<1>6. CASE StartRate(c)
  BY <1>6 DEF StartRate
<1>7. CASE StopLock(c)
  BY <1>7 DEF StopLock, EndLock
<1>8. CASE StopReturn(c)
  BY <1>8 DEF StopReturn, EndReturn
<1>9. CASE CloseEndLock(c)
  BY <1>9 DEF CloseEndLock, EndLock
<1>10. CASE CloseEndReturn(c)
  BY <1>10 DEF CloseEndReturn, EndReturn
<1>11. CASE CloseRun(c)
  BY <1>11 DEF CloseRun
<1>12. CASE CloseJoinable(c)
  BY <1>12 DEF CloseJoinable
<1>13. CASE CloseJoin(c)
  BY <1>13 DEF CloseJoin
<1>14. CASE CloseWait(c)
  BY <1>14 DEF CloseWait
<1>15. CASE CloseClear(c)
  BY <1>15 DEF CloseClear
<1>16. CASE ModeSession(c)
  BY <1>16 DEF ModeSession
<1> QED BY <1>1, <1>2, <1>3, <1>4, <1>5, <1>6, <1>7, <1>8, <1>9, <1>10, <1>11, <1>12, <1>13,
    <1>14, <1>15, <1>16 DEF CallStep

LEMMA ReaderStepRate ==
    ASSUME TypeOK, PlaceInv, RateInv, NEW r \in Readers, ReaderStep(r)
    PROVE  RateInv'
<1>0. /\ pc \in [Threads -> ClientLabels \union ReaderLabels]
      /\ dev \in [Threads -> [op: DevOps, fd: -1 .. MaxFd, ms: Nat, ret: {"idle", "fail"}]]
      /\ Readers \intersect Clients = {}
      /\ PlaceOf(r, pc[r])
  BY DeviceAssumption DEF TypeOK, ControlTypeOK, DeviceTypeOK, PlaceInv
<1> USE <1>0 DEF RateInv, Serving, PeriodOfSession, RatePending, RateOps, StartLabels,
                 BeginLabels, AtLabel, DeviceIdle, Goto, devVars, sessionVars, rateVars,
                 CallSetMeasurementRate, CallClose, CallOpen, CallRead, Consume, At, Step,
                 DevIdle, PlaceOf, CloseOps, OpenOps, ReadOps
<1>1. CASE ReaderOpen(r)
  BY <1>1 DEF ReaderOpen
<1>2. CASE ReaderOpened(r)
  BY <1>2 DEF ReaderOpened
<1>3. CASE ReaderOpenFailed(r)
  BY <1>3 DEF ReaderOpenFailed
<1>4. CASE ReaderRateSession(r)
  BY <1>4 DEF ReaderRateSession
<1>5. CASE ReaderRateFix(r)
  BY <1>5 DEF ReaderRateFix
<1>6. CASE ReaderLoop(r)
  BY <1>6 DEF ReaderLoop
<1>7. CASE ReaderGotBytes(r)
  BY <1>7 DEF ReaderGotBytes
<1>8. CASE ReaderGotNothing(r)
  BY <1>8 DEF ReaderGotNothing
<1>9. CASE ReaderClosed(r)
  BY <1>9 DEF ReaderClosed
<1>10. CASE ReaderCheck(r)
  BY <1>10 DEF ReaderCheck
<1>11. CASE ReaderReportLock(r)
  BY <1>11 DEF ReaderReportLock
<1>12. CASE ReaderReportReturn(r)
  BY <1>12 DEF ReaderReportReturn
<1>13. CASE ReaderBufferDone(r)
  BY <1>13 DEF ReaderBufferDone
<1>14. ASSUME NEW k \in Toggles \union {"fix"}, ReaderReport(r, k) PROVE RateInv'
  BY <1>14 DEF ReaderReport
<1> QED BY <1>1, <1>2, <1>3, <1>4, <1>5, <1>6, <1>7, <1>8, <1>9, <1>10, <1>11, <1>12, <1>13,
    <1>14 DEF ReaderStep

\* A period is written to the receiver or the device is gone; a period that is
\* dropped is dropped because there is no device.
LEMMA MethodRate ==
    ASSUME TypeOK, PlaceInv, OwnInv, DescriptorInv, WriterInv, RateInv,
           NEW t \in Threads, MethodStep(t) \/ ReadOutcome(t), UNCHANGED gnssVars
    PROVE  RateInv'
<1>0. /\ pc \in [Threads -> ClientLabels \union ReaderLabels]
      /\ mFd \in -1 .. MaxFd
      /\ dev \in [Threads -> [op: DevOps, fd: -1 .. MaxFd, ms: Nat, ret: {"idle", "fail"}]]
      /\ receiver \in [plugged: BOOLEAN, ms: Nat, by: Threads \union {Nobody}]
      /\ Readers \intersect Clients = {}
      /\ UNCHANGED <<pc, mSessionActive, mFixIntervalMs, arg>>
      /\ PlaceOf(t, pc[t])
  BY DeviceAssumption
  DEF TypeOK, ControlTypeOK, DeviceTypeOK, PlaceInv, gnssVars, sessionVars, rateVars
<1> USE <1>0 DEF RateInv, Serving, PeriodOfSession, RatePending, RateOps, At, Step, DevIdle,
                 PlaceOf, CloseOps, OpenOps, ReadOps
<1>1. CASE RateCheck(t)
  BY <1>1 DEF RateCheck
<1>2. CASE RateWrite(t)
  <2>1. dev[t].fd = mFd \/ mFd = -1
    BY <1>2 DEF RateWrite, WriterInv
  <2>2. dev' = [dev EXCEPT ![t] = DevIdle] /\ UNCHANGED <<mFd, fdTable>>
    BY <1>2 DEF RateWrite
  <2>3. mFd \in Fds /\ fdTable[mFd] = "tty" =>
            receiver' = [receiver EXCEPT !.ms = dev[t].ms, !.by = t]
    BY <1>2, <2>1 DEF RateWrite
  <2>4. Serving' => receiver'.ms = dev[t].ms /\ receiver'.by = t
    BY <2>2, <2>3
  <2>5. /\ PeriodOfSession' = PeriodOfSession
        /\ t \in Clients => dev[t].ms = PeriodOfSession
    BY <1>2 DEF RateWrite
  <2>6. \A d \in Clients : /\ dev'[d].op \in RateOps => dev'[d].ms = PeriodOfSession'
                           /\ pc'[d] = "modeSession" => arg'[d] = mFixIntervalMs'
    BY <2>2
  <2> QED BY <2>4, <2>5, <2>6
<1>3. CASE CloseCheck(t)
  BY <1>3 DEF CloseCheck
<1>4. CASE CloseFd(t)
  BY <1>4 DEF CloseFd
<1>5. CASE CloseStore(t)
  BY <1>5 DEF CloseStore
<1>6. CASE OpenSucceeds(t)
  <2>1. t \in Readers /\ Opening(t) /\ pc[t] = "opened"
    BY <1>6 DEF OpenSucceeds, TypeOK, ControlTypeOK, ClientLabels, Opening
  <2>2. \A s \in Readers : s # t => ~Alive(s)
    BY <2>1, OpeningAlone
  <2>3. ~Serving'
    BY <2>1, <2>2 DEF Alive
  <2>4. dev' = [dev EXCEPT ![t] = Step("termios")]
    BY <1>6 DEF OpenSucceeds
  <2> QED BY <2>3, <2>4
<1>7. CASE OpenUnresolved(t)
  BY <1>7 DEF OpenUnresolved
<1>8. CASE OpenFails(t)
  BY <1>8 DEF OpenFails
<1>9. CASE TermiosApplied(t)
  BY <1>9 DEF TermiosApplied
<1>10. CASE TermiosRefused(t)
  BY <1>10 DEF TermiosRefused
<1>11. CASE ReadEnter(t)
  BY <1>11 DEF ReadEnter
<1>12. CASE ReadHangup(t)
  BY <1>12 DEF ReadHangup
<1>13. CASE ReadBytes(t)
  BY <1>13 DEF ReadBytes
<1>14. CASE ReadError(t)
  BY <1>14 DEF ReadError
<1>15. CASE ReadInterrupted(t)
  BY <1>15 DEF ReadInterrupted
<1> QED BY <1>1, <1>2, <1>3, <1>4, <1>5, <1>6, <1>7, <1>8, <1>9, <1>10, <1>11, <1>12, <1>13,
    <1>14, <1>15 DEF MethodStep, ReadOutcome

LEMMA EnvironmentRate ==
    ASSUME TypeOK, RateInv, DeviceEnvironment, UNCHANGED gnssVars PROVE RateInv'
<1>0. /\ fdTable \in [Fds -> FdKinds]
      /\ receiver \in [plugged: BOOLEAN, ms: Nat, by: Threads \union {Nobody}]
      /\ UNCHANGED <<pc, mSessionActive, mFixIntervalMs, arg>>
  BY DEF TypeOK, DeviceTypeOK, gnssVars, sessionVars, rateVars
<1> USE <1>0 DEF RateInv, Serving, PeriodOfSession, RatePending, RateOps, At, Step
<1>1. CASE Unplug     BY <1>1 DEF Unplug
<1>2. CASE Plug       BY <1>2 DEF Plug
<1>3. CASE OtherOpen  BY <1>3 DEF OtherOpen
<1>4. CASE OtherClose BY <1>4 DEF OtherClose
<1> QED BY <1>1, <1>2, <1>3, <1>4 DEF DeviceEnvironment

\* What is known besides when every call runs alone.
SerialInv == FlagInv /\ WriterInv /\ RateInv

LEMMA SerialInit == Init => SerialInv
<1> SUFFICES ASSUME Init PROVE SerialInv
  OBVIOUS
<1>0. /\ \A c \in Clients : pc[c] = "idle"
      /\ \A r \in Readers : ~Alive(r)
      /\ \A t \in Threads : dev[t].op = "idle"
  BY DeviceAssumption DEF Alive, Step, At, DevIdle, Init, DeviceInit, GnssInit
<1> QED
  BY <1>0 DEF SerialInv, FlagInv, WriterInv, RateInv, Serving, Alive, RateOps, StartLabels,
              BeginLabels, EndLabels

LEMMA RestartRate == ASSUME Restart PROVE RateInv'
<1>0. /\ \A c \in Clients : pc'[c] = "idle"
      /\ \A r \in Readers : ~Alive(r)'
      /\ \A t \in Threads : dev'[t].op = "idle"
  BY DeviceAssumption DEF Alive, Step, At, DevIdle, Restart, DeviceProcessDies
<1> QED BY <1>0 DEF RateInv, Serving, Alive, RateOps

LEMMA SerialStep ==
    ASSUME TypeOK, PlaceInv, CloseAloneInv, SerialInv, OneAtATime, OneAtATime', [Next]_vars
    PROVE  SerialInv'
<1> USE DEF CloseAloneInv, SerialInv
<1>1. FlagInv' /\ WriterInv'
  BY FlagStep, WriterStep
<1>2. ASSUME NEW c \in Clients, NewCall(c) \/ CallStep(c) PROVE RateInv'
  BY <1>2, NewCallRate, CallStepRate
<1>3. ASSUME NEW t \in Threads, DeviceStep(t) PROVE RateInv'
  BY <1>3, MethodRate DEF DeviceStep
<1>4. CASE Environment
  BY <1>1, <1>4, EnvironmentRate DEF Environment
<1>5. CASE UNCHANGED vars
  BY <1>1, <1>5 DEF vars, devVars, gnssVars, sessionVars, rateVars, RateInv, Serving,
     PeriodOfSession, RatePending
<1> QED BY <1>1, <1>2, <1>3, <1>4, <1>5, ReaderStepRate, RestartRate DEF Next

LEMMA SerialHolds == Spec /\ []OneAtATime => [](CloseAloneInv /\ SerialInv)
BY SerialInit, SerialStep, SerialClosesAlone, CloseAloneHolds, TypeCorrect, PlaceHolds, PTL
DEF Spec

LEMMA SerialCalls == SerialSpec => Spec /\ []OneAtATime
<1>1. Init => OneAtATime
  BY DeviceAssumption DEF Init, DeviceInit, GnssInit, OneAtATime, InCall, DeviceIdle, DevIdle,
                          Step, At
<1>2. OneAtATime /\ [Next /\ OneAtATime']_vars => OneAtATime' /\ [Next]_vars
  BY DEF vars, devVars, gnssVars, OneAtATime, InCall, DeviceIdle
<1> QED BY <1>1, <1>2, PTL DEF SerialSpec, Spec

\* Between two calls a receiver whose period was last set by a call has the
\* period of the session (Gnss.cpp:37), whatever happens to the device.
THEOREM RateFollowsSession == SerialSpec => []RateFollowsSessionOnceCalled
<1>1. SerialInv => RateFollowsSessionOnceCalled
  BY DEF SerialInv, RateInv, RateFollowsSessionOnceCalled, NoCallInProgress, Available,
         DeviceIdle, RatePending, RateOps, StartLabels, BeginLabels
<1> QED BY <1>1, SerialCalls, SerialHolds, PTL

-----------------------------------------------------------------------------
(* The refinement of GnssContract: its phase, its outstanding reports and  *)
(* its callback make the contract's steps.                                 *)

LEMMA PhaseValue ==
    /\ mSessionActive /\ balance = 0 => ContractPhase = "starting"
    /\ mSessionActive /\ balance = 1 => ContractPhase = "begun"
    /\ ~mSessionActive /\ balance = 1 => ContractPhase = "ending"
    /\ ~mSessionActive /\ balance = 0 => ContractPhase = "ended"
BY DEF ContractPhase

\* With one call at a time there is at most one status to report.
LEMMA BalanceValue ==
    ASSUME TypeOK, BalanceInv, FlagInv, OneAtATime
    PROVE  /\ \A c \in Clients : pc[c] \in BeginLabels => mSessionActive /\ balance = 0
           /\ \A c \in Clients : pc[c] \in EndLabels => ~mSessionActive /\ balance = 1
           /\ (\A c \in Clients : pc[c] \notin BeginLabels \union EndLabels)
                => balance = One(mSessionActive)
<1>0. balance \in Int
  BY DEF TypeOK, HistoryTypeOK
<1>1. ASSUME NEW c \in Clients, pc[c] \in BeginLabels PROVE mSessionActive /\ balance = 0
  <2>1. Beginning = {c} /\ Ending = {}
    BY <1>1 DEF OneAtATime, InCall, Beginning, Ending, BeginLabels, EndLabels
  <2>2. mSessionActive
    BY <1>1 DEF FlagInv, StartLabels
  <2>3. Cardinality({c}) = 1 /\ Cardinality({}) = 0
    BY FS_Singleton, FS_EmptySet
  <2> QED BY <1>0, <2>1, <2>2, <2>3 DEF BalanceInv, One
<1>2. ASSUME NEW c \in Clients, pc[c] \in EndLabels PROVE ~mSessionActive /\ balance = 1
  <2>1. Beginning = {} /\ Ending = {c}
    BY <1>2 DEF OneAtATime, InCall, Beginning, Ending, BeginLabels, EndLabels
  <2>2. ~mSessionActive
    BY <1>2 DEF FlagInv
  <2>3. Cardinality({c}) = 1 /\ Cardinality({}) = 0
    BY FS_Singleton, FS_EmptySet
  <2> QED BY <1>0, <2>1, <2>2, <2>3 DEF BalanceInv, One
<1>3. ASSUME \A c \in Clients : pc[c] \notin BeginLabels \union EndLabels
      PROVE  balance = One(mSessionActive)
  <2>1. Beginning = {} /\ Ending = {}
    BY <1>3 DEF Beginning, Ending
  <2> QED BY <1>0, <2>1, FS_EmptySet DEF BalanceInv, One
<1> QED BY <1>1, <1>2, <1>3

LEMMA SamePhase == UNCHANGED <<mSessionActive, balance>> => ContractPhase' = ContractPhase
BY DEF ContractPhase

LEMMA SamePending ==
    ASSUME UNCHANGED batch, \A r \in Readers : pc'[r] = "reportLock" <=> pc[r] = "reportLock"
    PROVE  ContractPending' = ContractPending
BY DEF ContractPending
ContractStep == [Contract!Next]_(Contract!contractVars)

LEMMA Stutter ==
    ASSUME UNCHANGED <<mSessionActive, balance, batch, mCallback>>,
           \A r \in Readers : pc'[r] = "reportLock" <=> pc[r] = "reportLock"
    PROVE  ContractStep
<1>1. ContractPhase' = ContractPhase /\ ContractPending' = ContractPending
  BY SamePhase, SamePending
<1> QED BY <1>1 DEF ContractStep, Contract!contractVars

\* start, stop and the rest of the calls as the contract sees them begin.
LEMMA NewCallContract ==
    ASSUME TypeOK, BalanceInv, FlagInv, OneAtATime, OneAtATime', NEW c \in Clients, NewCall(c)
    PROVE  ContractStep
<1>1. UNCHANGED batch /\ \A r \in Readers : pc'[r] = pc[r]
  <2>1. UNCHANGED batch
    BY DEF NewCall, SetCallback, StartExchange, Stop, Close, StopExchange, SetPositionMode,
                SetEnabled, readerVars
  <2> QED BY <2>1, NewCallLeavesReader DEF TypeOK
<1>2. ContractPending' = ContractPending
  BY <1>1, SamePending
<1>3. CASE SetCallback(c)
  <2>1. mCallback' \in Callbacks /\ UNCHANGED <<mSessionActive, balance>>
    BY <1>3 DEF SetCallback, sessionVars, history
  <2>2. Contract!Register
    BY <1>2, <2>1, SamePhase DEF Contract!Register
  <2> QED BY <2>2 DEF ContractStep, Contract!Next
<1>4. ASSUME Available(c), InCall(c)', \A d \in Clients : d # c => pc'[d] = pc[d]
      PROVE  balance = One(mSessionActive)
  <2>1. \A d \in Clients : pc[d] \notin BeginLabels \union EndLabels
    BY <1>4 DEF Available, OneAtATime, InCall, BeginLabels, EndLabels
  <2> QED BY <2>1, BalanceValue
<1>5. ASSUME NEW l, Goto(c, l) PROVE \A d \in Clients : pc'[d] = IF d = c THEN l ELSE pc[d]
  BY <1>5 DEF Goto, TypeOK, ControlTypeOK
<1>6. CASE StartExchange(c)
  <2>1. /\ ~mSessionActive /\ mSessionActive' /\ UNCHANGED <<balance, mCallback>>
        /\ Available(c) /\ Goto(c, "startThread")
    BY <1>6 DEF StartExchange, callbackVars
  <2>2. balance = 0
    BY <1>4, <1>5, <2>1 DEF InCall, One
  <2>3. ContractPhase = "ended" /\ ContractPhase' = "starting"
    BY <2>1, <2>2, PhaseValue DEF ContractPhase
  <2>4. Contract!Activate
    BY <1>2, <2>1, <2>3 DEF Contract!Activate, Contract!Phase
  <2> QED BY <2>4 DEF ContractStep, Contract!Next
<1>7. ASSUME NEW l \in EndLabels, Available(c), StopExchange(c, l) PROVE ContractStep
  <2>1. /\ mSessionActive /\ ~mSessionActive' /\ UNCHANGED <<balance, mCallback>>
        /\ Goto(c, l)
    BY <1>7 DEF StopExchange, callbackVars, history
  <2>2. balance = 1
    BY <1>4, <1>5, <1>7, <2>1 DEF InCall, One, EndLabels
  <2>3. ContractPhase = "begun" /\ ContractPhase' = "ending"
    BY <2>1, <2>2, PhaseValue DEF ContractPhase
  <2>4. Contract!Deactivate
    BY <1>2, <2>1, <2>3 DEF Contract!Deactivate, Contract!Phase
  <2> QED BY <2>4 DEF ContractStep, Contract!Next
<1>8. CASE UNCHANGED <<mSessionActive, balance, mCallback>>
  BY <1>1, <1>8, Stutter
<1> QED
  BY <1>3, <1>6, <1>7, <1>8 DEF NewCall, Stop, Close, SetPositionMode, SetEnabled, EndLabels,
                                sessionVars, callbackVars, history

LEMMA CallStepContract ==
    ASSUME TypeOK, BalanceInv, OwnInv, FlagInv, BatchInv, OneAtATime, NEW c \in Clients,
           CallStep(c)
    PROVE  ContractStep
<1>1. /\ UNCHANGED <<batch, mSessionActive>>
      /\ \A r \in Readers : pc'[r] = "reportLock" <=> pc[r] = "reportLock"
  <2>1. UNCHANGED <<batch, mSessionActive>>
    BY DEF CallStep, StartThread, SpawnReader, AssignThread, BeginLock, BeginReturn, StartRate,
           StopLock, StopReturn, CloseEndLock, CloseEndReturn, EndLock, EndReturn, CloseRun,
           CloseJoinable, CloseJoin, CloseWait, CloseClear, ModeSession, readerVars, sessionVars
  <2> QED BY <2>1, CallStepLeavesReader DEF TypeOK
<1>2. ContractPending' = ContractPending
  BY <1>1, SamePending
<1>3. CASE BeginLock(c)
  <2>1. pc[c] = "beginLock" /\ balance' = balance + 1 /\ UNCHANGED mCallback
    BY <1>3 DEF BeginLock, AtLabel, LockAndCall
  <2>2. mSessionActive /\ balance = 0
    BY <2>1, BalanceValue DEF BeginLabels
  <2>3. ContractPhase = "starting" /\ ContractPhase' = "begun"
    BY <1>1, <2>1, <2>2, PhaseValue DEF ContractPhase
  <2>4. Contract!ReportBegin
    BY <1>2, <2>1, <2>3 DEF Contract!ReportBegin, Contract!Phase
  <2> QED BY <2>4 DEF ContractStep, Contract!Next
<1>4. ASSUME NEW l \in EndLabels, NEW next, EndLock(c, l, next) PROVE ContractStep
  <2>1. pc[c] = l /\ balance' = balance - 1 /\ UNCHANGED mCallback
    BY <1>4 DEF EndLock, AtLabel, LockAndCall
  <2>2. ~mSessionActive /\ balance = 1
    BY <2>1, BalanceValue
  <2>3. ContractPhase = "ending" /\ ContractPhase' = "ended"
    BY <1>1, <2>1, <2>2, PhaseValue DEF ContractPhase
  <2>4. Contract!ReportEnd
    BY <1>2, <2>1, <2>3 DEF Contract!ReportEnd, Contract!Phase
  <2> QED BY <2>4 DEF ContractStep, Contract!Next
<1>5. CASE CloseClear(c)
  <2>1. pc[c] = "closeClear" /\ mCallback' = NoCallback /\ UNCHANGED balance
    BY <1>5 DEF CloseClear, AtLabel, history
  <2>2. ~mSessionActive /\ \A r \in Readers : pc[r] = "exited"
    BY <2>1 DEF OwnInv, ClientOwnInv, CloseLabels, Alive
  <2>3. balance = 0
    <3>1. \A d \in Clients : pc[d] \notin BeginLabels \union EndLabels
      BY <2>1 DEF OneAtATime, InCall, BeginLabels, EndLabels
    <3> QED BY <2>2, <3>1, BalanceValue DEF One
  <2>4. ContractPhase = "ended" /\ ContractPhase' = ContractPhase
    BY <1>1, <2>1, <2>2, <2>3, PhaseValue, SamePhase
  <2>5. \A r \in Readers : ContractPending[r] = 0
    BY <2>2 DEF ContractPending, BatchInv, ReportLabels
  <2>6. Contract!Release
    BY <1>2, <2>1, <2>4, <2>5 DEF Contract!Release
  <2> QED BY <2>6 DEF ContractStep, Contract!Next
<1>6. CASE UNCHANGED <<balance, mCallback>>
  BY <1>1, <1>6, Stutter
<1> QED
  BY <1>3, <1>4, <1>5, <1>6 DEF CallStep, StartThread, SpawnReader, AssignThread, BeginReturn,
                                StartRate, StopLock, StopReturn, CloseEndLock, CloseEndReturn,
                                EndReturn, ReturnAndUnlock, CloseRun, CloseJoinable, CloseJoin,
                                CloseWait, ModeSession, EndLabels, callbackVars, history

LEMMA BatchStep == ASSUME TypeOK, BatchInv, [Next]_vars PROVE BatchInv'
<1>0. /\ pc \in [Threads -> ClientLabels \union ReaderLabels]
      /\ batch \in [Readers -> 0 .. MaxReports] /\ MaxReports \in Nat
  BY GnssAssumption DEF TypeOK, ControlTypeOK, ReportTypeOK
<1>1. ASSUME NEW c \in Clients, NewCall(c) PROVE BatchInv'
  BY <1>1, NewCallLeavesReader DEF BatchInv, TypeOK, readerVars
<1>2. ASSUME NEW c \in Clients, CallStep(c) PROVE BatchInv'
  BY <1>2, CallStepLeavesReader DEF BatchInv, ReportLabels, TypeOK, readerVars
<1>3. ASSUME NEW r \in Readers, ReaderStep(r) PROVE BatchInv'
  BY <1>0, <1>3 DEF BatchInv, ReportLabels, Goto, AtLabel, readerVars, ReaderStep, ReaderOpen,
                    ReaderOpened, ReaderOpenFailed, ReaderRateSession, ReaderRateFix,
                    ReaderLoop, ReaderGotBytes, ReaderGotNothing, ReaderClosed, ReaderCheck,
                    ReaderReport, ReaderReportLock, ReaderReportReturn, ReaderBufferDone
<1>4. CASE Restart
  BY <1>4 DEF Restart, BatchInv
<1>5. CASE UNCHANGED gnssVars
  BY <1>5 DEF BatchInv, gnssVars, readerVars
<1> QED BY <1>1, <1>2, <1>3, <1>4, <1>5 DEF Next, DeviceStep, Environment, vars

LEMMA PendingChanges ==
    ASSUME NEW s \in Readers, NEW n,
           \A r \in Readers : r # s => pc'[r] = pc[r] /\ batch'[r] = batch[r],
           n = IF pc'[s] = "reportLock" THEN batch'[s] + 1 ELSE batch'[s]
    PROVE  ContractPending' = [ContractPending EXCEPT ![s] = n]
<1>1. /\ ContractPending = [r \in Readers |-> ContractPending[r]]
      /\ ContractPending' = [r \in Readers |-> ContractPending'[r]]
  BY DEF ContractPending
<1>2. ASSUME NEW r \in Readers, r # s PROVE ContractPending'[r] = ContractPending[r]
  BY <1>2 DEF ContractPending
<1>3. ContractPending'[s] = n
  BY DEF ContractPending
<1> HIDE DEF ContractPending
<1> QED BY <1>1, <1>2, <1>3

\* The reader, as the contract sees it: a buffer taken up, and reports issued
\* or suppressed.
LEMMA ReaderStepContract ==
    ASSUME TypeOK, BalanceInv, FlagInv, BatchInv, OneAtATime, NEW s \in Readers, ReaderStep(s)
    PROVE  ContractStep
<1>0. /\ pc \in [Threads -> ClientLabels \union ReaderLabels]
      /\ batch \in [Readers -> 0 .. MaxReports] /\ MaxReports \in Nat /\ balance \in Int
  BY GnssAssumption DEF TypeOK, ControlTypeOK, ReportTypeOK, HistoryTypeOK
<1>1. UNCHANGED <<mSessionActive, balance, mCallback>>
  BY DEF ReaderStep, ReaderOpen, ReaderOpened, ReaderOpenFailed, ReaderRateSession,
         ReaderRateFix, ReaderLoop, ReaderGotBytes, ReaderGotNothing, ReaderClosed, ReaderCheck,
         ReaderReport, ReaderReportLock, ReaderReportReturn, ReaderBufferDone, LockAndCall,
         ReturnAndUnlock, sessionVars, callbackVars, history
<1>2. UNCHANGED <<ContractPhase, mCallback>>
  BY <1>1, SamePhase
<1>3. ASSUME NEW l, Goto(s, l) PROVE \A r \in Readers : pc'[r] = IF r = s THEN l ELSE pc[r]
  BY <1>0, <1>3 DEF Goto
<1>4. CASE ReaderCheck(s) /\ mSessionActive
  <2>1. PICK n \in 0 .. MaxReports : batch' = [batch EXCEPT ![s] = n]
    BY <1>4 DEF ReaderCheck
  <2>2. Goto(s, "reports") /\ pc[s] = "check"
    BY <1>4 DEF ReaderCheck, AtLabel
  <2>3. batch[s] = 0
    BY <2>2 DEF BatchInv, ReportLabels
  <2>4. ContractPhase \in {"starting", "begun"}
    <3>1. balance \in {0, 1}
      BY <1>4, BalanceValue DEF One
    <3> QED BY <1>4, <3>1, PhaseValue
  <2>5. ContractPending[s] = 0
    BY <2>2, <2>3 DEF ContractPending
  <2>6. ContractPending' = [ContractPending EXCEPT ![s] = n]
    BY <1>0, <1>3, <2>1, <2>2, PendingChanges
  <2>7. Contract!TakeBuffer(s)
    BY <1>2, <2>4, <2>5, <2>6 DEF Contract!TakeBuffer
  <2> QED BY <2>7 DEF ContractStep, Contract!Next
<1>5. CASE ReaderCheck(s) /\ ~mSessionActive
  <2>1. Goto(s, "loop") /\ pc[s] = "check" /\ UNCHANGED batch
    BY <1>5 DEF ReaderCheck, AtLabel
  <2> QED BY <1>1, <1>3, <2>1, Stutter
<1>6. ASSUME NEW k \in Toggles \union {"fix"}, ReaderReport(s, k) PROVE ContractStep
  <2>1. pc[s] = "reports" /\ batch[s] > 0 /\ batch' = [batch EXCEPT ![s] = @ - 1]
    BY <1>6 DEF ReaderReport, AtLabel
  <2>2. CASE UNCHANGED pc
    <3>1. ContractPending[s] = batch[s]
      BY <2>1 DEF ContractPending
    <3>2. ContractPending' = [ContractPending EXCEPT ![s] = batch[s] - 1]
      BY <1>0, <2>1, <2>2, PendingChanges
    <3>3. Contract!Report(s)
      BY <1>2, <2>1, <3>1, <3>2 DEF Contract!Report
    <3> QED BY <3>3 DEF ContractStep, Contract!Next
  <2>3. CASE Goto(s, "reportLock")
    <3>1. ContractPending' = ContractPending
      BY <1>0, <1>3, <2>1, <2>3 DEF ContractPending
    <3> QED BY <1>2, <3>1 DEF ContractStep, Contract!contractVars
  <2> QED BY <1>6, <2>2, <2>3 DEF ReaderReport
<1>7. CASE ReaderReportLock(s)
  <2>1. pc[s] = "reportLock" /\ Goto(s, "reportCall") /\ UNCHANGED batch
    BY <1>7 DEF ReaderReportLock, AtLabel, readerVars
  <2>2. ContractPending[s] = batch[s] + 1
    BY <2>1 DEF ContractPending
  <2>3. ContractPending' = [ContractPending EXCEPT ![s] = batch[s]]
    BY <1>0, <1>3, <2>1, PendingChanges
  <2>4. batch[s] \in Nat /\ (batch[s] + 1) - 1 = batch[s] /\ batch[s] + 1 > 0
    BY <1>0
  <2>5. Contract!Report(s)
    BY <1>2, <2>2, <2>3, <2>4 DEF Contract!Report
  <2> QED BY <2>5 DEF ContractStep, Contract!Next
<1>8. ASSUME pc[s] # "reportLock", UNCHANGED batch,
             NEW l \in ReaderLabels \ {"reportLock"}, Goto(s, l)
      PROVE  ContractStep
  BY <1>1, <1>3, <1>8, Stutter
<1>9. CASE ReaderReportReturn(s)
  <2>1. pc[s] = "reportCall" /\ Goto(s, "reports") /\ UNCHANGED batch
    BY <1>9 DEF ReaderReportReturn, AtLabel
  <2> QED BY <1>8, <2>1 DEF ReaderLabels
<1>10. pc[s] = "reportLock" => ReaderReportLock(s)
  BY DEF ReaderStep, ReaderOpen, ReaderOpened, ReaderOpenFailed, ReaderRateSession,
         ReaderRateFix, ReaderLoop, ReaderGotBytes, ReaderGotNothing, ReaderClosed, ReaderCheck,
         ReaderReport, ReaderReportReturn, ReaderBufferDone, AtLabel
<1> QED
  BY <1>4, <1>5, <1>6, <1>7, <1>8, <1>9, <1>10, ReaderStepReports DEF readerVars

LEMMA BatchHolds == Spec => []BatchInv
<1>1. Init => BatchInv
  BY DEF Init, GnssInit, BatchInv
<1> QED BY <1>1, BatchStep, TypeCorrect, PTL DEF Spec

LEMMA ContractInit == Init => Contract!Init
<1> SUFFICES ASSUME Init PROVE Contract!Init
  OBVIOUS
<1>1. ~mSessionActive /\ balance = 0 /\ mCallback = NoCallback
  BY DEF Init, GnssInit
<1>2. ContractPhase = "ended"
  BY <1>1, PhaseValue
<1>3. ContractPending = [r \in Readers |-> 0]
  BY DEF Init, GnssInit, ContractPending
<1> QED BY <1>1, <1>2, <1>3 DEF Contract!Init

\* A restarted process starts the contract over.
LEMMA RestartContract == ASSUME Restart PROVE ContractStep
<1>1. ~mSessionActive' /\ balance' = 0 /\ mCallback' = NoCallback
  BY DEF Restart
<1>2. ContractPhase' = "ended"
  BY <1>1 DEF ContractPhase
<1>3. ContractPending' = [r \in Readers |-> 0]
  BY DEF Restart, ContractPending
<1>4. Contract!Crash
  BY <1>1, <1>2, <1>3 DEF Contract!Crash
<1> QED BY <1>4 DEF ContractStep, Contract!Next

\* With one call at a time, start, stop, close and the reader thread keep
\* the contract (Gnss.cpp:104-167): begins and ends alternate, a buffer is
\* taken up only in a session, and close() gives the callback up last.
THEOREM SerialCallsKeepContract == SerialSpec => ImplementsContract
<1>1. TypeOK /\ BalanceInv /\ OwnInv /\ FlagInv /\ BatchInv /\ OneAtATime /\ OneAtATime'
        /\ [Next]_vars => [Contract!Next]_(Contract!contractVars)
  <2> SUFFICES ASSUME TypeOK, BalanceInv, OwnInv, FlagInv, BatchInv, OneAtATime,
                      OneAtATime', [Next]_vars
               PROVE  ContractStep
    BY DEF ContractStep
  <2>2. ASSUME NEW c \in Clients, NewCall(c) \/ CallStep(c) PROVE ContractStep
    BY <2>2, NewCallContract, CallStepContract
  <2>3. ASSUME NEW r \in Readers, ReaderStep(r) PROVE ContractStep
    BY <2>3, ReaderStepContract
  <2>4. CASE UNCHANGED gnssVars
    BY <2>4, Stutter DEF gnssVars, sessionVars, callbackVars, readerVars, history
  <2> QED
    BY <2>2, <2>3, <2>4, RestartContract DEF Next, DeviceStep, Environment, vars
<1> QED
  BY <1>1, ContractInit, TypeCorrect, BalanceHolds, SerialCalls, SerialHolds, BatchHolds, PTL
  DEF Spec, ImplementsContract, Contract!Spec, CloseAloneInv, SerialInv
=============================================================================
