---------------------------- MODULE SerialDevice ----------------------------
(***************************************************************************)
(* The serial tty as class SerialDevice sees it (serial/SerialDevice.cpp): *)
(* the plain int mFd, the descriptors the kernel has open for the process, *)
(* and the receiver behind the tty.  The class has no lock, and its        *)
(* methods are called from the reader thread and from the binder threads,  *)
(* so each method is cut at its accesses to mFd and at its system calls.   *)
(*                                                                         *)
(* A thread is inside a method while dev[t].op is not "idle"; a method     *)
(* with a result leaves it in dev[t].op ("ok", "fail", "bytes", "eof",     *)
(* "err") for its caller to consume.                                       *)
(***************************************************************************)
EXTENDS Integers

CONSTANTS
    Clients,    \* binder threads that serve calls on IGnss
    Readers,    \* the reader threads that Gnss::start() creates, reused once ended
    MaxFd,      \* the descriptors of the process are 0..MaxFd
    Faults      \* what the environment may do to the tty in this instance

AllFaults == {"unplug", "open", "termios", "readError", "interrupt", "otherFds"}

ASSUME DeviceAssumption ==
    /\ Readers \intersect Clients = {}
    /\ MaxFd \in Nat
    /\ Faults \subseteq AllFaults

VARIABLES
    mFd,        \* SerialDevice::mFd, -1 when closed
    fdTable,    \* kernel: what each descriptor number refers to
    dev,        \* per thread: progress inside a SerialDevice method
    receiver    \* the receiver: attached?, fix period it obeys, who set it

devVars == <<mFd, fdTable, dev, receiver>>

Threads == Clients \union Readers
Fds     == 0 .. MaxFd

\* "tty": open on the receiver; "dead": open, but the receiver was unplugged
\* since; "other": in use by another part of the process.
FdKinds == {"free", "tty", "dead", "other"}

DevOps == {"idle", "rateCheck", "rateWrite", "closeCheck", "closeFd", "closeStore",
           "openNode", "termios", "readEnter", "reading", "hungup",
           "ok", "fail", "bytes", "eof", "err"}

\* A receiver that got no CFG-RATE frame since it was attached, and "nobody
\* set its period".
UnsetRate == 0
Nobody    == "nobody"

\* op: where the thread is; fd: descriptor number it has already loaded from
\* mFd; ms: the period to write; ret: what close() leaves in op when done.
At(op, fd, ms, ret) == [op |-> op, fd |-> fd, ms |-> ms, ret |-> ret]
Step(op)            == At(op, -1, 0, "idle")
DevIdle             == Step("idle")

DeviceInit ==
    /\ mFd = -1
    /\ fdTable = [f \in Fds |-> "free"]
    /\ dev = [t \in Threads |-> DevIdle]
    /\ receiver = [plugged |-> TRUE, ms |-> UnsetRate, by |-> Nobody]

DeviceTypeOK ==
    /\ mFd \in -1 .. MaxFd
    /\ fdTable \in [Fds -> FdKinds]
    /\ dev \in [Threads -> [op: DevOps, fd: -1 .. MaxFd, ms: Nat, ret: {"idle", "fail"}]]
    /\ receiver \in [plugged: BOOLEAN, ms: Nat, by: Threads \union {Nobody}]

DeviceIdle(t) == dev[t].op = "idle"

-----------------------------------------------------------------------------
(* Calls: what the caller's own step does to dev.                          *)

CallSetMeasurementRate(t, ms) == dev' = [dev EXCEPT ![t] = At("rateCheck", -1, ms, "idle")]
CallClose(t)                  == dev' = [dev EXCEPT ![t] = Step("closeCheck")]
CallOpen(t)                   == dev' = [dev EXCEPT ![t] = Step("openNode")]
CallRead(t)                   == dev' = [dev EXCEPT ![t] = Step("readEnter")]
Consume(t)                    == dev' = [dev EXCEPT ![t] = DevIdle]

-----------------------------------------------------------------------------
(* setMeasurementRate                                                      *)

\* `if (mFd < 0) return;` : without a descriptor the request is dropped.
RateCheck(t) ==
    /\ dev[t].op = "rateCheck"
    /\ dev' = [dev EXCEPT ![t] = IF mFd < 0 THEN DevIdle
                                 ELSE At("rateWrite", mFd, dev[t].ms, "idle")]
    /\ UNCHANGED <<mFd, fdTable, receiver>>

\* The ::write loop, one frame at a time.  mFd is read without
\* synchronisation: the value already loaded or the current one is used.  A
\* frame for anything but the live tty fails or goes astray, and the error
\* path only logs it.  A write always ends: that a receiver holds it up by the
\* flow control (CRTSCTS) is left out.
RateWrite(t) ==
    /\ dev[t].op = "rateWrite"
    /\ \E fd \in {dev[t].fd, mFd} :
          receiver' = IF fd \in Fds /\ fdTable[fd] = "tty"
                      THEN [receiver EXCEPT !.ms = dev[t].ms, !.by = t]
                      ELSE receiver
    /\ dev' = [dev EXCEPT ![t] = DevIdle]
    /\ UNCHANGED <<mFd, fdTable>>

-----------------------------------------------------------------------------
(* close                                                                   *)

CloseCheck(t) ==
    /\ dev[t].op = "closeCheck"
    /\ dev' = [dev EXCEPT ![t] = IF mFd < 0 THEN Step(dev[t].ret)
                                 ELSE At("closeFd", mFd, 0, dev[t].ret)]
    /\ UNCHANGED <<mFd, fdTable, receiver>>

\* `::close(mFd)`: frees the number, whatever it refers to by now.  A read
\* another thread has in progress on the tty is not interrupted by it.
CloseFd(t) ==
    /\ dev[t].op = "closeFd"
    /\ \E fd \in {dev[t].fd, mFd} :
          fdTable' = [f \in Fds |-> IF f = fd THEN "free" ELSE fdTable[f]]
    /\ dev' = [dev EXCEPT ![t] = At("closeStore", -1, 0, dev[t].ret)]
    /\ UNCHANGED <<mFd, receiver>>

\* `mFd = -1;`
CloseStore(t) ==
    /\ dev[t].op = "closeStore"
    /\ mFd' = -1
    /\ dev' = [dev EXCEPT ![t] = Step(dev[t].ret)]
    /\ UNCHANGED <<fdTable, receiver>>

-----------------------------------------------------------------------------
(* open and applyTermios                                                   *)

\* The path resolves and ::open succeeds; the kernel hands out the lowest
\* free number.
OpenSucceeds(t) ==
    /\ dev[t].op = "openNode"
    /\ receiver.plugged
    /\ \E fd \in Fds :
          /\ fdTable[fd] = "free"
          /\ \A f \in Fds : fdTable[f] = "free" => fd <= f
          /\ fdTable' = [fdTable EXCEPT ![fd] = "tty"]
          /\ mFd' = fd
    /\ dev' = [dev EXCEPT ![t] = Step("termios")]
    /\ UNCHANGED receiver

\* `if (mDevicePath.empty()) return false;` : no device resolves, since none is
\* there, persist.vendor.gps.usb is malformed, or opendir fails.  mFd stays.
OpenUnresolved(t) ==
    /\ dev[t].op = "openNode"
    /\ ~receiver.plugged \/ "open" \in Faults \/ \A f \in Fds : fdTable[f] # "free"
    /\ dev' = [dev EXCEPT ![t] = Step("fail")]
    /\ UNCHANGED <<mFd, fdTable, receiver>>

\* The path resolves (persist.vendor.gps.device always does), but ::open fails
\* (no such node, no permission, no descriptor left): its -1 lands in mFd.
OpenFails(t) ==
    /\ dev[t].op = "openNode"
    /\ ~receiver.plugged \/ "open" \in Faults \/ \A f \in Fds : fdTable[f] # "free"
    /\ mFd' = -1
    /\ dev' = [dev EXCEPT ![t] = Step("fail")]
    /\ UNCHANGED <<fdTable, receiver>>

\* applyTermios returns true, also for what is not (or no longer) a tty.
TermiosApplied(t) ==
    /\ dev[t].op = "termios"
    /\ dev' = [dev EXCEPT ![t] = Step("ok")]
    /\ UNCHANGED <<mFd, fdTable, receiver>>

\* Mutant: open() fails without closing.
TermiosRefusedLeaks(t) ==
    /\ dev[t].op = "termios"
    /\ "termios" \in Faults
    /\ mFd \in Fds /\ fdTable[mFd] = "tty"
    /\ dev' = [dev EXCEPT ![t] = Step("fail")]
    /\ UNCHANGED <<mFd, fdTable, receiver>>

\* A tty and an unknown persist.vendor.gps.ttybaud: open() closes and fails.
TermiosRefused(t) ==
    /\ dev[t].op = "termios"
    /\ "termios" \in Faults
    /\ mFd \in Fds /\ fdTable[mFd] = "tty"
    /\ dev' = [dev EXCEPT ![t] = At("closeCheck", -1, 0, "fail")]
    /\ UNCHANGED <<mFd, fdTable, receiver>>

-----------------------------------------------------------------------------
(* read                                                                    *)

\* Entering ::read(mFd): the kernel pins the open file from here on.  A
\* descriptor that another part of the process owns can answer anything.
ReadEnter(t) ==
    /\ dev[t].op = "readEnter"
    /\ \E op \in {"reading", "hungup", "err", "bytes", "eof"} :
          /\ LET kind == IF mFd \in Fds THEN fdTable[mFd] ELSE "free"
             IN  \/ kind = "tty"   /\ op = "reading"
                 \/ kind = "dead"  /\ op = "hungup"
                 \/ kind = "free"  /\ op = "err"
                 \/ kind = "other" /\ op \in {"bytes", "eof", "err"}
          /\ dev' = [dev EXCEPT ![t] = Step(op)]
    /\ UNCHANGED <<mFd, fdTable, receiver>>

\* The receiver sends: the only thing that ends a read of a live tty.
ReadBytes(t) ==
    /\ dev[t].op = "reading"
    /\ dev' = [dev EXCEPT ![t] = Step("bytes")]
    /\ UNCHANGED <<mFd, fdTable, receiver>>

\* A read of a tty whose device is gone: end of file, or EIO.
ReadHangup(t) ==
    /\ dev[t].op = "hungup"
    /\ \E op \in {"eof", "err"} : dev' = [dev EXCEPT ![t] = Step(op)]
    /\ UNCHANGED <<mFd, fdTable, receiver>>

ReadError(t) ==
    /\ dev[t].op = "reading"
    /\ "readError" \in Faults
    /\ dev' = [dev EXCEPT ![t] = Step("err")]
    /\ UNCHANGED <<mFd, fdTable, receiver>>

\* `while (ret < 0 && errno == EINTR)` : read again, with mFd as it is then.
ReadInterrupted(t) ==
    /\ dev[t].op = "reading"
    /\ "interrupt" \in Faults
    /\ dev' = [dev EXCEPT ![t] = Step("readEnter")]
    /\ UNCHANGED <<mFd, fdTable, receiver>>

-----------------------------------------------------------------------------
(* The environment: the USB cable, and the rest of the process.            *)

Unplug ==
    /\ "unplug" \in Faults
    /\ receiver.plugged
    /\ receiver' = [plugged |-> FALSE, ms |-> UnsetRate, by |-> Nobody]
    /\ fdTable' = [f \in Fds |-> IF fdTable[f] = "tty" THEN "dead" ELSE fdTable[f]]
    /\ dev' = [t \in Threads |-> IF dev[t].op = "reading" THEN Step("hungup") ELSE dev[t]]
    /\ UNCHANGED mFd

Plug ==
    /\ ~receiver.plugged
    /\ receiver' = [receiver EXCEPT !.plugged = TRUE]
    /\ UNCHANGED <<mFd, fdTable, dev>>

OtherOpen ==
    /\ "otherFds" \in Faults
    /\ \E fd \in Fds :
          /\ fdTable[fd] = "free"
          /\ \A f \in Fds : fdTable[f] = "free" => fd <= f
          /\ fdTable' = [fdTable EXCEPT ![fd] = "other"]
    /\ UNCHANGED <<mFd, dev, receiver>>

OtherClose ==
    /\ \E fd \in Fds :
          /\ fdTable[fd] = "other"
          /\ fdTable' = [fdTable EXCEPT ![fd] = "free"]
    /\ UNCHANGED <<mFd, dev, receiver>>

-----------------------------------------------------------------------------
\* Steps of the code inside a method, which the scheduler keeps running.
MethodStep(t) ==
    \/ RateCheck(t) \/ RateWrite(t)
    \/ CloseCheck(t) \/ CloseFd(t) \/ CloseStore(t)
    \/ OpenSucceeds(t) \/ OpenUnresolved(t) \/ OpenFails(t)
    \/ TermiosApplied(t) \/ TermiosRefused(t)
    \/ ReadEnter(t) \/ ReadHangup(t)

\* How a blocked read of a live tty may end.
ReadOutcome(t) == ReadBytes(t) \/ ReadError(t) \/ ReadInterrupted(t)

DeviceEnvironment == Unplug \/ Plug \/ OtherOpen \/ OtherClose

\* The process dies: the kernel closes its descriptors; the receiver keeps
\* whatever period it was last told.
DeviceProcessDies ==
    /\ mFd' = -1
    /\ fdTable' = [f \in Fds |-> "free"]
    /\ dev' = [t \in Threads |-> DevIdle]
    /\ UNCHANGED receiver
=============================================================================
