# TLA+ verification of the serial GNSS HAL

The repository is an Android GNSS HAL service: it reads NMEA-0183 sentences from
a serial receiver and reports locations, satellites, raw sentences and session
statuses to the framework over AIDL (`IGnss`, `IGnssCallback`). This directory
holds TLA+ models of its code, the TLC runs that check them and the TLAPS proofs
of their main safety properties. Line numbers refer to `src/serial/`.

## The system

| Part | State | Operations | Talks to |
| --- | --- | --- | --- |
| `Gnss` (Gnss.cpp) | `mCallback` under `mCallbackMutex`; atomics `mSessionActive`, `mThreadRunning`, `mFixIntervalMs`, `mNmeaEnabled`, `mSvStatusEnabled`; `std::thread mThread` | `setCallback`, `start`, `stop`, `close`, `setPositionMode`, the four toggles | called by binder threads; creates the reader thread; calls `SerialDevice` without a lock, the framework's callback under `mCallbackMutex` |
| reader thread (`readerThreadLoop`) | its buffer | open, set the rate, read until told to stop, end of file or error, close | reads the tty; feeds the parser, whose callbacks are `reportLocation`, `reportSvStatus`, `reportNmea` |
| `SerialDevice` | `int mFd`, not atomic | `open` (resolve by name or by scanning `/sys/class/tty`, `::open`, termios), `read`, `close`, `setMeasurementRate` (UBX CFG-RATE) | sysfs, the kernel's descriptor table, the receiver |
| `NmeaParser` | line buffer `mPos`, `mOverflow`; fix accumulator `mFix`, `mHaveGsa`; satellites `mSvs`, `mUsedInFix`; carried date | `addBytes`, `parseSentence` for GGA, GSA, GSV, RMC, VTG | only the reader thread uses it; RMC sets the system clock |
| `GnssPowerIndication` | `mCallback` under `mMutex` | `setCallback`, `requestGnssPowerStats` | calls the framework while it holds the mutex |
| other extensions | none that is read (four keep a callback) | getters of `Gnss`; methods that answer ok, empty data or unsupported | framework |
| `main`, init | - | registers the service with a pool of two binder threads besides main's; init restarts it when it dies | |

What is hard here: binder threads and the reader share everything but the
callback without a lock; the reader decides and acts in separate steps (session
test and parse, rate decision and write, toggle test and report); `close()` must
end a blocking `read()`; the device can disappear, refuse to open or be refused
by `applyTermios`; the byte stream is cut wherever a session ends, so the parser
sees any part of any sentence, and sentences are lost; ttys come and go while the
receiver is looked for; several threads write frames to one tty; and the system
clock is set by others while RMC steers it.

What makes each part correct:

- `Gnss`: no call ends the process or blocks for ever; after `close()` nothing is
  left running, open or registered; begins and ends of sessions balance; the
  callback in use is not replaced; what arrives after a stop is bounded; the
  receiver runs at the rate of the session.
- `SerialDevice`: no descriptor is left behind; an attached receiver is found, and
  nothing else is opened in its place; it takes a torn frame to set the receiver to
  a rate nobody asked for.
- `NmeaParser`: never outside its buffer or its list; resynchronises after loss;
  one location per cycle, in a cycle with a fix at this cycle's position, with the
  2D mask; a complete list of satellites after a complete burst, and none twice
  after the loss of any message but the first; the right time if the receiver's
  week rollovers leave it in this century, and a clock that settles.
- Extensions: what cannot be provided fails its getter; capabilities before
  statistics; no call keeps the mutex.

`PROJECT.json` lists every component, the hazards of the code with the line where
each bites and the properties about it, and maps each definition to its lines.

## Modules

| Module | Models | Notes |
| --- | --- | --- |
| `SerialDevice` | SerialDevice.cpp, the descriptor table, the receiver | operators over a thread `t`; no `Next` of its own |
| `Gnss` | Gnss.cpp, EXTENDS `SerialDevice` | the complete thread system |
| `GnssContract` | the promise to the framework | abstract specification |
| `GnssRefinement` | the mapping from `Gnss` to `GnssContract` | `ImplementsContract` |
| `GnssMC` | constants for TLC | |
| `GnssProofs` | theorems of `Gnss`, for racing calls | TLAPS |
| `GnssSerialProofs` | theorems of `Gnss` where `close()`, or every call, runs alone, and the refinement | TLAPS |
| `NmeaLine`, `NmeaLineMC`, `NmeaLineProofs` | `addChar` and the head of `parseSentence` | byte by byte |
| `NmeaFix`, `NmeaFixMC`, `NmeaFixProofs` | GGA, GSA, RMC, VTG and the sending of the location | sentence by sentence |
| `NmeaTokens` (proofs in `NmeaLineProofs`) | the tokenizer and `str2int`, EXTENDS `NmeaLine` | pure functions, on the lines `NmeaLine` reports |
| `NmeaSvs`, `NmeaSvsMC`, `NmeaSvsProofs` | GSV and the used satellites of GSA | message by message |
| `NmeaClock`, `NmeaClockMC`, `NmeaClockProofs` | date, time, rollover and clock steering of RMC | step by step, in real time |
| `DeviceResolve`, `DeviceResolveMC` | how `open()` finds the tty | entry by entry of the scan |
| `UbxFrame`, `UbxFrameMC` | the bytes of CFG-RATE and the loop that writes them | write by write |
| `SerialDeviceProofs` | theorems of `DeviceResolve` and `UbxFrame` | TLAPS |
| `Extensions`, `ExtensionsMC`, `ExtensionsProofs` | the getters and `GnssPowerIndication` | lock by lock, call by call |

**Gnss and SerialDevice.** A client is a binder thread, `pc[c]` the place in the
method it serves; readers are the threads `start()` creates, reused once ended.
Every action makes at most one access to state another thread may change without
a lock. A call into `SerialDevice` is recorded in `dev[t]` and is carried out by
the device's own steps (`RateCheck`, `RateWrite`, `CloseCheck`, `CloseFd`,
`CloseStore`, ...), between which the other threads run. Since `mFd` is a plain
int, a step that uses it may use the value the thread loaded before or the current
one. The kernel is `fdTable` (what each number refers to, lowest free number
first); a read that is in progress is not ended by `close()`, only by data, an
error or the cable. `mThread` is the thread the `std::thread` refers to; assigning
to it while it refers to one, or joining what is already being joined, sets
`aborted` (`std::terminate`), after which only `Restart` (init) can run. The
callback is called with the lock held (`calling`), so its duration is visible.
The parser is reduced to "one buffer yields up to `MaxReports` reports". The
history variables `balance`, `late` and `lateAll` count reports for the
properties and influence nothing.

**NmeaLine.** The wire carries lines of any of `Lengths`; bytes reach the parser
while the session is active. Of the buffer's contents the model keeps whether it
holds a prefix of the current line or a mixture.

**NmeaFix.** A receiver's cycle is a sequence of sentences; the values are
replaced by their ages in cycles. All sentences of a cycle tell the same fix. A
value may also be `"time"`, the timestamp, which has no flag of its own. `lost`
says that a sentence of this cycle was lost.

**NmeaSvs.** Bursts of numbered GSV messages, any of which may be lost, and GSA
between bursts. The 12 slots of `mUsedInFix` are a set. The entries of a message are
appended one by one, each if there is room. `begun` (message 1 of this burst was
heard) and `heard` (the satellites heard since) are history.

**NmeaTokens.** Characters are ASCII codes, pointers are indices. The reference is
the other direction: sentences are put together from lists of fields, and the
tokens have to be those fields again. An `int` holds nine digits; what `str2int`
makes of more is undefined in the code, and nothing is said of it.

**NmeaClock.** An instant is a number, a date the instant of its midnight. `RMC`
is the head of the handler (`TimelessRMC` that of an RMC with a date and no time),
`Shift` one turn of the rollover loop, `Stamp`, `Compare` and `Steer` what
follows; between them time goes on (`Tick`) and others set the clock. `told` is
what a perfect parser would have understood, `clockSource` who set the clock last.
A receiver `behind` by n rollovers tells the time of n * 1024 weeks ago, with a
two-digit year.

**DeviceResolve.** A tty is the USB id found on the way up from it, at what depth,
and the id above that. `ScanEntry` is one turn of the `readdir()` loop; `Move` lets
a tty come or go at any moment. `steady` are the names nothing happened to since
`open()` began: `readdir()` promises nothing about the others.

**UbxFrame.** `wire` is the byte stream the receiver gets. It is not reset by torn
frames: the receiver looks for a frame at every position. `inTurn` is history: no
thread has written inside another's frame, and no write has failed with six or
seven bytes of its frame out. It restricts nothing; the code has no lock that keeps
frames in turn. The checksum is computed
as in the code, byte by byte modulo 256, and checked by the receiver by its sums.

**Extensions.** A thread in `GnssPowerIndication` takes the mutex, calls the
framework, returns and unlocks. The getters are tables of what they answer and
whether the object is shared or new; `wrapper` is what the framework makes of it.

Definitions whose comment starts with "Mutant" are wrong versions of the
definition below them, one for each property: with the wrong version in place
TLC finds that property violated. They take no part in the specifications.

## Runs

All of `GnssMC` unless noted. Sizes are on two workers.

| Run (cfg) | Question | Result |
| --- | --- | --- |
| `GnssOneClient` | one client, every fault, two descriptors: `TypeOK`, `RateFollowsSessionOnceCalled`, refinement `ImplementsContract` | holds, 265 000 states, 40 s |
| `GnssRacing` | two clients that race in `setCallback()`, `start()`, `stop()`, `startNmea()` and `stopNmea()`, and call `close()` only while nothing else runs (`CloseAloneSpec`), two callbacks, two reports per buffer, a tty that refuses its settings or fails to read: `OneReader`, `DescriptorKept`, `ClosedMeansQuiet`, `NoWaitCycle`, `StatusBalance`, `CallbackStable`, `AtMostOneLate`, `AtMostOneLateBuffer` | holds, 413 000 states, 60 s |
| `GnssLiveness` | one client, also switching NMEA on and off, device opens, receiver talks, reads may fail: `ServiceStaysUp`, `CloseReturns`, `StopReturns`, `SessionServed` | holds, 46 000 states, 25 s |
| `NmeaLine` (`NmeaLineMC`) | buffer of 9, sentences from 3, lines of 1 to 13; fields of six texts, up to 4 of them for 3 tokens: `BufferFits`, `CleanLineReported`, `SplicedOnlyAfterLoss`, `FieldsRead` | holds, 3 900 states |
| `NmeaFix` (`NmeaFixMC`) | three orders of sentences: `OneFixPerCycle`, `EveryFixReported`, `NoAltitudeIn2D`, `LocationAge` | holds, 94 000 states |
| `NmeaSvs` (`NmeaSvsMC`) | list of 4, messages of 2 satellites, 3 talkers: `CompleteBurstReported`, `BurstReplaces`, `OthersKept` | holds, 337 000 states, 60 s |
| `NmeaClock` (`NmeaClockMC`) | the real calendar in units of 6 hours, around 2025-01-01, in 2026 and at the end of the correctable time, 0 to 2 rollovers: `NmeaClockTypeOK`, `RolloverExact`, `CarriedDateLags`, `ClockHealed`, `SteeringSettles` | holds, 154 000 states |
| `Extensions` (`ExtensionsMC`) | two threads, two callbacks, every getter: `FrameworkSurvives`, `CapabilitiesFirst`, `StatsDelivered`, `PowerCallsReturn` | holds, 15 600 states, 20 s |
| `DeviceResolve` (`DeviceResolveMC`) | three names, four kinds of tty, two moves during an `open()`: `ReceiverFound`, `LowestUsed`, `ReceiverOpened` | holds, 38 000 states |
| `UbxFrame` (`UbxFrameMC`) | two threads, two frames, three short writes, periods of 250, 1000 and 6207 ms: `PhantomNeedsTear`, `IntactApplied` | holds, 266 000 states, 10 s |
| `StartAfterFailedOpen` | does a call ever end the process? (`ServiceStaysUp`) | yes: `start()` after a reader that could not open the device |
| `SilentReceiver` | does `close()` end the reader's `read()`? (`CloseReturns`) | no: it waits for ever if the receiver is silent |

The last two are disagreements between the code and its comments or README;
`PROJECT.json` quotes the sentence each contradicts.

What the runs show, in words:

- *Time.* The rollover correction is exact from the floor, 2025-01-01, up to 1024
  weeks later, to the instant on both sides, provided the RMC has its date and the
  receiver believes to be in this century; if it does not, it is wrong
  (`RolloverExact` says both). With one rollover that covers the whole correctable
  time, with two only what comes after 2039. A date that is missing is replaced by
  the last one, so the time can lag by days and never leads. Once a right RMC has
  been compared with the system clock the clock is within the threshold and the
  age of the sentence; a threshold below that age would make the clock jump with
  every sentence (README.md:85 advises 20 to 60 s).
- *Finding the tty.* A receiver attached all the time is found and the lowest name
  among those wins, whatever else comes and goes. What is opened may be another
  device only if its name changed hands between the scan's look at it and `open()`.
- *Frames.* A frame written without interruption is accepted whatever came before
  it, by a receiver that looks for frames at every position. The receiver *can* be
  set to a period nobody asked for: `NoPhantomPeriod` does not hold. 6207 ms is among
  the run's periods because of that: a header torn off in front of the frame for
  6207 ms reads as 25269 ms. (Longer pieces make others: a header and the low byte of
  193 ms in front of the frame for 1139 ms read as 46529 ms.) What the run and the
  proof show is when it can happen: only after a thread wrote inside another's frame,
  or a write failed when six or seven bytes of a frame were out
  (`PhantomNeedsTear`). The code excludes neither. README.md:87-88 promises that the
  interval that was set "is pushed to the receiver as a UBX `CFG-RATE` message".
- *Satellites.* After message 1 of a burst the list holds nothing older of its
  constellation, and nothing twice, whatever else is lost. After the loss of message
  1 nothing is claimed: the old entries stay.
- *Racing calls.* What the framework has to keep apart is `close()`. As long as that
  runs alone, `start()`, `stop()` and the rest may race: one reader runs at a time,
  nothing is lost or left behind, and if the device opens nothing ends the process.
  That the receiver's rate follows the session, and the order of the contract's
  reports, need every call to run alone.
- *Locations.* In a cycle with a fix that arrives complete, the location sent has
  this cycle's position, whatever was lost in earlier cycles. In a cycle without a
  fix a GSA can send the position an earlier cycle left, although NmeaParser.h:37
  speaks of a location "once a position fix is complete": nothing is claimed of such
  cycles. Only a receiver that sends RMC first gets its own cycle's timestamp.

**Bounds.** One client is a framework that serialises its calls; in `GnssRacing`
two race. The proofs cover any number. Two readers are enough for one client: it
holds at most one unassigned thread and `mThread` one; with two clients there are
three. `MaxFd = 1` gives the tty a descriptor that another part of the process may
hold or reuse. `MaxReports = 2` lets a report follow one that was already late.
Intervals below and above the clamp, and none in the sessions where rates are not
the question. `kMaxNmeaSize`, `kMaxSvs`, `SatsPerGSV` are scaled down so that the
lengths on both sides of each bound occur; the theorems hold for the real values.
`MaxAge` only has to tell this cycle from older ones. `Times` are windows around
the instants where the correction changes, wide enough for two midnights;
`MaxDelay` and the thresholds lie on both sides of each other. The ttys include a
device exactly as deep as the walk goes and one below a hub with the receiver's
id; with two moves a name can pass to another tty. `MaxFrames` and
`MaxShortWrites` allow a frame to be torn in any place by another, and a failed
one to precede an intact one. Symmetry (of readers; in `GnssRacing` of clients and
callbacks too) is used in runs without liveness.

**Fairness.** `ThreadFairness`: a thread that can run, does, including a thread
waiting for the mutex once it is free. This is weak fairness of each thread's
steps as a whole; it is what the scheduler and `std::mutex` give as long as the
holder releases it in the end. It includes that the framework's callbacks return,
since a call of one ends with a step of the thread that made it, and that a write
to the tty ends (a receiver that holds it up with CTS is not modelled). Nothing is
assumed of when the framework calls, of the cable, or of what the receiver sends.
`GnssLiveness` adds `ReceiverSends`: a read of a live tty ends. Without it
`close()` does not return, which is what `SilentReceiver` shows. EINTR is not
among the faults of `GnssLiveness`. `FairSpec` of `Extensions` is weak fairness of
the steps inside the mutex, so callbacks return and do not call the interface
again, and strong fairness of taking it, because other calls may take it in
between any number of times.

## Proofs

`tlapm` checks, for every value of the constants that satisfies the named
assumptions (`DeviceAssumption`, `GnssAssumption`, `NmeaLineAssumption`,
`SvsAssumption`, `NmeaFixAssumption`, `ClockAssumption`, `CalendarAssumption`,
`ExtensionsAssumption`, `ResolveAssumption`, `FrameAssumption`,
`TokensAssumption`):

| Theorem | Property | Inductive invariant |
| --- | --- | --- |
| `TypeCorrect` | `TypeOK` | itself, part by part: device, control, session, callback, rate, report, history |
| `CallbackStaysStable` | `CallbackStable` | `CallInv`: a callback is being called only while the lock is held, and it is `mCallback` |
| `AtMostOneLateReport` | `AtMostOneLate` | `LateInv`: a report of kind k was issued when k was enabled, or is the one already past its test |
| `AtMostOneLateBufferReports` | `AtMostOneLateBuffer` | `BufferInv`: late reports plus those the buffer still holds stay within `MaxReports` |
| `StatusesBalance` | `StatusBalance` | `BalanceInv`: `balance` plus the clients on their way to a begin, minus those on their way to an end, is 1 if the session is active and 0 otherwise; counting uses the cardinality lemmas of FiniteSetTheorems |
| `WaitsEnd` | `NoWaitCycle` | `WaitInv`: the lock is held by exactly the thread inside a call of the callback, which waits for nothing here, and one `close()` at a time joins, and joins a reader |
| `OneReaderRuns` | `OneReader` | `OwnInv` |
| `ClosedIsQuiet` | `ClosedMeansQuiet` | `QuietInv`: when every client's last call was `close()`, all is released; from `OwnInv` and `DescriptorInv` at the end of `close()` |
| `DescriptorNeverLost` | `DescriptorKept` | `DescriptorInv` |
| `RateFollowsSession` | `RateFollowsSessionOnceCalled` | `RateInv`: the receiver has the session's period, or a client is on its way to tell it; `FlagInv`: a call finds the flag as its exchange left it; `WriterInv`: a period is written to the descriptor in `mFd` |
| `ServiceKeepsUp` | `ServiceStaysUp` | `UpInv`: a thread that is assigned finds `mThread` empty, one client at a time is between its exchange of `mThreadRunning` and the assignment, and `mThread` refers to a reader only while `mThreadRunning` or during `close()` |
| `SerialCallsKeepContract` | `ImplementsContract` | `BalanceInv`, `OwnInv`, `FlagInv`, and `BatchInv`: outside a buffer's reports nothing is left of a buffer; each action is a step of the contract or a stutter |
| `BufferNeverOverruns` | `BufferFits` | itself, with the types it contains |
| `SpliceNeedsLoss` | `SplicedOnlyAfterLoss` | `UnspoiltInv`: while nothing is lost the buffer is empty, skipping, or a prefix of the current line |
| `CleanLinesReported` | `CleanLineReported` | `GoodInv`: after good lines the parser is synchronised with the wire |
| `FieldsAlwaysRead` | `FieldsRead` | none; it is about functions: joined fields lie behind each other (`JoinSpreads`), the tokenizer's loop stands at the beginning of each in turn (`LoopPlaces`), and the digits read one by one are the value by weights (`NumbersReadRight`) |
| `NoAltitudeSentIn2D` | `NoAltitudeIn2D` | `MaskInv` |
| `FixTypeCorrect` | `NmeaFixTypeOK` | `FixTypeInv`: with the types, fewer locations were sent than sentences arrived |
| `ClockTypeCorrect` | `NmeaClockTypeOK` (that no RMC is from the future is put in by the environment) | `TypeInv`: with the types, an RMC that is being handled has a date and a positive time |
| `RolloverIsExact` | `RolloverExact` | `ShiftInv`: if the receiver believes to be in this century, the time under correction is congruent to the true one modulo 1024 weeks and below the end of the correctable time, and the two bounds leave one value; if not, it is past that end from the start |
| `OneRolloverIsExact` | - | a corollary: with one rollover at most every instant of the correctable time is exact, if 2000 is a rollover or more before the floor, as it is |
| `CarriedDateOnlyLags` | `CarriedDateLags` | `DateInv`: a date in force is the one the receiver sent with the last dated RMC; `CarriedInv`: the time under correction is that day with the told time of day, off by whole rollovers only, and a sent one is not off at all |
| `ClockStaysHealed`, `SteeringIsSettled` | `ClockHealed`, `SteeringSettles` | `ClockInv` and `HandlingInv`: how far the clock can be off given who set it, and how old the RMC being handled can be |
| `ExtensionsTypeCorrect`, `FrameworkAlwaysSurvives` | `ExtensionsTypeOK` (in no run), `FrameworkSurvives` | `TypeInv`: with the types, every thread is served by the one object, and nothing null was wrapped |
| `CalledStaysRegistered` | `CalledIsRegistered` (in no run) | `CallingInv`: a callback being called is the object's, since its caller has the mutex |
| `StatsAreDelivered` | `StatsDelivered` | `DeliveryInv`: a setter inside the mutex has stored its argument, and what a request expects is still the object's callback as long as nobody sets another |
| `CapabilitiesComeFirst` | `CapabilitiesFirst` | `IntroducedInv`: unless a thread is about to tell it, the object's callback has been told the capabilities |
| `ResolveTypeCorrect`, `AttachedReceiverFound`, `LowestNameUsed`, `OpenedIsReceiver` | `ReceiverFound`, `LowestUsed`, `ReceiverOpened` | `ScanInv`: of the names visited that did not move exactly the receivers are matches; `ResultInv`: the scan ended with all steady names visited and the path is its least match |
| `OneFixAtMost` | `OneFixPerCycle`, if in every order no position sentence stands between a GGA or GSA and a later GSA, and GGA occurs once at most (`ReportsOnce`) | `OnceInv`: a cycle that has sent its location did so at a GGA or GSA before here, and if there is a position again, its sentence came behind that one |
| `FixesReported` | `EveryFixReported` (earlier cycles may have lost sentences), if in every order a position sentence stands before each GSA (`PositionFirst`) | `FreshInv`: as long as nothing is lost, behind a position sentence of a cycle with a fix the position is this cycle's and waits or has been sent, and behind a GSA it has been sent |
| `LocationsAreFresh` | `LocationAge`, under `PositionFirst` | `FreshInv`, and `TimeInv`: behind the RMC that begins a complete cycle the time is this cycle's |
| `SvsTypeCorrect` | `SvsTypeOK` (in no run) | itself |
| `BurstsReplace` | `BurstReplaces` | `ReplaceInv`: from message 1 on the list's entries of the constellation are the first n satellites heard, all of them while there is room; that appending one by one is appending and cutting is `AppendIsCut`, by induction over the entries |
| `CompleteBurstsReported` | `CompleteBurstReported` | `BurstInv`: while a burst arrives complete, and until it is reported, a list with room holds of its constellation exactly the satellites told so far |
| `OthersAreKept` | `OthersKept` (an action property) | types and the list's capacity; what `OfThese` keeps of a list that grows or is cut |
| `PhantomsNeedTears` | `PhantomNeedsTear`, for `FrameSpec` as the run | while `inTurn` holds, `Pieces`: the wire is a sequence of pieces, each the beginning of a frame asked for and none cut just before or inside its period; `EndsWith`: a thread inside its frame wrote the piece at the end of the wire. What the receiver reads as a header begins a piece, and the period behind it is that piece's (`HeaderAligned`) |
| `IntactFramesApplied` | `IntactApplied` | `WireInv`: a thread inside the write loop has the end of its frame left, and the wire ends with its beginning unless another thread wrote meanwhile; a frame written in one go is somewhere in the wire |

`GnssRacing` checks `NoWaitCycle`, `StatusBalance`, `CallbackStable` and the two late
bounds where `close()` runs alone, as it checks the others; their theorems need no such
hypothesis. What is proved of `ServiceStaysUp` with racing calls is run with one client.

The theorems of `GnssSerialProofs` are about a framework that keeps its calls apart,
from whatever binder threads. `CloseAlone` says that nothing else runs during a
`close()`, `OneAtATime` that nothing runs during any call; `CloseAloneSpec` and
`SerialSpec` are `Spec` with them, and `CloseAloneCalls` and `SerialCalls` prove they are
nothing else. The invariants are about who is where:

- `PlaceInv`: a thread inside a `SerialDevice` method is at the place in `Gnss`
  that called it. It holds for any calls.
- `OwnInv`: one reader lives, and it is the one `mThread` refers to, or the one a
  `start()` is about to assign; `mThreadRunning` is false only when the readers
  are gone or `close()` waits for them; a `start()` about to create a reader is
  the only one and finds none. It holds if `close()` runs alone.
- `DescriptorInv`: the receiver's descriptor is the one in `mFd`; who holds it is a
  reader between its `open()` and its `close()`; a thread that loaded `mFd` to close
  it has that value still, or the device was closed meanwhile; while a client is
  inside `close()`, no reader is opening. It holds if `close()` runs alone, and so do
  `OneReaderRuns`, `DescriptorNeverLost`, `ClosedIsQuiet` and `ServiceKeepsUp`.
- `FlagInv`, `WriterInv` and `RateInv` hold if every call runs alone, and so do
  `RateFollowsSession` and `SerialCallsKeepContract`.

Without these hypotheses the theorems are false. Two `close()` calls join the same
thread, and a `start()` during a `close()` opens what is being closed, which is why
`close()` has to be alone; a `stop()` inside `setPositionMode()` is overwritten, and a
`stop()` that overtakes a `start()` reports its end first, which is why the last two
theorems ask for more. `ServiceKeepsUp` also needs a device that opens
(`DeviceOpens`: reads may fail or be interrupted, but nothing else goes wrong): after a
failed `open()` the next `start()` ends the process, as `StartAfterFailedOpen` shows. No
theorem bounds the number of clients, readers, descriptors or reports.

`WaitsEnd` needs no hypothesis. The service has one mutex and one join; every wait is
for the thread that holds the one or for the reader of the other, and `close()` gives
up the lock of its SESSION_END report before it joins, and takes it again after. What
it does not say is that the joined reader gets on: a read that nothing ends is not a
wait for another thread (`SilentReceiver`).

The two hypotheses on orders are those of real receivers (GGA or RMC before GSA,
no position between the GSAs of a cycle); the orders of the run satisfy both.
They are needed: a receiver that sends GGA, RMC, GSA has two locations sent in its
first cycle, one that sends GSA first has each fix sent a cycle late.

Several models read lists of any length. The induction theorems of the library take
an operator as a parameter, which the provers cannot instantiate; `SetInduction` and
`SequenceInduction` of `NmeaSvsProofs` are induction over sets instead, from the
library's theorem that a well-founded relation has minimal elements. What `OfThese`,
a recursive function, returns is proved with them. `IntervalInduction` and
`RecursionExists` of `NmeaLineProofs` do the same for numbers: that a recursion over
an interval has a solution, and what the loops of the tokenizer, of `str2int`, and
of the sentence they are compared with compute. The checksum of a frame has ten
steps; they are taken one by one, with the lemma that reducing modulo 256 after each
byte or at the end gives the same.

Model-checked only:

- Liveness (`CloseReturns`, `StopReturns`, `SessionServed`, `PowerCallsReturn`), which is
  out of the prover's reach.
- Which periods make phantoms once frames are torn. 16 bits of checksum do not tell
  every mixture from a frame, and TLC finds some that are accepted.

## Known weaknesses no run is spent on

These follow from the models as well; most are hazards in `PROJECT.json`.

- After an end of file or a read error the reader is gone, but `mThreadRunning`
  stays true (Gnss.h:115 calls it "reader thread alive"): no session gets data
  until `close()`. `SessionServed` is run with read errors, and escapes through
  `ReaderLost` when it happens.
- The reader's first CFG-RATE is decided at Gnss.cpp:149 and written later; it can
  overwrite the rate of a `start()`, `stop()` or `setPositionMode()` in between.
- Two `close()` calls at once can join the same thread twice.
- `mFd` races: `CloseFd` can close a descriptor number the process has reused.
- A newline that is the overflowing byte of a line is dropped, and the parser
  skips the whole next line (NmeaParser.cpp:151-157).
- Two half lines around a pause of the session are reported as one sentence
  (`SplicedOnlyAfterLoss` says that this is the only way). The checksum of a
  sentence is cut off and never verified (NmeaParser.cpp:62-63), so nothing later
  rejects it.
- `mHaveGsa` is never cleared: a receiver that stops sending GSA gets no location.
- GSA sends a location in any mode, so a cycle without a fix can send the last
  position of a cycle before (NmeaParser.h:37 speaks of a complete fix; `LocationAge`
  is about cycles with one). Receivers that send GGA or GSA first get the time of an
  earlier cycle, and at their first fix the time 0.
- When message 1 of a GSV burst is lost, the rest is appended to the old list, which
  is reported with satellites in it twice, until it is full.
- A torn CFG-RATE frame with a whole one behind it can set the receiver to a period
  nobody asked for (`PhantomNeedsTear` says when). A receiver that skips the length
  which a torn header announces loses the frame behind it, which the model's receiver
  does not.
- `USED_IN_FIX` is matched by number against the last GSA of any constellation.
- A receiver so far behind that it believes to be in 1980-99 sends a two-digit year
  that is read as 2080-99, past the floor, and is not corrected; README.md:195-199
  promises the correction for any number of rollovers. A receiver two rollovers
  behind is not corrected until 2039.
- `max_rate` accepts up to 65535 ms, README.md says 65000; `device`, `usb` and
  `ttybaud` are read at each `open()`, README.md:77 says at service start.
- `setCallback()` of `AGnss`, `AGnssRil`, `GnssVisibilityControl` and `GnssAntennaInfo`
  assigns a `shared_ptr` without a lock; a framework callback that called
  `IGnssPowerIndication` again would wait for its own mutex.

## Not modelled

`str2float` and `convertFromHHMM`, which are floating-point arithmetic; the flags of
`applyTermios`, of which only success or failure is modelled; the decoding of the
properties other than `max_rate`; the answers of the extensions without state;
registration with the service manager; a write to the tty that blocks because the
receiver withholds CTS; the moments within one entry's walk up sysfs during the scan,
which is one step; `injectTime` and its siblings, which do
nothing; packaging and sepolicy. These keep no state and run in one thread, or
are outside the program.

## Plan

1. Done: `SerialDevice`, `Gnss`, contract, line accumulator, tokens, location,
   satellites, clock, finding the tty, UBX frames, extensions, with the proofs above.
2. A composition of line, location and satellites with the reader's buffers.
