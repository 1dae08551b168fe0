--------------------------- MODULE DeviceResolve ---------------------------
(***************************************************************************)
(* How SerialDevice::open() finds the tty (resolveDevicePath,              *)
(* findUsbSerialDevice, ttyMatchesUsbId): the explicit name, or a scan of  *)
(* /sys/class/tty for the receiver's USB ids, entry by entry, while ttys   *)
(* come and go.                                                            *)
(***************************************************************************)
EXTENDS Integers

CONSTANTS
    Names,          \* tty names, numbered in their sorting order
    Ttys,           \* what a name may stand for: [usb, depth, above]
    Absent,         \* no such tty
    NoId,           \* a directory without idVendor and idProduct
    UsbId,          \* the ids of persist.vendor.gps.usb
    MaxMoves        \* bound on ttys coming and going during one open()

kMaxDepth == 4      \* `depth < 4`

\* The USB device of a tty is `depth` directories up, below the hub `above`; a
\* port of the board has neither.
ASSUME ResolveAssumption ==
    /\ Names \subseteq Int
    /\ Absent \notin Ttys
    /\ UsbId # NoId
    /\ \A tty \in Ttys : tty.depth \in Nat \ {0} /\ (tty.usb = NoId => tty.above = NoId)
    /\ MaxMoves \in Nat

VARIABLES
    sysfs,          \* what each name stands for
    step,           \* where open() is
    explicit,       \* persist.vendor.gps.device was set
    visited,        \* names the scan has looked at
    matches,
    mDevicePath,
    moves,
    steady,         \* history: names that stand for the same tty since open() began
    unmoved         \* history: names that do since the scan looked at them

resolveVars == <<sysfs, step, explicit, visited, matches, mDevicePath, moves, steady, unmoved>>

Steps == {"closed", "usb", "scan", "node", "opened", "invalid", "unresolved", "refused"}

ResolveTypeOK ==
    /\ sysfs \in [Names -> Ttys \union {Absent}]
    /\ step \in Steps
    /\ explicit \in BOOLEAN
    /\ visited \subseteq Names /\ matches \subseteq visited
    /\ step \in {"node", "opened", "refused"} => mDevicePath \in Names
    /\ moves \in Nat
    /\ steady \subseteq Names /\ unmoved \subseteq Names

ResolveInit ==
    /\ sysfs \in [Names -> Ttys \union {Absent}]
    /\ step = "closed" /\ explicit = FALSE
    /\ visited = {} /\ matches = {} /\ mDevicePath = Absent
    /\ moves = 0 /\ steady = {} /\ unmoved = {}

-----------------------------------------------------------------------------
\* The ids in the d-th directory of the walk up from the tty.
IdAt(tty, d) ==
    IF d < tty.depth THEN NoId ELSE IF d = tty.depth THEN tty.usb ELSE tty.above

\* Mutant: any directory on the way up may match.
AnyAncestorMatches(tty) == \E d \in 1 .. kMaxDepth : IdAt(tty, d) = UsbId

\* Mutant: the last directory of the walk is left out.
ShortWalkMatches(tty) ==
    \E d \in 1 .. kMaxDepth - 1 :
        IdAt(tty, d) = UsbId /\ \A e \in 1 .. d - 1 : IdAt(tty, e) = NoId

\* The first directory with ids decides.
ttyMatchesUsbId(tty) ==
    \E d \in 1 .. kMaxDepth :
        IdAt(tty, d) = UsbId /\ \A e \in 1 .. d - 1 : IdAt(tty, e) = NoId

\* open(), resolveDevicePath: "Explicit node name wins."
OpenBegin ==
    /\ step \in {"closed", "invalid", "unresolved", "refused"}
    /\ \/ /\ explicit' = TRUE /\ step' = "node"
          /\ mDevicePath' \in Names
       \/ explicit' = FALSE /\ step' = "usb" /\ mDevicePath' = Absent
    /\ visited' = {} /\ matches' = {} /\ unmoved' = {} /\ moves' = 0
    /\ steady' = {n \in Names : sysfs[n] # Absent}
    /\ UNCHANGED sysfs

\* parseUsbId and opendir
BeginScan ==
    /\ step = "usb"
    /\ step' \in {"scan", "invalid"}
    /\ UNCHANGED <<sysfs, explicit, visited, matches, mDevicePath, moves, steady, unmoved>>

\* One entry of the directory.  Its walk through sysfs is one step: a tty that
\* goes in the middle of it counts as there or as gone.
ScanEntry(n) ==
    /\ step = "scan"
    /\ n \notin visited /\ sysfs[n] # Absent
    /\ visited' = visited \union {n}
    /\ matches' = IF ttyMatchesUsbId(sysfs[n]) THEN matches \union {n} ELSE matches
    /\ unmoved' = unmoved \union {n}
    /\ UNCHANGED <<sysfs, step, explicit, mDevicePath, moves, steady>>

\* Mutant: the last of the sorted names.
HighestMatch == {m \in matches : \A n \in matches : n <= m}

\* `matches.front()` after the sort
LowestMatch == {m \in matches : \A n \in matches : m <= n}

\* readdir() returns every entry that was there all the time.
ScanEnd ==
    /\ step = "scan"
    /\ steady \subseteq visited
    /\ \/ /\ matches = {} /\ step' = "unresolved"
          /\ UNCHANGED mDevicePath
       \/ step' = "node" /\ mDevicePath' \in LowestMatch
    /\ UNCHANGED <<sysfs, explicit, visited, matches, moves, steady, unmoved>>

\* `::open(mDevicePath)`, applyTermios: by name, so whatever the name stands
\* for by now.
OpenNode ==
    /\ step = "node"
    /\ \/ sysfs[mDevicePath] # Absent /\ step' = "opened"
       \/ step' = "refused"
    /\ UNCHANGED <<sysfs, explicit, visited, matches, mDevicePath, moves, steady, unmoved>>

CloseNode ==
    /\ step = "opened"
    /\ step' = "closed"
    /\ UNCHANGED <<sysfs, explicit, visited, matches, mDevicePath, moves, steady, unmoved>>

\* A tty goes, or comes, under any free name.
Move(n, tty) ==
    /\ moves < MaxMoves
    /\ sysfs[n] = Absent \/ tty = Absent
    /\ sysfs[n] # tty
    /\ sysfs' = [sysfs EXCEPT ![n] = tty]
    /\ moves' = moves + 1
    /\ steady' = steady \ {n} /\ unmoved' = unmoved \ {n}
    /\ UNCHANGED <<step, explicit, visited, matches, mDevicePath>>

ResolveNext ==
    \/ OpenBegin \/ BeginScan \/ (\E n \in Names : ScanEntry(n)) \/ ScanEnd
    \/ OpenNode \/ CloseNode
    \/ \E n \in Names, tty \in Ttys \union {Absent} : Move(n, tty)

ResolveSpec == ResolveInit /\ [][ResolveNext]_resolveVars

-----------------------------------------------------------------------------
(* Properties                                                              *)

\* The tty is a receiver the walk can reach.
IsReceiver(tty) == tty # Absent /\ tty.usb = UsbId /\ tty.depth <= kMaxDepth

\* A receiver that is attached all the time is found, under whatever name it
\* enumerated (README.md:92-94).
ReceiverFound == step = "unresolved" => \A n \in steady : ~IsReceiver(sysfs[n])

\* A node is opened only under a name that was given or found; and of several
\* receivers the lowest-sorting name is used, also when others come and go
\* (README.md:95-96).
LowestUsed ==
    step \in {"node", "opened", "refused"} =>
        /\ mDevicePath \in Names
        /\ ~explicit => \A n \in steady : IsReceiver(sysfs[n]) => mDevicePath <= n

\* What is opened is a receiver, unless its name was given to another tty
\* after the scan had looked at it.
ReceiverOpened ==
    step = "opened" /\ ~explicit /\ mDevicePath \in unmoved => IsReceiver(sysfs[mDevicePath])
=============================================================================
