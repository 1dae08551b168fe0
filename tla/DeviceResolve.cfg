SPECIFICATION ResolveSpec
CONSTANTS
    gps = gps
    hub = hub
    Names <- ThreeNames
    Ttys <- SomeTtys
    Absent = Absent
    NoId = NoId
    UsbId = gps
    MaxMoves = 2
INVARIANTS ReceiverFound LowestUsed ReceiverOpened
