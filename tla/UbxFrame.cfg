SPECIFICATION FrameSpec
CONSTANTS
    reader = reader
    client = client
    Writers <- TwoWriters
    Periods <- SomePeriods
    MaxFrames = 2
    MaxShortWrites = 3
INVARIANTS PhantomNeedsTear IntactApplied
CHECK_DEADLOCK FALSE
