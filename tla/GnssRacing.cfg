SPECIFICATION CloseAloneSpec
CONSTANTS
    c1 = c1
    c2 = c2
    cb1 = cb1
    cb2 = cb2
    r1 = r1
    r2 = r2
    r3 = r3
    noCallback = noCallback
    noThread = noThread
    NoCallback <- noCallback
    NoThread <- noThread
    Clients <- TwoClients
    Readers <- ThreeReaders
    Callbacks <- TwoCallbacks
    Intervals <- OneInterval
    MaxRateProps <- MaxRateUnset
    MaxReports = 2
    MaxFd = 0
    Faults <- TermiosAndRead
    Calls <- LifecycleAndNmea
INVARIANTS
    OneReader
    DescriptorKept
    ClosedMeansQuiet
    NoWaitCycle
    StatusBalance
    CallbackStable
    AtMostOneLate
    AtMostOneLateBuffer
SYMMETRY RacingSymmetry
