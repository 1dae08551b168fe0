SPECIFICATION TalkingSpec
CONSTANTS
    c1 = c1
    c2 = c2
    cb1 = cb1
    cb2 = cb2
    r1 = r1
    r2 = r2
    r3 = r3
    noCallback = noCallback
    noThread = noThread
    NoCallback <- noCallback
    NoThread <- noThread
    Clients <- OneClient
    Readers <- TwoReaders
    Callbacks <- OneCallback
    Intervals <- OneInterval
    MaxRateProps <- MaxRateUnset
    MaxReports = 1
    MaxFd = 0
    Faults <- ReadErrorsOnly
    Calls <- LifecycleAndNmea
INVARIANT ServiceStaysUp
PROPERTY CloseReturns StopReturns SessionServed
