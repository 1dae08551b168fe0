SPECIFICATION FairSpec
CONSTANTS
    t1 = t1
    t2 = t2
    cb1 = cb1
    cb2 = cb2
    p1 = p1
    p2 = p2
    NoThread = NoThread
    NoCallback = NoCallback
    BinderThreads <- TwoThreads
    Callbacks <- TwoCallbacks
    Objects <- TwoObjects
    Power = p1
INVARIANTS FrameworkSurvives CapabilitiesFirst StatsDelivered
PROPERTY PowerCallsReturn
