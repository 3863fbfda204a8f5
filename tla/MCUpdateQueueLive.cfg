SPECIFICATION RecoverySpec
CONSTANTS
    s1 = s1  s2 = s2  w1 = w1  w2 = w2
    Keys <- MCKeys
    Workers <- MCOneWorker
    Api = Api
    None = None
    MinDelay = 1
    MaxDelay = 2
    MaxRev = 1
    MaxCalls = 2
    Shutdowns = {"stop"}
CHECK_DEADLOCK FALSE
INVARIANTS
    NoHeadOfLineBlocking
PROPERTIES
    PushedIsSynced
    StopTerminates
