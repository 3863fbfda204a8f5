SPECIFICATION Spec
CONSTANTS
    s1 = s1  s2 = s2  w1 = w1  w2 = w2
    Keys <- MCKeys
    Workers <- MCWorkers
    Api = Api
    None = None
    MinDelay = 1
    MaxDelay = 2
    MaxRev = 0
    MaxCalls = 3
    Shutdowns = {}
SYMMETRY MCSymmetry
CHECK_DEADLOCK FALSE
INVARIANTS
 PoolUpdateKept
