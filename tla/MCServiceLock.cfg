SPECIFICATION FairSpec
CONSTANTS
    g1 = g1  g2 = g2  g3 = g3
    svcA = svcA  svcB = svcB
    c1 = c1  c2 = c2  c3 = c3
    None = None
    Procs <- MCProcs
    Keys <- MCKeys
    Cells <- MCCells
INVARIANTS
    TypeOK
    MutualExclusion
    UnlockOfLocked
    WaitersShareEntry
    NoStaleEntry
PROPERTIES
    ImplementsKeyedMutex
    LockGranted
