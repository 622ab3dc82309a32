CONSTANTS
    N = 4
    TIMES = 2
    Mutex = mutex
SPECIFICATION FairSpec
INVARIANTS
    TypeOK
    NoLostPermit
    NeighboursExclude
    MutexExact
    NobodyForgotten
PROPERTIES
    AllQuit
