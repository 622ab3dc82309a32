CONSTANTS
    N = 4
    TIMES = 2
    Mutex = mutex
    NextSem = next
SPECIFICATION FairSpec
INVARIANTS
    TypeOK
    NoLostPermit
    NeighboursExclude
    OneInMonitor
    SignalledMayEat
PROPERTIES
    AllQuit
