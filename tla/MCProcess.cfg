CONSTANTS
    Users = {u1, u2, u3}
    Idle = idle
    Init1 = init
    None = none
    AnyPid = any
    MAX_TIME_SLICE = 1
    MaxSleep = 1
SYMMETRY UserSymmetry
SPECIFICATION Spec
INVARIANTS
    TypeOK
    RunQueueExact
    NoLostChildExit
    TreeConsistent
    TimerOwned
    ShutdownClean
PROPERTIES
    ZombieOnlyReaped
