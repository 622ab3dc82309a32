CONSTANTS
    Users = {u1, u2}
    Idle = idle
    Init1 = init
    None = none
    AnyPid = any
    MAX_TIME_SLICE = 2
    MaxSleep = 2
SPECIFICATION FairSpec
PROPERTIES
    KilledExits
