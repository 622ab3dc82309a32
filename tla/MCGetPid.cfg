CONSTANTS
    MAX_PROCESS = 6
    MAX_PID = 8
SPECIFICATION FairSpec
INVARIANTS
    TypeOK
    PidUnique
    GapUnused
PROPERTIES
    ScanEnds
    PoolSpec
