CONSTANTS
    Procs = {p1, p2, p3, p4}
    MaxSleep = 4
SPECIFICATION Spec
INVARIANTS
    TypeOK
    HeadNotDue
    OneTimer
PROPERTIES
    LeftSpec
