CONSTANTS
    NPages = 8
    Sizes = {1, 2, 3}
    MaxUsed = 4
SPECIFICATION Spec
INVARIANTS
    TypeOK
    FreeListSound
PROPERTIES
    FirstFitSpec
