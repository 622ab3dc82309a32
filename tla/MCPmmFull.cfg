CONSTANTS
    NPages = 6
    Sizes = {1, 2, 4}
    MaxUsed = 6
SPECIFICATION Spec
PROPERTIES
    NoDoubleAlloc
