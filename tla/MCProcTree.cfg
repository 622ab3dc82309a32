CONSTANTS
    Users = {u1, u2, u3, u4}
    Init1 = init
    NULL = null
SPECIFICATION Spec
INVARIANTS
    ChildrenExact
    SiblingsLinked
    PointersValid
PROPERTIES
    ListSpec
