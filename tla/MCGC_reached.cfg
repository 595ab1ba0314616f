SPECIFICATION Spec
CONSTANTS
    CellCapacity = 3
    HeapPopMax = 4
    ByteBits = 1
    Prim = Prim
    NULL = NULL
    Kinds = {"list"}
    MaxSp = 2
    MaxItems = 1
    MaxNodes = 2
PROPERTY FreesUnreachedOnly
CHECK_DEADLOCK FALSE
