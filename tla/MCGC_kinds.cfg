SPECIFICATION Spec
CONSTANTS
    CellCapacity = 2
    HeapPopMax = 3
    ByteBits = 1
    Prim = Prim
    NULL = NULL
    Kinds = {"list", "string", "dict", "closure", "err", "iter"}
    MaxSp = 3
    MaxItems = 1
    MaxNodes = 2
INVARIANTS
    TypeOK
    MarkSound
CHECK_DEADLOCK FALSE
