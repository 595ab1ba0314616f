SPECIFICATION FairSpec
CONSTANTS
    CellCapacity = 3
    HeapPopMax = 3
    ByteBits = 1
    Prim = Prim
    NULL = NULL
    Kinds = {"list", "string"}
    MaxSp = 3
    MaxItems = 1
    MaxNodes = 2
INVARIANTS
    MarkComplete
    SweepExact
    HeapKept
PROPERTY
    CollectEnds
CHECK_DEADLOCK FALSE
