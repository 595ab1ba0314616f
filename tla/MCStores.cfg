SPECIFICATION StoresSpec
CONSTANTS
    Object = {plain, closure}
    Deletable = {plain}
    NULL = NULL
    CellCapacity = 5
    Capacity = 3
    Dud = Dud
    Item = {a, b}
    MaxPushes = 6
INVARIANTS
    TypeOK
    FreeListExact
    CostExact
    RipeAboveTwoThirds
    OneBehind
PROPERTIES
    TenuredStay
    PoolSpec
CHECK_DEADLOCK FALSE
