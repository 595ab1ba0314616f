SPECIFICATION Spec
CONSTANTS
    a = a
    b = b
    f = f
    one = one
    Names <- ManyNames
    Routines <- OneRoutine
    Literals <- OneLiteral
    ParamLists <- SomeParams
    UsesLists <- SomeUses
    DEFAULT_SYMBOL_COUNT = 3
    ANYVEC_DEFAULT_SIZE = 3
    TBASIC_MAX_COMPILE_ERRORS = 0
    MaxErrors = 1
    MaxConstructs = 5
SYMMETRY Renamed
INVARIANTS
    ScopesFollowNesting
    FrameFits
    JumpsLandInTheirLoop
    NamesKeepTheirSlot
    CapturesLineUp
