SPECIFICATION Spec
CONSTANTS
    Codes <- OneMinusLocal
    Constants <- SomeConstants
    Locals <- SomeLocals
INVARIANT
    MeaningKept
