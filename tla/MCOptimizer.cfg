SPECIFICATION Spec
CONSTANTS
    Codes <- Expressions
    Constants <- SomeConstants
    Locals <- SomeLocals
INVARIANTS
    JoinsKept
    MeaningKeptButForOrder
