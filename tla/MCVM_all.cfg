SPECIFICATION FairSpec
CONSTANTS
    Programs <- AllPrograms
    NativeResults <- Natives
    Sessions <- SessionPrograms
    Arguments <- HostArguments
    DepthValues = 256
    MaxSp = 18
INVARIANTS
    TypeOK
    DepthExact
    OutcomeExact
    CatchNeedsThrow
    UpvalsOfInnermost
    BaseIsCalleeSlot
    OperandsInFrame
PROPERTIES
    ArmedFindsHandler
    BeginsAfresh
    Ends
