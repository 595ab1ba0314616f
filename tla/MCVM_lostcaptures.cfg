SPECIFICATION Spec
CONSTANTS
    Programs <- ClosureCallsClosure
    NativeResults <- Natives
    Sessions = {}
    Arguments = {}
    DepthValues = 256
    MaxSp = 8
INVARIANT CapturesAtHand
