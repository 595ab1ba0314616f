SPECIFICATION Spec
CONSTANTS
    Programs <- CalleeCatches
    NativeResults <- Natives
    Sessions = {}
    Arguments = {}
    DepthValues = 256
    MaxSp = 8
PROPERTY FindsHandler
