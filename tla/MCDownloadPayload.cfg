SPECIFICATION Spec
CONSTANTS
    Retry = 2
    BacklogRetry = 1
    Wrap = 5
    Window = 1
    None = None
    Counts <- TwoChunks
    NoCmd = NoCmd
    NoFile = NoFile
    Garbage = Garbage
    Timing = {TRUE}
    Prompt = TRUE
    Losable = {}
    Mixed = FALSE
    MaxGap = 2
    MaxPkgLoss = 1
    MaxLoss = 0
    MaxBacklog = 4
INVARIANT PayloadIsIntact
CHECK_DEADLOCK FALSE
