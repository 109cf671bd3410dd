SPECIFICATION FairSpec
CONSTANTS
    Retry = 2
    BacklogRetry = 1
    Wrap = 5
    Window = 1
    None = None
    Counts <- ThreeChunks
    NoCmd = NoCmd
    NoFile = NoFile
    Garbage = Garbage
    Timing = {TRUE, FALSE}
    Prompt = TRUE
    Losable = {"OK", "START", "NO_CHUNK"}
    Mixed = FALSE
    MaxGap = 2
    MaxPkgLoss = 3
    MaxLoss = 2
    MaxBacklog = 4
INVARIANTS TypeOK AckMeansWritten
PROPERTIES SavesInOrder DownloadEnds
CHECK_DEADLOCK FALSE
