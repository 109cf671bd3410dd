SPECIFICATION FairSpec
CONSTANTS
    Retry = 2
    BacklogRetry = 1
    Cmd = {a, b, c}
    NoCmd = NoCmd
    Timely = FALSE
    MaxLoss = 2
    MaxBacklog = 3
INVARIANTS NoRequestLost RetryBudget
PROPERTY AlwaysFree
CHECK_DEADLOCK FALSE
