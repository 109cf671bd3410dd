SPECIFICATION Spec
CONSTANTS
    Retry = 2
    BacklogRetry = 1
    Cmd = {a, b, c}
    NoCmd = NoCmd
    Timely = TRUE
    MaxLoss = 3
    MaxBacklog = 3
SYMMETRY Symmetry
INVARIANTS TypeOK AckMeansHeard TimeoutMeansLoss
PROPERTY DeliverySpec
CHECK_DEADLOCK FALSE
