SPECIFICATION FairSpec
CONSTANTS
    N = 2
    Measure = 4
    Trim = 1
    Compensated = 2
    RepeatWrap = 6
    Travel = {1, 3}
    Garbage = {TRUE, FALSE}
    Timely = TRUE
    MaxLoss = 1
INVARIANTS TypeOK SyncedMeansGood GoodOneWasTheLast AverageIsOfSome NoDeviceIsPassedOver
PROPERTY UserIsTold
CHECK_DEADLOCK FALSE
