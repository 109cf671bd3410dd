SPECIFICATION FairSpec
CONSTANTS
    N = 2
    Retries = 1
    MaxBegin = 3
INVARIANTS WaitingMeansNotThere CounterIsRight
PROPERTIES NothingTooEarly StartEnds
CHECK_DEADLOCK FALSE
