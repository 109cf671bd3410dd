SPECIFICATION FairSpec
CONSTANTS
    N = 2
    Wearables = {0, 1}
    Garbage = {FALSE}
    UserWaits = TRUE
    MaxStart = 2
    MaxIndex = 2
    MaxEvents = 1
    MaxMishap = 1
INVARIANTS TypeOK IndexIsACatch OneAtATime
PROPERTIES KeptUnlessTold ToldAtTheEnd
CHECK_DEADLOCK FALSE
