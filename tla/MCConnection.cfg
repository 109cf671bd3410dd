SPECIFICATION FairSpec
CONSTANTS
    States = {0, 4, 2048}
    Unshown = Unshown
    Garbage = {TRUE, FALSE}
    MaxPress = 2
    MaxList = 2
    MaxEvents = 2
INVARIANTS DownStaysDown AgreedIsShown
PROPERTIES ConnectedMeansAll UpIsNoticed
CHECK_DEADLOCK FALSE
