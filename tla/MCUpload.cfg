SPECIFICATION Spec
CONSTANTS
    Names = {L}
    NoFolder = NoFolder
    MaxSession = 3
    MaxIndex = 1
    MaxPosts = 4
INVARIANTS InItsFolder NoFileAtTheRoot NothingWaits
CHECK_DEADLOCK FALSE
