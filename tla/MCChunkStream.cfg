SPECIFICATION StreamSpec
CONSTANTS
    Wrap = 5
    Window = 1
    None = None
    Sizes = {1, 3, 7}
    MaxChunks = 2
    LongestGap = 2
    Disorder = {0, 2}
    Stale = {0, 1, 3}
INVARIANTS StreamTypeOK StreamSlotsAreOwn HolesAreFound RepairIsOwn
CHECK_DEADLOCK FALSE
