SPECIFICATION Spec
CONSTANTS
    Devices = {"a", "b", "c"}
    Wearable = {"a", "b"}
    None = "none"
    MaxSearch = 2
    MaxPress = 2
INVARIANTS AtMostTwoSelected SidesDiffer
CHECK_DEADLOCK FALSE
