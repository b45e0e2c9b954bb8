SPECIFICATION Spec
CONSTANTS
    Pages = {p1, p2}
    Scenarios = {s1, s2}
    MaxMoments = 2
    MaxMessages = 6
    MaxInbox = 1
INVARIANTS
    IndInv
    UsedOnce
    CarNotLost
PROPERTIES
    Handled
CHECK_DEADLOCK FALSE
