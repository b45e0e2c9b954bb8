SPECIFICATION DataSpec
CONSTANTS
    Objects = {o1, o2}
    MaxCount = 5
INVARIANTS
    NoUseAfterFree
CHECK_DEADLOCK FALSE
