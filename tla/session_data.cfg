SPECIFICATION DataSpec
CONSTANTS
    Objects = {o1, o2, o3, o4}
    MaxCount = 5
INVARIANTS
    NotFreedInUse
\* The life of one session ends when no object refers to its data.
CHECK_DEADLOCK FALSE
