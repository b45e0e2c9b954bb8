SPECIFICATION Spec
CONSTANTS
    MaxReflectNum = 5
    Rays = 3
    Crossings = {0, 1, 2}
INVARIANTS
    IndInv
    PathShape
PROPERTIES
    Terminates
CHECK_DEADLOCK FALSE
