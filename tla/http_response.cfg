SPECIFICATION ResponseSpec
CONSTANTS
    MaxBody = 3
INVARIANTS
    ClientFindsEnd
    CloseAgreed
\* The connection is closed or lost in the end.
CHECK_DEADLOCK FALSE
