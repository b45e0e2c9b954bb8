SPECIFICATION Spec
CONSTANTS
    Requests = {r1, r2}
    Paths = {p1, p2}
    Sizes = {1, 2, 3}
    MaxCachedFileSize = 2
    MaxCost = 3
    CacheTime = 1
    MaxTime = 3
SYMMETRY Symmetry
INVARIANTS
    BoundedStaleness
    CacheFits
