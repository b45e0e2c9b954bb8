SPECIFICATION FairSpec
CONSTANTS
    Requests = {r1, r2}
    Ids = {i1, i2}
    NoId = NoId
    Unknown = Unknown
    Expiration = 0
INVARIANTS
    CookieInv
PROPERTIES
    CookieKept
    NoRevival
    AbandonedErased
\* The server may be idle when all ids of the model have been issued.
CHECK_DEADLOCK FALSE
