SPECIFICATION Spec
CONSTANTS
    de_AT = de_AT
    de = de
    Default = Default
    Requests = {r1, r2}
    Names = {de_AT, de, Default}
    Locales = {de_AT, de}
    Language <- MCLanguage
    Accepted <- MCAccepted
    Objects = {o1, o2, o3, o4, o5}
    NoObject = NoObject
    Sizes = {0, 1, 3}
    MaxCost = 1
    CacheTime = 2
    MaxTime = 2
SYMMETRY Symmetry
INVARIANTS
    LoaderInv
    BoundedStaleness
    PreferredFirst
PROPERTIES
    NeverReplacedByOlder
\* The calls come to an end.
CHECK_DEADLOCK FALSE
