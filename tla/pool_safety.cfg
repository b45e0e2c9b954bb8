SPECIFICATION Spec
CONSTANTS
    Conns = {c1, c2, c3}
    Handlers = {h1, h2, h3}
    NoConn = NoConn
    MinThreads = 1
    MaxThreads = 2
    MaxChunks = 1
    MaxFailures = 1
SYMMETRY Symmetry
INVARIANTS
    IndInv
    OneConnectionPerHandler
    RequestOfConnection
    OpenIsTimed
    BusyMeansInUse
    PoolBounded
    ReapsOnlySpare
PROPERTIES
    ImplementsService
