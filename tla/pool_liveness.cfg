SPECIFICATION FairSpec
CONSTANTS
    Conns = {c1, c2}
    Handlers = {h1, h2}
    NoConn = NoConn
    MinThreads = 0
    MaxThreads = 2
    MaxChunks = 1
    MaxFailures = 0
PROPERTIES
    AcceptedEnds
    MainReturns
    IdlePoolShrinks
