SPECIFICATION FairSpec
CONSTANTS
    Streams <- Pipelined
    MaxSize = 14
    MaxMultiPartSize = 15
    MaxInt = 31
INVARIANTS
    TypeOK
    FramedExactly
    SizeBounded
PROPERTIES
    AllRead
\* The client stops sending after the last byte.
CHECK_DEADLOCK FALSE
