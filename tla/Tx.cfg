SPECIFICATION FairSpec
CONSTANTS
    Writers = {w1}
    WriteLens = {1, 3, 4, 6}
    StreamLen = 15
    CDEVBUFFSIZE = 7
    DMABUFFSIZE = 2
    DMATXBUFFS = 4
    DMARXBUFFS = 4
    DMATXDESCS = 6
    DMATXDESCDELAY = 2
    InFlightMax = 2
INVARIANTS
    TypeOK
    CopiesKeepToTheirSide
    DmaBufferStable
    RingAccounting
PROPERTIES
    ImplementsByteStream
    AcceptedBytesAreSent
    FittingWriteReturns
    StopEnds
CHECK_DEADLOCK FALSE
