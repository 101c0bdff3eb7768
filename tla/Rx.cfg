SPECIFICATION FairSpec
CONSTANTS
    Readers = {r1}
    ReadLens = {1, 3}
    MaxBlocks = 6
    TxMayFill = TRUE
    CDEVBUFFSIZE = 5
    DMABUFFSIZE = 2
    DMARXBUFFS = 4
    DMARXDESCS = 3
    DMARXDESCDELAY = 1
    InFlightMax = 1
INVARIANTS
    TypeOK
    RingAccounting
    TakesBlocksInOrder
    ReadsContinueStream
PROPERTIES
    ReceptionContinues
    StopEnds
CHECK_DEADLOCK FALSE
