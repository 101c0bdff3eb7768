SPECIFICATION FairSpec
CONSTANTS
    Readers = {r1}
    ReadLens = {2}
    MaxBlocks = 4
    TxMayFill = FALSE
    CDEVBUFFSIZE = 5
    DMABUFFSIZE = 2
    DMARXBUFFS = 4
    DMARXDESCS = 4
    DMARXDESCDELAY = 1
    InFlightMax = 1
INVARIANT
    CopiesNeverOverlap
CHECK_DEADLOCK FALSE
