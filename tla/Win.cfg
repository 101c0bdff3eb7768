SPECIFICATION FairSpec
CONSTANTS
    Reads = {r1, r2}
    Writes = {w1}
    Pages = 2
    Frames = {"f1", "f2"}
    Shapes <- MCShapes
    ResourceLists <- MCResourceLists
    CtlCalls <- MCCtlCalls
    MayFail <- MCMayFail
INVARIANTS
    TypeOK
    TransactionServesOwner
    PollsMappedCard
    ThreadsEndBeforeContext
    PinsHoldLastSet
    TransfersKeepTheirPages
PROPERTIES
    ReadsCompleteUnlessWritten
    RemovalEndsUnlessWritten
CHECK_DEADLOCK FALSE
