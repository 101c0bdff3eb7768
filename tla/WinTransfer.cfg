SPECIFICATION Spec
CONSTANTS
    Reads = {r1}
    Writes = {}
    Pages = 2
    Frames = {"f1", "f2"}
    Shapes <- OneTransfer
    ResourceLists <- MCResourceLists
    CtlCalls = {}
    MayFail = {}
INVARIANT
    CompletedReadsWereTransferred
CHECK_DEADLOCK FALSE
