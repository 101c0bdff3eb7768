SPECIFICATION FairSpec
CONSTANTS
    Procs = {p1, p2}
    MayFail = {"write_buff"}
    LoadMayFail = {}
    EarlyOpen = FALSE
    HeapInts = {0, 1}
    NumBuffs = 2
    UnwindFrom = 0
    LeakBound = 0
PROPERTY
    OpenCallReturns
CHECK_DEADLOCK FALSE
