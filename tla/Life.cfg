SPECIFICATION FairSpec
CONSTANTS
    Procs = {p1, p2, p3}
    MayFail = {"rx_buffs", "tx_buffs", "read_buff", "write_buff", "read_thread", "write_thread"}
    LoadMayFail = {0, 1, 2, 3, 4, 5, 6, 7, 8, 9, 10}
    EarlyOpen = FALSE
    HeapInts = {0, 1}
    NumBuffs = 2
    UnwindFrom = 0
    LeakBound = 1
INVARIANTS
    TypeOK
    HandlesCounted
    CallsAreServed
    ThreadsHaveBuffers
    NothingLeftBehind
    CardAllOrNothing
PROPERTY
    OpenCallEndsUnlessLost
CHECK_DEADLOCK FALSE
