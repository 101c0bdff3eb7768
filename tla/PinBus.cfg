SPECIFICATION Spec
CONSTANTS
    Progs = {p1, p2}
    MaxSessions = 2
    MaxExposed = 1
    Sessions <- MCSessions
INVARIANTS
    TypeOK
    FieldsHoldLastSet
    ChipsLatchWhatWasSent
    PeriphFollowsPrograms
CHECK_DEADLOCK FALSE
