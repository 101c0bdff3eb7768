SPECIFICATION Spec
CONSTANTS
    Freqs = {0, 2400000, 4294967}
    Gains = {}
    Options <- MCOptions
    IntRange = 4294967
    PhaseSteps = 32767
    MaxRuns = 1
    MaxFails = 1
INVARIANT
    OnlyZeroPowersDown
CHECK_DEADLOCK FALSE
