SPECIFICATION Spec
CONSTANTS
    Freqs <- MCFreqs
    Gains <- MCGains
    Options <- MCOptions
    IntRange = 4294967
    PhaseSteps = 32767
    MaxRuns = 2
    MaxFails = 1
INVARIANTS
    TypeOK
    ChipTuned
    ChipWithinLimits
    DdcMakesUpResidue
    GainsKept
CHECK_DEADLOCK FALSE
