CONSTANTS
    m1 = m1  m2 = m2  m3 = m3
    Motor <- MCMotor
    Singles = FALSE
    Broadcasts = TRUE
    MaxCalls = 1
    MaxTries = 2
    SettledAt <- Before
SPECIFICATION Spec
CHECK_DEADLOCK FALSE
SYMMETRY Swap
INVARIANTS
    SavedMeansSaved
