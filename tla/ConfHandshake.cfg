CONSTANTS
    m1 = m1  m2 = m2  m3 = m3
    Motor <- MCMotor
    Singles = TRUE
    Broadcasts = TRUE
    MaxCalls = 2
    MaxTries = 3
    SettledAt <- Both
SPECIFICATION FairSpec
CHECK_DEADLOCK FALSE
INVARIANTS
    SavedMeansSaved
    ZeroedBeforeSaving
PROPERTIES
    CalibrationEnds
    ImplementsCalibration
