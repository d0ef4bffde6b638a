SPECIFICATION Spec
CONSTANTS
    NPorts = 2
    Motor <- MCMotor
    At <- MCAt
    Boards <- MCBoards
    MotorVersions <- MCMotorVersions
    Tries = 2
INVARIANTS
    UnsetFunctionReported
CHECK_DEADLOCK FALSE
