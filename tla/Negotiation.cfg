SPECIFICATION FairSpec
CONSTANTS
    NPorts = 2
    Motor <- MCMotor
    At <- MCAt
    Boards <- MCBoards
    MotorVersions <- MCMotorVersions
    Tries = 2
INVARIANTS
    SupportedRequests
    FunctionAgreed
    TorqueFactorReported
PROPERTIES
    NegotiationEnds
CHECK_DEADLOCK FALSE
