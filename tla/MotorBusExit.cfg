CONSTANTS
    m1 = m1  m2 = m2  grip = grip
    p1 = p1  p2 = p2
    inside = inside  outside = outside
    Motor <- MCMotor
    Arm <- MCArm
    Gripper = grip
    Port <- MCPort
    PortOf <- MCPortOf
    Setpoint <- MCSetpoint
    Legal <- MCLegal
    Zero = inside
    NOP = NOP
    PosLimited <- MCPosLim
    TorLimited <- MCTorLim
    FunV = 5
    ExitBrake = TRUE
SPECIFICATION Spec
CHECK_DEADLOCK FALSE
PROPERTIES
    ExitReleasesBrake
