CONSTANTS
    a1 = a1  home = home  away = away  out = out
    open = open  half = half  closed = closed
    Motor <- MCMotor
    Arm <- OneMotor
    Gripper = grip
    Setpoint <- MCSetpoint
    Legal <- MCLegal
    Zero = home
    NOP = NOP
    FunV = 5
    Home = home
    Open = open
    Half = half
    Closed = closed
    None = None
    Malformed = Malformed
    Unknown = Unknown
    SetZero = SetZero
    Offered <- Moves
    MaxSteps = 2
    MaxPending = 1
    LinkFails = FALSE
SPECIFICATION Spec
PROPERTIES
    DisabledGripperHolds
