SPECIFICATION Spec
CONSTANTS
    a1 = a1  here = here  there = there
    Motor <- MCMotor
    Arm <- MCArm
    Gripper = grip
    Setpoint <- MCSetpoint
    Legal <- MCLegal
    Zero = here
    NOP = NOP
    FunV = 5
    Unread = unread
    Links <- MCLinks
INVARIANTS
    SeededFromPosition
CHECK_DEADLOCK FALSE
