CONSTANTS
    MaxPose = 2
    Pad <- MCPad
    MaxHome = 1
SPECIFICATION Spec
INVARIANTS
    UntouchedPadIsStill
    OneMoreMotion
PROPERTIES
    ReleasedStickStops
    NoGhostPress
