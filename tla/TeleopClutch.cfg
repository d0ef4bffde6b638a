CONSTANTS
    MaxPose = 2
    Pad <- MCPad
    MaxHome = 1
SPECIFICATION Spec
PROPERTIES
    ClutchStartsHere
