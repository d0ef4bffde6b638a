SPECIFICATION Spec
CONSTANTS
    N = 1
    OtherNodes = 3
PROPERTIES
    OwnFailuresOnly
