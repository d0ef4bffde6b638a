SPECIFICATION FairSpec
CONSTANTS
    N = 1
    OtherNodes = 0
PROPERTIES
    RecoversOrExits
