SPECIFICATION FairSpec
CONSTANTS
    N = 2
    OtherNodes = 2
INVARIANTS
    ReceiverHasDriver
    OneOpenPerDevice
    NoFailureIsMissed
PROPERTIES
    ClearsOnlyAfterFailure
    LostDeviceIsDropped
    RecoversOrExits
