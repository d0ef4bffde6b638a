\* The transmit buffer under every order of calls; nothing ever stops it.
CONSTANTS
    Nums <- MCNums
    Callable <- MCCallable
    Modes <- MCModes
    Numbers <- MCNumbers
SPECIFICATION Spec
INVARIANTS
    TypeOK
    NoUncalledMotor
    OrderIsInFrame
    NoMotorIsSplit
PROPERTY
    WritesAreSlots
