\* The receive thread, with lost bytes and reads that time out.
CONSTANTS
    Motors <- MCMotors
    Sendable <- MCSendable
    BufLen = 8
    MaxFaults = 2
SPECIFICATION FairSpec
INVARIANTS
    AcceptedAsSent
    EffectsAsSent
    EveryFrameIsTaken
PROPERTIES
    FindsFramesAgain
