SPECIFICATION FairSpec
CONSTANTS
    ble = ble
    button = button
    Callers <- MCCallers
    Button = button
    SlowPos = 1
    TopPos = 2
    MaxPos = 3
INVARIANTS
    SingleOwner
    FreeIsPublished
    LatchedForRun
    MotorOwned
    LedOnMeansReady
PROPERTIES
    RunEnds
