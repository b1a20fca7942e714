SPECIFICATION FairSpec
CONSTANTS
    DISPENSER_DEFAULT_DURATION = 1
    DISPENSER_MAX_DURATION = 2
    TimerQueueLength = 2
    STORAGE_WRITE_QUEUE_LENGTH = 1
INVARIANTS
    MotorOnlyInCycle
PROPERTIES
    PositionResetIsSafe
    CycleEnds
    DurationSurvives
