SPECIFICATION Spec
CONSTANTS
    MaxSession = 3
    MeasureDelay = 1
    BurstMin = 1
    BurstMax = 2
    BurstDefault = 1
    QueueLength = 2
    MaxClients = 2
INVARIANTS
    SessionBounded
    FailsafePending
    ControlReportsSession
PROPERTIES
    KeepsPromise
