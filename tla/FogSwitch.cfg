SPECIFICATION FairSpec
CONSTANTS
    START_INTERVAL = 1
    STOP_RESEND = 1
    QueueLength = 1
    CommandLength = 1
    MaxNotes = 2
PROPERTIES
    ReadyIsUsed
    SwitchOffStops
