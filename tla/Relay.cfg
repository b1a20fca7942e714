SPECIFICATION FairSpec
CONSTANTS
    RELAY_RESEND = 1
    LED_PENDING_ERROR = 2
    QueueLength = 2
    MaxNotes = 2
PROPERTIES
    SwitchIsTruth
