SPECIFICATION Spec
CONSTANTS
    d1 = d1
    d2 = d2
    None = None
    Devices <- MCDevices
    Adverts <- MCAdverts
    Saved <- MCSaved
    QueueMax = 1
    TableMax = 2
    GiveUp = 1
INVARIANTS
    NavLeadsHome
    ScanIsForeground
    ClickIsMeant
PROPERTIES
    StoreIsDeliberate
    ScanSettles
