SPECIFICATION FairSpec
CONSTANTS
    NumChars = 2
    Required = {1}
    QueueLength = 2
    WriteRing = 2
    MaxConn = 2
    MaxVersion = 1
    MaxSeq = 3
    MaxReloads = 1
INVARIANTS
    RequiredIsCurrent
PROPERTIES
    WritesAreAnswered
    KeepsService
