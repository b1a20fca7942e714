SPECIFICATION FairSpec
CONSTANTS
    SW1_BACK = SW1_BACK
    Switches = {SW1_BACK}
    SWITCH_DEBOUNCE = 2
    MCP_RETRY_INTERVAL = 2
    MaxPass = 2
    MaxFaults = 2
INVARIANTS
    NoFlash
    CacheIsTrue
PROPERTIES
    PressesAreReal
    RecoveryRestores
