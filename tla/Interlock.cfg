SPECIFICATION Spec
CONSTANTS
    Wrap = 8
    LAUNCH_LOCKOUT = 3
    PREPARE_START_TIMEOUT = 2
    PREPARE_TIMEOUT = 3
    REJECT_FLASH = 1
    MaxDelta = 2
INVARIANTS
    LaunchesApart
    ReadyIsHonest
PROPERTIES
    FollowsRule
