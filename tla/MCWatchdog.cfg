SPECIFICATION WatchdogFairSpec
CONSTANTS
    StallAfter = 1
    NoVideoAfter = 1
    KickCooldown = 3
    MaxAway = 1
    StatusBuffer = 1
INVARIANT PageIsCurrent
PROPERTIES
    DropIsFollowedUp
    AilingAgentIsRestarted
