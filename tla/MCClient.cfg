SPECIFICATION FairSpec
CONSTANTS
    media = media
    ctl = ctl
    Sock <- TwoSockets
    Base = 1
    MaxWait = 4
    MaxRetry = 4
    StaleAfter = 3
    Cooldown = 5
    PerUser = 3
    MaxFaults = 3
INVARIANTS
    SettledPageIsQuiet
PROPERTY
    PageComesBack
