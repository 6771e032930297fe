SPECIFICATION PlaybackFairSpec
CONSTANTS
    MaxCandidates = 2
    Limit = 2
    Window = 3
    Backstep = 1
    Lag = 1
    MaxPts = 3
    Depth = 2
    MaxTroubles = 7
INVARIANTS
    PlaybackTypeOK
    NoFrameIsRefused
PROPERTIES
    PictureComesBack
    GivesUpForAReason
