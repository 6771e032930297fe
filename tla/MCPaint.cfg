SPECIFICATION FairSpec
CONSTANTS
    Window = 2
    confirmTimeout = 1
    screenshotGap = 1
    probeFaultLimit = 2
    confirmFailLimit = 2
    Buffer = 1
INVARIANTS
    FailedCheckIsExplained
PROPERTIES
    AilmentsEndIt
CHECK_DEADLOCK FALSE
