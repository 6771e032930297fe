SPECIFICATION FairSpec
CONSTANTS
    Probing = TRUE
    MaxOrders = 1
INVARIANTS
    PendingIsWaited
    DropsItsOwn
    NoFailureIsSwallowed
PROPERTIES
    ReaderIsFreed
    SessionIsReplaced
    RestartIsObeyed
