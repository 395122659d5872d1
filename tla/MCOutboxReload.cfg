SPECIFICATION FairSpec
CONSTANTS
    NumGroups = 1
    Chunks = 2
    MaxAttempts = 2
    Concurrency = 2
    MaxInst = 2
    Paced = FALSE
    Crashes = TRUE
    Reloads = TRUE
    LostAcks = FALSE
INVARIANTS DuplicateFlagged
PROPERTIES KeepsPromise ReplyResolved EverySettles
