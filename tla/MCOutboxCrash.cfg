SPECIFICATION Spec
CONSTANTS
    NumGroups = 2
    Chunks = 2
    MaxAttempts = 2
    Concurrency = 1
    MaxInst = 2
    Paced = TRUE
    Crashes = TRUE
    Reloads = FALSE
    LostAcks = TRUE
INVARIANTS TypeOK InOrder
