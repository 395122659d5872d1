SPECIFICATION FairSpec
CONSTANTS
    Procs = {p1, p2}
    Subs = {s1}
    Events = {e1, e2}
    Heard <- MCHeard
    Warned = {s1}
    Retries = 1
    Batch = 1
    MaxExits = 1
    StoreFails = TRUE
CHECK_DEADLOCK FALSE
INVARIANTS TypeOK AckTruth AttemptsBounded
PROPERTIES DeliverySettles
