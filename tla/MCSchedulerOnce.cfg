SPECIFICATION FairSpec
CONSTANTS
    brief = brief
    poll = poll
    remind = remind
    Schedules = {brief, remind}
    Manifest = {remind}
    KindOf <- KindsOf
    Interval = 3
    Jitter = 1
    AtTime = 3
    MissedCap = 1
    Horizon = 2
    MaxTime = 9
    MaxRuns = 3
    Suspends = TRUE
    Crashes = TRUE
    Edits = TRUE
    Patches = FALSE
    Strangers = FALSE
INVARIANTS OccurrenceFate 
PROPERTIES OneShotRuns
