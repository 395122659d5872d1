SPECIFICATION FairSpec
CONSTANTS
  brief = brief
  poll = poll
  remind = remind
  Schedules = {poll}
  Manifest = {poll}
  KindOf <- KindsOf
  Interval = 2
  Jitter = 1
  AtTime = 3
  MissedCap = 9
  Horizon = 2
  MaxTime = 6
  MaxRuns = 3
  Suspends = TRUE
  Crashes = TRUE
  Edits = TRUE
  Patches = TRUE
  Strangers = TRUE
INVARIANT TypeOK
INVARIANT OneRunAtATime
PROPERTY DueIsTaken
