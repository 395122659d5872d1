SPECIFICATION FairSpec
CONSTANTS
  Runtimes = {r1, r2}
  None = none
  Pids = {1, 2}
  InitPid = 1
  Reuse = 2
  ProcReadable = FALSE
  Overlap = FALSE
  Lapses = TRUE
  Wedges = FALSE
PROPERTY DeadLeaseRecovered
