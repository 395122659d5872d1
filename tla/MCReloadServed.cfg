SPECIFICATION FairSpec
CONSTANTS
  Turns = {t1, t2}
  MaxReloads = 2
  Cap = 2
  None = none
  Disposes = TRUE
CHECK_DEADLOCK FALSE
INVARIANTS TypeOK SwappedStaysIdle NeverWedged
PROPERTIES ReloadResolves
