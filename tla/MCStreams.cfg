SPECIFICATION Spec
CONSTANTS
  t1 = t1
  t2 = t2
  Turns = {t1, t2}
  Clients = {c1, c2}
  Asks <- EitherAll
  Parent <- Family
  None = none
  MaxEvents = 2
  RetainMs = 1
  RetainCount = 1
  MaxRecorded = 2
  MaxTokens = 1
  MaxTime = 1
  Stops = TRUE
  Silent = TRUE
SYMMETRY ClientSymmetry
CHECK_DEADLOCK FALSE
INVARIANTS TypeOK StreamTruth InterestOwned BufferLife
