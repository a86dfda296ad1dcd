SPECIFICATION Spec
CONSTANTS
  Thread = {t1, t2}
  Worker = {w1, w2}
  None = None
  Global = Global
  Lease = 1
  RetryDelay = 1
  Retries = 1
  Idle = 1
  MaxAge = 5
  MaxUnused = 1
  MaxClaimed = 1
  MaxRaw = 2
  HeartbeatsOnTime = FALSE
  MaxTime = 3
  MaxInput = 3
SYMMETRY Symmetry
INVARIANTS
  TypeOK
  
  SuccessHasItsOutput
  RunningBounded
  RetriesLeft
PROPERTIES
  JobsFenced
