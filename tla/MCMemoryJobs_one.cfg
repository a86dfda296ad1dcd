SPECIFICATION Spec
CONSTANTS
  Thread = {t1}
  Worker = {w1, w2}
  None = None
  Global = Global
  Lease = 2
  RetryDelay = 1
  Retries = 3
  Idle = 1
  MaxAge = 9
  MaxUnused = 9
  MaxClaimed = 1
  MaxRaw = 2
  HeartbeatsOnTime = TRUE
  MaxTime = 3
  MaxInput = 4
SYMMETRY Symmetry
INVARIANT OneConsolidation
