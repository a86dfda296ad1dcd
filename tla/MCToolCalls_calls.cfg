SPECIFICATION Spec
CONSTANTS
  MaxTurns = 2
  MaxCalls = 3
  Call = {i1, i2, pm, ex}
  PermissionCall = {pm}
  InputCall = {i1, i2}
  ParallelCall = {ex}
  MutatingCall = {ex}
  Snapshots = TRUE
  None = None
CHECK_DEADLOCK FALSE
INVARIANTS
  TypeOK
  AnswerToItsQuestion
  
  WaiterHeld
  GrantsOfTheTurn
  MutatesAfterSnapshot
PROPERTIES
  AbortSettlesCalls
