SPECIFICATION Spec
CONSTANTS
  MaxCalls = 3
  RemoteCall = {2}
  MaxProcesses = 2
  Protected = 1
  None = None
  MaxPolls = 1
  MaxFaults = 1
CHECK_DEADLOCK FALSE
INVARIANTS
  TypeOK
  StoreBounded
  StoredIdReserved
  NoOrphan
  OneEnd
PROPERTIES
  PrunesTheIdle
