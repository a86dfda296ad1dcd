SPECIFICATION Spec
CONSTANTS
  Call = {c1, c2, c3}
  Resumer = {c3}
  Path = {p1}
  Thread = {root, t1, t2}
  Root = root
  Candidates = {{}, {ada}, {ada, alan}}
  MaxThreads = 2
  Limited = TRUE
  RootPath = RootPath
  Absent = Absent
  Pending = Pending
  None = None
CHECK_DEADLOCK FALSE
SYMMETRY Interchangeable
INVARIANTS
  TypeOK
  SlotsCovered
  AgentsWithinLimit
  PathOwned
  
