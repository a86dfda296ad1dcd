SPECIFICATION FairSpec
CONSTANTS
  Call = {c1, c2, c3}
  Resumer = {}
  Path = {p1}
  Thread = {root, t1, t2}
  Root = root
  Candidates = {{}, {ada}}
  MaxThreads = 2
  Limited = FALSE
  RootPath = RootPath
  Absent = Absent
  Pending = Pending
  None = None
CHECK_DEADLOCK FALSE
PROPERTIES
  ReservedPathSettles
INVARIANTS
  SlotsReturned
