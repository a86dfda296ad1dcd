SPECIFICATION FairSpec
CONSTANTS
  Proc = {p1, p2}
  HalfRing = 2
  None = None
PROPERTIES
  WaitReadyReturns
