SPECIFICATION FairSpec
CONSTANTS
  Proc = {p1, p2, p3}
  HalfRing = 2
  None = None
INVARIANTS
  TypeOK
  ReadyClosesSubscription
  SingleFlip
  TokensAuthorise
PROPERTIES
  ReadyIsFinal
  
  ParkedWaiterWakes
