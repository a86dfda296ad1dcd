SPECIFICATION FairSpec
CONSTANTS
  Prompt = {p1}
  Mail = {m1}
  Trigger = {m1}
  MaxTurns = 4
  MaxStates = 5
  MaxInterrupts = 1
  MaxStandalone = 0
  MaxDetours = 1
  FinishMayPend = FALSE
  AbortIsPrompt = TRUE
CHECK_DEADLOCK FALSE
PROPERTIES
  
  EveryTurnEnds
