SPECIFICATION FairSpec
CONSTANTS
  Prompt = {p1, p2}
  Mail = {}
  Trigger = {}
  MaxTurns = 4
  MaxStates = 5
  MaxInterrupts = 0
  MaxStandalone = 1
  MaxDetours = 0
  FinishMayPend = FALSE
  AbortIsPrompt = TRUE
CHECK_DEADLOCK FALSE

  
PROPERTIES
  PromptSettles
