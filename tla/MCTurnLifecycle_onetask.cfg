SPECIFICATION Spec
CONSTANTS
  Prompt = {p1}
  Mail = {m1}
  Trigger = {m1}
  MaxTurns = 4
  MaxStates = 5
  MaxInterrupts = 0
  MaxStandalone = 0
  MaxDetours = 0
  FinishMayPend = FALSE
  AbortIsPrompt = TRUE
CHECK_DEADLOCK FALSE
INVARIANTS
  OneTask
