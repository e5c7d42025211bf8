SPECIFICATION Spec
CONSTANTS
  x = x
  y = y
  MaxSteps = 3
  StepIds <- MCStepIds
  NoStep = NoStep
  Trim <- MCTrim
  NoId = x
  Stray = y
  Answers <- MCAnswers
  Calls = 2
  MaxChunks = 5
  MaxLines = 4
  None = None
  Unset = Unset
INVARIANT CodeChangesVerified
CHECK_DEADLOCK FALSE
