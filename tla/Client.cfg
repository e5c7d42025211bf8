SPECIFICATION ClientSpec
CONSTANTS
  a = a
  b = b
  c = c
  paddedA = paddedA
  StepIds = {a, b, c, paddedA}
  NoStep = NoStep
  MaxSteps = 3
  Trim <- MCTrim
  MaxVersion = 3
  Requests = {q1, q2}
  None = None
  Checks = {c1}
  MaxTools = 1
INVARIANTS
  PlanWellFormed
  DependencyGraphValid
  NeverWedged
  ScreenFollowsStreams
  RunningIsRunning
  ConversationIntact
PROPERTY PromptReturns
CHECK_DEADLOCK FALSE
