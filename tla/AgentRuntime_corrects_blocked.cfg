CONSTANTS
  s1 = s1
  r1 = r1
  NoStep = NoStep
  Trim <- MCTrim
  NoRun = NoRun
  NoPlan = NoPlan
  StepIds = {s1}
  Runs = {r1}
  MaxSteps = 1
  MaxAttempts = 2
  MaxToolCalls = 1
  MaxChecks = 1
  CancelCalls = FALSE
  ExternalSignals = FALSE
  Abandons = FALSE
  PromptConsumers = TRUE
SPECIFICATION Spec
INVARIANT CorrectsOnlyFailures
CHECK_DEADLOCK FALSE
