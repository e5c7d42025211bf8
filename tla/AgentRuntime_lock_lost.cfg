CONSTANTS
  s1 = s1
  r1 = r1
  r2 = r2
  NoStep = NoStep
  Trim <- MCTrim
  NoRun = NoRun
  NoPlan = NoPlan
  StepIds = {s1}
  Runs = {r1, r2}
  MaxSteps = 1
  MaxAttempts = 1
  MaxToolCalls = 1
  MaxChecks = 1
  CancelCalls = TRUE
  ExternalSignals = FALSE
  Abandons = FALSE
  PromptConsumers = TRUE
SPECIFICATION Spec
INVARIANT MutualExclusion
CHECK_DEADLOCK FALSE
