CONSTANTS
  s1 = s1
  r1 = r1
  r2 = r2
  NoStep = NoStep
  Trim <- MCTrim
  NoRun = NoRun
  NoPlan = NoPlan
  StepIds = {s1}
  Runs = {r1, r2}
  MaxSteps = 1
  MaxAttempts = 0
  MaxToolCalls = 1
  MaxChecks = 1
  CancelCalls = TRUE
  ExternalSignals = FALSE
  Abandons = TRUE
  PromptConsumers = FALSE
SYMMETRY Symmetry
SPECIFICATION CallersSpec
INVARIANTS LockHolds CancelWorks LockReleased
PROPERTY KeepsContract
CHECK_DEADLOCK FALSE
