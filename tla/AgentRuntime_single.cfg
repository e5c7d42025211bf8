CONSTANTS
  s1 = s1
  s2 = s2
  r1 = r1
  NoStep = NoStep
  Trim <- MCTrim
  NoRun = NoRun
  NoPlan = NoPlan
  StepIds = {s1, s2}
  Runs = {r1}
  MaxSteps = 2
  MaxAttempts = 2
  MaxToolCalls = 2
  MaxChecks = 2
  CancelCalls = TRUE
  ExternalSignals = TRUE
  Abandons = TRUE
  PromptConsumers = TRUE
SPECIFICATION FairSpec
INVARIANTS TypeOK StepsInDependencyOrder StopsAtFirstTrouble CompletedOnEvidence
INVARIANTS LastEventAgreesWithPlan ReportAgreesWithPlan
PROPERTIES AbortStopsWork RunEnds
CHECK_DEADLOCK FALSE
