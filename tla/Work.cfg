SPECIFICATION WorkSpec
CONSTANTS
  l1 = l1
  l2 = l2
  Loops = {l1, l2}
  MaxIterations = 2
  MaxToolCalls = 3
  MaxBatch = 2
  Streams = {"stdout"}
  MaxBytes = 1
  MaxWritten = 2
  MaxChecks = 2
INVARIANTS
  BudgetKept
  ResultsAnswerCalls
  OnlyCancellationLeavesCalls
  RequestsWellFormed
  LeavesNothingBehind
  ResultIsAccurate
  PassedOnEvidence
PROPERTIES
  SilentAfterAbort
  KeepsContract
  LoopEnds
  SpawnsNothingAfterStop
  VerificationReturns
CHECK_DEADLOCK FALSE
