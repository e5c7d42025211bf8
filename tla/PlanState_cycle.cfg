CONSTANTS
  a = a
  b = b
  c = c
  paddedA = paddedA
  StepIds = {a, b, c, paddedA}
  NoStep = NoStep
  MaxSteps = 3
  Trim <- MCTrim
  MaxVersion = 2
SYMMETRY Symmetry
SPECIFICATION PlanSpec
INVARIANT CyclesRefused
CHECK_DEADLOCK FALSE
