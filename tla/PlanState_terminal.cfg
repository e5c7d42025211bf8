CONSTANTS
  a = a
  b = b
  c = c
  paddedA = paddedA
  StepIds = {a, b, c, paddedA}
  NoStep = NoStep
  MaxSteps = 3
  Trim <- MCTrim
  MaxVersion = 3
SYMMETRY Symmetry
SPECIFICATION PlanSpec
PROPERTY TerminalIsImmutable
CHECK_DEADLOCK FALSE
