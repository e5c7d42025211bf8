SPECIFICATION RunnerSpec
CONSTANTS
  Streams = {"stdout"}
  MaxBytes = 1
  MaxWritten = 2
  MaxChecks = 1
INVARIANT PassedMeansExitZero
CHECK_DEADLOCK FALSE
