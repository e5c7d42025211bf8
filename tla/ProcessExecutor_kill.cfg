SPECIFICATION FairExecutorSpec
CONSTANTS
  Streams = {"stdout", "stderr"}
  MaxBytes = 1
  MaxWritten = 2
PROPERTY TerminationEscalates
CHECK_DEADLOCK FALSE
