SPECIFICATION FairSpec
CONSTANTS
  None = None
  logs = logs
  spans = spans
  HTTP = {logs}
  GRPC = {spans}
  Key = {1, 2, 3}
  Body <- MCBody
  Traces = {spans}
  Parent <- MCParent
  MaxAttempts = 2
  MaxFailures = 2
INVARIANTS
  ProcessInv
  AnsweredMeansTaken
  ExitZeroMeansRecorded
  CloseBehindTheLastWrite
PROPERTY ShutdownTerminates
\* the process ends
CHECK_DEADLOCK FALSE
