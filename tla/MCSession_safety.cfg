SPECIFICATION FairSpec
CONSTANTS
  Ops = {"backup", "restore", "index"}
  PipeSize = 2
CHECK_DEADLOCK FALSE
INVARIANT TypeOK
INVARIANT SuccessIsRecorded
INVARIANT BorgIsWaitedFor
INVARIANT CancelHasCause
PROPERTY Answered
PROPERTY GoneStops
