SPECIFICATION FairSpec
CONSTANTS
  ValidatorLoop = {"oracle"}
  errChCap = 10
  maxAttempts = 2
INVARIANTS
  TypeOK
  WaitIsSound
  NoStrayRelayTask
PROPERTIES
  FailureEndsProcess
  FailedTaskEnds
CHECK_DEADLOCK FALSE
