SPECIFICATION Spec
CONSTANTS
  ValidatorLoop = {"oracle"}
  errChCap = 10
  maxAttempts = 2
INVARIANTS
  WaitReportsFailures
CHECK_DEADLOCK FALSE
