SPECIFICATION Spec
CONSTANTS
  ethBlockConfirmationDelay = 1
  defaultBlocksToSearch = 2
  maxAttempts = 2
  BridgeContractStartHeight = 1
  MaxHeight = 5
  MaxEvents = 3
  MaxReorgs = 1
  MaxFaults = 2
INVARIANTS
  TypeOK
  ClaimsAreFinal
  NothingSkipped
PROPERTIES
  ImplementsClaimStream
