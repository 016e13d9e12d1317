SPECIFICATION FairSpec
CONSTANTS
  ethBlockConfirmationDelay = 1
  defaultBlocksToSearch = 2
  maxAttempts = 2
  BridgeContractStartHeight = 1
  MaxHeight = 6
  MaxEvents = 2
  MaxReorgs = 1
  MaxFaults = 1
PROPERTIES
  NewerEventsHeal
