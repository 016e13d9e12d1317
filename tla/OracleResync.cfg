SPECIFICATION FairSpec
CONSTANTS
  ethBlockConfirmationDelay = 1
  defaultBlocksToSearch = 2
  maxAttempts = 2
  BridgeContractStartHeight = 1
  MaxHeight = 3
  MaxEvents = 1
  MaxReorgs = 0
  MaxFaults = 1
PROPERTIES
  MissedEventsAreResynced
