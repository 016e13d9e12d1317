SPECIFICATION RelayerFairSpec
CONSTANTS
  inj = inj
  Validator = {1, 2}
  ERC20 = {}
  CosmosERC20 = {inj}
  Account = {owner1}
  NoAddress = NoAddress
  NoValset = NoValset
  peggyId = peggyId
  Valset <- MCPair
  InitialValset <- MCInitialPair
  Batch <- MCBatch
  InjectiveValsets <- MCInjectivePairs
  InjectiveBatches <- MCInjectiveBatches
  RelayValsets = FALSE
  RelayBatches = TRUE
  Amount = {1}
  PowerThreshold = 2
  MAX_NONCE_JUMP_LIMIT = 3
  MaxHeight = 20
  MaxEventNonce = 6
  MaxBalance = 0
  findValsetBlocksToSearch = 1
  totalPeggyPower = 5
  maxAttempts = 2
  MaxIdleHeight = 4
  MaxFaults = 0
INVARIANTS
  ConfirmedCallIsAccepted
  RevertsOnlyWhenOvertaken
  NoLiveBatchIsOvertaken
PROPERTIES
  ImplementsIdealBridge
  ExecutedWasConfirmed
  BatchesAreExecuted
