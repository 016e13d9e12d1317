SPECIFICATION RelayerFairSpec
CONSTANTS
  inj = inj
  Validator = {1, 2, 3}
  ERC20 = {}
  CosmosERC20 = {inj}
  Account = {owner1}
  NoAddress = NoAddress
  NoValset = NoValset
  peggyId = peggyId
  Valset <- MCValset
  InitialValset <- MCInitialValset
  Batch <- MCBatch
  InjectiveValsets <- MCInjectiveValsets
  InjectiveBatches <- MCNoBatches
  RelayValsets = TRUE
  RelayBatches = TRUE
  Amount = {1}
  PowerThreshold = 2
  MAX_NONCE_JUMP_LIMIT = 3
  MaxHeight = 20
  MaxEventNonce = 6
  MaxBalance = 0
  findValsetBlocksToSearch = 1
  totalPeggyPower = 3
  maxAttempts = 2
  MaxIdleHeight = 2
  MaxFaults = 2
INVARIANTS
  RelayerTypeOK
  RelayerHoldsInstalledSet
  ConfirmedCallIsAccepted
  RevertsOnlyWhenOvertaken
  AlarmOnlyInRace
PROPERTIES
  ImplementsIdealBridge
  NewestSetIsInstalled
