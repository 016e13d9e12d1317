SPECIFICATION Spec
CONSTANTS
  v1 = v1
  v2 = v2
  v3 = v3
  usdt = usdt
  inj = inj
  Validator = {v1, v2, v3}
  ERC20 = {usdt}
  CosmosERC20 = {inj}
  Account = {owner1}
  NoAddress = NoAddress
  peggyId = peggyId
  Valset <- MCValset
  InitialValset <- MCInitialValset
  Batch <- MCBatch
  Amount = {1, 2}
  PowerThreshold = 2
  MAX_NONCE_JUMP_LIMIT = 3
  MaxHeight = 1
  MaxEventNonce = 4
  MaxBalance = 2
INVARIANTS
  TypeOK
  EventLogContiguous
  LogRevealsCheckpoint
  BatchesExecuteOnceInOrder
  Backed
  InstalledValsetCanVote
PROPERTIES
  ApprovedByQuorum
  PauseFreezesBridge
  OwnerlessPauseIsForever
CHECK_DEADLOCK FALSE
