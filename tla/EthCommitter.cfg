SPECIFICATION FairSpec
CONSTANTS
  Sender = {valset, batch}
  Elsewhere = Elsewhere
  NoSender = NoSender
  MaxNonce = 3
  MaxFaults = 2
INVARIANTS
  TypeOK
  NoGap
PROPERTIES
  NonceUsedOnce
  SendTxReturns
