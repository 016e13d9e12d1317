SPECIFICATION Spec
CONSTANTS
  Sender = {valset, batch}
  Elsewhere = Elsewhere
  NoSender = NoSender
  MaxNonce = 3
  MaxFaults = 2
INVARIANTS
  KnownTransactionSkipsNonce
