SPECIFICATION Spec
CONSTANTS
  Key = {k1, k2}
  Keystore = {k1}
  CosmosKeyring = {k1, k2}
  CosmosLedger = {k2}
  None = None
  Garbage = Garbage
INVARIANT
  RunsWithEthFrom
