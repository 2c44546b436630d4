CONSTANTS
  n1 = n1
  n2 = n2
  alice = alice
  bob = bob
  Nodes = {n1, n2}
  Txs <- SameNonce
  InitialAccounts <- Accounts
  KeptOnUnderflow = FALSE
  MaxAdding = 1
  MaxBlocks = 2
SPECIFICATION Spec
PROPERTY
  SupplyNeverGrows
CHECK_DEADLOCK FALSE
