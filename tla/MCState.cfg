CONSTANTS
  n1 = n1
  n2 = n2
  alice = alice
  bob = bob
  Nodes = {n1, n2}
  Txs <- Mixed
  InitialAccounts <- Accounts
  KeptOnUnderflow = FALSE
  MaxAdding = 1
  MaxBlocks = 3
SPECIFICATION Spec
INVARIANTS
  TypeOK
  ReplicasAgree
  NonceCountsTxs
  CreatorAccepts
  SendersExist
CHECK_DEADLOCK FALSE
