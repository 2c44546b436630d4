CONSTANTS
  g = g
  a1 = a1
  a2 = a2
  a3 = a3
  c2 = c2
  t1 = t1
  t2 = t2
  t3 = t3
  NoHash = NoHash
  Genesis = g
  Blocks = {g, a1, a2, c2, a3}
  Prev <- MCPrev
  Height <- MCHeight
  Txs <- MCTxs
  Readers = {r1}
  Queries <- AllQueries
  Depth = 1
  MaxCrashes = 2
  Uses <- MCUses
  FirstNonce <- MCFirstNonce
SPECIFICATION NodeSpec
INVARIANT
  TypeOK
  InitializedLoads
  BlocksAreFound
  UntornLookupsAreExact
  UntornStateIsCurrent
  StateNotBehindChain
PROPERTY
  ImplementsChainStore
CHECK_DEADLOCK FALSE
