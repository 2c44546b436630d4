CONSTANTS
  n1 = n1
  n2 = n2
  n3 = n3
  n4 = n4
  Nodes = {n1, n2, n3, n4}
  Topologies <- RingAndLine
  Creator <- First
  Signer <- Last
  Messages <- OneRound
  Restarts = {n2}
SPECIFICATION FairSpec
CHECK_DEADLOCK FALSE
INVARIANTS
  NoneDisconnected
  FloodsOnce
  ExistingIsForwarded
PROPERTY AwaitedBlockReachesAll
