SPECIFICATION BlockSpec
CONSTANTS
  t1 = t1
  t2 = t2
  v1 = v1
  v2 = v2
  Txs = {t1, t2}
  Validators = {v1, v2}
  Size <- TwoSizes
  MaxTxs = 6
  MaxValidators = 2
  Times = {1, 2}
  Concurrency = {1, 2, 3, 4}
  Threshold = 3
INVARIANTS
  RoundTrip
  RootIdentifies
  ProofsExact
CHECK_DEADLOCK FALSE
