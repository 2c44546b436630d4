CONSTANTS
  v1 = v1
  v2 = v2
  v3 = v3
  s0 = s0
  s1 = s1
  b0 = b0
  b1 = b1
  ZeroHash = ZeroHash
  Validators = {v1, v2}
  Nodes = {v1, v2}
  Seeds = {s0, s1}
  Bodies = {b0, b1}
  Times = {0, 1}
  Refused <- SecondRefuses
  MinValidators = 1
  MaxHeight = 3
  Shuffle <- TwoValidators
SPECIFICATION FairSpec
INVARIANT
  OneTxPerRound
PROPERTY
  CommittedRoundCompletes
CHECK_DEADLOCK FALSE
