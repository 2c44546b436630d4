CONSTANTS
  v1 = v1
  v2 = v2
  v3 = v3
  s0 = s0
  s1 = s1
  b0 = b0
  b1 = b1
  ZeroHash = ZeroHash
  Validators = {v1, v2, v3}
  Nodes = {v1, v2, v3}
  Seeds = {s0}
  Bodies = {b0}
  Times = {0, 1}
  Refused = {}
  MinValidators = 2
  MaxHeight = 2
  Shuffle <- TwoParticipants
SPECIFICATION Spec
INVARIANTS
  TypeOK
  CommitBeforeReveal
  CreatorSucceeds
  MempoolBounded
CHECK_DEADLOCK FALSE
