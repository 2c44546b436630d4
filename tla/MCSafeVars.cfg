CONSTANTS
  s1 = s1
  s2 = s2
  k1 = k1
  k2 = k2
  Null = Null
  Absent = Absent
  TheMap = TheMap
  Scalars = {s1, s2}
  Keys = {k1, k2}
  Values <- MCValues
  Default = 0
  Addresses = {s2}
  InitialValue <- MCInitial
  MapOps <- MCOps
SPECIFICATION SafeVarsSpec
INVARIANTS
  MapIsCommitted
  ReadsAreTransactional
PROPERTY RevertRestores
