SPECIFICATION Spec
CONSTANTS
  a1 = a1
  a2 = a2
  a3 = a3
  b1 = b1
  b2 = b2
  c1 = c1
  v1 = v1
  v2 = v2
  Key = {a1, a2, a3, b1, b2, c1}
  Value = {v1, v2}
  Absent = Absent
  Raw = Raw
  Hash <- MCHash
  CtrlHash <- MCCtrlHash
  GroupWidth = 4
  MinCapacity = 2
  DefaultCapacity = 2
  DistLimit = 2
  LoadFactors = {32768, 52429}
  DefaultLoadFactor = 32768
  LoadFactorRev <- Reciprocals
  MaxCapacity = 16
  InitCapacities = {8}
  RehashArgs = {9}
  ReadOnlyArgs = {FALSE, TRUE}
  DestroyArgs = {TRUE}
INVARIANTS
  TypeOK
  SearchableUnlessBroken
  IterationIsComplete
PROPERTIES
  ImplementsMap
  EveryCallReturns
CONSTRAINT OneKeyChanges
CHECK_DEADLOCK FALSE
