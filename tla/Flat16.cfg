SPECIFICATION Spec
CONSTANTS
  a1 = a1
  a2 = a2
  b1 = b1
  b2 = b2
  c1 = c1
  Key = {a1, a2, b1, b2, c1}
  Absent = Absent
  Raw = Raw
  Hash <- MCHash
  CtrlHash <- MCCtrlHash
  GroupWidth = 4
  MinCapacity = 2
  DefaultCapacity = 2
  ReorderAbove = 4
  ReorderShare = 8
  WordSize = 64
  LoadFactors = {32768, 42599}
  DefaultLoadFactor = 42599
  LoadFactorRev <- Reciprocals
  MaxCapacity = 16
  InitCapacities = {8}
  RehashArgs = {11}
  ReadOnlyArgs = {FALSE}
  DestroyArgs = {TRUE}
  MaxElements = 5
  ErasesUpTo = 8
INVARIANTS
  TypeOK
  CtrlMirrorsSlots
  IterationIsComplete
PROPERTIES
  OnlyErasureHides
  EveryCallReturns
CONSTRAINT FewElements
CHECK_DEADLOCK FALSE
