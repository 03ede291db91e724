SPECIFICATION Spec
CONSTANTS
  a1 = a1
  a2 = a2
  b1 = b1
  b2 = b2
  k1 = k1
  k2 = k2
  v1 = v1
  v2 = v2
  Key = {a1, b1, k1, k2}
  Value = {v1, v2}
  Absent = Absent
  Raw = Raw
  Hash <- MCHash
  HashRange <- MCHashRange
  GroupWidth = 2
  LoadFactors = {160, 224}
  DefaultLoadFactor = 160
  MaxGroups = 4
  InitCapacities = {0, 4}
  ReserveArgs = {0, 5}
  RehashArgs = {0}
  ShrinkArgs = {FALSE, TRUE}
INVARIANTS
  TypeOK
  CtrlMirrorsSlots
  EveryElementReachable
  IterationIsComplete
PROPERTIES
  ImplementsMap
  ThresholdDrift
CONSTRAINTS NotLooping OneKeyChanges NotDrifting
