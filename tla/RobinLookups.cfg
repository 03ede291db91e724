SPECIFICATION Spec
CONSTANTS
  a1 = a1
  a2 = a2
  b1 = b1
  b2 = b2
  c1 = c1
  c2 = c2
  v1 = v1
  v2 = v2
  Key = {a1, a2, b1, b2, c1}
  Value = {v1, v2}
  Absent = Absent
  Raw = Raw
  Hash <- PartedHash
  CtrlHash <- MCCtrlHash
  StoreHash = TRUE
  GroupWidth = 16
  MinLookups = 2
  LookupFactor = 0
  LoadFactors = {128, 154}
  DefaultLoadFactor = 128
  MaxCapacity = 32
  InitCapacities = {0, 8}
  RehashArgs = {}
  ReadOnlyArgs = {}
INVARIANTS
  GivesUpOnlyWhenCrowded
  NeverStrays
PROPERTIES
  ImplementsMap
  EveryCallReturns
CONSTRAINT OneKeyChanges
