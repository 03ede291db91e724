SPECIFICATION Spec
CONSTANTS
  a1 = a1
  a2 = a2
  b1 = b1
  b2 = b2
  c1 = c1
  c2 = c2
  v1 = v1
  v2 = v2
  Key = {a1, a2, b1, b2, c1}
  Value = {v1, v2}
  Absent = Absent
  Raw = Raw
  Hash <- MCHash
  CtrlHash <- MCCtrlHash
  StoreHash = FALSE
  GroupWidth = 32
  MinLookups = 4
  LookupFactor = 2
  LoadFactors = {128, 154}
  DefaultLoadFactor = 128
  MaxCapacity = 16
  InitCapacities = {0, 4}
  RehashArgs = {0, 9}
  ReadOnlyArgs = {FALSE, TRUE}
INVARIANTS
  TypeOK
  SearchableUnlessStrayed
  IterationIsComplete
PROPERTIES
  ImplementsMap
CONSTRAINT OneKeyChanges
