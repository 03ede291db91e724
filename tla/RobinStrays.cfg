SPECIFICATION Spec
CONSTANTS
  a1 = a1
  a2 = a2
  b1 = b1
  b2 = b2
  c1 = c1
  c2 = c2
  v1 = v1
  v2 = v2
  Key = {a1, a2, b1, b2, c1}
  Value = {v1}
  Absent = Absent
  Raw = Raw
  Hash <- MCHash
  CtrlHash <- MCCtrlHash
  StoreHash = FALSE
  GroupWidth = 32
  MinLookups = 1
  LookupFactor = 0
  LoadFactors = {128}
  DefaultLoadFactor = 128
  MaxCapacity = 8
  InitCapacities = {0, 8}
  RehashArgs = {0, 5}
  ReadOnlyArgs = {TRUE}
INVARIANTS
  SearchableUnlessStrayed
