SPECIFICATION PairSpec
CONSTANTS
  a1 = a1
  a2 = a2
  a3 = a3
  a4 = a4
  k1 = k1
  k2 = k2
  k3 = k3
  k4 = k4
  v1 = v1
  v2 = v2
  Key = {a1, a2, a3, a4}
  Value = {v1}
  Absent = Absent
  Raw = Raw
  Hash <- MCHash
  HashRange <- MCHashRange
  GroupWidth = 4
  MinCapacity = 8
  SmallCapacity = 8
  LoadFactors = {160}
  DefaultLoadFactor = 160
  MaxGroups = 4
  ReserveArgs = {}
  RehashArgs = {}
  ShrinkArgs = {}
  MayThrow = FALSE
  InitCapacities = {0, 6}
SYMMETRY Symmetry
INVARIANTS
  BothSearchable
PROPERTIES
  CopyHasTheElements
CONSTRAINTS RightSize CloseCopies
