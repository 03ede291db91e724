SPECIFICATION Spec
CONSTANTS
  GroupWidth = 3
  Masks = {1, 3}
INVARIANTS
  NothingMissed
PROPERTIES
  MovesToNeighbour
  MovesEnd

