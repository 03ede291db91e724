SPECIFICATION WalkSpec
CONSTANT ProbeMasks = {0, 1, 3, 7, 15, 31, 63}
INVARIANTS
  PositionIsProbe
  TraversesAll
CHECK_DEADLOCK FALSE
