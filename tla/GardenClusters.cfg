SPECIFICATION Spec
CONSTANTS
  Drawers = {1, 2, 3, 4}
  Runs = {g1, g2}
  Limits = {3, 4}
  MinSize = 2
  SearchK = 3
  Likenesses <- Shapes
  MaxFails = 1
SYMMETRY Symmetry
INVARIANTS
  ClustersAreComponents
  ClustersNest
  WholeClusters
CHECK_DEADLOCK FALSE
