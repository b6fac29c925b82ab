SPECIFICATION Spec
CONSTANTS
  Drawers = {d1}
  Passes = {p1, p2}
  Gardens = {g1}
  Importer = importer
  Conductor = conductor
  MaxImports = 2
  MaxRollbacks = 2
  MaxFails = 1
SYMMETRY Symmetry
INVARIANTS
  
  NeverUnrated
  EmbeddedOnce
PROPERTIES
  RollbackRestores
CHECK_DEADLOCK FALSE
