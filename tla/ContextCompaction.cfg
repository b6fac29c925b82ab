SPECIFICATION Spec
CONSTANTS
  Messages = {m1, m2, m3, m4, m5}
  Callers = {c1, c2}
  Threshold = 1
  KeepRecents = {0, 1, 2}
  MaxResets = 2
SYMMETRY Symmetry
INVARIANTS
  OnlyRacersAreLost
  OnlyRacersComeBack
  WindowIsHistory
CHECK_DEADLOCK FALSE
