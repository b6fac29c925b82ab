SPECIFICATION InjectSpec
CONSTANTS
  Drawers = {m1, m2, m3}
  Contradicting = {m1, m2}
  Tools = {t1, t2}
  Main = main
  CooldownTurns = 2
  MaxTurns = 3
SYMMETRY Symmetry
INVARIANTS
  
  NoInjectionLoop
