SPECIFICATION Spec
CONSTANTS
  Sessions = {s1, s2}
  Roles <- OneRoot
  Tasks = {t1, t2}
  Fetches = {f1, f2}
  Lookups = {"search", "kg"}
  Search = "search"
  Memories = {m1}
  EmitEvents = TRUE
  None = None
SYMMETRY Symmetry
INVARIANTS
  CompleteIsTrue
  BriefedOnce
  
  OptOutIsSilent
  NotTwice
CHECK_DEADLOCK FALSE
