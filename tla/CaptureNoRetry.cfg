SPECIFICATION Spec
CONSTANTS
  Captures = {c1, c2, c3}
  MaxQueue = 1
  MaxCrashes = 2
  MaxMounts = 0
  EmitEvents = {TRUE}
  Unreadable = {}
  Elsewhere = {{}}
SYMMETRY Symmetry
INVARIANTS
  FailedStaysRetryable
CHECK_DEADLOCK FALSE
