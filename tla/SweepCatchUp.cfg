SPECIFICATION FairSweep
CONSTANTS
  Drawers = {d1}
  Requests = {q1, q2}
  Watcher = watcher
  MaxEdges = 1
  MaxFails = 2
  MaxRestarts = 2
INVARIANTS
  OnlyStopsOrphan
PROPERTIES
  ImplementsFiling
  SweepConverges
