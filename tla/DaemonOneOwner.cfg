SPECIFICATION Spec
CONSTANTS
  Clients = {c1, c2}
  Newer = {c2}
  Daemons = {d1, d2, d3}
  Flaky = {FALSE}
  MaxCrashes = 1
  MaxRecycled = 0
SYMMETRY Symmetry
INVARIANTS
  Discoverable
  OneStoreOpen
PROPERTIES
  ImplementsHome
