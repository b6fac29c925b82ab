SPECIFICATION FairSpec
CONSTANTS
  Clients = {c1}
  Newer = {}
  Daemons = {d1, d2, d3}
  Flaky = {TRUE, FALSE}
  MaxCrashes = 2
  MaxRecycled = 1
PROPERTIES
  EnsureReturns
  HomeRecovers
