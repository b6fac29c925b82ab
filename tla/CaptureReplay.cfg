SPECIFICATION PipelineFairSpec
CONSTANTS
  c1 = c1
  c2 = c2
  d1 = d1
  Captures = {c1, c2}
  MaxQueue = 1
  MaxCrashes = 2
  MaxMounts = 1
  EmitEvents = {TRUE, FALSE}
  Unreadable = {c2}
  Elsewhere = {{}, {c1}, {c1, c2}}
  Outputs = {d1}
  Content <- TheContent
INVARIANTS
  DeliveredOrKept
  NoSilentLoss
  
  ReplayedIsIncomplete
  BridgesOwed
PROPERTIES
  QueueDrains
CHECK_DEADLOCK FALSE
