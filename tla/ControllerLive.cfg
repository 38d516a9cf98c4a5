\* Three packages, two slots of the group, one active package at a time: liveness.
SPECIFICATION FairSpec
CONSTANTS
  a = a
  b = b
  c = c
  x = x
  y = y
  Submitted = {}
  Notified = {a, b, c}
  Attended = {a}
  Ids = {x, y}
  IdOf <- SharedIds
  Ticker = Ticker
  Free = Free
  MaxConcurrent = 1
  GroupLimit = 2
  MaxJobs = 2
PROPERTIES
  QueuedIsPicked
  CloseReturns
CHECK_DEADLOCK FALSE
