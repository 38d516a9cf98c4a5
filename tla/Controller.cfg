\* Three package objects, two of them of the same package, compete for two slots.
SPECIFICATION Spec
CONSTANTS
  a = a
  b = b
  c = c
  x = x
  y = y
  Submitted = {a}
  Notified = {b, c}
  Attended = {a, b, c}
  Ids = {x, y}
  IdOf <- SharedIds
  Ticker = Ticker
  Free = Free
  MaxConcurrent = 1
  GroupLimit = 2
  MaxJobs = 2
INVARIANTS
  TypeOK
  ActiveMatchesGoroutines
  AwaitingMatchesGoroutines
  ClosedRunsNothing
PROPERTIES
  QueueIsFIFO
  StuckIsForever
  Refines
CHECK_DEADLOCK FALSE
