\* Calls that race with each other, with listings and with Close.
SPECIFICATION DecisionSpec
CONSTANTS
  r1 = r1
  r2 = r2
  r3 = r3
  l1 = l1
  Resolvers = {r1, r2, r3}
  Listers = {l1}
  Awaiter = Awaiter
  Writer = Writer
  None = None
  NumChoices = 2
  Requests <- Request
  MaxInFlight = 3
SYMMETRY ResolverSymmetry
INVARIANTS
  AcceptedReachesAwaiter
CHECK_DEADLOCK FALSE
