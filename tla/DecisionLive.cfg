\* Two calls of three at a time, some of which match no choice, a listing and Close.
SPECIFICATION DecisionFairSpec
CONSTANTS
  r1 = r1
  r2 = r2
  r3 = r3
  l1 = l1
  Resolvers = {r1, r2, r3}
  Listers = {l1}
  Awaiter = Awaiter
  Writer = Writer
  None = None
  NumChoices = 1
  Requests <- GoodOrUnmatched
  MaxInFlight = 2
PROPERTIES
  ResolveReturns
  WriterProceeds
CHECK_DEADLOCK FALSE
