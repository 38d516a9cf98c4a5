\* Two iterators of one package; crashes, Close and a store that may refuse.
SPECIFICATION FairSpec
CONSTANTS
  c1 = c1
  c2 = c2
  c3 = c3
  filter = filter
  extract = extract
  remember = remember
  approve = approve
  auto = auto
  stale = stale
  level = level
  format = format
  upload = upload
  resume = resume
  store = store
  reject = reject
  i1 = i1
  i2 = i2
  v = v
  Iterators = {i1, i2}
  Chains = {c1, c2, c3}
  Links = {filter, extract, remember, approve, auto, stale, level, format, upload, resume, store,
           reject}
  Nil = Nil
  Unknown = Unknown
  Codes = {0, 1, 2}
  StartChain <- TwoStarts
  StartLink <- Bypass
  ChainLink <- FirstLink
  Link <- Workflow
  Vars = {v}
  Table = "SIPs"
  MaxJobs = 7
  MaxCrashes = 2
  StoreFails = TRUE
INVARIANTS
  OpenJobIsCurrent
  DoneHasTerminalJob
PROPERTIES
  FinalStatusIsKept
  RestartIsClean
  IterationEnds
CHECK_DEADLOCK FALSE
