\* Two full batches and one partial batch; batches may fail, the job may be cancelled.
SPECIFICATION FairSpec
CONSTANTS
  NumTasks = 5
  BatchSize = 2
  ExitCodes = {0, 1}
  Faults = {"raise", "garbled"}
  MayCancel = TRUE
INVARIANTS
  TasksArePartitioned
  ResultsMatchRows
  StatusIsHighestAnswered
PROPERTIES
  JobFinishes
CHECK_DEADLOCK FALSE
