\* A script that allows two workers, one that allows one, one that cannot be loaded.
SPECIFICATION LiveSpec
CONSTANTS
  Scripts = {"move", "identify", "broken"}
  Unloadable = {"broken"}
  Concurrency <- MCConcurrency
  WORKERS = 4
  MaxTasks = 1
  Batches = {"b1", "b2"}
  ScriptOf <- MCScriptOf
  MaxCrashes = 1
  MaxSignals = 1
INVARIANTS
  WithinConcurrency
  AnsweredIsSaved
PROPERTIES
  QueuedIsTaken
  SignalEndsWorkers
