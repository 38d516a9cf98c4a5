\* A file of an earlier AIP, and one that was also normalized by hand; two rounds.
SPECIFICATION Spec
CONSTANTS
  Originals = {"a", "b"}
  Manual = {"b"}
  ManualAccess = {"b"}
  Reingested = {"a", "b"}
  Outputs = {"file", "nothing", "single", "several", "empty", "unnamed"}
  Modes = {"generate_non_default", "do_not_generate"}
  Faults = {"early", "late"}
  MaxRounds = 2
  MaxOdd = 2
INVARIANTS
  OneDerivative
  DerivationsLead
  SuccessIsRecordedUnbroken
