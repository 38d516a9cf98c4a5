\* Two originals, one of them too large for the scanner; two faults.
SPECIFICATION Spec
CONSTANTS
  Originals = {"a", "b"}
  Reingested = {"a"}
  Extracted = {"c"}
  Loose = {"u"}
  Oversized = {"b"}
  HashFiles = {"md5", "sha256"}
  NRules = 2
  Faults = {"early", "late"}
  MaxOdd = 2
INVARIANTS
  FailedScanStopsOnce
  RecordedOnce
  RecordsAreTrue
