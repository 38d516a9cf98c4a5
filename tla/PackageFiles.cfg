\* Names that collide when cleaned, nested packages, one fault of any kind.
SPECIFICATION Spec
CONSTANTS
  Received <- MCReceived
  Members <- MCMembers
  Removable = {"Thumbs.db"}
  Hidden = {".h"}
  Composed <- MCComposed
  ChunkSize = 2
  BatchSize = 2
  Faults = {"raise", "crash", "partial"}
  MaxFaults = 1
INVARIANTS
  RowKeepsContent
  NothingLost
  RowsMatchDisk
