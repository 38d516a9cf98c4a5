\* A file that extraction left without a row.
SPECIFICATION Spec
CONSTANTS
  Received <- MCReceived
  Members <- MCMembers
  Removable = {"Thumbs.db"}
  Hidden = {".h"}
  Composed <- MCComposed
  ChunkSize = 2
  BatchSize = 2
  Faults = {"partial"}
  MaxFaults = 1
PROPERTIES
  DeletesOnlyUnregistered
