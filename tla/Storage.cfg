SPECIFICATION HSpec
CONSTANTS
  SegCount = 4
  SegSize = 5
  DirectBlocks = 2
  CompactPercent = 20
  Names = {a, b}
  Types = {"file", "dir"}
  Values = {1}
  WriteOffsets = {0, 1}
  WriteLengths = {2}
  Sizes = {1}
  UnitsPerBlock = 2
  DirCapacity = 2
  MaxInodes = 4
  MaxCkpt = 3
  MaxCalls = 4
  LossWindows = {}
CHECK_DEADLOCK FALSE
SYMMETRY Symmetry
INVARIANTS
  LfsTypeOK
  LogSound
  NoOrphans
  RecheckNeverTrips
PROPERTIES
  ReserveKept
  ImplementsStore
