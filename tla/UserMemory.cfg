SPECIFICATION Spec
CHECK_DEADLOCK FALSE
CONSTANTS
  SectionPages = 3
  HeapSections = 2
  MmapSections = 1
  RamSections = 4
  L2PoolSize = 8
  MaxProcs = 2
  MaxSpaces = 2
  StackPages = 2
  MaxMappings = 2
  ImageSizes = {1}
  Alignments = {TRUE, FALSE}
  Breaks = {0, 2, 4}
  MapSizes = {1, 2}
  Prots = {{"r", "w"}, {}}
  MaxCalls = 6
INVARIANTS
  MemoryTypeOK
  
  
  RecordsMatchTable
PROPERTIES
  TablesBalance
  
  
