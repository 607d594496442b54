SPECIFICATION FairSpec
CONSTANTS
  MaxProcs = 3
  Boot = 2
  MaxSpaces = 2
  SleepTicks = {2}
  Signals = {9}
  Addrs = {1}
  MaxWaiters = 1
  InboxSize = 1
  Services = {}
  RingSize = 0
  MaxRestarts = 0
  WindowTicks = 0
  MaxFds = 0
  MaxOfds = 0
  MaxPipes = 0
  PipesPerProc = 0
  PipeBufSize = 0
  CopyChunk = 0
  OpenFlags = {}
  StatusArgs = {}
INVARIANTS
  InboxesBounded
PROPERTIES
  NoStarvation
  SleepersWake
  ZombiesReaped
