SPECIFICATION Spec
CONSTANTS
  MaxProcs = 3
  Boot = 2
  MaxSpaces = 2
  SleepTicks = {}
  Signals = {}
  Addrs = {}
  MaxWaiters = 0
  InboxSize = 0
  Services = {2}
  RingSize = 1
  MaxRestarts = 3
  WindowTicks = 1
  MaxFds = 0
  MaxOfds = 0
  MaxPipes = 0
  PipesPerProc = 0
  PipeBufSize = 0
  CopyChunk = 0
  OpenFlags = {}
  StatusArgs = {}
PROPERTY
  DropCostsOnlyNotification
