SPECIFICATION Spec
CONSTANTS
  MaxProcs = 3
  Boot = 2
  MaxSpaces = 2
  SleepTicks = {}
  Signals = {}
  Addrs = {}
  MaxWaiters = 0
  InboxSize = 0
  Services = {}
  RingSize = 0
  MaxRestarts = 0
  WindowTicks = 0
  MaxFds = 3
  MaxOfds = 3
  MaxPipes = 1
  PipesPerProc = 1
  PipeBufSize = 1
  CopyChunk = 1
  OpenFlags = {0, 1}
  StatusArgs = {}
PROPERTY
  EndClosedByLast
