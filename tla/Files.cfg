SPECIFICATION Spec
CONSTANTS
  MaxProcs = 3
  Boot = 2
  MaxSpaces = 2
  SleepTicks = {}
  Signals = {}
  Addrs = {}
  MaxWaiters = 0
  InboxSize = 0
  Services = {}
  RingSize = 0
  MaxRestarts = 0
  WindowTicks = 0
  MaxFds = 2
  MaxOfds = 2
  MaxPipes = 1
  PipesPerProc = 1
  PipeBufSize = 2
  CopyChunk = 1
  OpenFlags = {0}
  StatusArgs = {0}
INVARIANTS
  NoDanglingFd
  PipeEndsTracked
  
PROPERTIES
  CountsExactButReap
