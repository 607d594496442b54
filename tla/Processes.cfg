SPECIFICATION Spec
CONSTANTS
  MaxProcs = 4
  Boot = 2
  MaxSpaces = 3
  SleepTicks = {1, 2}
  Signals = {9}
  Addrs = {1}
  MaxWaiters = 2
  InboxSize = 0
  Services = {}
  RingSize = 0
  MaxRestarts = 0
  WindowTicks = 0
  MaxFds = 0
  MaxOfds = 0
  MaxPipes = 0
  PipesPerProc = 0
  PipeBufSize = 0
  CopyChunk = 0
  OpenFlags = {}
  StatusArgs = {}
INVARIANTS
  TypeOK
  SchedulerSafe
  BlockedIffWaiting
  SpacesExclusive
  KillUncatchable
PROPERTIES
  SleepIsNotCutShort
  FutexIsolation
