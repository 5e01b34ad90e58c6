SPECIFICATION FairSpec
CONSTANTS
  codex = codex
  pi = pi
  r1 = r1
  n1 = n1
  Runtimes = {codex, pi}
  Primary = codex
  Requests = {r1}
  Oneways = {}
  RuntimeOf <- OneRoute
  Shutdown = Shutdown
  NoCall = NoCall
  MaxAttempts = 2
  QueueCap = 1
  MaxDrops = 1
PROPERTIES
  EveryCallReturns
  DisconnectStopsWorkers
  ReaderConverges
CHECK_DEADLOCK FALSE
