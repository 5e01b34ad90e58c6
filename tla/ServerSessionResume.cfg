SPECIFICATION Spec
CONSTANTS
  codex = codex
  pi = pi
  r1 = r1
  n1 = n1
  Runtimes = {codex, pi}
  Primary = codex
  Requests = {r1}
  Oneways = {n1}
  RuntimeOf <- Routes
  Shutdown = Shutdown
  NoCall = NoCall
  MaxAttempts = 2
  QueueCap = 1
  MaxDrops = 1
INVARIANTS
  ReconnectResubscribes
CHECK_DEADLOCK FALSE
