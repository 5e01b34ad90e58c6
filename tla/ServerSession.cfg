SPECIFICATION Spec
CONSTANTS
  codex = codex
  pi = pi
  r1 = r1
  n1 = n1
  Runtimes = {codex, pi}
  Primary = codex
  Requests = {r1}
  Oneways = {n1}
  RuntimeOf <- Routes
  Shutdown = Shutdown
  NoCall = NoCall
  MaxAttempts = 1
  QueueCap = 1
  MaxDrops = 2
INVARIANTS
  AnswerMatchesExecution
  NoCallIsStranded
  BadNewsIsTrue
CHECK_DEADLOCK FALSE
