SPECIFICATION FairSpec
CONSTANTS
  Callers = {r1}
  Handlers = {h1}
  NoHandler = NoHandler
  Answer = Answer
  QueueCap = 1
  MaxConns = 2
  MaxAttempts = 1
  MaxRecycles = 1
INVARIANTS
  TypeOK
  ReplacedIsClosed
  StateAgreesWithSlot
PROPERTIES
  CallerAlwaysReturns
  ReconnectEnds
CHECK_DEADLOCK FALSE
