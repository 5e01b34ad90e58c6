SPECIFICATION FairSpec
CONSTANTS
  Views = {v}
  Ring = ring
  Closers = {c}
  Forgetters = {f}
  Sizes = {2, 5}
  Limit = 4
  Capacity = 1
  MaxChunks = 2
INVARIANTS
  NothingTwiceOrMissing
  DoneHeardTheExit
PROPERTIES
  ExitIsHeard
  ExitReachesStore
  ForgottenStaysForgotten
CHECK_DEADLOCK FALSE
