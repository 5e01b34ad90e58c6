SPECIFICATION Spec
CONSTANTS
  c1 = c1
  c2 = c2
  Connects = {c1, c2}
  PathsOf <- MCPathsOf
  Disconnects = {d}
  Requests = {q}
  MaxDrops = 1
  MaxBusy = 2
INVARIANTS
  CurrentIsNotStopped
  CurrentIsRead
  NoOrphan
  SessionIsShown
  QuietIsShown
CHECK_DEADLOCK FALSE
