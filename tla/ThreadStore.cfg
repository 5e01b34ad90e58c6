SPECIFICATION FairSpec
CONSTANTS
  Msgs = {a}
  Other = o
  Reply = r
  Taps = {k1, k2}
  MaxTurns = 2
  MaxFaults = 1
INVARIANTS
  TypeOK
  TwiceOnlyAfterRace
  ShownActiveRuns
  OneBubble
PROPERTIES
  ActiveSettles
  
CHECK_DEADLOCK FALSE
