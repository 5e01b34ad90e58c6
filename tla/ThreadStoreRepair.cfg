SPECIFICATION Spec
CONSTANTS
  Msgs = {a}
  Other = o
  Reply = r
  Taps = {k}
  MaxTurns = 2
  MaxFaults = 1
INVARIANT
  RepairRestoresReply
CHECK_DEADLOCK FALSE
