SPECIFICATION Spec
CONSTANTS
  Devices = {d1, d2}
  NoDevice = none
  RustKeys = {pins}
  PlatformKeys = {font}
  MaxChoices = 2
  MaxKills = 0
  MaxTime = 3
PROPERTIES
  NewerChoiceWins
CHECK_DEADLOCK FALSE
