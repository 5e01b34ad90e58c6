SPECIFICATION Spec
CONSTANTS
  Devices = {d1, d2}
  NoDevice = none
  RustKeys = {pins}
  PlatformKeys = {font}
  MaxChoices = 2
  MaxKills = 1
  MaxTime = 6
INVARIANTS
  NothingMissed
  DefaultsFollowTable
  QuietDevicesAgree
CHECK_DEADLOCK FALSE
