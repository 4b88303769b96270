SPECIFICATION Spec
CONSTANTS
  d1 = d1
  Drivers = {d1}
  PowerAlert = PowerAlert
  MaxFalls = 2
  ReleaseValidation = 2
  RepeatWindow = 3
  Currents = {0, 1}
  Commands = {}
INVARIANTS
  OnlyRepeatNeedsAck
