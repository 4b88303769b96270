SPECIFICATION Spec
CONSTANTS
  d1 = d1
  d2 = d2
  Drivers = {d1, d2}
  PowerAlert = PowerAlert
  MaxFalls = 2
  ReleaseValidation = 1
  RepeatWindow = 2
  Currents = {0, 1}
  Commands = {"DriveAll", "CoilOffAll", "SleepAll", "WakeAll", "SetCurrent", "SetCurrentAll", "SetPmode"}
SYMMETRY Symmetry
INVARIANTS
  DriveHasItsReference
  SleepingReferenceIsScheduled
PROPERTIES
  PmodeChangesAsleep
