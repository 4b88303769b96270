SPECIFICATION Spec
CONSTANTS
  Faults = {"bus", "adc", "timers", "stop", "outputs", "link"}
  MaxRuns = 2
  MaxTicks = 2
INVARIANT BusyMeansActive
