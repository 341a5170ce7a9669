\* As in Fusion.cfg.
CONSTANTS
  None = None
  Kinds <- MCKinds
  Enabled <- MCKinds
  OwnCurve <- MCOwn
  TopCurve <- MCTop
  CpuOffset = 10
  LegacyOffset = 10
  PercentTdp = TRUE
  Rise <- MCRise
  Fall <- MCFall
  Whole = 4
  FloorEnabled = TRUE
  FloorDuty = 60
  HoldSecs = 2
  Reasons = {"hw_thermal", "sw_thermal"}
  Readings <- MCReadings
  PowerLimits = {None, 10}
  Asserted = {{"sw_power_cap"}, {"hw_thermal", "sw_power_cap"}}
  UnitsPerSec = 2
  Intervals = {2, 3, 4}
  RealMax = 8
SPECIFICATION Spec
INVARIANTS SameAsLegacy
