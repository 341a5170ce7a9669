\* Three signals, a hold of two seconds, ticks of 1, 1.5 and 2 seconds.
CONSTANTS
  None = None
  Kinds <- MCKinds
  Enabled <- MCKinds
  OwnCurve <- MCOwn
  TopCurve <- MCTop
  CpuOffset = 10
  LegacyOffset = 15
  PercentTdp = TRUE
  Rise <- MCRise
  Fall <- MCFall
  Whole = 4
  FloorEnabled = TRUE
  FloorDuty = 60
  HoldSecs = 2
  Reasons = {"hw_thermal", "sw_thermal"}
  Readings <- MCReadings
  PowerLimits = {None, 10}
  Asserted = {{"sw_power_cap"}, {"hw_thermal", "sw_power_cap"}}
  UnitsPerSec = 2
  Intervals = {2, 3, 4}
  RealMax = 8
SPECIFICATION Spec
INVARIANTS TypeOK NoPoison LatchBridges LatchLetsGo RaiseOnly NotBelowLegacy PageExplainsTarget
