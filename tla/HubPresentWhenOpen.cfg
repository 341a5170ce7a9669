SPECIFICATION FairSpec
CONSTANTS
  Graph <- MCGraph
  Temps <- MCTemps
  Targets <- MCTargets
  Channels <- MCChannels
  CpuReadings <- MCCpu
  GpuReadings <- MCGpu
  CpuOffset = 10
  HysteresisC = 2
  MinDutyDelta = 5
  MaxStep = 40
  FallbackDuty = 80
  ErrorLimit = 3
  StaleMax = 4
  None = None
  NaN = NaN

INVARIANTS HubPresentWhenOpen
