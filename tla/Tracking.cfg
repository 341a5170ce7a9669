SPECIFICATION FairSpec
CONSTANTS
  Graph <- MCGraph
  Temps <- MCTemps
  Targets <- MCTargets
  HysteresisC = 2
  MinDutyDelta = 5
  MaxStep = 10
  FallbackDuty = 60
  None = None
  NaN = NaN
INVARIANTS TypeOK
PROPERTIES NoUnnoticedDrift ImplementsFanRamp SteadyDemandSettles
