SPECIFICATION FairSpec
CONSTANTS
  SustainedAfter = 3
  EscalateEvery = 2
  Cooldown = 3
  SecsMax = 7
  UnitsPerSec = 2
  Intervals = {2, 3, 5}
  RealMax = 14
INVARIANTS TypeOK NoLateSustained
PROPERTIES ImplementsPriorityLadder NoEarlySustained PulseNeverSlows StandsDown
