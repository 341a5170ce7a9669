\* A re-discovery interval of 4 ticks, a power limit refreshed every 5.
CONSTANTS
  Interval = 4
  LimitEvery = 5
  FailLimit = 3
  SinceMax = 5
  Signals = {power, throttle}
  Watts = {low, high}
  None = None
SPECIFICATION FairSpec
INVARIANTS TypeOK BackInTime LimitCatchesUp NothingFormer
PROPERTY GpuReturns
