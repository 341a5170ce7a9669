\* A pass that failed on one channel, and the value it had before.
CONSTANTS
  None = None
  Channels = {c1, c2}
  Duties = {40, 50, 100}
  Stops <- MCStops
  Buckets = 4
  PulseMax = 2
  AlertColor = 70
  FaultColors = fc
SPECIFICATION FairSpec
PROPERTIES BucketComesTrue
