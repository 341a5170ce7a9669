\* Half seconds; poll intervals of one and two seconds; a probe that asks
\* every four and a half seconds and forgives two failures, as many as the
\* clock is stepped.
CONSTANTS
  NaN = NaN
  PosInf = PosInf
  NegInf = NegInf
  OddKey = OddKey
  Unreadable = Unreadable
  NoFile = NoFile
  NoCheck = NoCheck
  Files <- MCFiles
  Parse <- MCParse
  UnitsPerSec = 2
  RetrySecs = 3
  Attempt = 2
  Work = 3
  Lag = 1
  Period = 9
  Threshold = 3
  Steps <- MCSteps
  StepsMax = 2
  Far = 44
SPECIFICATION FairSpec
INVARIANTS TypeOK AcceptedIsServiceable DisabledIgnored NoFalseAlarm StuckNotForLong
PROPERTY ImplementsWatchdog
