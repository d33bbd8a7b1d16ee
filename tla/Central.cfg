SPECIFICATION FairSpec
CONSTANTS
  CAPACITY = 2
  NoJob = NoJob
  L1 = L1
  L2 = L2
  Lx <- Both
  Chains <- OneChain
  Crossings = {}
  Hours = {6, 9}
  StartHours = {6}
  PEAK_START = 6
  PEAK_END = 9
  Durations <- TypedDurations
  WORD = 8
  DURATION_MAX = 5
  CHANGES_MAX = 2
INVARIANTS CTypeOK RecordAsReceived ModesMatch
PROPERTY ConsoleShared
