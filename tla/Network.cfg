SPECIFICATION FairNSpec
CONSTANTS
  TICK = 1
  WARNING_TO_CLOSING = 2
  CLOSING_DEADLINE = 2
  EXPECTED_ARRIVAL = 1
  OCCUPANCY_WINDOW = 1
  OPENING_DEADLINE = 2
  GATE_MOTION = 1
  MISSED_MAX = 3
  Directions = {0}
  DemoKeys = {}
  WatchdogTrips = {"WATCHDOG_TRIP"}
  HeartbeatResults = {}
  CAPACITY = 3
  C1 = C1
  L1 = L1
  L2 = L2
  Adjacent <- OneSide
  NoJob = NoJob
  MayHang = {L1}
  FAILURES_MAX = 1
  Self = Self
INVARIANTS NTypeOK TellsInOrder ToldBeforeGate LiveNotLost
PROPERTIES LinkFollows FaultReachesCentral SilenceNoticed
