SPECIFICATION FairHSpec
CONSTANTS
  TICK = 1
  WARNING_TO_CLOSING = 2
  CLOSING_DEADLINE = 4
  EXPECTED_ARRIVAL = 3
  OCCUPANCY_WINDOW = 3
  OPENING_DEADLINE = 4
  GATE_MOTION = 2
  MISSED_MAX = 3
  Directions = {0, 1}
  DemoKeys = {"x", "r", "f"}
  WatchdogTrips = {"WATCHDOG_TRIP"}
  HeartbeatResults = {TRUE}
  RECORD_MAX = 6
  TRAINS_MAX = 4
INVARIANTS WindowsConsistent GateObeysState ClosureBounded NeighboursWarned
PROPERTIES WindowsServed ProceedWithdrawn FaultLeftOnlyRepaired Reopens NeighboursFollow
