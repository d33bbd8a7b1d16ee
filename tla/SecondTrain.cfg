SPECIFICATION HSpec
CONSTANTS
  TICK = 1
  WARNING_TO_CLOSING = 5
  CLOSING_DEADLINE = 15
  EXPECTED_ARRIVAL = 20
  OCCUPANCY_WINDOW = 20
  OPENING_DEADLINE = 15
  GATE_MOTION = 3
  MISSED_MAX = 4
  Directions = {0, 1}
  DemoKeys = {}
  WatchdogTrips = {}
  HeartbeatResults = {}
  RECORD_MAX = 60
  TRAINS_MAX = 2
PROPERTIES SecondTrainCovered
