SPECIFICATION HSpec
CONSTANTS
  TICK = 1
  PEAK_ARTERIAL_GREEN = 10
  PEAK_CONNECTOR_GREEN = 6
  YELLOW = 2
  ALL_RED = 1
  MIN_GREEN = 4
  MAX_GREEN = 8
  EXTENSION = 2
  OVERRIDE_CAP = 20
  WALK = 3
  FLASHING = 2
  DRAIN_MAX = 4
  ELAPSED_MODULUS = 24
  MISSED_MAX = 4
  RECORD_MAX = 12
  ArterialReports = {}
  ConnectorReports = {}
  QueueReports = {}
  PedButtons = {}
  WatchdogTrips = {}
  ModeRequests = {"PEAK_FIXED", "OFF_PEAK_SENSOR"}
  ScheduleModes = {}
  OffsetRequests = {}
  ClockReadings = {0}
  OverrideTargets = {"ARTERIAL", "CONNECTOR"}
  OverrideDurations = {20}
  RenewDurations = {}
  CrossingReports = {}
  HeartbeatResults = {}
INVARIANTS OverrideGetsItsGreen
