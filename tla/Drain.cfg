SPECIFICATION FairHSpec
CONSTANTS
  TICK = 1
  PEAK_ARTERIAL_GREEN = 10
  PEAK_CONNECTOR_GREEN = 6
  YELLOW = 2
  ALL_RED = 1
  MIN_GREEN = 4
  MAX_GREEN = 8
  EXTENSION = 2
  OVERRIDE_CAP = 20
  WALK = 3
  FLASHING = 2
  DRAIN_MAX = 4
  ELAPSED_MODULUS = 24
  MISSED_MAX = 4
  RECORD_MAX = 10
  ArterialReports = {}
  ConnectorReports = {TRUE}
  QueueReports = {TRUE, FALSE}
  PedButtons = {0}
  WatchdogTrips = {"WATCHDOG_TRIP"}
  ModeRequests = {"PEAK_FIXED", "OFF_PEAK_SENSOR"}
  ScheduleModes = {}
  OffsetRequests = {}
  ClockReadings = {0}
  OverrideTargets = {"CONNECTOR"}
  OverrideDurations = {7}
  RenewDurations = {}
  CrossingReports = {"OPEN", "WARNING"}
  HeartbeatResults = {}
INVARIANTS DrainConfined ExposureBounded OverrideConsistent
PROPERTIES NoGreenTowardsTrain OverrideEnds DrainEnds
