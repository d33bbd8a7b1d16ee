SPECIFICATION HSpec
CONSTANTS
  TICK = 2
  PEAK_ARTERIAL_GREEN = 10
  PEAK_CONNECTOR_GREEN = 6
  YELLOW = 2
  ALL_RED = 2
  MIN_GREEN = 4
  MAX_GREEN = 8
  EXTENSION = 4
  OVERRIDE_CAP = 20
  WALK = 4
  FLASHING = 2
  DRAIN_MAX = 4
  ELAPSED_MODULUS = 32
  MISSED_MAX = 3
  RECORD_MAX = 12
  ArterialReports = {}
  ConnectorReports = {TRUE}
  QueueReports = {}
  PedButtons = {0}
  WatchdogTrips = {"WATCHDOG_TRIP"}
  ModeRequests = {}
  ScheduleModes = {"PEAK_FIXED", "OFF_PEAK_SENSOR"}
  OffsetRequests = {5, 25}
  ClockReadings = {4, 8, 15}
  OverrideTargets = {"ARTERIAL"}
  OverrideDurations = {7, 21}
  RenewDurations = {0, 21}
  CrossingReports = {"OPEN", "WARNING"}
  HeartbeatResults = {TRUE, FALSE}
INVARIANTS HTypeOK OffPeakUncorrected SupervisionFollowsCrossing
PROPERTIES KeepsRightOfWay
