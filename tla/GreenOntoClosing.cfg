SPECIFICATION HSpec
CONSTANTS
  TICK = 1
  PEAK_ARTERIAL_GREEN = 48
  PEAK_CONNECTOR_GREEN = 30
  YELLOW = 4
  ALL_RED = 2
  MIN_GREEN = 8
  MAX_GREEN = 40
  EXTENSION = 4
  OVERRIDE_CAP = 300
  WALK = 6
  FLASHING = 4
  DRAIN_MAX = 60
  ELAPSED_MODULUS = 128
  MISSED_MAX = 4
  RECORD_MAX = 60
  ArterialReports = {}
  ConnectorReports = {}
  QueueReports = {}
  PedButtons = {}
  WatchdogTrips = {}
  ModeRequests = {}
  ScheduleModes = {}
  OffsetRequests = {}
  ClockReadings = {0}
  OverrideTargets = {}
  OverrideDurations = {}
  RenewDurations = {}
  CrossingReports = {"OPEN", "WARNING"}
  HeartbeatResults = {}
INVARIANTS NoGreenOntoClosing
