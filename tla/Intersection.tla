---------------------------- MODULE Intersection ----------------------------
(***************************************************************************)
(* One road-intersection controller Lx: the state machine of               *)
(* app/intersection/src/lx_fsm.c with the timing policy of lx_timer.c.     *)
(*                                                                         *)
(* Four threads share the machine: the server thread (requests, the 100 ms *)
(* phase pulse and the 1 s heartbeat pulse), the sensor thread, the        *)
(* watchdog thread and the client thread (heartbeat replies).  Every entry *)
(* point holds fsm->lock from its first line to its last, so an action     *)
(* below is one whole entry point and Next interleaves them.  A refused    *)
(* request (a NACK) changes nothing: it is a stuttering step, except that  *)
(* the fault check which precedes it may itself change the supervisor.     *)
(***************************************************************************)
EXTENDS Integers

CONSTANTS
  TICK,                     \* LX_PHASE_TICK_MS
  PEAK_ARTERIAL_GREEN,      \* LX_PEAK_ARTERIAL_GREEN_MS
  PEAK_CONNECTOR_GREEN,     \* LX_PEAK_CONNECTOR_GREEN_MS
  YELLOW, ALL_RED,          \* LX_YELLOW_MS, LX_ALL_RED_MS
  MIN_GREEN, MAX_GREEN,     \* LX_MIN_GREEN_MS, LX_MAX_GREEN_MS
  EXTENSION,                \* LX_EXTENSION_MS
  OVERRIDE_CAP,             \* LX_OVERRIDE_DURATION_CAP_MS
  WALK, FLASHING,           \* LX_WALK_MS, LX_FLASHING_DONT_WALK_MS
  DRAIN_MAX,                \* LX_DRAIN_MAX_EXTENSION_MS
  ELAPSED_MODULUS,          \* 2^32: green_elapsed_ms is a uint32_t
  MISSED_MAX                \* 0xFFFFFFFF: missed_heartbeat_acks saturates

\* What the environment may present to the controller in a given instance.
CONSTANTS
  ArterialReports, ConnectorReports, QueueReports,  \* subsets of BOOLEAN
  PedButtons,               \* sides whose push button may be pressed
  WatchdogTrips,            \* {"WATCHDOG_TRIP"}, or {} for a healthy server loop
  ModeRequests,             \* modes of SET_MODE
  ScheduleModes,            \* modes the local clock may call for
  OffsetRequests,           \* offsets of SET_TIMING_PROFILE
  ClockReadings,            \* CLOCK_REALTIME in ms, seen by apply_offset
  OverrideTargets, OverrideDurations,               \* of REQUEST_OVERRIDE
  RenewDurations,           \* of RENEW_OVERRIDE; 0 asks for the same again
  CrossingReports,          \* crossing states of CROSSING_STATUS
  HeartbeatResults          \* subset of BOOLEAN: was a heartbeat acknowledged?

CYCLE == PEAK_ARTERIAL_GREEN + PEAK_CONNECTOR_GREEN + 2 * (YELLOW + ALL_RED)

Modes == {"PEAK_FIXED", "OFF_PEAK_SENSOR"}
Greens == {"ARTERIAL_GREEN", "CONNECTOR_GREEN"}
Yellows == {"ARTERIAL_YELLOW", "CONNECTOR_YELLOW"}
AllReds == {"ALL_RED_A_TO_B", "ALL_RED_B_TO_A"}
Phases == Greens \cup Yellows \cup AllReds
Sides == 0 .. 3
Movements == {"ARTERIAL", "CONNECTOR"}
CrossingStates == {"OPEN", "WARNING", "CLOSED", "FAULT"}
SupervisoryStates == {"NORMAL_OPERATION", "RAILWAY_PREEMPTION",
                      "CENTRAL_OVERRIDE", "FAULT_SAFE"}

ASSUME TimingAssumption ==
  /\ TICK \in Nat \ {0} /\ EXTENSION \in Nat \ {0}
  /\ PEAK_ARTERIAL_GREEN \in Nat /\ PEAK_CONNECTOR_GREEN \in Nat
  /\ YELLOW \in Nat \ {0} /\ ALL_RED \in Nat \ {0}
  /\ MIN_GREEN \in Nat /\ MAX_GREEN \in Nat
  /\ MIN_GREEN <= PEAK_ARTERIAL_GREEN /\ MIN_GREEN <= PEAK_CONNECTOR_GREEN
  /\ MIN_GREEN <= MAX_GREEN
  /\ WALK \in Nat \ {0} /\ FLASHING \in Nat \ {0}
  /\ OVERRIDE_CAP \in Nat /\ DRAIN_MAX \in Nat /\ MISSED_MAX \in Nat /\ MISSED_MAX >= 3
  /\ ELAPSED_MODULUS \in Nat /\ ELAPSED_MODULUS > CYCLE + TICK

\* Drain extensions are granted in whole steps: a drain that starts at zero
\* and grows by TICK meets every multiple of EXTENSION, DRAIN_MAX among them.
ASSUME DrainAssumption == EXTENSION % TICK = 0 /\ DRAIN_MAX % EXTENSION = 0

\* The last WALK of a green is over by the end of the clearance behind it.
ASSUME WalkAssumption == WALK <= YELLOW + ALL_RED

ASSUME InputAssumption ==
  /\ ArterialReports \subseteq BOOLEAN /\ ConnectorReports \subseteq BOOLEAN
  /\ QueueReports \subseteq BOOLEAN /\ HeartbeatResults \subseteq BOOLEAN
  /\ PedButtons \subseteq Sides /\ WatchdogTrips \subseteq {"WATCHDOG_TRIP"}
  /\ ModeRequests \subseteq Modes /\ ScheduleModes \subseteq Modes
  /\ OffsetRequests \subseteq Nat /\ ClockReadings \subseteq Nat
  /\ OverrideTargets \subseteq Movements
  /\ OverrideDurations \subseteq Nat /\ RenewDurations \subseteq Nat
  /\ CrossingReports \subseteq CrossingStates

VARIABLES
  mode, pending_mode,       \* pending_mode = "NONE" iff no mode_change_pending
  phase, green_elapsed,
  arterial_demand, connector_demand,
  ped_latched, ped_recall, ped_serving,             \* sets of sides
  ped_phase, ped_elapsed, ped_clearance_active,
  queue_warning, drain_pending, drain_active, drain_extending, drain_total,
  last_crossing, supervisory, faults,
  override_substate, override_target, override_duration, override_remaining,
  link_state, missed_acks,
  assigned_offset, offset_apply_pending, offset_extra_hold

modeVars == <<mode, pending_mode>>
phaseVars == <<phase, green_elapsed>>
demandVars == <<arterial_demand, connector_demand, queue_warning>>
pedVars == <<ped_latched, ped_recall, ped_serving, ped_phase, ped_elapsed,
             ped_clearance_active>>
drainVars == <<drain_pending, drain_active, drain_extending, drain_total>>
railVars == <<last_crossing, faults>>
overrideVars == <<override_substate, override_target, override_duration,
                  override_remaining>>
linkVars == <<link_state, missed_acks>>
offsetVars == <<assigned_offset, offset_apply_pending, offset_extra_hold>>

vars == <<modeVars, phaseVars, demandVars, pedVars, drainVars, railVars,
          supervisory, overrideVars, linkVars, offsetVars>>

Init ==
  /\ mode = "PEAK_FIXED" /\ pending_mode = "NONE"
  /\ phase = "ARTERIAL_GREEN" /\ green_elapsed = 0
  /\ arterial_demand = FALSE /\ connector_demand = FALSE
  /\ ped_latched = {} /\ ped_recall = {} /\ ped_serving = {}
  /\ ped_phase = "NONE" /\ ped_elapsed = 0 /\ ped_clearance_active = FALSE
  /\ queue_warning = FALSE
  /\ drain_pending = FALSE /\ drain_active = FALSE
  /\ drain_extending = FALSE /\ drain_total = 0
  /\ last_crossing = "OPEN" /\ supervisory = "NORMAL_OPERATION" /\ faults = {}
  /\ override_substate = "NONE" /\ override_target = "NONE"
  /\ override_duration = 0 /\ override_remaining = 0
  /\ link_state = "DEGRADED_LOCAL" /\ missed_acks = 0
  /\ assigned_offset = 0 /\ offset_apply_pending = FALSE
  /\ offset_extra_hold = 0

-----------------------------------------------------------------------------
(* Supervision: faults and the end of an override. *)

\* A handler that starts with check_fault refuses when this holds.
FaultHeld == faults # {} \/ supervisory = "FAULT_SAFE"

\* lx_fsm_terminate_override_locked, for a caller that then sets supervisory.
EndOverride ==
  /\ override_substate' = "NONE" /\ override_remaining' = 0
  /\ UNCHANGED <<override_target, override_duration>>

\* Defect: the override is left in place when a fault or a train takes over.
EndOverrideIfAny_LeftInPlace == UNCHANGED overrideVars

EndOverrideIfAny ==
  IF supervisory = "CENTRAL_OVERRIDE" THEN EndOverride ELSE UNCHANGED overrideVars

EnterFaultSafe == supervisory' = "FAULT_SAFE" /\ EndOverrideIfAny

\* What is left of a handler once check_fault has found a fault: the request
\* is refused, the phase pulse returns with every timer frozen.
HeldInFaultSafe ==
  /\ FaultHeld /\ EnterFaultSafe
  /\ UNCHANGED <<modeVars, phaseVars, demandVars, pedVars, drainVars, railVars,
                 linkVars, offsetVars>>

-----------------------------------------------------------------------------
(* Sensor thread. *)

SetArterialVehicleDemand(present) ==
  /\ arterial_demand' = present
  /\ UNCHANGED <<modeVars, phaseVars, connector_demand, queue_warning, pedVars,
                 drainVars, railVars, supervisory, overrideVars, linkVars,
                 offsetVars>>

SetConnectorVehicleDemand(present) ==
  /\ connector_demand' = present
  /\ UNCHANGED <<modeVars, phaseVars, arterial_demand, queue_warning, pedVars,
                 drainVars, railVars, supervisory, overrideVars, linkVars,
                 offsetVars>>

SetQueueWarning(active) ==
  /\ queue_warning' = active
  /\ UNCHANGED <<modeVars, phaseVars, arterial_demand, connector_demand,
                 pedVars, drainVars, railVars, supervisory, overrideVars,
                 linkVars, offsetVars>>

\* Defect: every press counts as a recall, also before the side is served.
Recall_EveryPress(side) == ped_recall \cup {side}

\* A press during the side's own service is a recall: it outlives the service.
Recall(side) ==
  IF side \in ped_serving THEN ped_recall \cup {side} ELSE ped_recall

LatchPedestrianRequest(side) ==
  /\ ped_recall' = Recall(side)
  /\ ped_latched' = ped_latched \cup {side}
  /\ UNCHANGED <<modeVars, phaseVars, demandVars, ped_serving, ped_phase,
                 ped_elapsed, ped_clearance_active, drainVars, railVars,
                 supervisory, overrideVars, linkVars, offsetVars>>

-----------------------------------------------------------------------------
(* Watchdog thread and fault clearing. *)

ReportWatchdogTrip ==
  /\ faults' = faults \cup WatchdogTrips
  /\ EnterFaultSafe
  /\ UNCHANGED <<modeVars, phaseVars, demandVars, pedVars, drainVars,
                 last_crossing, linkVars, offsetVars>>

\* Defect: recovery forgets a crossing that closed before or during the fault.
RecoveredSupervision_ForgetsCrossing == "NORMAL_OPERATION"

RecoveredSupervision ==
  IF last_crossing # "OPEN" THEN "RAILWAY_PREEMPTION" ELSE "NORMAL_OPERATION"

OnRequestFaultClear ==
  /\ faults' = {}
  /\ supervisory' = IF supervisory = "FAULT_SAFE" THEN RecoveredSupervision
                                                  ELSE supervisory
  /\ UNCHANGED <<modeVars, phaseVars, demandVars, pedVars, drainVars,
                 last_crossing, overrideVars, linkVars, offsetVars>>

-----------------------------------------------------------------------------
(* Requests from Central and from the crossing, on the server thread. *)

OnSetTimingProfile(offset) ==
  \/ HeldInFaultSafe
  \/ /\ ~FaultHeld /\ offset < CYCLE
     /\ assigned_offset' = offset /\ offset_apply_pending' = TRUE
     /\ UNCHANGED <<modeVars, phaseVars, demandVars, pedVars, drainVars,
                    railVars, supervisory, overrideVars, linkVars,
                    offset_extra_hold>>

\* Asking for the mode in force withdraws a change that is still pending.
PendMode(m) == pending_mode' = IF m = mode THEN "NONE" ELSE m

OnSetMode(m) ==
  \/ HeldInFaultSafe
  \/ /\ ~FaultHeld
     /\ PendMode(m)
     /\ UNCHANGED <<mode, phaseVars, demandVars, pedVars, drainVars, railVars,
                    supervisory, overrideVars, linkVars, offsetVars>>

OnRequestOverride(target, duration) ==
  \/ HeldInFaultSafe
  \/ /\ ~FaultHeld
     /\ supervisory \notin {"CENTRAL_OVERRIDE", "RAILWAY_PREEMPTION"}
     /\ duration > 0 /\ duration <= OVERRIDE_CAP
     /\ override_substate' = IF ped_clearance_active THEN "PENDING_CLEARANCE"
                                                     ELSE "ACTIVE"
     /\ override_target' = target
     /\ override_duration' = duration /\ override_remaining' = duration
     /\ supervisory' = "CENTRAL_OVERRIDE"
     /\ UNCHANGED <<modeVars, phaseVars, demandVars, pedVars, drainVars,
                    railVars, linkVars, offsetVars>>

OnRenewOverride(extend) ==
  \/ HeldInFaultSafe
  \/ /\ ~FaultHeld
     /\ supervisory = "CENTRAL_OVERRIDE" /\ override_substate = "ACTIVE"
     /\ extend <= OVERRIDE_CAP
     /\ override_duration' = IF extend = 0 THEN override_duration ELSE extend
     /\ override_remaining' = override_duration'
     /\ UNCHANGED <<modeVars, phaseVars, demandVars, pedVars, drainVars,
                    railVars, supervisory, override_substate, override_target,
                    linkVars, offsetVars>>

OnCancelOverride ==
  \/ HeldInFaultSafe
  \/ /\ ~FaultHeld
     /\ override_substate # "NONE"
     /\ EndOverride
     /\ supervisory' = IF supervisory = "CENTRAL_OVERRIDE"
                       THEN "NORMAL_OPERATION" ELSE supervisory
     /\ UNCHANGED <<modeVars, phaseVars, demandVars, pedVars, drainVars,
                    railVars, linkVars, offsetVars>>

\* The report is remembered even in FAULT_SAFE, for the recovery after it.
OnCrossingStatus(state) ==
  /\ last_crossing' = state
  /\ \/ FaultHeld /\ EnterFaultSafe /\ UNCHANGED drain_pending
     \/ /\ ~FaultHeld /\ state # "OPEN"
        /\ supervisory' = "RAILWAY_PREEMPTION" /\ EndOverrideIfAny
        /\ UNCHANGED drain_pending
     \/ /\ ~FaultHeld /\ state = "OPEN" /\ supervisory = "RAILWAY_PREEMPTION"
        /\ supervisory' = "NORMAL_OPERATION"
        /\ drain_pending' = (drain_pending \/ queue_warning)
        /\ UNCHANGED overrideVars
     \/ /\ ~FaultHeld /\ state = "OPEN" /\ supervisory # "RAILWAY_PREEMPTION"
        /\ UNCHANGED <<supervisory, overrideVars, drain_pending>>
  /\ UNCHANGED <<modeVars, phaseVars, demandVars, pedVars, drain_active,
                 drain_extending, drain_total, faults, linkVars, offsetVars>>

-----------------------------------------------------------------------------
(* Heartbeats (client thread) and the local clock (heartbeat pulse). *)

\* Defect: the count of misses is let run over its maximum.
OneMoreMiss_Unsaturated == missed_acks + 1

OneMoreMiss ==
  IF missed_acks < MISSED_MAX THEN missed_acks + 1 ELSE missed_acks

OnHeartbeatResult(acked) ==
  /\ missed_acks' = IF acked THEN 0 ELSE OneMoreMiss
  /\ link_state' = IF acked THEN "CENTRAL_CONNECTED"
                   ELSE IF missed_acks' >= 3 THEN "DEGRADED_LOCAL"
                   ELSE link_state
  /\ UNCHANGED <<modeVars, phaseVars, demandVars, pedVars, drainVars, railVars,
                 supervisory, overrideVars, offsetVars>>

LocalClockModeCheck(schedule_mode) ==
  /\ link_state # "CENTRAL_CONNECTED"
  /\ PendMode(schedule_mode)
  /\ UNCHANGED <<mode, phaseVars, demandVars, pedVars, drainVars, railVars,
                 supervisory, overrideVars, linkVars, offsetVars>>

-----------------------------------------------------------------------------
(* The 100 ms phase pulse, in the order of lx_fsm_on_phase_timer: override  *)
(* countdown, pedestrian service, activation of a deferred override, phase. *)
(* Later parts read the primed variables of the earlier ones.               *)

\* The crosswalks that walk beside a green movement.
CompatibleSides(p) ==
  IF p = "ARTERIAL_GREEN" THEN {0, 1}
  ELSE IF p = "CONNECTOR_GREEN" THEN {2, 3} ELSE {}

\* Defect: WALK is held for one tick too many.
WalkOver_OneTickLate(elapsed) == elapsed > WALK

WalkOver(elapsed) == elapsed >= WALK

\* Defect: every served side is unlatched, pressed again meanwhile or not.
LatchedAfterService_DropsRecall == ped_latched \ ped_serving

LatchedAfterService == ped_latched \ (ped_serving \ ped_recall)

PedServiceTick ==
  LET eligible == ped_latched \cap CompatibleSides(phase)
      elapsed == ped_elapsed + TICK
  IN  \/ /\ ped_phase = "NONE" /\ eligible = {}
         /\ UNCHANGED pedVars
      \/ /\ ped_phase = "NONE" /\ eligible # {}
         /\ ped_serving' = eligible /\ ped_phase' = "WALK" /\ ped_elapsed' = 0
         /\ ped_clearance_active' = TRUE
         /\ UNCHANGED <<ped_latched, ped_recall>>
      \/ /\ ped_phase = "WALK"
         /\ IF WalkOver(elapsed)
              THEN ped_phase' = "FLASHING_DONT_WALK" /\ ped_elapsed' = 0
              ELSE UNCHANGED ped_phase /\ ped_elapsed' = elapsed
         /\ UNCHANGED <<ped_latched, ped_recall, ped_serving,
                        ped_clearance_active>>
      \/ /\ ped_phase = "FLASHING_DONT_WALK" /\ elapsed < FLASHING
         /\ ped_elapsed' = elapsed
         /\ UNCHANGED <<ped_latched, ped_recall, ped_serving, ped_phase,
                        ped_clearance_active>>
      \/ /\ ped_phase = "FLASHING_DONT_WALK" /\ elapsed >= FLASHING
         /\ ped_latched' = LatchedAfterService
         /\ ped_recall' = ped_recall \ ped_serving
         /\ ped_serving' = {} /\ ped_phase' = "NONE" /\ ped_elapsed' = 0
         /\ ped_clearance_active' = FALSE

\* Defect: the countdown stops while the override holds its movement green.
TimeLeft_HeldOnGreen ==
  IF phase \in Greens THEN override_remaining ELSE override_remaining - TICK

TimeLeft == override_remaining - TICK

Activated == IF ped_clearance_active' THEN override_substate ELSE "ACTIVE"

OverrideTick ==
  \/ /\ supervisory = "CENTRAL_OVERRIDE" /\ override_substate # "NONE"
     /\ override_remaining <= TICK
     /\ EndOverride /\ supervisory' = "NORMAL_OPERATION"
  \/ /\ supervisory = "CENTRAL_OVERRIDE" /\ override_substate # "NONE"
     /\ override_remaining > TICK
     /\ override_remaining' = TimeLeft
     /\ override_substate' = Activated
     /\ UNCHANGED <<supervisory, override_target, override_duration>>
  \/ /\ ~(supervisory = "CENTRAL_OVERRIDE" /\ override_substate # "NONE")
     /\ UNCHANGED <<supervisory, overrideVars>>

\* An active override for movement m, as the phase step of this pulse sees it.
OverrideFor(m) ==
  /\ supervisory' = "CENTRAL_OVERRIDE" /\ override_substate' = "ACTIVE"
  /\ override_target = m

Demand(p) ==
  \/ p = "ARTERIAL_GREEN" /\ arterial_demand
  \/ p = "CONNECTOR_GREEN" /\ connector_demand
  \/ ped_latched' \cap CompatibleSides(p) # {}

\* Defect: own demand extends the green for as long as it lasts.
ShouldExitGreen_Uncapped(elapsed, own, other, requires_other) ==
  /\ elapsed >= MIN_GREEN
  /\ requires_other => other
  /\ ~own

ShouldExitGreen(elapsed, own, other, requires_other) ==
  /\ elapsed >= MIN_GREEN
  /\ requires_other => other
  /\ ~own \/ elapsed >= MAX_GREEN

ArterialGreenOver(elapsed) ==
  /\ ~OverrideFor("ARTERIAL")
  /\ IF mode = "PEAK_FIXED"
       THEN elapsed >= PEAK_ARTERIAL_GREEN + offset_extra_hold
       ELSE /\ elapsed % EXTENSION = 0
            /\ ShouldExitGreen(elapsed, Demand("ARTERIAL_GREEN"),
                               Demand("CONNECTOR_GREEN"), TRUE)

\* The ordinary end of a connector green, which a drain phase may extend.
ConnectorServiceOver(elapsed) ==
  IF mode = "PEAK_FIXED"
    THEN elapsed >= PEAK_CONNECTOR_GREEN
    ELSE /\ elapsed % EXTENSION = 0
         /\ ShouldExitGreen(elapsed, Demand("CONNECTOR_GREEN"), FALSE, FALSE)

\* The green-wave correction at the start of an arterial green, from how far
\* the start lies (in half a cycle either way) from the assigned offset.
StartError(now) ==
  LET error == (now % CYCLE) - (assigned_offset % CYCLE)
  IN  IF error > CYCLE \div 2 THEN error - CYCLE
      ELSE IF error < -(CYCLE \div 2) THEN error + CYCLE
      ELSE error

\* Defect: a late start is made good at the expense of the minimum green.
FastForward_Unclamped(error) == error

FastForward(error) ==
  IF error > PEAK_ARTERIAL_GREEN - MIN_GREEN
    THEN PEAK_ARTERIAL_GREEN - MIN_GREEN ELSE error

\* Defect: the mode that is being entered is not looked at.
OffsetApplies_AnyMode == TRUE

OffsetApplies == mode' = "PEAK_FIXED"

ApplyOffset ==
  \/ /\ OffsetApplies
     /\ \E now \in ClockReadings :
          LET error == StartError(now)
          IN  /\ green_elapsed' = IF error > 0 THEN FastForward(error) ELSE 0
              /\ offset_extra_hold' = IF error < 0 THEN -error ELSE 0
  \/ /\ ~OffsetApplies
     /\ green_elapsed' = 0 /\ offset_extra_hold' = 0

\* advance_phase out of an all-red interval, into the green to.
StartGreen(to) ==
  /\ phase' = to
  /\ mode' = IF pending_mode = "NONE" THEN mode ELSE pending_mode
  /\ pending_mode' = "NONE"
  /\ IF to = "ARTERIAL_GREEN" /\ offset_apply_pending
       THEN offset_apply_pending' = FALSE /\ ApplyOffset
       ELSE /\ green_elapsed' = 0
            /\ UNCHANGED <<offset_apply_pending, offset_extra_hold>>

\* advance_phase out of a green or a yellow.
EnterClearance(to) ==
  /\ phase' = to /\ green_elapsed' = 0
  /\ UNCHANGED <<modeVars, offset_apply_pending>>

StayInPhase(elapsed) ==
  /\ green_elapsed' = elapsed
  /\ UNCHANGED <<phase, modeVars, offset_apply_pending, offset_extra_hold>>

ArterialGreenTick(elapsed) ==
  /\ phase = "ARTERIAL_GREEN"
  /\ \/ ~ArterialGreenOver(elapsed) /\ StayInPhase(elapsed)
     \/ /\ ArterialGreenOver(elapsed)
        /\ EnterClearance("ARTERIAL_YELLOW")
        /\ offset_extra_hold' = IF mode = "PEAK_FIXED" THEN 0
                                                       ELSE offset_extra_hold
  /\ UNCHANGED drainVars

\* Defect: the drain phase is still on when its green is over.
EndDrain_StaysActive ==
  /\ drain_extending' = FALSE /\ drain_total' = 0
  /\ UNCHANGED <<drain_pending, drain_active>>

EndDrain ==
  /\ drain_active' = FALSE /\ drain_extending' = FALSE /\ drain_total' = 0
  /\ UNCHANGED drain_pending

\* Defect: the cap is passed before it is noticed.
DrainOver_LateCap ==
  /\ drain_total % EXTENSION = 0
  /\ ~queue_warning \/ drain_total > DRAIN_MAX

\* A drain stops on a 4 s boundary: the queue has cleared or the cap is reached.
DrainOver ==
  /\ drain_total % EXTENSION = 0
  /\ ~queue_warning \/ drain_total >= DRAIN_MAX

EndConnectorGreen ==
  EnterClearance("CONNECTOR_YELLOW") /\ UNCHANGED offset_extra_hold

\* Defect: a drain phase in progress is not cut short by a new train.
CutOff_NotWhileDraining(elapsed) ==
  /\ supervisory' = "RAILWAY_PREEMPTION" /\ elapsed >= MIN_GREEN
  /\ ~drain_active

CutOff(elapsed) ==
  supervisory' = "RAILWAY_PREEMPTION" /\ elapsed >= MIN_GREEN

ConnectorGreenTick(elapsed) ==
  LET cutOff == CutOff(elapsed)
      draining == drain_active /\ drain_extending
  IN  /\ phase = "CONNECTOR_GREEN"
      /\ \/ /\ OverrideFor("CONNECTOR")
            /\ StayInPhase(elapsed) /\ UNCHANGED drainVars
         \/ /\ ~OverrideFor("CONNECTOR") /\ cutOff
            /\ EndDrain /\ EndConnectorGreen
         \/ /\ ~OverrideFor("CONNECTOR") /\ ~cutOff /\ draining /\ DrainOver
            /\ EndDrain /\ EndConnectorGreen
         \/ /\ ~OverrideFor("CONNECTOR") /\ ~cutOff /\ draining /\ ~DrainOver
            /\ drain_total' = drain_total + TICK
            /\ StayInPhase(elapsed)
            /\ UNCHANGED <<drain_pending, drain_active, drain_extending>>
         \/ /\ ~OverrideFor("CONNECTOR") /\ ~cutOff /\ ~draining
            /\ ~ConnectorServiceOver(elapsed)
            /\ StayInPhase(elapsed) /\ UNCHANGED drainVars
         \/ /\ ~OverrideFor("CONNECTOR") /\ ~cutOff /\ ~draining
            /\ ConnectorServiceOver(elapsed) /\ drain_active
            /\ drain_extending' = TRUE /\ drain_total' = 0
            /\ StayInPhase(elapsed) /\ UNCHANGED <<drain_pending, drain_active>>
         \/ /\ ~OverrideFor("CONNECTOR") /\ ~cutOff /\ ~draining
            /\ ConnectorServiceOver(elapsed) /\ ~drain_active
            /\ EndConnectorGreen /\ UNCHANGED drainVars

YellowTick(elapsed) ==
  /\ phase \in Yellows
  /\ IF elapsed >= YELLOW
       THEN /\ EnterClearance(IF phase = "ARTERIAL_YELLOW" THEN "ALL_RED_A_TO_B"
                                                           ELSE "ALL_RED_B_TO_A")
            /\ UNCHANGED offset_extra_hold
       ELSE StayInPhase(elapsed)
  /\ UNCHANGED drainVars

\* Defect: a train does not keep the connector from its turn.
ConnectorTurn_IgnoresTrain ==
  /\ phase = "ALL_RED_A_TO_B"
  /\ ~OverrideFor("ARTERIAL") /\ ~OverrideFor("CONNECTOR")

ConnectorTurn ==
  /\ phase = "ALL_RED_A_TO_B"
  /\ ~OverrideFor("ARTERIAL") /\ ~OverrideFor("CONNECTOR")
  /\ supervisory' # "RAILWAY_PREEMPTION"

\* Leaving all-red: an active override takes its movement; otherwise the
\* connector follows the arterial unless the crossing is not open.
AllRedTick(elapsed) ==
  /\ phase \in AllReds
  /\ \/ elapsed < ALL_RED /\ StayInPhase(elapsed) /\ UNCHANGED drainVars
     \/ /\ elapsed >= ALL_RED /\ OverrideFor("CONNECTOR")
        /\ StartGreen("CONNECTOR_GREEN") /\ UNCHANGED drainVars
     \/ /\ elapsed >= ALL_RED /\ ConnectorTurn
        /\ StartGreen("CONNECTOR_GREEN")
        /\ IF drain_pending
             THEN /\ drain_pending' = FALSE /\ drain_active' = TRUE
                  /\ drain_extending' = FALSE /\ drain_total' = 0
             ELSE UNCHANGED drainVars
     \/ /\ elapsed >= ALL_RED /\ ~OverrideFor("CONNECTOR") /\ ~ConnectorTurn
        /\ StartGreen("ARTERIAL_GREEN") /\ UNCHANGED drainVars

PhaseStep ==
  LET elapsed == (green_elapsed + TICK) % ELAPSED_MODULUS
  IN  \/ ArterialGreenTick(elapsed) \/ ConnectorGreenTick(elapsed)
      \/ YellowTick(elapsed) \/ AllRedTick(elapsed)

OnPhaseTimer ==
  \/ HeldInFaultSafe
  \/ /\ ~FaultHeld
     /\ PedServiceTick /\ OverrideTick /\ PhaseStep
     /\ UNCHANGED <<demandVars, railVars, linkVars, assigned_offset>>

-----------------------------------------------------------------------------
VehicleSensing ==
  \/ \E present \in ArterialReports : SetArterialVehicleDemand(present)
  \/ \E present \in ConnectorReports : SetConnectorVehicleDemand(present)
  \/ \E active \in QueueReports : SetQueueWarning(active)

Supervising ==
  \/ WatchdogTrips # {} /\ ReportWatchdogTrip
  \/ OnRequestFaultClear
  \/ \E offset \in OffsetRequests : OnSetTimingProfile(offset)
  \/ \E m \in ModeRequests : OnSetMode(m)
  \/ \E target \in OverrideTargets, duration \in OverrideDurations :
       OnRequestOverride(target, duration)
  \/ \E extend \in RenewDurations : OnRenewOverride(extend)
  \/ OnCancelOverride
  \/ \E state \in CrossingReports : OnCrossingStatus(state)
  \/ \E acked \in HeartbeatResults : OnHeartbeatResult(acked)
  \/ \E m \in ScheduleModes : LocalClockModeCheck(m)

Next ==
  \/ OnPhaseTimer
  \/ VehicleSensing
  \/ \E side \in PedButtons : LatchPedestrianRequest(side)
  \/ Supervising

Spec == Init /\ [][Next]_vars

\* The kernel timer keeps delivering phase pulses and the server loop keeps
\* receiving them (ipc_timer_arm is periodic): nothing else is promised.
FairSpec == Spec /\ WF_vars(OnPhaseTimer)

-----------------------------------------------------------------------------
SignalTypeOK ==
  /\ mode \in Modes /\ pending_mode \in Modes \cup {"NONE"}
  /\ phase \in Phases /\ green_elapsed \in 0 .. ELAPSED_MODULUS - 1
  /\ drain_pending \in BOOLEAN /\ drain_active \in BOOLEAN
  /\ drain_extending \in BOOLEAN /\ drain_total \in Nat
  /\ assigned_offset \in Nat /\ offset_apply_pending \in BOOLEAN
  /\ offset_extra_hold \in 0 .. CYCLE

PedTypeOK ==
  /\ ped_latched \subseteq Sides /\ ped_recall \subseteq Sides
  /\ ped_serving \subseteq Sides
  /\ ped_phase \in {"NONE", "WALK", "FLASHING_DONT_WALK"}
  /\ ped_elapsed \in Nat /\ ped_clearance_active \in BOOLEAN

SupervisionTypeOK ==
  /\ last_crossing \in CrossingStates /\ supervisory \in SupervisoryStates
  /\ faults \subseteq {"WATCHDOG_TRIP"}
  /\ override_substate \in {"NONE", "PENDING_CLEARANCE", "ACTIVE"}
  /\ override_target \in Movements \cup {"NONE"}
  /\ override_duration \in 0 .. OVERRIDE_CAP
  /\ override_remaining \in 0 .. OVERRIDE_CAP

InputTypeOK ==
  /\ arterial_demand \in BOOLEAN /\ connector_demand \in BOOLEAN
  /\ queue_warning \in BOOLEAN
  /\ link_state \in {"CENTRAL_CONNECTED", "DEGRADED_LOCAL"}
  /\ missed_acks \in 0 .. MISSED_MAX

\* The values every field of lx_fsm_t may take.
TypeOK == SignalTypeOK /\ PedTypeOK /\ SupervisionTypeOK /\ InputTypeOK

\* The supervisor never loses the crossing: outside FAULT_SAFE it is in
\* preemption exactly while the last report was not OPEN, whatever faults,
\* overrides and reports came in between (and in whatever order), and it is in
\* FAULT_SAFE exactly while a fault is latched.
SupervisionFollowsCrossing ==
  /\ supervisory = "FAULT_SAFE" <=> faults # {}
  /\ supervisory = "RAILWAY_PREEMPTION" => last_crossing # "OPEN"
  /\ supervisory \in {"NORMAL_OPERATION", "CENTRAL_OVERRIDE"}
       => last_crossing = "OPEN"

\* The override substate, its countdown and the supervisor agree: no override
\* outlives a train, a fault or its cancellation, a running one has time left
\* but never more than it was granted, and one is held back only for the
\* pedestrians who are actually crossing.
OverrideConsistent ==
  /\ supervisory = "CENTRAL_OVERRIDE" <=> override_substate # "NONE"
  /\ override_substate # "NONE" => /\ override_remaining > 0
                                   /\ override_remaining <= override_duration
                                   /\ override_target \in Movements
  /\ override_substate = "NONE" => override_remaining = 0
  /\ override_substate = "PENDING_CLEARANCE" => ped_clearance_active

\* The three encodings of "pedestrians are crossing" agree, and a side is
\* recalled only during its own service, so that a recall is always honoured.
PedServiceConsistent ==
  /\ ped_clearance_active <=> ped_phase # "NONE"
  /\ ped_serving # {} <=> ped_phase # "NONE"
  /\ ped_serving \subseteq ped_latched
  /\ ped_recall \subseteq ped_serving
  /\ ped_serving \subseteq {0, 1} \/ ped_serving \subseteq {2, 3}

\* A drain phase lives and dies inside one connector green and never grants
\* more than the cap, however often the crossing closes and reopens and however
\* preemption, override and faults interrupt it.
DrainConfined ==
  /\ drain_active => phase = "CONNECTOR_GREEN"
  /\ drain_extending => drain_active
  /\ ~drain_extending => drain_total = 0
  /\ drain_total <= DRAIN_MAX

Conflicting(sides) ==
  IF sides \subseteq {0, 1} THEN {"CONNECTOR_GREEN", "CONNECTOR_YELLOW"}
                            ELSE {"ARTERIAL_GREEN", "ARTERIAL_YELLOW"}

\* A WALK that begins in the last tick of its green is over before the
\* conflicting movement moves off (invariant 2 of 04-safety-and-realtime.md).
\* It is, to the tick, because a pulse serves pedestrians before it changes the
\* phase and LX_WALK_MS is no more than yellow and all-red together.
WalkClearsFirst == ped_phase = "WALK" => phase \notin Conflicting(ped_serving)

ConnectorGreenStarts ==
  phase # "CONNECTOR_GREEN" /\ phase' = "CONNECTOR_GREEN"

\* No connector green begins while the crossing was last reported not open
\* (invariants 9 and 12 of docs/specification/04-safety-and-realtime.md).
NoGreenTowardsTrain == [][ConnectorGreenStarts => last_crossing' = "OPEN"]_vars
=============================================================================
