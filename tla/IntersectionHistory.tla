------------------------ MODULE IntersectionHistory ------------------------
(***************************************************************************)
(* The intersection controller observed over time.  History variables     *)
(* record what its heads show (which the state machine does not keep), how *)
(* long a phase has been in force (which green_elapsed_ms is not: an       *)
(* offset correction moves it forward), which button presses have not had  *)
(* a WALK since, how long a connector has waited, for how long traffic has *)
(* been fed to a closed crossing, and what became of an override.  They    *)
(* only watch: Next is unconstrained.                                      *)
(***************************************************************************)
EXTENDS Intersection

\* Times are recorded up to this bound, above every limit they are held to and
\* below the range of green_elapsed_ms.
CONSTANT RECORD_MAX

ASSUME RecordAssumption ==
  /\ RECORD_MAX \in Nat /\ RECORD_MAX < ELAPSED_MODULUS
  /\ MAX_GREEN + EXTENSION <= RECORD_MAX /\ MIN_GREEN + TICK <= RECORD_MAX
  /\ YELLOW <= RECORD_MAX /\ ALL_RED <= RECORD_MAX

\* A minimum green ends on a tick.
ASSUME GridAssumption == MIN_GREEN % TICK = 0

VARIABLES
  heads,         \* the phase that the vehicle heads display, or "FAULT_SAFE"
  crosswalks,    \* sides whose pedestrian head shows WALK
  shown,         \* for how long the present phase has been in force, out of FAULT_SAFE
  owed,          \* sides pressed since the last WALK that served them began
  waited,        \* how long a connector call has faced an off-peak arterial green
  exposed,       \* how long a connector green has fed a crossing that is not open
  override_fate  \* of the latest override: WAITING for its green, GREEN, or LAPSED

outputs == <<heads, crosswalks>>
history == <<outputs, shown, owed, waited, exposed, override_fate>>
hvars == <<vars, history>>

HInit ==
  /\ Init
  /\ heads = "ARTERIAL_GREEN" /\ crosswalks = {}
  /\ shown = 0 /\ owed = {} /\ waited = 0 /\ exposed = 0
  /\ override_fate = "GREEN"

\* Whom the controller gives WALK, and for how long already.
Walking == IF ped_phase = "WALK" THEN ped_serving ELSE {}
Walked == IF ped_phase = "WALK" THEN ped_elapsed ELSE 0

\* A head is written when its phase or its service changes.
ShowChanges ==
  /\ heads' = IF phase' = phase THEN heads ELSE phase'
  /\ crosswalks' = IF Walking' = Walking THEN crosswalks ELSE Walking'

\* apply_fault_safe forces all of them, and no recovery writes them again.
ShowFaultSafe == heads' = "FAULT_SAFE" /\ crosswalks' = {}

Later(t) == IF t + TICK > RECORD_MAX THEN RECORD_MAX ELSE t + TICK

\* An off-peak arterial green that a connector vehicle is calling to end.
CallFacingArterial ==
  /\ mode = "OFF_PEAK_SENSOR" /\ phase = "ARTERIAL_GREEN"
  /\ connector_demand /\ supervisory = "NORMAL_OPERATION"

FeedingClosedCrossing == phase = "CONNECTOR_GREEN" /\ last_crossing # "OPEN"

GreenOf(m) == IF m = "ARTERIAL" THEN "ARTERIAL_GREEN" ELSE "CONNECTOR_GREEN"

RecordTick ==
  /\ ShowChanges
  /\ shown' = IF phase' # phase THEN 0 ELSE Later(shown)
  /\ owed' = IF ped_phase = "NONE" THEN owed \ ped_serving' ELSE owed
  /\ waited' = IF CallFacingArterial' /\ CallFacingArterial THEN Later(waited)
               ELSE 0
  /\ exposed' = IF FeedingClosedCrossing' THEN Later(exposed) ELSE 0
  /\ override_fate' =
       IF override_fate # "WAITING" THEN override_fate
       ELSE IF supervisory' # "CENTRAL_OVERRIDE" THEN "LAPSED"
       ELSE IF /\ override_substate' = "ACTIVE"
               /\ phase' = GreenOf(override_target) THEN "GREEN"
       ELSE "WAITING"

\* Between ticks a trip of the watchdog forces the heads.  A wait ends with its
\* call and an override with a cancellation, a train or a fault, which all excuse
\* it.
RecordEvent ==
  /\ IF supervisory # "FAULT_SAFE" /\ supervisory' = "FAULT_SAFE"
       THEN ShowFaultSafe ELSE UNCHANGED outputs
  /\ waited' = IF CallFacingArterial' THEN waited ELSE 0
  /\ exposed' = IF FeedingClosedCrossing' THEN exposed ELSE 0
  /\ override_fate' = IF supervisory' # "CENTRAL_OVERRIDE" THEN "GREEN"
                      ELSE IF supervisory # "CENTRAL_OVERRIDE" THEN "WAITING"
                      ELSE override_fate
  /\ UNCHANGED shown

\* A pulse that finds FAULT_SAFE forces the heads again and advances nothing.
RecordHeld == ShowFaultSafe /\ UNCHANGED <<shown, owed, waited, exposed, override_fate>>

HNext ==
  \/ OnPhaseTimer /\ IF FaultHeld THEN RecordHeld ELSE RecordTick
  \/ VehicleSensing /\ RecordEvent /\ UNCHANGED owed
  \/ \E side \in PedButtons : /\ LatchPedestrianRequest(side) /\ RecordEvent
                              /\ owed' = owed \cup {side}
  \/ Supervising /\ RecordEvent /\ UNCHANGED owed

HSpec == HInit /\ [][HNext]_hvars
FairHSpec == HSpec /\ WF_vars(OnPhaseTimer)

-----------------------------------------------------------------------------
HTypeOK ==
  /\ TypeOK
  /\ heads \in Phases \cup {"FAULT_SAFE"} /\ crosswalks \subseteq Sides
  /\ shown \in 0 .. RECORD_MAX /\ waited \in 0 .. RECORD_MAX
  /\ exposed \in 0 .. RECORD_MAX /\ owed \subseteq Sides
  /\ override_fate \in {"WAITING", "GREEN", "LAPSED"}

MinimumDisplay(p) ==
  IF p \in Greens THEN MIN_GREEN ELSE IF p \in Yellows THEN YELLOW ELSE ALL_RED

\* A phase is in force for its configured minimum before it gives way, not
\* counting the time a fault holds it, whatever cut it short: preemption, the end
\* of an override, an offset correction, a mode change or a drain (TL-01;
\* invariant 3 of docs/specification/04-safety-and-realtime.md).
MinimumTimesShown ==
  [][phase' # phase => shown + TICK >= MinimumDisplay(phase)]_hvars

Promise == INSTANCE RightOfWay WITH
  control <- IF supervisory = "FAULT_SAFE" THEN "HELD" ELSE "RUNNING",
  walking <- Walking, walked <- Walked, crossing <- last_crossing

\* The road users get the right of way that they are promised, and no preemption,
\* override, drain phase, correction or change of mode shows in it: the movements
\* take turns with yellow and all-red in between, each for its time; no connector
\* green begins towards a train; and every WALK has its time beside the green it
\* belongs to, clear of the traffic that crosses it (invariants 1, 2, 3 and 12 of
\* docs/specification/04-safety-and-realtime.md).  Of a fault they see that it
\* takes every head to its safe state at once, in the middle of a green or WALK,
\* and that each stays there past the recovery, to its own next change; nothing
\* advances meanwhile, and no head ever shows more than the right of way.
KeepsRightOfWay == Promise!Spec

\* A press that no WALK has answered is still on record, and will survive the
\* end of the service it arrived in (04-safety-and-realtime.md:76: "the request
\* is never lost").
PressNeverLost ==
  owed \subseteq ped_latched /\ owed \cap ped_serving \subseteq ped_recall

\* The off-peak exit test only looks at multiples of EXTENSION.  An offset
\* correction, which may leave the elapsed time off the tick grid and holds the
\* green longer, must therefore never reach an off-peak green: its elapsed time
\* is the time it has been displayed, as far as that is recorded.
OffPeakUncorrected ==
  /\ mode = "OFF_PEAK_SENSOR" /\ phase \in Greens /\ shown < RECORD_MAX
       => green_elapsed = shown
  /\ offset_extra_hold # 0 => mode = "PEAK_FIXED" /\ phase = "ARTERIAL_GREEN"

\* A connector call is never kept waiting by an off-peak arterial green for more
\* than the maximum green and one extension step (03-operation-and-behavior.md,
\* section 12: "a structural anti-starvation limit"), however long that green
\* has rested already.  Only once it has rested for 2^32 ms, off the record for
\* every RECORD_MAX, does its elapsed time leave the grid of the exit test.
ConnectorWaitBounded == shown < RECORD_MAX => waited <= MAX_GREEN + EXTENSION

\* Once the crossing is reported not open, the connector green that feeds it
\* ends as soon as its minimum green allows, be it in a drain phase, after an
\* override, or resumed after a fault (TL-01 and
\* docs/test-plan-en/01-usecase-functional.md:559: "the light only cuts exactly at
\* the 8s mark, never earlier").  This bound is not invariant 9 of
\* 04-safety-and-realtime.md, which the code does not keep: the minimum green is
\* longer than the crossing's warning, so that a green begun just before it lasts
\* into CLOSING (NoGreenOntoClosing of MCIntersection).  A green that a fault holds
\* counts while it is in force, although the heads stay dark.  (The bound is met
\* one tick early, but for a report as the elapsed time of a green wraps around.)
ExposureBounded == exposed <= MIN_GREEN

\* An override long enough to wait for its turn gets the green it asked for.
OverrideGetsItsGreen == override_fate # "LAPSED"

\* Every pedestrian call is followed by a WALK of its own as long as the
\* controller is in normal operation.
PedestriansServed ==
  \A side \in PedButtons :
    side \in owed ~> (side \notin owed \/ supervisory # "NORMAL_OPERATION")

\* A connector vehicle is served as long as it waits and the controller is in
\* normal operation, in either mode and across mode changes (DP-06).
ConnectorServed ==
  connector_demand ~> \/ phase = "CONNECTOR_GREEN" \/ ~connector_demand
                      \/ supervisory # "NORMAL_OPERATION"

\* An override that nobody renews ends, also one that is still held back for
\* pedestrians (PA-11).
OverrideEnds ==
  supervisory = "CENTRAL_OVERRIDE" ~> supervisory # "CENTRAL_OVERRIDE"

\* A drain phase ends although the queue warning never clears, trains come and
\* go and the mode changes (CC-03); only a fault freezes it, and an operator who
\* keeps asking for the connector outlasts it.
DrainEnds ==
  drain_active ~> ~drain_active \/ supervisory \in {"FAULT_SAFE",
                                                    "CENTRAL_OVERRIDE"}

\* A WALK that has begun completes its clearance before vehicles that conflict
\* with the crosswalk get a green (invariant 4 of 04-safety-and-realtime.md).
ClearanceBeforeConflict ==
  ped_phase # "NONE" => phase \notin Conflicting(ped_serving)
=============================================================================
