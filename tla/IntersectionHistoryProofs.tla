---------------------- MODULE IntersectionHistoryProofs ----------------------
(***************************************************************************)
(* Proofs about what the road users get from an intersection: no press is  *)
(* lost, every phase has its minimum, a closed crossing is fed no longer   *)
(* than the minimum green, an off-peak green keeps true time, a connector  *)
(* call is answered in bounded time, and the heads keep the right of way.  *)
(* They rest on the invariants of IntersectionProofs, which hold here      *)
(* because a recorded behaviour is one of Intersection.                    *)
(***************************************************************************)
EXTENDS IntersectionHistory, IntersectionProofs

USE DEF modeVars, phaseVars, demandVars, pedVars, drainVars, railVars,
        overrideVars, linkVars, offsetVars, outputs, history

\* A recorded time grows by one tick, up to the end of the record.
LEMMA LaterBounded ==
  ASSUME NEW t \in 0 .. RECORD_MAX
  PROVE  /\ Later(t) \in 0 .. RECORD_MAX /\ t <= Later(t)
         /\ Later(t) = RECORD_MAX \/ Later(t) = t + TICK
         /\ Later(t) <= t + TICK
BY RecordAssumption, TimingAssumption DEF Later

\* The elapsed time of the pulse: one tick more, unless it wraps around.
LEMMA ElapsedGrows ==
  ASSUME TypeOK,
         NEW elapsed, elapsed = (green_elapsed + TICK) % ELAPSED_MODULUS
  PROVE  /\ elapsed \in Nat /\ elapsed <= green_elapsed + TICK
         /\ green_elapsed + TICK < ELAPSED_MODULUS => elapsed = green_elapsed + TICK
<1>1. green_elapsed \in Nat /\ green_elapsed < ELAPSED_MODULUS
  BY ModulusLarge DEF TypeOK, SignalTypeOK
<1>2. elapsed \in Nat /\ elapsed <= green_elapsed + TICK
  BY <1>1, ModulusLarge, TimingAssumption
<1>3. green_elapsed + TICK < ELAPSED_MODULUS => elapsed = green_elapsed + TICK
  BY <1>1, ModulusLarge, TimingAssumption
<1> QED
  BY <1>2, <1>3

\* Whatever is recorded, the controller takes one of its own steps.
LEMMA HistoryWatches ==
  ASSUME [HNext]_hvars
  PROVE  [Next]_vars
BY DEF HNext, Next, hvars, vars

\* Every recorded behaviour is one of Intersection, so that its theorems carry
\* over.  (That every behaviour of Intersection can be recorded is not claimed
\* here; it shows in HNext, whose disjuncts are those of Next, each with an
\* assignment to every history variable.)
LEMMA HistoryOnlyWatches == HSpec => Spec
<1>1. HInit => Init
  BY DEF HInit
<1>2. [HNext]_hvars => [Next]_vars
  BY HistoryWatches
<1> QED
  BY <1>1, <1>2, PTL DEF HSpec, Spec

\* A step is a pulse that is recorded as a tick, or an event that leaves the
\* signal, its elapsed time and the time it has been displayed alone.
Pulse ==
  /\ ~FaultHeld /\ PedServiceTick /\ OverrideTick /\ PhaseStep
  /\ UNCHANGED <<demandVars, railVars, linkVars, assigned_offset>>
  /\ RecordTick

SignalKept ==
  UNCHANGED <<mode, phaseVars, drain_active, drain_extending, drain_total,
              offset_extra_hold, shown>>

Event ==
  /\ SignalKept
  /\ \/ RecordEvent
     \/ /\ UNCHANGED <<shown, owed, waited, exposed, override_fate>>
        /\ CallFacingArterial' <=> CallFacingArterial
        /\ FeedingClosedCrossing' <=> FeedingClosedCrossing

LEMMA PulseOrEvent ==
  ASSUME SupervisionInv, [HNext]_hvars
  PROVE  Pulse \/ Event
<1>1. CASE OnPhaseTimer /\ IF FaultHeld THEN RecordHeld ELSE RecordTick
  <2>1. CASE HeldInFaultSafe
    <3>1. UNCHANGED <<shown, owed, waited, exposed, override_fate>>
      BY <1>1, <2>1 DEF HeldInFaultSafe, RecordHeld
    <3>2. UNCHANGED <<railVars, supervisory>>
      BY <2>1, HeldKeepsSupervision
    <3>3. SignalKept
      BY <2>1, <3>1 DEF HeldInFaultSafe, SignalKept
    <3>4. UNCHANGED connector_demand
      BY <2>1 DEF HeldInFaultSafe
    <3>5. /\ CallFacingArterial' <=> CallFacingArterial
          /\ FeedingClosedCrossing' <=> FeedingClosedCrossing
      BY <3>2, <3>3, <3>4
      DEF SignalKept, CallFacingArterial, FeedingClosedCrossing
    <3> QED
      BY <3>1, <3>3, <3>5 DEF Event
  <2>2. CASE ~HeldInFaultSafe
    BY <1>1, <2>2 DEF Pulse, OnPhaseTimer
  <2> QED
    BY <2>1, <2>2
<1>2. CASE VehicleSensing /\ RecordEvent
  <2>1. SignalKept
    BY <1>2, VehicleSensingFrame DEF SignalKept, RecordEvent
  <2> QED
    BY <1>2, <2>1 DEF Event
<1>3. CASE /\ \E side \in PedButtons : LatchPedestrianRequest(side)
           /\ RecordEvent
  <2>1. SignalKept
    BY <1>3 DEF SignalKept, RecordEvent, LatchPedestrianRequest
  <2> QED
    BY <1>3, <2>1 DEF Event
<1>4. CASE Supervising /\ RecordEvent
  <2>1. SignalKept
    BY <1>4, SupervisingFrame DEF SignalKept, RecordEvent
  <2> QED
    BY <1>4, <2>1 DEF Event
<1>5. CASE UNCHANGED hvars
  <2>1. SignalKept /\ UNCHANGED <<history, connector_demand, railVars, supervisory>>
    BY <1>5 DEF SignalKept, hvars, vars
  <2>2. /\ CallFacingArterial' <=> CallFacingArterial
        /\ FeedingClosedCrossing' <=> FeedingClosedCrossing
    BY <2>1 DEF SignalKept, CallFacingArterial, FeedingClosedCrossing
  <2> QED
    BY <2>1, <2>2 DEF Event
<1> QED
  BY <1>1, <1>2, <1>3, <1>4, <1>5 DEF HNext

-----------------------------------------------------------------------------
(* The types of the history.                                                *)

HistoryTypeOK ==
  /\ heads \in Phases \cup {"FAULT_SAFE"} /\ crosswalks \subseteq Sides
  /\ shown \in 0 .. RECORD_MAX /\ waited \in 0 .. RECORD_MAX
  /\ exposed \in 0 .. RECORD_MAX /\ owed \subseteq Sides
  /\ override_fate \in {"WAITING", "GREEN", "LAPSED"}

LEMMA HistoryTypesStep ==
  ASSUME HistoryTypeOK, TypeOK', [HNext]_hvars
  PROVE  HistoryTypeOK'
<1> USE DEF HistoryTypeOK
<1>0. phase' \in Phases /\ Walking' \subseteq Sides
  BY DEF TypeOK, SignalTypeOK, PedTypeOK, Walking
<1>1. 0 \in 0 .. RECORD_MAX
  BY RecordAssumption
<1>2. CASE RecordTick
  <2>1. /\ shown' \in {0, Later(shown)} /\ waited' \in {0, Later(waited)}
        /\ exposed' \in {0, Later(exposed)}
    BY <1>2 DEF RecordTick
  <2>2. owed' \subseteq owed /\ override_fate' \in {override_fate, "LAPSED",
                                                    "GREEN", "WAITING"}
    BY <1>2 DEF RecordTick
  <2>3. heads' \in {heads, phase'} /\ crosswalks' \in {crosswalks, Walking'}
    BY <1>2 DEF RecordTick, ShowChanges
  <2> QED
    BY <1>0, <1>1, <2>1, <2>2, <2>3, LaterBounded
<1>3. CASE RecordEvent /\ owed' \subseteq owed \cup PedButtons
  <2>1. heads' \in {heads, "FAULT_SAFE"} /\ crosswalks' \in {crosswalks, {}}
    BY <1>3 DEF RecordEvent, ShowFaultSafe
  <2> QED
    BY <1>1, <1>3, <2>1, InputAssumption DEF RecordEvent
<1>4. CASE RecordHeld \/ UNCHANGED history
  BY <1>4 DEF RecordHeld, ShowFaultSafe
<1> QED
  BY <1>2, <1>3, <1>4 DEF HNext, hvars

\* Controller and history keep their types.
THEOREM HistoryTypeCorrect == HSpec => []HTypeOK
<1>1. HInit => HistoryTypeOK
  BY RecordAssumption DEF HInit, HistoryTypeOK, Phases, Greens
<1>2. HistoryTypeOK /\ TypeOK' /\ [HNext]_hvars => HistoryTypeOK'
  BY HistoryTypesStep
<1>3. TypeOK /\ HistoryTypeOK => HTypeOK
  BY DEF HistoryTypeOK, HTypeOK
<1> QED
  BY <1>1, <1>2, <1>3, HistoryOnlyWatches, TypeCorrect, PTL DEF HSpec

-----------------------------------------------------------------------------
(* Pedestrian presses.  Only a press makes a side owed, and it latches the  *)
(* side in the same step, as a recall if the side is being served.          *)

LEMMA PressStep ==
  ASSUME PedServiceConsistent, PressNeverLost, [HNext]_hvars
  PROVE  PressNeverLost'
<1> USE DEF PressNeverLost
<1>1. CASE OnPhaseTimer /\ ~FaultHeld /\ RecordTick
  <2>1. PedServiceTick
    BY <1>1 DEF OnPhaseTimer, HeldInFaultSafe
  <2>2. owed' = IF ped_phase = "NONE" THEN owed \ ped_serving' ELSE owed
    BY <1>1 DEF RecordTick
  <2> QED
    BY <2>1, <2>2
    DEF PedServiceTick, LatchedAfterService, PedServiceConsistent
<1>2. CASE OnPhaseTimer /\ FaultHeld /\ RecordHeld
  BY <1>2 DEF OnPhaseTimer, HeldInFaultSafe, RecordHeld
<1>3. CASE (VehicleSensing \/ Supervising) /\ UNCHANGED owed
  BY <1>3, VehicleSensingFrame, SupervisingFrame
<1>4. ASSUME NEW side \in PedButtons, LatchPedestrianRequest(side),
             owed' = owed \cup {side}
      PROVE  PressNeverLost'
  BY <1>4 DEF LatchPedestrianRequest, Recall
<1>5. CASE UNCHANGED hvars
  BY <1>5 DEF hvars, vars
<1> QED
  BY <1>1, <1>2, <1>3, <1>4, <1>5 DEF HNext

\* No button press is lost: until a WALK answers it, it stays on record, and the
\* end of the service it arrived in does not take it away.
THEOREM PressesNeverLost == HSpec => []PressNeverLost
<1>1. HInit => PressNeverLost
  BY DEF HInit, PressNeverLost
<1>2. PedServiceConsistent /\ PressNeverLost /\ [HNext]_hvars => PressNeverLost'
  BY PressStep
<1> QED
  BY <1>1, <1>2, HistoryOnlyWatches, PedServiceAlwaysConsistent, PTL DEF HSpec

-----------------------------------------------------------------------------
(* Display times.  Outside a peak arterial green the elapsed time is the    *)
(* time displayed; there an offset correction may have moved it forward, by *)
(* no more than the peak green exceeds the minimum.                         *)

ArterialCredit == PEAK_ARTERIAL_GREEN - MIN_GREEN

ElapsedShown ==
  \/ shown = RECORD_MAX
  \/ green_elapsed = shown
  \/ /\ mode = "PEAK_FIXED" /\ phase = "ARTERIAL_GREEN"
     /\ green_elapsed <= shown + ArterialCredit

HoldInPeak == offset_extra_hold # 0 => mode = "PEAK_FIXED" /\ phase = "ARTERIAL_GREEN"

\* A drain only extends a connector green that could have ended without it.
DrainAfterMinimum == drain_extending => shown >= MIN_GREEN

ShownInv == ElapsedShown /\ HoldInPeak /\ DrainAfterMinimum

\* A pulse that stays in its phase.
LEMMA StayShown ==
  ASSUME HTypeOK, ElapsedShown, HoldInPeak, RecordTick,
         NEW elapsed, elapsed = (green_elapsed + TICK) % ELAPSED_MODULUS,
         StayInPhase(elapsed)
  PROVE  /\ ElapsedShown' /\ HoldInPeak' /\ shown <= shown'
         /\ shown' = RECORD_MAX \/ shown' = shown + TICK
<1>1. /\ shown \in 0 .. RECORD_MAX /\ green_elapsed \in Nat
      /\ green_elapsed < ELAPSED_MODULUS
  BY ModulusLarge DEF HTypeOK, TypeOK, SignalTypeOK
<1>2. shown' = Later(shown) /\ green_elapsed' = elapsed
      /\ UNCHANGED <<phase, mode, offset_extra_hold>>
  BY DEF StayInPhase, RecordTick
<1>3. shown <= shown' /\ shown' <= shown + TICK
      /\ (shown' = RECORD_MAX \/ shown' = shown + TICK)
  BY <1>1, <1>2, LaterBounded
<1>4. elapsed \in Nat /\ elapsed <= green_elapsed + TICK
      /\ (green_elapsed + TICK < ELAPSED_MODULUS => elapsed = green_elapsed + TICK)
  BY ElapsedGrows DEF HTypeOK
<1>5. ElapsedShown'
  <2>1. CASE shown' = RECORD_MAX
    BY <2>1 DEF ElapsedShown
  <2>2. CASE shown' # RECORD_MAX
    <3>1. shown' = shown + TICK /\ shown' < RECORD_MAX /\ shown # RECORD_MAX
      BY <1>1, <1>2, <1>3, <2>2, RecordAssumption, TimingAssumption, LaterBounded
    <3>2. CASE green_elapsed = shown
      <4>1. green_elapsed + TICK < ELAPSED_MODULUS
        BY <1>1, <3>1, <3>2, RecordAssumption, TimingAssumption
      <4> QED
        BY <1>2, <1>4, <3>1, <3>2, <4>1 DEF ElapsedShown
    <3>3. CASE /\ mode = "PEAK_FIXED" /\ phase = "ARTERIAL_GREEN"
               /\ green_elapsed <= shown + ArterialCredit
      <4>1. green_elapsed' <= shown' + ArterialCredit
        BY <1>1, <1>2, <1>4, <3>1, <3>3, TimingAssumption DEF ArterialCredit
      <4> QED
        BY <1>2, <3>3, <4>1 DEF ElapsedShown
    <3> QED
      BY <3>1, <3>2, <3>3 DEF ElapsedShown
  <2> QED
    BY <2>1, <2>2
<1> QED
  BY <1>2, <1>3, <1>5 DEF HoldInPeak

\* Entering a clearance: both times start at zero.
LEMMA EnterShown ==
  ASSUME RecordTick, NEW to, EnterClearance(to), to # phase
  PROVE  ElapsedShown' /\ shown' = 0
BY DEF RecordTick, EnterClearance, ElapsedShown

\* Starting a green: only an arterial green of the peak mode is corrected, and
\* by no more than its credit.
LEMMA StartShown ==
  ASSUME HTypeOK, HoldInPeak, RecordTick, phase \in AllReds,
         NEW to \in Greens, StartGreen(to), UNCHANGED assigned_offset
  PROVE  ElapsedShown' /\ HoldInPeak' /\ shown' = 0
<1>1. phase' = to /\ shown' = 0 /\ offset_extra_hold = 0
  BY DEF RecordTick, StartGreen, Greens, AllReds, HoldInPeak
<1>2. CASE to = "ARTERIAL_GREEN" /\ offset_apply_pending /\ OffsetApplies
  <2>1. ApplyOffset
    BY <1>2 DEF StartGreen
  <2>2. PICK now \in ClockReadings :
          green_elapsed' = IF StartError(now) > 0
                             THEN FastForward(StartError(now)) ELSE 0
    BY <1>2, <2>1 DEF ApplyOffset, OffsetApplies
  <2>3. StartError(now) \in Int
    BY StartErrorBounded, InputAssumption DEF HTypeOK, TypeOK, SignalTypeOK
  <2>4. green_elapsed' <= 0 + ArterialCredit
    BY <2>2, <2>3, TimingAssumption DEF FastForward, ArterialCredit
  <2> QED
    BY <1>1, <1>2, <2>4 DEF ElapsedShown, HoldInPeak, OffsetApplies
<1>3. CASE ~(to = "ARTERIAL_GREEN" /\ offset_apply_pending /\ OffsetApplies)
  <2>1. green_elapsed' = 0 /\ offset_extra_hold' = 0
    BY <1>1, <1>3 DEF StartGreen, ApplyOffset
  <2> QED
    BY <1>1, <2>1 DEF ElapsedShown, HoldInPeak
<1> QED
  BY <1>2, <1>3

\* When a green that keeps true time has reached a limit, so has its display;
\* a corrected one has used up its credit at most.
LEMMA GreenLongEnough ==
  ASSUME HTypeOK, ElapsedShown,
         NEW elapsed, elapsed = (green_elapsed + TICK) % ELAPSED_MODULUS,
         \/ elapsed >= PEAK_ARTERIAL_GREEN
         \/ elapsed >= MIN_GREEN /\ ~(mode = "PEAK_FIXED" /\ phase = "ARTERIAL_GREEN")
  PROVE  shown + TICK >= MIN_GREEN
<1>1. /\ shown \in 0 .. RECORD_MAX /\ green_elapsed \in Nat
      /\ elapsed \in Nat /\ elapsed <= green_elapsed + TICK
  BY ModulusLarge, ElapsedGrows DEF HTypeOK, TypeOK, SignalTypeOK
<1>2. CASE shown = RECORD_MAX
  BY <1>1, <1>2, RecordAssumption, TimingAssumption
<1>3. CASE green_elapsed = shown
  BY <1>1, <1>3, TimingAssumption
<1>4. CASE /\ mode = "PEAK_FIXED" /\ phase = "ARTERIAL_GREEN"
           /\ green_elapsed <= shown + ArterialCredit
  BY <1>1, <1>4, TimingAssumption DEF ArterialCredit
<1> QED
  BY <1>2, <1>3, <1>4 DEF ElapsedShown

\* What a pulse owes to the display of the phase it finds.
DisplayKept == phase' # phase => shown + TICK >= MinimumDisplay(phase)

LEMMA ArterialShown ==
  ASSUME HTypeOK, DrainInv, ShownInv, RecordTick,
         NEW elapsed, elapsed = (green_elapsed + TICK) % ELAPSED_MODULUS,
         ArterialGreenTick(elapsed)
  PROVE  ShownInv' /\ DisplayKept
<1> USE DEF ShownInv
<1>1. phase = "ARTERIAL_GREEN" /\ drain_extending' = FALSE
  BY DEF ArterialGreenTick, DrainInv, DrainConfined
<1>2. CASE StayInPhase(elapsed)
  BY <1>1, <1>2, StayShown DEF DrainAfterMinimum, DisplayKept, StayInPhase
<1>3. CASE ~StayInPhase(elapsed)
  <2>1. /\ ArterialGreenOver(elapsed) /\ EnterClearance("ARTERIAL_YELLOW")
        /\ offset_extra_hold' = IF mode = "PEAK_FIXED" THEN 0
                                                       ELSE offset_extra_hold
    BY <1>3 DEF ArterialGreenTick
  <2>2. offset_extra_hold' = 0 /\ offset_extra_hold \in Nat
    BY <2>1, CyclePositive
    DEF HoldInPeak, HTypeOK, TypeOK, SignalTypeOK
  <2>3. elapsed \in Nat
    BY ElapsedGrows DEF HTypeOK
  <2>4. \/ elapsed >= PEAK_ARTERIAL_GREEN
        \/ elapsed >= MIN_GREEN /\ mode # "PEAK_FIXED"
    BY <2>1, <2>2, <2>3, TimingAssumption DEF ArterialGreenOver, ShouldExitGreen
  <2>5. shown + TICK >= MIN_GREEN
    BY <2>4, GreenLongEnough
  <2>6. ElapsedShown' /\ HoldInPeak' /\ DrainAfterMinimum'
    BY <1>1, <2>1, <2>2, EnterShown DEF HoldInPeak, DrainAfterMinimum
  <2> QED
    BY <1>1, <2>5, <2>6 DEF DisplayKept, MinimumDisplay, Greens
<1> QED
  BY <1>2, <1>3

LEMMA ConnectorShown ==
  ASSUME HTypeOK, DrainInv, ShownInv, RecordTick,
         NEW elapsed, elapsed = (green_elapsed + TICK) % ELAPSED_MODULUS,
         ConnectorGreenTick(elapsed)
  PROVE  ShownInv' /\ DisplayKept
<1> USE DEF ShownInv
<1>1. phase = "CONNECTOR_GREEN" /\ offset_extra_hold = 0
  BY DEF ConnectorGreenTick, HoldInPeak
<1>2. shown \in Nat /\ shown <= RECORD_MAX
  BY RecordAssumption DEF HTypeOK
<1>3. CASE StayInPhase(elapsed)
  <2>1. /\ ElapsedShown' /\ HoldInPeak' /\ shown <= shown'
        /\ shown' = RECORD_MAX \/ shown' = shown + TICK
    BY <1>3, StayShown
  <2>2. shown' \in Nat
    BY <1>2, <2>1, RecordAssumption, TimingAssumption
  <2>3. DrainAfterMinimum'
    <3>1. CASE drain_extending
      BY <1>2, <2>1, <2>2, <3>1, TimingAssumption DEF DrainAfterMinimum
    <3>2. CASE ~drain_extending /\ drain_extending'
      <4>1. ConnectorServiceOver(elapsed)
        BY <3>2, Zenon DEF ConnectorGreenTick, EndDrain
      <4>2. elapsed >= MIN_GREEN
        BY <4>1, ElapsedGrows, TimingAssumption
        DEF ConnectorServiceOver, ShouldExitGreen, HTypeOK
      <4>3. shown + TICK >= MIN_GREEN
        BY <1>1, <4>2, GreenLongEnough
      <4> QED
        BY <1>2, <2>1, <4>3, RecordAssumption, TimingAssumption
        DEF DrainAfterMinimum
    <3> QED
      BY <3>1, <3>2 DEF DrainAfterMinimum
  <2> QED
    BY <1>3, <2>1, <2>3 DEF DisplayKept, StayInPhase
<1>4. CASE ~StayInPhase(elapsed)
  <2>1. EndConnectorGreen
    BY <1>4 DEF ConnectorGreenTick
  <2>2. drain_extending' = FALSE
    BY <1>4, Zenon DEF ConnectorGreenTick, EndDrain, DrainInv, DrainConfined,
                       HTypeOK, TypeOK, SignalTypeOK
  <2>3. ElapsedShown' /\ HoldInPeak' /\ DrainAfterMinimum'
    BY <1>1, <2>1, <2>2, EnterShown
    DEF EndConnectorGreen, HoldInPeak, DrainAfterMinimum
  <2>4. \/ elapsed >= MIN_GREEN
        \/ drain_extending
        \/ ConnectorServiceOver(elapsed)
    BY <1>4 DEF ConnectorGreenTick, CutOff
  <2>5. shown + TICK >= MIN_GREEN
    <3>1. CASE drain_extending
      BY <1>2, <3>1, TimingAssumption DEF DrainAfterMinimum
    <3>2. CASE elapsed >= MIN_GREEN
      BY <1>1, <3>2, GreenLongEnough
    <3>3. CASE ConnectorServiceOver(elapsed)
      <4>1. elapsed >= MIN_GREEN
        BY <3>3, ElapsedGrows, TimingAssumption
        DEF ConnectorServiceOver, ShouldExitGreen, HTypeOK
      <4> QED
        BY <1>1, <4>1, GreenLongEnough
    <3> QED
      BY <2>4, <3>1, <3>2, <3>3
  <2> QED
    BY <1>1, <2>3, <2>5 DEF DisplayKept, MinimumDisplay, Greens
<1> QED
  BY <1>3, <1>4

LEMMA ClearanceShown ==
  ASSUME HTypeOK, ClearanceRunning, DrainInv, ShownInv, RecordTick, PhaseStep,
         UNCHANGED assigned_offset, phase \in Yellows \cup AllReds,
         NEW elapsed, elapsed = (green_elapsed + TICK) % ELAPSED_MODULUS,
         YellowTick(elapsed) \/ AllRedTick(elapsed)
  PROVE  ShownInv' /\ DisplayKept
<1> USE DEF ShownInv
<1>1. ~drain_extending /\ ~drain_extending'
  BY DEF DrainInv, DrainConfined, YellowTick, AllRedTick, Yellows, AllReds
<1>2. DrainAfterMinimum'
  BY <1>1 DEF DrainAfterMinimum
<1>3. shown \in Nat /\ green_elapsed \in Nat /\ elapsed \in Nat
  BY RecordAssumption, ModulusLarge, ElapsedGrows DEF HTypeOK, TypeOK, SignalTypeOK
<1>4. shown = RECORD_MAX \/ green_elapsed = shown
  BY DEF ElapsedShown, Yellows, AllReds
<1>5. CASE StayInPhase(elapsed)
  BY <1>2, <1>5, StayShown DEF DisplayKept, StayInPhase
<1>6. CASE YellowTick(elapsed) /\ ~StayInPhase(elapsed)
  <2>1. /\ elapsed >= YELLOW /\ UNCHANGED offset_extra_hold /\ phase \in Yellows
        /\ EnterClearance(IF phase = "ARTERIAL_YELLOW" THEN "ALL_RED_A_TO_B"
                                                       ELSE "ALL_RED_B_TO_A")
    BY <1>6 DEF YellowTick
  <2>2. shown + TICK >= YELLOW
    BY <1>3, <1>4, <2>1, ElapsedGrows, RecordAssumption, TimingAssumption
    DEF HTypeOK
  <2>3. ElapsedShown' /\ HoldInPeak'
    BY <2>1, EnterShown DEF HoldInPeak, Yellows
  <2> QED
    BY <1>2, <2>1, <2>2, <2>3 DEF DisplayKept, MinimumDisplay, Greens, Yellows
<1>7. CASE AllRedTick(elapsed) /\ ~StayInPhase(elapsed)
  <2>1. /\ elapsed >= ALL_RED /\ phase \in AllReds
        /\ \E to \in Greens : StartGreen(to)
    BY <1>7 DEF AllRedTick, Greens
  <2>2. shown + TICK >= ALL_RED
    BY <1>3, <1>4, <2>1, ElapsedGrows, RecordAssumption, TimingAssumption
    DEF HTypeOK
  <2>3. ElapsedShown' /\ HoldInPeak'
    BY <2>1, StartShown
  <2> QED
    BY <1>2, <2>1, <2>2, <2>3
    DEF DisplayKept, MinimumDisplay, Greens, Yellows, AllReds
<1> QED
  BY <1>5, <1>6, <1>7

LEMMA PulseShown ==
  ASSUME HTypeOK, ClearanceRunning, DrainInv, ShownInv, Pulse
  PROVE  ShownInv' /\ DisplayKept
<1> DEFINE elapsed == (green_elapsed + TICK) % ELAPSED_MODULUS
<1>1. \/ ArterialGreenTick(elapsed) \/ ConnectorGreenTick(elapsed)
      \/ YellowTick(elapsed) \/ AllRedTick(elapsed)
  BY DEF Pulse, PhaseStep
<1>2. RecordTick /\ PhaseStep /\ UNCHANGED assigned_offset
  BY DEF Pulse
<1>3. YellowTick(elapsed) \/ AllRedTick(elapsed) => phase \in Yellows \cup AllReds
  BY DEF YellowTick, AllRedTick
<1>4. elapsed = (green_elapsed + TICK) % ELAPSED_MODULUS
  OBVIOUS
<1> HIDE DEF elapsed
<1> QED
  BY <1>1, <1>2, <1>3, <1>4, ArterialShown, ConnectorShown, ClearanceShown

LEMMA EventShown ==
  ASSUME ShownInv, Event
  PROVE  ShownInv' /\ phase' = phase
BY DEF Event, SignalKept, ShownInv, ElapsedShown, HoldInPeak, DrainAfterMinimum

\* What the display relies on holds in every reachable state.
LEMMA SignalFacts ==
  HSpec => []HTypeOK /\ []ClearanceRunning /\ []DrainInv /\ []SupervisionInv
<1>1. WalkInv => ClearanceRunning
  BY DEF WalkInv
<1>2. SupervisionFollowsCrossing /\ OverrideConsistent => SupervisionInv
  BY DEF SupervisionInv
<1> QED
  BY <1>1, <1>2, HistoryTypeCorrect, HistoryOnlyWatches, WalkInvariant,
     DrainInvariant, SupervisionCorrect, PTL

\* Elapsed and displayed time agree but for the bounded correction of a peak
\* arterial green.
THEOREM ShownInvariant == HSpec => []ShownInv
<1>1. HInit => ShownInv
  BY DEF HInit, Init, ShownInv, ElapsedShown, HoldInPeak, DrainAfterMinimum
<1>2. HTypeOK /\ ClearanceRunning /\ DrainInv /\ SupervisionInv
      /\ ShownInv /\ [HNext]_hvars
        => ShownInv'
  <2> SUFFICES ASSUME HTypeOK, ClearanceRunning, DrainInv, SupervisionInv,
                      ShownInv, [HNext]_hvars
               PROVE  ShownInv'
    OBVIOUS
  <2>1. CASE Pulse
    BY <2>1, PulseShown
  <2>2. CASE Event
    BY <2>2, EventShown
  <2> QED
    BY <2>1, <2>2, PulseOrEvent
<1> QED
  BY <1>1, <1>2, SignalFacts, PTL DEF HSpec

\* No phase gives way before its configured minimum has been displayed, whatever
\* cut it short.
THEOREM MinimumTimesAlwaysShown == HSpec => MinimumTimesShown
<1>1. HTypeOK /\ ClearanceRunning /\ DrainInv /\ SupervisionInv
      /\ ShownInv /\ [HNext]_hvars
        => [phase' # phase => shown + TICK >= MinimumDisplay(phase)]_hvars
  <2> SUFFICES ASSUME HTypeOK, ClearanceRunning, DrainInv, SupervisionInv,
                      ShownInv, [HNext]_hvars
               PROVE  DisplayKept
    BY DEF DisplayKept
  <2>1. CASE Pulse
    BY <2>1, PulseShown
  <2>2. CASE Event
    BY <2>2, EventShown DEF DisplayKept
  <2> QED
    BY <2>1, <2>2, PulseOrEvent
<1> QED
  BY <1>1, SignalFacts, ShownInvariant, PTL DEF HSpec, MinimumTimesShown

\* An off-peak green is timed by what it has been displayed, and no offset holds
\* any green but a peak arterial one.
THEOREM OffPeakNeverCorrected == HSpec => []OffPeakUncorrected
<1>1. HTypeOK /\ ShownInv => OffPeakUncorrected
  BY RecordAssumption
  DEF HTypeOK, ShownInv, ElapsedShown, HoldInPeak, OffPeakUncorrected
<1> QED
  BY <1>1, SignalFacts, ShownInvariant, PTL

-----------------------------------------------------------------------------
(* Exposure.  A connector green that feeds a closed crossing is cut off as  *)
(* soon as its elapsed time has reached the minimum; the elapsed time lags  *)
(* behind the exposure by one tick at most, when it has just wrapped around.*)

ExposureInv ==
  /\ ~FeedingClosedCrossing => exposed = 0
  /\ exposed % TICK = 0 /\ exposed <= MIN_GREEN
  /\ exposed > 0 => exposed <= green_elapsed + TICK /\ green_elapsed < MIN_GREEN

\* On the tick grid a time below the limit plus one tick is within the limit.
LEMMA LastTick ==
  ASSUME NEW t \in Nat, NEW limit \in Nat, t % TICK = 0, limit % TICK = 0,
         t < limit + TICK
  PROVE  t <= limit
<1> DEFINE i == t \div TICK
           j == limit \div TICK
<1>1. TICK \in Nat /\ TICK > 0
  BY TimingAssumption
<1>2. t = TICK * i /\ i \in Nat /\ limit = TICK * j /\ j \in Nat
  BY <1>1, QuotientRemainder
<1> HIDE DEF i, j
<1>3. limit < t => limit + TICK <= t
  BY <1>1, <1>2, MultiplesApart
<1> QED
  BY <1>1, <1>3

\* While the crossing is not open, only the cut-off decides about the connector.
LEMMA FeedingGreenCutOff ==
  ASSUME HTypeOK, SupervisionInv, Pulse, FeedingClosedCrossing,
         FeedingClosedCrossing'
  PROVE  /\ green_elapsed' = (green_elapsed + TICK) % ELAPSED_MODULUS
         /\ green_elapsed' < MIN_GREEN
<1> DEFINE elapsed == (green_elapsed + TICK) % ELAPSED_MODULUS
<1>1. ConnectorGreenTick(elapsed) /\ phase' = "CONNECTOR_GREEN"
  BY DEF Pulse, PhaseStep, FeedingClosedCrossing, ArterialGreenTick, YellowTick,
         AllRedTick, Yellows, AllReds
<1>2. elapsed \in Nat
  BY ElapsedGrows DEF HTypeOK
<1> HIDE DEF elapsed
<1>3. supervisory = "RAILWAY_PREEMPTION"
  BY DEF Pulse, FaultHeld, FeedingClosedCrossing, SupervisionInv,
         SupervisionFollowsCrossing, HTypeOK, TypeOK, SupervisionTypeOK,
         SupervisoryStates
<1>4. supervisory' = "RAILWAY_PREEMPTION"
  BY <1>3 DEF Pulse, OverrideTick
<1>5. ~OverrideFor("CONNECTOR")
  BY <1>4 DEF OverrideFor
<1>6. CASE CutOff(elapsed)
  BY <1>1, <1>5, <1>6 DEF ConnectorGreenTick, EndConnectorGreen, EnterClearance
<1>7. CASE ~CutOff(elapsed)
  <2>1. elapsed < MIN_GREEN
    BY <1>2, <1>4, <1>7, TimingAssumption DEF CutOff
  <2>2. green_elapsed' = elapsed
    BY <1>1 DEF ConnectorGreenTick, StayInPhase, EndConnectorGreen, EnterClearance
  <2> QED
    BY <2>1, <2>2 DEF elapsed
<1> QED
  BY <1>6, <1>7

\* The first tick of an exposure is within a tick of any elapsed time.
LEMMA FirstTick ==
  ASSUME NEW g \in Nat
  PROVE  0 + TICK <= g + TICK
BY TimingAssumption

LEMMA ExposureStep ==
  ASSUME HTypeOK, HTypeOK', SupervisionInv, ExposureInv, [HNext]_hvars,
         [ConnectorGreenStarts => last_crossing' = "OPEN"]_vars
  PROVE  ExposureInv'
<1> USE DEF ExposureInv
<1>1. exposed \in Nat /\ green_elapsed \in Nat /\ green_elapsed < ELAPSED_MODULUS
  BY RecordAssumption, ModulusLarge DEF HTypeOK, TypeOK, SignalTypeOK
<1>2. 0 % TICK = 0
  BY TimingAssumption
<1>3. CASE exposed' = 0
  BY <1>2, <1>3, TimingAssumption
<1>4. CASE Event /\ exposed' # 0
  <2>1. exposed' = exposed /\ UNCHANGED phaseVars
    BY <1>4 DEF Event, SignalKept, RecordEvent
  <2>2. FeedingClosedCrossing'
    BY <1>4, <2>1 DEF Event, RecordEvent
  <2> QED
    BY <2>1, <2>2
<1>5. CASE Pulse /\ exposed' # 0
  <2>1. FeedingClosedCrossing' /\ exposed' = Later(exposed)
    BY <1>5 DEF Pulse, RecordTick
  <2>2. FeedingClosedCrossing
    BY <2>1, <1>5 DEF FeedingClosedCrossing, Pulse, ConnectorGreenStarts, vars
  <2>3. /\ green_elapsed' = (green_elapsed + TICK) % ELAPSED_MODULUS
        /\ green_elapsed' < MIN_GREEN
    BY <1>5, <2>1, <2>2, FeedingGreenCutOff
  <2>4. exposed' = exposed + TICK
    BY <1>1, <2>1, RecordAssumption, TimingAssumption DEF Later
  <2>5. exposed' % TICK = 0
    BY <1>1, <2>4, DrainGrid
  <2>6. green_elapsed' \in Nat
    BY ModulusLarge DEF HTypeOK, TypeOK, SignalTypeOK
  <2>7. exposed' <= green_elapsed' + TICK
    <3>1. CASE exposed = 0
      BY <2>4, <2>6, <3>1, FirstTick
    <3>2. CASE exposed > 0
      <4>1. green_elapsed + TICK < ELAPSED_MODULUS
        BY <1>1, <3>2, RecordAssumption, TimingAssumption
      <4>2. green_elapsed' = green_elapsed + TICK
        BY <2>3, <4>1, ElapsedGrows DEF HTypeOK
      <4> QED
        BY <1>1, <2>4, <3>2, <4>2, TimingAssumption
    <3> QED
      BY <1>1, <3>1, <3>2
  <2>8. exposed' \in Nat /\ exposed' < MIN_GREEN + TICK
    BY <1>1, <2>3, <2>4, <2>6, <2>7, TimingAssumption
  <2>9. exposed' <= MIN_GREEN
    BY <2>5, <2>8, LastTick, GridAssumption, TimingAssumption
  <2> QED
    BY <2>1, <2>3, <2>5, <2>7, <2>9
<1> QED
  BY <1>3, <1>4, <1>5, PulseOrEvent

\* A crossing that is not open is fed by a connector green for no longer than
\* the minimum green, through drains, overrides, faults and wrap-around.
THEOREM ExposureAlwaysBounded == HSpec => []ExposureBounded
<1>1. HInit => ExposureInv
  BY TimingAssumption DEF HInit, ExposureInv
<1>2. HTypeOK /\ HTypeOK' /\ SupervisionInv /\ ExposureInv /\ [HNext]_hvars
      /\ [ConnectorGreenStarts => last_crossing' = "OPEN"]_vars
        => ExposureInv'
  BY ExposureStep
<1>3. ExposureInv => ExposureBounded
  BY DEF ExposureInv, ExposureBounded
<1>4. HSpec => [][ConnectorGreenStarts => last_crossing' = "OPEN"]_vars
  BY HistoryOnlyWatches, NeverGreenTowardsTrain DEF NoGreenTowardsTrain
<1> QED
  BY <1>1, <1>2, <1>3, <1>4, SignalFacts, PTL DEF HSpec

-----------------------------------------------------------------------------
(* Waiting calls.  The exit test passes at a multiple of EXTENSION once the *)
(* maximum green is reached, so a call waits from the start of a green that *)
(* has not reached it, or since the last multiple of EXTENSION.             *)

WaitInv ==
  /\ waited # 0 => CallFacingArterial
  /\ shown < RECORD_MAX =>
       /\ shown % TICK = 0
       /\ \/ waited <= shown % EXTENSION
          \/ waited <= shown /\ shown - (shown % EXTENSION) < MAX_GREEN

\* One tick on, a time is at the next multiple of EXTENSION or one tick further
\* from the last.
LEMMA ExtensionGrid ==
  ASSUME NEW t \in Nat, t % TICK = 0
  PROVE  /\ t % EXTENSION \in 0 .. EXTENSION - 1
         /\ (t + TICK) % EXTENSION \in {0, (t % EXTENSION) + TICK}
<1> DEFINE q == t \div EXTENSION
           r == t % EXTENSION
           e == EXTENSION \div TICK
           i == t \div TICK
<1>1. /\ TICK \in Nat /\ TICK > 0 /\ EXTENSION \in Nat /\ EXTENSION > 0
  BY TimingAssumption
<1>2. t = (EXTENSION * q) + r /\ q \in Nat /\ r \in 0 .. EXTENSION - 1
  BY <1>1, QuotientRemainder
<1>3. EXTENSION = TICK * e /\ e \in Nat
  BY <1>1, QuotientRemainder, DrainAssumption
<1>4. t = TICK * i /\ i \in Nat
  BY <1>1, QuotientRemainder
<1>5. r \in 0 .. EXTENSION - 1
  BY <1>2
<1> HIDE DEF q, r, e, i
<1>6. r = TICK * (i - (e * q)) /\ i - (e * q) \in Int
  BY <1>1, <1>2, <1>3, <1>4
<1>7. r + TICK <= EXTENSION
  <2> DEFINE k == i - (e * q)
  <2>1. r = TICK * k /\ k \in Int
    BY <1>6
  <2> HIDE DEF k
  <2>2. k \in Nat
    BY <1>1, <1>5, <2>1
  <2> QED
    BY <1>1, <1>3, <1>5, <2>1, <2>2, MultiplesApart
<1>8. CASE r + TICK = EXTENSION
  <2>1. t + TICK = EXTENSION * (q + 1)
    BY <1>1, <1>2, <1>8
  <2>2. (t + TICK) % EXTENSION = 0
    BY <1>1, <1>2, <2>1, MultipleRemainder
  <2> QED
    BY <1>5, <2>2 DEF r
<1>9. CASE r + TICK < EXTENSION
  <2>1. t + TICK = (EXTENSION * q) + (r + TICK) /\ r + TICK \in 0 .. EXTENSION - 1
    BY <1>1, <1>2, <1>5, <1>9
  <2>2. (t + TICK) % EXTENSION = r + TICK
    BY <1>1, <1>2, <2>1
  <2> QED
    BY <1>5, <2>2 DEF r
<1> QED
  BY <1>1, <1>5, <1>7, <1>8, <1>9

\* A pulse that keeps a call waiting has not passed the exit test.
LEMMA CallKeptWaiting ==
  ASSUME HTypeOK, HTypeOK', ShownInv, Pulse, CallFacingArterial,
         CallFacingArterial', shown' < RECORD_MAX
  PROVE  /\ shown' = shown + TICK /\ shown < RECORD_MAX
         /\ shown' % EXTENSION = 0 => shown' < MAX_GREEN
<1> DEFINE elapsed == (green_elapsed + TICK) % ELAPSED_MODULUS
<1>1. ArterialGreenTick(elapsed) /\ phase' = "ARTERIAL_GREEN"
  BY DEF Pulse, PhaseStep, CallFacingArterial, ConnectorGreenTick, YellowTick,
         AllRedTick, Yellows, AllReds
<1>2. shown \in 0 .. RECORD_MAX /\ RECORD_MAX \in Nat
  BY RecordAssumption DEF HTypeOK
<1>3. shown' = Later(shown) /\ UNCHANGED phase
  BY <1>1 DEF Pulse, RecordTick, CallFacingArterial
<1>4. shown' = shown + TICK /\ shown < RECORD_MAX
  BY <1>2, <1>3, LaterBounded, TimingAssumption, RecordAssumption DEF Later
<1>5. green_elapsed = shown
  BY <1>2, <1>4
  DEF ShownInv, ElapsedShown, CallFacingArterial
<1>6. elapsed = shown'
  <2>1. green_elapsed + TICK < ELAPSED_MODULUS
    BY <1>2, <1>4, <1>5, RecordAssumption, TimingAssumption, ModulusLarge
  <2> QED
    BY <1>4, <1>5, <2>1, ElapsedGrows DEF HTypeOK
<1> HIDE DEF elapsed
<1>7. ~ArterialGreenOver(elapsed)
  BY <1>1 DEF ArterialGreenTick, EnterClearance
<1>8. ~OverrideFor("ARTERIAL")
  BY DEF CallFacingArterial, OverrideFor
<1>9. Demand("CONNECTOR_GREEN")
  BY DEF Demand, CallFacingArterial
<1>10. elapsed % EXTENSION = 0 => ~(elapsed >= MAX_GREEN /\ elapsed >= MIN_GREEN)
  BY <1>7, <1>8, <1>9
  DEF ArterialGreenOver, ShouldExitGreen, CallFacingArterial
<1>11. elapsed % EXTENSION = 0 => elapsed < MAX_GREEN
  BY <1>2, <1>4, <1>6, <1>10, TimingAssumption
<1> QED
  BY <1>4, <1>6, <1>11

LEMMA RemainderBounded ==
  ASSUME NEW t \in Nat
  PROVE  0 <= t % EXTENSION /\ t % EXTENSION < EXTENSION
BY TimingAssumption

LEMMA WaitStep ==
  ASSUME HTypeOK, HTypeOK', ShownInv, WaitInv, Pulse
  PROVE  WaitInv'
<1>1. waited \in Nat /\ shown \in Nat /\ RECORD_MAX \in Nat /\ shown' \in Nat
  BY RecordAssumption DEF HTypeOK
<1>2. shown' \in {0, Later(shown)} /\ waited' \in {0, Later(waited)}
  BY DEF Pulse, RecordTick
<1>3. waited' # 0 => CallFacingArterial' /\ CallFacingArterial /\ waited' <= waited + TICK
  BY <1>1, LaterBounded DEF Pulse, RecordTick, HTypeOK
<1>4. ASSUME shown' < RECORD_MAX
      PROVE  shown' % TICK = 0
  <2>1. CASE shown' = 0
    BY <2>1, TimingAssumption
  <2>2. CASE shown' = shown + TICK /\ shown < RECORD_MAX
    BY <1>1, <2>2, DrainGrid DEF WaitInv
  <2> QED
    <3>1. shown \in 0 .. RECORD_MAX
      BY DEF HTypeOK
    <3>2. CASE shown' = Later(shown)
      <4>1. shown <= shown' /\ (shown' = RECORD_MAX \/ shown' = shown + TICK)
        BY <3>1, <3>2, LaterBounded
      <4> QED
        BY <1>1, <1>4, <2>2, <4>1
    <3> QED
      BY <1>2, <2>1, <3>2
<1>5. ASSUME shown' < RECORD_MAX, waited' = 0
      PROVE  waited' <= shown' % EXTENSION
  BY <1>1, <1>5, RemainderBounded
<1>6. ASSUME shown' < RECORD_MAX, waited' # 0
      PROVE  \/ waited' <= shown' % EXTENSION
             \/ waited' <= shown' /\ shown' - (shown' % EXTENSION) < MAX_GREEN
  <2>1. /\ shown' = shown + TICK /\ shown < RECORD_MAX
        /\ shown' % EXTENSION = 0 => shown' < MAX_GREEN
    BY <1>3, <1>6, CallKeptWaiting
  <2>2. /\ shown % EXTENSION \in 0 .. EXTENSION - 1
        /\ shown' % EXTENSION \in {0, (shown % EXTENSION) + TICK}
    BY <1>1, <2>1, ExtensionGrid DEF WaitInv
  <2> DEFINE r == shown % EXTENSION
             s == shown' % EXTENSION
  <2>3. /\ r \in Nat /\ r <= shown /\ s \in {0, r + TICK}
        /\ s = 0 => shown' < MAX_GREEN
    BY <1>1, <2>1, <2>2, TimingAssumption, QuotientRemainder
  <2>4. waited <= r \/ (waited <= shown /\ shown - r < MAX_GREEN)
    BY <2>1 DEF WaitInv
  <2>5. waited' \in Nat /\ waited' <= waited + TICK
    BY <1>3, <1>6, RecordAssumption DEF HTypeOK
  <2> HIDE DEF r, s
  <2>6. waited' <= s \/ (waited' <= shown' /\ shown' - s < MAX_GREEN)
    BY <1>1, <2>1, <2>3, <2>4, <2>5, TimingAssumption
  <2> QED
    BY <2>6 DEF s
<1> QED
  BY <1>3, <1>4, <1>5, <1>6 DEF WaitInv

\* A connector call is answered within the maximum green and one extension step,
\* for every green that has been displayed for less than 2^32 ms.
THEOREM ConnectorWaitAlwaysBounded == HSpec => []ConnectorWaitBounded
<1>1. HInit => WaitInv
  <2> SUFFICES ASSUME HInit
               PROVE  WaitInv
    OBVIOUS
  <2>1. 0 % TICK = 0 /\ 0 % EXTENSION = 0
    BY TimingAssumption
  <2> QED
    BY <2>1 DEF HInit, WaitInv
<1>2. HTypeOK /\ HTypeOK' /\ SupervisionInv /\ ShownInv /\ WaitInv /\ [HNext]_hvars
        => WaitInv'
  <2> SUFFICES ASSUME HTypeOK, HTypeOK', SupervisionInv, ShownInv, WaitInv,
                      [HNext]_hvars
               PROVE  WaitInv'
    OBVIOUS
  <2>1. CASE Pulse
    BY <2>1, WaitStep
  <2>2. CASE Event
    <3>1. UNCHANGED shown
      BY <2>2 DEF Event, SignalKept
    <3>2. waited' \in {0, waited} /\ (waited' # 0 => CallFacingArterial')
      BY <2>2 DEF Event, RecordEvent, WaitInv
    <3>3. shown \in Nat /\ shown % EXTENSION >= 0
      BY RecordAssumption, TimingAssumption DEF HTypeOK
    <3> QED
      BY <3>1, <3>2, <3>3 DEF WaitInv
  <2> QED
    BY <2>1, <2>2, PulseOrEvent
<1>3. HTypeOK /\ WaitInv => ConnectorWaitBounded
  <2> SUFFICES ASSUME HTypeOK, WaitInv, shown < RECORD_MAX
               PROVE  waited <= MAX_GREEN + EXTENSION
    BY DEF ConnectorWaitBounded
  <2>1. waited \in Nat /\ shown \in Nat
    BY RecordAssumption DEF HTypeOK
  <2>2. shown % EXTENSION \in 0 .. EXTENSION - 1
    BY <2>1, TimingAssumption
  <2> QED
    BY <2>1, <2>2, TimingAssumption DEF WaitInv
<1> QED
  BY <1>1, <1>2, <1>3, SignalFacts, ShownInvariant, PTL DEF HSpec


-----------------------------------------------------------------------------
(* The right of way.  A pulse is a tick of the abstract specification, a    *)
(* trip of the watchdog its fault and the end of FAULT_SAFE its recovery;   *)
(* every other step shows the road users nothing: it is a report at most.   *)

Standstill == UNCHANGED <<phase, shown, ped_phase, ped_serving, ped_elapsed>>

\* Outside a pulse nothing moves on; the heads are forced or left alone.
LEMMA PulseOrStandstill ==
  ASSUME SupervisionFollowsCrossing, [HNext]_hvars
  PROVE  \/ Pulse
         \/ /\ Standstill /\ ShowFaultSafe /\ UNCHANGED last_crossing
            /\ supervisory' = "FAULT_SAFE"
         \/ /\ Standstill /\ UNCHANGED <<outputs, last_crossing>>
            /\ supervisory = "FAULT_SAFE" /\ supervisory' # "FAULT_SAFE"
         \/ /\ Standstill /\ UNCHANGED outputs
            /\ supervisory' = "FAULT_SAFE" <=> supervisory = "FAULT_SAFE"
<1> USE DEF Standstill
<1>1. CASE OnPhaseTimer /\ IF FaultHeld THEN RecordHeld ELSE RecordTick
  <2>1. CASE HeldInFaultSafe
    BY <1>1, <2>1 DEF HeldInFaultSafe, EnterFaultSafe, RecordHeld
  <2>2. CASE ~HeldInFaultSafe
    BY <1>1, <2>2 DEF OnPhaseTimer, Pulse
  <2> QED
    BY <2>1, <2>2
<1>2. CASE (VehicleSensing \/ \E side \in PedButtons : LatchPedestrianRequest(side))
           /\ RecordEvent
  <2>1. UNCHANGED <<supervisory, phase, ped_phase, ped_serving, ped_elapsed>>
    BY <1>2, VehicleSensingFrame DEF LatchPedestrianRequest
  <2> QED
    BY <1>2, <2>1 DEF RecordEvent
<1>3. CASE Supervising /\ RecordEvent
  <2>1. UNCHANGED <<phase, ped_phase, ped_serving, ped_elapsed, shown>>
    BY <1>3, SupervisingFrame DEF RecordEvent
  <2>2. CASE ReportWatchdogTrip
    <3>1. supervisory' = "FAULT_SAFE" /\ UNCHANGED last_crossing
      BY <2>2 DEF ReportWatchdogTrip, EnterFaultSafe
    <3> QED
      BY <1>3, <2>1, <3>1 DEF RecordEvent
  <2>3. CASE OnRequestFaultClear
    <3>1. supervisory' # "FAULT_SAFE"
      BY <2>3 DEF OnRequestFaultClear, RecoveredSupervision
    <3>2. UNCHANGED outputs
      BY <1>3, <3>1 DEF RecordEvent
    <3> QED
      BY <2>1, <2>3, <3>1, <3>2 DEF OnRequestFaultClear
  <2>4. CASE ~ReportWatchdogTrip /\ ~OnRequestFaultClear
    <3>1. supervisory' = "FAULT_SAFE" <=> supervisory = "FAULT_SAFE"
      BY <1>3, <2>4
      DEF Supervising, SupervisionFollowsCrossing, FaultHeld, HeldInFaultSafe,
          EnterFaultSafe, OnSetTimingProfile, OnSetMode, OnRequestOverride,
          OnRenewOverride, OnCancelOverride, OnCrossingStatus,
          OnHeartbeatResult, LocalClockModeCheck
    <3> QED
      BY <1>3, <2>1, <3>1 DEF RecordEvent
  <2> QED
    BY <2>2, <2>3, <2>4
<1>4. CASE UNCHANGED hvars
  BY <1>4 DEF hvars, vars
<1> QED
  BY <1>1, <1>2, <1>3, <1>4 DEF HNext

\* What is not a pulse is a fault, a recovery or a report, if anything.
LEMMA StandstillMaps ==
  ASSUME HTypeOK', Standstill,
         \/ /\ ShowFaultSafe /\ UNCHANGED last_crossing
            /\ supervisory' = "FAULT_SAFE"
         \/ /\ UNCHANGED <<outputs, last_crossing>>
            /\ supervisory = "FAULT_SAFE" /\ supervisory' # "FAULT_SAFE"
         \/ /\ UNCHANGED outputs
            /\ supervisory' = "FAULT_SAFE" <=> supervisory = "FAULT_SAFE"
  PROVE  [Promise!Next]_(Promise!rvars)
<1>1. last_crossing' \in CrossingStates
  BY DEF HTypeOK, TypeOK, SupervisionTypeOK
<1>2. UNCHANGED <<phase, shown, Walking, Walked>>
  BY DEF Standstill, Walking, Walked
<1>3. CASE /\ ShowFaultSafe /\ UNCHANGED last_crossing
           /\ supervisory' = "FAULT_SAFE"
  BY <1>2, <1>3 DEF Promise!Next, Promise!Fault, ShowFaultSafe
<1>4. CASE /\ UNCHANGED outputs
           /\ supervisory' = "FAULT_SAFE" <=> supervisory = "FAULT_SAFE"
  BY <1>1, <1>2, <1>4 DEF Promise!Next, Promise!Report, CrossingStates
<1>5. CASE /\ UNCHANGED <<outputs, last_crossing>>
           /\ supervisory = "FAULT_SAFE" /\ supervisory' # "FAULT_SAFE"
  BY <1>2, <1>5 DEF Promise!Next, Promise!Recover
<1> QED
  BY <1>3, <1>4, <1>5

\* The phase is displayed on, or gives way to the next one after its minimum.
LEMMA PhaseMaps ==
  ASSUME HTypeOK, ClearanceRunning, DrainInv, ShownInv, Pulse,
         ConnectorGreenStarts => last_crossing' = "OPEN"
  PROVE  Promise!Keep \/ Promise!Advance
<1>1. RecordTick /\ PhaseStep /\ UNCHANGED last_crossing
  BY DEF Pulse
<1>2. CASE phase' = phase
  <2>1. shown' = Later(shown)
    BY <1>1, <1>2 DEF RecordTick
  <2> QED
    BY <1>2, <2>1 DEF Promise!Keep, Later
<1>3. CASE phase' # phase
  <2>1. shown' = 0
    BY <1>1, <1>3 DEF RecordTick
  <2>2. shown + TICK >= Promise!Minimum(phase)
    BY <1>3, PulseShown
    DEF DisplayKept, MinimumDisplay, Promise!Minimum, Greens, Yellows
  <2>3. phase' \in Promise!Followers(phase)
    BY <1>1, <1>3, PhaseAdvance
    DEF Promise!Followers, Greens, Yellows, AllReds, Phases, HTypeOK, TypeOK,
        SignalTypeOK
  <2>4. phase' = "CONNECTOR_GREEN" => last_crossing = "OPEN"
    BY <1>1, <1>3 DEF ConnectorGreenStarts
  <2> QED
    BY <2>1, <2>2, <2>3, <2>4 DEF Promise!Advance
<1> QED
  BY <1>2, <1>3

\* A WALK begins beside its green, goes on, or is over.
LEMMA PedestriansMap ==
  ASSUME HTypeOK, PedServiceConsistent, PedServiceTick
  PROVE  Promise!Pedestrians
<1> USE DEF Promise!Pedestrians, Walking, Walked
<1>1. ped_elapsed \in Nat /\ TICK \in Nat /\ WALK \in Nat
  BY TimingAssumption DEF HTypeOK, TypeOK, PedTypeOK
<1>2. ped_phase \in {"NONE", "WALK", "FLASHING_DONT_WALK"}
  BY DEF HTypeOK, TypeOK, PedTypeOK
<1>3. CASE ped_phase = "NONE"
  <2>1. \/ Walking' = {}
        \/ Walking' = ped_latched \cap CompatibleSides(phase)
    BY <1>3 DEF PedServiceTick
  <2>2. Walked' = 0
    BY <1>3 DEF PedServiceTick
  <2>3. CompatibleSides(phase) = Promise!Beside(phase)
    BY DEF CompatibleSides, Promise!Beside
  <2>4. Walking = {} /\ Walking' \subseteq Promise!Beside(phase)
    BY <1>3, <2>1, <2>3
  <2> QED
    BY <2>2, <2>4
<1>4. CASE ped_phase = "WALK"
  <2>1. Walking = ped_serving /\ Walking # {} /\ Walked = ped_elapsed
    BY <1>4 DEF PedServiceConsistent
  <2>2. CASE ped_elapsed + TICK >= WALK
    <3>1. ped_phase' = "FLASHING_DONT_WALK"
      BY <1>4, <2>2 DEF PedServiceTick, WalkOver
    <3> QED
      BY <2>1, <2>2, <3>1
  <2>3. CASE ped_elapsed + TICK < WALK
    <3>1. UNCHANGED <<ped_phase, ped_serving>> /\ ped_elapsed' = ped_elapsed + TICK
      BY <1>1, <1>4, <2>3 DEF PedServiceTick, WalkOver
    <3> QED
      BY <1>4, <2>1, <2>3, <3>1
  <2> QED
    BY <1>1, <2>2, <2>3
<1>5. CASE ped_phase = "FLASHING_DONT_WALK"
  <2>1. ped_phase' # "WALK"
    BY <1>5 DEF PedServiceTick
  <2> QED
    BY <1>5, <2>1
<1> QED
  BY <1>2, <1>3, <1>4, <1>5

\* Every step of the intersection is a step of the right of way.
LEMMA RightOfWayStep ==
  ASSUME HTypeOK, HTypeOK', PedServiceConsistent, PedServiceConsistent',
         WalkClearsFirst', SupervisionFollowsCrossing, ClearanceRunning,
         DrainInv, ShownInv, [HNext]_hvars,
         [ConnectorGreenStarts => last_crossing' = "OPEN"]_vars
  PROVE  [Promise!Next]_(Promise!rvars)
<1>1. CASE Pulse
  <2>1. ConnectorGreenStarts => last_crossing' = "OPEN"
    BY DEF ConnectorGreenStarts, vars
  <2>2. Promise!Keep \/ Promise!Advance
    BY <1>1, <2>1, PhaseMaps
  <2>3. Promise!Pedestrians
    BY <1>1, PedestriansMap DEF Pulse
  <2>4. Walking' \cap Promise!Crossed(phase') = {}
    BY DEF PedServiceConsistent, WalkClearsFirst, Conflicting, Walking,
           Promise!Crossed
  <2>5. UNCHANGED last_crossing
    BY <1>1 DEF Pulse
  <2>6. supervisory # "FAULT_SAFE" /\ supervisory' # "FAULT_SAFE"
    BY <1>1 DEF Pulse, FaultHeld, OverrideTick
  <2>7. Promise!Display
    BY <1>1 DEF Pulse, RecordTick, ShowChanges, Promise!Display
  <2> QED
    BY <2>2, <2>3, <2>4, <2>5, <2>6, <2>7 DEF Promise!Next, Promise!Tick
<1>2. CASE ~Pulse
  BY <1>2, PulseOrStandstill, StandstillMaps
<1> QED
  BY <1>1, <1>2

\* The road users get the right of way that RightOfWay promises them, whatever
\* trains, operators, clocks and modes do behind it; a fault shows as the heads
\* forced to their safe state and the right of way held, and as nothing else.
THEOREM RightOfWayAlwaysKept == HSpec => KeepsRightOfWay
<1>1. HInit => Promise!Init
  BY DEF HInit, Init, Promise!Init, Walking, Walked
<1>2. HTypeOK /\ HTypeOK' /\ PedServiceConsistent /\ PedServiceConsistent'
      /\ WalkClearsFirst' /\ SupervisionFollowsCrossing /\ ClearanceRunning
      /\ DrainInv /\ ShownInv /\ [HNext]_hvars
      /\ [ConnectorGreenStarts => last_crossing' = "OPEN"]_vars
        => [Promise!Next]_(Promise!rvars)
  BY RightOfWayStep
<1>3. HSpec => []PedServiceConsistent /\ []WalkClearsFirst
               /\ []SupervisionFollowsCrossing
  <2>1. SupervisionInv => SupervisionFollowsCrossing
    BY DEF SupervisionInv
  <2> QED
    BY <2>1, HistoryOnlyWatches, PedServiceAlwaysConsistent,
       WalkAlwaysClearsFirst, SignalFacts, PTL
<1>4. HSpec => [][ConnectorGreenStarts => last_crossing' = "OPEN"]_vars
  BY HistoryOnlyWatches, NeverGreenTowardsTrain DEF NoGreenTowardsTrain
<1> QED
  BY <1>1, <1>2, <1>3, <1>4, SignalFacts, ShownInvariant, PTL
  DEF HSpec, KeepsRightOfWay, Promise!Spec
=============================================================================
