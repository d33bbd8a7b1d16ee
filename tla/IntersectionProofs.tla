------------------------- MODULE IntersectionProofs -------------------------
(***************************************************************************)
(* Proofs about the intersection controller, for every value of the        *)
(* timings and of the inputs that the named assumptions allow.             *)
(***************************************************************************)
EXTENDS Intersection, TLAPS

\* The groups of variables are mere abbreviations for UNCHANGED.
USE DEF modeVars, phaseVars, demandVars, pedVars, drainVars, railVars,
        overrideVars, linkVars, offsetVars

\* CYCLE is a positive number of milliseconds.
LEMMA CyclePositive == CYCLE \in Nat /\ CYCLE > 0
BY TimingAssumption DEF CYCLE

\* No clearance interval and no peak green reaches the uint32_t modulus.
LEMMA ModulusLarge ==
  /\ ELAPSED_MODULUS \in Nat
  /\ ELAPSED_MODULUS > PEAK_ARTERIAL_GREEN
  /\ ELAPSED_MODULUS > YELLOW + TICK /\ ELAPSED_MODULUS > ALL_RED + TICK
BY TimingAssumption DEF CYCLE

\* The green-wave error is less than a cycle either way.
LEMMA StartErrorBounded ==
  ASSUME assigned_offset \in Nat, NEW now \in Nat
  PROVE  StartError(now) \in Int /\ StartError(now) > -CYCLE
<1>1. now % CYCLE \in 0 .. CYCLE - 1 /\ assigned_offset % CYCLE \in 0 .. CYCLE - 1
  BY CyclePositive
<1> DEFINE a == now % CYCLE
           b == assigned_offset % CYCLE
           h == CYCLE \div 2
<1>2. h \in Nat
  BY CyclePositive
<1>3. StartError(now) = IF a - b > h THEN a - b - CYCLE
                        ELSE IF a - b < -h THEN a - b + CYCLE ELSE a - b
  BY DEF StartError
<1> HIDE DEF a, b, h
<1>4. a \in 0 .. CYCLE - 1 /\ b \in 0 .. CYCLE - 1
  BY <1>1 DEF a, b
<1> QED
  BY <1>2, <1>3, <1>4, CyclePositive

\* The next value of the elapsed time is again a uint32_t.
LEMMA ElapsedWraps ==
  ASSUME green_elapsed \in 0 .. ELAPSED_MODULUS - 1
  PROVE  (green_elapsed + TICK) % ELAPSED_MODULUS \in 0 .. ELAPSED_MODULUS - 1
BY TimingAssumption, CyclePositive

-----------------------------------------------------------------------------
(* The types.                                                               *)

LEMMA PedServiceTypes ==
  ASSUME PedTypeOK, PedServiceTick
  PROVE  PedTypeOK'
<1> USE DEF PedTypeOK
<1>1. ped_latched' \subseteq Sides /\ ped_recall' \subseteq Sides
  BY DEF PedServiceTick, LatchedAfterService
<1>2. ped_serving' \subseteq Sides
  BY DEF PedServiceTick
<1>3. /\ ped_phase' \in {"NONE", "WALK", "FLASHING_DONT_WALK"}
      /\ ped_clearance_active' \in BOOLEAN
  BY DEF PedServiceTick
<1>4. ped_elapsed' \in Nat
  BY TimingAssumption DEF PedServiceTick
<1> QED
  BY <1>1, <1>2, <1>3, <1>4

LEMMA OverrideTypes ==
  ASSUME SupervisionTypeOK, OverrideTick, UNCHANGED railVars
  PROVE  SupervisionTypeOK'
BY TimingAssumption
DEF SupervisionTypeOK, OverrideTick, EndOverride, TimeLeft, Activated,
    SupervisoryStates

LEMMA StartGreenTypes ==
  ASSUME SignalTypeOK, NEW to \in Greens, StartGreen(to),
         UNCHANGED <<drainVars, assigned_offset>>
  PROVE  SignalTypeOK'
<1>1. mode' \in Modes /\ pending_mode' = "NONE" /\ phase' \in Phases
  BY DEF SignalTypeOK, StartGreen, Modes, Phases
<1>2. offset_apply_pending' \in BOOLEAN
  BY Zenon DEF StartGreen, SignalTypeOK
<1>3. /\ green_elapsed' \in 0 .. ELAPSED_MODULUS - 1
      /\ offset_extra_hold' \in 0 .. CYCLE
  <2>1. CASE to = "ARTERIAL_GREEN" /\ offset_apply_pending
    <3>1. ApplyOffset
      BY <2>1 DEF StartGreen
    <3>2. CASE ~OffsetApplies
      <4>1. green_elapsed' = 0 /\ offset_extra_hold' = 0
        BY <3>1, <3>2 DEF ApplyOffset
      <4> QED
        BY <4>1, CyclePositive, ModulusLarge, TimingAssumption
    <3>3. CASE OffsetApplies
      <4>1. PICK now \in ClockReadings :
              /\ green_elapsed' = IF StartError(now) > 0
                                    THEN FastForward(StartError(now)) ELSE 0
              /\ offset_extra_hold' = IF StartError(now) < 0
                                        THEN -StartError(now) ELSE 0
        BY <3>1, <3>3 DEF ApplyOffset, OffsetApplies
      <4>2. StartError(now) \in Int /\ StartError(now) > -CYCLE
        BY StartErrorBounded, InputAssumption DEF SignalTypeOK
      <4>3. green_elapsed' \in Nat /\ green_elapsed' <= PEAK_ARTERIAL_GREEN
        BY <4>1, <4>2, TimingAssumption DEF FastForward
      <4>4. offset_extra_hold' \in 0 .. CYCLE
        BY <4>1, <4>2, CyclePositive
      <4> QED
        BY <4>3, <4>4, ModulusLarge, TimingAssumption
    <3> QED
      BY <3>2, <3>3
  <2>2. CASE ~(to = "ARTERIAL_GREEN" /\ offset_apply_pending)
    <3>1. green_elapsed' = 0 /\ UNCHANGED <<offset_apply_pending, offset_extra_hold>>
      BY <2>2 DEF StartGreen
    <3> QED
      BY <3>1, ModulusLarge DEF SignalTypeOK
  <2> QED
    BY <2>1, <2>2
<1> QED
  BY <1>1, <1>2, <1>3 DEF SignalTypeOK

LEMMA PhaseStepTypes ==
  ASSUME SignalTypeOK, PhaseStep, UNCHANGED assigned_offset
  PROVE  SignalTypeOK'
<1> DEFINE elapsed == (green_elapsed + TICK) % ELAPSED_MODULUS
<1>1. elapsed \in 0 .. ELAPSED_MODULUS - 1
  BY ElapsedWraps DEF SignalTypeOK
<1>2. \/ ArterialGreenTick(elapsed) \/ ConnectorGreenTick(elapsed)
      \/ YellowTick(elapsed) \/ AllRedTick(elapsed)
  BY DEF PhaseStep
<1> HIDE DEF elapsed
<1>3. 0 \in 0 .. ELAPSED_MODULUS - 1 /\ 0 \in 0 .. CYCLE
  BY ModulusLarge, TimingAssumption, CyclePositive
<1>4. CASE ArterialGreenTick(elapsed)
  BY <1>1, <1>3, <1>4
  DEF ArterialGreenTick, StayInPhase, EnterClearance, SignalTypeOK, Phases,
      Yellows
<1>5. CASE ConnectorGreenTick(elapsed)
  <2>1. /\ UNCHANGED <<mode, pending_mode, offset_apply_pending,
                       offset_extra_hold>>
        /\ phase' \in Phases /\ green_elapsed' \in {0, elapsed}
    BY <1>5 DEF ConnectorGreenTick, StayInPhase, EndConnectorGreen,
                EnterClearance, SignalTypeOK, Phases, Yellows
  <2>2. /\ drain_pending' \in BOOLEAN /\ drain_active' \in BOOLEAN
        /\ drain_extending' \in BOOLEAN
    BY <1>5, Zenon DEF ConnectorGreenTick, EndDrain, SignalTypeOK
  <2>3. drain_total' \in {0, drain_total, drain_total + TICK}
    BY <1>5 DEF ConnectorGreenTick, EndDrain
  <2>4. drain_total' \in Nat
    BY <2>3, TimingAssumption DEF SignalTypeOK
  <2> QED
    BY <2>1, <2>2, <2>4, <1>1, <1>3 DEF SignalTypeOK
<1>6. CASE YellowTick(elapsed)
  BY <1>1, <1>3, <1>6
  DEF YellowTick, StayInPhase, EnterClearance, SignalTypeOK, Phases, AllReds
<1>7. CASE AllRedTick(elapsed)
  <2>1. CASE StayInPhase(elapsed) /\ UNCHANGED drainVars
    BY <2>1, <1>1 DEF StayInPhase, SignalTypeOK
  <2>2. CASE \E to \in Greens : StartGreen(to) /\ UNCHANGED drainVars
    BY <2>2, StartGreenTypes
  <2>3. CASE /\ StartGreen("CONNECTOR_GREEN")
             /\ drain_pending' = FALSE /\ drain_active' = TRUE
             /\ drain_extending' = FALSE /\ drain_total' = 0
    <3>1. /\ phase' \in Phases /\ mode' \in Modes /\ pending_mode' = "NONE"
          /\ green_elapsed' = 0
          /\ UNCHANGED <<offset_apply_pending, offset_extra_hold>>
      BY <2>3 DEF StartGreen, SignalTypeOK, Phases, Greens, Modes
    <3> QED
      BY <2>3, <3>1, <1>3 DEF SignalTypeOK
  <2> QED
    BY <1>7, <2>1, <2>2, <2>3, Zenon DEF AllRedTick, Greens
<1> QED
  BY <1>2, <1>4, <1>5, <1>6, <1>7

\* A handler leaves the types of the parts it does not touch as they were.
LEMMA TypeFrames ==
  /\ SignalTypeOK /\ UNCHANGED <<modeVars, phaseVars, drainVars, offsetVars>>
       => SignalTypeOK'
  /\ PedTypeOK /\ UNCHANGED pedVars => PedTypeOK'
  /\ SupervisionTypeOK /\ UNCHANGED <<railVars, supervisory, overrideVars>>
       => SupervisionTypeOK'
  /\ InputTypeOK /\ UNCHANGED <<demandVars, linkVars>> => InputTypeOK'
BY DEF SignalTypeOK, PedTypeOK, SupervisionTypeOK, InputTypeOK

\* Entering FAULT_SAFE, with or without an override to end.
LEMMA FaultSafeTypes ==
  ASSUME SupervisionTypeOK, EnterFaultSafe, last_crossing' \in CrossingStates,
         faults' \subseteq {"WATCHDOG_TRIP"}
  PROVE  SupervisionTypeOK'
BY TimingAssumption
DEF EnterFaultSafe, EndOverrideIfAny, EndOverride, SupervisionTypeOK,
    SupervisoryStates

LEMMA SensingTypes ==
  ASSUME TypeOK,
         \/ VehicleSensing
         \/ \E side \in PedButtons : LatchPedestrianRequest(side)
  PROVE  TypeOK'
<1>1. CASE VehicleSensing
  <2>1. InputTypeOK'
    BY <1>1, InputAssumption
    DEF VehicleSensing, SetArterialVehicleDemand, SetConnectorVehicleDemand,
        SetQueueWarning, TypeOK, InputTypeOK
  <2> QED
    BY <1>1, <2>1, TypeFrames
    DEF VehicleSensing, SetArterialVehicleDemand, SetConnectorVehicleDemand,
        SetQueueWarning, TypeOK
<1>2. ASSUME NEW side \in PedButtons, LatchPedestrianRequest(side)
      PROVE  TypeOK'
  <2>1. PedTypeOK'
    BY <1>2, InputAssumption DEF LatchPedestrianRequest, Recall, TypeOK, PedTypeOK
  <2> QED
    BY <1>2, <2>1, TypeFrames DEF LatchPedestrianRequest, TypeOK
<1> QED
  BY <1>1, <1>2

LEMMA HeldInFaultSafeTypes ==
  ASSUME TypeOK, HeldInFaultSafe
  PROVE  TypeOK'
<1>1. SupervisionTypeOK'
  BY FaultSafeTypes DEF HeldInFaultSafe, TypeOK, SupervisionTypeOK
<1> QED
  BY <1>1, TypeFrames DEF HeldInFaultSafe, TypeOK

LEMMA SupervisingTypes ==
  ASSUME TypeOK, Supervising
  PROVE  TypeOK'
<1> USE DEF TypeOK
<1>1. CASE HeldInFaultSafe
  BY <1>1, HeldInFaultSafeTypes
<1>2. CASE ReportWatchdogTrip
  <2>1. SupervisionTypeOK'
    BY <1>2, FaultSafeTypes, InputAssumption
    DEF ReportWatchdogTrip, SupervisionTypeOK
  <2> QED
    BY <1>2, <2>1, TypeFrames DEF ReportWatchdogTrip
<1>3. CASE OnRequestFaultClear
  <2>1. SupervisionTypeOK'
    BY <1>3 DEF OnRequestFaultClear, RecoveredSupervision, SupervisionTypeOK,
                SupervisoryStates
  <2> QED
    BY <1>3, <2>1, TypeFrames DEF OnRequestFaultClear
<1>4. ASSUME NEW offset \in OffsetRequests, OnSetTimingProfile(offset),
             ~HeldInFaultSafe
      PROVE  TypeOK'
  <2>1. SignalTypeOK'
    BY <1>4, InputAssumption DEF OnSetTimingProfile, SignalTypeOK
  <2> QED
    BY <1>4, <2>1, TypeFrames DEF OnSetTimingProfile
<1>5. ASSUME NEW m \in Modes, PendMode(m),
             UNCHANGED <<mode, phaseVars, demandVars, pedVars, drainVars,
                         railVars, supervisory, overrideVars, linkVars,
                         offsetVars>>
      PROVE  TypeOK'
  <2>1. SignalTypeOK'
    BY <1>5 DEF PendMode, SignalTypeOK
  <2> QED
    BY <1>5, <2>1, TypeFrames
<1>6. ASSUME NEW target \in OverrideTargets, NEW duration \in OverrideDurations,
             OnRequestOverride(target, duration), ~HeldInFaultSafe
      PROVE  TypeOK'
  <2>1. SupervisionTypeOK'
    <3>1. /\ override_substate' \in {"PENDING_CLEARANCE", "ACTIVE"}
          /\ override_target' \in Movements
          /\ supervisory' = "CENTRAL_OVERRIDE"
          /\ UNCHANGED <<last_crossing, faults>>
      BY <1>6, InputAssumption DEF OnRequestOverride
    <3>2. duration > 0 /\ duration <= OVERRIDE_CAP
          /\ override_duration' = duration /\ override_remaining' = duration
      BY <1>6 DEF OnRequestOverride
    <3>3. /\ override_duration' \in 0 .. OVERRIDE_CAP
          /\ override_remaining' \in 0 .. OVERRIDE_CAP
      BY <3>2, InputAssumption, TimingAssumption
    <3> QED
      BY <3>1, <3>3 DEF SupervisionTypeOK, SupervisoryStates
  <2> QED
    BY <1>6, <2>1, TypeFrames DEF OnRequestOverride
<1>7. ASSUME NEW extend \in RenewDurations, OnRenewOverride(extend),
             ~HeldInFaultSafe
      PROVE  TypeOK'
  <2>1. SupervisionTypeOK'
    <3>1. /\ extend <= OVERRIDE_CAP
          /\ override_duration' = IF extend = 0 THEN override_duration ELSE extend
          /\ override_remaining' = override_duration'
      BY <1>7 DEF OnRenewOverride
    <3>2. override_duration' \in 0 .. OVERRIDE_CAP
      BY <3>1, InputAssumption, TimingAssumption DEF SupervisionTypeOK
    <3>3. UNCHANGED <<last_crossing, faults, supervisory, override_substate,
                      override_target>>
      BY <1>7 DEF OnRenewOverride
    <3> QED
      BY <3>1, <3>2, <3>3 DEF SupervisionTypeOK
  <2> QED
    BY <1>7, <2>1, TypeFrames DEF OnRenewOverride
<1>8. CASE OnCancelOverride /\ ~HeldInFaultSafe
  <2>1. SupervisionTypeOK'
    <3>1. /\ override_substate' = "NONE" /\ override_remaining' = 0
          /\ supervisory' \in {supervisory, "NORMAL_OPERATION"}
          /\ UNCHANGED <<last_crossing, faults, override_target,
                         override_duration>>
      BY <1>8 DEF OnCancelOverride, EndOverride
    <3> QED
      BY <3>1, TimingAssumption DEF SupervisionTypeOK, SupervisoryStates
  <2> QED
    BY <1>8, <2>1, TypeFrames DEF OnCancelOverride
<1>9. ASSUME NEW state \in CrossingReports, OnCrossingStatus(state)
      PROVE  TypeOK'
  <2>1. SupervisionTypeOK'
    BY <1>9, InputAssumption, TimingAssumption
    DEF OnCrossingStatus, EnterFaultSafe, EndOverrideIfAny, EndOverride,
        SupervisionTypeOK, SupervisoryStates
  <2>2. drain_pending' \in BOOLEAN
    BY <1>9, Zenon DEF OnCrossingStatus, SignalTypeOK, InputTypeOK
  <2>3. SignalTypeOK'
    BY <1>9, <2>2 DEF OnCrossingStatus, SignalTypeOK
  <2> QED
    BY <1>9, <2>1, <2>3, TypeFrames DEF OnCrossingStatus
<1>10. ASSUME NEW acked \in HeartbeatResults, OnHeartbeatResult(acked)
       PROVE  TypeOK'
  <2>1. missed_acks' \in 0 .. MISSED_MAX
    BY <1>10, TimingAssumption DEF OnHeartbeatResult, OneMoreMiss, InputTypeOK
  <2>2. InputTypeOK'
    BY <1>10, <2>1 DEF OnHeartbeatResult, InputTypeOK
  <2> QED
    BY <1>10, <2>2, TypeFrames DEF OnHeartbeatResult
<1>11. ASSUME NEW m \in ModeRequests, OnSetMode(m), ~HeldInFaultSafe
       PROVE  TypeOK'
  BY <1>5, <1>11, InputAssumption DEF OnSetMode
<1>12. ASSUME NEW m \in ScheduleModes, LocalClockModeCheck(m)
       PROVE  TypeOK'
  BY <1>5, <1>12, InputAssumption DEF LocalClockModeCheck
<1> QED
  BY <1>1, <1>2, <1>3, <1>4, <1>6, <1>7, <1>8, <1>9, <1>10, <1>11, <1>12
  DEF Supervising

LEMMA PhaseTimerTypes ==
  ASSUME TypeOK, OnPhaseTimer
  PROVE  TypeOK'
<1>1. CASE HeldInFaultSafe
  BY <1>1, HeldInFaultSafeTypes
<1>2. CASE ~HeldInFaultSafe
  <2>1. /\ PedServiceTick /\ OverrideTick /\ PhaseStep
        /\ UNCHANGED <<demandVars, railVars, linkVars, assigned_offset>>
    BY <1>2 DEF OnPhaseTimer
  <2> QED
    BY <2>1, PedServiceTypes, OverrideTypes, PhaseStepTypes, TypeFrames DEF TypeOK
<1> QED
  BY <1>1, <1>2

LEMMA InitTypes == Init => TypeOK
<1> SUFFICES ASSUME Init
             PROVE  TypeOK
  OBVIOUS
<1>1. SignalTypeOK
  <2>1. /\ 0 \in 0 .. ELAPSED_MODULUS - 1 /\ 0 \in 0 .. CYCLE /\ 0 \in Nat
    BY ModulusLarge, TimingAssumption, CyclePositive
  <2>2. /\ drain_pending \in BOOLEAN /\ drain_active \in BOOLEAN
        /\ drain_extending \in BOOLEAN /\ offset_apply_pending \in BOOLEAN
    BY Zenon DEF Init
  <2> QED
    BY <2>1, <2>2 DEF Init, SignalTypeOK, Modes, Phases, Greens
<1>2. PedTypeOK
  BY Zenon DEF Init, PedTypeOK
<1>3. SupervisionTypeOK
  <2>1. 0 \in 0 .. OVERRIDE_CAP
    BY TimingAssumption
  <2> QED
    BY <2>1 DEF Init, SupervisionTypeOK, CrossingStates, SupervisoryStates
<1>4. InputTypeOK
  <2>1. 0 \in 0 .. MISSED_MAX
    BY TimingAssumption
  <2> QED
    BY <2>1, Zenon DEF Init, InputTypeOK
<1> QED
  BY <1>1, <1>2, <1>3, <1>4 DEF TypeOK

\* Every field of the controller keeps its type, and every counter its range.
THEOREM TypeCorrect == Spec => []TypeOK
<1>1. Init => TypeOK
  BY InitTypes
<1>2. TypeOK /\ [Next]_vars => TypeOK'
  <2> SUFFICES ASSUME TypeOK, [Next]_vars
               PROVE  TypeOK'
    OBVIOUS
  <2>1. CASE Next
    BY <2>1, PhaseTimerTypes, SensingTypes, SupervisingTypes DEF Next
  <2>2. CASE UNCHANGED vars
    BY <2>2, TypeFrames DEF vars, TypeOK
  <2> QED
    BY <2>1, <2>2
<1> QED
  BY <1>1, <1>2, PTL DEF Spec

-----------------------------------------------------------------------------
(* Pedestrian service.  Only a press and a phase pulse touch its state.     *)

\* Every other handler leaves the pedestrian service and the signal alone.
LEMMA SupervisingFrame ==
  ASSUME Supervising
  PROVE  UNCHANGED <<mode, phaseVars, pedVars, demandVars, drain_active,
                     drain_extending, drain_total, offset_extra_hold>>
BY DEF Supervising, ReportWatchdogTrip, OnRequestFaultClear, HeldInFaultSafe,
       OnSetTimingProfile, OnSetMode, OnRequestOverride, OnRenewOverride,
       OnCancelOverride, OnCrossingStatus, OnHeartbeatResult,
       LocalClockModeCheck

LEMMA VehicleSensingFrame ==
  ASSUME VehicleSensing
  PROVE  UNCHANGED <<modeVars, phaseVars, pedVars, drainVars, railVars,
                     supervisory, overrideVars, linkVars, offsetVars>>
BY DEF VehicleSensing, SetArterialVehicleDemand, SetConnectorVehicleDemand,
       SetQueueWarning

\* Service begins on compatible sides that are latched, and ends by unlatching
\* the served sides that were not recalled.
LEMMA PedServiceStep ==
  ASSUME PedServiceConsistent, PedServiceTick
  PROVE  PedServiceConsistent'
BY DEF PedServiceConsistent, PedServiceTick, LatchedAfterService,
       CompatibleSides

LEMMA LatchStep ==
  ASSUME PedServiceConsistent, NEW side \in PedButtons,
         LatchPedestrianRequest(side)
  PROVE  PedServiceConsistent'
BY DEF PedServiceConsistent, LatchPedestrianRequest, Recall

\* The encodings of the pedestrian service agree in every reachable state.
THEOREM PedServiceAlwaysConsistent == Spec => []PedServiceConsistent
<1>1. Init => PedServiceConsistent
  BY DEF Init, PedServiceConsistent
<1>2. PedServiceConsistent /\ [Next]_vars => PedServiceConsistent'
  <2> SUFFICES ASSUME PedServiceConsistent, [Next]_vars
               PROVE  PedServiceConsistent'
    OBVIOUS
  <2>1. CASE OnPhaseTimer
    BY <2>1, PedServiceStep DEF OnPhaseTimer, HeldInFaultSafe,
                                PedServiceConsistent
  <2>2. ASSUME NEW side \in PedButtons, LatchPedestrianRequest(side)
        PROVE  PedServiceConsistent'
    BY <2>2, LatchStep
  <2>3. CASE VehicleSensing \/ Supervising
    BY <2>3, VehicleSensingFrame, SupervisingFrame DEF PedServiceConsistent
  <2>4. CASE UNCHANGED vars
    BY <2>4 DEF vars, PedServiceConsistent
  <2> QED
    BY <2>1, <2>2, <2>3, <2>4 DEF Next
<1> QED
  BY <1>1, <1>2, PTL DEF Spec

-----------------------------------------------------------------------------
(* Supervision.  The two invariants are inductive together, on top of the   *)
(* types: a train, a fault and an expiry each end the override and move the *)
(* supervisor in one step.                                                  *)

SupervisionInv == SupervisionFollowsCrossing /\ OverrideConsistent

LEMMA SupervisionFrame ==
  ASSUME SupervisionInv, UNCHANGED <<railVars, supervisory, overrideVars,
                                     ped_clearance_active>>
  PROVE  SupervisionInv'
BY DEF SupervisionInv, SupervisionFollowsCrossing, OverrideConsistent

\* Under the invariant the fault check never has anything left to do.
LEMMA HeldKeepsSupervision ==
  ASSUME SupervisionInv, HeldInFaultSafe
  PROVE  UNCHANGED <<railVars, supervisory, overrideVars, ped_clearance_active>>
BY DEF SupervisionInv, SupervisionFollowsCrossing, HeldInFaultSafe, FaultHeld,
       EnterFaultSafe, EndOverrideIfAny

\* A train or a fault leaves no override behind.
LEMMA OverrideEnded ==
  ASSUME OverrideConsistent, EndOverrideIfAny,
         supervisory' \in {"FAULT_SAFE", "RAILWAY_PREEMPTION"}
  PROVE  OverrideConsistent'
BY DEF OverrideConsistent, EndOverrideIfAny, EndOverride

LEMMA OverrideTickStep ==
  ASSUME TypeOK, SupervisionInv, OverrideTick, UNCHANGED railVars,
         supervisory # "FAULT_SAFE", PedServiceTick
  PROVE  SupervisionInv'
<1>1. CASE supervisory = "CENTRAL_OVERRIDE" /\ override_remaining <= TICK
  <2>1. override_remaining \in Nat
    BY TimingAssumption DEF TypeOK, SupervisionTypeOK
  <2>2. /\ override_substate' = "NONE" /\ override_remaining' = 0
        /\ supervisory' = "NORMAL_OPERATION"
    BY <1>1, <2>1, TimingAssumption
    DEF OverrideTick, EndOverride, SupervisionInv, OverrideConsistent
  <2> QED
    BY <1>1, <2>2 DEF SupervisionInv, OverrideConsistent,
                      SupervisionFollowsCrossing
<1>2. CASE supervisory = "CENTRAL_OVERRIDE" /\ ~(override_remaining <= TICK)
  <2>1. /\ override_remaining \in Nat /\ override_duration \in Nat
        /\ ped_clearance_active' \in BOOLEAN
    BY TimingAssumption, PedServiceTypes
    DEF TypeOK, SupervisionTypeOK, PedTypeOK
  <2>2. /\ override_remaining' = override_remaining - TICK
        /\ override_substate' = IF ped_clearance_active'
                                  THEN override_substate ELSE "ACTIVE"
        /\ UNCHANGED <<supervisory, override_target, override_duration>>
    BY <1>2, <2>1, TimingAssumption
    DEF OverrideTick, TimeLeft, Activated, SupervisionInv, OverrideConsistent
  <2>3. override_remaining' > 0 /\ override_remaining' <= override_duration'
    BY <1>2, <2>1, <2>2, TimingAssumption DEF SupervisionInv, OverrideConsistent
  <2> QED
    <3>1. SupervisionFollowsCrossing'
      BY <2>2 DEF SupervisionInv, SupervisionFollowsCrossing
    <3>2. override_substate' = "PENDING_CLEARANCE" => ped_clearance_active'
      BY <2>2, Zenon
    <3>3. /\ supervisory' = "CENTRAL_OVERRIDE" /\ override_substate' # "NONE"
          /\ override_target' \in Movements
      BY <1>2, <2>2 DEF SupervisionInv, OverrideConsistent
    <3> QED
      BY <2>3, <3>1, <3>2, <3>3 DEF SupervisionInv, OverrideConsistent
<1>3. CASE supervisory # "CENTRAL_OVERRIDE"
  BY <1>3 DEF OverrideTick, SupervisionInv, OverrideConsistent,
              SupervisionFollowsCrossing
<1> QED
  BY <1>1, <1>2, <1>3

LEMMA SupervisingStep ==
  ASSUME TypeOK, SupervisionInv, Supervising
  PROVE  SupervisionInv'
<1> USE DEF SupervisionInv
<1>1. CASE HeldInFaultSafe
  BY <1>1, HeldKeepsSupervision, SupervisionFrame
<1>2. CASE WatchdogTrips # {} /\ ReportWatchdogTrip
  BY <1>2, OverrideEnded, InputAssumption
  DEF ReportWatchdogTrip, EnterFaultSafe, SupervisionFollowsCrossing
<1>3. CASE OnRequestFaultClear
  BY <1>3 DEF OnRequestFaultClear, RecoveredSupervision,
              SupervisionFollowsCrossing, OverrideConsistent
<1>4. ASSUME NEW offset \in OffsetRequests, OnSetTimingProfile(offset),
             ~HeldInFaultSafe
      PROVE  SupervisionInv'
  BY <1>4, SupervisionFrame DEF OnSetTimingProfile
<1>5. ASSUME NEW m \in ModeRequests, OnSetMode(m), ~HeldInFaultSafe
      PROVE  SupervisionInv'
  BY <1>5, SupervisionFrame DEF OnSetMode
<1>6. ASSUME NEW target \in OverrideTargets, NEW duration \in OverrideDurations,
             OnRequestOverride(target, duration), ~HeldInFaultSafe
      PROVE  SupervisionInv'
  <2>1. /\ supervisory = "NORMAL_OPERATION"
        /\ supervisory' = "CENTRAL_OVERRIDE"
        /\ UNCHANGED <<faults, last_crossing>>
    BY <1>6 DEF OnRequestOverride, FaultHeld, TypeOK, SupervisionTypeOK,
                SupervisoryStates
  <2>2. SupervisionFollowsCrossing'
    BY <2>1 DEF SupervisionFollowsCrossing
  <2>3. /\ override_remaining' > 0 /\ override_remaining' <= override_duration'
        /\ override_target' \in Movements
    BY <1>6, InputAssumption DEF OnRequestOverride
  <2>4. /\ override_substate' # "NONE"
        /\ override_substate' = "PENDING_CLEARANCE" => ped_clearance_active'
    <3>1. override_substate' = IF ped_clearance_active THEN "PENDING_CLEARANCE"
                                                       ELSE "ACTIVE"
      BY <1>6 DEF OnRequestOverride
    <3>2. ped_clearance_active' = ped_clearance_active
      BY <1>6 DEF OnRequestOverride
    <3> QED
      BY <3>1, <3>2, Zenon
  <2> QED
    BY <2>1, <2>2, <2>3, <2>4 DEF OverrideConsistent
<1>7. ASSUME NEW extend \in RenewDurations, OnRenewOverride(extend),
             ~HeldInFaultSafe
      PROVE  SupervisionInv'
  <2>1. /\ supervisory = "CENTRAL_OVERRIDE" /\ override_substate = "ACTIVE"
        /\ override_duration' = IF extend = 0 THEN override_duration ELSE extend
        /\ override_remaining' = override_duration'
        /\ UNCHANGED <<last_crossing, faults, supervisory, override_substate,
                       override_target>>
    BY <1>7 DEF OnRenewOverride
  <2>2. override_remaining' > 0 /\ override_remaining' <= override_duration'
    BY <2>1, InputAssumption, TimingAssumption
    DEF OverrideConsistent, TypeOK, SupervisionTypeOK
  <2> QED
    BY <2>1, <2>2 DEF OverrideConsistent, SupervisionFollowsCrossing
<1>8. CASE OnCancelOverride /\ ~HeldInFaultSafe
  BY <1>8 DEF OnCancelOverride, EndOverride, SupervisionFollowsCrossing,
              OverrideConsistent
<1>9. ASSUME NEW state \in CrossingReports, OnCrossingStatus(state)
      PROVE  SupervisionInv'
  <2>1. CASE FaultHeld
    BY <1>9, <2>1, OverrideEnded
    DEF OnCrossingStatus, EnterFaultSafe, FaultHeld, SupervisionFollowsCrossing
  <2>2. CASE ~FaultHeld /\ state # "OPEN"
    BY <1>9, <2>2, OverrideEnded
    DEF OnCrossingStatus, FaultHeld, SupervisionFollowsCrossing
  <2>3. CASE ~FaultHeld /\ state = "OPEN"
    BY <1>9, <2>3
    DEF OnCrossingStatus, FaultHeld, SupervisionFollowsCrossing,
        OverrideConsistent
  <2> QED
    BY <2>1, <2>2, <2>3
<1>10. ASSUME NEW acked \in HeartbeatResults, OnHeartbeatResult(acked)
       PROVE  SupervisionInv'
  BY <1>10, SupervisionFrame DEF OnHeartbeatResult
<1>11. ASSUME NEW m \in ScheduleModes, LocalClockModeCheck(m)
       PROVE  SupervisionInv'
  BY <1>11, SupervisionFrame DEF LocalClockModeCheck
<1> QED
  BY <1>1, <1>2, <1>3, <1>4, <1>5, <1>6, <1>7, <1>8, <1>9, <1>10, <1>11
  DEF Supervising

LEMMA SupervisionStep ==
  ASSUME TypeOK, SupervisionInv, [Next]_vars
  PROVE  SupervisionInv'
<1>1. CASE OnPhaseTimer
  <2>1. CASE HeldInFaultSafe
    BY <2>1, HeldKeepsSupervision, SupervisionFrame
  <2>2. CASE ~HeldInFaultSafe
    BY <1>1, <2>2, OverrideTickStep DEF OnPhaseTimer, FaultHeld
  <2> QED
    BY <2>1, <2>2
<1>2. ASSUME NEW side \in PedButtons, LatchPedestrianRequest(side)
      PROVE  SupervisionInv'
  BY <1>2, SupervisionFrame DEF LatchPedestrianRequest
<1>3. CASE VehicleSensing
  BY <1>3, VehicleSensingFrame, SupervisionFrame
<1>4. CASE Supervising
  BY <1>4, SupervisingStep
<1>5. CASE UNCHANGED vars
  BY <1>5, SupervisionFrame DEF vars
<1> QED
  BY <1>1, <1>2, <1>3, <1>4, <1>5 DEF Next

LEMMA InitSupervision == Init => SupervisionInv
BY DEF Init, SupervisionInv, SupervisionFollowsCrossing, OverrideConsistent

\* In every reachable state the supervisor agrees with the last crossing report
\* and with the latched faults, and the override with the supervisor.
THEOREM SupervisionCorrect ==
  Spec => [](SupervisionFollowsCrossing /\ OverrideConsistent)
<1>1. Spec => []TypeOK
  BY TypeCorrect
<1>2. Init => SupervisionInv
  BY InitSupervision
<1>3. TypeOK /\ SupervisionInv /\ [Next]_vars => SupervisionInv'
  BY SupervisionStep
<1>4. SupervisionInv => SupervisionFollowsCrossing /\ OverrideConsistent
  BY DEF SupervisionInv
<1> QED
  BY <1>1, <1>2, <1>3, <1>4, PTL DEF Spec

\* No override outlives a train, a fault, its cancellation or its time, and none
\* is held back but for pedestrians who are crossing.
THEOREM OverrideAlwaysConsistent == Spec => []OverrideConsistent
BY SupervisionCorrect, PTL

\* No step gives the connector a green while the crossing was last reported not
\* open: neither its turn, nor an override, nor recovery from a fault.
THEOREM NeverGreenTowardsTrain == Spec => NoGreenTowardsTrain
<1>1. TypeOK /\ SupervisionInv /\ TypeOK' /\ SupervisionInv' /\ [Next]_vars
        => [ConnectorGreenStarts => last_crossing' = "OPEN"]_vars
  <2> SUFFICES ASSUME TypeOK, SupervisionInv, SupervisionInv', TypeOK', Next,
                      ConnectorGreenStarts
               PROVE  last_crossing' = "OPEN"
    OBVIOUS
  <2> USE DEF ConnectorGreenStarts
  <2>1. OnPhaseTimer
    BY SupervisingFrame, VehicleSensingFrame DEF Next, LatchPedestrianRequest
  <2>2. PhaseStep /\ ~FaultHeld /\ UNCHANGED railVars
    BY <2>1 DEF OnPhaseTimer, HeldInFaultSafe
  <2>3. AllRedTick((green_elapsed + TICK) % ELAPSED_MODULUS)
    BY <2>2 DEF PhaseStep, ArterialGreenTick, ConnectorGreenTick, YellowTick,
                StayInPhase, EnterClearance, EndConnectorGreen
  <2>4. OverrideFor("CONNECTOR") \/ ConnectorTurn
    BY <2>3 DEF AllRedTick, StayInPhase, StartGreen
  <2>5. supervisory' # "RAILWAY_PREEMPTION"
    BY <2>4 DEF OverrideFor, ConnectorTurn
  <2>6. supervisory' # "FAULT_SAFE"
    BY <2>2 DEF FaultHeld, SupervisionInv, SupervisionFollowsCrossing
  <2> QED
    BY <2>5, <2>6 DEF SupervisionInv, SupervisionFollowsCrossing, TypeOK,
                      SupervisionTypeOK, SupervisoryStates
<1>2. Spec => []TypeOK /\ []SupervisionInv
  BY TypeCorrect, SupervisionCorrect, PTL DEF SupervisionInv
<1> QED
  BY <1>1, <1>2, PTL DEF Spec, NoGreenTowardsTrain

-----------------------------------------------------------------------------
(* The drain phase.  Its total starts at zero, grows by TICK and is compared *)
(* with the cap only on the extension grid; it meets the cap exactly because *)
(* the cap is on that grid and the grid is on the tick.                      *)

LEMMA QuotientRemainder ==
  ASSUME NEW a \in Nat, NEW b \in Nat, b > 0
  PROVE  a = (b * (a \div b)) + (a % b) /\ a \div b \in Nat
OBVIOUS

LEMMA MultipleRemainder ==
  ASSUME NEW b \in Nat, NEW k \in Nat, b > 0
  PROVE  (b * k) % b = 0
OBVIOUS

LEMMA MultiplesApart ==
  ASSUME NEW b \in Nat, NEW i \in Nat, NEW j \in Nat, b > 0, b * i < b * j
  PROVE  (b * i) + b <= b * j
OBVIOUS

\* A multiple of TICK below the cap is at least one TICK below it.
LEMMA DrainGrid ==
  ASSUME NEW t \in Nat, t % TICK = 0
  PROVE  /\ (t + TICK) % TICK = 0
         /\ t < DRAIN_MAX => t + TICK <= DRAIN_MAX
<1> DEFINE i == t \div TICK
           e == EXTENSION \div TICK
           d == DRAIN_MAX \div EXTENSION
<1>1. TICK \in Nat /\ TICK > 0 /\ EXTENSION \in Nat /\ EXTENSION > 0
      /\ DRAIN_MAX \in Nat
  BY TimingAssumption
<1>2. t = TICK * i /\ i \in Nat
  BY <1>1, QuotientRemainder
<1>3. EXTENSION = TICK * e /\ e \in Nat
  BY <1>1, QuotientRemainder, DrainAssumption
<1>4. DRAIN_MAX = EXTENSION * d /\ d \in Nat
  BY <1>1, QuotientRemainder, DrainAssumption
<1> HIDE DEF i, e, d
<1>5. DRAIN_MAX = TICK * (e * d) /\ e * d \in Nat
  BY <1>1, <1>3, <1>4
<1>6. t + TICK = TICK * (i + 1)
  BY <1>1, <1>2
<1>7. (t + TICK) % TICK = 0
  BY <1>1, <1>2, <1>6, MultipleRemainder
<1>8. t < DRAIN_MAX => t + TICK <= DRAIN_MAX
  BY <1>1, <1>2, <1>5, MultiplesApart
<1> QED
  BY <1>7, <1>8

DrainInv == DrainConfined /\ drain_total % TICK = 0

LEMMA DrainFrame ==
  ASSUME DrainInv, UNCHANGED <<phase, drain_active, drain_extending, drain_total>>
  PROVE  DrainInv'
BY DEF DrainInv, DrainConfined

\* A drain that is not running has total zero, which satisfies everything.
LEMMA DrainReset ==
  ASSUME drain_extending' = FALSE, drain_total' = 0,
         drain_active' => phase' = "CONNECTOR_GREEN"
  PROVE  DrainInv'
<1>1. 0 <= DRAIN_MAX /\ 0 % TICK = 0
  BY TimingAssumption
<1> QED
  BY <1>1 DEF DrainInv, DrainConfined

LEMMA DrainStep ==
  ASSUME TypeOK, DrainInv, PhaseStep
  PROVE  DrainInv'
<1> DEFINE elapsed == (green_elapsed + TICK) % ELAPSED_MODULUS
<1>1. \/ ArterialGreenTick(elapsed) \/ ConnectorGreenTick(elapsed)
      \/ YellowTick(elapsed) \/ AllRedTick(elapsed)
  BY DEF PhaseStep
<1> HIDE DEF elapsed
<1> USE DEF DrainInv, DrainConfined
<1>2. ASSUME ~drain_active, UNCHANGED drainVars
      PROVE  DrainInv'
  <2>1. ~drain_extending /\ drain_total = 0
    BY <1>2
  <2> QED
    BY <1>2, <2>1, TimingAssumption
<1>3. CASE ArterialGreenTick(elapsed) \/ YellowTick(elapsed)
  BY <1>2, <1>3 DEF ArterialGreenTick, YellowTick, Yellows
<1>4. CASE AllRedTick(elapsed)
  <2>1. ~drain_active
    BY <1>4 DEF AllRedTick, AllReds
  <2>2. CASE UNCHANGED drainVars
    BY <1>2, <2>1, <2>2
  <2>3. CASE ~UNCHANGED drainVars
    BY <1>4, <2>3, DrainReset DEF AllRedTick, StartGreen
  <2> QED
    BY <2>2, <2>3
<1>5. CASE ConnectorGreenTick(elapsed)
  <2>1. CASE EndDrain
    BY <2>1, DrainReset DEF EndDrain
  <2>2. CASE StayInPhase(elapsed) /\ UNCHANGED drainVars
    BY <2>2, DrainFrame DEF StayInPhase
  <2>3. CASE /\ drain_active /\ drain_extending /\ ~DrainOver
             /\ drain_total' = drain_total + TICK
             /\ StayInPhase(elapsed)
             /\ UNCHANGED <<drain_pending, drain_active, drain_extending>>
    <3>1. drain_total \in Nat
      BY DEF TypeOK, SignalTypeOK
    <3>2. drain_total < DRAIN_MAX
      <4>1. CASE drain_total = DRAIN_MAX
        BY <2>3, <4>1, DrainAssumption, TimingAssumption DEF DrainOver
      <4> QED
        BY <3>1, <4>1, TimingAssumption
    <3>3. drain_total' <= DRAIN_MAX /\ drain_total' % TICK = 0
      BY <2>3, <3>1, <3>2, DrainGrid
    <3> QED
      BY <2>3, <3>3 DEF StayInPhase
  <2>4. CASE /\ drain_active /\ drain_extending' = TRUE /\ drain_total' = 0
             /\ StayInPhase(elapsed) /\ UNCHANGED <<drain_pending, drain_active>>
    <3>1. 0 <= DRAIN_MAX /\ 0 % TICK = 0
      BY TimingAssumption
    <3> QED
      BY <2>4, <3>1 DEF StayInPhase
  <2>5. CASE ~drain_active /\ UNCHANGED drainVars
    BY <1>2, <2>5
  <2> QED
    BY <1>5, <2>1, <2>2, <2>3, <2>4, <2>5 DEF ConnectorGreenTick
<1> QED
  BY <1>1, <1>3, <1>4, <1>5

\* The drain total stays on the tick grid inside its connector green.
THEOREM DrainInvariant == Spec => []DrainInv
<1>1. Init => DrainInv
  BY TimingAssumption DEF Init, DrainInv, DrainConfined
<1>2. TypeOK /\ DrainInv /\ [Next]_vars => DrainInv'
  <2> SUFFICES ASSUME TypeOK, DrainInv, [Next]_vars
               PROVE  DrainInv'
    OBVIOUS
  <2>1. CASE OnPhaseTimer
    BY <2>1, DrainStep, DrainFrame DEF OnPhaseTimer, HeldInFaultSafe
  <2>2. CASE \E side \in PedButtons : LatchPedestrianRequest(side)
    BY <2>2, DrainFrame DEF LatchPedestrianRequest
  <2>3. CASE VehicleSensing \/ Supervising
    BY <2>3, VehicleSensingFrame, SupervisingFrame, DrainFrame
  <2>4. CASE UNCHANGED vars
    BY <2>4, DrainFrame DEF vars
  <2> QED
    BY <2>1, <2>2, <2>3, <2>4 DEF Next
<1> QED
  BY <1>1, <1>2, TypeCorrect, PTL DEF Spec

\* A drain phase is confined to one connector green and to its cap.
THEOREM DrainAlwaysConfined == Spec => []DrainConfined
<1>1. DrainInv => DrainConfined
  BY DEF DrainInv
<1> QED
  BY <1>1, DrainInvariant, PTL

-----------------------------------------------------------------------------
(* A WALK that begins in the last tick of a green ages with the clearance    *)
(* behind it: in the yellow it is as old as the yellow, in the all-red as    *)
(* old as both.  When the all-red is over it would be as old as WALK.        *)

ClearanceRunning ==
  /\ phase \in Yellows => green_elapsed < YELLOW
  /\ phase \in AllReds => green_elapsed < ALL_RED

\* The WALK began in the green and has lasted at least since that green ended.
BegunIn(green, yellow, all_red) ==
  \/ phase = green
  \/ phase = yellow /\ ped_elapsed >= green_elapsed
  \/ phase = all_red /\ ped_elapsed >= YELLOW + green_elapsed

WalkAge ==
  ped_phase = "WALK" =>
    /\ ped_elapsed < WALK
    /\ ped_serving \subseteq {0, 1}
         => BegunIn("ARTERIAL_GREEN", "ARTERIAL_YELLOW", "ALL_RED_A_TO_B")
    /\ ~(ped_serving \subseteq {0, 1})
         => BegunIn("CONNECTOR_GREEN", "CONNECTOR_YELLOW", "ALL_RED_B_TO_A")

WalkInv == ClearanceRunning /\ WalkAge

\* What one pulse does to the phase and, in a clearance, to its elapsed time.
LEMMA PhaseAdvance ==
  ASSUME TypeOK, ClearanceRunning, PhaseStep
  PROVE  /\ phase = "ARTERIAL_GREEN" =>
              \/ phase' = phase
              \/ phase' = "ARTERIAL_YELLOW" /\ green_elapsed' = 0
         /\ phase = "CONNECTOR_GREEN" =>
              \/ phase' = phase
              \/ phase' = "CONNECTOR_YELLOW" /\ green_elapsed' = 0
         /\ phase \in Yellows =>
              \/ /\ phase' = phase /\ green_elapsed' = green_elapsed + TICK
                 /\ green_elapsed' < YELLOW
              \/ /\ phase' = IF phase = "ARTERIAL_YELLOW" THEN "ALL_RED_A_TO_B"
                                                          ELSE "ALL_RED_B_TO_A"
                 /\ green_elapsed' = 0 /\ green_elapsed + TICK >= YELLOW
         /\ phase \in AllReds =>
              \/ /\ phase' = phase /\ green_elapsed' = green_elapsed + TICK
                 /\ green_elapsed' < ALL_RED
              \/ phase' \in Greens /\ green_elapsed + TICK >= ALL_RED
<1> DEFINE elapsed == (green_elapsed + TICK) % ELAPSED_MODULUS
<1>1. \/ ArterialGreenTick(elapsed) \/ ConnectorGreenTick(elapsed)
      \/ YellowTick(elapsed) \/ AllRedTick(elapsed)
  BY DEF PhaseStep
<1>2. elapsed \in Nat
  BY ElapsedWraps DEF TypeOK, SignalTypeOK
<1>3. phase \in Yellows \cup AllReds => elapsed = green_elapsed + TICK
  <2>1. green_elapsed \in Nat
    BY TimingAssumption DEF TypeOK, SignalTypeOK
  <2>2. phase \in Yellows \cup AllReds => green_elapsed + TICK < ELAPSED_MODULUS
    BY <2>1, ModulusLarge, TimingAssumption DEF ClearanceRunning
  <2> QED
    BY <2>1, <2>2, ModulusLarge, TimingAssumption
<1> HIDE DEF elapsed
<1> USE DEF StayInPhase, EnterClearance, Yellows, AllReds
<1>4. CASE ArterialGreenTick(elapsed)
  BY <1>4 DEF ArterialGreenTick
<1>5. CASE ConnectorGreenTick(elapsed)
  BY <1>5 DEF ConnectorGreenTick, EndConnectorGreen
<1>6. CASE YellowTick(elapsed)
  BY <1>2, <1>3, <1>6, TimingAssumption DEF YellowTick
<1>7. CASE AllRedTick(elapsed)
  BY <1>2, <1>3, <1>7, TimingAssumption DEF AllRedTick, StartGreen, Greens
<1> QED
  BY <1>1, <1>4, <1>5, <1>6, <1>7

LEMMA WalkFrame ==
  ASSUME WalkInv, UNCHANGED <<phaseVars, ped_serving, ped_phase, ped_elapsed>>
  PROVE  WalkInv'
BY DEF WalkInv, WalkAge, BegunIn, ClearanceRunning

LEMMA WalkStep ==
  ASSUME TypeOK, PedServiceConsistent, WalkInv, PedServiceTick, PhaseStep
  PROVE  WalkInv'
<1> USE DEF WalkInv
<1>1. ClearanceRunning'
  BY PhaseAdvance, TimingAssumption
  DEF ClearanceRunning, Yellows, AllReds, Greens, TypeOK, SignalTypeOK, Phases
<1>2. green_elapsed \in Nat /\ ped_elapsed \in Nat
  BY TimingAssumption DEF TypeOK, SignalTypeOK, PedTypeOK
<1>3. CASE ped_phase' # "WALK"
  BY <1>1, <1>3 DEF WalkAge
<1>4. CASE ped_phase' = "WALK" /\ ped_phase = "NONE"
  <2>1. /\ ped_elapsed' = 0 /\ ped_serving' = ped_latched \cap CompatibleSides(phase)
        /\ ped_serving' # {}
    BY <1>4 DEF PedServiceTick
  <2>2. CASE phase = "ARTERIAL_GREEN"
    BY <1>1, <2>1, <2>2, PhaseAdvance, TimingAssumption
    DEF CompatibleSides, WalkAge, BegunIn
  <2>3. CASE phase = "CONNECTOR_GREEN"
    BY <1>1, <2>1, <2>3, PhaseAdvance, TimingAssumption
    DEF CompatibleSides, WalkAge, BegunIn
  <2> QED
    BY <2>1, <2>2, <2>3 DEF CompatibleSides
<1>5. CASE ped_phase' = "WALK" /\ ped_phase # "NONE"
  <2>1. /\ ped_phase = "WALK" /\ ped_serving' = ped_serving
        /\ ped_elapsed' = ped_elapsed + TICK /\ ped_elapsed + TICK < WALK
    BY <1>2, <1>5, TimingAssumption DEF PedServiceTick, WalkOver
  <2>2. CASE ped_serving \subseteq {0, 1}
    <3>1. BegunIn("ARTERIAL_GREEN", "ARTERIAL_YELLOW", "ALL_RED_A_TO_B")
      BY <2>1, <2>2 DEF WalkAge
    <3>2. BegunIn("ARTERIAL_GREEN", "ARTERIAL_YELLOW", "ALL_RED_A_TO_B")'
      BY <1>2, <2>1, <3>1, PhaseAdvance, TimingAssumption, WalkAssumption
      DEF BegunIn, Yellows, AllReds
    <3> QED
      BY <1>1, <2>1, <2>2, <3>2 DEF WalkAge
  <2>3. CASE ~(ped_serving \subseteq {0, 1})
    <3>1. BegunIn("CONNECTOR_GREEN", "CONNECTOR_YELLOW", "ALL_RED_B_TO_A")
      BY <2>1, <2>3 DEF WalkAge
    <3>2. BegunIn("CONNECTOR_GREEN", "CONNECTOR_YELLOW", "ALL_RED_B_TO_A")'
      BY <1>2, <2>1, <3>1, PhaseAdvance, TimingAssumption, WalkAssumption
      DEF BegunIn, Yellows, AllReds
    <3> QED
      BY <1>1, <2>1, <2>3, <3>2 DEF WalkAge
  <2> QED
    BY <2>2, <2>3
<1> QED
  BY <1>3, <1>4, <1>5

\* Clearance intervals keep their limits and a WALK ages with them.
THEOREM WalkInvariant == Spec => []WalkInv
<1>1. Init => WalkInv
  BY DEF Init, WalkInv, WalkAge, ClearanceRunning, Yellows, AllReds
<1>2. TypeOK /\ PedServiceConsistent /\ WalkInv /\ [Next]_vars => WalkInv'
  <2> SUFFICES ASSUME TypeOK, PedServiceConsistent, WalkInv, [Next]_vars
               PROVE  WalkInv'
    OBVIOUS
  <2>1. CASE OnPhaseTimer
    BY <2>1, WalkStep, WalkFrame DEF OnPhaseTimer, HeldInFaultSafe
  <2>2. CASE \E side \in PedButtons : LatchPedestrianRequest(side)
    BY <2>2, WalkFrame DEF LatchPedestrianRequest
  <2>3. CASE VehicleSensing \/ Supervising
    BY <2>3, VehicleSensingFrame, SupervisingFrame, WalkFrame
  <2>4. CASE UNCHANGED vars
    BY <2>4, WalkFrame DEF vars
  <2> QED
    BY <2>1, <2>2, <2>3, <2>4 DEF Next
<1> QED
  BY <1>1, <1>2, TypeCorrect, PedServiceAlwaysConsistent, PTL DEF Spec

\* No WALK is shown beside a conflicting green or yellow, for every timing in
\* which WALK is no longer than yellow and all-red together.
THEOREM WalkAlwaysClearsFirst == Spec => []WalkClearsFirst
<1>1. WalkInv => WalkClearsFirst
  BY DEF WalkInv, WalkAge, BegunIn, WalkClearsFirst, Conflicting
<1> QED
  BY <1>1, WalkInvariant, PTL
=============================================================================
