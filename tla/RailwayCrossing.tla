---------------------------- MODULE RailwayCrossing ----------------------------
(***************************************************************************)
(* One railway crossing controller RLx: the state machine of               *)
(* app/railway/src/rlx_fsm.c, the simulated gate of rlx_gate.c, the        *)
(* outputs of rlx_signal.c and the pulse handler of rlx_main.c.            *)
(*                                                                         *)
(* Entry points of the state machine hold fsm->lock, so each is one        *)
(* action.  Two things are finer than that.  The pulse handler of the      *)
(* server thread takes and releases the lock several times in one pulse;   *)
(* step says how far it has come, and the sensor, watchdog and client      *)
(* threads run in between.  And the gate has a lock of its own: a repair   *)
(* typed at the keyboard may fall between two polls of one handler, which  *)
(* is the parameter repaired of those handlers.                            *)
(***************************************************************************)
EXTENDS Integers, FiniteSets

CONSTANTS
  TICK,                     \* the period of IPC_PULSE_RAILWAY_WARNING
  WARNING_TO_CLOSING,       \* RLX_WARNING_TO_CLOSING_MS
  CLOSING_DEADLINE,         \* RLX_CLOSING_DEADLINE_MS
  EXPECTED_ARRIVAL,         \* RLX_EXPECTED_ARRIVAL_MS
  OCCUPANCY_WINDOW,         \* RLX_OCCUPANCY_WINDOW_MS
  OPENING_DEADLINE,         \* RLX_OPENING_DEADLINE_MS
  GATE_MOTION,              \* RLX_GATE_MOTION_MS
  MISSED_MAX,               \* 0xFFFFFFFF: missed_heartbeat_acks saturates
  Directions,               \* of approaching trains: the keys '0' and '1'
  DemoKeys,                 \* which of the keys 'x', 'r' and 'f' are in use
  WatchdogTrips,            \* {"WATCHDOG_TRIP"}, or {} for a healthy server loop
  HeartbeatResults          \* subset of BOOLEAN: was a heartbeat acknowledged?

ASSUME TimingAssumption ==
  /\ TICK \in Nat \ {0} /\ WARNING_TO_CLOSING \in Nat /\ CLOSING_DEADLINE \in Nat
  /\ EXPECTED_ARRIVAL \in Nat /\ OCCUPANCY_WINDOW \in Nat \ {0}
  /\ OPENING_DEADLINE \in Nat /\ GATE_MOTION \in Nat
  /\ MISSED_MAX \in Nat /\ MISSED_MAX >= 3

\* The flashing-only interval spans at least two pulses, the first of which
\* tells the neighbours.
ASSUME WarningAssumption == TICK < WARNING_TO_CLOSING

ASSUME InputAssumption ==
  /\ Directions \subseteq Nat /\ DemoKeys \subseteq {"x", "r", "f"}
  /\ WatchdogTrips \subseteq {"WATCHDOG_TRIP"} /\ HeartbeatResults \subseteq BOOLEAN

States == {"OPEN", "WARNING", "CLOSING", "CLOSED", "TRAIN_PRESENT", "OPENING",
           "RECLOSING", "FAULT"}
Closing == {"CLOSING", "RECLOSING"}
Shut == {"CLOSED", "TRAIN_PRESENT"}
Faults == {"GATE_CONFIRM_MISSING", "WATCHDOG_TRIP"}
Slots == {0, 1}             \* RLX_MAX_OCCUPANCY_WINDOWS
Steps == {"IDLE", "TICKED", "REPORTING", "BROADCASTING"}
CrossingStates == {"OPEN", "WARNING", "CLOSED", "FAULT"}

VARIABLES
  state, state_elapsed,
  active, direction, remaining,      \* windows[]: slots in use, and their fields
  active_window_count,
  faults, fault_report_pending,
  gate,                              \* g_motion .. g_confirmed_open of rlx_gate.c
  train_signal,                      \* directions shown PROCEED
  flashers,
  step,                              \* of the server thread's pulse handler
  last_broadcast,                    \* last_broadcast_state of rlx_comm.c
  link_state, missed_acks

windowVars == <<active, direction, remaining, active_window_count>>
faultVars == <<faults, fault_report_pending>>
lampVars == <<train_signal, flashers>>
linkVars == <<link_state, missed_acks>>
fsmVars == <<state, state_elapsed, windowVars, faultVars, lampVars>>

vars == <<fsmVars, gate, step, last_broadcast, linkVars>>

Init ==
  /\ state = "OPEN" /\ state_elapsed = 0
  /\ active = {} /\ active_window_count = 0
  /\ direction = [i \in Slots |-> 0] /\ remaining = [i \in Slots |-> 0]
  /\ faults = {} /\ fault_report_pending = FALSE
  /\ gate = [motion |-> "IDLE", remaining |-> 0, failing |-> FALSE,
             armed |-> FALSE, closed |-> FALSE, open |-> TRUE]
  /\ train_signal = {} /\ flashers = FALSE
  /\ step = "IDLE" /\ last_broadcast = "NONE"
  /\ link_state = "DEGRADED_LOCAL" /\ missed_acks = 0

-----------------------------------------------------------------------------
(* The gate (rlx_gate.c), as functions from its state to its next state.    *)

Commanded(g, motion) ==
  [motion |-> motion, remaining |-> GATE_MOTION, failing |-> g.armed,
   armed |-> FALSE, closed |-> FALSE, open |-> FALSE]

CommandedClose(g) == Commanded(g, "MOVING_CLOSE")
CommandedOpen(g) == Commanded(g, "MOVING_OPEN")

\* A motion that comes to its end confirms its position, unless it was armed to
\* fail; failing itself is reset by the next command or repair.
GateTick(g) ==
  IF g.motion = "IDLE" THEN g
  ELSE IF g.remaining > TICK THEN [g EXCEPT !.remaining = g.remaining - TICK]
  ELSE [motion |-> "IDLE", remaining |-> 0, failing |-> g.failing, armed |-> g.armed,
        closed |-> g.closed \/ (~g.failing /\ g.motion = "MOVING_CLOSE"),
        open |-> g.open \/ (~g.failing /\ g.motion = "MOVING_OPEN")]

Repaired(g) ==
  [motion |-> "IDLE", remaining |-> 0, failing |-> FALSE, armed |-> FALSE,
   closed |-> FALSE, open |-> TRUE]

\* The gate as the rest of a handler finds it, a repair having come in or not.
Meanwhile(g, repaired) == IF repaired THEN Repaired(g) ELSE g

-----------------------------------------------------------------------------
(* Occupancy windows.                                                       *)

SlotsOf(d) == {i \in active : direction[i] = d}
Least(slots) == CHOOSE i \in slots : \A j \in slots : i <= j

\* Defect: a direction that is already tracked takes a second slot.
RegisterWindow_Duplicates(d, initial) ==
  IF active # Slots
    THEN LET i == Least(Slots \ active)
         IN  /\ active' = active \cup {i}
             /\ direction' = [direction EXCEPT ![i] = d]
             /\ remaining' = [remaining EXCEPT ![i] = initial]
             /\ active_window_count' = active_window_count + 1
  ELSE UNCHANGED windowVars

\* Defect: a second train from a tracked direction is counted again.
RegisterWindow_CountsTwice(d, initial) ==
  IF SlotsOf(d) # {}
    THEN /\ remaining' = [remaining EXCEPT ![Least(SlotsOf(d))] = initial]
         /\ active_window_count' = active_window_count + 1
         /\ UNCHANGED <<active, direction>>
  ELSE IF active # Slots
    THEN LET i == Least(Slots \ active)
         IN  /\ active' = active \cup {i}
             /\ direction' = [direction EXCEPT ![i] = d]
             /\ remaining' = [remaining EXCEPT ![i] = initial]
             /\ active_window_count' = active_window_count + 1
  ELSE UNCHANGED windowVars

\* A direction has one window: a second train from it starts the window again.
RegisterWindow(d, initial) ==
  IF SlotsOf(d) # {}
    THEN /\ remaining' = [remaining EXCEPT ![Least(SlotsOf(d))] = initial]
         /\ UNCHANGED <<active, direction, active_window_count>>
  ELSE IF active # Slots
    THEN LET i == Least(Slots \ active)
         IN  /\ active' = active \cup {i}
             /\ direction' = [direction EXCEPT ![i] = d]
             /\ remaining' = [remaining EXCEPT ![i] = initial]
             /\ active_window_count' = active_window_count + 1
  ELSE UNCHANGED windowVars

\* Windows that have not started yet start when the train is presumed present.
StartWindows ==
  /\ remaining' = [i \in Slots |->
                     IF i \in active /\ remaining[i] = 0 THEN OCCUPANCY_WINDOW
                                                         ELSE remaining[i]]
  /\ UNCHANGED <<active, direction, active_window_count>>

Expired == {i \in active : remaining[i] <= TICK}

\* active_window_count is a uint8_t.
TickWindows ==
  /\ active' = active \ Expired
  /\ remaining' = [i \in Slots |-> IF i \in Expired THEN 0
                                   ELSE IF i \in active THEN remaining[i] - TICK
                                   ELSE remaining[i]]
  /\ active_window_count' = (active_window_count - Cardinality(Expired)) % 256
  /\ UNCHANGED direction

-----------------------------------------------------------------------------
(* Transitions of the state machine; each takes the gate as it finds it.    *)

Enter(s) == state' = s /\ state_elapsed' = 0

EnterFault(g, bit) ==
  /\ gate' = CommandedClose(g) /\ train_signal' = {}
  /\ Enter("FAULT")
  /\ faults' = faults \cup {bit} /\ fault_report_pending' = TRUE
  /\ UNCHANGED flashers

Wait(g, elapsed) ==
  /\ gate' = g /\ state_elapsed' = elapsed
  /\ UNCHANGED <<state, faultVars, lampVars>>

\* Defect: the flashing-only interval is skipped.
WarningOver_AtOnce(elapsed) == TRUE

WarningOver(elapsed) == elapsed >= WARNING_TO_CLOSING

WarningTick(g, elapsed) ==
  /\ state = "WARNING"
  /\ IF WarningOver(elapsed)
       THEN /\ Enter("CLOSING") /\ gate' = CommandedClose(g)
            /\ UNCHANGED <<faultVars, lampVars>>
       ELSE Wait(g, elapsed)
  /\ UNCHANGED windowVars

\* Defect: a gate that does not confirm is waited for without end.
ClosingOverdue_Never(elapsed) == FALSE

ClosingOverdue(elapsed) == elapsed >= CLOSING_DEADLINE

ClosingTick(g, later, elapsed) ==
  /\ state \in Closing
  /\ \/ /\ g.closed
        /\ Enter("CLOSED") /\ gate' = later
        /\ train_signal' = train_signal \cup {direction[i] : i \in active}
        /\ UNCHANGED <<faultVars, flashers>>
     \/ /\ ~g.closed /\ ClosingOverdue(elapsed)
        /\ EnterFault(later, "GATE_CONFIRM_MISSING")
     \/ ~g.closed /\ ~ClosingOverdue(elapsed) /\ Wait(later, elapsed)
  /\ UNCHANGED windowVars

\* Defect: an open gate is not noticed while a train is present.
Contradicted_OnlyBeforeTrain(g) == state = "CLOSED" /\ ~g.closed

Contradicted(g) == ~g.closed

\* The gate is polled again before the train is presumed present.
ClosedTick(g, later, elapsed) ==
  /\ state = "CLOSED"
  /\ \/ /\ Contradicted(g)
        /\ EnterFault(later, "GATE_CONFIRM_MISSING") /\ UNCHANGED windowVars
     \/ /\ ~Contradicted(g) /\ elapsed >= EXPECTED_ARRIVAL /\ later.closed
        /\ Enter("TRAIN_PRESENT") /\ gate' = later /\ StartWindows
        /\ UNCHANGED <<faultVars, lampVars>>
     \/ /\ ~Contradicted(g) /\ ~(elapsed >= EXPECTED_ARRIVAL /\ later.closed)
        /\ Wait(later, elapsed) /\ UNCHANGED windowVars

TrainPresentTick(g, later) ==
  /\ state = "TRAIN_PRESENT"
  /\ \/ /\ Contradicted(g)
        /\ EnterFault(later, "GATE_CONFIRM_MISSING") /\ UNCHANGED windowVars
     \/ /\ ~Contradicted(g) /\ TickWindows
        /\ IF active_window_count' = 0
             THEN /\ Enter("OPENING") /\ gate' = CommandedOpen(later)
                  /\ train_signal' = {}
                  /\ UNCHANGED <<faultVars, flashers>>
             ELSE Wait(later, state_elapsed)

OpeningTick(g, later, elapsed) ==
  /\ state = "OPENING"
  /\ \/ /\ g.open
        /\ Enter("OPEN") /\ gate' = later /\ flashers' = FALSE
        /\ UNCHANGED <<faultVars, train_signal>>
     \/ /\ ~g.open /\ elapsed >= OPENING_DEADLINE
        /\ EnterFault(later, "GATE_CONFIRM_MISSING")
     \/ ~g.open /\ elapsed < OPENING_DEADLINE /\ Wait(later, elapsed)
  /\ UNCHANGED windowVars

\* rlx_fsm_on_tick: the gate moves first, then the state machine polls it.
Tick(repaired) ==
  LET g == GateTick(gate)
      later == Meanwhile(g, repaired)
      elapsed == state_elapsed + TICK
  IN  \/ WarningTick(later, elapsed) \/ ClosingTick(g, later, elapsed)
      \/ ClosedTick(g, later, elapsed) \/ TrainPresentTick(g, later)
      \/ OpeningTick(g, later, elapsed)
      \/ /\ state \in {"OPEN", "FAULT"}
         /\ gate' = later /\ UNCHANGED fsmVars

\* Defect: a train announced while another is present has no window of its own.
InitialWindow_NotStarted == 0

\* The window starts at once when the crossing is occupied already.
InitialWindow == IF state = "TRAIN_PRESENT" THEN OCCUPANCY_WINDOW ELSE 0

\* A train announced while the gate is down proceeds at once, if it really is.
AnnouncedToShutGate(d, repaired) ==
  LET later == Meanwhile(gate, repaired)
  IN  \/ Contradicted(gate) /\ EnterFault(later, "GATE_CONFIRM_MISSING")
      \/ /\ ~Contradicted(gate) /\ gate' = later
         /\ train_signal' = IF later.closed THEN train_signal \cup {d}
                                            ELSE train_signal
         /\ UNCHANGED <<state, state_elapsed, faultVars, flashers>>

\* rlx_fsm_simulate_train_approaching; in FAULT a train is ignored.
SimulateTrainApproaching(d, repaired) ==
  /\ state # "FAULT" /\ RegisterWindow(d, InitialWindow)
  /\ \/ /\ state = "OPEN" /\ Enter("WARNING") /\ flashers' = TRUE
        /\ UNCHANGED <<gate, faultVars, train_signal>>
     \/ /\ state \in {"WARNING", "CLOSING", "RECLOSING"}
        /\ UNCHANGED <<state, state_elapsed, gate, faultVars, lampVars>>
     \/ state \in Shut /\ AnnouncedToShutGate(d, repaired)
     \/ /\ state = "OPENING" /\ Enter("RECLOSING") /\ gate' = CommandedClose(gate)
        /\ UNCHANGED <<faultVars, lampVars>>
  /\ UNCHANGED <<step, last_broadcast, linkVars>>

\* Defect: the repair of the gate is not verified.
ClearVerified_Trusting == TRUE

ClearVerified == gate.open

ForgetTrains ==
  /\ active' = {} /\ active_window_count' = 0
  /\ UNCHANGED <<direction, remaining>>

\* rlx_fsm_on_fault_clear, from Central or from the keyboard.
OnFaultClear ==
  /\ state = "FAULT" /\ ClearVerified
  /\ Enter("OPEN") /\ faults' = {} /\ ForgetTrains
  /\ UNCHANGED <<gate, fault_report_pending, lampVars, step, last_broadcast,
                 linkVars>>

\* rlx_fsm_report_watchdog_trip
ReportWatchdogTrip ==
  /\ state # "FAULT" /\ EnterFault(gate, "WATCHDOG_TRIP")
  /\ UNCHANGED <<windowVars, step, last_broadcast, linkVars>>

ArmDemoFault ==
  /\ gate' = [gate EXCEPT !.armed = TRUE]
  /\ UNCHANGED <<fsmVars, step, last_broadcast, linkVars>>

ForceConfirmedOpen ==
  /\ gate' = Repaired(gate)
  /\ UNCHANGED <<fsmVars, step, last_broadcast, linkVars>>

\* Defect: the count of misses is let run over its maximum.
OneMoreMiss_Unsaturated == missed_acks + 1

OneMoreMiss ==
  IF missed_acks < MISSED_MAX THEN missed_acks + 1 ELSE missed_acks

OnHeartbeatResult(acked) ==
  /\ missed_acks' = IF acked THEN 0 ELSE OneMoreMiss
  /\ link_state' = IF acked THEN "CENTRAL_CONNECTED"
                   ELSE IF missed_acks' >= 3 THEN "DEGRADED_LOCAL"
                   ELSE link_state
  /\ UNCHANGED <<fsmVars, gate, step, last_broadcast>>

-----------------------------------------------------------------------------
(* The pulse handler of the server thread (rlx_main.c on_pulse).            *)

CrossingState(s) ==
  IF s = "OPEN" THEN "OPEN"
  ELSE IF s \in {"WARNING", "CLOSING", "RECLOSING"} THEN "WARNING"
  ELSE IF s \in {"CLOSED", "TRAIN_PRESENT", "OPENING"} THEN "CLOSED"
  ELSE "FAULT"

OnTick(repaired) ==
  /\ step = "IDLE" /\ step' = "TICKED"
  /\ Tick(repaired) /\ UNCHANGED <<last_broadcast, linkVars>>

TakeFaultReportPending ==
  /\ step = "TICKED"
  /\ step' = IF fault_report_pending THEN "REPORTING" ELSE "BROADCASTING"
  /\ fault_report_pending' = FALSE
  /\ UNCHANGED <<state, state_elapsed, windowVars, faults, lampVars, gate,
                 last_broadcast, linkVars>>

\* The report carries the faults of this moment (rlx_fsm_fill_status).
SendFaultReport ==
  /\ step = "REPORTING" /\ step' = "BROADCASTING"
  /\ UNCHANGED <<fsmVars, gate, last_broadcast, linkVars>>

\* Defect: a fault is not worth a broadcast, there having been a report.
BroadcastCrossingStatus_NotFault ==
  /\ step = "BROADCASTING" /\ step' = "IDLE"
  /\ last_broadcast' = IF state = "FAULT" THEN last_broadcast
                                          ELSE CrossingState(state)
  /\ UNCHANGED <<fsmVars, gate, linkVars>>

\* rlx_comm_broadcast_crossing_status_if_changed
BroadcastCrossingStatus ==
  /\ step = "BROADCASTING" /\ step' = "IDLE"
  /\ last_broadcast' = CrossingState(state)
  /\ UNCHANGED <<fsmVars, gate, linkVars>>

\* Typed repairs that fall inside a handler.
Repairs == {FALSE} \cup {r \in {TRUE} : "r" \in DemoKeys}

PulseStep ==
  \/ \E repaired \in Repairs : OnTick(repaired)
  \/ TakeFaultReportPending \/ SendFaultReport \/ BroadcastCrossingStatus

TrainApproaching ==
  \E d \in Directions, repaired \in Repairs : SimulateTrainApproaching(d, repaired)

OtherThreads ==
  \/ "x" \in DemoKeys /\ ArmDemoFault
  \/ "r" \in DemoKeys /\ ForceConfirmedOpen
  \/ "f" \in DemoKeys /\ OnFaultClear
  \/ step = "IDLE" /\ OnFaultClear
  \/ WatchdogTrips # {} /\ ReportWatchdogTrip
  \/ \E acked \in HeartbeatResults : OnHeartbeatResult(acked)

Next == PulseStep \/ TrainApproaching \/ OtherThreads

Spec == Init /\ [][Next]_vars

\* The kernel timer keeps delivering pulses and the server thread, while it is
\* not stalled, handles each of them to its end.
FairSpec == Spec /\ WF_vars(PulseStep)

-----------------------------------------------------------------------------
GateStates == [motion : {"IDLE", "MOVING_CLOSE", "MOVING_OPEN"},
               remaining : 0 .. GATE_MOTION, failing : BOOLEAN,
               armed : BOOLEAN, closed : BOOLEAN, open : BOOLEAN]

\* The values the fields of rlx_fsm_t and the variables of rlx_gate.c may take.
TypeOK ==
  /\ state \in States /\ state_elapsed \in Nat
  /\ active \subseteq Slots /\ direction \in [Slots -> Nat]
  /\ remaining \in [Slots -> 0 .. OCCUPANCY_WINDOW]
  /\ active_window_count \in 0 .. 255
  /\ faults \subseteq Faults /\ fault_report_pending \in BOOLEAN
  /\ gate \in GateStates
  /\ train_signal \subseteq Nat /\ flashers \in BOOLEAN
  /\ step \in Steps /\ last_broadcast \in CrossingStates \cup {"NONE"}
  /\ link_state \in {"CENTRAL_CONNECTED", "DEGRADED_LOCAL"}
  /\ missed_acks \in 0 .. MISSED_MAX

\* The windows and their uint8_t count agree, a direction is tracked once, and
\* the crossing is open or opening only with no train on record: the count that
\* decides on reopening can neither underflow nor leave a train behind.
WindowsConsistent ==
  /\ active_window_count = Cardinality(active)
  /\ \A i, j \in active : direction[i] = direction[j] => i = j
  /\ state \in {"OPEN", "OPENING"} => active = {}
  /\ state \notin {"OPEN", "OPENING", "FAULT"} => active # {}

\* The gate obeys the state machine: it is up and at rest while road users may
\* cross, on its way up only while opening and on its way down only while closing
\* or in FAULT, never confirmed at both ends, and confirmed down only in the
\* states that were entered on that confirmation.
GateObeysState ==
  /\ state \in {"OPEN", "WARNING"} => gate.open /\ gate.motion = "IDLE"
  /\ gate.motion = "MOVING_OPEN" => state = "OPENING"
  /\ gate.motion = "MOVING_CLOSE" => state \in Closing \cup {"FAULT"}
  /\ gate.motion # "IDLE" => ~gate.closed /\ ~gate.open
  /\ ~(gate.closed /\ gate.open)
  /\ gate.closed => state \in Shut \cup {"FAULT"}
  /\ state \in Shut => gate.closed \/ gate.open

\* PROCEED is shown only while the gate is taken to be down: never while it is
\* moving, never in FAULT, never beside an open crossing (invariants 5 and 6 of
\* docs/specification/04-safety-and-realtime.md).
ProceedOnlyWhenShut == train_signal # {} => state \in Shut

\* A pulse that finds the gate open beside a PROCEED ends in FAULT with STOP,
\* before or while the train is present.
ProceedWithdrawn ==
  [][step = "IDLE" /\ step' = "TICKED" /\ train_signal # {} /\ ~gate.closed
       => state' = "FAULT" /\ train_signal' = {}]_vars

\* A fault is latched: it is left only for OPEN, with the gate verified open,
\* and the set of faults is empty exactly outside FAULT (RC-09).
FaultsLatched == state = "FAULT" <=> faults # {}
FaultLeftOnlyRepaired ==
  [][state = "FAULT" /\ state' # "FAULT" => state' = "OPEN" /\ gate'.open]_vars

\* Before a gate is commanded down for a train, the broadcast that reopened the
\* crossing has been replaced by another one, whatever faults, clearances and
\* approaches fell between the parts of a pulse (CC-02).
NeighboursWarned ==
  state \notin {"OPEN", "WARNING", "FAULT"} => last_broadcast \notin {"NONE", "OPEN"}
=============================================================================
