---------------------------- MODULE RailwayProofs ----------------------------
(***************************************************************************)
(* Proofs about the railway crossing controller, for every value of the    *)
(* timings and of the inputs that the named assumptions allow.             *)
(***************************************************************************)
EXTENDS RailwayCrossing, FiniteSetTheorems, TLAPS

\* The groups of variables are mere abbreviations for UNCHANGED.
USE DEF windowVars, faultVars, lampVars, linkVars, fsmVars

-----------------------------------------------------------------------------
(* The operators on the gate and on the occupancy windows.                  *)

\* A command starts a motion that has confirmed nothing yet.
LEMMA CommandedGate ==
  ASSUME NEW g \in GateStates
  PROVE  /\ CommandedClose(g) \in GateStates /\ CommandedOpen(g) \in GateStates
         /\ CommandedClose(g).motion = "MOVING_CLOSE"
         /\ CommandedOpen(g).motion = "MOVING_OPEN"
         /\ ~CommandedClose(g).closed /\ ~CommandedClose(g).open
         /\ ~CommandedOpen(g).closed /\ ~CommandedOpen(g).open
BY TimingAssumption DEF CommandedClose, CommandedOpen, Commanded, GateStates

\* A repair leaves the gate at rest, confirmed open.
LEMMA RepairedGate ==
  ASSUME NEW g \in GateStates, NEW repaired \in BOOLEAN
  PROVE  /\ Meanwhile(g, repaired) \in GateStates
         /\ \/ Meanwhile(g, repaired) = g
            \/ /\ Meanwhile(g, repaired).open /\ ~Meanwhile(g, repaired).closed
               /\ Meanwhile(g, repaired).motion = "IDLE"
<1>1. CASE repaired
  BY <1>1, TimingAssumption DEF Meanwhile, Repaired, GateStates
<1>2. CASE ~repaired
  BY <1>2 DEF Meanwhile
<1> QED
  BY <1>1, <1>2

\* A tick leaves a gate at rest alone; it confirms a position only at the end of
\* the motion towards it.
LEMMA TickedGate ==
  ASSUME gate \in GateStates
  PROVE  /\ GateTick(gate) \in GateStates
         /\ gate.motion = "IDLE" => GateTick(gate) = gate
         /\ GateTick(gate).motion \in {"IDLE", gate.motion}
         /\ gate.motion # "IDLE" /\ ~gate.closed /\ ~gate.open =>
              /\ GateTick(gate).closed => /\ gate.motion = "MOVING_CLOSE"
                                          /\ GateTick(gate).motion = "IDLE"
              /\ GateTick(gate).open => /\ gate.motion = "MOVING_OPEN"
                                        /\ GateTick(gate).motion = "IDLE"
<1>1. CASE gate.motion = "IDLE"
  BY <1>1 DEF GateTick
<1>2. CASE gate.motion # "IDLE" /\ gate.remaining > TICK
  BY <1>2, TimingAssumption DEF GateTick, GateStates
<1>3. CASE gate.motion # "IDLE" /\ ~(gate.remaining > TICK)
  <2> DEFINE c == gate.closed \/ (~gate.failing /\ gate.motion = "MOVING_CLOSE")
             o == gate.open \/ (~gate.failing /\ gate.motion = "MOVING_OPEN")
  <2>1. GateTick(gate) = [motion |-> "IDLE", remaining |-> 0, failing |-> gate.failing,
                          armed |-> gate.armed, closed |-> c, open |-> o]
    BY <1>3 DEF GateTick
  <2>2. c \in BOOLEAN /\ o \in BOOLEAN
    BY Zenon
  <2>3. ~gate.closed /\ ~gate.open => /\ c => gate.motion = "MOVING_CLOSE"
                                      /\ o => gate.motion = "MOVING_OPEN"
    BY Zenon
  <2> HIDE DEF c, o
  <2>4. GateTick(gate) \in GateStates /\ GateTick(gate).motion = "IDLE"
    BY <2>1, <2>2, TimingAssumption DEF GateStates
  <2>5. (GateTick(gate).closed => c) /\ (GateTick(gate).open => o)
    BY <2>1
  <2> QED
    BY <1>3, <2>3, <2>4, <2>5
<1> QED
  BY <1>1, <1>2, <1>3

\* The two slots: which subsets there are, and how many elements they have.
LEMMA SlotSets ==
  /\ \A S \in SUBSET Slots : IsFiniteSet(S) /\ Cardinality(S) \in 0 .. 2
  /\ \A S \in SUBSET Slots : Cardinality(S) = 0 <=> S = {}
  /\ \A S \in SUBSET Slots, i \in Slots :
       Cardinality(S \cup {i}) = IF i \in S THEN Cardinality(S) ELSE Cardinality(S) + 1
  /\ \A S \in SUBSET Slots : \A T \in SUBSET S :
       Cardinality(S \ T) = Cardinality(S) - Cardinality(T)
<1>1. IsFiniteSet(Slots) /\ Cardinality(Slots) = 2
  <2>1. IsFiniteSet({0}) /\ Cardinality({0}) = 1
    BY FS_Singleton
  <2>2. IsFiniteSet({0} \cup {1}) /\ Cardinality({0} \cup {1}) = 2
    BY <2>1, FS_AddElement
  <2>3. Slots = {0} \cup {1}
    BY DEF Slots
  <2> QED
    BY <2>2, <2>3
<1>2. \A S \in SUBSET Slots : IsFiniteSet(S) /\ Cardinality(S) \in 0 .. 2
  <2> TAKE S \in SUBSET Slots
  <2>1. IsFiniteSet(S) /\ Cardinality(S) <= 2
    BY <1>1, FS_Subset
  <2>2. Cardinality(S) \in Nat
    BY <2>1, FS_CardinalityType
  <2> QED
    BY <2>1, <2>2
<1>3. \A S \in SUBSET Slots : Cardinality(S) = 0 <=> S = {}
  BY <1>2, FS_EmptySet
<1>4. \A S \in SUBSET Slots, i \in Slots :
        Cardinality(S \cup {i}) = IF i \in S THEN Cardinality(S) ELSE Cardinality(S) + 1
  BY <1>2, FS_AddElement
<1>5. \A S \in SUBSET Slots : \A T \in SUBSET S :
        Cardinality(S \ T) = Cardinality(S) - Cardinality(T)
  <2> TAKE S \in SUBSET Slots
  <2> TAKE T \in SUBSET S
  <2>1. IsFiniteSet(S) /\ S \cap T = T
    BY <1>2
  <2> QED
    BY <2>1, FS_Difference
<1> QED
  BY <1>2, <1>3, <1>4, <1>5

LEMMA LeastSlot ==
  ASSUME NEW S \in SUBSET Slots, S # {}
  PROVE  Least(S) \in S
<1>1. \E i \in S : \A j \in S : i <= j
  <2>1. CASE 0 \in S
    BY <2>1 DEF Slots
  <2>2. CASE 0 \notin S
    <3>1. S = {1}
      BY <2>2 DEF Slots
    <3> QED
      BY <3>1
  <2> QED
    BY <2>1, <2>2
<1> QED
  BY <1>1 DEF Least

WindowTypes ==
  /\ active \subseteq Slots /\ direction \in [Slots -> Nat]
  /\ remaining \in [Slots -> 0 .. OCCUPANCY_WINDOW]
  /\ active_window_count \in 0 .. 255

\* The windows are counted, and no direction has two of them.
WindowsCounted ==
  /\ active_window_count = Cardinality(active)
  /\ \A i, j \in active : direction[i] = direction[j] => i = j

\* Registering a train keeps the count and leaves some window active.
LEMMA RegisterWindowStep ==
  ASSUME WindowTypes, WindowsCounted,
         NEW d \in Nat, NEW t \in 0 .. OCCUPANCY_WINDOW, RegisterWindow(d, t)
  PROVE  WindowTypes' /\ WindowsCounted' /\ active' # {}
<1> USE DEF WindowTypes
<1>1. CASE SlotsOf(d) # {}
  <2>1. Least(SlotsOf(d)) \in SlotsOf(d) /\ SlotsOf(d) \subseteq active
    BY <1>1, LeastSlot DEF SlotsOf
  <2>2. /\ remaining' = [remaining EXCEPT ![Least(SlotsOf(d))] = t]
        /\ UNCHANGED <<active, direction, active_window_count>>
    BY <1>1 DEF RegisterWindow
  <2> QED
    BY <2>1, <2>2 DEF WindowsCounted
<1>2. CASE SlotsOf(d) = {} /\ active # Slots
  <2> DEFINE i == Least(Slots \ active)
  <2>1. i \in Slots /\ i \notin active
    BY <1>2, LeastSlot
  <2>2. /\ active' = active \cup {i}
        /\ direction' = [direction EXCEPT ![i] = d]
        /\ remaining' = [remaining EXCEPT ![i] = t]
        /\ active_window_count' = active_window_count + 1
    BY <1>2 DEF RegisterWindow
  <2> HIDE DEF i
  <2>3. active_window_count' = Cardinality(active') /\ active_window_count' \in 0 .. 255
    <3>1. Cardinality(active \cup {i}) = Cardinality(active) + 1
      BY <2>1, SlotSets
    <3>2. Cardinality(active) \in 0 .. 2
      BY SlotSets
    <3> QED
      BY <2>2, <3>1, <3>2 DEF WindowsCounted
  <2>4. \A j, k \in active' : direction'[j] = direction'[k] => j = k
    <3>1. \A j \in active : direction'[j] = direction[j] /\ direction[j] # d
      BY <1>2, <2>1, <2>2 DEF SlotsOf
    <3>2. direction'[i] = d
      BY <2>1, <2>2
    <3> QED
      BY <2>2, <3>1, <3>2 DEF WindowsCounted
  <2>5. WindowTypes'
    BY <2>1, <2>2, <2>3
  <2> QED
    BY <2>2, <2>3, <2>4, <2>5 DEF WindowsCounted
<1>3. CASE SlotsOf(d) = {} /\ active = Slots
  BY <1>3 DEF RegisterWindow, WindowsCounted, Slots
<1> QED
  BY <1>1, <1>2, <1>3

\* Expired windows are taken off the count, which does not underflow.
LEMMA TickWindowsStep ==
  ASSUME WindowTypes, WindowsCounted, TickWindows
  PROVE  WindowTypes' /\ WindowsCounted' /\ (active_window_count' = 0 <=> active' = {})
<1> USE DEF WindowTypes
<1>1. Expired \subseteq active
  BY DEF Expired
<1>2. Cardinality(active \ Expired) = Cardinality(active) - Cardinality(Expired)
  BY <1>1, SlotSets
<1>3. /\ Cardinality(active) \in 0 .. 2 /\ Cardinality(Expired) \in 0 .. 2
      /\ Cardinality(active \ Expired) \in 0 .. 2
  <2>1. Expired \in SUBSET Slots /\ active \ Expired \in SUBSET Slots
    BY <1>1
  <2> QED
    BY <2>1, SlotSets
<1>4. active_window_count' = Cardinality(active')
  BY <1>2, <1>3 DEF TickWindows, WindowsCounted
<1>5. remaining' \in [Slots -> 0 .. OCCUPANCY_WINDOW]
  <2>1. \A i \in active : i \notin Expired => remaining[i] - TICK \in 0 .. OCCUPANCY_WINDOW
    BY TimingAssumption DEF Expired
  <2> QED
    BY <1>1, <2>1, TimingAssumption DEF TickWindows
<1>6. active' \subseteq active /\ UNCHANGED direction
  BY DEF TickWindows
<1>7. active_window_count' = 0 <=> active' = {}
  BY <1>4, <1>6, SlotSets
<1>8. active_window_count' \in 0 .. 255
  BY <1>3, <1>4 DEF TickWindows
<1> QED
  BY <1>4, <1>5, <1>6, <1>7, <1>8 DEF WindowsCounted

LEMMA StartWindowsStep ==
  ASSUME WindowTypes, WindowsCounted, StartWindows
  PROVE  WindowTypes' /\ WindowsCounted' /\ active' = active
BY TimingAssumption DEF WindowTypes, WindowsCounted, StartWindows

-----------------------------------------------------------------------------
(* The inductive invariant of the state machine and its gate.               *)

MachineTypes ==
  /\ state \in States /\ state_elapsed \in Nat
  /\ faults \subseteq Faults /\ fault_report_pending \in BOOLEAN
  /\ gate \in GateStates
  /\ train_signal \subseteq Nat /\ flashers \in BOOLEAN

ServerTypes ==
  /\ step \in Steps /\ last_broadcast \in CrossingStates \cup {"NONE"}
  /\ link_state \in {"CENTRAL_CONNECTED", "DEGRADED_LOCAL"}
  /\ missed_acks \in 0 .. MISSED_MAX

\* A train is on record exactly while the crossing is not open or opening.
TrainsByState ==
  /\ state \in {"OPEN", "OPENING"} => active = {}
  /\ state \notin {"OPEN", "OPENING", "FAULT"} => active # {}

MachineInv ==
  /\ WindowTypes /\ MachineTypes /\ WindowsCounted /\ TrainsByState
  /\ GateObeysState /\ ProceedOnlyWhenShut /\ FaultsLatched

\* A fault leaves the gate on its way down, PROCEED withdrawn, the fault recorded.
LEMMA EnterFaultStep ==
  ASSUME MachineInv, NEW g \in GateStates, NEW bit \in Faults, EnterFault(g, bit),
         WindowTypes', WindowsCounted'
  PROVE  MachineInv'
<1>1. MachineTypes'
  BY CommandedGate DEF MachineInv, MachineTypes, EnterFault, Enter, States
<1>2. GateObeysState'
  BY CommandedGate DEF EnterFault, Enter, GateObeysState, Shut
<1>3. TrainsByState' /\ ProceedOnlyWhenShut' /\ FaultsLatched'
  BY DEF EnterFault, Enter, TrainsByState, ProceedOnlyWhenShut, FaultsLatched
<1> QED
  BY <1>1, <1>2, <1>3 DEF MachineInv

LEMMA WindowFrame ==
  ASSUME WindowTypes, WindowsCounted, UNCHANGED windowVars
  PROVE  WindowTypes' /\ WindowsCounted'
BY DEF WindowTypes, WindowsCounted

\* What a pulse finds and leaves of the gate.
LEMMA TickedFromInv ==
  ASSUME MachineInv, NEW repaired \in BOOLEAN
  PROVE  LET g == GateTick(gate)
             later == Meanwhile(g, repaired)
         IN  /\ g \in GateStates /\ later \in GateStates
             /\ ~(g.closed /\ g.open)
             /\ g.motion # "IDLE" => ~g.closed /\ ~g.open
             /\ g.motion = "MOVING_OPEN" => state = "OPENING"
             /\ g.closed => state \in Closing \cup Shut \cup {"FAULT"}
             /\ state \in {"OPEN", "WARNING"} => g = gate
             /\ state \in Shut => g = gate
             /\ \/ later = g
                \/ later.open /\ ~later.closed /\ later.motion = "IDLE"
<1> DEFINE g == GateTick(gate)
           later == Meanwhile(g, repaired)
<1>1. gate \in GateStates
  BY DEF MachineInv, MachineTypes
<1>2. g \in GateStates
  BY <1>1, TickedGate
<1>3. /\ later \in GateStates
      /\ \/ later = g
         \/ later.open /\ ~later.closed /\ later.motion = "IDLE"
  BY <1>2, RepairedGate
<1>4. gate.motion # "IDLE" => ~gate.closed /\ ~gate.open
  BY DEF MachineInv, GateObeysState
<1>5. /\ gate.motion = "IDLE" => g = gate
      /\ g.motion \in {"IDLE", gate.motion}
      /\ gate.motion # "IDLE" =>
           /\ g.closed => gate.motion = "MOVING_CLOSE" /\ g.motion = "IDLE"
           /\ g.open => gate.motion = "MOVING_OPEN" /\ g.motion = "IDLE"
  BY <1>1, <1>4, TickedGate
<1>6. gate.motion = "IDLE" \/ gate.motion = "MOVING_CLOSE" \/ gate.motion = "MOVING_OPEN"
  BY <1>1 DEF GateStates
<1> HIDE DEF g, later
<1>7. GateObeysState /\ state \in States
  BY DEF MachineInv, MachineTypes
<1>8. /\ ~(g.closed /\ g.open)
      /\ g.motion # "IDLE" => ~g.closed /\ ~g.open
      /\ g.motion = "MOVING_OPEN" => state = "OPENING"
  BY <1>4, <1>5, <1>6, <1>7 DEF GateObeysState
<1>9. /\ g.closed => state \in Closing \cup Shut \cup {"FAULT"}
      /\ state \in {"OPEN", "WARNING"} => g = gate
      /\ state \in Shut => g = gate
  BY <1>4, <1>5, <1>6, <1>7 DEF GateObeysState, Shut, Closing
<1> QED
  BY <1>2, <1>3, <1>8, <1>9 DEF g, later

\* What is left to show once the gate and the windows are settled: the state
\* machine moved to s without a fault.
LEMMA MovedStep ==
  ASSUME MachineInv, WindowTypes', WindowsCounted', TrainsByState',
         NEW s \in States \ {"FAULT"}, state # "FAULT",
         state' = s, state_elapsed' \in Nat, UNCHANGED faultVars,
         gate' \in GateStates, flashers' \in BOOLEAN, train_signal' \subseteq Nat,
         train_signal' # {} => s \in Shut,
         GateObeysState'
  PROVE  MachineInv'
<1>1. faults = {} /\ faults' = {}
  BY DEF MachineInv, MachineTypes, FaultsLatched
<1>2. MachineTypes'
  <2>1. fault_report_pending' \in BOOLEAN
    BY DEF MachineInv, MachineTypes
  <2> QED
    BY <1>1, <2>1 DEF MachineTypes
<1>3. ProceedOnlyWhenShut' /\ FaultsLatched'
  BY <1>1 DEF ProceedOnlyWhenShut, FaultsLatched
<1> QED
  BY <1>2, <1>3 DEF MachineInv

\* A pulse keeps the invariant, whatever state it finds and whether or not a
\* repair comes in between two polls of the gate.
LEMMA TickStep ==
  ASSUME MachineInv, NEW repaired \in BOOLEAN, Tick(repaired)
  PROVE  MachineInv'
<1> DEFINE g == GateTick(gate)
           later == Meanwhile(g, repaired)
           elapsed == state_elapsed + TICK
<1>1. /\ g \in GateStates /\ later \in GateStates
      /\ ~(g.closed /\ g.open)
      /\ g.motion # "IDLE" => ~g.closed /\ ~g.open
      /\ g.motion = "MOVING_OPEN" => state = "OPENING"
      /\ g.closed => state \in Closing \cup Shut \cup {"FAULT"}
      /\ state \in {"OPEN", "WARNING"} => g = gate
      /\ state \in Shut => g = gate
      /\ \/ later = g
         \/ later.open /\ ~later.closed /\ later.motion = "IDLE"
  BY TickedFromInv
<1>2. g.motion = "MOVING_CLOSE" => state \in Closing \cup {"FAULT"}
  <2>1. gate \in GateStates
    BY DEF MachineInv, MachineTypes
  <2>2. g.motion = "MOVING_CLOSE" => gate.motion = "MOVING_CLOSE"
    BY <2>1, TickedGate
  <2> QED
    BY <2>2 DEF MachineInv, GateObeysState
<1>3. elapsed \in Nat /\ state_elapsed \in Nat /\ flashers \in BOOLEAN
      /\ train_signal \subseteq Nat /\ state \in States
  BY TimingAssumption DEF MachineInv, MachineTypes
<1>4. WindowTypes /\ WindowsCounted /\ TrainsByState /\ GateObeysState
      /\ ProceedOnlyWhenShut
  BY DEF MachineInv
<1>5. \/ WarningTick(later, elapsed) \/ ClosingTick(g, later, elapsed)
      \/ ClosedTick(g, later, elapsed) \/ TrainPresentTick(g, later)
      \/ OpeningTick(g, later, elapsed)
      \/ /\ state \in {"OPEN", "FAULT"}
         /\ gate' = later /\ UNCHANGED fsmVars
  BY DEF Tick
<1> HIDE DEF g, later, elapsed
<1>6. CASE WarningTick(later, elapsed)
  <2>1. state = "WARNING" /\ WindowTypes' /\ WindowsCounted' /\ active' # {}
    BY <1>4, <1>6, WindowFrame DEF WarningTick, TrainsByState
  <2>2. later.open /\ ~later.closed /\ later.motion = "IDLE"
    BY <1>1, <1>4, <2>1 DEF GateObeysState
  <2>3. train_signal = {}
    BY <1>4, <2>1 DEF ProceedOnlyWhenShut, Shut
  <2>4. CASE WarningOver(elapsed)
    <3>1. /\ state' = "CLOSING" /\ state_elapsed' = 0 /\ gate' = CommandedClose(later)
          /\ UNCHANGED <<faultVars, lampVars>>
      BY <1>6, <2>4 DEF WarningTick, Enter
    <3>2. gate' \in GateStates /\ GateObeysState'
      BY <1>1, <3>1, CommandedGate DEF GateObeysState, Shut, Closing
    <3>3. TrainsByState'
      BY <2>1, <3>1 DEF TrainsByState
    <3> QED
      BY <1>3, <2>1, <2>3, <3>1, <3>2, <3>3, MovedStep DEF States
  <2>5. CASE ~WarningOver(elapsed)
    <3>1. /\ state' = "WARNING" /\ state_elapsed' = elapsed /\ gate' = later
          /\ UNCHANGED <<faultVars, lampVars>>
      BY <1>6, <2>1, <2>5 DEF WarningTick, Wait
    <3>2. gate' \in GateStates /\ GateObeysState'
      BY <1>1, <2>2, <3>1 DEF GateObeysState, Shut, Closing
    <3>3. TrainsByState'
      BY <2>1, <3>1 DEF TrainsByState
    <3> QED
      BY <1>3, <2>1, <2>3, <3>1, <3>2, <3>3, MovedStep DEF States
  <2> QED
    BY <2>4, <2>5
<1>7. CASE ClosingTick(g, later, elapsed)
  <2>1. state \in Closing /\ WindowTypes' /\ WindowsCounted' /\ active' # {}
    BY <1>4, <1>7, WindowFrame DEF ClosingTick, TrainsByState, Closing
  <2>2. train_signal = {} /\ state # "FAULT"
    BY <1>4, <2>1 DEF ProceedOnlyWhenShut, Shut, Closing
  <2>3. CASE g.closed /\ Enter("CLOSED")
    <3>1. /\ state' = "CLOSED" /\ state_elapsed' = 0 /\ gate' = later
          /\ train_signal' = train_signal \cup {direction[i] : i \in active}
          /\ UNCHANGED <<faultVars, flashers>>
      BY <1>7, <2>3 DEF ClosingTick, EnterFault, Enter, Wait
    <3>2. gate' \in GateStates /\ GateObeysState'
      BY <1>1, <2>3, <3>1 DEF GateObeysState, Shut, Closing, GateStates
    <3>3. TrainsByState'
      BY <2>1, <3>1 DEF TrainsByState
    <3>4. train_signal' \subseteq Nat
      BY <1>3, <1>4, <3>1 DEF WindowTypes
    <3> QED
      BY <1>3, <2>1, <2>2, <3>1, <3>2, <3>3, <3>4, MovedStep DEF States, Shut
  <2>4. CASE EnterFault(later, "GATE_CONFIRM_MISSING")
    BY <1>1, <2>1, <2>4, EnterFaultStep DEF Faults
  <2>5. CASE ~g.closed /\ Wait(later, elapsed)
    <3>1. /\ state' = state /\ state_elapsed' = elapsed /\ gate' = later
          /\ UNCHANGED <<faultVars, lampVars>>
      BY <2>5 DEF Wait
    <3>2. gate' \in GateStates /\ GateObeysState'
      BY <1>1, <1>2, <2>1, <2>5, <3>1 DEF GateObeysState, Shut, Closing, GateStates
    <3>3. TrainsByState'
      BY <2>1, <3>1 DEF TrainsByState, Closing
    <3> QED
      BY <1>3, <2>1, <2>2, <3>1, <3>2, <3>3, MovedStep
  <2> QED
    BY <1>7, <2>3, <2>4, <2>5 DEF ClosingTick
<1>8. CASE ClosedTick(g, later, elapsed)
  <2>1. state = "CLOSED" /\ active # {}
    BY <1>4, <1>8 DEF ClosedTick, TrainsByState
  <2>2. g = gate
    BY <1>1, <2>1 DEF Shut
  <2>3. CASE EnterFault(later, "GATE_CONFIRM_MISSING") /\ UNCHANGED windowVars
    BY <1>1, <1>4, <2>3, WindowFrame, EnterFaultStep DEF Faults
  <2>4. CASE /\ ~Contradicted(g) /\ later.closed
             /\ Enter("TRAIN_PRESENT") /\ gate' = later /\ StartWindows
             /\ UNCHANGED <<faultVars, lampVars>>
    <3>1. WindowTypes' /\ WindowsCounted' /\ active' = active
      BY <1>4, <2>4, StartWindowsStep
    <3>2. state' = "TRAIN_PRESENT" /\ state_elapsed' = 0
      BY <2>4 DEF Enter
    <3>3. gate' \in GateStates /\ GateObeysState'
      BY <1>1, <2>4, <3>2 DEF GateObeysState, Shut, Closing, GateStates
    <3>4. TrainsByState'
      BY <2>1, <3>1, <3>2 DEF TrainsByState
    <3> QED
      BY <1>3, <2>1, <2>4, <3>1, <3>2, <3>3, <3>4, MovedStep DEF States, Shut
  <2>5. CASE ~Contradicted(g) /\ Wait(later, elapsed) /\ UNCHANGED windowVars
    <3>1. /\ state' = "CLOSED" /\ state_elapsed' = elapsed /\ gate' = later
          /\ UNCHANGED <<faultVars, lampVars>>
      BY <2>1, <2>5 DEF Wait
    <3>2. WindowTypes' /\ WindowsCounted' /\ TrainsByState'
      BY <1>4, <2>1, <2>5, <3>1, WindowFrame DEF TrainsByState
    <3>3. gate' \in GateStates /\ GateObeysState'
      BY <1>1, <2>5, <3>1 DEF Contradicted, GateObeysState, Shut, Closing, GateStates
    <3> QED
      BY <1>3, <2>1, <3>1, <3>2, <3>3, MovedStep DEF States, Shut
  <2> QED
    BY <1>8, <2>3, <2>4, <2>5 DEF ClosedTick
<1>9. CASE TrainPresentTick(g, later)
  <2>1. state = "TRAIN_PRESENT"
    BY <1>9 DEF TrainPresentTick
  <2>2. CASE EnterFault(later, "GATE_CONFIRM_MISSING") /\ UNCHANGED windowVars
    BY <1>1, <1>4, <2>2, WindowFrame, EnterFaultStep DEF Faults
  <2>3. CASE ~Contradicted(g) /\ TickWindows
    <3>1. WindowTypes' /\ WindowsCounted' /\ (active_window_count' = 0 <=> active' = {})
      BY <1>4, <2>3, TickWindowsStep
    <3>2. g.closed /\ g.motion = "IDLE" /\ ~g.open
      BY <1>1, <2>3 DEF Contradicted, GateStates
    <3>3. CASE /\ active_window_count' = 0
               /\ Enter("OPENING") /\ gate' = CommandedOpen(later)
               /\ train_signal' = {} /\ UNCHANGED <<faultVars, flashers>>
      <4>1. state' = "OPENING" /\ state_elapsed' = 0
        BY <3>3 DEF Enter
      <4>2. gate' \in GateStates /\ GateObeysState'
        BY <1>1, <3>3, <4>1, CommandedGate DEF GateObeysState, Shut, Closing
      <4>3. TrainsByState'
        BY <3>1, <3>3, <4>1 DEF TrainsByState
      <4> QED
        BY <1>3, <2>1, <3>1, <3>3, <4>1, <4>2, <4>3, MovedStep DEF States
    <3>4. CASE active_window_count' # 0 /\ Wait(later, state_elapsed)
      <4>1. /\ state' = "TRAIN_PRESENT" /\ state_elapsed' = state_elapsed /\ gate' = later
            /\ UNCHANGED <<faultVars, lampVars>>
        BY <2>1, <3>4 DEF Wait
      <4>2. gate' \in GateStates /\ GateObeysState'
        BY <1>1, <3>2, <4>1 DEF GateObeysState, Shut, Closing
      <4>3. TrainsByState'
        BY <3>1, <3>4, <4>1 DEF TrainsByState
      <4> QED
        BY <1>3, <2>1, <3>1, <4>1, <4>2, <4>3, MovedStep DEF States, Shut
    <3> QED
      BY <1>9, <2>3, <3>3, <3>4 DEF TrainPresentTick
  <2> QED
    BY <1>9, <2>2, <2>3 DEF TrainPresentTick
<1>10. CASE OpeningTick(g, later, elapsed)
  <2>1. state = "OPENING" /\ WindowTypes' /\ WindowsCounted' /\ active' = {}
    BY <1>4, <1>10, WindowFrame DEF OpeningTick, TrainsByState
  <2>2. train_signal = {} /\ ~g.closed
    BY <1>1, <1>4, <2>1 DEF ProceedOnlyWhenShut, Shut, Closing
  <2>3. CASE /\ g.open /\ Enter("OPEN") /\ gate' = later /\ flashers' = FALSE
             /\ UNCHANGED <<faultVars, train_signal>>
    <3>1. state' = "OPEN" /\ state_elapsed' = 0
      BY <2>3 DEF Enter
    <3>2. gate' \in GateStates /\ GateObeysState'
      BY <1>1, <2>2, <2>3, <3>1 DEF GateObeysState, Shut, Closing, GateStates
    <3>3. TrainsByState'
      BY <2>1, <3>1 DEF TrainsByState
    <3>4. /\ flashers' \in BOOLEAN /\ train_signal' \subseteq Nat
          /\ ~(train_signal' # {}) /\ UNCHANGED faultVars
      BY <2>2, <2>3, Zenon
    <3>5. "OPEN" \in States \ {"FAULT"} /\ state # "FAULT" /\ state_elapsed' \in Nat
      BY <2>1, <3>1 DEF States
    <3> QED
      BY <2>1, <3>1, <3>2, <3>3, <3>4, <3>5, MovedStep
  <2>4. CASE EnterFault(later, "GATE_CONFIRM_MISSING")
    BY <1>1, <2>1, <2>4, EnterFaultStep DEF Faults
  <2>5. CASE ~g.open /\ Wait(later, elapsed)
    <3>1. /\ state' = "OPENING" /\ state_elapsed' = elapsed /\ gate' = later
          /\ UNCHANGED <<faultVars, lampVars>>
      BY <2>1, <2>5 DEF Wait
    <3>2. gate' \in GateStates /\ GateObeysState'
      BY <1>1, <1>2, <2>1, <2>2, <3>1 DEF GateObeysState, Shut, Closing, GateStates
    <3>3. TrainsByState'
      BY <2>1, <3>1 DEF TrainsByState
    <3> QED
      BY <1>3, <2>1, <2>2, <3>1, <3>2, <3>3, MovedStep DEF States
  <2> QED
    BY <1>10, <2>3, <2>4, <2>5 DEF OpeningTick
<1>11. CASE /\ state \in {"OPEN", "FAULT"}
            /\ gate' = later /\ UNCHANGED fsmVars
  <2>1. WindowTypes' /\ WindowsCounted' /\ TrainsByState' /\ ProceedOnlyWhenShut'
    BY <1>4, <1>11, WindowFrame DEF TrainsByState, ProceedOnlyWhenShut
  <2>2. gate' \in GateStates
    BY <1>1, <1>11
  <2>3. GateObeysState'
    BY <1>1, <1>2, <1>4, <1>11 DEF GateObeysState, Shut, Closing, GateStates
  <2>4. MachineTypes' /\ FaultsLatched'
    BY <1>11, <2>2 DEF MachineInv, MachineTypes, FaultsLatched
  <2> QED
    BY <2>1, <2>3, <2>4 DEF MachineInv
<1> QED
  BY <1>5, <1>6, <1>7, <1>8, <1>9, <1>10, <1>11

-----------------------------------------------------------------------------
(* The other operations.                                                     *)

\* A detected train keeps the invariant in every state: at a shut crossing it
\* proceeds only if the gate is still confirmed down.
LEMMA ApproachStep ==
  ASSUME MachineInv, NEW d \in Directions, NEW repaired \in BOOLEAN,
         SimulateTrainApproaching(d, repaired)
  PROVE  MachineInv'
<1> DEFINE later == Meanwhile(gate, repaired)
<1>1. /\ state \in States \ {"FAULT"} /\ gate \in GateStates /\ GateObeysState
      /\ state_elapsed \in Nat /\ flashers \in BOOLEAN /\ train_signal \subseteq Nat
      /\ ProceedOnlyWhenShut /\ d \in Nat
  BY InputAssumption DEF MachineInv, MachineTypes, SimulateTrainApproaching
<1>2. WindowTypes' /\ WindowsCounted' /\ active' # {}
  <2>1. InitialWindow \in 0 .. OCCUPANCY_WINDOW /\ RegisterWindow(d, InitialWindow)
    BY TimingAssumption DEF InitialWindow, SimulateTrainApproaching
  <2> QED
    BY <1>1, <2>1, RegisterWindowStep DEF MachineInv
<1>3. /\ later \in GateStates
      /\ \/ later = gate
         \/ later.open /\ ~later.closed /\ later.motion = "IDLE"
  BY <1>1, RepairedGate
<1> HIDE DEF later
<1>4. CASE state = "OPEN" /\ Enter("WARNING") /\ flashers' = TRUE
           /\ UNCHANGED <<gate, faultVars, train_signal>>
  <2>1. state' = "WARNING" /\ state_elapsed' = 0 /\ gate' = gate
    BY <1>4 DEF Enter
  <2>2. gate' \in GateStates /\ GateObeysState'
    BY <1>1, <1>4, <2>1 DEF GateObeysState, Shut, Closing
  <2>3. TrainsByState'
    BY <1>2, <2>1 DEF TrainsByState
  <2>4. train_signal' = {}
    BY <1>1, <1>4 DEF ProceedOnlyWhenShut, Shut
  <2>5. flashers' \in BOOLEAN /\ UNCHANGED faultVars
    BY <1>4, Zenon
  <2>6. "WARNING" \in States \ {"FAULT"} /\ state # "FAULT" /\ state_elapsed' \in Nat
    BY <1>4, <2>1 DEF States
  <2> QED
    BY <1>2, <2>1, <2>2, <2>3, <2>4, <2>5, <2>6, MovedStep
<1>5. CASE /\ state \in {"WARNING", "CLOSING", "RECLOSING"}
           /\ UNCHANGED <<state, state_elapsed, gate, faultVars, lampVars>>
  <2>1. TrainsByState'
    BY <1>2, <1>5 DEF TrainsByState
  <2>2. gate' \in GateStates /\ GateObeysState'
    BY <1>1, <1>5 DEF GateObeysState
  <2>3. train_signal' # {} => state \in Shut
    BY <1>1, <1>5 DEF ProceedOnlyWhenShut
  <2> QED
    BY <1>1, <1>2, <1>5, <2>1, <2>2, <2>3, MovedStep
<1>6. CASE state \in Shut /\ EnterFault(later, "GATE_CONFIRM_MISSING")
  BY <1>2, <1>3, <1>6, EnterFaultStep DEF Faults
<1>7. CASE /\ state \in Shut /\ ~Contradicted(gate) /\ gate' = later
           /\ train_signal' = IF later.closed THEN train_signal \cup {d}
                                              ELSE train_signal
           /\ UNCHANGED <<state, state_elapsed, faultVars, flashers>>
  <2>1. gate' \in GateStates /\ GateObeysState'
    BY <1>1, <1>3, <1>7 DEF Contradicted, GateObeysState, Shut, Closing, GateStates
  <2>2. TrainsByState'
    BY <1>2, <1>7 DEF TrainsByState, Shut
  <2>3. train_signal' \subseteq Nat
    BY <1>1, <1>7
  <2> QED
    BY <1>1, <1>2, <1>7, <2>1, <2>2, <2>3, MovedStep
<1>8. CASE /\ state = "OPENING" /\ Enter("RECLOSING") /\ gate' = CommandedClose(gate)
           /\ UNCHANGED <<faultVars, lampVars>>
  <2>1. state' = "RECLOSING" /\ state_elapsed' = 0
    BY <1>8 DEF Enter
  <2>2. gate' \in GateStates /\ GateObeysState'
    BY <1>1, <1>8, <2>1, CommandedGate DEF GateObeysState, Shut, Closing
  <2>3. TrainsByState'
    BY <1>2, <2>1 DEF TrainsByState
  <2>4. train_signal' = {}
    BY <1>1, <1>8 DEF ProceedOnlyWhenShut, Shut
  <2> QED
    BY <1>1, <1>2, <1>8, <2>1, <2>2, <2>3, <2>4, MovedStep DEF States
<1> QED
  BY <1>4, <1>5, <1>6, <1>7, <1>8
     DEF SimulateTrainApproaching, AnnouncedToShutGate, later

\* A verified clear forgets the trains; the gate is open and at rest.
LEMMA ClearStep ==
  ASSUME MachineInv, OnFaultClear
  PROVE  MachineInv'
<1>1. /\ state = "FAULT" /\ gate.open /\ gate \in GateStates /\ GateObeysState
      /\ ProceedOnlyWhenShut
  BY DEF MachineInv, MachineTypes, OnFaultClear, ClearVerified
<1>2. /\ state' = "OPEN" /\ state_elapsed' = 0 /\ faults' = {}
      /\ active' = {} /\ active_window_count' = 0
      /\ UNCHANGED <<direction, remaining, gate, fault_report_pending, lampVars>>
  BY DEF OnFaultClear, Enter, ForgetTrains
<1>3. WindowTypes' /\ WindowsCounted' /\ TrainsByState'
  BY <1>2, FS_EmptySet DEF MachineInv, WindowTypes, WindowsCounted, TrainsByState
<1>4. GateObeysState'
  BY <1>1, <1>2 DEF GateObeysState, Shut, Closing, GateStates
<1>5. train_signal' = {}
  BY <1>1, <1>2 DEF ProceedOnlyWhenShut, Shut
<1>6. MachineTypes'
  BY <1>2 DEF MachineInv, MachineTypes, States
<1>7. ProceedOnlyWhenShut' /\ FaultsLatched'
  BY <1>2, <1>5 DEF ProceedOnlyWhenShut, FaultsLatched
<1> QED
  BY <1>3, <1>4, <1>6, <1>7 DEF MachineInv

LEMMA WatchdogStep ==
  ASSUME MachineInv, ReportWatchdogTrip
  PROVE  MachineInv'
<1>1. gate \in GateStates /\ WindowTypes' /\ WindowsCounted'
  BY WindowFrame DEF MachineInv, MachineTypes, ReportWatchdogTrip
<1>2. EnterFault(gate, "WATCHDOG_TRIP") /\ "WATCHDOG_TRIP" \in Faults
  BY DEF ReportWatchdogTrip, Faults
<1> QED
  BY <1>1, <1>2, EnterFaultStep

\* The demonstration keys touch the gate alone.
LEMMA KeyStep ==
  ASSUME MachineInv, ArmDemoFault \/ ForceConfirmedOpen
  PROVE  MachineInv'
<1>1. gate \in GateStates /\ GateObeysState /\ UNCHANGED fsmVars
  BY DEF MachineInv, MachineTypes, ArmDemoFault, ForceConfirmedOpen
<1>2. gate' \in GateStates /\ GateObeysState'
  <2>1. CASE ArmDemoFault
    BY <1>1, <2>1 DEF ArmDemoFault, GateObeysState, GateStates, Shut, Closing
  <2>2. CASE ForceConfirmedOpen
    BY <1>1, <2>2, TimingAssumption
       DEF ForceConfirmedOpen, Repaired, GateObeysState, GateStates, Shut, Closing
  <2> QED
    BY <2>1, <2>2
<1>3. MachineTypes'
  BY <1>1, <1>2 DEF MachineInv, MachineTypes
<1> QED
  BY <1>1, <1>2, <1>3 DEF MachineInv, WindowTypes, WindowsCounted, TrainsByState,
                          ProceedOnlyWhenShut, FaultsLatched

LEMMA InitMachine == Init => MachineInv /\ ServerTypes
<1> SUFFICES ASSUME Init PROVE MachineInv /\ ServerTypes
  OBVIOUS
<1>1. WindowTypes /\ WindowsCounted /\ TrainsByState
  BY TimingAssumption, FS_EmptySet
     DEF Init, WindowTypes, WindowsCounted, TrainsByState, Slots
<1>2. gate \in GateStates /\ GateObeysState
  BY TimingAssumption DEF Init, GateStates, GateObeysState, Shut, Closing
<1>3. MachineTypes
  BY <1>2 DEF Init, MachineTypes, States
<1>4. ProceedOnlyWhenShut /\ FaultsLatched
  BY DEF Init, ProceedOnlyWhenShut, FaultsLatched
<1>5. ServerTypes
  BY TimingAssumption DEF Init, ServerTypes, Steps
<1> QED
  BY <1>1, <1>2, <1>3, <1>4, <1>5 DEF MachineInv

\* Taking the fault report touches nothing the invariant speaks of but the flag
\* itself.
LEMMA ServerStep ==
  ASSUME MachineInv, TakeFaultReportPending \/ SendFaultReport \/ BroadcastCrossingStatus
  PROVE  MachineInv'
<1>1. /\ UNCHANGED <<state, state_elapsed, windowVars, faults, lampVars, gate>>
      /\ fault_report_pending' \in {FALSE, fault_report_pending}
  BY DEF TakeFaultReportPending, SendFaultReport, BroadcastCrossingStatus
<1>2. MachineTypes'
  <2>1. fault_report_pending' \in BOOLEAN
    BY <1>1 DEF MachineInv, MachineTypes
  <2> QED
    BY <1>1, <2>1 DEF MachineInv, MachineTypes
<1> QED
  BY <1>1, <1>2 DEF MachineInv, WindowTypes, WindowsCounted, TrainsByState,
                    GateObeysState, ProceedOnlyWhenShut, FaultsLatched

LEMMA MachineStep == MachineInv /\ [Next]_vars => MachineInv'
<1> SUFFICES ASSUME MachineInv, [Next]_vars PROVE MachineInv'
  OBVIOUS
<1>1. CASE \E repaired \in Repairs : OnTick(repaired)
  BY <1>1, TickStep DEF OnTick, Repairs
<1>2. CASE TakeFaultReportPending \/ SendFaultReport \/ BroadcastCrossingStatus
  BY <1>2, ServerStep
<1>3. CASE TrainApproaching
  BY <1>3, ApproachStep DEF TrainApproaching, Repairs
<1>4. CASE ArmDemoFault \/ ForceConfirmedOpen
  BY <1>4, KeyStep
<1>5. CASE OnFaultClear
  BY <1>5, ClearStep
<1>6. CASE ReportWatchdogTrip
  BY <1>6, WatchdogStep
<1>7. CASE \E acked \in HeartbeatResults : OnHeartbeatResult(acked)
  <2>1. UNCHANGED <<fsmVars, gate>>
    BY <1>7 DEF OnHeartbeatResult
  <2> QED
    BY <2>1 DEF MachineInv, MachineTypes, WindowTypes, WindowsCounted, TrainsByState,
                GateObeysState, ProceedOnlyWhenShut, FaultsLatched
<1>8. CASE UNCHANGED vars
  BY <1>8 DEF vars, MachineInv, MachineTypes, WindowTypes, WindowsCounted,
              TrainsByState, GateObeysState, ProceedOnlyWhenShut, FaultsLatched
<1> QED
  BY <1>1, <1>2, <1>3, <1>4, <1>5, <1>6, <1>7, <1>8
     DEF Next, PulseStep, OtherThreads

LEMMA ServerTypesStep == MachineInv /\ ServerTypes /\ [Next]_vars => ServerTypes'
<1> SUFFICES ASSUME MachineInv, ServerTypes, [Next]_vars PROVE ServerTypes'
  OBVIOUS
<1>1. CASE PulseStep
  BY <1>1 DEF PulseStep, OnTick, TakeFaultReportPending, SendFaultReport,
              BroadcastCrossingStatus, CrossingState, CrossingStates, Steps, ServerTypes
<1>2. CASE \E acked \in HeartbeatResults : OnHeartbeatResult(acked)
  <2>1. OneMoreMiss \in 0 .. MISSED_MAX
    BY TimingAssumption DEF ServerTypes, OneMoreMiss
  <2> QED
    BY <1>2, <2>1, TimingAssumption DEF OnHeartbeatResult, ServerTypes
<1>3. CASE UNCHANGED <<step, last_broadcast, linkVars>>
  BY <1>3 DEF ServerTypes
<1> QED
  BY <1>1, <1>2, <1>3
     DEF Next, vars, OtherThreads, TrainApproaching, SimulateTrainApproaching,
         ArmDemoFault, ForceConfirmedOpen, OnFaultClear, ReportWatchdogTrip

\* Every reachable state satisfies the inductive invariant.
LEMMA MachineInvariant == Spec => [](MachineInv /\ ServerTypes)
<1>1. MachineInv /\ ServerTypes /\ [Next]_vars => (MachineInv /\ ServerTypes)'
  BY MachineStep, ServerTypesStep
<1> QED
  BY InitMachine, <1>1, PTL DEF Spec

-----------------------------------------------------------------------------
(* The theorems.                                                             *)

\* The variables of the controller keep their types; in particular the uint8_t
\* count of windows and the saturating count of misses stay in their ranges.
THEOREM TypeCorrect == Spec => []TypeOK
<1>1. MachineInv /\ ServerTypes => TypeOK
  BY DEF MachineInv, MachineTypes, WindowTypes, ServerTypes, TypeOK
<1> QED
  BY MachineInvariant, <1>1, PTL

\* The windows, their count and the state of the crossing always agree.
THEOREM WindowsAlwaysConsistent == Spec => []WindowsConsistent
<1>1. MachineInv => WindowsConsistent
  BY DEF MachineInv, WindowsCounted, TrainsByState, WindowsConsistent
<1> QED
  BY MachineInvariant, <1>1, PTL

\* The gate is where the state machine takes it to be, and PROCEED is shown only
\* while it is taken to be down.
THEOREM GateAlwaysObeys == Spec => [](GateObeysState /\ ProceedOnlyWhenShut)
<1>1. MachineInv => GateObeysState /\ ProceedOnlyWhenShut
  BY DEF MachineInv
<1> QED
  BY MachineInvariant, <1>1, PTL

\* A fault is on record exactly in FAULT.
THEOREM FaultsAlwaysLatched == Spec => []FaultsLatched
<1>1. MachineInv => FaultsLatched
  BY DEF MachineInv
<1> QED
  BY MachineInvariant, <1>1, PTL

\* A pulse that finds the gate open beside a PROCEED withdraws it.
THEOREM ProceedAlwaysWithdrawn == Spec => ProceedWithdrawn
<1> DEFINE A == step = "IDLE" /\ step' = "TICKED" /\ train_signal # {} /\ ~gate.closed
                  => state' = "FAULT" /\ train_signal' = {}
<1>1. MachineInv /\ [Next]_vars => [A]_vars
  <2> SUFFICES ASSUME MachineInv, Next, step = "IDLE", step' = "TICKED",
                      train_signal # {}, ~gate.closed
               PROVE  state' = "FAULT" /\ train_signal' = {}
    BY Zenon
  <2>1. PICK repaired \in Repairs : Tick(repaired)
    BY DEF Next, PulseStep, OnTick, TakeFaultReportPending, SendFaultReport,
           BroadcastCrossingStatus, TrainApproaching, SimulateTrainApproaching,
           OtherThreads, ArmDemoFault, ForceConfirmedOpen, OnFaultClear,
           ReportWatchdogTrip, OnHeartbeatResult
  <2>2. state \in Shut /\ GateTick(gate) = gate
    <3>1. state \in Shut
      BY DEF MachineInv, ProceedOnlyWhenShut
    <3> QED
      BY <2>1, <3>1, TickedFromInv DEF Repairs
  <2> DEFINE later == Meanwhile(gate, repaired)
  <2> HIDE DEF later
  <2>3. \/ ClosedTick(gate, later, state_elapsed + TICK)
        \/ TrainPresentTick(gate, later)
    BY <2>1, <2>2 DEF Tick, WarningTick, ClosingTick, OpeningTick, Shut, Closing, later
  <2>4. EnterFault(later, "GATE_CONFIRM_MISSING")
    BY <2>3 DEF ClosedTick, TrainPresentTick, Contradicted
  <2> QED
    BY <2>4 DEF EnterFault, Enter
<1> QED
  BY MachineInvariant, <1>1, PTL DEF ProceedWithdrawn, Spec

\* FAULT is left only by a clear that found the gate open.
THEOREM FaultOnlyLeftRepaired == Spec => FaultLeftOnlyRepaired
<1> DEFINE A == state = "FAULT" /\ state' # "FAULT" => state' = "OPEN" /\ gate'.open
<1>1. MachineInv /\ [Next]_vars => [A]_vars
  <2> SUFFICES ASSUME Next, state = "FAULT", state' # "FAULT"
               PROVE  state' = "OPEN" /\ gate'.open
    BY Zenon
  <2>1. OnFaultClear
    BY DEF Next, PulseStep, OnTick, Tick, WarningTick, ClosingTick, ClosedTick,
           TrainPresentTick, OpeningTick, Closing, TakeFaultReportPending,
           SendFaultReport, BroadcastCrossingStatus, TrainApproaching,
           SimulateTrainApproaching, OtherThreads, ArmDemoFault, ForceConfirmedOpen,
           ReportWatchdogTrip, OnHeartbeatResult
  <2> QED
    BY <2>1 DEF OnFaultClear, ClearVerified, Enter
<1> QED
  BY MachineInvariant, <1>1, PTL DEF FaultLeftOnlyRepaired, Spec

-----------------------------------------------------------------------------
(* The neighbours are told before the gate goes down.                        *)

Told == last_broadcast \notin {"NONE", "OPEN"}

\* The first pulse of a warning does not end it, and it ends in a broadcast.
BroadcastInv ==
  /\ NeighboursWarned
  /\ state = "WARNING" => \/ state_elapsed = 0
                          \/ step # "IDLE" /\ state_elapsed = TICK
                          \/ Told

\* Where a pulse takes the state machine.
LEMMA TickMoves ==
  ASSUME state \in States, state_elapsed \in Nat, NEW repaired \in BOOLEAN, Tick(repaired)
  PROVE  /\ state = "WARNING" =>
              \/ state' = "WARNING" /\ state_elapsed' = state_elapsed + TICK
              \/ state' = "CLOSING" /\ state_elapsed + TICK >= WARNING_TO_CLOSING
         /\ state # "WARNING" =>
              /\ state' # "WARNING"
              /\ state' \in {"OPEN", "FAULT"} \/ state \notin {"OPEN", "WARNING", "FAULT"}
<1> DEFINE g == GateTick(gate)
           later == Meanwhile(g, repaired)
           elapsed == state_elapsed + TICK
<1>1. \/ WarningTick(later, elapsed) \/ ClosingTick(g, later, elapsed)
      \/ ClosedTick(g, later, elapsed) \/ TrainPresentTick(g, later)
      \/ OpeningTick(g, later, elapsed)
      \/ state \in {"OPEN", "FAULT"} /\ UNCHANGED fsmVars
  BY DEF Tick
<1>2. CASE WarningTick(later, elapsed)
  BY <1>2 DEF WarningTick, WarningOver, Enter, Wait
<1>3. CASE ClosingTick(g, later, elapsed)
  BY <1>3 DEF ClosingTick, Closing, EnterFault, Enter, Wait
<1>4. CASE ClosedTick(g, later, elapsed) \/ TrainPresentTick(g, later)
  BY <1>4 DEF ClosedTick, TrainPresentTick, EnterFault, Enter, Wait
<1>5. CASE OpeningTick(g, later, elapsed)
  BY <1>5 DEF OpeningTick, EnterFault, Enter, Wait
<1>6. CASE state \in {"OPEN", "FAULT"} /\ UNCHANGED fsmVars
  BY <1>6
<1> QED
  BY <1>1, <1>2, <1>3, <1>4, <1>5, <1>6

LEMMA BroadcastStep == MachineInv /\ BroadcastInv /\ [Next]_vars => BroadcastInv'
<1> SUFFICES ASSUME MachineInv, BroadcastInv, [Next]_vars PROVE BroadcastInv'
  OBVIOUS
<1> USE DEF BroadcastInv, NeighboursWarned, Told
<1>1. state \in States /\ state_elapsed \in Nat
  BY DEF MachineInv, MachineTypes
<1>2. CASE \E repaired \in Repairs : OnTick(repaired)
  <2>1. PICK repaired \in Repairs : OnTick(repaired)
    BY <1>2
  <2>2. /\ step = "IDLE" /\ step' = "TICKED" /\ UNCHANGED last_broadcast
        /\ repaired \in BOOLEAN /\ Tick(repaired)
    BY <2>1 DEF OnTick, Repairs
  <2>3. CASE state = "WARNING"
    <3>1. state_elapsed = 0 \/ Told
      BY <2>2, <2>3
    <3>2. \/ state' = "WARNING" /\ state_elapsed' = state_elapsed + TICK
          \/ state' = "CLOSING" /\ state_elapsed + TICK >= WARNING_TO_CLOSING
      BY <1>1, <2>2, <2>3, TickMoves
    <3> QED
      BY <2>2, <3>1, <3>2, TimingAssumption, WarningAssumption
  <2>4. CASE state # "WARNING"
    <3>1. /\ state' # "WARNING"
          /\ state' \in {"OPEN", "FAULT"} \/ state \notin {"OPEN", "WARNING", "FAULT"}
      BY <1>1, <2>2, <2>4, TickMoves
    <3> QED
      BY <2>2, <3>1
  <2> QED
    BY <2>3, <2>4
<1>3. CASE TakeFaultReportPending \/ SendFaultReport
  BY <1>3 DEF TakeFaultReportPending, SendFaultReport
<1>4. CASE BroadcastCrossingStatus
  BY <1>1, <1>4 DEF BroadcastCrossingStatus, CrossingState, States
<1>5. CASE TrainApproaching
  <2>1. /\ UNCHANGED <<step, last_broadcast>>
        /\ \/ UNCHANGED <<state, state_elapsed>>
           \/ state' = "WARNING" /\ state_elapsed' = 0
           \/ state' = "FAULT"
           \/ state = "OPENING" /\ state' = "RECLOSING"
    BY <1>5 DEF TrainApproaching, SimulateTrainApproaching, AnnouncedToShutGate,
                EnterFault, Enter
  <2> QED
    BY <2>1
<1>6. CASE OtherThreads
  <2>1. /\ UNCHANGED <<step, last_broadcast>>
        /\ UNCHANGED <<state, state_elapsed>> \/ state' \in {"OPEN", "FAULT"}
    BY <1>6 DEF OtherThreads, ArmDemoFault, ForceConfirmedOpen, OnFaultClear,
                ReportWatchdogTrip, OnHeartbeatResult, EnterFault, Enter
  <2> QED
    BY <2>1
<1>7. CASE UNCHANGED vars
  BY <1>7 DEF vars
<1> QED
  BY <1>2, <1>3, <1>4, <1>5, <1>6, <1>7 DEF Next, PulseStep

\* By the time the gate is commanded down for a train, the neighbours have been
\* sent something other than "open".
THEOREM NeighboursAlwaysWarned == Spec => []NeighboursWarned
<1>1. Init => BroadcastInv
  BY DEF Init, BroadcastInv, NeighboursWarned
<1>2. BroadcastInv => NeighboursWarned
  BY DEF BroadcastInv
<1> QED
  BY MachineInvariant, BroadcastStep, <1>1, <1>2, PTL DEF Spec
=============================================================================
