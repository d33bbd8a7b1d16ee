------------------------- MODULE RailwayHistoryProofs -------------------------
(***************************************************************************)
(* Proofs about a railway crossing observed over time: how long a closure  *)
(* takes, and how long a train on record keeps the gate down.              *)
(***************************************************************************)
EXTENDS RailwayHistory, RailwayProofs

USE DEF windowVars, faultVars, lampVars, linkVars, fsmVars

-----------------------------------------------------------------------------
(* A recorded behaviour is one of the crossing.                             *)

LEMMA WatchStep == [HNext]_hvars => [Next]_vars
<1> SUFFICES ASSUME HNext PROVE Next
  BY DEF hvars
<1> QED
  BY DEF HNext, Next, PulseStep, TrainApproaching

\* Every recorded behaviour is one of the crossing, so that its invariants carry
\* over; with TRAINS_MAX trains at most, not every one of the crossing is recorded.
LEMMA RailwayHistoryOnlyWatches == HSpec => Spec
<1>1. HInit => Init
  BY DEF HInit
<1> QED
  BY <1>1, WatchStep, PTL DEF HSpec, Spec

LEMMA MachineAlways == HSpec => [](MachineInv /\ ServerTypes)
BY RailwayHistoryOnlyWatches, MachineInvariant, PTL

-----------------------------------------------------------------------------
(* Where the entry points take the state machine, and what they do to the   *)
(* windows of the trains.                                                   *)

LEMMA TickCases ==
  ASSUME MachineInv, NEW repaired \in BOOLEAN, Tick(repaired)
  PROVE  \/ state' = "FAULT"
         \/ /\ UNCHANGED windowVars
            /\ \/ /\ state = "WARNING" /\ state' = "WARNING"
                  /\ state_elapsed' = state_elapsed + TICK
                  /\ state_elapsed + TICK < WARNING_TO_CLOSING
               \/ /\ state = "WARNING" /\ state' = "CLOSING" /\ state_elapsed' = 0
               \/ /\ state \in Closing /\ state' = state
                  /\ state_elapsed' = state_elapsed + TICK
                  /\ state_elapsed + TICK < CLOSING_DEADLINE
               \/ state \in Closing \cup {"CLOSED"} /\ state' = "CLOSED"
               \/ state \in {"OPEN", "OPENING"} /\ state' \in {"OPEN", state}
         \/ state = "CLOSED" /\ state' = "TRAIN_PRESENT" /\ StartWindows
         \/ /\ state = "TRAIN_PRESENT" /\ TickWindows
            /\ \/ state' = "TRAIN_PRESENT"
               \/ state' = "OPENING" /\ active_window_count' = 0
<1> DEFINE g == GateTick(gate)
           later == Meanwhile(g, repaired)
           elapsed == state_elapsed + TICK
<1>0. /\ state \in States /\ state_elapsed \in Nat /\ TICK \in Nat
      /\ WARNING_TO_CLOSING \in Nat /\ CLOSING_DEADLINE \in Nat
  BY TimingAssumption DEF MachineInv, MachineTypes
<1>1. \/ WarningTick(later, elapsed) \/ ClosingTick(g, later, elapsed)
      \/ ClosedTick(g, later, elapsed) \/ TrainPresentTick(g, later)
      \/ OpeningTick(g, later, elapsed)
      \/ state \in {"OPEN", "FAULT"} /\ UNCHANGED fsmVars
  BY DEF Tick
<1> HIDE DEF g, later
<1>2. CASE WarningTick(later, elapsed)
  BY <1>0, <1>2 DEF WarningTick, WarningOver, Enter, Wait
<1>3. CASE ClosingTick(g, later, elapsed)
  BY <1>0, <1>3 DEF ClosingTick, ClosingOverdue, Closing, EnterFault, Enter, Wait
<1>4. CASE ClosedTick(g, later, elapsed)
  BY <1>4 DEF ClosedTick, EnterFault, Enter, Wait
<1>5. CASE TrainPresentTick(g, later)
  BY <1>5 DEF TrainPresentTick, EnterFault, Enter, Wait
<1>6. CASE OpeningTick(g, later, elapsed)
  BY <1>6 DEF OpeningTick, EnterFault, Enter, Wait
<1>7. CASE state \in {"OPEN", "FAULT"} /\ UNCHANGED fsmVars
  BY <1>7
<1> QED
  BY <1>1, <1>2, <1>3, <1>4, <1>5, <1>6, <1>7

LEMMA ApproachCases ==
  ASSUME NEW d \in Directions, NEW repaired \in BOOLEAN,
         SimulateTrainApproaching(d, repaired)
  PROVE  /\ state # "FAULT" /\ RegisterWindow(d, InitialWindow)
         /\ \/ state = "OPEN" /\ state' = "WARNING" /\ state_elapsed' = 0
            \/ /\ state \in {"WARNING", "CLOSED", "TRAIN_PRESENT"} \cup Closing
               /\ UNCHANGED <<state, state_elapsed>>
            \/ state = "OPENING" /\ state' = "RECLOSING" /\ state_elapsed' = 0
            \/ state \in Shut /\ state' = "FAULT"
BY DEF SimulateTrainApproaching, AnnouncedToShutGate, EnterFault, Enter, Shut, Closing

LEMMA OtherCases ==
  ASSUME OtherThreads
  PROVE  \/ UNCHANGED <<state, state_elapsed, windowVars>>
         \/ state = "FAULT" /\ state' = "OPEN" /\ active' = {}
         \/ state' = "FAULT" /\ UNCHANGED windowVars
BY DEF OtherThreads, ArmDemoFault, ForceConfirmedOpen, OnFaultClear, ForgetTrains, Enter,
       ReportWatchdogTrip, EnterFault, OnHeartbeatResult

LEMMA ServerCases ==
  TakeFaultReportPending \/ SendFaultReport \/ BroadcastCrossingStatus
    => UNCHANGED <<state, state_elapsed, windowVars>>
BY DEF TakeFaultReportPending, SendFaultReport, BroadcastCrossingStatus

-----------------------------------------------------------------------------
(* A closure takes bounded time.                                            *)

LEMMA Multiples ==
  ASSUME NEW b \in Nat, b > 0, NEW a \in Nat
  PROVE  a = (b * (a \div b)) + (a % b) /\ a \div b \in Nat
OBVIOUS

LEMMA MultipleRemainder ==
  ASSUME NEW b \in Nat, NEW k \in Nat, b > 0
  PROVE  (b * k) % b = 0
OBVIOUS

LEMMA ApartByOne ==
  ASSUME NEW b \in Nat, NEW i \in Nat, NEW j \in Nat, b > 0, b * i < b * j
  PROVE  (b * i) + b <= b * j
OBVIOUS

\* A warning that is not over has a whole pulse left at least.
LEMMA PulseLeft ==
  ASSUME NEW t \in Nat, t % TICK = 0, t < WARNING_TO_CLOSING
  PROVE  t + TICK <= WARNING_TO_CLOSING /\ (t + TICK) % TICK = 0
<1>1. /\ TICK \in Nat /\ TICK > 0 /\ WARNING_TO_CLOSING \in Nat
      /\ WARNING_TO_CLOSING % TICK = 0
  BY TimingAssumption, PulsesAssumption
<1>2. PICK i \in Nat, j \in Nat : t = TICK * i /\ WARNING_TO_CLOSING = TICK * j
  <2>1. t = TICK * (t \div TICK) /\ t \div TICK \in Nat
    BY <1>1, Multiples
  <2>2. /\ WARNING_TO_CLOSING = TICK * (WARNING_TO_CLOSING \div TICK)
        /\ WARNING_TO_CLOSING \div TICK \in Nat
    BY <1>1, Multiples
  <2> QED
    BY <2>1, <2>2
<1>3. t + TICK <= WARNING_TO_CLOSING
  BY <1>1, <1>2, ApartByOne
<1>4. (t + TICK) % TICK = 0
  <2>1. i + 1 \in Nat /\ t + TICK = TICK * (i + 1)
    BY <1>1, <1>2
  <2> QED
    BY <1>1, <2>1, MultipleRemainder
<1> QED
  BY <1>3, <1>4

ClosureInv ==
  /\ closing_for \in Nat
  /\ state \notin {"WARNING"} \cup Closing => closing_for = 0
  /\ state = "WARNING" => /\ closing_for <= state_elapsed /\ state_elapsed % TICK = 0
                          /\ state_elapsed < WARNING_TO_CLOSING
  /\ state = "CLOSING" => /\ closing_for <= WARNING_TO_CLOSING + state_elapsed
                          /\ state_elapsed < CLOSING_DEADLINE
  /\ state = "RECLOSING" => /\ closing_for <= state_elapsed
                            /\ state_elapsed < CLOSING_DEADLINE

LEMMA LaterNoLater ==
  ASSUME NEW t \in Nat
  PROVE  Later(t) \in Nat /\ Later(t) <= t + TICK
BY TimingAssumption, RecordingAssumption DEF Later

LEMMA ClosureStep == MachineInv /\ ClosureInv /\ [HNext]_hvars => ClosureInv'
<1> SUFFICES ASSUME MachineInv, ClosureInv, [HNext]_hvars PROVE ClosureInv'
  OBVIOUS
<1>1. /\ state \in States /\ state_elapsed \in Nat /\ closing_for \in Nat
      /\ TICK \in Nat /\ TICK > 0 /\ WARNING_TO_CLOSING \in Nat /\ CLOSING_DEADLINE \in Nat
      /\ CLOSING_DEADLINE > 0 /\ WARNING_TO_CLOSING > 0
  BY TimingAssumption, WarningAssumption, PulsesAssumption
     DEF MachineInv, MachineTypes, ClosureInv
<1>2. Later(closing_for) \in Nat /\ Later(closing_for) <= closing_for + TICK
  BY <1>1, LaterNoLater
<1>3. 0 % TICK = 0
  BY <1>1
<1>4. CASE UNCHANGED <<state, state_elapsed, closing_for>>
  BY <1>4 DEF ClosureInv
<1>5. ASSUME NEW repaired \in Repairs, OnTick(repaired), RecordTick
      PROVE  ClosureInv'
  <2>1. Tick(repaired) /\ repaired \in BOOLEAN
    BY <1>5 DEF OnTick, Repairs
  <2>2. closing_for' = IF state' \in {"WARNING"} \cup Closing THEN Later(closing_for) ELSE 0
    BY <1>5 DEF RecordTick
  <2>3. CASE state' \notin {"WARNING"} \cup Closing
    BY <2>2, <2>3 DEF ClosureInv, Closing
  <2>4. CASE /\ state = "WARNING" /\ state' = "WARNING"
             /\ state_elapsed' = state_elapsed + TICK
             /\ state_elapsed + TICK < WARNING_TO_CLOSING
    <3>1. /\ state_elapsed % TICK = 0 /\ state_elapsed < WARNING_TO_CLOSING
          /\ closing_for <= state_elapsed
      BY <2>4 DEF ClosureInv
    <3>2. state_elapsed' % TICK = 0
      BY <1>1, <2>4, <3>1, PulseLeft
    <3>3. closing_for' \in Nat /\ closing_for' <= state_elapsed'
      BY <1>1, <1>2, <2>2, <2>4, <3>1
    <3> QED
      BY <2>4, <3>2, <3>3 DEF ClosureInv, Closing
  <2>5. CASE state = "WARNING" /\ state' = "CLOSING" /\ state_elapsed' = 0
    <3>1. /\ state_elapsed % TICK = 0 /\ state_elapsed < WARNING_TO_CLOSING
          /\ closing_for <= state_elapsed
      BY <2>5 DEF ClosureInv
    <3>2. state_elapsed + TICK <= WARNING_TO_CLOSING
      BY <1>1, <3>1, PulseLeft
    <3>3. closing_for' \in Nat /\ closing_for' <= WARNING_TO_CLOSING
      BY <1>1, <1>2, <2>2, <2>5, <3>1, <3>2 DEF Closing
    <3> QED
      BY <1>1, <2>5, <3>3 DEF ClosureInv, Closing
  <2>6. CASE /\ state \in Closing /\ state' = state
             /\ state_elapsed' = state_elapsed + TICK
             /\ state_elapsed + TICK < CLOSING_DEADLINE
    <3>1. closing_for' = Later(closing_for)
      BY <2>2, <2>6
    <3> QED
      BY <1>1, <1>2, <2>6, <3>1 DEF ClosureInv, Closing
  <2> QED
    BY <2>1, <2>3, <2>4, <2>5, <2>6, TickCases DEF Closing
<1>6. ASSUME NEW d \in Directions, NEW repaired \in Repairs,
             SimulateTrainApproaching(d, repaired), UNCHANGED closing_for
      PROVE  ClosureInv'
  <2>1. \/ state = "OPEN" /\ state' = "WARNING" /\ state_elapsed' = 0
        \/ UNCHANGED <<state, state_elapsed>>
        \/ state = "OPENING" /\ state' = "RECLOSING" /\ state_elapsed' = 0
        \/ state \in Shut /\ state' = "FAULT"
    BY <1>6, ApproachCases DEF Repairs
  <2> QED
    BY <1>1, <1>3, <1>6, <2>1 DEF ClosureInv, Closing, Shut
<1>7. CASE OtherThreads /\ RecordOther
  <2>1. closing_for' = IF state' \in {"WARNING"} \cup Closing THEN closing_for ELSE 0
    BY <1>7 DEF RecordOther
  <2>2. UNCHANGED <<state, state_elapsed>> \/ state' \in {"OPEN", "FAULT"}
    BY <1>7, OtherCases
  <2> QED
    BY <2>1, <2>2 DEF ClosureInv, Closing
<1>8. CASE \/ TakeFaultReportPending /\ UNCHANGED history
           \/ SendFaultReport /\ UNCHANGED history
           \/ BroadcastCrossingStatus /\ UNCHANGED history
  BY <1>4, <1>8, ServerCases DEF history
<1>9. CASE UNCHANGED hvars
  BY <1>4, <1>9 DEF hvars, vars, history
<1> QED
  BY <1>5, <1>6, <1>7, <1>8, <1>9 DEF HNext, RecordTrain

\* A crossing that starts to close is confirmed closed or in FAULT in bounded time,
\* however many approaches are announced meanwhile.
THEOREM ClosureAlwaysBounded == HSpec => []ClosureBounded
<1>1. HInit => ClosureInv
  BY DEF HInit, Init, ClosureInv, Closing
<1>2. MachineInv /\ ClosureInv => ClosureBounded
  <2> SUFFICES ASSUME MachineInv, ClosureInv PROVE ClosureBounded
    OBVIOUS
  <2>1. /\ WARNING_TO_CLOSING \in Nat /\ WARNING_TO_CLOSING > 0
        /\ CLOSING_DEADLINE \in Nat /\ CLOSING_DEADLINE > 0 /\ state_elapsed \in Nat
    BY TimingAssumption, WarningAssumption, PulsesAssumption DEF MachineInv, MachineTypes
  <2> QED
    BY <2>1 DEF ClosureInv, ClosureBounded, Closing
<1> QED
  BY MachineAlways, ClosureStep, <1>1, <1>2, PTL DEF HSpec

-----------------------------------------------------------------------------
(* The gate stays down for the window of every train on record.             *)

\* A train that is announced has a window of its own from then on, and the other
\* windows stay as they are.
LEMMA RegisteredTrain ==
  ASSUME WindowTypes, WindowsCounted, \A i \in active : direction[i] \in Directions,
         NEW d \in Directions, NEW t \in 0 .. OCCUPANCY_WINDOW, RegisterWindow(d, t)
  PROVE  /\ active \subseteq active'
         /\ \A i \in active : /\ direction'[i] = direction[i]
                              /\ direction[i] # d => remaining'[i] = remaining[i]
         /\ \E i \in active' : direction'[i] = d /\ remaining'[i] = t
         /\ \A i \in active' : direction'[i] = d \/ i \in active
         /\ \A i \in active' : remaining'[i] = t \/ remaining'[i] = remaining[i]
<1>1. active \subseteq Slots /\ direction \in [Slots -> Nat] /\ DOMAIN remaining = Slots
  BY DEF WindowTypes
<1>2. CASE SlotsOf(d) # {}
  <2>1. Least(SlotsOf(d)) \in active /\ direction[Least(SlotsOf(d))] = d
    BY <1>1, <1>2, LeastSlot DEF SlotsOf
  <2>2. /\ remaining' = [remaining EXCEPT ![Least(SlotsOf(d))] = t]
        /\ UNCHANGED <<active, direction>>
    BY <1>2 DEF RegisterWindow
  <2> QED
    BY <1>1, <2>1, <2>2
<1>3. CASE SlotsOf(d) = {} /\ active # Slots
  <2>1. Least(Slots \ active) \in Slots \ active
    BY <1>1, <1>3, LeastSlot
  <2>2. /\ active' = active \cup {Least(Slots \ active)}
        /\ direction' = [direction EXCEPT ![Least(Slots \ active)] = d]
        /\ remaining' = [remaining EXCEPT ![Least(Slots \ active)] = t]
    BY <1>3 DEF RegisterWindow
  <2> QED
    BY <1>1, <2>1, <2>2
<1>4. CASE SlotsOf(d) = {} /\ active = Slots
  <2>0. 0 \in active /\ 1 \in active
    BY <1>4 DEF Slots
  <2>1. /\ direction[0] \in {0, 1} /\ direction[1] \in {0, 1} /\ d \in {0, 1}
        /\ direction[0] # direction[1]
    <3>1. direction[0] # direction[1]
      <4>1. direction[0] = direction[1] => 0 = 1
        BY <2>0 DEF WindowsCounted
      <4> QED
        BY <4>1
    <3>2. direction[0] \in Directions /\ direction[1] \in Directions
      BY <2>0
    <3>3. Directions \subseteq {0, 1}
      BY DirectionsAssumption
    <3> QED
      BY <3>1, <3>2, <3>3
  <2>2. direction[0] # d /\ direction[1] # d
    BY <1>4 DEF SlotsOf, Slots
  <2> QED
    BY <2>1, <2>2
<1> QED
  BY <1>2, <1>3, <1>4

\* Until the train is presumed present its window has not started; from then on
\* what is left of it and its age make up a whole window.
ServedInv ==
  /\ age \in [Directions -> 0 .. NoTrain]
  /\ \A i \in active : direction[i] \in Directions
  /\ state \in {"OPEN", "OPENING"} => \A d \in Directions : age[d] = NoTrain
  /\ state \in {"WARNING", "CLOSED"} \cup Closing =>
       /\ \A i \in active : remaining[i] = 0
       /\ \A d \in Directions : age[d] # NoTrain => \E i \in active : direction[i] = d
  /\ state = "TRAIN_PRESENT" =>
       \A d \in Directions : age[d] # NoTrain =>
         \/ age[d] >= OCCUPANCY_WINDOW
         \/ \E i \in active : direction[i] = d /\ age[d] + remaining[i] >= OCCUPANCY_WINDOW

LEMMA AgeTypes ==
  ASSUME ServedInv
  PROVE  /\ \A d \in Directions : age[d] \in Nat /\ age[d] <= NoTrain
         /\ \A d \in Directions : age[d] # NoTrain =>
              /\ Later(age[d]) \in 0 .. RECORD_MAX
              /\ Later(age[d]) = age[d] + TICK \/ Later(age[d]) = RECORD_MAX
         /\ NoTrain = RECORD_MAX + 1 /\ RECORD_MAX \in Nat
         /\ TICK \in Nat /\ TICK > 0 /\ OCCUPANCY_WINDOW \in Nat
         /\ OCCUPANCY_WINDOW <= RECORD_MAX
BY TimingAssumption, RecordingAssumption DEF ServedInv, NoTrain, Later

\* The windows of a present train run down as its age grows.
LEMMA PresentServed ==
  ASSUME MachineInv, ServedInv, state = "TRAIN_PRESENT", TickWindows,
         NEW d \in Directions, age[d] # NoTrain, age'[d] = Later(age[d])
  PROVE  \/ age'[d] >= OCCUPANCY_WINDOW
         \/ \E i \in active' : /\ direction'[i] = d
                               /\ age'[d] + remaining'[i] >= OCCUPANCY_WINDOW
<1>1. /\ age[d] \in Nat /\ age'[d] \in Nat
      /\ age'[d] = age[d] + TICK \/ age'[d] >= OCCUPANCY_WINDOW
      /\ TICK \in Nat /\ OCCUPANCY_WINDOW \in Nat
  BY AgeTypes
<1>2. /\ active \subseteq Slots /\ remaining \in [Slots -> 0 .. OCCUPANCY_WINDOW]
      /\ direction' = direction /\ active' = active \ Expired
      /\ \A i \in active : remaining[i] > TICK =>
           i \in active' /\ remaining'[i] = remaining[i] - TICK
  BY <1>1 DEF MachineInv, WindowTypes, TickWindows, Expired
<1>3. CASE age[d] >= OCCUPANCY_WINDOW
  BY <1>1, <1>3
<1>4. ASSUME NEW i \in active, direction[i] = d, age[d] + remaining[i] >= OCCUPANCY_WINDOW
      PROVE  \/ age'[d] >= OCCUPANCY_WINDOW
             \/ \E n \in active' : /\ direction'[n] = d
                                   /\ age'[d] + remaining'[n] >= OCCUPANCY_WINDOW
  <2>1. remaining[i] \in Nat
    BY <1>2
  <2>2. CASE remaining[i] <= TICK
    BY <1>1, <1>4, <2>1, <2>2
  <2>3. CASE remaining[i] > TICK /\ age'[d] = age[d] + TICK
    <3>1. i \in active' /\ remaining'[i] = remaining[i] - TICK /\ direction'[i] = d
      BY <1>2, <1>4, <2>3
    <3>2. age'[d] + remaining'[i] >= OCCUPANCY_WINDOW
      BY <1>1, <1>4, <2>1, <2>3, <3>1
    <3> QED
      BY <3>1, <3>2
  <2> QED
    BY <1>1, <2>1, <2>2, <2>3
<1> QED
  BY <1>3, <1>4 DEF ServedInv


LEMMA TickServed ==
  ASSUME MachineInv, ServedInv, NEW repaired \in BOOLEAN, Tick(repaired), RecordTick
  PROVE  ServedInv'
<1>1. age' = [d \in Directions |->
                IF state' = "OPENING" \/ age[d] = NoTrain THEN NoTrain ELSE Later(age[d])]
  BY DEF RecordTick
<1>2. age' \in [Directions -> 0 .. NoTrain]
  <2>1. /\ \A d \in Directions : age[d] # NoTrain => Later(age[d]) \in 0 .. RECORD_MAX
        /\ NoTrain = RECORD_MAX + 1 /\ RECORD_MAX \in Nat
    BY AgeTypes
  <2>2. /\ NoTrain \in 0 .. NoTrain
        /\ \A d \in Directions : age[d] # NoTrain => Later(age[d]) \in 0 .. NoTrain
    BY <2>1
  <2> QED
    BY <1>1, <2>2
<1>3. \A i \in active' : direction'[i] = direction[i] /\ i \in active
  BY TickCases DEF StartWindows, TickWindows, Tick, WarningTick, ClosingTick, ClosedTick,
                   TrainPresentTick, OpeningTick
<1>4. \A i \in active' : direction'[i] \in Directions
  BY <1>3 DEF ServedInv
<1>5. CASE state' = "FAULT"
  BY <1>2, <1>4, <1>5 DEF ServedInv, Closing
<1>6. CASE state' \in {"OPEN", "OPENING"} /\ state \in {"OPEN", "OPENING"}
  <2>1. \A d \in Directions : age'[d] = NoTrain
    BY <1>1, <1>6 DEF ServedInv
  <2> QED
    BY <1>2, <1>4, <1>6, <2>1 DEF ServedInv, Closing
<1>7. CASE state' = "OPENING"
  <2>1. \A d \in Directions : age'[d] = NoTrain
    BY <1>1, <1>7
  <2> QED
    BY <1>2, <1>4, <1>7, <2>1 DEF ServedInv, Closing
<1>8. CASE /\ UNCHANGED windowVars /\ state \in {"WARNING", "CLOSED"} \cup Closing
           /\ state' \in {"WARNING", "CLOSED"} \cup Closing
  <2>1. \A d \in Directions : age'[d] # NoTrain => age[d] # NoTrain
    BY <1>1
  <2> QED
    BY <1>2, <1>4, <1>8, <2>1 DEF ServedInv, Closing
<1>9. CASE state = "CLOSED" /\ state' = "TRAIN_PRESENT" /\ StartWindows
  <2>1. ASSUME NEW d \in Directions, age'[d] # NoTrain
        PROVE  \E i \in active' : /\ direction'[i] = d
                                  /\ age'[d] + remaining'[i] >= OCCUPANCY_WINDOW
    <3>1. age[d] # NoTrain
      BY <1>1, <2>1
    <3>2. PICK i \in active : direction[i] = d /\ remaining[i] = 0
      BY <1>9, <3>1 DEF ServedInv
    <3>3. /\ i \in active' /\ direction'[i] = d /\ remaining'[i] = OCCUPANCY_WINDOW
      BY <1>9, <3>2 DEF StartWindows, MachineInv, WindowTypes
    <3>4. age'[d] \in Nat /\ OCCUPANCY_WINDOW \in Nat
      BY <1>2, RecordingAssumption, TimingAssumption DEF NoTrain
    <3> QED
      BY <3>3, <3>4
  <2> QED
    BY <1>2, <1>4, <1>9, <2>1 DEF ServedInv, Closing
<1>10. CASE state = "TRAIN_PRESENT" /\ state' = "TRAIN_PRESENT" /\ TickWindows
  <2>1. ASSUME NEW d \in Directions, age'[d] # NoTrain
        PROVE  age[d] # NoTrain /\ age'[d] = Later(age[d])
    BY <1>1, <1>10, <2>1
  <2>2. \A d \in Directions : age'[d] # NoTrain =>
          \/ age'[d] >= OCCUPANCY_WINDOW
          \/ \E i \in active' : /\ direction'[i] = d
                                /\ age'[d] + remaining'[i] >= OCCUPANCY_WINDOW
    BY <1>10, <2>1, PresentServed
  <2> QED
    BY <1>2, <1>4, <1>10, <2>2 DEF ServedInv, Closing
<1> QED
  BY <1>5, <1>6, <1>7, <1>8, <1>9, <1>10, TickCases DEF Closing

LEMMA ApproachServed ==
  ASSUME MachineInv, ServedInv, NEW d \in Directions, NEW repaired \in BOOLEAN,
         SimulateTrainApproaching(d, repaired), RecordTrain(d)
  PROVE  ServedInv'
<1> DEFINE t == InitialWindow
<1>1. state # "FAULT" /\ RegisterWindow(d, t) /\ t \in 0 .. OCCUPANCY_WINDOW
  BY ApproachCases, TimingAssumption DEF InitialWindow
<1>11. WindowTypes' /\ WindowsCounted'
  BY <1>1, InputAssumption, RegisterWindowStep DEF MachineInv
<1>2. /\ active \subseteq active'
      /\ \A i \in active : /\ direction'[i] = direction[i]
                           /\ direction[i] # d => remaining'[i] = remaining[i]
      /\ \E i \in active' : direction'[i] = d /\ remaining'[i] = t
      /\ \A i \in active' : direction'[i] = d \/ i \in active
      /\ \A i \in active' : remaining'[i] = t \/ remaining'[i] = remaining[i]
  BY <1>1, RegisteredTrain DEF MachineInv, ServedInv
<1>3. /\ age' = [age EXCEPT ![d] = 0] /\ age \in [Directions -> 0 .. NoTrain]
      /\ NoTrain \in Nat /\ NoTrain # 0 /\ OCCUPANCY_WINDOW \in Nat
  BY <1>1, TimingAssumption, RecordingAssumption DEF RecordTrain, ServedInv, NoTrain
<1>4. /\ age' \in [Directions -> 0 .. NoTrain] /\ age'[d] = 0
      /\ \A e \in Directions : e # d => age'[e] = age[e]
  BY <1>3
<1>5. \A i \in active' : direction'[i] \in Directions
  BY <1>2 DEF ServedInv
<1>6. ASSUME NEW e \in Directions, e # d, NEW i \in active, direction[i] = e
      PROVE  i \in active' /\ direction'[i] = e /\ remaining'[i] = remaining[i]
  BY <1>2, <1>6
<1>7. CASE state' = "FAULT"
  BY <1>4, <1>5, <1>7 DEF ServedInv, Closing
<1>8. CASE state \in {"OPEN", "OPENING"} /\ state' \in {"WARNING", "RECLOSING"}
  <2>1. active = {} /\ t = 0
    BY <1>8 DEF InitialWindow, MachineInv, TrainsByState
  <2>2. \A i \in active' : direction'[i] = d /\ i \in Slots
    BY <1>11, <1>2, <2>1 DEF WindowTypes
  <2>3. \A i \in active' : remaining'[i] = 0
    <3>2. PICK n \in active' : direction'[n] = d /\ remaining'[n] = 0
      BY <1>2, <2>1
    <3>3. \A i \in active' : i = n
      BY <1>11, <2>2, <3>2 DEF WindowsCounted
    <3> QED
      BY <3>2, <3>3
  <2>4. \A e \in Directions : age'[e] # NoTrain => e = d
    BY <1>4, <1>8 DEF ServedInv
  <2> QED
    BY <1>2, <1>4, <1>5, <1>8, <2>3, <2>4 DEF ServedInv, Closing
<1>9. CASE state \in {"WARNING", "CLOSED"} \cup Closing /\ state' = state
  <2>1. t = 0
    BY <1>9 DEF InitialWindow, Closing
  <2>2. \A i \in active' : remaining'[i] = 0
    <3>2. PICK n \in active' : direction'[n] = d /\ remaining'[n] = 0
      BY <1>2, <2>1
    <3>3. ASSUME NEW i \in active'
          PROVE  remaining'[i] = 0
      <4>1. CASE direction'[i] = d
        BY <1>11, <3>2, <4>1 DEF WindowsCounted
      <4>2. CASE direction'[i] # d
        <5>1. i \in active /\ direction[i] # d
          BY <1>2, <4>2
        <5> QED
          BY <1>2, <1>9, <5>1 DEF ServedInv
      <4> QED
        BY <4>1, <4>2
    <3> QED
      BY <3>3
  <2>3. \A e \in Directions : age'[e] # NoTrain => \E i \in active' : direction'[i] = e
    <3> SUFFICES ASSUME NEW e \in Directions, age'[e] # NoTrain
                 PROVE  \E i \in active' : direction'[i] = e
      OBVIOUS
    <3>1. CASE e = d
      BY <1>2, <3>1
    <3>2. CASE e # d
      BY <1>4, <1>6, <1>9, <3>2 DEF ServedInv
    <3> QED
      BY <3>1, <3>2
  <2> QED
    BY <1>4, <1>5, <1>9, <2>2, <2>3 DEF ServedInv, Closing
<1>10. CASE state = "TRAIN_PRESENT" /\ state' = state
  <2>1. t = OCCUPANCY_WINDOW
    BY <1>10 DEF InitialWindow
  <2>2. ASSUME NEW e \in Directions, age'[e] # NoTrain
        PROVE  \/ age'[e] >= OCCUPANCY_WINDOW
               \/ \E i \in active' : /\ direction'[i] = e
                                     /\ age'[e] + remaining'[i] >= OCCUPANCY_WINDOW
    <3>1. CASE e = d
      BY <1>2, <1>3, <1>4, <2>1, <3>1
    <3>2. CASE e # d
      <4>1. \/ age[e] >= OCCUPANCY_WINDOW
            \/ \E i \in active : /\ direction[i] = e
                                 /\ age[e] + remaining[i] >= OCCUPANCY_WINDOW
        BY <1>4, <1>10, <2>2, <3>2 DEF ServedInv
      <4> QED
        BY <1>4, <1>6, <3>2, <4>1
    <3> QED
      BY <3>1, <3>2
  <2> QED
    BY <1>4, <1>5, <1>10, <2>2 DEF ServedInv, Closing
<1> QED
  BY <1>7, <1>8, <1>9, <1>10, ApproachCases DEF Closing

LEMMA ServedStep == MachineInv /\ ServedInv /\ [HNext]_hvars => ServedInv'
<1> SUFFICES ASSUME MachineInv, ServedInv, [HNext]_hvars PROVE ServedInv'
  OBVIOUS
<1>1. CASE UNCHANGED <<state, windowVars, age>>
  BY <1>1 DEF ServedInv
<1>2. ASSUME NEW repaired \in Repairs, OnTick(repaired), RecordTick
      PROVE  ServedInv'
  BY <1>2, TickServed DEF OnTick, Repairs
<1>3. ASSUME NEW d \in Directions, NEW repaired \in Repairs,
             SimulateTrainApproaching(d, repaired), RecordTrain(d)
      PROVE  ServedInv'
  BY <1>3, ApproachServed DEF Repairs
<1>4. CASE OtherThreads /\ RecordOther
  <2>1. age' = [d \in Directions |-> IF state' = "OPEN" THEN NoTrain ELSE age[d]]
    BY <1>4 DEF RecordOther
  <2>2. NoTrain \in 0 .. NoTrain /\ age \in [Directions -> 0 .. NoTrain]
    BY RecordingAssumption DEF NoTrain, ServedInv
  <2>3. age' \in [Directions -> 0 .. NoTrain]
    BY <2>1, <2>2
  <2>4. CASE UNCHANGED <<state, state_elapsed, windowVars>>
    <3>1. \A d \in Directions : age'[d] \in {age[d], NoTrain}
      BY <2>1
    <3>2. state # "OPEN" => age' = age
      BY <2>1, <2>2, <2>4
    <3>3. state = "OPEN" => \A d \in Directions : age'[d] = NoTrain
      BY <2>1, <2>4
    <3> QED
      BY <2>3, <2>4, <3>2, <3>3 DEF ServedInv, Closing
  <2>5. CASE state' = "OPEN" /\ active' = {}
    BY <2>1, <2>3, <2>5 DEF ServedInv, Closing
  <2>6. CASE state' = "FAULT" /\ UNCHANGED windowVars
    BY <2>3, <2>6 DEF ServedInv, Closing
  <2> QED
    BY <1>4, <2>4, <2>5, <2>6, OtherCases
<1>5. CASE \/ TakeFaultReportPending /\ UNCHANGED history
           \/ SendFaultReport /\ UNCHANGED history
           \/ BroadcastCrossingStatus /\ UNCHANGED history
  BY <1>1, <1>5, ServerCases DEF history
<1>6. CASE UNCHANGED hvars
  BY <1>1, <1>6 DEF hvars, vars, history
<1> QED
  BY <1>2, <1>3, <1>4, <1>5, <1>6 DEF HNext

\* The gate goes up only when every train on record has had its whole occupancy
\* window, however late in the closure it was announced.
THEOREM WindowsAlwaysServed == HSpec => WindowsServed
<1> DEFINE A == GateSentUp => \A d \in Directions :
                  age[d] # NoTrain => age[d] + TICK >= OCCUPANCY_WINDOW
<1>1. HInit => ServedInv
  BY RecordingAssumption DEF HInit, Init, ServedInv, NoTrain, Closing
<1>2. MachineInv /\ ServedInv /\ [HNext]_hvars => [A]_hvars
  <2> SUFFICES ASSUME MachineInv, ServedInv, HNext, state' = "OPENING", state # "OPENING",
                      NEW d \in Directions, age[d] # NoTrain
               PROVE  age[d] + TICK >= OCCUPANCY_WINDOW
    BY DEF GateSentUp
  <2>1. PICK repaired \in Repairs : OnTick(repaired)
    <3>1. ~OtherThreads
      BY OtherCases
    <3>2. \A e \in Directions, r \in Repairs : ~SimulateTrainApproaching(e, r)
      BY ApproachCases DEF Repairs
    <3> QED
      BY <3>1, <3>2, ServerCases DEF HNext
  <2>2. state = "TRAIN_PRESENT" /\ TickWindows /\ active_window_count' = 0
    BY <2>1, TickCases DEF OnTick, Repairs, Closing
  <2>3. active' = {} /\ active' = active \ Expired
    BY <2>2, TickWindowsStep DEF MachineInv, TickWindows
  <2>4. \A i \in active : remaining[i] <= TICK /\ remaining[i] \in Nat
    BY <2>3 DEF Expired, MachineInv, WindowTypes
  <2>5. \/ age[d] >= OCCUPANCY_WINDOW
        \/ \E i \in active : direction[i] = d /\ age[d] + remaining[i] >= OCCUPANCY_WINDOW
    BY <2>2 DEF ServedInv
  <2> QED
    BY <2>4, <2>5, AgeTypes
<1> QED
  BY MachineAlways, ServedStep, <1>1, <1>2, PTL DEF HSpec, WindowsServed
=============================================================================
