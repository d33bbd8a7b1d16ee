---------------------------- MODULE RailwayHistory ----------------------------
(***************************************************************************)
(* The railway crossing observed over time: for how long each train has    *)
(* been announced and for how long the crossing has been closing.  The     *)
(* history reads the crossing and never guides it; HNext leaves out what   *)
(* comes after the first TRAINS_MAX trains, for the liveness properties.   *)
(***************************************************************************)
EXTENDS RailwayCrossing

CONSTANTS
  RECORD_MAX,    \* times are recorded up to this bound
  TRAINS_MAX     \* at most this many trains are announced

\* Times are recorded for as long as the properties below look at them.
ASSUME RecordingAssumption ==
  /\ RECORD_MAX \in Nat /\ TRAINS_MAX \in Nat
  /\ WARNING_TO_CLOSING + CLOSING_DEADLINE <= RECORD_MAX
  /\ OCCUPANCY_WINDOW <= RECORD_MAX
\* The flashing-only interval is a whole number of pulses; a gate has some time to
\* close.
ASSUME PulsesAssumption ==
  WARNING_TO_CLOSING % TICK = 0 /\ CLOSING_DEADLINE > 0
\* A train comes from one of two directions: a slot for each.
ASSUME DirectionsAssumption == Directions \subseteq {0, 1}

VARIABLES
  age,           \* by direction: time since its latest train was announced
  closing_for,   \* time since the crossing left OPEN or OPENING, gate not yet down
  trains         \* how many trains have been announced

history == <<age, closing_for, trains>>
hvars == <<vars, history>>

NoTrain == RECORD_MAX + 1

HInit ==
  /\ Init
  /\ age = [d \in Directions |-> NoTrain] /\ closing_for = 0
  /\ trains = 0

Later(t) == IF t + TICK > RECORD_MAX THEN RECORD_MAX ELSE t + TICK

\* Pulses pass time; a train is on record until the gate goes up again.
RecordTick ==
  /\ age' = [d \in Directions |->
               IF state' = "OPENING" \/ age[d] = NoTrain THEN NoTrain
               ELSE Later(age[d])]
  /\ closing_for' = IF state' \in {"WARNING"} \cup Closing THEN Later(closing_for)
                    ELSE 0
  /\ UNCHANGED trains

RecordTrain(d) ==
  /\ trains < TRAINS_MAX /\ trains' = trains + 1
  /\ age' = [age EXCEPT ![d] = IF state = "FAULT" THEN NoTrain ELSE 0]
  /\ UNCHANGED closing_for

RecordOther ==
  /\ age' = [d \in Directions |-> IF state' = "OPEN" THEN NoTrain ELSE age[d]]
  /\ closing_for' = IF state' \in {"WARNING"} \cup Closing THEN closing_for ELSE 0
  /\ UNCHANGED trains

HNext ==
  \/ \E repaired \in Repairs : OnTick(repaired) /\ RecordTick
  \/ TakeFaultReportPending /\ UNCHANGED history
  \/ SendFaultReport /\ UNCHANGED history
  \/ BroadcastCrossingStatus /\ UNCHANGED history
  \/ \E d \in Directions, repaired \in Repairs :
       SimulateTrainApproaching(d, repaired) /\ RecordTrain(d)
  \/ OtherThreads /\ RecordOther

HSpec == HInit /\ [][HNext]_hvars
FairHSpec == HSpec /\ WF_vars(PulseStep)

-----------------------------------------------------------------------------
GateSentUp == state' = "OPENING" /\ state # "OPENING"

\* The gate goes up only when every train on record, however late in the
\* closure it was announced, has had its whole occupancy window.
WindowsServed ==
  [][GateSentUp => \A d \in Directions :
       age[d] # NoTrain => age[d] + TICK >= OCCUPANCY_WINDOW]_hvars

\* A crossing that starts to close is confirmed closed or in FAULT within the
\* flashing-only interval and the closing deadline, however many approaches
\* are announced meanwhile (invariant 6 of 04-safety-and-realtime.md).
ClosureBounded == closing_for < WARNING_TO_CLOSING + CLOSING_DEADLINE

\* Once trains stop coming the crossing reopens or is in FAULT: no order of
\* announcements, repairs and failed motions strands it closed (RC-04).
Reopens == state # "OPEN" ~> state \in {"OPEN", "FAULT"}

\* The neighbours are never left behind for good: what they were last told is
\* again and again the crossing's state, whatever races the broadcast.
NeighboursFollow == []<>(last_broadcast = CrossingState(state))

\* The code's own estimate of a train's arrival after its announcement.
ARRIVAL == WARNING_TO_CLOSING + GATE_MOTION + EXPECTED_ARRIVAL

\* The gate stays down until every train on record, each from a direction of its
\* own, has had the occupancy window that follows its expected arrival (RC-04).
SecondTrainCovered ==
  [][GateSentUp =>
       LET onRecord == {d \in Directions : age[d] # NoTrain}
       IN  trains = Cardinality(onRecord) =>
             \A d \in onRecord : age[d] + TICK >= ARRIVAL + OCCUPANCY_WINDOW]_hvars
=============================================================================
