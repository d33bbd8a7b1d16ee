---------------------------- MODULE CrossingNetwork ----------------------------
(***************************************************************************)
(* A railway crossing among the controllers it talks to: the crossing of   *)
(* RailwayCrossing, its outgoing messages (rlx_comm.c over the queue that  *)
(* Outbox describes), the two intersections next to it as far as they take *)
(* its CROSSING_STATUS, and Central's table of controllers with its link   *)
(* watchdog (c_server.c, c_watchdog_mon.c and the handlers of c_main.c).   *)
(*                                                                         *)
(* The peers may be down, may stop answering while they stay up, and may   *)
(* start again with their memory empty.  Time passes in seconds, the       *)
(* period of every timer here.  Messages are prompt: a second is over once *)
(* its pulses are handled and its messages delivered, unless a peer that   *)
(* does not answer holds them up.                                          *)
(***************************************************************************)
EXTENDS RailwayCrossing, Sequences

CONSTANTS
  CAPACITY,               \* IPC_CLIENT_QUEUE_CAPACITY
  Self, C1,
  Adjacent,               \* adjacent_lx[2] of ADJACENCY, in order
  NoJob,
  MayHang,                \* peers that may stop answering and stay up
  FAILURES_MAX            \* bound on the processes that ever fail

Neighbours == {Adjacent[i] : i \in DOMAIN Adjacent}
Peers == Neighbours \cup {C1}

Verbs == {"HEARTBEAT", "FAULT_REPORT", "CROSSING_STATUS"}
Jobs == [target_id : Peers, verb : Verbs,
         crossing : CrossingStates \cup {"NONE"}, faults : SUBSET Faults]

ASSUME PeersAssumption ==
  C1 \notin Neighbours /\ Self \notin Peers /\ NoJob \notin Jobs
\* Heartbeats have the results that the network gives them.
ASSUME ResultsAssumption == HeartbeatResults = {}
ASSUME BoundsAssumption ==
  CAPACITY \in Nat \ {0} /\ FAILURES_MAX \in Nat /\ MayHang \subseteq Peers

ASSUME AdjacentAssumption == Adjacent \in Seq(Neighbours)
\* All that one second gives to send fits in the queue, Central's copy of a
\* status apart: a beat, a fault report, a status for each neighbour (4 of 16).
ASSUME RoomAssumption == Len(Adjacent) + 2 <= CAPACITY

Timers == {"RAILWAY", "HEARTBEAT", "MONITOR"}

VARIABLES
  waiting, current, outcome,   \* the outgoing queue, as Outbox describes it
  to_tell,                     \* statuses of a broadcast that are not posted yet
  due,                         \* timers that fired and are not handled
  running,                     \* the process of this crossing is up
  health,                      \* of the peers: SERVING, ABSENT or HUNG
  told,                        \* last_crossing_state of the neighbours
  newest,                      \* what became of the newest status for each
  record,                      \* Central's row for this crossing
  failed,                      \* processes that have been down or hung
  held                         \* some peer has been hung

queueVars == <<waiting, current, outcome>>
failureVars == <<running, health, failed, held>>
netVars == <<queueVars, to_tell, due, told, newest, record, failureVars>>
nvars == <<vars, netVars>>

Queue == INSTANCE Outbox

\* c_mode_eng_init clears the row of a controller.
EmptyRecord ==
  [faults |-> {}, missed_ticks |-> 0, unavailable |-> FALSE]

NInit ==
  /\ Init /\ Queue!Init /\ to_tell = <<>> /\ due = {}
  /\ running = TRUE /\ health \in [Peers -> {"SERVING", "ABSENT"}]
  /\ told = [p \in Neighbours |-> "OPEN"]
  /\ newest = [p \in Neighbours |-> "TOLD"]
  /\ record = EmptyRecord
  /\ failed = {p \in Peers : health[p] = "ABSENT"} /\ held = FALSE
  /\ Cardinality(failed) <= FAILURES_MAX

-----------------------------------------------------------------------------
(* The outgoing messages of the crossing (rlx_comm.c).                      *)

\* A message with what its receiver keeps of it: a neighbour the state of the
\* crossing, Central the faults of a heartbeat.
Message(p, verb) ==
  [target_id |-> p, verb |-> verb,
   crossing |-> IF p = C1 THEN "NONE" ELSE CrossingState(state),
   faults |-> IF verb = "HEARTBEAT" THEN faults ELSE {}]

\* A post is refused by a full queue, and nobody tries again.
Post(j) ==
  IF Queue!Full THEN UNCHANGED queueVars ELSE Queue!Accept(j)

ServerIdle == step = "IDLE" /\ to_tell = <<>>

Pulse(t) == t \in due /\ due' = due \ {t}

RailwayPulse(repaired) ==
  /\ ServerIdle /\ "HEARTBEAT" \notin due /\ Pulse("RAILWAY") /\ OnTick(repaired)
  /\ UNCHANGED <<queueVars, to_tell, told, newest, record, failureVars>>

TakeReportPending ==
  TakeFaultReportPending /\ UNCHANGED netVars

PostFaultReport ==
  /\ SendFaultReport /\ Post(Message(C1, "FAULT_REPORT"))
  /\ UNCHANGED <<to_tell, due, told, newest, record, failureVars>>

\* Only a changed state is sent, to the two neighbours and to Central in turn.
Broadcast ==
  /\ BroadcastCrossingStatus
  /\ to_tell' = IF last_broadcast' = last_broadcast THEN <<>>
                ELSE [i \in 1 .. Len(Adjacent) + 1 |->
                        Message(Append(Adjacent, C1)[i], "CROSSING_STATUS")]
  /\ UNCHANGED <<queueVars, due, told, newest, record, failureVars>>

\* Defect: the state is read again for every message.
StatusToPost_ReadAgain == Message(Head(to_tell).target_id, "CROSSING_STATUS")

StatusToPost == Head(to_tell)

PostStatus ==
  /\ to_tell # <<>>
  /\ LET j == StatusToPost
     IN  /\ Post(j) /\ to_tell' = Tail(to_tell)
         /\ newest' = [p \in Neighbours |->
                         IF p # j.target_id THEN newest[p]
                         ELSE IF Queue!Full THEN "LOST" ELSE "PENDING"]
  /\ UNCHANGED <<vars, due, told, record, failureVars>>

\* Defect: a heartbeat that cannot be posted is not counted.
RefusedHeartbeat_Ignored == UNCHANGED vars

\* A heartbeat that cannot even be posted is a missed one.
RefusedHeartbeat == OnHeartbeatResult(FALSE)

HeartbeatPulse ==
  /\ ServerIdle /\ Pulse("HEARTBEAT") /\ Post(Message(C1, "HEARTBEAT"))
  /\ IF Queue!Full THEN RefusedHeartbeat ELSE UNCHANGED vars
  /\ UNCHANGED <<to_tell, told, newest, record, failureVars>>

-----------------------------------------------------------------------------
(* Central's handlers (c_main.c on_request, c_server.c).                    *)

\* A row that hears of its controller starts counting anew.
Heard(f) == [faults |-> f, missed_ticks |-> 0, unavailable |-> FALSE]

\* Defect: a beat does not start the count of silent seconds anew.
Recorded_NotHeard(j) ==
  IF j.verb = "HEARTBEAT"
    THEN [record EXCEPT !.faults = j.faults]
  ELSE IF j.verb = "CROSSING_STATUS" THEN Heard(record.faults)
  ELSE record

\* Defect: the faults in a beat are left to the fault report.
Recorded_NoFaults(j) ==
  IF j.verb \in {"HEARTBEAT", "CROSSING_STATUS"} THEN Heard(record.faults) ELSE record

\* c_server_record_status, c_server_record_crossing_status; a FAULT_REPORT is
\* logged and leaves the table as it is.
Recorded(j) ==
  IF j.verb = "HEARTBEAT" THEN Heard(j.faults)
  ELSE IF j.verb = "CROSSING_STATUS" THEN Heard(record.faults)
  ELSE record

\* Defect: only a row with a fault on record is looked at.
MonitorTicked_OnlyFaulty ==
  IF record.faults = {} THEN record
  ELSE [record EXCEPT !.missed_ticks = 3, !.unavailable = TRUE]

\* c_watchdog_mon_tick.  The count matters as far as three; it is kept there.
MonitorTicked ==
  LET missed == IF record.missed_ticks < 3 THEN record.missed_ticks + 1 ELSE 3
  IN  [faults |-> record.faults, missed_ticks |-> missed,
       unavailable |-> record.unavailable \/ missed = 3]

\* The pulses that a hung Central sleeps through come before all that is sent to
\* it after it resumes; its row shows them at once.
MonitorPulse ==
  /\ Pulse("MONITOR")
  /\ record' = IF health[C1] = "ABSENT" THEN record ELSE MonitorTicked
  /\ UNCHANGED <<vars, queueVars, to_tell, told, newest, failureVars>>

-----------------------------------------------------------------------------
(* The client thread.                                                       *)

BeginJob ==
  /\ Queue!Begin
  /\ UNCHANGED <<vars, to_tell, due, told, newest, record, failureVars>>

\* Statuses that are still on their way to p.
OnTheWay(p) ==
  \/ \E i \in 1 .. Len(to_tell) : to_tell[i].target_id = p
  \/ \E i \in 1 .. Len(waiting) : waiting[i].target_id = p

Fate(p, end) ==
  [newest EXCEPT ![p] = IF @ = "PENDING" /\ ~OnTheWay(p) THEN end ELSE @]

\* Every request kind sent here is acknowledged by the peer that takes it.
Deliver ==
  /\ current # NoJob /\ health[current.target_id] = "SERVING"
  /\ Queue!Conclude("ANSWERED")
  /\ LET p == current.target_id
     IN  IF p = C1
           THEN record' = Recorded(current) /\ UNCHANGED <<told, newest>>
           ELSE /\ told' = [told EXCEPT ![p] = current.crossing]
                /\ newest' = Fate(p, "TOLD")
                /\ UNCHANGED record
  /\ UNCHANGED <<vars, to_tell, due, health, failureVars>>

\* Nobody answers to the name, or the peer dies before it answers.
FailToDeliver ==
  /\ current # NoJob /\ health[current.target_id] = "ABSENT"
  /\ Queue!Conclude("FAILED")
  /\ newest' = IF current.target_id = C1 THEN newest ELSE Fate(current.target_id, "LOST")
  /\ UNCHANGED <<vars, to_tell, due, told, record, failureVars>>

\* on_heartbeat_reply; the callback of the others only logs.
ReportOutcome ==
  /\ Queue!Report
  /\ IF current.verb = "HEARTBEAT" THEN OnHeartbeatResult(outcome = "ANSWERED")
                                   ELSE UNCHANGED vars
  /\ UNCHANGED <<to_tell, due, told, newest, record, failureVars>>

ClientStep == BeginJob \/ Deliver \/ FailToDeliver \/ ReportOutcome

-----------------------------------------------------------------------------
(* Sensors, keyboard, Central's clear command and the watchdog, at any time. *)

\* A clear between two posts of a broadcast is the one typed at the keyboard.
Surroundings == (TrainApproaching \/ OtherThreads) /\ UNCHANGED netVars

CrossingStep ==
  \/ \E repaired \in Repairs : RailwayPulse(repaired)
  \/ TakeReportPending \/ PostFaultReport \/ Broadcast \/ PostStatus
  \/ HeartbeatPulse \/ ClientStep

-----------------------------------------------------------------------------
(* Failures.                                                                *)

Fails(p) ==
  /\ p \notin failed /\ failed' = failed \cup {p}
  /\ Cardinality(failed') <= FAILURES_MAX

\* The memory of a peer is gone with it: lx_fsm_init takes the crossing for open.
Die(p) ==
  /\ \/ health[p] = "SERVING" /\ Fails(p)
     \/ health[p] = "HUNG" /\ UNCHANGED failed
  /\ health' = [health EXCEPT ![p] = "ABSENT"]
  /\ IF p = C1
       THEN record' = EmptyRecord /\ UNCHANGED <<told, newest>>
       ELSE /\ told' = [told EXCEPT ![p] = "OPEN"]
            /\ newest' = [newest EXCEPT ![p] = IF @ = "PENDING" THEN @ ELSE "LOST"]
            /\ UNCHANGED record
  /\ UNCHANGED <<vars, queueVars, to_tell, due, running, held>>

\* A send to a peer that died has failed before the peer is up again.
SendOpen(p) == current # NoJob /\ outcome = "PENDING" /\ current.target_id = p

Start(p) ==
  /\ health[p] = "ABSENT" /\ ~SendOpen(p)
  /\ health' = [health EXCEPT ![p] = "SERVING"]
  /\ UNCHANGED <<vars, queueVars, to_tell, due, running, told, newest, record,
                 failed, held>>

Hang(p) ==
  /\ p \in MayHang /\ health[p] = "SERVING" /\ Fails(p) /\ held' = TRUE
  /\ health' = [health EXCEPT ![p] = "HUNG"]
  /\ UNCHANGED <<vars, queueVars, to_tell, due, running, told, newest, record>>

Resume(p) ==
  /\ health[p] = "HUNG" /\ health' = [health EXCEPT ![p] = "SERVING"]
  /\ UNCHANGED <<vars, queueVars, to_tell, due, running, told, newest, record,
                 failed, held>>

\* The process of this crossing dies, and with it the queue and all it knew: it
\* will start as rlx_fsm_init and rlx_gate_init leave it, open and with no train.
CrossingDies ==
  /\ running /\ Fails(Self) /\ running' = FALSE
  /\ state' = "OPEN" /\ state_elapsed' = 0
  /\ active' = {} /\ active_window_count' = 0
  /\ direction' = [i \in Slots |-> 0] /\ remaining' = [i \in Slots |-> 0]
  /\ faults' = {} /\ fault_report_pending' = FALSE
  /\ gate' = Repaired(gate)
  /\ train_signal' = {} /\ flashers' = FALSE
  /\ step' = "IDLE" /\ last_broadcast' = "NONE"
  /\ link_state' = "DEGRADED_LOCAL" /\ missed_acks' = 0
  /\ waiting' = <<>> /\ current' = NoJob /\ outcome' = "NONE" /\ to_tell' = <<>>
  /\ due' = due \cap {"MONITOR"}
  /\ newest' = [p \in Neighbours |-> IF newest[p] = "TOLD" /\ ~OnTheWay(p)
                                     THEN "TOLD" ELSE "LOST"]
  /\ UNCHANGED <<health, told, record, held>>

CrossingStarts ==
  /\ ~running /\ running' = TRUE
  /\ UNCHANGED <<vars, queueVars, to_tell, due, health, told, newest, record, failed,
                 held>>

Failure ==
  \/ \E p \in Peers : Die(p) \/ Start(p) \/ Hang(p) \/ Resume(p)
  \/ CrossingDies \/ CrossingStarts

-----------------------------------------------------------------------------
(* Time.                                                                    *)

HeldUp == current # NoJob /\ outcome = "PENDING" /\ health[current.target_id] = "HUNG"

SecondOver ==
  /\ due = {} /\ ServerIdle
  /\ HeldUp \/ (waiting = <<>> /\ current = NoJob)

NextSecond ==
  /\ SecondOver /\ due' = IF running THEN Timers ELSE {"MONITOR"}
  /\ UNCHANGED <<vars, queueVars, to_tell, told, newest, record, failureVars>>

NNext ==
  \/ running /\ (CrossingStep \/ Surroundings)
  \/ MonitorPulse
  \/ Failure
  \/ NextSecond

NSpec == NInit /\ [][NNext]_nvars

\* Pulses are delivered and handled, messages are sent and answered, and time
\* goes on; nothing makes a peer fail or recover.
Progress ==
  (running /\ CrossingStep) \/ MonitorPulse \/ NextSecond

FairNSpec == NSpec /\ WF_nvars(Progress)

-----------------------------------------------------------------------------
\* The values the queue, the timers, the peers and Central's row may take.
NTypeOK ==
  /\ TypeOK
  /\ waiting \in Seq(Jobs) /\ Len(waiting) <= CAPACITY
  /\ current \in Jobs \cup {NoJob} /\ outcome \in Queue!Outcomes
  /\ to_tell \in Seq(Jobs) /\ due \subseteq Timers /\ running \in BOOLEAN
  /\ health \in [Peers -> {"SERVING", "ABSENT", "HUNG"}]
  /\ told \in [Neighbours -> CrossingStates]
  /\ newest \in [Neighbours -> {"TOLD", "PENDING", "LOST"}]
  /\ record \in [faults : SUBSET Faults, missed_ticks : 0 .. 3, unavailable : BOOLEAN]
  /\ failed \subseteq Peers \cup {Self} /\ held \in BOOLEAN

\* A neighbour that took the newest status knows the crossing as it was last
\* broadcast: an older status never overtakes a newer one, whatever was refused,
\* lost or held up in between.
TellsInOrder ==
  \A p \in Neighbours :
    running /\ last_broadcast # "NONE" /\ newest[p] = "TOLD" /\ ~OnTheWay(p)
      => told[p] = last_broadcast

GateComing == state \notin {"OPEN", "WARNING", "FAULT"}

\* While nothing is held up by a peer that does not answer, no neighbour that
\* can be told takes the crossing for open once the gate is commanded down, even
\* if Central or the other neighbour is down (CC-02).
ToldBeforeGate ==
  ~held /\ running /\ GateComing => \A p \in Neighbours \ failed : told[p] # "OPEN"

\* The same whatever becomes of Central, with everybody else up: local controllers
\* run without it (invariant 10 of docs/specification/04-safety-and-realtime.md).
ToldWithoutCentral ==
  failed \subseteq {C1} /\ GateComing => \A p \in Neighbours : told[p] # "OPEN"

\* Central takes no crossing for lost that runs and is not held up: the beat of
\* each second arrives between any three looks at the row (PA-07).
LiveNotLost ==
  ~held /\ Self \notin failed /\ health[C1] = "SERVING" => ~record.unavailable

AllAnswer == \A p \in Peers : health[p] # "HUNG"

\* The link state follows Central: with every peer answering, it ends up
\* connected if Central is there and degraded if not; and held up by any peer for
\* good it ends up degraded too, by the beats that the full queue refuses.
LinkFollows ==
  /\ <>[](running /\ AllAnswer /\ health[C1] = "SERVING") =>
       <>[](link_state = "CENTRAL_CONNECTED" /\ ~record.unavailable)
  /\ <>[](running /\ (HeldUp \/ health[C1] = "ABSENT")) =>
       <>[](link_state = "DEGRADED_LOCAL")

\* Central ends up knowing of a fault that stays, whether or not the report was
\* refused: the beats carry the faults too.
FaultReachesCentral ==
  <>[](running /\ AllAnswer /\ health[C1] = "SERVING" /\ state = "FAULT") =>
    <>[](record.faults # {})

\* A crossing that stays silent is declared lost by a Central that runs.
SilenceNoticed ==
  <>[](health[C1] = "SERVING" /\ (~running \/ HeldUp)) => <>[](record.unavailable)
================================================================================
