------------------------- MODULE CrossingNetworkProofs -------------------------
(***************************************************************************)
(* Proofs about a railway crossing among its peers, for any number of      *)
(* neighbours, any capacity of the queue that leaves room for what one     *)
(* second sends, and any failures.                                         *)
(***************************************************************************)
EXTENDS CrossingNetwork, RailwayProofs, QueueLemmas

USE DEF windowVars, faultVars, lampVars, linkVars, fsmVars, queueVars, failureVars,
        netVars

-----------------------------------------------------------------------------
(* The crossing itself: its invariants hold among its peers too.            *)

\* A dead crossing is as rlx_fsm_init and rlx_gate_init will leave it.
LEMMA DeadIsInitial == CrossingDies => Init'
BY DEF CrossingDies, Init, Repaired

\* What a step among the peers does to the crossing: one of its own steps, the
\* result of a heartbeat, or its death.
LEMMA RailwayPart ==
  [NNext]_nvars =>
    \/ [Next]_vars
    \/ \E acked \in BOOLEAN : OnHeartbeatResult(acked)
    \/ CrossingDies
<1> SUFFICES ASSUME NNext
             PROVE  \/ [Next]_vars
                    \/ \E acked \in BOOLEAN : OnHeartbeatResult(acked)
                    \/ CrossingDies
  BY DEF nvars
<1>1. CASE CrossingStep
  BY <1>1 DEF CrossingStep, ClientStep, RailwayPulse, TakeReportPending, PostFaultReport,
              Broadcast, PostStatus, HeartbeatPulse, RefusedHeartbeat, BeginJob, Deliver,
              FailToDeliver, ReportOutcome, Next, PulseStep
<1>2. CASE Surroundings
  BY <1>2 DEF Surroundings, Next
<1>3. CASE MonitorPulse \/ NextSecond
  BY <1>3 DEF MonitorPulse, NextSecond
<1>4. CASE Failure
  BY <1>4 DEF Failure, Die, Start, Hang, Resume, CrossingStarts
<1> QED
  BY <1>1, <1>2, <1>3, <1>4 DEF NNext

\* The result of a heartbeat leaves the crossing alone.
LEMMA ResultStep ==
  ASSUME MachineInv, ServerTypes, BroadcastInv, NEW acked \in BOOLEAN,
         OnHeartbeatResult(acked)
  PROVE  MachineInv' /\ ServerTypes' /\ BroadcastInv'
<1>1. UNCHANGED <<fsmVars, gate, step, last_broadcast>>
  BY DEF OnHeartbeatResult
<1>2. MachineInv'
  BY <1>1 DEF MachineInv, WindowTypes, MachineTypes, WindowsCounted, TrainsByState,
              GateObeysState, ProceedOnlyWhenShut, FaultsLatched
<1>3. ServerTypes'
  <2>1. OneMoreMiss \in 0 .. MISSED_MAX
    BY TimingAssumption DEF ServerTypes, OneMoreMiss
  <2> QED
    BY <1>1, <2>1, TimingAssumption DEF OnHeartbeatResult, ServerTypes
<1>4. BroadcastInv'
  BY <1>1 DEF BroadcastInv, NeighboursWarned, Told
<1> QED
  BY <1>2, <1>3, <1>4

RailwayInv == MachineInv /\ ServerTypes /\ BroadcastInv

LEMMA InitRailway == Init => RailwayInv
BY InitMachine DEF RailwayInv, Init, BroadcastInv, NeighboursWarned

LEMMA InitRailwayAgain == Init' => RailwayInv'
BY InitRailway, PTL

LEMMA RailwayStep == RailwayInv /\ [NNext]_nvars => RailwayInv'
<1>1. RailwayInv /\ [Next]_vars => RailwayInv'
  BY MachineStep, ServerTypesStep, BroadcastStep DEF RailwayInv
<1>2. RailwayInv /\ (\E acked \in BOOLEAN : OnHeartbeatResult(acked)) => RailwayInv'
  BY ResultStep DEF RailwayInv
<1>3. CrossingDies => RailwayInv'
  BY DeadIsInitial, InitRailwayAgain
<1> QED
  BY <1>1, <1>2, <1>3, RailwayPart

-----------------------------------------------------------------------------
(* Types.                                                                   *)

\* A neighbour is sent statuses of the crossing and nothing else.
Sendable == {j \in Jobs : j.target_id # C1 => j.crossing # "NONE" /\ j.verb # "HEARTBEAT"}

QueueTypes ==
  /\ waiting \in Seq(Sendable) /\ Len(waiting) <= CAPACITY
  /\ current \in Sendable \cup {NoJob} /\ outcome \in Queue!Outcomes
  /\ current = NoJob <=> outcome = "NONE"
  /\ to_tell \in Seq(Sendable)

PeerTypes ==
  /\ due \subseteq Timers /\ running \in BOOLEAN
  /\ health \in [Peers -> {"SERVING", "ABSENT", "HUNG"}]
  /\ told \in [Neighbours -> CrossingStates]
  /\ newest \in [Neighbours -> {"TOLD", "PENDING", "LOST"}]
  /\ record \in [faults : SUBSET Faults, missed_ticks : 0 .. 3, unavailable : BOOLEAN]
  /\ failed \subseteq Peers \cup {Self} /\ held \in BOOLEAN

NTypes == RailwayInv /\ QueueTypes /\ PeerTypes

LEMMA SendableJobs ==
  /\ NoJob \notin Sendable /\ Sendable \subseteq Jobs
  /\ \A j \in Sendable : /\ j.target_id \in Peers
                         /\ j.target_id # C1 => /\ j.target_id \in Neighbours
                                                /\ j.crossing \in CrossingStates
                                                /\ j.verb # "HEARTBEAT"
                         /\ j.faults \subseteq Faults
BY PeersAssumption DEF Sendable, Jobs, Peers

LEMMA SentMessage ==
  ASSUME RailwayInv, NEW p \in Peers, NEW verb \in Verbs,
         p # C1 => verb = "CROSSING_STATUS"
  PROVE  /\ Message(p, verb) \in Sendable
         /\ Message(p, verb).target_id = p /\ Message(p, verb).verb = verb
         /\ p # C1 => Message(p, verb).crossing = CrossingState(state)
<1>1. CrossingState(state) \in CrossingStates /\ faults \subseteq Faults
  BY DEF RailwayInv, MachineInv, MachineTypes, CrossingState, CrossingStates
<1>2. Message(p, verb) \in Jobs
  BY <1>1 DEF Message, Jobs
<1> QED
  BY <1>1, <1>2 DEF Message, Sendable, CrossingStates, Verbs

\* A post appends the job or changes nothing.
LEMMA PostEffect ==
  ASSUME NEW j, Post(j)
  PROVE  /\ UNCHANGED <<current, outcome>>
         /\ \/ Len(waiting) = CAPACITY /\ UNCHANGED waiting
            \/ Len(waiting) # CAPACITY /\ waiting' = Append(waiting, j)
BY DEF Post, Queue!Full, Queue!Accept

LEMMA PostTypes ==
  ASSUME QueueTypes, NEW j \in Sendable, Post(j)
  PROVE  /\ waiting' \in Seq(Sendable) /\ Len(waiting') <= CAPACITY
         /\ Len(waiting') <= Len(waiting) + 1
         /\ UNCHANGED <<current, outcome>>
<1>1. Len(waiting) \in Nat /\ CAPACITY \in Nat
  BY BoundsAssumption DEF QueueTypes
<1>2. CASE Len(waiting) = CAPACITY /\ UNCHANGED waiting
  BY <1>1, <1>2, PostEffect DEF QueueTypes
<1>3. CASE Len(waiting) # CAPACITY /\ waiting' = Append(waiting, j)
  <2>1. Len(waiting') = Len(waiting) + 1 /\ waiting' \in Seq(Sendable)
    BY <1>3 DEF QueueTypes
  <2> QED
    BY <1>1, <1>3, <2>1, PostEffect DEF QueueTypes
<1> QED
  BY <1>2, <1>3, PostEffect


\* The jobs for a peer; those that tell it a given state of the crossing.
To(p) == {j \in Jobs : j.target_id = p}
Saying(s) == {j \in Jobs : j.crossing = s}
\* Jobs that tell every neighbour they are for that state.
NeighboursHear(s) == {j \in Jobs : j.target_id # C1 => j.crossing = s}

\* A broadcast is skipped if the state was broadcast before; otherwise it has the
\* new state for each neighbour and ends with the message to Central.
LEMMA BroadcastEffect ==
  ASSUME RailwayInv, Broadcast
  PROVE  /\ last_broadcast' \in CrossingStates
         /\ last_broadcast' = CrossingState(state)
         /\ \/ last_broadcast' = last_broadcast /\ to_tell' = <<>>
            \/ /\ last_broadcast' # last_broadcast
               /\ to_tell' \in Seq(Sendable)
               /\ Len(to_tell') = Len(Adjacent) + 1
               /\ to_tell'[Len(to_tell')].target_id = C1
               /\ AllOf(to_tell', NeighboursHear(last_broadcast'))
               /\ \A p \in Neighbours : ~NoneOf(to_tell', To(p))
<1> DEFINE l == Len(Adjacent)
           m(i) == Message(Append(Adjacent, C1)[i], "CROSSING_STATUS")
<1>1. /\ last_broadcast' = CrossingState(state)
      /\ to_tell' = IF last_broadcast' = last_broadcast THEN <<>>
                    ELSE [i \in 1 .. l + 1 |-> m(i)]
  BY DEF Broadcast, BroadcastCrossingStatus
<1>2. CrossingState(state) \in CrossingStates
  BY DEF CrossingState, CrossingStates
<1>3. l \in Nat /\ DOMAIN Adjacent = 1 .. l /\ Neighbours = {Adjacent[i] : i \in 1 .. l}
  BY AdjacentAssumption DEF Neighbours
<1>4. \A i \in 1 .. l : Append(Adjacent, C1)[i] = Adjacent[i] /\ Adjacent[i] \in Neighbours
  BY AdjacentAssumption, <1>3
<1>5. Append(Adjacent, C1)[l + 1] = C1
  BY AdjacentAssumption, <1>3
<1>6. \A i \in 1 .. l + 1 :
        /\ Append(Adjacent, C1)[i] \in Peers
        /\ m(i) \in Sendable /\ m(i) \in Jobs
        /\ m(i).target_id = Append(Adjacent, C1)[i]
        /\ m(i).target_id # C1 => m(i).crossing = last_broadcast'
  <2> SUFFICES ASSUME NEW i \in 1 .. l + 1
               PROVE  /\ Append(Adjacent, C1)[i] \in Peers
                      /\ m(i) \in Sendable /\ m(i) \in Jobs
                      /\ m(i).target_id = Append(Adjacent, C1)[i]
                      /\ m(i).target_id # C1 => m(i).crossing = last_broadcast'
    OBVIOUS
  <2>1. i \in 1 .. l \/ i = l + 1
    BY <1>3
  <2>2. Append(Adjacent, C1)[i] \in Peers
    BY <2>1, <1>4, <1>5 DEF Peers
  <2>3. "CROSSING_STATUS" \in Verbs
    BY DEF Verbs
  <2> QED
    BY <1>1, <2>2, <2>3, SentMessage, SendableJobs
<1> HIDE DEF m, l
<1>7. CASE last_broadcast' # last_broadcast
  <2>1. to_tell' = [i \in 1 .. l + 1 |-> m(i)] /\ l + 1 \in Nat
    BY <1>1, <1>3, <1>7
  <2>2. to_tell' \in Seq(Sendable) /\ Len(to_tell') = l + 1
    BY <2>1, <1>6
  <2>3. to_tell'[Len(to_tell')].target_id = C1
    <3>1. l + 1 \in 1 .. l + 1
      BY <1>3
    <3> QED
      BY <2>1, <2>2, <3>1, <1>5, <1>6
  <2>4. AllOf(to_tell', NeighboursHear(last_broadcast'))
    BY <2>1, <2>2, <1>6 DEF AllOf, NeighboursHear
  <2>5. ASSUME NEW p \in Neighbours
        PROVE  ~NoneOf(to_tell', To(p))
    <3>1. PICK i \in 1 .. l : Adjacent[i] = p
      BY <1>3
    <3>2. i \in 1 .. l + 1
      BY <1>3
    <3> QED
      BY <2>1, <2>2, <3>1, <3>2, <1>4, <1>6 DEF NoneOf, To
  <2> QED
    BY <1>1, <1>2, <1>7, <2>2, <2>3, <2>4, <2>5 DEF l
<1> QED
  BY <1>1, <1>2, <1>7

LEMMA HeadOfJobs ==
  ASSUME NEW S, NEW s \in Seq(S), s # <<>>
  PROVE  /\ Head(s) \in S /\ Tail(s) \in Seq(S) /\ Len(Tail(s)) = Len(s) - 1
         /\ Len(s) \in Nat \ {0}
OBVIOUS

-----------------------------------------------------------------------------
(* The types are kept.                                                      *)

LEMMA EmptyRow ==
  EmptyRecord \in [faults : SUBSET Faults, missed_ticks : 0 .. 3, unavailable : BOOLEAN]
<1>1. {} \in SUBSET Faults
  OBVIOUS
<1> QED
  BY <1>1 DEF EmptyRecord

LEMMA InitTypes == NInit => NTypes
<1> SUFFICES ASSUME NInit PROVE NTypes
  OBVIOUS
<1>1. RailwayInv
  BY InitRailway DEF NInit
<1>2. QueueTypes
  BY BoundsAssumption DEF NInit, Queue!Init, QueueTypes, Queue!Outcomes
<1>3. PeerTypes
  <2>1. /\ due = {} /\ running = TRUE /\ held = FALSE /\ record = EmptyRecord
        /\ health \in [Peers -> {"SERVING", "ABSENT"}] /\ failed \subseteq Peers
        /\ told = [p \in Neighbours |-> "OPEN"]
        /\ newest = [p \in Neighbours |-> "TOLD"]
    BY DEF NInit
  <2>2. health \in [Peers -> {"SERVING", "ABSENT", "HUNG"}]
    BY <2>1
  <2> QED
    BY <2>1, <2>2, EmptyRow DEF PeerTypes, CrossingStates
<1> QED
  BY <1>1, <1>2, <1>3 DEF NTypes

LEMMA QueueTypesStep == NTypes /\ [NNext]_nvars => QueueTypes'
<1> SUFFICES ASSUME NTypes, [NNext]_nvars PROVE QueueTypes'
  OBVIOUS
<1> USE DEF NTypes
<1>1. CASE UNCHANGED <<queueVars, to_tell>>
  BY <1>1 DEF QueueTypes
<1>2. CASE PostFaultReport
  <2>1. Message(C1, "FAULT_REPORT") \in Sendable
    BY SentMessage DEF Peers, Verbs
  <2>2. Post(Message(C1, "FAULT_REPORT")) /\ UNCHANGED to_tell
    BY <1>2 DEF PostFaultReport
  <2> QED
    BY <2>1, <2>2, PostTypes DEF QueueTypes
<1>3. CASE HeartbeatPulse
  <2>1. Message(C1, "HEARTBEAT") \in Sendable
    BY SentMessage DEF Peers, Verbs
  <2>2. Post(Message(C1, "HEARTBEAT")) /\ UNCHANGED to_tell
    BY <1>3 DEF HeartbeatPulse
  <2> QED
    BY <2>1, <2>2, PostTypes DEF QueueTypes
<1>4. CASE Broadcast
  <2>1. UNCHANGED queueVars
    BY <1>4 DEF Broadcast
  <2>2. <<>> \in Seq(Sendable)
    OBVIOUS
  <2>3. to_tell' \in Seq(Sendable)
    BY <1>4, <2>2, BroadcastEffect
  <2> QED
    BY <2>1, <2>3 DEF QueueTypes
<1>5. CASE PostStatus
  <2>1. /\ to_tell # <<>> /\ to_tell \in Seq(Sendable)
        /\ Post(Head(to_tell)) /\ to_tell' = Tail(to_tell)
    BY <1>5 DEF PostStatus, StatusToPost, QueueTypes
  <2>2. Head(to_tell) \in Sendable /\ to_tell' \in Seq(Sendable)
    BY <2>1, HeadOfJobs
  <2> QED
    BY <2>1, <2>2, PostTypes DEF QueueTypes
<1>6. CASE BeginJob
  <2>1. /\ waiting # <<>> /\ current' = Head(waiting) /\ waiting' = Tail(waiting)
        /\ outcome' = "PENDING" /\ UNCHANGED to_tell
    BY <1>6 DEF BeginJob, Queue!Begin
  <2>2. /\ Head(waiting) \in Sendable /\ waiting' \in Seq(Sendable)
        /\ Len(waiting') = Len(waiting) - 1 /\ Len(waiting) \in Nat
    BY <2>1, HeadOfJobs DEF QueueTypes
  <2> QED
    BY <2>1, <2>2, SendableJobs, BoundsAssumption DEF QueueTypes, Queue!Outcomes
<1>7. CASE Deliver \/ FailToDeliver
  <2>1. /\ outcome = "PENDING" /\ outcome' \in {"ANSWERED", "FAILED"}
        /\ UNCHANGED <<waiting, current, to_tell>>
    BY <1>7 DEF Deliver, FailToDeliver, Queue!Conclude
  <2> QED
    BY <2>1 DEF QueueTypes, Queue!Outcomes, Queue!Results
<1>8. CASE ReportOutcome
  <2>1. current' = NoJob /\ outcome' = "NONE" /\ UNCHANGED <<waiting, to_tell>>
    BY <1>8 DEF ReportOutcome, Queue!Report
  <2> QED
    BY <2>1 DEF QueueTypes, Queue!Outcomes
<1>9. CASE CrossingDies
  <2>1. current' = NoJob /\ outcome' = "NONE" /\ waiting' = <<>> /\ to_tell' = <<>>
    BY <1>9 DEF CrossingDies
  <2> QED
    BY <2>1, BoundsAssumption DEF QueueTypes, Queue!Outcomes
<1> QED
  BY <1>1, <1>2, <1>3, <1>4, <1>5, <1>6, <1>7, <1>8, <1>9
     DEF NNext, CrossingStep, ClientStep, RailwayPulse, TakeReportPending, Surroundings,
         MonitorPulse, NextSecond, Failure, Die, Start, Hang, Resume, CrossingStarts,
         nvars

\* What Central's row may become.
LEMMA RecordTypes ==
  ASSUME PeerTypes, NEW j \in Sendable
  PROVE  /\ Recorded(j) \in [faults : SUBSET Faults, missed_ticks : 0 .. 3,
                             unavailable : BOOLEAN]
         /\ MonitorTicked \in [faults : SUBSET Faults, missed_ticks : 0 .. 3,
                               unavailable : BOOLEAN]
BY SendableJobs DEF PeerTypes, Recorded, Heard, MonitorTicked

LEMMA PeerTypesStep == NTypes /\ [NNext]_nvars => PeerTypes'
<1> SUFFICES ASSUME NTypes, [NNext]_nvars PROVE PeerTypes'
  OBVIOUS
<1> USE DEF NTypes
<1>1. CASE UNCHANGED <<due, told, newest, record, failureVars>>
  BY <1>1 DEF PeerTypes
<1>2. CASE \/ \E repaired \in Repairs : RailwayPulse(repaired)
           \/ PostFaultReport \/ HeartbeatPulse \/ NextSecond
  <2>1. due' \subseteq Timers /\ UNCHANGED <<told, newest, record, failureVars>>
    BY <1>2 DEF RailwayPulse, PostFaultReport, HeartbeatPulse, NextSecond, Pulse, PeerTypes,
                Timers
  <2> QED
    BY <2>1 DEF PeerTypes
<1>3. CASE PostStatus
  <2>1. newest' \in [Neighbours -> {"TOLD", "PENDING", "LOST"}]
    BY <1>3 DEF PostStatus, PeerTypes
  <2>2. UNCHANGED <<due, told, record, failureVars>>
    BY <1>3 DEF PostStatus
  <2> QED
    BY <2>1, <2>2 DEF PeerTypes
<1>4. CASE MonitorPulse
  <2>1. /\ due' \subseteq Timers /\ record' \in {record, MonitorTicked}
        /\ UNCHANGED <<told, newest, failureVars>>
    BY <1>4 DEF MonitorPulse, Pulse, PeerTypes
  <2>2. current \in Sendable \/ current = NoJob
    BY DEF QueueTypes
  <2>3. MonitorTicked \in [faults : SUBSET Faults, missed_ticks : 0 .. 3,
                           unavailable : BOOLEAN]
    BY DEF PeerTypes, MonitorTicked
  <2> QED
    BY <2>1, <2>3 DEF PeerTypes
<1>5. CASE Deliver
  <2>1. current \in Sendable /\ UNCHANGED <<due, failureVars>>
    BY <1>5 DEF Deliver, QueueTypes
  <2>2. CASE current.target_id = C1
    <3>1. record' = Recorded(current) /\ UNCHANGED <<told, newest>>
      BY <1>5, <2>2 DEF Deliver
    <3> QED
      BY <2>1, <3>1, RecordTypes DEF PeerTypes
  <2>3. CASE current.target_id # C1
    <3>1. /\ told' = [told EXCEPT ![current.target_id] = current.crossing]
          /\ newest' = Fate(current.target_id, "TOLD") /\ UNCHANGED record
      BY <1>5, <2>3 DEF Deliver
    <3> QED
      BY <2>1, <2>3, <3>1, SendableJobs DEF PeerTypes, Fate
  <2> QED
    BY <2>2, <2>3
<1>6. CASE FailToDeliver
  <2>1. /\ UNCHANGED <<due, told, record, failureVars>>
        /\ newest' \in {newest, Fate(current.target_id, "LOST")}
    BY <1>6 DEF FailToDeliver
  <2> QED
    BY <2>1 DEF PeerTypes, Fate
<1>7. ASSUME NEW p \in Peers, Die(p) PROVE PeerTypes'
  <2>1. /\ failed' \subseteq Peers \cup {Self} /\ UNCHANGED <<due, running, held>>
        /\ health' \in [Peers -> {"SERVING", "ABSENT", "HUNG"}]
    BY <1>7 DEF Die, Fails, PeerTypes
  <2>2. CASE p = C1
    BY <1>7, <2>1, <2>2, EmptyRow DEF Die, PeerTypes
  <2>3. CASE p # C1
    <3>1. /\ told' = [told EXCEPT ![p] = "OPEN"] /\ UNCHANGED record
          /\ newest' = [newest EXCEPT ![p] = IF @ = "PENDING" THEN @ ELSE "LOST"]
      BY <1>7, <2>3 DEF Die
    <3> QED
      BY <2>1, <3>1 DEF PeerTypes, CrossingStates
  <2> QED
    BY <2>2, <2>3
<1>8. ASSUME NEW p \in Peers, Start(p) \/ Hang(p) \/ Resume(p) PROVE PeerTypes'
  <2>1. /\ \/ health' = [health EXCEPT ![p] = "SERVING"]
           \/ health' = [health EXCEPT ![p] = "HUNG"]
        /\ failed' = failed \/ failed' = failed \cup {p}
        /\ held' = held \/ held' = TRUE
        /\ UNCHANGED <<due, running, told, newest, record>>
    BY <1>8 DEF Start, Hang, Resume, Fails
  <2> QED
    BY <2>1 DEF PeerTypes
<1>9. CASE CrossingDies
  <2>1. /\ due' \subseteq Timers /\ running' = FALSE /\ failed' \subseteq Peers \cup {Self}
        /\ newest' \in [Neighbours -> {"TOLD", "PENDING", "LOST"}]
        /\ UNCHANGED <<health, told, record, held>>
    BY <1>9 DEF CrossingDies, Fails, PeerTypes
  <2> QED
    BY <2>1 DEF PeerTypes
<1>10. CASE CrossingStarts
  BY <1>10 DEF CrossingStarts, PeerTypes
<1> QED
  BY <1>1, <1>2, <1>3, <1>4, <1>5, <1>6, <1>7, <1>8, <1>9, <1>10
     DEF NNext, CrossingStep, ClientStep, TakeReportPending, Broadcast, Surroundings,
         BeginJob, ReportOutcome, Failure, nvars

LEMMA TypesStep == NTypes /\ [NNext]_nvars => NTypes'
BY RailwayStep, QueueTypesStep, PeerTypesStep DEF NTypes

\* The queue, the timers, the peers and Central's row keep their types, and the
\* crossing keeps its own among its peers.
THEOREM NetworkTypeCorrect == NSpec => []NTypeOK
<1>1. NTypes => NTypeOK
  <2> SUFFICES ASSUME NTypes PROVE NTypeOK
    OBVIOUS
  <2>1. TypeOK
    BY DEF NTypes, RailwayInv, MachineInv, MachineTypes, WindowTypes, ServerTypes, TypeOK
  <2>2. waiting \in Seq(Jobs) /\ to_tell \in Seq(Jobs) /\ current \in Jobs \cup {NoJob}
    BY SendableJobs DEF NTypes, QueueTypes
  <2> QED
    BY <2>1, <2>2 DEF NTypes, QueueTypes, PeerTypes, NTypeOK
<1> QED
  BY InitTypes, TypesStep, <1>1, PTL DEF NSpec


-----------------------------------------------------------------------------
(* Statuses arrive in the order of the states they tell.                    *)

\* A neighbour that is up to date has nothing on its way; one that is not has the
\* newest status behind all others for it.
UpToDate(p) ==
  newest[p] = "TOLD" =>
    /\ NoneOf(waiting, To(p)) /\ ~SendOpen(p)
    /\ NoneOf(to_tell, To(p)) /\ last_broadcast # "NONE" => told[p] = last_broadcast

NewestIsLast(p) ==
  newest[p] = "PENDING" /\ NoneOf(to_tell, To(p)) =>
    /\ LastOf(waiting, To(p), Saying(last_broadcast))
    /\ NoneOf(waiting, To(p)) => SendOpen(p) /\ current.crossing = last_broadcast

TellInv ==
  /\ step # "IDLE" => to_tell = <<>>
  /\ AllOf(to_tell, NeighboursHear(last_broadcast))
  /\ \A p \in Neighbours : UpToDate(p) /\ NewestIsLast(p)

\* What these invariants read.
LEMMA TellFrame ==
  ASSUME TellInv, UNCHANGED <<queueVars, to_tell, last_broadcast, told, newest>>,
         step' # "IDLE" => to_tell = <<>>
  PROVE  TellInv'
BY DEF TellInv, UpToDate, NewestIsLast, SendOpen

LEMMA InitTells == NInit => TellInv
<1> SUFFICES ASSUME NInit PROVE TellInv
  OBVIOUS
<1>1. /\ waiting = <<>> /\ to_tell = <<>> /\ current = NoJob /\ last_broadcast = "NONE"
      /\ \A p \in Neighbours : newest[p] = "TOLD"
  BY DEF NInit, Init, Queue!Init
<1> QED
  BY <1>1, EmptyQueue DEF TellInv, UpToDate, NewestIsLast, SendOpen

\* A message to Central does not concern the neighbours.
LEMMA CentralPostTells ==
  ASSUME NTypes, TellInv, NEW j \in Sendable, j.target_id = C1, Post(j),
         UNCHANGED <<to_tell, last_broadcast, told, newest>>,
         step' # "IDLE" => to_tell = <<>>
  PROVE  TellInv'
<1>1. CASE UNCHANGED waiting
  BY <1>1, PostEffect, TellFrame
<1>2. CASE waiting' = Append(waiting, j)
  <2>1. waiting \in Seq(Sendable) /\ UNCHANGED <<current, outcome>>
    BY PostEffect DEF NTypes, QueueTypes
  <2>2. ASSUME NEW p \in Neighbours
        PROVE  UpToDate(p)' /\ NewestIsLast(p)'
    <3>1. j \notin To(p)
      BY PeersAssumption DEF To
    <3>2. NoneOf(waiting', To(p)) <=> NoneOf(waiting, To(p))
      BY <1>2, <2>1, <3>1, AppendNone
    <3>3. LastOf(waiting', To(p), Saying(last_broadcast)) <=>
            LastOf(waiting, To(p), Saying(last_broadcast))
      BY <1>2, <2>1, <3>1, AppendLast
    <3>4. UpToDate(p) /\ NewestIsLast(p)
      BY DEF TellInv
    <3>5. UpToDate(p)'
      BY <2>1, <3>2, <3>4 DEF UpToDate, SendOpen
    <3>6. NewestIsLast(p)'
      BY <2>1, <3>2, <3>3, <3>4 DEF NewestIsLast, SendOpen
    <3> QED
      BY <3>5, <3>6
  <2> QED
    BY <2>2 DEF TellInv
<1> QED
  BY <1>1, <1>2, PostEffect

LEMMA BroadcastTells ==
  ASSUME NTypes, TellInv, Broadcast
  PROVE  TellInv'
<1>1. /\ step = "BROADCASTING" /\ step' = "IDLE"
      /\ UNCHANGED <<waiting, current, outcome, told, newest>>
  BY DEF Broadcast, BroadcastCrossingStatus
<1>2. to_tell = <<>>
  BY <1>1 DEF TellInv
<1>3. CASE last_broadcast' = last_broadcast /\ to_tell' = <<>>
  BY <1>1, <1>2, <1>3, TellFrame
<1>4. CASE /\ AllOf(to_tell', NeighboursHear(last_broadcast'))
           /\ \A p \in Neighbours : ~NoneOf(to_tell', To(p))
  <2>1. ASSUME NEW p \in Neighbours
        PROVE  UpToDate(p)' /\ NewestIsLast(p)'
    <3>1. UpToDate(p) /\ ~NoneOf(to_tell', To(p))
      BY <1>4 DEF TellInv
    <3> QED
      BY <1>1, <3>1 DEF UpToDate, NewestIsLast, SendOpen
  <2> QED
    BY <1>1, <1>4, <2>1 DEF TellInv
<1> QED
  BY <1>3, <1>4, BroadcastEffect DEF NTypes

LEMMA PostStatusTells ==
  ASSUME NTypes, TellInv, PostStatus
  PROVE  TellInv'
<1> DEFINE j == Head(to_tell)
<1>1. /\ to_tell # <<>> /\ to_tell \in Seq(Sendable) /\ Post(j) /\ to_tell' = Tail(to_tell)
      /\ newest' = [p \in Neighbours |-> IF p # j.target_id THEN newest[p]
                                         ELSE IF Queue!Full THEN "LOST" ELSE "PENDING"]
      /\ UNCHANGED <<step, last_broadcast, told>>
  BY DEF PostStatus, StatusToPost, NTypes, QueueTypes, vars
<1>2. /\ j \in Sendable /\ j \in Jobs /\ waiting \in Seq(Sendable)
      /\ UNCHANGED <<current, outcome>>
  BY <1>1, HeadOfJobs, PostEffect, SendableJobs DEF NTypes, QueueTypes
<1>3. /\ AllOf(to_tell', NeighboursHear(last_broadcast))
      /\ j \in NeighboursHear(last_broadcast)
  BY <1>1, TailAll DEF TellInv
<1>4. step' = "IDLE"
  BY <1>1 DEF TellInv
<1>5. \/ Queue!Full /\ UNCHANGED waiting
      \/ ~Queue!Full /\ waiting' = Append(waiting, j)
  BY <1>1, PostEffect DEF Queue!Full
<1> HIDE DEF j
<1>6. ASSUME NEW p \in Neighbours
      PROVE  UpToDate(p)' /\ NewestIsLast(p)'
  <2>1. UpToDate(p) /\ NewestIsLast(p) /\ p # C1
    BY PeersAssumption DEF TellInv
  <2>2. CASE p # j.target_id
    <3>1. j \notin To(p) /\ newest'[p] = newest[p]
      BY <1>1, <2>2 DEF To
    <3>2. NoneOf(to_tell', To(p)) <=> NoneOf(to_tell, To(p))
      BY <1>1, <3>1, TailNone DEF j
    <3>3. /\ NoneOf(Append(waiting, j), To(p)) <=> NoneOf(waiting, To(p))
          /\ LastOf(Append(waiting, j), To(p), Saying(last_broadcast)) <=>
               LastOf(waiting, To(p), Saying(last_broadcast))
      BY <1>2, <3>1, AppendNone, AppendLast
    <3>4. /\ NoneOf(waiting', To(p)) <=> NoneOf(waiting, To(p))
          /\ LastOf(waiting', To(p), Saying(last_broadcast)) <=>
               LastOf(waiting, To(p), Saying(last_broadcast))
      BY <1>5, <3>3
    <3>5. UpToDate(p)'
      BY <1>1, <1>2, <2>1, <3>1, <3>2, <3>4 DEF UpToDate, SendOpen
    <3>6. NewestIsLast(p)'
      BY <1>1, <1>2, <2>1, <3>1, <3>2, <3>4 DEF NewestIsLast, SendOpen
    <3> QED
      BY <3>5, <3>6
  <2>3. CASE p = j.target_id /\ Queue!Full
    BY <1>1, <2>3 DEF UpToDate, NewestIsLast
  <2>4. CASE p = j.target_id /\ ~Queue!Full
    <3>1. newest'[p] = "PENDING" /\ waiting' = Append(waiting, j)
      BY <1>1, <1>5, <2>4
    <3>2. j \in To(p) /\ j \in Saying(last_broadcast)
      BY <1>2, <1>3, <2>1, <2>4 DEF To, Saying, NeighboursHear
    <3>3. LastOf(waiting', To(p), Saying(last_broadcast)) /\ ~NoneOf(waiting', To(p))
      BY <1>2, <3>1, <3>2, AppendLast, AppendNone
    <3> QED
      BY <1>1, <3>1, <3>3 DEF UpToDate, NewestIsLast
  <2> QED
    BY <2>2, <2>3, <2>4
<1> QED
  BY <1>1, <1>3, <1>4, <1>6 DEF TellInv

LEMMA BeginTells ==
  ASSUME NTypes, TellInv, BeginJob
  PROVE  TellInv'
<1>1. /\ current = NoJob /\ waiting # <<>> /\ waiting \in Seq(Sendable)
      /\ current' = Head(waiting) /\ waiting' = Tail(waiting) /\ outcome' = "PENDING"
      /\ UNCHANGED <<step, last_broadcast, to_tell, told, newest>>
  BY DEF BeginJob, Queue!Begin, NTypes, QueueTypes, vars
<1>2. current' \in Jobs /\ current' # NoJob
  BY <1>1, HeadOfJobs, SendableJobs
<1>3. ASSUME NEW p \in Neighbours
      PROVE  UpToDate(p)' /\ NewestIsLast(p)'
  <2>1. UpToDate(p) /\ NewestIsLast(p) /\ ~SendOpen(p)
    BY <1>1 DEF TellInv, SendOpen
  <2>2. NoneOf(waiting, To(p)) <=> current' \notin To(p) /\ NoneOf(waiting', To(p))
    BY <1>1, TailNone
  <2>3. SendOpen(p)' <=> current' \in To(p)
    BY <1>1, <1>2 DEF SendOpen, To
  <2>4. UpToDate(p)'
    BY <1>1, <2>1, <2>2, <2>3 DEF UpToDate
  <2>5. ASSUME newest[p] = "PENDING", NoneOf(to_tell, To(p))
        PROVE  /\ LastOf(waiting', To(p), Saying(last_broadcast))
               /\ NoneOf(waiting', To(p)) =>
                    SendOpen(p)' /\ current'.crossing = last_broadcast
    <3>1. LastOf(waiting, To(p), Saying(last_broadcast)) /\ ~NoneOf(waiting, To(p))
      BY <2>1, <2>5 DEF NewestIsLast
    <3>2. /\ LastOf(waiting', To(p), Saying(last_broadcast))
          /\ NoneOf(waiting', To(p)) /\ current' \in To(p) =>
               current' \in Saying(last_broadcast)
      BY <1>1, <3>1, TailLast
    <3> QED
      BY <2>2, <2>3, <3>1, <3>2 DEF Saying
  <2>6. NewestIsLast(p)'
    BY <1>1, <2>5 DEF NewestIsLast
  <2> QED
    BY <2>4, <2>6
<1> QED
  BY <1>1, <1>3 DEF TellInv

\* What is on its way, in terms of the queues.
LEMMA OnTheWayMeans ==
  ASSUME NTypes, NEW p \in Peers
  PROVE  ~OnTheWay(p) <=> NoneOf(to_tell, To(p)) /\ NoneOf(waiting, To(p))
<1>1. /\ \A i \in 1 .. Len(to_tell) : to_tell[i] \in Jobs
      /\ \A i \in 1 .. Len(waiting) : waiting[i] \in Jobs
  BY SendableJobs DEF NTypes, QueueTypes
<1> QED
  BY <1>1 DEF OnTheWay, NoneOf, To

LEMMA ConcludeTells ==
  ASSUME NTypes, TellInv, Deliver \/ FailToDeliver
  PROVE  TellInv'
<1> DEFINE t == current.target_id
<1>1. /\ current # NoJob /\ outcome = "PENDING" /\ outcome' # "PENDING"
      /\ current \in Sendable
      /\ UNCHANGED <<step, last_broadcast, waiting, current, to_tell>>
  BY DEF Deliver, FailToDeliver, Queue!Conclude, NTypes, QueueTypes, vars
<1>2. \A p \in Peers : (SendOpen(p) <=> p = t) /\ ~SendOpen(p)'
  BY <1>1 DEF SendOpen
<1>3. /\ t \in Peers /\ (t # C1 => t \in Neighbours)
      /\ newest \in [Neighbours -> {"TOLD", "PENDING", "LOST"}]
      /\ told \in [Neighbours -> CrossingStates]
  BY <1>1, SendableJobs DEF NTypes, PeerTypes
<1>4. ASSUME NEW p \in Neighbours, p # t
      PROVE  newest'[p] = newest[p] /\ told'[p] = told[p]
  BY <1>3, <1>4 DEF Deliver, FailToDeliver, Fate
<1>5. ASSUME NEW p \in Neighbours, p = t
      PROVE  /\ newest'[p] \in {newest[p], "TOLD", "LOST"}
             /\ newest'[p] # newest[p] => newest[p] = "PENDING" /\ ~OnTheWay(p)
             /\ newest[p] = "PENDING" /\ ~OnTheWay(p) => newest'[p] # "PENDING"
             /\ newest'[p] = "TOLD" /\ newest[p] # "TOLD" => told'[p] = current.crossing
  <2>1. t # C1
    BY <1>5, PeersAssumption
  <2>2. CASE Deliver
    BY <1>3, <1>5, <2>1, <2>2 DEF Deliver, Fate
  <2>3. CASE FailToDeliver
    BY <1>3, <1>5, <2>1, <2>3 DEF FailToDeliver, Fate
  <2> QED
    BY <2>2, <2>3
<1> HIDE DEF t
<1>6. ASSUME NEW p \in Neighbours
      PROVE  UpToDate(p)' /\ NewestIsLast(p)'
  <2>1. UpToDate(p) /\ NewestIsLast(p) /\ p \in Peers
    BY DEF TellInv, Peers
  <2>2. ~OnTheWay(p) <=> NoneOf(to_tell, To(p)) /\ NoneOf(waiting, To(p))
    BY <2>1, OnTheWayMeans
  <2>3. CASE p # t
    <3>1. newest'[p] = newest[p] /\ told'[p] = told[p] /\ ~SendOpen(p) /\ ~SendOpen(p)'
      BY <1>2, <1>4, <2>1, <2>3
    <3> QED
      BY <1>1, <2>1, <3>1 DEF UpToDate, NewestIsLast
  <2>4. CASE p = t
    <3>1. newest[p] # "TOLD" /\ ~SendOpen(p)'
      BY <1>2, <2>1, <2>4 DEF UpToDate
    <3>2. ASSUME newest'[p] = "TOLD"
          PROVE  /\ NoneOf(waiting', To(p)) /\ ~SendOpen(p)'
                 /\ told'[p] = last_broadcast
      <4>1. /\ newest[p] = "PENDING" /\ ~OnTheWay(p) /\ told'[p] = current.crossing
        BY <1>5, <2>4, <3>1, <3>2
      <4> QED
        BY <1>1, <2>1, <2>2, <3>1, <4>1 DEF NewestIsLast
    <3>3. ASSUME newest'[p] = "PENDING", NoneOf(to_tell', To(p))
          PROVE  /\ LastOf(waiting', To(p), Saying(last_broadcast))
                 /\ ~NoneOf(waiting', To(p))
      <4>1. newest[p] = "PENDING" /\ OnTheWay(p)
        BY <1>5, <2>4, <3>3
      <4> QED
        BY <1>1, <2>1, <2>2, <3>3, <4>1 DEF NewestIsLast
    <3> QED
      BY <1>1, <3>2, <3>3 DEF UpToDate, NewestIsLast
  <2> QED
    BY <2>3, <2>4
<1> QED
  BY <1>1, <1>6 DEF TellInv

LEMMA ReportTells ==
  ASSUME NTypes, TellInv, ReportOutcome
  PROVE  TellInv'
<1>1. /\ outcome \in {"ANSWERED", "FAILED"} /\ outcome' = "NONE"
      /\ UNCHANGED <<step, last_broadcast, waiting, to_tell, told, newest>>
  BY DEF ReportOutcome, Queue!Report, Queue!Results, OnHeartbeatResult, vars
<1>2. \A p \in Neighbours : ~SendOpen(p) /\ ~SendOpen(p)'
  BY <1>1 DEF SendOpen
<1>3. \A p \in Neighbours : UpToDate(p)' /\ NewestIsLast(p)'
  BY <1>1, <1>2 DEF TellInv, UpToDate, NewestIsLast
<1> QED
  BY <1>1, <1>3 DEF TellInv

\* A neighbour that dies is not up to date, until another status has reached it.
LEMMA DeathTells ==
  ASSUME NTypes, TellInv, NEW q \in Peers, Die(q)
  PROVE  TellInv'
<1>1. UNCHANGED <<step, last_broadcast, waiting, current, outcome, to_tell>>
  BY DEF Die, vars
<1>2. ASSUME NEW p \in Neighbours
      PROVE  UpToDate(p)' /\ NewestIsLast(p)'
  <2>1. UpToDate(p) /\ NewestIsLast(p)
    BY DEF TellInv
  <2>2. \/ newest'[p] = newest[p] /\ told'[p] = told[p]
        \/ newest'[p] = "LOST"
        \/ newest[p] = "PENDING" /\ newest'[p] = "PENDING"
    BY DEF Die, NTypes, PeerTypes
  <2> QED
    BY <1>1, <2>1, <2>2 DEF UpToDate, NewestIsLast, SendOpen
<1> QED
  BY <1>1, <1>2 DEF TellInv

LEMMA OwnDeathTells == CrossingDies => TellInv'
<1> SUFFICES ASSUME CrossingDies PROVE TellInv'
  OBVIOUS
<1>1. /\ waiting' = <<>> /\ to_tell' = <<>> /\ current' = NoJob /\ last_broadcast' = "NONE"
      /\ \A p \in Neighbours : newest'[p] \in {"TOLD", "LOST"}
  BY DEF CrossingDies
<1> QED
  BY <1>1, EmptyQueue DEF TellInv, UpToDate, NewestIsLast, SendOpen

LEMMA TellsStep == NTypes /\ TellInv /\ [NNext]_nvars => TellInv'
<1> SUFFICES ASSUME NTypes, TellInv, [NNext]_nvars PROVE TellInv'
  OBVIOUS
<1>1. CASE UNCHANGED <<queueVars, to_tell, step, last_broadcast, told, newest>>
  BY <1>1, TellFrame DEF TellInv
<1>2. CASE \E repaired \in Repairs : RailwayPulse(repaired)
  <2>1. to_tell = <<>> /\ UNCHANGED <<queueVars, to_tell, last_broadcast, told, newest>>
    BY <1>2 DEF RailwayPulse, ServerIdle, OnTick
  <2> QED
    BY <2>1, TellFrame
<1>3. CASE TakeReportPending
  <2>1. step # "IDLE" /\ UNCHANGED <<queueVars, to_tell, last_broadcast, told, newest>>
    BY <1>3 DEF TakeReportPending, TakeFaultReportPending
  <2> QED
    BY <2>1, TellFrame DEF TellInv
<1>4. CASE PostFaultReport
  <2>1. /\ step # "IDLE" /\ UNCHANGED <<to_tell, last_broadcast, told, newest>>
        /\ Post(Message(C1, "FAULT_REPORT"))
    BY <1>4 DEF PostFaultReport, SendFaultReport
  <2>2. /\ Message(C1, "FAULT_REPORT") \in Sendable
        /\ Message(C1, "FAULT_REPORT").target_id = C1
    BY SentMessage DEF Peers, Verbs, NTypes
  <2> QED
    BY <2>1, <2>2, CentralPostTells DEF TellInv
<1>5. CASE HeartbeatPulse
  <2>1. /\ UNCHANGED <<step, to_tell, last_broadcast, told, newest>> /\ to_tell = <<>>
        /\ Post(Message(C1, "HEARTBEAT"))
    BY <1>5 DEF HeartbeatPulse, ServerIdle, RefusedHeartbeat, OnHeartbeatResult, vars
  <2>2. /\ Message(C1, "HEARTBEAT") \in Sendable
        /\ Message(C1, "HEARTBEAT").target_id = C1
    BY SentMessage DEF Peers, Verbs, NTypes
  <2> QED
    BY <2>1, <2>2, CentralPostTells
<1>6. CASE Surroundings
  BY <1>6, <1>1 DEF Surroundings, TrainApproaching, OtherThreads, SimulateTrainApproaching,
                    ArmDemoFault, ForceConfirmedOpen, OnFaultClear, ReportWatchdogTrip,
                    OnHeartbeatResult
<1>7. CASE MonitorPulse \/ NextSecond \/ CrossingStarts
  BY <1>7, <1>1 DEF MonitorPulse, NextSecond, CrossingStarts, vars
<1>8. CASE \E p \in Peers : Start(p) \/ Hang(p) \/ Resume(p)
  BY <1>8, <1>1 DEF Start, Hang, Resume, vars
<1>9. CASE UNCHANGED nvars
  BY <1>9, <1>1 DEF nvars, vars
<1> QED
  BY <1>2, <1>3, <1>4, <1>5, <1>6, <1>7, <1>8, <1>9, BroadcastTells, PostStatusTells,
     BeginTells, ConcludeTells, ReportTells, DeathTells, OwnDeathTells
     DEF NNext, CrossingStep, ClientStep, Failure

\* A neighbour that took the newest status knows the crossing as it was last
\* broadcast, whatever was refused, lost or held up in between.
THEOREM NeighboursToldInOrder == NSpec => []TellsInOrder
<1>1. NTypes /\ TellInv => TellsInOrder
  <2> SUFFICES ASSUME NTypes, TellInv, NEW p \in Neighbours, last_broadcast # "NONE",
                      newest[p] = "TOLD", ~OnTheWay(p)
               PROVE  told[p] = last_broadcast
    BY DEF TellsInOrder
  <2>1. NoneOf(to_tell, To(p))
    BY OnTheWayMeans DEF Peers
  <2> QED
    BY <2>1 DEF TellInv, UpToDate
<1> QED
  BY InitTypes, TypesStep, InitTells, TellsStep, <1>1, PTL DEF NSpec


-----------------------------------------------------------------------------
(* While no peer hangs, a second ends with its messages delivered.          *)

PeersInv ==
  /\ ~held => \A p \in Peers : health[p] # "HUNG"
  /\ \A p \in Peers : health[p] # "SERVING" => p \in failed
  /\ health[C1] = "ABSENT" => record = EmptyRecord
  /\ Self \notin failed => running

\* The beat of a second finds the queue empty, its other pulse finds nothing for
\* a neighbour in it, and what follows never fills it up.
PromptInv ==
  ~held =>
    /\ "HEARTBEAT" \in due => waiting = <<>> /\ current = NoJob /\ ServerIdle
    /\ "RAILWAY" \in due =>
         /\ ServerIdle /\ Len(waiting) <= 1
         /\ \A p \in Neighbours : NoneOf(waiting, To(p)) /\ ~SendOpen(p)
    /\ step \in {"TICKED", "REPORTING"} => Len(waiting) <= 1
    /\ step = "BROADCASTING" => Len(waiting) <= 2
    /\ to_tell # <<>> => /\ Len(waiting) + Len(to_tell) <= Len(Adjacent) + 3
                         /\ to_tell[Len(to_tell)].target_id = C1

LEMMA InitPrompt == NInit => PeersInv /\ PromptInv
BY DEF NInit, Init, Queue!Init, PeersInv, PromptInv, Peers

LEMMA HeldForGood == [NNext]_nvars /\ ~held' => ~held
BY DEF NNext, CrossingStep, ClientStep, RailwayPulse, TakeReportPending, PostFaultReport,
       Broadcast, PostStatus, HeartbeatPulse, BeginJob, Deliver, FailToDeliver,
       ReportOutcome, Surroundings, MonitorPulse, NextSecond, Failure, Die, Start, Hang,
       Resume, CrossingDies, CrossingStarts, nvars

LEMMA PeersStep == NTypes /\ PeersInv /\ [NNext]_nvars => PeersInv'
<1> SUFFICES ASSUME NTypes, PeersInv, [NNext]_nvars PROVE PeersInv'
  OBVIOUS
<1>1. /\ health \in [Peers -> {"SERVING", "ABSENT", "HUNG"}] /\ Self \notin Peers
      /\ C1 \in Peers
  BY PeersAssumption DEF NTypes, PeerTypes, Peers
<1>2. CASE UNCHANGED <<health, failed, held, running, record>>
  BY <1>2 DEF PeersInv
<1>3. CASE MonitorPulse
  <2>1. /\ UNCHANGED <<health, failed, held, running>>
        /\ health[C1] = "ABSENT" => record' = record
    BY <1>3 DEF MonitorPulse
  <2> QED
    BY <2>1 DEF PeersInv
<1>4. CASE Deliver
  <2>1. /\ UNCHANGED <<health, failed, held, running>>
        /\ health[C1] = "ABSENT" => record' = record
    BY <1>4 DEF Deliver
  <2> QED
    BY <2>1 DEF PeersInv
<1>5. ASSUME NEW p \in Peers, Die(p) PROVE PeersInv'
  <2>1. /\ health' = [health EXCEPT ![p] = "ABSENT"] /\ UNCHANGED <<running, held>>
        /\ failed' = failed \/ failed' = failed \cup {p}
        /\ health[p] = "SERVING" => failed' = failed \cup {p}
        /\ p = C1 => record' = EmptyRecord
        /\ p # C1 => record' = record
    BY <1>5 DEF Die, Fails
  <2>2. p \in failed'
    BY <2>1 DEF PeersInv
  <2> QED
    BY <1>1, <2>1, <2>2 DEF PeersInv
<1>6. ASSUME NEW p \in Peers, Start(p) \/ Resume(p) PROVE PeersInv'
  <2>1. /\ health' = [health EXCEPT ![p] = "SERVING"]
        /\ UNCHANGED <<failed, running, held, record>>
    BY <1>6 DEF Start, Resume
  <2> QED
    BY <1>1, <2>1 DEF PeersInv
<1>7. ASSUME NEW p \in Peers, Hang(p) PROVE PeersInv'
  <2>1. /\ health' = [health EXCEPT ![p] = "HUNG"] /\ failed' = failed \cup {p}
        /\ held' = TRUE /\ UNCHANGED <<running, record>>
    BY <1>7 DEF Hang, Fails
  <2> QED
    BY <1>1, <2>1 DEF PeersInv
<1>8. CASE CrossingDies
  BY <1>1, <1>8 DEF CrossingDies, Fails, PeersInv
<1>9. CASE CrossingStarts
  BY <1>9 DEF CrossingStarts, PeersInv
<1> QED
  BY <1>2, <1>3, <1>4, <1>5, <1>6, <1>7, <1>8, <1>9
     DEF NNext, CrossingStep, ClientStep, RailwayPulse, TakeReportPending, PostFaultReport,
         Broadcast, PostStatus, HeartbeatPulse, BeginJob, FailToDeliver, ReportOutcome,
         Surroundings, NextSecond, Failure, nvars

LEMMA PromptFrame ==
  ASSUME PromptInv, ~held, due' \subseteq due,
         UNCHANGED <<waiting, current, outcome, to_tell, step>>
  PROVE  PromptInv'
BY DEF PromptInv, ServerIdle, SendOpen

LEMMA PulsePrompt ==
  ASSUME NTypes, PromptInv, ~held, NEW repaired \in Repairs, RailwayPulse(repaired)
  PROVE  PromptInv'
<1>1. /\ "HEARTBEAT" \notin due' /\ "RAILWAY" \notin due' /\ to_tell = <<>>
      /\ step' = "TICKED" /\ UNCHANGED <<waiting, to_tell>> /\ Len(waiting) <= 1
  BY DEF RailwayPulse, Pulse, ServerIdle, OnTick, PromptInv
<1> QED
  BY <1>1 DEF PromptInv

LEMMA BeatPrompt ==
  ASSUME NTypes, PromptInv, ~held, HeartbeatPulse
  PROVE  PromptInv'
<1> DEFINE j == Message(C1, "HEARTBEAT")
<1>1. /\ waiting = <<>> /\ current = NoJob /\ ServerIdle /\ Post(j)
      /\ "HEARTBEAT" \notin due' /\ UNCHANGED <<step, to_tell>>
  BY DEF HeartbeatPulse, Pulse, PromptInv, RefusedHeartbeat, OnHeartbeatResult, vars
<1>2. j \in Sendable /\ j.target_id = C1
  BY SentMessage DEF Peers, Verbs, NTypes
<1> HIDE DEF j
<1>3. Len(waiting') <= 1 /\ current' = NoJob
  <2>1. Len(waiting) = 0
    BY <1>1
  <2> QED
    BY <1>1, <1>2, <2>1, PostTypes DEF NTypes
<1>4. ASSUME NEW p \in Neighbours
      PROVE  NoneOf(waiting', To(p))
  <2>1. waiting' = waiting \/ waiting' = Append(waiting, j)
    BY <1>1, PostEffect
  <2>2. j \notin To(p) /\ waiting \in Seq(Sendable)
    BY <1>2, PeersAssumption DEF To, NTypes, QueueTypes
  <2>3. NoneOf(waiting, To(p))
    BY <1>1, EmptyQueue
  <2>4. NoneOf(Append(waiting, j), To(p))
    BY <1>2, <2>2, <2>3, AppendNone
  <2> QED
    BY <2>1, <2>3, <2>4
<1> QED
  BY <1>1, <1>3, <1>4 DEF PromptInv, ServerIdle, SendOpen

LEMMA ReportPostPrompt ==
  ASSUME NTypes, TellInv, PromptInv, ~held, PostFaultReport
  PROVE  PromptInv'
<1>1. /\ step = "REPORTING" /\ step' = "BROADCASTING" /\ UNCHANGED <<due, to_tell>>
      /\ to_tell = <<>> /\ Post(Message(C1, "FAULT_REPORT"))
  BY DEF PostFaultReport, SendFaultReport, TellInv
<1>2. Message(C1, "FAULT_REPORT") \in Sendable
  BY SentMessage DEF Peers, Verbs, NTypes
<1>3. Len(waiting) <= 1 /\ "HEARTBEAT" \notin due /\ "RAILWAY" \notin due
  BY <1>1 DEF PromptInv, ServerIdle
<1>4. Len(waiting) \in Nat /\ Len(waiting') \in Nat /\ Len(waiting') <= Len(waiting) + 1
  BY <1>1, <1>2, PostTypes DEF NTypes, QueueTypes
<1>5. Len(waiting') <= 2
  BY <1>3, <1>4
<1> QED
  BY <1>1, <1>3, <1>5 DEF PromptInv

LEMMA BroadcastPrompt ==
  ASSUME NTypes, PromptInv, ~held, Broadcast
  PROVE  PromptInv'
<1>1. /\ step = "BROADCASTING" /\ step' = "IDLE" /\ UNCHANGED <<due, waiting>>
  BY DEF Broadcast, BroadcastCrossingStatus
<1>2. Len(waiting) <= 2 /\ "HEARTBEAT" \notin due /\ "RAILWAY" \notin due
  BY <1>1 DEF PromptInv, ServerIdle
<1>3. \/ to_tell' = <<>>
      \/ Len(to_tell') = Len(Adjacent) + 1 /\ to_tell'[Len(to_tell')].target_id = C1
  BY BroadcastEffect DEF NTypes
<1>4. Len(waiting) \in Nat /\ Len(Adjacent) \in Nat
  BY AdjacentAssumption DEF NTypes, QueueTypes
<1> QED
  BY <1>1, <1>2, <1>3, <1>4 DEF PromptInv

\* A status is posted into a queue that has room for those of the neighbours.
LEMMA RoomForStatus ==
  ASSUME NTypes, PromptInv, ~held, to_tell # <<>>, Head(to_tell).target_id # C1
  PROVE  ~Queue!Full
<1>1. /\ Len(waiting) \in Nat /\ Len(to_tell) \in Nat /\ Len(Adjacent) \in Nat
      /\ Len(to_tell) # 0 /\ Head(to_tell) = to_tell[1]
  BY AdjacentAssumption DEF NTypes, QueueTypes
<1>2. /\ Len(waiting) + Len(to_tell) <= Len(Adjacent) + 3
      /\ to_tell[Len(to_tell)].target_id = C1
  BY DEF PromptInv
<1>3. Len(to_tell) # 1
  BY <1>1, <1>2
<1> QED
  BY <1>1, <1>2, <1>3, RoomAssumption, BoundsAssumption DEF Queue!Full

LEMMA PostStatusPrompt ==
  ASSUME NTypes, TellInv, PromptInv, ~held, PostStatus
  PROVE  PromptInv'
<1> DEFINE j == Head(to_tell)
<1>1. /\ to_tell # <<>> /\ to_tell \in Seq(Sendable) /\ Post(j) /\ to_tell' = Tail(to_tell)
      /\ UNCHANGED <<step, due>>
  BY DEF PostStatus, StatusToPost, NTypes, QueueTypes, vars
<1>2. /\ j \in Sendable /\ Len(to_tell) \in Nat /\ Len(to_tell') = Len(to_tell) - 1
      /\ \A i \in 1 .. Len(to_tell) - 1 : to_tell'[i] = to_tell[i + 1]
  BY <1>1
<1>3. Len(waiting) \in Nat /\ Len(waiting') \in Nat /\ Len(waiting') <= Len(waiting) + 1
  BY <1>1, <1>2, PostTypes DEF NTypes, QueueTypes
<1>4. step = "IDLE" /\ "HEARTBEAT" \notin due /\ "RAILWAY" \notin due
  BY <1>1 DEF TellInv, PromptInv, ServerIdle
<1>5. /\ Len(waiting) + Len(to_tell) <= Len(Adjacent) + 3
      /\ to_tell[Len(to_tell)].target_id = C1 /\ Len(Adjacent) \in Nat
  BY <1>1, AdjacentAssumption DEF PromptInv
<1>6. ASSUME to_tell' # <<>>
      PROVE  /\ Len(waiting') + Len(to_tell') <= Len(Adjacent) + 3
             /\ to_tell'[Len(to_tell')].target_id = C1
  <2>1. Len(to_tell') # 0 /\ to_tell' \in Seq(Sendable)
    BY <1>1, <1>6
  <2>2. Len(to_tell) - 1 \in 1 .. Len(to_tell) - 1 /\ (Len(to_tell) - 1) + 1 = Len(to_tell)
    BY <1>2, <2>1
  <2>3. to_tell'[Len(to_tell')] = to_tell[Len(to_tell)]
    BY <1>2, <2>2
  <2>4. Len(waiting') + Len(to_tell') <= Len(Adjacent) + 3
    BY <1>2, <1>3, <1>5
  <2> QED
    BY <1>5, <2>3, <2>4
<1> QED
  BY <1>1, <1>4, <1>6 DEF PromptInv

LEMMA BeginPrompt ==
  ASSUME NTypes, PromptInv, ~held, BeginJob
  PROVE  PromptInv'
<1>1. /\ current = NoJob /\ waiting # <<>> /\ waiting \in Seq(Sendable)
      /\ current' = Head(waiting) /\ waiting' = Tail(waiting)
      /\ UNCHANGED <<step, due, to_tell>>
  BY DEF BeginJob, Queue!Begin, NTypes, QueueTypes, vars
<1>2. /\ Len(waiting) \in Nat /\ Len(waiting') = Len(waiting) - 1 /\ "HEARTBEAT" \notin due
      /\ current' \in Jobs /\ Len(Adjacent) \in Nat /\ Len(to_tell) \in Nat
  BY <1>1, HeadOfJobs, SendableJobs, AdjacentAssumption DEF PromptInv, NTypes, QueueTypes
<1>3. ASSUME NEW p \in Neighbours, NoneOf(waiting, To(p))
      PROVE  NoneOf(waiting', To(p)) /\ ~SendOpen(p)'
  <2>1. current' \notin To(p) /\ NoneOf(waiting', To(p))
    BY <1>1, <1>3, TailNone
  <2> QED
    BY <1>2, <2>1 DEF SendOpen, To
<1>4. /\ Len(waiting) <= 1 => Len(waiting') <= 1
      /\ Len(waiting) <= 2 => Len(waiting') <= 2
      /\ Len(waiting) + Len(to_tell) <= Len(Adjacent) + 3 =>
           Len(waiting') + Len(to_tell) <= Len(Adjacent) + 3
  BY <1>2
<1> QED
  BY <1>1, <1>2, <1>3, <1>4 DEF PromptInv, ServerIdle

LEMMA ConcludePrompt ==
  ASSUME NTypes, PromptInv, ~held, Deliver \/ FailToDeliver \/ ReportOutcome
  PROVE  PromptInv'
<1>1. /\ outcome # "NONE" /\ outcome' # "PENDING"
      /\ UNCHANGED <<step, due, to_tell, waiting>>
  BY DEF Deliver, FailToDeliver, ReportOutcome, Queue!Conclude, Queue!Report,
         Queue!Results, OnHeartbeatResult, vars
<1>2. current # NoJob
  BY <1>1 DEF NTypes, QueueTypes
<1> QED
  BY <1>1, <1>2 DEF PromptInv, ServerIdle, SendOpen

LEMMA SecondPrompt ==
  ASSUME NTypes, PeersInv, PromptInv, ~held, NextSecond
  PROVE  PromptInv'
<1>1. UNCHANGED <<waiting, current, outcome, to_tell, step>> /\ SecondOver
  BY DEF NextSecond, vars
<1>2. ~HeldUp
  <2>1. current # NoJob => current.target_id \in Peers
    BY SendableJobs DEF NTypes, QueueTypes
  <2> QED
    BY <2>1 DEF HeldUp, PeersInv
<1>3. waiting = <<>> /\ current = NoJob /\ ServerIdle
  BY <1>1, <1>2 DEF SecondOver
<1>4. \A p \in Neighbours : NoneOf(waiting, To(p))
  BY <1>3, EmptyQueue
<1> QED
  BY <1>1, <1>3, <1>4 DEF PromptInv, ServerIdle, SendOpen

LEMMA PromptStep ==
  NTypes /\ TellInv /\ PeersInv /\ PromptInv /\ [NNext]_nvars => PromptInv'
<1> SUFFICES ASSUME NTypes, TellInv, PeersInv, PromptInv, [NNext]_nvars, ~held'
             PROVE  PromptInv'
  BY DEF PromptInv
<1>1. ~held
  BY HeldForGood
<1>2. CASE due' \subseteq due /\ UNCHANGED <<waiting, current, outcome, to_tell, step>>
  BY <1>1, <1>2, PromptFrame
<1>3. CASE TakeReportPending
  <2>1. /\ step = "TICKED" /\ step' \in {"REPORTING", "BROADCASTING"}
        /\ UNCHANGED <<waiting, to_tell, due>>
    BY <1>3 DEF TakeReportPending, TakeFaultReportPending
  <2>2. Len(waiting) <= 1 /\ "HEARTBEAT" \notin due /\ "RAILWAY" \notin due
    BY <1>1, <2>1 DEF PromptInv, ServerIdle
  <2>3. Len(waiting) <= 2
    BY <2>2 DEF NTypes, QueueTypes
  <2> QED
    BY <1>1, <2>1, <2>2, <2>3 DEF PromptInv
<1>4. CASE Surroundings
  BY <1>4, <1>2 DEF Surroundings, TrainApproaching, OtherThreads, SimulateTrainApproaching,
                    ArmDemoFault, ForceConfirmedOpen, OnFaultClear, ReportWatchdogTrip,
                    OnHeartbeatResult
<1>5. CASE MonitorPulse \/ CrossingStarts
  BY <1>5, <1>2 DEF MonitorPulse, Pulse, CrossingStarts, vars
<1>6. CASE \E p \in Peers : Die(p) \/ Start(p) \/ Hang(p) \/ Resume(p)
  BY <1>6, <1>2 DEF Die, Start, Hang, Resume, vars
<1>7. CASE CrossingDies
  BY <1>7 DEF CrossingDies, PromptInv
<1>8. CASE UNCHANGED nvars
  BY <1>8, <1>2 DEF nvars, vars
<1> QED
  BY <1>1, <1>3, <1>4, <1>5, <1>6, <1>7, <1>8, PulsePrompt, BeatPrompt, ReportPostPrompt,
     BroadcastPrompt, PostStatusPrompt, BeginPrompt, ConcludePrompt, SecondPrompt
     DEF NNext, CrossingStep, ClientStep, Failure


-----------------------------------------------------------------------------
(* A live crossing is heard of every second.                                *)

Beats == {j \in Jobs : j.verb = "HEARTBEAT"}

\* A beat that has not been answered yet is due, waits or is being sent.
BeatComing ==
  \/ "HEARTBEAT" \in due
  \/ ~NoneOf(waiting, Beats)
  \/ outcome = "PENDING" /\ current \in Beats

\* Looks at the row that the beats still to come leave room for.
CountInv ==
  ~held /\ Self \notin failed /\ health[C1] = "SERVING" =>
    /\ ~record.unavailable
    /\ "MONITOR" \in due /\ ~BeatComing => record.missed_ticks = 0
    /\ "MONITOR" \notin due /\ BeatComing => record.missed_ticks <= 2
    /\ ("MONITOR" \in due <=> BeatComing) => record.missed_ticks <= 1

LEMMA InitCount == NInit => CountInv
BY DEF NInit, EmptyRecord, CountInv

\* A beat that still comes keeps the bound, whatever else happens to the queue.
LEMMA CountFrame ==
  ASSUME NTypes, CountInv, UNCHANGED <<due, record, held, failed>>,
         health'[C1] = "SERVING" => health[C1] = "SERVING",
         BeatComing => BeatComing'
  PROVE  CountInv'
<1>1. record.missed_ticks \in 0 .. 3
  BY DEF NTypes, PeerTypes
<1> QED
  BY <1>1 DEF CountInv

LEMMA BeatPosted ==
  ASSUME NTypes, PromptInv, CountInv, HeartbeatPulse
  PROVE  CountInv'
<1> DEFINE j == Message(C1, "HEARTBEAT")
<1>1. /\ "HEARTBEAT" \in due /\ due' = due \ {"HEARTBEAT"} /\ Post(j)
      /\ UNCHANGED <<record, held, failed, health>>
  BY DEF HeartbeatPulse, Pulse
<1>2. j \in Sendable /\ j.verb = "HEARTBEAT"
  BY SentMessage DEF Peers, Verbs, NTypes
<1> HIDE DEF j
<1>3. ASSUME ~held
      PROVE  BeatComing'
  <2>1. waiting = <<>> /\ waiting \in Seq(Sendable) /\ Len(waiting) # CAPACITY
    BY <1>1, <1>3, BoundsAssumption DEF PromptInv, NTypes, QueueTypes
  <2>2. waiting' = Append(waiting, j) /\ j \in Beats
    BY <1>1, <1>2, <2>1, PostEffect, SendableJobs DEF Beats
  <2>3. ~NoneOf(waiting', Beats)
    BY <1>2, <2>1, <2>2, AppendNone
  <2> QED
    BY <2>3 DEF BeatComing
<1>4. BeatComing /\ ("MONITOR" \in due' <=> "MONITOR" \in due)
  BY <1>1 DEF BeatComing
<1> QED
  BY <1>1, <1>3, <1>4 DEF CountInv

LEMMA PostKeepsBeat ==
  ASSUME NTypes, NEW j \in Sendable, Post(j), UNCHANGED due
  PROVE  BeatComing => BeatComing'
<1>1. waiting \in Seq(Sendable)
  BY DEF NTypes, QueueTypes
<1>2. NoneOf(Append(waiting, j), Beats) => NoneOf(waiting, Beats)
  BY <1>1, AppendNone
<1> QED
  BY <1>2, PostEffect DEF BeatComing

LEMMA BeginKeepsBeat ==
  ASSUME NTypes, BeginJob
  PROVE  BeatComing => BeatComing'
<1>1. /\ current = NoJob /\ waiting # <<>> /\ waiting \in Seq(Sendable)
      /\ current' = Head(waiting) /\ waiting' = Tail(waiting) /\ outcome' = "PENDING"
      /\ UNCHANGED due
  BY DEF BeginJob, Queue!Begin, NTypes, QueueTypes
<1>2. NoneOf(waiting, Beats) <=> Head(waiting) \notin Beats /\ NoneOf(waiting', Beats)
  BY <1>1, TailNone
<1>3. NoJob \notin Beats
  BY PeersAssumption DEF Beats
<1> QED
  BY <1>1, <1>2, <1>3 DEF BeatComing

\* An answer from Central starts its count anew, or is not that of a beat.
LEMMA AnswerCounts ==
  ASSUME NTypes, CountInv, Deliver
  PROVE  CountInv'
<1>1. /\ current \in Sendable /\ UNCHANGED <<waiting, current, due, held, failed, health>>
      /\ outcome' = "ANSWERED"
      /\ record' = IF current.target_id = C1 THEN Recorded(current) ELSE record
  BY DEF Deliver, Queue!Conclude, NTypes, QueueTypes
<1>2. CASE current.target_id = C1 /\ current.verb \in {"HEARTBEAT", "CROSSING_STATUS"}
  <2>1. record'.missed_ticks = 0 /\ ~record'.unavailable
    BY <1>1, <1>2 DEF Recorded, Heard
  <2> QED
    BY <2>1 DEF CountInv
<1>3. CASE ~(current.target_id = C1 /\ current.verb \in {"HEARTBEAT", "CROSSING_STATUS"})
  <2>1. current \notin Beats
    BY <1>1, <1>3, SendableJobs DEF Beats
  <2>2. record' = record
    BY <1>1, <1>3 DEF Recorded
  <2> QED
    BY <1>1, <2>1, <2>2, CountFrame DEF BeatComing
<1> QED
  BY <1>2, <1>3

LEMMA FailureCounts ==
  ASSUME NTypes, CountInv, FailToDeliver
  PROVE  CountInv'
<1>1. /\ current \in Sendable /\ health[current.target_id] = "ABSENT"
      /\ UNCHANGED <<waiting, current, due, record, held, failed, health>>
  BY DEF FailToDeliver, Queue!Conclude, NTypes, QueueTypes
<1>2. CASE current.target_id = C1
  BY <1>1, <1>2 DEF CountInv
<1>3. CASE current.target_id # C1
  <2>1. current \notin Beats
    BY <1>1, <1>3, SendableJobs DEF Beats
  <2> QED
    BY <1>1, <2>1, CountFrame DEF BeatComing
<1> QED
  BY <1>2, <1>3

LEMMA ReportCounts ==
  ASSUME NTypes, CountInv, ReportOutcome
  PROVE  CountInv'
<1>1. /\ outcome # "PENDING" /\ UNCHANGED <<waiting, due, record, held, failed, health>>
  BY DEF ReportOutcome, Queue!Report, Queue!Results
<1> QED
  BY <1>1, CountFrame DEF BeatComing

LEMMA MonitorCounts ==
  ASSUME NTypes, CountInv, MonitorPulse
  PROVE  CountInv'
<1>1. /\ "MONITOR" \in due /\ due' = due \ {"MONITOR"}
      /\ UNCHANGED <<waiting, current, outcome, held, failed, health>>
      /\ record' = IF health[C1] = "ABSENT" THEN record ELSE MonitorTicked
  BY DEF MonitorPulse, Pulse
<1>2. BeatComing' <=> BeatComing
  BY <1>1 DEF BeatComing
<1> SUFFICES ASSUME ~held, Self \notin failed, health[C1] = "SERVING"
             PROVE  /\ ~record'.unavailable
                    /\ record'.missed_ticks <= 2
                    /\ ~BeatComing => record'.missed_ticks <= 1
  BY <1>1, <1>2 DEF CountInv
<1>3. /\ record.missed_ticks \in 0 .. 3 /\ record.unavailable = FALSE
      /\ BeatComing => record.missed_ticks <= 1
      /\ ~BeatComing => record.missed_ticks = 0
  BY <1>1 DEF CountInv, NTypes, PeerTypes
<1>4. record.missed_ticks < 3 /\ record.missed_ticks + 1 # 3
  BY <1>3
<1>5. /\ record'.missed_ticks = record.missed_ticks + 1
      /\ record'.unavailable <=> record.unavailable \/ record.missed_ticks + 1 = 3
  BY <1>1, <1>4 DEF MonitorTicked
<1> QED
  BY <1>3, <1>4, <1>5

LEMMA SecondCounts ==
  ASSUME NTypes, PeersInv, CountInv, NextSecond
  PROVE  CountInv'
<1>1. /\ UNCHANGED <<waiting, current, outcome, record, held, failed, health>> /\ SecondOver
      /\ due = {} /\ due' = IF running THEN Timers ELSE {"MONITOR"}
  BY DEF NextSecond, SecondOver
<1> SUFFICES ASSUME ~held, Self \notin failed, health[C1] = "SERVING"
             PROVE  CountInv'
  BY <1>1 DEF CountInv
<1>2. ~HeldUp
  <2>1. current # NoJob => current.target_id \in Peers
    BY SendableJobs DEF NTypes, QueueTypes
  <2> QED
    BY <2>1 DEF HeldUp, PeersInv
<1>3. ~BeatComing
  <2>1. waiting = <<>> /\ current = NoJob /\ NoJob \notin Beats
    BY <1>1, <1>2, PeersAssumption DEF SecondOver, Beats
  <2> QED
    BY <1>1, <2>1, EmptyQueue DEF BeatComing
<1>4. "MONITOR" \in due' /\ BeatComing'
  BY <1>1 DEF PeersInv, Timers, BeatComing
<1>5. record.missed_ticks <= 1 /\ ~record.unavailable
  BY <1>1, <1>3 DEF CountInv
<1> QED
  BY <1>1, <1>4, <1>5 DEF CountInv

LEMMA CountStep ==
  NTypes /\ PeersInv /\ PromptInv /\ CountInv /\ [NNext]_nvars => CountInv'
<1> SUFFICES ASSUME NTypes, PeersInv, PromptInv, CountInv, [NNext]_nvars PROVE CountInv'
  OBVIOUS
<1>1. CASE UNCHANGED <<queueVars, due, record, held, failed, health>>
  BY <1>1, CountFrame DEF BeatComing
<1>2. CASE \E repaired \in Repairs : RailwayPulse(repaired)
  <2>1. /\ due' = due \ {"RAILWAY"}
        /\ UNCHANGED <<waiting, current, outcome, record, held, failed, health>>
    BY <1>2 DEF RailwayPulse, Pulse
  <2>2. (BeatComing' <=> BeatComing) /\ ("MONITOR" \in due' <=> "MONITOR" \in due)
    BY <2>1 DEF BeatComing
  <2> QED
    BY <2>1, <2>2 DEF CountInv
<1>3. CASE PostFaultReport
  <2>1. Post(Message(C1, "FAULT_REPORT")) /\ UNCHANGED <<due, record, held, failed, health>>
    BY <1>3 DEF PostFaultReport
  <2>2. Message(C1, "FAULT_REPORT") \in Sendable
    BY SentMessage DEF Peers, Verbs, NTypes
  <2> QED
    BY <2>1, <2>2, PostKeepsBeat, CountFrame
<1>4. CASE PostStatus
  <2>1. /\ Post(Head(to_tell)) /\ UNCHANGED <<due, record, held, failed, health>>
        /\ to_tell # <<>> /\ to_tell \in Seq(Sendable)
    BY <1>4 DEF PostStatus, StatusToPost, NTypes, QueueTypes
  <2>2. Head(to_tell) \in Sendable
    BY <2>1, HeadOfJobs
  <2> QED
    BY <2>1, <2>2, PostKeepsBeat, CountFrame
<1>5. CASE BeginJob
  BY <1>5, BeginKeepsBeat, CountFrame DEF BeginJob
<1>6. ASSUME NEW p \in Peers, Die(p) \/ Start(p) \/ Hang(p) \/ Resume(p)
      PROVE  CountInv'
  <2>1. UNCHANGED <<waiting, current, outcome, due>>
    BY <1>6 DEF Die, Start, Hang, Resume
  <2>2. health \in [Peers -> {"SERVING", "ABSENT", "HUNG"}] /\ C1 \in Peers
    BY DEF NTypes, PeerTypes, Peers
  <2>3. CASE Hang(p)
    BY <2>3 DEF Hang, CountInv
  <2>4. CASE Die(p)
    <3>1. /\ UNCHANGED held /\ failed \subseteq failed'
          /\ health' = [health EXCEPT ![p] = "ABSENT"]
          /\ p # C1 => record' = record
      BY <2>4 DEF Die, Fails
    <3>2. BeatComing' <=> BeatComing
      BY <2>1 DEF BeatComing
    <3> QED
      BY <2>1, <2>2, <3>1, <3>2 DEF CountInv
  <2>5. CASE Start(p)
    <3>1. /\ UNCHANGED <<held, failed, record>> /\ health[p] = "ABSENT"
          /\ health' = [health EXCEPT ![p] = "SERVING"]
      BY <2>5 DEF Start
    <3>2. BeatComing' <=> BeatComing
      BY <2>1 DEF BeatComing
    <3>3. CASE p = C1
      BY <2>1, <3>1, <3>2, <3>3 DEF PeersInv, EmptyRecord, CountInv
    <3>4. CASE p # C1
      BY <2>1, <2>2, <3>1, <3>2, <3>4 DEF CountInv
    <3> QED
      BY <3>3, <3>4
  <2>6. CASE Resume(p)
    BY <2>6 DEF Resume, PeersInv, CountInv
  <2> QED
    BY <1>6, <2>3, <2>4, <2>5, <2>6
<1>7. CASE CrossingDies
  BY <1>7 DEF CrossingDies, Fails, CountInv
<1> QED
  BY <1>1, <1>2, <1>3, <1>4, <1>5, <1>6, <1>7, BeatPosted, AnswerCounts, FailureCounts,
     ReportCounts, MonitorCounts, SecondCounts
     DEF NNext, CrossingStep, ClientStep, TakeReportPending, Broadcast, Surroundings,
         Failure, CrossingStarts, nvars

LEMMA NetworkInvariant == NSpec => [](NTypes /\ TellInv /\ PeersInv /\ PromptInv)
BY InitTypes, TypesStep, InitTells, TellsStep, InitPrompt, PeersStep, PromptStep, PTL
   DEF NSpec

\* Central takes no crossing for lost that runs and is not held up.
THEOREM LiveNeverLost == NSpec => []LiveNotLost
<1>1. CountInv => LiveNotLost
  BY DEF CountInv, LiveNotLost
<1> QED
  BY NetworkInvariant, InitCount, CountStep, <1>1, PTL DEF NSpec


-----------------------------------------------------------------------------
(* The neighbours are told before the gate comes down.                      *)

\* Jobs that tell no neighbour that the crossing is open.
NoOpening == {j \in Jobs : j.target_id # C1 => j.crossing # "OPEN"}

\* A neighbour that never failed loses no status.
NoneLost ==
  ~held /\ last_broadcast # "NONE" =>
    \A p \in Neighbours \ failed : newest[p] = "LOST" => ~NoneOf(to_tell, To(p))

\* With the gate coming down, nobody is or will be told that it is open.
OpeningsOver ==
  ~held /\ GateComing =>
    /\ \A p \in Neighbours \ failed : told[p] # "OPEN"
    /\ AllOf(waiting, NoOpening)
    /\ outcome = "PENDING" => current \in NoOpening

LEMMA InitGate == NInit => NoneLost /\ OpeningsOver
BY DEF NInit, Init, NoneLost, OpeningsOver, GateComing

LEMMA LostFrame ==
  ASSUME NoneLost, UNCHANGED <<held, to_tell, last_broadcast, newest>>,
         failed \subseteq failed'
  PROVE  NoneLost'
BY DEF NoneLost

LEMMA FailedForGood == [NNext]_nvars => failed \subseteq failed'
BY DEF NNext, CrossingStep, ClientStep, RailwayPulse, TakeReportPending, PostFaultReport,
       Broadcast, PostStatus, HeartbeatPulse, BeginJob, Deliver, FailToDeliver,
       ReportOutcome, Surroundings, MonitorPulse, NextSecond, Failure, Die, Start, Hang,
       Resume, Fails, CrossingDies, CrossingStarts, nvars

LEMMA BroadcastLoses ==
  ASSUME NTypes, TellInv, NoneLost, Broadcast
  PROVE  NoneLost'
<1>1. step # "IDLE" /\ to_tell = <<>> /\ UNCHANGED <<held, newest, failed>>
  BY DEF Broadcast, BroadcastCrossingStatus, TellInv
<1>2. CASE last_broadcast' = last_broadcast /\ to_tell' = <<>>
  BY <1>1, <1>2, LostFrame
<1>3. CASE \A p \in Neighbours : ~NoneOf(to_tell', To(p))
  BY <1>1, <1>3 DEF NoneLost
<1> QED
  BY <1>2, <1>3, BroadcastEffect DEF NTypes

LEMMA PostStatusLoses ==
  ASSUME NTypes, PromptInv, NoneLost, PostStatus
  PROVE  NoneLost'
<1> DEFINE j == Head(to_tell)
<1>1. /\ to_tell # <<>> /\ to_tell \in Seq(Sendable) /\ to_tell' = Tail(to_tell)
      /\ newest' = [p \in Neighbours |-> IF p # j.target_id THEN newest[p]
                                         ELSE IF Queue!Full THEN "LOST" ELSE "PENDING"]
      /\ UNCHANGED <<last_broadcast, held, failed>>
  BY DEF PostStatus, StatusToPost, NTypes, QueueTypes, vars
<1>2. ASSUME ~held, last_broadcast # "NONE", NEW p \in Neighbours \ failed,
             newest'[p] = "LOST"
      PROVE  ~NoneOf(to_tell', To(p))
  <2>1. CASE p = j.target_id
    <3>1. j.target_id # C1
      BY <2>1, PeersAssumption
    <3>2. ~Queue!Full
      BY <1>1, <1>2, <3>1, RoomForStatus
    <3> QED
      BY <1>1, <1>2, <2>1, <3>2
  <2>2. CASE p # j.target_id
    <3>1. newest[p] = "LOST"
      BY <1>1, <1>2, <2>2
    <3>2. ~NoneOf(to_tell, To(p)) /\ j \notin To(p)
      BY <1>2, <2>2, <3>1 DEF NoneLost, To
    <3> QED
      BY <1>1, <3>2, TailNone
  <2> QED
    BY <2>1, <2>2
<1> QED
  BY <1>1, <1>2 DEF NoneLost

LEMMA ConcludeLoses ==
  ASSUME NTypes, PeersInv, NoneLost, Deliver \/ FailToDeliver
  PROVE  NoneLost'
<1>1. UNCHANGED <<last_broadcast, held, failed, to_tell>>
  BY DEF Deliver, FailToDeliver, vars
<1>2. ASSUME NEW p \in Neighbours \ failed, newest'[p] = "LOST"
      PROVE  newest[p] = "LOST"
  <2>1. newest \in [Neighbours -> {"TOLD", "PENDING", "LOST"}] /\ health[p] = "SERVING"
    BY DEF NTypes, PeerTypes, PeersInv, Peers
  <2>2. CASE Deliver
    BY <1>2, <2>1, <2>2 DEF Deliver, Fate
  <2>3. CASE FailToDeliver
    BY <1>2, <2>1, <2>3 DEF FailToDeliver, Fate
  <2> QED
    BY <2>2, <2>3
<1> QED
  BY <1>1, <1>2 DEF NoneLost

LEMMA LostStep ==
  NTypes /\ TellInv /\ PeersInv /\ PromptInv /\ NoneLost /\ [NNext]_nvars => NoneLost'
<1> SUFFICES ASSUME NTypes, TellInv, PeersInv, PromptInv, NoneLost, [NNext]_nvars
             PROVE  NoneLost'
  OBVIOUS
<1>1. CASE UNCHANGED <<held, to_tell, last_broadcast, newest>>
  BY <1>1, LostFrame, FailedForGood
<1>2. CASE \/ \E repaired \in Repairs : RailwayPulse(repaired)
           \/ TakeReportPending \/ PostFaultReport
  BY <1>2, <1>1 DEF RailwayPulse, OnTick, TakeReportPending, TakeFaultReportPending,
                    PostFaultReport, SendFaultReport
<1>3. CASE Surroundings
  BY <1>3, <1>1 DEF Surroundings, TrainApproaching, OtherThreads, SimulateTrainApproaching,
                    ArmDemoFault, ForceConfirmedOpen, OnFaultClear, ReportWatchdogTrip,
                    OnHeartbeatResult
<1>4. CASE HeartbeatPulse \/ ReportOutcome
  BY <1>4, <1>1 DEF HeartbeatPulse, RefusedHeartbeat, ReportOutcome, OnHeartbeatResult, vars
<1>5. CASE BeginJob \/ MonitorPulse \/ NextSecond \/ CrossingStarts
  BY <1>5, <1>1 DEF BeginJob, MonitorPulse, NextSecond, CrossingStarts, vars
<1>6. ASSUME NEW q \in Peers, Die(q) PROVE NoneLost'
  <2>1. UNCHANGED <<last_broadcast, held, to_tell>> /\ failed \subseteq failed'
    BY <1>6 DEF Die, Fails, vars
  <2>2. ASSUME ~held, NEW p \in Neighbours \ failed', newest'[p] = "LOST"
        PROVE  newest[p] = "LOST"
    BY <1>6, <2>1, <2>2 DEF Die, Fails, PeersInv, NTypes, PeerTypes
  <2> QED
    BY <2>1, <2>2 DEF NoneLost
<1>7. ASSUME NEW q \in Peers, Start(q) \/ Resume(q) PROVE NoneLost'
  BY <1>7, <1>1 DEF Start, Resume, vars
<1>8. ASSUME NEW q \in Peers, Hang(q) PROVE NoneLost'
  BY <1>8 DEF Hang, NoneLost
<1>9. CASE CrossingDies
  BY <1>9 DEF CrossingDies, NoneLost
<1>10. CASE UNCHANGED nvars
  BY <1>10, <1>1 DEF nvars, vars
<1> QED
  BY <1>2, <1>3, <1>4, <1>5, <1>6, <1>7, <1>8, <1>9, <1>10, BroadcastLoses,
     PostStatusLoses, ConcludeLoses
     DEF NNext, CrossingStep, ClientStep, Failure

\* The gate starts on its way down in a pulse that ends a warning.
LEMMA GateStarts ==
  ASSUME NTypes, [NNext]_nvars, ~GateComing, GateComing'
  PROVE  \E repaired \in Repairs : RailwayPulse(repaired)
<1>1. state \in States /\ state_elapsed \in Nat
  BY DEF NTypes, RailwayInv, MachineInv, MachineTypes
<1>2. state' # state
  BY DEF GateComing
<1>3. ~TrainApproaching
  BY <1>1 DEF TrainApproaching, SimulateTrainApproaching, AnnouncedToShutGate, EnterFault,
              Enter, GateComing, Shut, States
<1>4. ~OtherThreads
  BY <1>2 DEF OtherThreads, ArmDemoFault, ForceConfirmedOpen, OnFaultClear,
              ReportWatchdogTrip, EnterFault, Enter, OnHeartbeatResult, GateComing
<1>5. ~CrossingDies
  BY DEF CrossingDies, GateComing
<1>6. NNext
  BY <1>2 DEF nvars, vars
<1> QED
  BY <1>2, <1>3, <1>4, <1>5, <1>6
     DEF NNext, CrossingStep, ClientStep, TakeReportPending, TakeFaultReportPending,
         PostFaultReport, SendFaultReport, Broadcast, BroadcastCrossingStatus, PostStatus,
         HeartbeatPulse, RefusedHeartbeat, OnHeartbeatResult, BeginJob, Deliver,
         FailToDeliver, ReportOutcome, Surroundings, MonitorPulse, NextSecond, Failure, Die,
         Start, Hang, Resume, CrossingStarts, vars

\* By then everybody has been told of the warning, and nothing else is under way.
LEMMA GateStartsTold ==
  ASSUME NTypes, TellInv, PromptInv, NoneLost, RailwayInv', ~held,
         NEW repaired \in Repairs, RailwayPulse(repaired), GateComing'
  PROVE  OpeningsOver'
<1>1. /\ "RAILWAY" \in due /\ ServerIdle
      /\ UNCHANGED <<waiting, current, outcome, to_tell, told, newest, failed, last_broadcast>>
  BY DEF RailwayPulse, Pulse, OnTick
<1>2. last_broadcast \notin {"NONE", "OPEN"}
  BY <1>1 DEF RailwayInv, BroadcastInv, NeighboursWarned, GateComing
<1>3. \A p \in Neighbours : NoneOf(waiting, To(p)) /\ ~SendOpen(p) /\ NoneOf(to_tell, To(p))
  BY <1>1, EmptyQueue DEF PromptInv, ServerIdle
<1>4. ASSUME NEW p \in Neighbours \ failed
      PROVE  told[p] # "OPEN"
  <2>1. newest[p] \in {"TOLD", "PENDING", "LOST"}
    BY DEF NTypes, PeerTypes
  <2>2. newest[p] # "LOST"
    BY <1>2, <1>3 DEF NoneLost
  <2>3. newest[p] # "PENDING"
    BY <1>3 DEF TellInv, NewestIsLast
  <2>4. told[p] = last_broadcast
    BY <1>2, <1>3, <2>1, <2>2, <2>3 DEF TellInv, UpToDate
  <2> QED
    BY <1>2, <2>4
<1>5. AllOf(waiting, NoOpening)
  <2> SUFFICES ASSUME NEW i \in 1 .. Len(waiting)
               PROVE  waiting[i] \in NoOpening
    BY DEF AllOf
  <2>1. waiting[i] \in Sendable
    BY DEF NTypes, QueueTypes
  <2>2. waiting[i].target_id = C1
    BY <1>3, <2>1, SendableJobs DEF NoneOf, To
  <2> QED
    BY <2>1, <2>2, SendableJobs DEF NoOpening
<1>6. ASSUME outcome = "PENDING"
      PROVE  current \in NoOpening
  <2>1. current \in Sendable
    BY <1>6 DEF NTypes, QueueTypes
  <2>2. current.target_id = C1
    BY <1>3, <1>6, <2>1, SendableJobs DEF SendOpen
  <2> QED
    BY <2>1, <2>2, SendableJobs DEF NoOpening
<1> QED
  BY <1>1, <1>4, <1>5, <1>6 DEF OpeningsOver

LEMMA OpeningsFrame ==
  ASSUME OpeningsOver, GateComing, UNCHANGED <<held, told, waiting, current, outcome>>,
         failed \subseteq failed'
  PROVE  OpeningsOver'
BY DEF OpeningsOver

\* What is posted while the gate is coming down tells of no opening.
LEMMA PostOpens ==
  ASSUME NTypes, OpeningsOver, GateComing, NEW j \in Sendable, j \in NoOpening, Post(j),
         UNCHANGED <<held, told, failed>>
  PROVE  OpeningsOver'
<1>1. waiting \in Seq(Sendable)
  BY DEF NTypes, QueueTypes
<1>2. AllOf(Append(waiting, j), NoOpening) <=> AllOf(waiting, NoOpening)
  BY <1>1, AppendAll
<1> QED
  BY <1>2, PostEffect DEF OpeningsOver

LEMMA OpeningsStep ==
  ASSUME NTypes, TellInv, PeersInv, OpeningsOver, [NNext]_nvars, GateComing
  PROVE  OpeningsOver'
<1>1. CASE UNCHANGED <<held, told, waiting, current, outcome>>
  BY <1>1, OpeningsFrame, FailedForGood
<1>2. CASE PostFaultReport \/ HeartbeatPulse
  <2>1. PICK verb \in {"FAULT_REPORT", "HEARTBEAT"} : Post(Message(C1, verb))
    BY <1>2 DEF PostFaultReport, HeartbeatPulse
  <2>2. Message(C1, verb) \in Sendable /\ Message(C1, verb).target_id = C1
    BY SentMessage DEF Peers, Verbs, NTypes
  <2>3. Message(C1, verb) \in NoOpening
    BY <2>2, SendableJobs DEF NoOpening
  <2>4. UNCHANGED <<held, told, failed>>
    BY <1>2 DEF PostFaultReport, HeartbeatPulse
  <2> QED
    BY <2>1, <2>2, <2>3, <2>4, PostOpens
<1>3. CASE PostStatus
  <2>1. /\ Post(Head(to_tell)) /\ UNCHANGED <<held, told, failed>>
        /\ to_tell # <<>> /\ to_tell \in Seq(Sendable)
    BY <1>3 DEF PostStatus, StatusToPost, NTypes, QueueTypes
  <2>2. Head(to_tell) \in Sendable /\ Head(to_tell) \in NeighboursHear(last_broadcast)
    BY <2>1, HeadOfJobs, TailAll DEF TellInv
  <2>3. last_broadcast # "OPEN"
    BY DEF NTypes, RailwayInv, BroadcastInv, NeighboursWarned, GateComing
  <2>4. Head(to_tell) \in NoOpening
    BY <2>2, <2>3 DEF NeighboursHear, NoOpening
  <2> QED
    BY <2>1, <2>2, <2>4, PostOpens
<1>4. CASE BeginJob
  <2>1. /\ waiting # <<>> /\ waiting \in Seq(Sendable) /\ current' = Head(waiting)
        /\ waiting' = Tail(waiting) /\ UNCHANGED <<held, told, failed>>
    BY <1>4 DEF BeginJob, Queue!Begin, NTypes, QueueTypes
  <2>2. AllOf(waiting, NoOpening) <=> current' \in NoOpening /\ AllOf(waiting', NoOpening)
    BY <2>1, TailAll
  <2> QED
    BY <2>1, <2>2 DEF OpeningsOver
<1>5. CASE Deliver
  <2>1. /\ outcome = "PENDING" /\ outcome' = "ANSWERED"
        /\ UNCHANGED <<held, failed, waiting, current>>
        /\ current.target_id = C1 => told' = told
        /\ current.target_id # C1 =>
             told' = [told EXCEPT ![current.target_id] = current.crossing]
    BY <1>5 DEF Deliver, Queue!Conclude
  <2>2. told \in [Neighbours -> CrossingStates]
    BY DEF NTypes, PeerTypes
  <2> QED
    BY <2>1, <2>2 DEF OpeningsOver, NoOpening
<1>6. CASE FailToDeliver \/ ReportOutcome
  <2>1. UNCHANGED <<held, failed, waiting, told>> /\ outcome' # "PENDING"
    BY <1>6 DEF FailToDeliver, ReportOutcome, Queue!Conclude, Queue!Report
  <2> QED
    BY <2>1 DEF OpeningsOver
<1>7. ASSUME NEW q \in Peers, Die(q) PROVE OpeningsOver'
  <2>1. UNCHANGED <<held, waiting, current, outcome>> /\ failed \subseteq failed'
    BY <1>7 DEF Die, Fails
  <2>2. ASSUME ~held, NEW p \in Neighbours \ failed'
        PROVE  told'[p] = told[p]
    BY <1>7, <2>2 DEF Die, Fails, PeersInv, NTypes, PeerTypes
  <2> QED
    BY <2>1, <2>2 DEF OpeningsOver
<1>8. ASSUME NEW q \in Peers, Hang(q) PROVE OpeningsOver'
  BY <1>8 DEF Hang, OpeningsOver
<1>9. CASE CrossingDies
  BY <1>9 DEF CrossingDies, OpeningsOver, GateComing
<1>10. ASSUME NEW q \in Peers, Start(q) \/ Resume(q) PROVE OpeningsOver'
  BY <1>10, <1>1 DEF Start, Resume
<1> QED
  BY <1>1, <1>2, <1>3, <1>4, <1>5, <1>6, <1>7, <1>8, <1>9, <1>10
     DEF NNext, CrossingStep, ClientStep, RailwayPulse, TakeReportPending, Broadcast,
         Surroundings, MonitorPulse, NextSecond, Failure, CrossingStarts, nvars

LEMMA GateStep ==
  NTypes /\ TellInv /\ PeersInv /\ PromptInv /\ NoneLost /\ OpeningsOver /\ [NNext]_nvars
    => OpeningsOver'
<1> SUFFICES ASSUME NTypes, TellInv, PeersInv, PromptInv, NoneLost, OpeningsOver,
                    [NNext]_nvars, ~held', GateComing'
             PROVE  OpeningsOver'
  BY DEF OpeningsOver
<1>1. CASE GateComing
  BY <1>1, OpeningsStep
<1>2. CASE ~GateComing
  <2>1. PICK repaired \in Repairs : RailwayPulse(repaired)
    BY <1>2, GateStarts
  <2>2. ~held /\ RailwayInv'
    BY HeldForGood, RailwayStep DEF NTypes
  <2> QED
    BY <2>1, <2>2, GateStartsTold
<1> QED
  BY <1>1, <1>2

\* No neighbour that can be told takes the crossing for open once the gate is
\* commanded down, even if Central or another neighbour is down.
THEOREM NeighboursToldBeforeGate == NSpec => []ToldBeforeGate
<1>1. OpeningsOver => ToldBeforeGate
  BY DEF OpeningsOver, ToldBeforeGate
<1> QED
  BY NetworkInvariant, InitGate, LostStep, GateStep, <1>1, PTL DEF NSpec
=============================================================================
