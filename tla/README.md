# Verification of the traffic control system

The repository implements a distributed traffic control system for QNX: six road
intersections (`L1`-`L6`), three railway crossings (`RL1`-`RL3`) and one central
controller (`C1`), each a process of several threads that talk by QNX messages.
This directory holds TLA+ models translated from its C code, TLC configurations
that check them on small instances, and proofs, checked by TLAPS, of the
properties that matter most for every value of the timing constants.

Paths below are relative to the repository root, `src/`.

## 1. Inventory

| Component | State | Operations | Modelled in |
|---|---|---|---|
| Intersection state machine, `app/intersection/src/lx_fsm.c`, `lx_timer.c` | phase and its elapsed time, mode, demand, four pedestrian buttons, drain, override, last crossing report, faults, link, green-wave offset | 100 ms phase pulse; requests of Central (mode, profile, override, renew, cancel, fault clear); crossing status; sensors; watchdog; heartbeat result; local clock | `Intersection` |
| Railway crossing state machine, `app/railway/src/rlx_fsm.c`, `rlx_timer.c` | eight states and the time in them, two occupancy windows and their count, faults, report flag, link | 1 s pulse; train approaching; fault clear; watchdog; heartbeat result | `RailwayCrossing` |
| Boom gate simulation, `app/railway/src/rlx_gate.c` | motion, time left, confirmations, armed failure; a lock of its own | command, tick, poll, arm failure, repair | `RailwayCrossing` |
| Outputs, `rlx_signal.c`, `lx_signal.c` | what is shown | printing; forcing every head safe | train signal and flashers in `RailwayCrossing`; the heads of an intersection in `IntersectionHistory` (`heads`, `crosswalks`) |
| Server loops, `lx_main.c`, `rlx_main.c`; messages `lx_comm.c`, `rlx_comm.c` | last broadcast state | dispatch; fault report; broadcast of changes; heartbeats | dispatch in `Intersection` and `RailwayCrossing`; messages of a crossing in `CrossingNetwork` |
| Sensor threads, `lx_sensor.c`, `rlx_sensor.c` | none | keys | as nondeterministic inputs |
| Watchdog threads, `lx_watchdog.c`, `rlx_watchdog.c` | last tick count seen | report a trip | a trip at any time |
| Transport, `app/shared/src/qnet_utils.c` | ring buffer of 16 jobs, stopping flag | post, dequeue, name lookup, blocking send, callback; server loop; timers | `ClientQueue`, which implements `Outbox` |
| Central, modes and operator, `app/central/src/c_main.c`, `c_mode_eng.c`, `c_operator.c`, `c_comm.c` | schedule, demo hour, last automatic mode, profile number, what each controller was commanded; two locks | automatic check and broadcast; nine operator commands | `CentralController` |
| Central, status table and link watchdog, `c_server.c`, `c_watchdog_mon.c` | what each controller reported, silent seconds, availability | status, heartbeat, fault report, crossing status; watchdog tick | `CrossingNetwork`, for the row of a crossing |
| Display, log, dashboard, test tools, course material | - | output only, or outside the system | not modelled |

### Interaction

- `RLx` sends `CROSSING_STATUS` to two neighbouring `Lx` and to `C1` whenever its
  crossing state changes, through the client queue of its process.
- `C1` sends mode, profile, override and fault-clear requests; `Lx` and `RLx`
  answer with the reply to the message.
- `Lx` and `RLx` send heartbeats to `C1` and fall back to their own clock after
  three that are not acknowledged.
- Inside a process the server thread, the sensor thread, the watchdog thread and
  the client thread share the state machine under one mutex.  Every entry point
  of `lx_fsm.c` and `rlx_fsm.c` holds it from beginning to end, so an entry point
  is one atomic action; what a caller does with several entry points is not.

### What is hard

Steps of four threads in any order; a pulse handler that releases the lock
between its parts; a gate that changes between two polls; counters on a grid that
a correction or a wrap-around leaves; sequences of legal commands and railway
events that strand an override, a drain, a pedestrian or a vehicle; messages lost
at a full queue or held up behind a peer that does not answer; peers and the node
itself that die and start again with their memory empty; three threads of Central
that share two locks, one taken inside the other, the outer of which the operator
thread gives up while the operator types.
`PROJECT.json` lists each such hazard at its line with the properties that cover
it, or why none does yet.

### What makes each component correct

- Intersection: no WALK beside conflicting traffic, no press lost, every phase at
  least its minimum, no green that begins towards a crossing that is not open,
  bounded waiting and bounded exposure, heads that never show more than the phase
  in force and are safe in a fault, overrides and drains that end, a supervisor that
  never forgets the crossing.
- Crossing: PROCEED only with the gate down, faults latched until a verified
  repair, every train's window served, closures confirmed or faulted in time,
  reopening, neighbours told before the gate moves.
- Transport: every accepted job is carried out once, in order, and reported as it
  ended; the thread never sleeps on a job and always comes to the next one unless
  a peer hangs.
- Network: the neighbours know of a closure before the gate moves, in the order of
  the broadcasts; a silent controller is noticed, a live one is not declared lost;
  each end's view of the link follows what is the case.
- Central: its rows say what the controllers were told and took; no thread waits
  for ever for either lock; a number typed for an override leaves within limits.

## 2. Modules

| Module | Content |
|---|---|
| `Intersection` | `lx_fsm.c` and `lx_timer.c`: one action per entry point, `OnPhaseTimer` composed of the parts of the pulse in the code's order; type invariant and safety properties |
| `IntersectionHistory` | history variables over it (what the heads show, time displayed, presses owed, waiting, exposure, fate of an override), the timed and the liveness properties |
| `RightOfWay` | abstract specification: what the signals of an intersection promise its road users, and what they see of a fault (heads forced safe, held, recovered); the property `KeepsRightOfWay` of `IntersectionHistory` is `RightOfWay` under a refinement mapping |
| `IntersectionProofs` | inductive invariants and theorems |
| `IntersectionHistoryProofs` | the timed safety properties: minimum times, presses, waiting, exposure; and the proof that the intersection implements `RightOfWay` |
| `RailwayCrossing` | `rlx_fsm.c`, `rlx_gate.c`, the outputs, and the pulse handler of `rlx_main.c` in its four lock sections |
| `RailwayHistory` | history variables over it (age of each announced train, length of a closure) |
| `RailwayProofs` | inductive invariants and theorems |
| `RailwayHistoryProofs` | closing time and occupancy windows |
| `Outbox` | abstract specification: what an outgoing queue promises those who post to it |
| `ClientQueue` | `qnet_utils.c`: ring buffer, client thread, name lookup, peers; its property `KeepsPromise` is `Outbox` under a refinement mapping |
| `ClientQueueProofs` | inductive invariant, and the proof that `ClientQueue` implements `Outbox` |
| `CrossingNetwork` | composes `RailwayCrossing` with an `Outbox`, two neighbours as far as they take its status, Central's row for it and link watchdog, and the failures of all of them |
| `CrossingNetworkProofs` | delivery of the statuses, in order and in time, and the link watchdog |
| `CentralController` | composes Central's server, operator and client threads with an `Outbox` and what the intersections take |
| `CentralProofs` | the rows of Central against what the intersections took |
| `QueueLemmas` | which jobs a queue of messages holds and which one comes last, for the proofs about both compositions |
| `MCIntersection`, `MCRailway`, `MCNetwork`, `MCCentral` | the modules TLC is given; `ClientQueue` is given as it is |

The two compositions use `Outbox` in place of the ring buffer: `KeepsPromise`
is what entitles them to it.

### Correspondence of `Intersection`

Variables carry the names of the fields of `lx_fsm_t` without their unit suffix.
Three encodings are changed: `mode_change_pending` and `pending_mode` are one
variable with the value `"NONE"`; the four-element pedestrian arrays and the
serving mask are sets of sides; `faults` is a set of flag names.  A refused
request changes nothing and is a stuttering step, except that the fault check
before it may move the supervisor to `FAULT_SAFE` (`HeldInFaultSafe`).
`OnPhaseTimer` is the conjunction of `PedServiceTick`, `OverrideTick` and
`PhaseStep`; since the C code runs them one after the other, the later ones read
the primed variables of the earlier ones exactly where the code reads fields
already updated in the same pulse.  Elapsed time is taken modulo
`ELAPSED_MODULUS`, for `uint32_t`.

What the heads show is no field of `lx_fsm_t`: `lx_signal.c` writes a head when the
code calls it, so `heads` and `crosswalks` are history.  A change of phase or of a
pedestrian service writes the head concerned (`ShowChanges`).  A trip of the watchdog
writes all of them at once (`lx_fsm_report_watchdog_trip`, `lx_fsm.c:279`), and every
pulse that finds `FAULT_SAFE` does so again (`lx_fsm.c:512`): in the middle of a green
without yellow, in the middle of a WALK without the rest of it (`ShowFaultSafe`).  The
phase, the pedestrian service and their clocks are held as they were, and a fault
clear writes nothing: each head stays in its safe state until its own next change.
`RightOfWay` says the same of its road users with the actions `Fault` and `Recover`.

### Correspondence of `RailwayCrossing`

`windows[]` is `active` (the slots in use) with `direction` and `remaining`;
`active_window_count` is kept beside them as in the code, modulo 256.  The gate
is one record.  `train_signal` is the set of directions shown PROCEED,
`flashers` whether the warning lights are on.  The pulse handler is four actions
(`OnTick`, `TakeFaultReportPending`, `SendFaultReport`,
`BroadcastCrossingStatus`) sequenced by `step`, with every other thread free to
run in between; the server thread itself serves Central's fault clear only when
`step` is `"IDLE"`, while the keyboard may clear at any point.

The gate has its own mutex, so a typed repair can fall between two polls of one
state-machine handler.  Every handler polls at most twice and afterwards only
commands the gate, so one boolean parameter, `repaired`, that separates the gate
before the repair from the gate after it covers every such interleaving; a repair
before the first poll or after the handler is the separate action
`ForceConfirmedOpen`.

### Correspondence of `ClientQueue`

`jobs`, `head` and `count` are the ring of `ipc_client_queue`; a slot keeps a job
that was taken, as the memory does.  A post holds `q->lock` from beginning to end
and is one action.  The client thread is sequenced by `thread`: it takes a job
under the lock (`TakeJob`), or waits (`WaitForJob`; `pthread_cond_wait` releases
the lock in the same step, and may return without a signal), looks the name up
once or twice (`Open`, `OpenFallback`), sends (`Reply` of the peer, or
`SendFails`) and calls the poster back (`OnReply`).  Between any two of these a
peer may attach its name in either namespace, die, hang or resume.
`stopping` is left out: no code sets it, so the branches on it are dead.

The refinement mapping reads the occupied slots from `head` on as the sequence
`waiting`, and the job of a thread that is carrying one as `current`.

### Correspondence of `CrossingNetwork`

One crossing with every action of `RailwayCrossing`; its messages are posted one
at a time (`PostStatus` once per addressee of a broadcast), and what happens to a
post that the queue refuses is what the caller does: a heartbeat counts as missed,
a report and a status are gone.  `told` is the intersections'
`last_crossing_state`, `record` is Central's row.  `newest`, `failed` and `held`
are history: what became of the newest status for a neighbour, which processes
have been down or hung, and whether any has hung.  A process that dies loses its
memory: a neighbour takes the crossing for open again (`lx_fsm_init`), a crossing
starts open and without trains (`rlx_fsm_init`, `rlx_gate_init`), Central's rows
are cleared (`c_mode_eng_init`).

Abstractions: messages carry only what their receivers keep; every request sent
here is acknowledged by a peer that takes it, as the handlers do; all timers have
their real period of one second and start together, and a second passes only when
its pulses are handled and its messages delivered, unless a hung peer holds them
up; the heartbeat of a second is handled before the railway pulse, in the order in
which `rlx_main.c` arms the timers; the pulses that a hung Central
sleeps through are taken to have been counted when it resumes; a send to a peer that
died has failed before that peer is up again.

### Correspondence of `CentralController`

The server thread is sequenced by `server` through the lock sections of
`on_request` and `on_pulse`, the operator thread by `operator` through its prompts
and the sections of a command; the client thread needs the console inside
`OnCommandReply`.  Who holds a lock follows from where the threads are:
`console_io_lock` from `OperatorHolds` and `ServerHolds`, `mode_eng_lock` from
`OperatorHoldsEngine` and `ServerHoldsEngine`; an action that takes a lock has
`ConsoleFree` or `EngineFree` in its guard.  A command (`UPDATING` to `STORING`,
`RESUMING` to `CLEARING`) and the display (`DRAWING` to `RENDERING`) ask for
`mode_eng_lock` while they hold the console; the server has it alone while it records
a report and while it decides the mode.  Sections that only print are one step
(`Log`).  `StartHours` are the hours at which Central may be started.  `table` is what
`c_controller_view_t` says Central commanded, `received` what the intersection
took last.  `overtaken` is history: the intersections that the operator commanded
anew between an automatic decision and its broadcast.  Numbers that are typed are
taken modulo `WORD`, which stands for 2^32, since the code casts them before it
looks at them.  A command that is aborted, at whichever prompt, is `Return`.

## 3. Runs

Times are in ticks, not milliseconds; the ratios that matter are kept: greens
longer than the minimum, a maximum of two extension steps and more, WALK no
longer than yellow and all-red together, closing deadline above the gate's motion.
Each input of the environment is a constant, so each run combines the inputs that
interact in the question it asks and leaves the others out.

| Run | Question | Bounds |
|---|---|---|
| `Crosswalks` | pedestrian service, presses, connector waiting; every press and every vehicle served | 3 buttons, all demand, mode changes; pulse fair |
| `Supervision` | supervisor, preemption, offset corrections; the signals implement `RightOfWay` under all of it, heads forced safe included | crossing reports, trips, a button, overrides to the arterial, usable and too long, renewals; tick 2 with corrections forward (clamped and not) and back that leave the grid; WALK as long as yellow and all-red; a clock that changes the mode while Central is lost |
| `Drain` | drain phases, no green that begins towards a train, exposure of a closed crossing, overrides held back for pedestrians; drains and overrides end | queue warning, a button, trips, overrides of 7 to the connector; pulse fair |
| `Closure` | windows, gate, faults, withdrawal of PROCEED, broadcasts, closing time; reopening | 2 directions, 4 trains, all keys, failed motions, repairs, trips, clears; pulse fair |
| `Transport` | the ring and its thread implement `Outbox`; no lost wake-up; every job begun | 3 slots, a local and a remote peer, 2 requests each; client thread fair |
| `Network` | neighbours told in order and in time, link watchdog on both ends, faults known to Central | one neighbour and Central, 3 slots, one failure: a death (with restart) of anyone, or a neighbour that hangs (and resumes or is killed); any number of trains, trips and clears |
| `Central` | rows against what was taken; no thread waits for ever for either lock | 2 intersections, 2 slots, all nine commands, 2 changes of hour or commands, typed durations of which within the limits, above them and zero are left; started in the first hour of the peak; all three threads fair |
| `HungCentral` | finding on the network | both neighbours, 5 slots, Central hangs |
| `GreenOntoClosing` | finding on the intersection and its crossing | the code's own times in seconds |
| `RestingOverride`, `LateCrossing` | findings on the intersection | smallest inputs that show them |
| `SecondTrain` | finding on the crossing | the code's own times in seconds |

Named bounds.  `RECORD_MAX` saturates the history clocks above every limit they
are compared with.  `TRAINS_MAX` ends the sequence of trains, which `Reopens`
needs (a train may always come in time to reclose a crossing); four trains cover
two announcements from each direction, enough to fill both slots, restart a
window and reclose.  `MISSED_MAX` stands for `0xFFFFFFFF` and is not below the three
misses that matter.  `ELAPSED_MODULUS` stands for 2^32 and lies above `RECORD_MAX`
in every run.  In `Crosswalks`, as in the code, it is no multiple of the extension
step; it is one of the tick there, which 2^32 is not of 100 ms.  With the code's
numbers an off-peak arterial green that rests for 49.7 days leaves the grid of the
exit test for good, so `ConnectorWaitBounded` is stated of greens displayed for less
than `RECORD_MAX` (which may be anything below 2^32 ms), and `ConnectorServed` is
claimed for the modulus of its run only.  Real timings are used where a property
depends on their sums (`SecondTrain`, `GreenOntoClosing`).

`CAPACITY` stands for 16.  Three slots are enough for the ring to wrap with every
fill; in `Network` they are as many as the messages of one second (heartbeat, fault
report or status for Central, status for the neighbour), so nothing is refused
unless somebody holds the queue up, which is so with sixteen slots as well; in
`Central` two slots make a full queue drop parts of a broadcast.  `FAILURES_MAX`
bounds the processes that ever fail, not how long or how late they do; one is
enough, since each failure acts through the same queue, and the restart of a peer
after its death is part of it.  `MayHang` names the peers that may hang: in
`Network` the neighbour, behind whom the messages for a healthy Central pile up;
a hung Central is the question of `HungCentral`.  `CHANGES_MAX` bounds the commands
and the changes of the hour (a command is counted when the operator thread takes the
console for it): two are needed for a command between a decision
and its broadcast, and for a second command on the same row while the first one is
under way.  The bounds in `Closure` on trains and in `Central` on changes also make
the liveness properties about a system that is left alone in the end.

Each property of a passing run is also checked against a defect: a second
definition beside the faithful one (its comment starts with "Defect:") that a
plausible bug would produce, under which the run must fail.

### Fairness

`FairSpec` assumes weak fairness of the pulse alone (`OnPhaseTimer`, or the parts
of the railway pulse handler): the kernel timer armed by `ipc_timer_arm` is
periodic and the server loop receives every pulse.  Nothing is assumed about
sensors, operators, trains, the other threads or the network.  `FairHSpec` states
the same of the specification with history.

`ClientQueue!FairSpec` assumes that the client thread runs when it is not blocked
and that a peer which receives answers, since `ipc_server_run` replies to every
request.  A hung peer owes nothing.  `FairNSpec` assumes that pulses are handled,
messages conclude and time passes; no process need ever fail, recover or resume,
and the properties that depend on it say so (`<>[]` on the left).
`CentralController!FairSpec` assumes strong fairness of the server thread, of
what the operator thread does by itself, and of the client thread's `OnCommandReply`,
which takes the same console lock: each asks again and again for a mutex
that others keep taking, and a QNX mutex is handed to the thread of the
highest priority that has waited longest, all threads here having the same one.
Nothing makes the operator type or a controller answer.

### Findings

1. `HungCentral`: a Central that is up but does not receive holds up the statuses
   for the neighbours; the gate goes down while they take the crossing for open
   (04-safety-and-realtime, invariant 10).  `ToldBeforeGate` shows that this does not
   happen as long as nobody hangs, a dead Central included.
2. `GreenOntoClosing`: a direction that leads into a crossing must not display green
   while it is `CLOSING`, `CLOSED`, `TRAIN_PRESENT` or `FAULT` (04-safety-and-realtime,
   invariant 9), but a connector green is cut short only at its minimum of 8 s and the
   crossing warns for 5 s, so a green that began up to 3 s before the warning is
   displayed towards the closing gate.  The test plan describes the 8 s
   (01-usecase-functional.md:559).  A green that a fault held also resumes, with its
   heads dark, towards a crossing that has shut meanwhile.  `ExposureBounded` is the
   bound that the code does keep, and `NoGreenTowardsTrain` that no connector green
   begins towards such a crossing.
3. `LateCrossing`: a WALK that starts near the end of its green is still in its
   flashing clearance when the conflicting green starts
   (`docs/specification/04-safety-and-realtime.md`, invariant 4).  `WalkClearsFirst`
   shows that at least the WALK itself is over.
4. `RestingOverride`: an override for the connector is not applied while an
   off-peak arterial green rests (04-safety-and-realtime, section 18).
5. `SecondTrain`: a train announced during `TRAIN_PRESENT` is given a window from
   its announcement, not from its expected arrival (RC-04).

Read in the code while modelling, without a run of their own: an automatic mode is
decided and put on record (`c_main.c:143-162`) before the console is taken for its
broadcast (`:164`), so a mode typed in between is recorded last and sent first, and
nothing corrects the row afterwards (06-concurrency-race, TC-RACE-20, at line 917).
`ModesMatch` shows that an intersection whose newest message was taken runs what its
row says but for this; a row and an intersection also part when that message is
refused by the full queue or lost, or when the intersection follows its own clock
while Central is lost.  After a fault clear the heads of an intersection stay in
their safe state until each next changes; `rlx_fsm_on_fault_clear`
does not turn the flashers off; it leaves `fault_report_pending` set, so a fault
cleared between two parts of a pulse is reported with an empty code; a neighbour that
restarts is not told the state of the crossing until it changes; the first automatic
check of Central broadcasts nothing; `override_in_flight` is reset by a
cancellation only; the two retries that 04-safety-and-realtime asks for on
requests do not exist.

## 4. Proofs

Every safety invariant and every action property that a run checks is also a
theorem, for every value of the constants that the assumptions allow.

Assumptions are the named `ASSUME`s of the modules.  The constants of the code
satisfy all of them, and TLC evaluates them in every run.

- Times are naturals and the ticks positive; the minimum green fits into each green
  and is a whole number of ticks, `WALK <= YELLOW + ALL_RED`, drain steps divide the
  cap (`Intersection!TimingAssumption`, `DrainAssumption`, `WalkAssumption`,
  `IntersectionHistory!GridAssumption`).
- The flashing-only interval is longer than one tick and a whole number of them, and
  a gate has some time to close (`WarningAssumption`, `PulsesAssumption`).  Trains
  come from one of two directions, for which the code has two slots
  (`DirectionsAssumption`).
- The history clocks saturate above every limit they are compared with, and below
  the wrap-around of the code's own clocks (`RecordAssumption`,
  `RecordingAssumption`).
- All that one second gives to send fits into the queue, Central's copy of a
  status apart (`RoomAssumption`: with two neighbours four of 16 places); a chain and
  the broadcast list name intersections (`ListsAssumption`), a crossing's list its
  neighbours (`AdjacentAssumption`); `DURATION_MAX` is below `WORD`, and Central starts at an hour
  of the clock (`BoundsAssumption`).

`IntersectionProofs`.  The type invariant is inductive by itself and everything
else is proved relative to it.  Pedestrian service, supervision and drain each
have an inductive invariant of their own; `OverrideConsistent` is part of the one on
supervision, renewals included.  `WalkClearsFirst` is not inductive: a
WALK may still be shown in the yellow behind its green, so the strengthening
relates the pedestrian clock to the phase clock, per phase, and
`WalkAssumption` closes it at the end of all-red.  `NoGreenTowardsTrain` follows
from the supervision invariant at the step that starts the green.

`IntersectionHistoryProofs`.  The lemma `HistoryOnlyWatches` first carries everything
proved of `Intersection` over to the recorded specification.  `ShownInv` then relates the
elapsed time of the code to the time displayed: equal in an off-peak green, ahead of
it by no more than a correction that was clamped, and equal after every change of
phase; corrections wait only in a peak arterial green, and a drain extends only a
green that had its minimum.  `MinimumTimesShown` follows at the step that leaves a
phase.  `RightOfWayAlwaysKept` puts these together: a pulse is a tick of
`RightOfWay`, whose minimum comes from `ShownInv`, whose order of phases from
`PhaseAdvance`, whose condition on the connector from `NoGreenTowardsTrain` and whose
WALKs from the pedestrian invariants and `WalkInv`; a trip and a pulse held in
`FAULT_SAFE` are a `Fault`, a clear is a `Recover`, and every other step is a report
of the crossing or a stutter.  By `SupervisionFollowsCrossing` the supervisor
is in `FAULT_SAFE` exactly while a fault is on record, so that nothing else enters or
leaves it.  `WaitInv` bounds a waiting call by the time since the last multiple of
the extension step, or by the green itself while that is below its maximum, and
needs the grid that `ShownInv` gives.  `ExposureInv` says that exposure lags one
tick behind the elapsed time at most, which is where a wrap-around in the tick of
the report would show.

`RailwayProofs`.  `MachineInv` joins types, the windows and their count, the
windows and the state, the gate and the state, PROCEED and the fault latch; none
of these is inductive alone: the count needs the distinctness of directions, the
gate in `TRAIN_PRESENT` needs the gate at rest in `CLOSED`, PROCEED in `CLOSED`
needs the confirmation.  Each operation has a lemma; `TickStep` has one case per
state and lets the repair fall in between.  `NeighboursWarned` needs a second
invariant, `BroadcastInv`: in `WARNING` either no pulse has passed, or the first
one is still on its way to its broadcast, or the neighbours have been told.

`RailwayHistoryProofs`.  The lemma `RailwayHistoryOnlyWatches` does for the crossing
what `HistoryOnlyWatches` does for the intersection.  `ClosureInv` bounds the time
since the crossing began to close by the time in its present state and the limits of the states before it.
`ServedInv` says, for each train on record, that its window has not started, or that
its age and what is left of its window make up a whole one, or that it has had one;
a direction's second train restarts both.  `WindowsServed` follows at the step that
sends the gate up.

`ClientQueueProofs`.  `QueueInv` is `TypeOK` with `NoLostWakeup`, that the occupied
slots hold jobs, and that a thread that carries a job has one; the wake-up is
inductive because `Signalled` and the count change in one step.  The
refinement then has one lemma per action: a post appends to the mapped sequence and
taking a job removes its head, both of which are arithmetic on `(head + i) %
CAPACITY` and are lemmas of their own; a reply, a failed open and a failed send
conclude the current job; everything else stutters.  `QueueKeepsPromise` holds for
every capacity, set of peers and set of requests.

`CrossingNetworkProofs`.  The invariants of the crossing itself are taken from
`RailwayProofs`: each step of the network is one of its steps, a restart, or leaves it
alone.  `TellInv` is what makes `TellsInOrder` inductive: a neighbour that was told
the newest status has nothing on its way in the statuses to post, the queue or the
send under way, and for one that is still to be told the last message of all
those on their way to it carries the last broadcast.  `PromptInv` is about a second
in which nobody hangs: each pulse finds the queue as empty as it must be for what it
posts to fit, which is where `RoomAssumption` is needed.  From it follow `NoneLost`
(a neighbour that never failed misses no status) and, with the `WARNING` interval
of `BroadcastInv`, `OpeningsOver`: once the gate is coming down no message that says
otherwise is left anywhere, hence `ToldBeforeGate`.  `CountInv` counts the silent ticks
against the beats still to come, for `LiveNotLost`: whichever of the two timers
of a second fires first, the count stays below three.

`CentralProofs`.  `Carried` is one lemma for all commands: what a command changes on
record is told by its messages, and what its messages tell is on record, but
for a mode while an automatic decision waits for its broadcast.  `ThreadInv` says
what is left to post and that it is right: the console lock keeps the operator's
messages out of a broadcast and a broadcast out of them, and between a decision
and its broadcast every intersection is expected to run the automatic mode in the
end.  `MessageInv` is the same argument as `TellInv`, for each kind of message and
each intersection.  `RecordAsReceived` and `ModesMatch` then hold for any number of
intersections, chains, commands and places in the queue, where `Central` checks two
of each.  `ThreadInv` also says that no two threads hold the console, or
`mode_eng_lock`, at once; from it and the order in which the locks are nested follows
`NeverBothBlocked`: the server and the operator thread never wait for locks of each
other.

| Theorem | Property |
|---|---|
| `IntersectionProofs!TypeCorrect` | `TypeOK` |
| `IntersectionProofs!PedServiceAlwaysConsistent` | `PedServiceConsistent` |
| `IntersectionProofs!SupervisionCorrect` | `SupervisionFollowsCrossing`, `OverrideConsistent` |
| `IntersectionProofs!OverrideAlwaysConsistent` | `OverrideConsistent` |
| `IntersectionProofs!NeverGreenTowardsTrain` | `NoGreenTowardsTrain` |
| `IntersectionProofs!DrainAlwaysConfined` | `DrainConfined` |
| `IntersectionProofs!WalkAlwaysClearsFirst` | `WalkClearsFirst` |
| `IntersectionHistoryProofs!HistoryTypeCorrect` | `HTypeOK` |
| `IntersectionHistoryProofs!PressesNeverLost` | `PressNeverLost` |
| `IntersectionHistoryProofs!MinimumTimesAlwaysShown` | `MinimumTimesShown` |
| `IntersectionHistoryProofs!RightOfWayAlwaysKept` | `KeepsRightOfWay` |
| `IntersectionHistoryProofs!OffPeakNeverCorrected` | `OffPeakUncorrected` |
| `IntersectionHistoryProofs!ExposureAlwaysBounded` | `ExposureBounded` |
| `IntersectionHistoryProofs!ConnectorWaitAlwaysBounded` | `ConnectorWaitBounded` |
| `RailwayProofs!TypeCorrect` | `TypeOK` |
| `RailwayProofs!WindowsAlwaysConsistent` | `WindowsConsistent` |
| `RailwayProofs!GateAlwaysObeys` | `GateObeysState`, `ProceedOnlyWhenShut` |
| `RailwayProofs!FaultsAlwaysLatched` | `FaultsLatched` |
| `RailwayProofs!ProceedAlwaysWithdrawn` | `ProceedWithdrawn` |
| `RailwayProofs!FaultOnlyLeftRepaired` | `FaultLeftOnlyRepaired` |
| `RailwayProofs!NeighboursAlwaysWarned` | `NeighboursWarned` |
| `RailwayHistoryProofs!ClosureAlwaysBounded` | `ClosureBounded` |
| `RailwayHistoryProofs!WindowsAlwaysServed` | `WindowsServed` |
| `ClientQueueProofs!QueueTypeCorrect` | `TypeOK` |
| `ClientQueueProofs!WakeupNeverLost` | `NoLostWakeup` |
| `ClientQueueProofs!QueueKeepsPromise` | `KeepsPromise` |
| `CrossingNetworkProofs!NetworkTypeCorrect` | `NTypeOK` |
| `CrossingNetworkProofs!NeighboursToldInOrder` | `TellsInOrder` |
| `CrossingNetworkProofs!LiveNeverLost` | `LiveNotLost` |
| `CrossingNetworkProofs!NeighboursToldBeforeGate` | `ToldBeforeGate` |
| `CentralProofs!CentralTypeCorrect` | `CTypeOK` |
| `CentralProofs!RecordsAlwaysAsReceived` | `RecordAsReceived` |
| `CentralProofs!ModesAlwaysMatch` | `ModesMatch` |
| `CentralProofs!NeverBothBlocked` | no deadlock of the two locks |

`FaultsLatched`, `ProceedOnlyWhenShut` and `MinimumTimesShown` (a part of
`KeepsRightOfWay`) are not repeated in a run: their theorems hold for every value of
the constants.

Only model-checked is every liveness property (`PedestriansServed`,
`ConnectorServed`, `OverrideEnds`, `DrainEnds`, `Reopens`, `NeighboursFollow`,
`EveryJobBegun`, `LinkFollows`, `FaultReachesCentral`, `SilenceNoticed`,
`ConsoleShared`): fairness is stated with ENABLED, which the prover does not
handle.  That `CrossingNetwork` and `CentralController` may use `Outbox` in
place of the ring rests on `QueueKeepsPromise` and on reading the modules; it is
not itself stated as a theorem about a composition of the three.

## 5. Not modelled

Wording, printing and the log; parsing of the node map; the contents of status
reports that are only displayed; the offsets in the chains (the intersection
takes any offset); the sampling in the watchdog threads, whose race on
`tick_counter` can only delay or hasten a trip, and a trip is allowed at any
time; a restart of Central in `CentralController` (its rows and profile numbers
start anew, and no intersection compares profile numbers); the heartbeats of an
intersection, which go the way of a crossing's and whose results are inputs of
`Intersection`; the dashboard and the test tools.  The crossing state machine does
not look at the train sensors `FAULT_TRAIN_SENSOR_STUCK` stands for: no code sets it.

## 6. Plan

In order of importance:

1. An abstract specification of a crossing as its neighbours see it (open, warned of
   a closure, closed, reopened only when the trains have passed), implemented by
   `RailwayCrossing`, and the proof of it from `MachineInv` and `BroadcastInv`.
2. A whole intersection next to the crossing in `CrossingNetwork`, for the time from
   a train's approach to the end of the connector green.
