--------------------------- MODULE CentralController ---------------------------
(***************************************************************************)
(* Central (C1): the automatic mode decision of its server thread          *)
(* (c_main.c, c_mode_eng.c), the commands of its operator (c_operator.c)  *)
(* and the messages that both hand to the client thread (c_comm.c over the *)
(* queue that Outbox describes).                                           *)
(*                                                                         *)
(* The threads share two locks, and who holds them follows from where the  *)
(* threads are.  console_io_lock is held while messages are posted one by  *)
(* one and while the screen is drawn, and is given back while the operator *)
(* types; a line of the log, of the client thread as well, is one step.    *)
(* mode_eng_lock guards the rows: it is asked for with the console held by *)
(* the display and by the commands, and without it everywhere else.        *)
(*                                                                         *)
(* Central's rows are here as far as its own commands fill them; what the  *)
(* controllers report is in CrossingNetwork.                               *)
(***************************************************************************)
EXTENDS Integers, Sequences

CONSTANTS
  CAPACITY,                  \* of the outgoing queue
  NoJob,
  Lx,                        \* the intersections, in broadcast order
  Chains,                    \* the arterial chains, each in its order
  Crossings,                 \* the railway crossings, for fault clears
  Hours,                     \* hours of the clock, and those that are forced
  StartHours,                \* of the clock when Central is started
  PEAK_START, PEAK_END,      \* schedule of c_mode_eng_init
  Durations,                 \* numbers typed for a duration
  WORD,                      \* 2^32, the range of uint32_t
  DURATION_MAX,
  CHANGES_MAX                \* bound on the commands and the changes of the hour

Targets == {Lx[i] : i \in 1 .. Len(Lx)}

ASSUME DurationAssumption ==
  /\ WORD \in Nat \ {0} /\ DURATION_MAX \in Nat /\ DURATION_MAX < WORD
  /\ Durations \subseteq Int
ASSUME BoundsAssumption ==
  CAPACITY \in Nat /\ CHANGES_MAX \in Nat /\ StartHours \subseteq Hours
ASSUME ListsAssumption ==
  Lx \in Seq(Targets) /\ \A c \in 1 .. Len(Chains) : Chains[c] \in Seq(Targets)

\* operating_mode_t.
PEAK_FIXED == 0
OFF_PEAK_SENSOR == 1
Modes == {PEAK_FIXED, OFF_PEAK_SENSOR}

\* What Central keeps a record of per intersection: last_commanded_mode,
\* last_applied_profile_id, override_in_flight.
Kinds == {"MODE", "PROFILE", "OVERRIDE"}

Kind(verb) ==
  IF verb = "SET_MODE" THEN "MODE"
  ELSE IF verb = "SET_TIMING_PROFILE" THEN "PROFILE"
  ELSE IF verb \in {"REQUEST_OVERRIDE", "CANCEL_OVERRIDE"} THEN "OVERRIDE"
  ELSE "NONE"

VARIABLES
  hour,                              \* of the real clock
  demo_hour, demo_hour_override_active,
  last_auto_mode, last_auto_mode_valid, next_profile_id,
  table,                             \* the rows of the intersections
  server, auto_mode,                 \* where the server thread is, a local of on_pulse
  operator,                          \* where the operator thread is
  changes,                           \* so far, up to the bound
  to_post,                           \* of either thread, in order
  waiting, current, outcome,         \* the outgoing queue
  received,                          \* what each intersection last took, by kind
  newest,                            \* the end of the newest message of each kind
  overtaken                          \* intersections commanded anew while an earlier
                                     \* automatic decision had not been posted

clockVars == <<hour, changes>>
demoVars == <<demo_hour, demo_hour_override_active>>
autoVars == <<last_auto_mode, last_auto_mode_valid>>
engineVars == <<demoVars, autoVars, next_profile_id, table>>
serverVars == <<server, auto_mode>>
queueVars == <<waiting, current, outcome>>
farVars == <<received, newest>>
messageVars == <<to_post, queueVars, farVars, overtaken>>
vars == <<clockVars, engineVars, serverVars, operator, to_post, queueVars, farVars,
          overtaken>>

Bodies == 0 .. WORD - 1
Jobs ==
  [target_id : Targets, verb : {"SET_MODE"}, body : Modes]
    \cup [target_id : Targets, verb : {"SET_TIMING_PROFILE"}, body : Nat \ {0}]
    \cup [target_id : Targets, verb : {"REQUEST_OVERRIDE"}, body : 1 .. DURATION_MAX]
    \cup [target_id : Targets, verb : {"RENEW_OVERRIDE"}, body : Bodies]
    \cup [target_id : Targets, verb : {"CANCEL_OVERRIDE"}, body : {0}]
    \cup [target_id : Targets \cup Crossings, verb : {"REQUEST_FAULT_CLEAR"}, body : {0}]

ASSUME NoJobAssumption == NoJob \notin Jobs

Queue == INSTANCE Outbox

\* c_mode_eng_init, with intersections that have just started as well: what
\* they run is what the cleared rows say.
Init ==
  /\ hour \in StartHours /\ demo_hour = 0 /\ demo_hour_override_active = FALSE
  /\ last_auto_mode = PEAK_FIXED /\ last_auto_mode_valid = FALSE
  /\ next_profile_id = 1
  /\ table = [l \in Targets |-> [k \in Kinds |-> 0]]
  /\ server = "IDLE" /\ auto_mode = PEAK_FIXED
  /\ operator = "READING" /\ changes = 0
  /\ to_post = [t \in {"SERVER", "OPERATOR"} |-> <<>>]
  /\ Queue!Init
  /\ received = table
  /\ newest = [l \in Targets |-> [k \in Kinds |-> "TOLD"]]
  /\ overtaken = {}

-----------------------------------------------------------------------------
(* The locks: console_io_lock and mode_eng_lock.                            *)

\* Defect: the console is kept while the operator types.
OperatorHolds_Typing ==
  operator \in {"TYPING", "UPDATING", "STORING", "RESUMING", "CLEARING", "SENDING"}

OperatorHolds == operator \in {"UPDATING", "STORING", "RESUMING", "CLEARING", "SENDING"}

ServerHolds == server \in {"SENDING", "DRAWING", "RENDERING"}

ConsoleFree == ~OperatorHolds /\ ~ServerHolds

ServerHoldsEngine == server \in {"RECORDING", "DECIDING", "RENDERING"}

OperatorHoldsEngine == operator \in {"STORING", "CLEARING"}

EngineFree == ~ServerHoldsEngine /\ ~OperatorHoldsEngine

-----------------------------------------------------------------------------
(* Posting (c_comm.c).                                                      *)

Message(l, verb, body) == [target_id |-> l, verb |-> verb, body |-> body]

\* c_comm_broadcast_set_mode.
SetModeForAll(mode) == [i \in 1 .. Len(Lx) |-> Message(Lx[i], "SET_MODE", mode)]

\* The next message of a thread; one that a full queue refuses is dropped.
PostNext(t) ==
  /\ to_post[t] # <<>>
  /\ LET j == Head(to_post[t])
     IN  /\ IF Queue!Full THEN UNCHANGED queueVars ELSE Queue!Accept(j)
         /\ newest' = IF Kind(j.verb) = "NONE" THEN newest
                      ELSE [newest EXCEPT ![j.target_id][Kind(j.verb)] =
                              IF Queue!Full THEN "LOST" ELSE "PENDING"]
  /\ to_post' = [to_post EXCEPT ![t] = Tail(@)]

-----------------------------------------------------------------------------
(* The server thread (c_main.c on_request, on_pulse).                       *)

\* What comes first for a request or a pulse, the look at the hour, the display.
TakeEngine ==
  /\ EngineFree
  /\ \/ server = "IDLE" /\ server' = "RECORDING"
     \/ server = "CHECKING" /\ server' = "DECIDING"
     \/ server = "DRAWING" /\ server' = "RENDERING"
  /\ UNCHANGED <<clockVars, engineVars, auto_mode, operator, messageVars>>

\* What a controller reports is on record, and may be worth a line in the log; or
\* it was the watchdog's tick, which may have found controllers to log as lost.
Record ==
  /\ server = "RECORDING" /\ server' \in {"IDLE", "REPORTING", "LOGGING", "CHECKING"}
  /\ UNCHANGED <<clockVars, engineVars, auto_mode, operator, messageVars>>

\* Lines of the log.
Log ==
  /\ ConsoleFree
  /\ \/ server = "REPORTING" /\ server' = "IDLE"
     \/ server = "LOGGING" /\ server' = "CHECKING"
  /\ UNCHANGED <<clockVars, engineVars, auto_mode, operator, messageVars>>

SelectMode(h) ==
  IF PEAK_START <= h /\ h < PEAK_END THEN PEAK_FIXED ELSE OFF_PEAK_SENSOR

CurrentHour == IF demo_hour_override_active THEN demo_hour ELSE hour

\* c_mode_eng_mark_all_lx_commanded.
MarkAllCommanded(mode) == [l \in Targets |-> [table[l] EXCEPT !["MODE"] = mode]]

\* c_mode_eng_auto_check: the very first check only takes note of the mode.
AutoCheck ==
  /\ server = "DECIDING"
  /\ last_auto_mode' = SelectMode(CurrentHour) /\ last_auto_mode_valid' = TRUE
  /\ IF last_auto_mode_valid /\ last_auto_mode' # last_auto_mode
       THEN /\ server' = "SWITCHING" /\ auto_mode' = last_auto_mode'
            /\ table' = MarkAllCommanded(auto_mode')
            /\ to_post' = [to_post EXCEPT !["SERVER"] = SetModeForAll(auto_mode')]
            /\ overtaken' = {}
       ELSE /\ server' = "FINISHING"
            /\ UNCHANGED <<auto_mode, table, to_post, overtaken>>
  /\ UNCHANGED <<clockVars, demoVars, next_profile_id, operator, queueVars, farVars>>

\* Defect: the broadcast does not wait for the console.
MayBroadcast_Always == TRUE

MayBroadcast == ConsoleFree

StartBroadcast ==
  /\ server = "SWITCHING" /\ MayBroadcast /\ server' = "SENDING"
  /\ UNCHANGED <<clockVars, engineVars, auto_mode, operator, messageVars>>

ServerPosts ==
  /\ server = "SENDING" /\ PostNext("SERVER")
  /\ server' = IF to_post'["SERVER"] = <<>> THEN "FINISHING" ELSE "SENDING"
  /\ UNCHANGED <<clockVars, engineVars, auto_mode, operator, received, overtaken>>

StartDisplay ==
  /\ server = "FINISHING" /\ ConsoleFree /\ server' = "DRAWING"
  /\ UNCHANGED <<clockVars, engineVars, auto_mode, operator, messageVars>>

\* c_hmi_render only reads.
Render ==
  /\ server = "RENDERING" /\ server' = "IDLE"
  /\ UNCHANGED <<clockVars, engineVars, auto_mode, operator, messageVars>>

-----------------------------------------------------------------------------
(* The operator thread (c_operator.c).                                      *)

\* scanf returns a key; one that is no command is ignored.
TypeKey ==
  /\ operator = "READING" /\ operator' = "LOCKING"
  /\ UNCHANGED <<clockVars, engineVars, serverVars, messageVars>>

\* 'q', or the end of the input: this thread only.
Quit ==
  /\ operator = "READING" /\ operator' = "STOPPED"
  /\ UNCHANGED <<clockVars, engineVars, serverVars, messageVars>>

\* read_long: the prompt is out and the lock is free again while scanf waits; a
\* command that asks for more than one number comes back here.
Prompt ==
  /\ operator \in {"LOCKING", "RETURNING"} /\ ConsoleFree /\ operator' = "TYPING"
  /\ UNCHANGED <<clockVars, engineVars, serverVars, messageVars>>

TypeNumber ==
  /\ operator = "TYPING" /\ operator' = "RETURNING"
  /\ UNCHANGED <<clockVars, engineVars, serverVars, messageVars>>

\* The help, or an answer that is no number or out of its range.
Return ==
  /\ operator \in {"LOCKING", "RETURNING"} /\ ConsoleFree /\ operator' = "READING"
  /\ UNCHANGED <<clockVars, engineVars, serverVars, messageVars>>

Count == changes < CHANGES_MAX /\ changes' = changes + 1

\* All that the command asks for has been typed, or it asks for nothing.
TakeConsole ==
  /\ ConsoleFree /\ Count
  /\ \/ operator = "RETURNING" /\ operator' = "UPDATING"
     \/ operator = "LOCKING" /\ operator' = "RESUMING"
  /\ UNCHANGED <<hour, engineVars, serverVars, messageVars>>

LockEngine ==
  /\ EngineFree
  /\ \/ operator = "UPDATING" /\ operator' = "STORING"
     \/ operator = "RESUMING" /\ operator' = "CLEARING"
  /\ UNCHANGED <<clockVars, engineVars, serverVars, messageVars>>

\* The messages of a command are posted before the console is given back.
Send(messages) ==
  /\ to_post' = [to_post EXCEPT !["OPERATOR"] = messages]
  /\ operator' = IF messages = <<>> THEN "READING" ELSE "SENDING"
  /\ UNCHANGED <<hour, serverVars, queueVars, farVars>>

\* The rows are changed under mode_eng_lock.
Command(messages) == operator = "STORING" /\ Send(messages) /\ UNCHANGED changes

Commanded(targets) ==
  overtaken' = IF server = "SWITCHING" THEN overtaken \cup targets
                                       ELSE overtaken \ targets

SetMode(l, mode) ==
  /\ Command(<<Message(l, "SET_MODE", mode)>>)
  /\ table' = [table EXCEPT ![l]["MODE"] = mode] /\ Commanded({l})
  /\ UNCHANGED <<demoVars, autoVars, next_profile_id>>

\* Defect: the rows take the number that the next profile will have.
ProfileOnRecord_Next(id) == id + 1

ProfileOnRecord(id) == id

SetTimingProfile(chain) ==
  /\ Command([i \in 1 .. Len(chain) |->
                Message(chain[i], "SET_TIMING_PROFILE", next_profile_id)])
  /\ table' = [l \in Targets |->
                 IF \E i \in 1 .. Len(chain) : chain[i] = l
                   THEN [table[l] EXCEPT !["PROFILE"] = ProfileOnRecord(next_profile_id)]
                   ELSE table[l]]
  /\ next_profile_id' = next_profile_id + 1
  /\ UNCHANGED <<demoVars, autoVars, overtaken>>

\* Defect: a duration of zero passes.
ValidDuration_Zero(n) == n <= DURATION_MAX

\* c_mode_eng_validate_override_request, of the number that is left of n.
ValidDuration(n) == n # 0 /\ n <= DURATION_MAX

RequestOverride(l, n) ==
  LET duration_ms == n % WORD
      valid == ValidDuration(duration_ms)
  IN  /\ Command(IF valid THEN <<Message(l, "REQUEST_OVERRIDE", duration_ms)>> ELSE <<>>)
      /\ table' = IF valid THEN [table EXCEPT ![l]["OVERRIDE"] = 1] ELSE table
      /\ UNCHANGED <<demoVars, autoVars, next_profile_id, overtaken>>

\* Sent whether or not an override is on record; no range is checked here.
RenewOverride(l, n) ==
  /\ Command(<<Message(l, "RENEW_OVERRIDE", n % WORD)>>)
  /\ UNCHANGED <<engineVars, overtaken>>

CancelOverride(l) ==
  /\ Command(<<Message(l, "CANCEL_OVERRIDE", 0)>>)
  /\ table' = [table EXCEPT ![l]["OVERRIDE"] = 0]
  /\ UNCHANGED <<demoVars, autoVars, next_profile_id, overtaken>>

\* It touches no row.
RequestFaultClear(target) ==
  /\ operator = "RETURNING" /\ ConsoleFree /\ Count
  /\ Send(<<Message(target, "REQUEST_FAULT_CLEAR", 0)>>)
  /\ UNCHANGED <<engineVars, overtaken>>

DemoHour(h) ==
  LET mode == SelectMode(h)
  IN  /\ Command(SetModeForAll(mode))
      /\ demo_hour' = h /\ demo_hour_override_active' = TRUE
      /\ last_auto_mode' = mode /\ last_auto_mode_valid' = TRUE
      /\ table' = MarkAllCommanded(mode) /\ Commanded(Targets)
      /\ UNCHANGED next_profile_id

ResumeAutomatic ==
  /\ operator = "CLEARING" /\ operator' = "READING"
  /\ demo_hour_override_active' = FALSE
  /\ UNCHANGED <<clockVars, demo_hour, autoVars, next_profile_id, table, serverVars,
                 messageVars>>

OperatorPosts ==
  /\ operator = "SENDING" /\ PostNext("OPERATOR")
  /\ operator' = IF to_post'["OPERATOR"] = <<>> THEN "READING" ELSE "SENDING"
  /\ UNCHANGED <<clockVars, engineVars, serverVars, received, overtaken>>

Commands ==
  \/ \E l \in Targets, mode \in Modes : SetMode(l, mode)
  \/ \E c \in 1 .. Len(Chains) : SetTimingProfile(Chains[c])
  \/ \E l \in Targets, n \in Durations : RequestOverride(l, n) \/ RenewOverride(l, n)
  \/ \E l \in Targets : CancelOverride(l)
  \/ \E target \in Targets \cup Crossings : RequestFaultClear(target)
  \/ \E h \in Hours : DemoHour(h)
  \/ ResumeAutomatic

-----------------------------------------------------------------------------
(* The client thread and the controllers, which may or may not answer.      *)

BeginJob ==
  /\ Queue!Begin
  /\ UNCHANGED <<clockVars, engineVars, serverVars, operator, to_post, farVars,
                 overtaken>>

\* Messages of the kind that are still on their way to l.
OnTheWay(l, kind) ==
  LET Concerns(j) == j.target_id = l /\ Kind(j.verb) = kind
  IN  \/ \E t \in {"SERVER", "OPERATOR"} : \E i \in 1 .. Len(to_post[t]) : Concerns(to_post[t][i])
      \/ \E i \in 1 .. Len(waiting) : Concerns(waiting[i])

Taken(j) == IF j.verb = "REQUEST_OVERRIDE" THEN 1 ELSE j.body

\* The intersection takes the message, or it fails.
Conclude(result) ==
  /\ Queue!Conclude(result)
  /\ LET l == current.target_id
         kind == Kind(current.verb)
         end == IF result = "ANSWERED" THEN "TOLD" ELSE "LOST"
     IN  IF kind = "NONE" THEN UNCHANGED farVars
         ELSE /\ newest' = IF newest[l][kind] = "PENDING" /\ ~OnTheWay(l, kind)
                             THEN [newest EXCEPT ![l][kind] = end] ELSE newest
              /\ received' = IF result = "ANSWERED"
                               THEN [received EXCEPT ![l][kind] = Taken(current)]
                               ELSE received
  /\ UNCHANGED <<clockVars, engineVars, serverVars, operator, to_post, overtaken>>

\* on_command_reply logs.
OnCommandReply ==
  /\ ConsoleFree /\ Queue!Report
  /\ UNCHANGED <<clockVars, engineVars, serverVars, operator, to_post, farVars,
                 overtaken>>

HourPasses ==
  /\ Count /\ hour' \in Hours \ {hour}
  /\ UNCHANGED <<engineVars, serverVars, operator, messageVars>>

ServerStep ==
  TakeEngine \/ Record \/ Log \/ AutoCheck \/ StartBroadcast \/ ServerPosts
    \/ StartDisplay \/ Render

\* What the operator thread does by itself, once the input is there.
OperatorStep ==
  Prompt \/ Return \/ TakeConsole \/ LockEngine \/ Commands \/ OperatorPosts

Next ==
  \/ ServerStep
  \/ OperatorStep
  \/ TypeKey \/ Quit \/ TypeNumber
  \/ BeginJob \/ OnCommandReply
  \/ \E result \in Queue!Results : Conclude(result)
  \/ HourPasses

Spec == Init /\ [][Next]_vars

\* A mutex goes to the thread that has waited longest, so a thread that asks for
\* it again and again gets it; nothing makes the operator type, or a controller
\* answer.
FairSpec ==
  Spec /\ SF_vars(ServerStep) /\ SF_vars(OperatorStep) /\ SF_vars(OnCommandReply)

-----------------------------------------------------------------------------
ServerPlaces ==
  {"IDLE", "RECORDING", "REPORTING", "LOGGING", "CHECKING", "DECIDING", "SWITCHING",
   "SENDING", "FINISHING", "DRAWING", "RENDERING"}
OperatorPlaces ==
  {"READING", "LOCKING", "TYPING", "RETURNING", "UPDATING", "STORING", "RESUMING",
   "CLEARING", "SENDING", "STOPPED"}

\* The values Central's memory and messages may take: among them, that whatever
\* number is typed a request for an override has a duration within its limits.
CTypeOK ==
  /\ hour \in Hours /\ demo_hour \in Hours \cup {0}
  /\ demo_hour_override_active \in BOOLEAN
  /\ last_auto_mode \in Modes /\ last_auto_mode_valid \in BOOLEAN
  /\ next_profile_id \in 1 .. CHANGES_MAX + 1
  /\ table \in [Targets -> [Kinds -> Nat]]
  /\ server \in ServerPlaces
  /\ auto_mode \in Modes
  /\ operator \in OperatorPlaces
  /\ changes \in 0 .. CHANGES_MAX
  /\ \A t \in {"SERVER", "OPERATOR"} : to_post[t] \in Seq(Jobs)
  /\ waiting \in Seq(Jobs) /\ Len(waiting) <= CAPACITY
  /\ current \in Jobs \cup {NoJob} /\ outcome \in Queue!Outcomes
  /\ received \in [Targets -> [Kinds -> Nat]]
  /\ newest \in [Targets -> [Kinds -> {"TOLD", "PENDING", "LOST"}]]
  /\ overtaken \subseteq Targets

\* Every message of the kind has ended, the newest of them at the intersection.
Settled(l, kind) == newest[l][kind] = "TOLD" /\ ~OnTheWay(l, kind)

\* Central's rows name the profile and the override that the intersection was
\* last sent, whatever is typed and refused or lost before, once it took it.
RecordAsReceived ==
  \A l \in Targets, kind \in {"PROFILE", "OVERRIDE"} :
    Settled(l, kind) => received[l][kind] = table[l][kind]

\* So it is with the modes, unless the operator commanded another one between an
\* automatic decision and its broadcast: then all that were overtaken run the
\* automatic one, and never some the one and some the other.
ModesMatch ==
  \A l \in Targets : Settled(l, "MODE") =>
    received[l]["MODE"] = IF l \in overtaken THEN auto_mode ELSE table[l]["MODE"]

Busy == OperatorPlaces \ {"READING", "TYPING", "STOPPED"}

\* No thread waits for ever for either lock, whatever the others do: the server
\* takes up one request or pulse after the other even while the operator sits at a
\* prompt, every command is gone through, and every answer that comes is logged
\* (TC-RACE-20 of docs/test-plan-en/06-concurrency-race.md).
ConsoleShared ==
  /\ []<>(server = "RECORDING")
  /\ []<>(operator \notin Busy)
  /\ []<>(outcome \notin Queue!Results)
================================================================================
