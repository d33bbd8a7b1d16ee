---------------------------- MODULE CentralProofs ----------------------------
(***************************************************************************)
(* Proofs about Central: whatever its operator types and its schedule      *)
(* decides, and whichever message is refused or lost, its rows name what   *)
(* the intersections were last sent once they took it.                     *)
(***************************************************************************)
EXTENDS CentralController, QueueLemmas

USE DEF clockVars, demoVars, autoVars, engineVars, serverVars, queueVars, farVars,
        messageVars, ServerPlaces, OperatorPlaces

Threads == {"SERVER", "OPERATOR"}

-----------------------------------------------------------------------------
(* Messages.                                                                *)

LEMMA JobFacts ==
  /\ Kinds = {"MODE", "PROFILE", "OVERRIDE"} /\ Modes = {0, 1}
  /\ \A j \in Jobs : /\ Kind(j.verb) \in Kinds \cup {"NONE"}
                     /\ Kind(j.verb) # "NONE" => j.target_id \in Targets /\ Taken(j) \in Nat
  /\ NoJob \notin Jobs
BY NoJobAssumption
   DEF Jobs, Kind, Kinds, Taken, Modes, PEAK_FIXED, OFF_PEAK_SENSOR

LEMMA MessageFields ==
  ASSUME NEW l, NEW verb, NEW body
  PROVE  /\ Message(l, verb, body).target_id = l
         /\ Message(l, verb, body).verb = verb /\ Message(l, verb, body).body = body
BY DEF Message

LEMMA CommandMessages ==
  ASSUME NEW l \in Targets
  PROVE  /\ \A mode \in Modes : Message(l, "SET_MODE", mode) \in Jobs
         /\ \A id \in Nat \ {0} : Message(l, "SET_TIMING_PROFILE", id) \in Jobs
         /\ \A n \in 1 .. DURATION_MAX : Message(l, "REQUEST_OVERRIDE", n) \in Jobs
         /\ \A n \in Bodies : Message(l, "RENEW_OVERRIDE", n) \in Jobs
         /\ Message(l, "CANCEL_OVERRIDE", 0) \in Jobs
BY DEF Message, Jobs

LEMMA ClearMessage ==
  ASSUME NEW target \in Targets \cup Crossings
  PROVE  Message(target, "REQUEST_FAULT_CLEAR", 0) \in Jobs
BY DEF Message, Jobs

\* A broadcast has one message for each intersection.
LEMMA ModeMessages ==
  ASSUME NEW mode \in Modes
  PROVE  /\ SetModeForAll(mode) \in Seq(Jobs)
         /\ \A i \in 1 .. Len(SetModeForAll(mode)) :
              SetModeForAll(mode)[i].verb = "SET_MODE" /\ SetModeForAll(mode)[i].body = mode
         /\ \A l \in Targets : \E i \in 1 .. Len(SetModeForAll(mode)) :
              SetModeForAll(mode)[i].target_id = l
<1>1. Len(Lx) \in Nat /\ \A i \in 1 .. Len(Lx) : Lx[i] \in Targets
  BY ListsAssumption
<1>2. \A i \in 1 .. Len(Lx) : Message(Lx[i], "SET_MODE", mode) \in Jobs
  BY <1>1, CommandMessages
<1>3. SetModeForAll(mode) = [i \in 1 .. Len(Lx) |-> Message(Lx[i], "SET_MODE", mode)]
  BY DEF SetModeForAll
<1>4. SetModeForAll(mode) \in Seq(Jobs) /\ Len(SetModeForAll(mode)) = Len(Lx)
  BY <1>1, <1>2, <1>3
<1> QED
  BY <1>1, <1>3, <1>4, MessageFields DEF Targets

\* The number that is left of the one typed; a valid one is within the limits.
LEMMA TypedDuration ==
  ASSUME NEW n \in Durations
  PROVE  n % WORD \in Bodies /\ (ValidDuration(n % WORD) => n % WORD \in 1 .. DURATION_MAX)
<1>1. n \in Int /\ WORD \in Nat /\ WORD > 0 /\ DURATION_MAX \in Nat
  BY DurationAssumption
<1>2. n % WORD \in 0 .. WORD - 1
  BY <1>1
<1> QED
  BY <1>1, <1>2 DEF Bodies, ValidDuration

\* One cell of a table changes, and no other.
LEMMA CellUpdate ==
  ASSUME NEW S, NEW f \in [Targets -> [Kinds -> S]],
         NEW l \in Targets, NEW k \in Kinds, NEW v \in S
  PROVE  /\ [f EXCEPT ![l][k] = v] \in [Targets -> [Kinds -> S]]
         /\ \A a \in Targets, b \in Kinds :
              [f EXCEPT ![l][k] = v][a][b] = IF a = l /\ b = k THEN v ELSE f[a][b]
<1>1. [f[l] EXCEPT ![k] = v] \in [Kinds -> S]
  OBVIOUS
<1> QED
  BY <1>1

-----------------------------------------------------------------------------
(* Types.                                                                   *)

EngineTypes ==
  /\ hour \in Hours /\ demo_hour \in Hours \cup {0}
  /\ demo_hour_override_active \in BOOLEAN
  /\ last_auto_mode \in Modes /\ last_auto_mode_valid \in BOOLEAN
  /\ next_profile_id \in Nat \ {0}
  /\ next_profile_id <= IF operator \in {"UPDATING", "STORING"} THEN changes ELSE changes + 1
  /\ changes \in Nat /\ changes <= CHANGES_MAX
  /\ table \in [Targets -> [Kinds -> Nat]]

ThreadTypes ==
  /\ server \in ServerPlaces
  /\ auto_mode \in Modes
  /\ operator \in OperatorPlaces
  /\ to_post \in [Threads -> Seq(Jobs)]
  /\ overtaken \subseteq Targets

QueueTypes ==
  /\ waiting \in Seq(Jobs) /\ Len(waiting) <= CAPACITY
  /\ current \in Jobs \cup {NoJob} /\ outcome \in Queue!Outcomes
  /\ current = NoJob <=> outcome = "NONE"
  /\ received \in [Targets -> [Kinds -> Nat]]
  /\ newest \in [Targets -> [Kinds -> {"TOLD", "PENDING", "LOST"}]]

CTypes == EngineTypes /\ ThreadTypes /\ QueueTypes

LEMMA InitTypes == Init => CTypes
<1> SUFFICES ASSUME Init PROVE CTypes
  OBVIOUS
<1>1. 0 \in Nat /\ Len(<<>>) = 0 /\ <<>> \in Seq(Jobs)
  OBVIOUS
<1>2. EngineTypes
  <2>1. 0 \in Modes /\ PEAK_FIXED = 0
    BY DEF Modes, PEAK_FIXED
  <2>2. table \in [Targets -> [Kinds -> Nat]]
    BY <1>1 DEF Init
  <2>3. CHANGES_MAX \in Nat
    BY BoundsAssumption
  <2>4. changes = 0 /\ next_profile_id = 1 /\ operator = "READING" /\ hour \in Hours
    BY BoundsAssumption DEF Init
  <2>5. /\ next_profile_id \in Nat \ {0}
        /\ next_profile_id <= IF operator \in {"UPDATING", "STORING"} THEN changes
                              ELSE changes + 1
        /\ changes \in Nat /\ changes <= CHANGES_MAX
    BY <2>3, <2>4
  <2> QED
    BY <2>1, <2>2, <2>4, <2>5 DEF Init, EngineTypes
<1>3. ThreadTypes
  BY <1>1 DEF Init, ThreadTypes, Threads, Modes
<1>4. QueueTypes
  BY <1>1, BoundsAssumption DEF Init, Queue!Init, QueueTypes, Queue!Outcomes
<1> QED
  BY <1>2, <1>3, <1>4 DEF CTypes

LEMMA SelectedMode == \A h : SelectMode(h) \in Modes
BY DEF SelectMode, Modes

\* A post appends the head of the thread's messages to the queue, or drops it.
LEMMA PostEffect ==
  ASSUME CTypes, NEW t \in Threads, PostNext(t)
  PROVE  LET j == Head(to_post[t])
         IN  /\ to_post[t] # <<>> /\ to_post[t] \in Seq(Jobs) /\ j \in Jobs
             /\ to_post' = [to_post EXCEPT ![t] = Tail(to_post[t])]
             /\ Tail(to_post[t]) \in Seq(Jobs)
             /\ UNCHANGED <<current, outcome>>
             /\ \/ Queue!Full /\ UNCHANGED waiting
                \/ ~Queue!Full /\ waiting' = Append(waiting, j)
             /\ newest' = IF Kind(j.verb) = "NONE" THEN newest
                          ELSE [newest EXCEPT ![j.target_id][Kind(j.verb)] =
                                  IF Queue!Full THEN "LOST" ELSE "PENDING"]
<1>1. to_post[t] # <<>> /\ to_post[t] \in Seq(Jobs)
  BY DEF PostNext, CTypes, ThreadTypes
<1>2. Head(to_post[t]) \in Jobs /\ Tail(to_post[t]) \in Seq(Jobs)
  BY <1>1
<1> QED
  BY <1>1, <1>2 DEF PostNext, Queue!Accept

LEMMA PostTypes ==
  ASSUME CTypes, NEW t \in Threads, PostNext(t), UNCHANGED received
  PROVE  QueueTypes' /\ to_post' \in [Threads -> Seq(Jobs)]
<1> DEFINE j == Head(to_post[t])
<1>1. /\ j \in Jobs /\ Tail(to_post[t]) \in Seq(Jobs)
      /\ to_post' = [to_post EXCEPT ![t] = Tail(to_post[t])]
      /\ UNCHANGED <<current, outcome>>
      /\ \/ Queue!Full /\ UNCHANGED waiting
         \/ ~Queue!Full /\ waiting' = Append(waiting, j)
      /\ newest' = IF Kind(j.verb) = "NONE" THEN newest
                   ELSE [newest EXCEPT ![j.target_id][Kind(j.verb)] =
                           IF Queue!Full THEN "LOST" ELSE "PENDING"]
  BY PostEffect
<1> HIDE DEF j
<1>2. waiting' \in Seq(Jobs) /\ Len(waiting') <= CAPACITY
  <2>1. waiting \in Seq(Jobs) /\ Len(waiting) <= CAPACITY /\ CAPACITY \in Nat
    BY BoundsAssumption DEF CTypes, QueueTypes
  <2>2. CASE Queue!Full
    BY <1>1, <2>1, <2>2
  <2>3. CASE ~Queue!Full
    BY <1>1, <2>1, <2>3 DEF Queue!Full
  <2> QED
    BY <2>2, <2>3
<1>3. newest' \in [Targets -> [Kinds -> {"TOLD", "PENDING", "LOST"}]]
  <2>1. newest \in [Targets -> [Kinds -> {"TOLD", "PENDING", "LOST"}]]
    BY DEF CTypes, QueueTypes
  <2>2. CASE Kind(j.verb) = "NONE"
    BY <1>1, <2>1, <2>2
  <2>3. CASE Kind(j.verb) # "NONE"
    <3>1. j.target_id \in Targets /\ Kind(j.verb) \in Kinds
      BY <1>1, <2>3, JobFacts
    <3> QED
      BY <1>1, <2>1, <2>3, <3>1
  <2> QED
    BY <2>2, <2>3
<1>4. to_post' \in [Threads -> Seq(Jobs)]
  BY <1>1 DEF CTypes, ThreadTypes
<1> QED
  BY <1>1, <1>2, <1>3, <1>4 DEF CTypes, QueueTypes

LEMMA QueueStepTypes ==
  ASSUME CTypes,
         \/ BeginJob
         \/ OnCommandReply
         \/ \E result \in Queue!Results : Conclude(result)
  PROVE  CTypes'
<1> USE DEF Queue!Outcomes, Queue!Results
<1>1. /\ waiting \in Seq(Jobs) /\ Len(waiting) <= CAPACITY /\ CAPACITY \in Nat
      /\ current \in Jobs \cup {NoJob} /\ outcome \in Queue!Outcomes
      /\ current = NoJob <=> outcome = "NONE"
      /\ received \in [Targets -> [Kinds -> Nat]]
      /\ newest \in [Targets -> [Kinds -> {"TOLD", "PENDING", "LOST"}]]
  BY BoundsAssumption DEF CTypes, QueueTypes
<1>2. CASE BeginJob
  <2>1. waiting # <<>> /\ waiting' = Tail(waiting) /\ current' = Head(waiting)
        /\ outcome' = "PENDING" /\ UNCHANGED <<received, newest>>
    BY <1>2 DEF BeginJob, Queue!Begin
  <2>2. waiting' \in Seq(Jobs) /\ Len(waiting') <= CAPACITY /\ current' \in Jobs
    BY <1>1, <2>1
  <2>3. QueueTypes'
    BY <1>1, <2>1, <2>2, JobFacts DEF QueueTypes
  <2> QED
    BY <1>2, <2>3 DEF BeginJob, CTypes, EngineTypes, ThreadTypes
<1>3. CASE OnCommandReply
  <2>1. QueueTypes'
    BY <1>1, <1>3 DEF OnCommandReply, Queue!Report, QueueTypes
  <2> QED
    BY <1>3, <2>1 DEF OnCommandReply, CTypes, EngineTypes, ThreadTypes
<1>4. ASSUME NEW result \in Queue!Results, Conclude(result)
      PROVE  CTypes'
  <2> DEFINE l == current.target_id
             kind == Kind(current.verb)
  <2>1. /\ outcome = "PENDING" /\ outcome' = result /\ UNCHANGED <<waiting, current>>
    BY <1>4 DEF Conclude, Queue!Conclude
  <2>2. current \in Jobs
    BY <1>1, <2>1
  <2>3. /\ received' \in [Targets -> [Kinds -> Nat]]
        /\ newest' \in [Targets -> [Kinds -> {"TOLD", "PENDING", "LOST"}]]
    <3>1. CASE kind = "NONE"
      BY <1>1, <1>4, <3>1 DEF Conclude
    <3>2. CASE kind # "NONE"
      <4>1. l \in Targets /\ kind \in Kinds /\ Taken(current) \in Nat
        BY <2>2, <3>2, JobFacts
      <4>2. /\ received' = [received EXCEPT ![l][kind] = Taken(current)]
               \/ received' = received
            /\ newest' = newest \/ newest' = [newest EXCEPT ![l][kind] = "TOLD"]
               \/ newest' = [newest EXCEPT ![l][kind] = "LOST"]
        BY <1>4, <3>2 DEF Conclude
      <4> HIDE DEF l, kind
      <4>3. received' \in [Targets -> [Kinds -> Nat]]
        <5>1. [received EXCEPT ![l][kind] = Taken(current)] \in [Targets -> [Kinds -> Nat]]
          BY <1>1, <4>1, CellUpdate
        <5> QED
          BY <1>1, <4>2, <5>1
      <4>4. newest' \in [Targets -> [Kinds -> {"TOLD", "PENDING", "LOST"}]]
        <5>1. ASSUME NEW end \in {"TOLD", "PENDING", "LOST"}
              PROVE  [newest EXCEPT ![l][kind] = end]
                       \in [Targets -> [Kinds -> {"TOLD", "PENDING", "LOST"}]]
          BY <1>1, <4>1, CellUpdate
        <5> QED
          BY <1>1, <4>2, <5>1
      <4> QED
        BY <4>3, <4>4
    <3> QED
      BY <3>1, <3>2
  <2>4. QueueTypes'
    BY <1>1, <2>1, <2>2, <2>3, JobFacts DEF QueueTypes
  <2> QED
    BY <1>4, <2>4 DEF Conclude, CTypes, EngineTypes, ThreadTypes
<1> QED
  BY <1>2, <1>3, <1>4

\* A command under mode_eng_lock, or the one that needs none.
Done(messages) ==
  \/ Command(messages)
  \/ operator = "RETURNING" /\ ConsoleFree /\ Count /\ Send(messages)

\* What every command does besides its own effect on the rows.
LEMMA CommandEffect ==
  ASSUME CTypes, NEW messages \in Seq(Jobs), Done(messages)
  PROVE  /\ operator # "SENDING" /\ operator' \in {"READING", "SENDING"}
         /\ operator' # "SENDING" => messages = <<>>
         /\ OperatorHolds \/ ~ServerHolds
         /\ UNCHANGED <<hour, server, auto_mode>> /\ operator' \in {"READING", "SENDING"}
         /\ changes' \in Nat /\ changes' <= CHANGES_MAX /\ next_profile_id <= changes'
         /\ to_post' = [to_post EXCEPT !["OPERATOR"] = messages]
         /\ to_post' \in [Threads -> Seq(Jobs)]
         /\ UNCHANGED <<waiting, current, outcome, received, newest>>
         /\ QueueTypes'
<1>1. /\ changes \in Nat /\ changes <= CHANGES_MAX /\ CHANGES_MAX \in Nat
      /\ next_profile_id <= IF operator \in {"UPDATING", "STORING"} THEN changes
                            ELSE changes + 1
  BY BoundsAssumption DEF CTypes, EngineTypes
<1>2. /\ to_post' = [to_post EXCEPT !["OPERATOR"] = messages] /\ Send(messages)
      /\ \/ operator = "STORING" /\ UNCHANGED changes
         \/ operator = "RETURNING" /\ ConsoleFree /\ Count
  BY DEF Done, Command, Send
<1>3. to_post' \in [Threads -> Seq(Jobs)]
  BY <1>2 DEF CTypes, ThreadTypes, Threads
<1>4. changes' \in Nat /\ changes' <= CHANGES_MAX /\ next_profile_id <= changes'
  BY <1>1, <1>2 DEF Count
<1>5. operator # "SENDING" /\ (OperatorHolds \/ ~ServerHolds)
  BY <1>2 DEF ConsoleFree, OperatorHolds
<1> QED
  BY <1>2, <1>3, <1>4, <1>5 DEF Send, CTypes, QueueTypes

\* A command that hands out no number keeps the bound of the next one.
LEMMA NumberKept ==
  ASSUME CTypes, UNCHANGED next_profile_id, changes' \in Nat, next_profile_id <= changes',
         operator' \in {"READING", "SENDING"}
  PROVE  /\ next_profile_id' \in Nat \ {0} /\ next_profile_id' <= changes' + 1
         /\ operator' \notin {"UPDATING", "STORING"}
<1>1. next_profile_id \in Nat \ {0} /\ next_profile_id' = next_profile_id
  BY DEF CTypes, EngineTypes
<1>2. operator' \notin {"UPDATING", "STORING"}
  OBVIOUS
<1>3. \A n, c \in Nat : n <= c => n <= c + 1
  OBVIOUS
<1>4. next_profile_id' \in Nat \ {0} /\ next_profile_id' <= changes'
  BY <1>1
<1>5. next_profile_id' <= changes' + 1
  BY <1>3, <1>4
<1> QED
  BY <1>2, <1>4, <1>5

-----------------------------------------------------------------------------
(* What is on the way and what Central has on record.                       *)

\* The messages that concern one kind of one intersection.
Mine(l, k) == {j \in Jobs : j.target_id = l /\ Kind(j.verb) = k}

\* What the intersection is to run in the end: its row, or the automatic mode
\* whose broadcast comes after the operator's message.
Expected(l, k) == IF k = "MODE" /\ l \in overtaken THEN auto_mode ELSE table[l][k]

Right(l, k) == {j \in Jobs : Taken(j) = Expected(l, k)}
RightFor(l, k) == {j \in Jobs : j \in Mine(l, k) => Taken(j) = Expected(l, k)}
AutoJobs == {j \in Jobs : j.verb = "SET_MODE" /\ j.body = auto_mode}

\* The effect of a command on what is on record is covered by its messages: what
\* they do not tell does not change, and what they tell is what is on record,
\* but for a mode that a broadcast is about to overtake.
Sound(messages) ==
  /\ \A l \in Targets, k \in Kinds :
       /\ ~NoneOf(messages, Mine(l, k)) \/ Expected(l, k)' = Expected(l, k)
       /\ server # "SWITCHING" \/ k # "MODE" => AllOf(messages, RightFor(l, k)')
  /\ server = "SWITCHING" => \A l \in Targets :
       Expected(l, "MODE") = auto_mode => Expected(l, "MODE")' = auto_mode

Carried(messages) ==
  /\ messages \in Seq(Jobs) /\ Done(messages)
  /\ EngineTypes' /\ overtaken' \subseteq Targets
  /\ Sound(messages)

LEMMA OneMessage ==
  ASSUME NEW j \in Jobs, NEW C, NEW V
  PROVE  /\ <<j>> \in Seq(Jobs)
         /\ AllOf(<<j>>, V) <=> j \in V
         /\ NoneOf(<<j>>, C) <=> j \notin C
<1>1. Len(<<j>>) = 1 /\ <<j>>[1] = j /\ <<j>> \in Seq(Jobs)
  OBVIOUS
<1> HIDE DEF Jobs
<1> QED
  BY <1>1 DEF AllOf, NoneOf

LEMMA SetModeCarried ==
  ASSUME CTypes, NEW l \in Targets, NEW mode \in Modes, SetMode(l, mode)
  PROVE  \E messages : Carried(messages)
<1> DEFINE j == Message(l, "SET_MODE", mode)
<1>1. j \in Jobs /\ j.target_id = l /\ j.verb = "SET_MODE" /\ j.body = mode
  BY CommandMessages, MessageFields
<1>2. Done(<<j>>) /\ table' = [table EXCEPT ![l]["MODE"] = mode]
      /\ overtaken' = (IF server = "SWITCHING" THEN overtaken \cup {l} ELSE overtaken \ {l})
      /\ UNCHANGED <<demo_hour, demo_hour_override_active, last_auto_mode,
                     last_auto_mode_valid, next_profile_id>>
  BY DEF SetMode, Commanded, Done
<1> HIDE DEF j
<1>3. /\ <<j>> \in Seq(Jobs)
      /\ \A V : AllOf(<<j>>, V) <=> j \in V
      /\ \A C : NoneOf(<<j>>, C) <=> j \notin C
  BY <1>1, OneMessage
<1>4. /\ UNCHANGED <<hour, server, auto_mode>> /\ operator' \in {"READING", "SENDING"}
      /\ changes' \in Nat /\ changes' <= CHANGES_MAX /\ next_profile_id <= changes'
  BY <1>2, <1>3, CommandEffect
<1>5. table \in [Targets -> [Kinds -> Nat]] /\ mode \in Nat /\ "MODE" \in Kinds
      /\ overtaken \subseteq Targets
  BY JobFacts DEF CTypes, EngineTypes, ThreadTypes
<1>6. /\ table' \in [Targets -> [Kinds -> Nat]]
      /\ \A a \in Targets, b \in Kinds :
           table'[a][b] = IF a = l /\ b = "MODE" THEN mode ELSE table[a][b]
  BY <1>2, <1>5, CellUpdate
<1>7. EngineTypes' /\ overtaken' \subseteq Targets
  BY <1>2, <1>4, <1>5, <1>6, NumberKept DEF CTypes, EngineTypes
<1>8. \A a, b : j \in Mine(a, b) <=> a = l /\ b = "MODE"
  BY <1>1 DEF Mine, Kind
<1>9. \A a \in Targets, b \in Kinds :
        ~(a = l /\ b = "MODE") => Expected(a, b)' = Expected(a, b)
  BY <1>2, <1>4, <1>6 DEF Expected
<1>10. Expected(l, "MODE")' = IF server = "SWITCHING" THEN auto_mode ELSE mode
  BY <1>2, <1>4, <1>5, <1>6 DEF Expected
<1>11. Taken(j) = mode
  BY <1>1 DEF Taken
<1>12. Sound(<<j>>)
  <2>1. ASSUME NEW a \in Targets, NEW b \in Kinds
        PROVE  /\ ~NoneOf(<<j>>, Mine(a, b)) \/ Expected(a, b)' = Expected(a, b)
               /\ server # "SWITCHING" \/ b # "MODE" => AllOf(<<j>>, RightFor(a, b)')
    <3>1. ~NoneOf(<<j>>, Mine(a, b)) \/ Expected(a, b)' = Expected(a, b)
      BY <1>3, <1>8, <1>9
    <3>2. ASSUME server # "SWITCHING" \/ b # "MODE"
          PROVE  j \in RightFor(a, b)'
      BY <1>1, <1>8, <1>10, <1>11, <3>2 DEF RightFor, Mine
    <3> QED
      BY <1>3, <3>1, <3>2
  <2>2. ASSUME server = "SWITCHING", NEW a \in Targets, Expected(a, "MODE") = auto_mode
        PROVE  Expected(a, "MODE")' = auto_mode
    BY <1>5, <1>9, <1>10, <2>2
  <2> QED
    BY <2>1, <2>2 DEF Sound
<1> QED
  BY <1>2, <1>3, <1>7, <1>12 DEF Carried

\* A command of one message that leaves the rows as they are, or changes what the
\* message tells.
LEMMA OneRowCarried ==
  ASSUME CTypes, NEW j \in Jobs, Done(<<j>>),
         UNCHANGED <<demo_hour, demo_hour_override_active, last_auto_mode,
                     last_auto_mode_valid, next_profile_id, overtaken>>,
         \/ Kind(j.verb) = "NONE" /\ UNCHANGED table
         \/ /\ Kind(j.verb) = "OVERRIDE"
            /\ table' = [table EXCEPT ![j.target_id]["OVERRIDE"] = Taken(j)]
  PROVE  \E messages : Carried(messages)
<1> DEFINE l == j.target_id
           kind == Kind(j.verb)
<1>1. /\ <<j>> \in Seq(Jobs)
      /\ \A V : AllOf(<<j>>, V) <=> j \in V
      /\ \A C : NoneOf(<<j>>, C) <=> j \notin C
  BY OneMessage
<1>2. /\ UNCHANGED <<hour, server, auto_mode>> /\ operator' \in {"READING", "SENDING"}
      /\ changes' \in Nat /\ changes' <= CHANGES_MAX /\ next_profile_id <= changes'
  BY <1>1, CommandEffect
<1>3. table \in [Targets -> [Kinds -> Nat]] /\ overtaken \subseteq Targets
  BY DEF CTypes, EngineTypes, ThreadTypes
<1>4. /\ table' \in [Targets -> [Kinds -> Nat]]
      /\ \A a \in Targets, b \in Kinds :
           table'[a][b] = IF kind = "OVERRIDE" /\ a = l /\ b = "OVERRIDE" THEN Taken(j)
                          ELSE table[a][b]
  <2>1. CASE kind = "NONE"
    BY <1>3, <2>1
  <2>2. CASE kind = "OVERRIDE"
    <3>1. l \in Targets /\ Taken(j) \in Nat /\ "OVERRIDE" \in Kinds
      BY <2>2, JobFacts
    <3>2. table' = [table EXCEPT ![l]["OVERRIDE"] = Taken(j)]
      BY <2>2
    <3> HIDE DEF l, kind
    <3> QED
      BY <1>3, <2>2, <3>1, <3>2, CellUpdate
  <2> QED
    BY <2>1, <2>2
<1>5. EngineTypes' /\ overtaken' \subseteq Targets
  <2>1. UNCHANGED next_profile_id
    OBVIOUS
  <2> QED
    BY <1>2, <1>3, <1>4, <2>1, NumberKept DEF CTypes, EngineTypes
<1>6. \A a, b : j \in Mine(a, b) <=> a = l /\ b = kind
  BY DEF Mine
<1>7. \A a \in Targets, b \in Kinds :
        Expected(a, b)' = IF kind = "OVERRIDE" /\ a = l /\ b = "OVERRIDE" THEN Taken(j)
                          ELSE Expected(a, b)
  BY <1>2, <1>4 DEF Expected
<1>8. "NONE" \notin Kinds /\ "MODE" \in Kinds
  BY JobFacts
<1>9. kind \in {"NONE", "OVERRIDE"}
  OBVIOUS
<1> HIDE DEF l, kind
<1>10. Sound(<<j>>)
  <2>1. ASSUME NEW a \in Targets, NEW b \in Kinds
        PROVE  /\ ~NoneOf(<<j>>, Mine(a, b)) \/ Expected(a, b)' = Expected(a, b)
               /\ server # "SWITCHING" \/ b # "MODE" => AllOf(<<j>>, RightFor(a, b)')
    <3>1. ~NoneOf(<<j>>, Mine(a, b)) \/ Expected(a, b)' = Expected(a, b)
      BY <1>1, <1>6, <1>7
    <3>2. j \in Mine(a, b) => Taken(j) = Expected(a, b)'
      BY <1>6, <1>7, <1>8, <1>9
    <3>3. j \in RightFor(a, b)'
      BY <3>2 DEF RightFor, Mine
    <3> QED
      BY <1>1, <3>1, <3>3
  <2>2. ASSUME NEW a \in Targets
        PROVE  Expected(a, "MODE")' = Expected(a, "MODE")
    BY <1>7, <1>8
  <2> QED
    BY <2>1, <2>2 DEF Sound
<1> QED
  BY <1>1, <1>5, <1>10 DEF Carried

LEMMA OverridesCarried ==
  ASSUME CTypes, NEW l \in Targets, NEW n \in Durations,
         RequestOverride(l, n) \/ RenewOverride(l, n)
  PROVE  \E messages : Carried(messages)
<1>1. CASE RequestOverride(l, n) /\ ValidDuration(n % WORD)
  <2> DEFINE j == Message(l, "REQUEST_OVERRIDE", n % WORD)
  <2>1. j \in Jobs /\ j.target_id = l /\ j.verb = "REQUEST_OVERRIDE"
    BY <1>1, TypedDuration, CommandMessages, MessageFields
  <2>2. Kind(j.verb) = "OVERRIDE" /\ Taken(j) = 1
    BY <2>1 DEF Kind, Taken
  <2>3. /\ Done(<<j>>) /\ table' = [table EXCEPT ![l]["OVERRIDE"] = 1]
        /\ UNCHANGED <<demo_hour, demo_hour_override_active, last_auto_mode,
                       last_auto_mode_valid, next_profile_id, overtaken>>
    BY <1>1 DEF RequestOverride, Done
  <2> HIDE DEF j
  <2> QED
    BY <2>1, <2>2, <2>3, OneRowCarried
<1>2. CASE RequestOverride(l, n) /\ ~ValidDuration(n % WORD)
  <2>1. Done(<<>>) /\ UNCHANGED <<demo_hour, demo_hour_override_active,
          last_auto_mode, last_auto_mode_valid, next_profile_id, overtaken, table>>
    BY <1>2 DEF RequestOverride, Done
  <2>2. <<>> \in Seq(Jobs)
    OBVIOUS
  <2>3. /\ UNCHANGED <<hour, server, auto_mode>> /\ operator' \in {"READING", "SENDING"}
        /\ changes' \in Nat /\ changes' <= CHANGES_MAX /\ next_profile_id <= changes'
    BY <2>1, <2>2, CommandEffect
  <2>4. EngineTypes' /\ overtaken' \subseteq Targets
    BY <2>1, <2>3, NumberKept DEF CTypes, EngineTypes, ThreadTypes
  <2>5. \A a \in Targets, b \in Kinds : Expected(a, b)' = Expected(a, b)
    BY <2>1, <2>3 DEF Expected
  <2>6. Sound(<<>>)
    BY <2>5, EmptyQueue, JobFacts DEF Sound
  <2> QED
    BY <2>1, <2>2, <2>4, <2>6 DEF Carried
<1>3. CASE RenewOverride(l, n)
  <2> DEFINE j == Message(l, "RENEW_OVERRIDE", n % WORD)
  <2>1. j \in Jobs /\ j.verb = "RENEW_OVERRIDE"
    BY TypedDuration, CommandMessages, MessageFields
  <2>2. Kind(j.verb) = "NONE"
    BY <2>1 DEF Kind
  <2>3. /\ Done(<<j>>)
        /\ UNCHANGED <<demo_hour, demo_hour_override_active, last_auto_mode,
                       last_auto_mode_valid, next_profile_id, overtaken, table>>
    BY <1>3 DEF RenewOverride, Done
  <2> HIDE DEF j
  <2> QED
    BY <2>1, <2>2, <2>3, OneRowCarried
<1> QED
  BY <1>1, <1>2, <1>3

LEMMA CancelCarried ==
  ASSUME CTypes, NEW l \in Targets, CancelOverride(l)
  PROVE  \E messages : Carried(messages)
<1> DEFINE j == Message(l, "CANCEL_OVERRIDE", 0)
<1>1. j \in Jobs /\ j.target_id = l /\ j.verb = "CANCEL_OVERRIDE" /\ j.body = 0
  BY CommandMessages, MessageFields
<1>2. Kind(j.verb) = "OVERRIDE" /\ Taken(j) = 0
  BY <1>1 DEF Kind, Taken
<1>3. /\ Done(<<j>>) /\ table' = [table EXCEPT ![l]["OVERRIDE"] = 0]
      /\ UNCHANGED <<demo_hour, demo_hour_override_active, last_auto_mode,
                     last_auto_mode_valid, next_profile_id, overtaken>>
  BY DEF CancelOverride, Done
<1> HIDE DEF j
<1> QED
  BY <1>1, <1>2, <1>3, OneRowCarried

LEMMA FaultClearCarried ==
  ASSUME CTypes, NEW target \in Targets \cup Crossings, RequestFaultClear(target)
  PROVE  \E messages : Carried(messages)
<1> DEFINE j == Message(target, "REQUEST_FAULT_CLEAR", 0)
<1>1. j \in Jobs /\ j.verb = "REQUEST_FAULT_CLEAR"
  BY ClearMessage, MessageFields
<1>2. Kind(j.verb) = "NONE"
  BY <1>1 DEF Kind
<1>3. /\ Done(<<j>>)
      /\ UNCHANGED <<demo_hour, demo_hour_override_active, last_auto_mode,
                     last_auto_mode_valid, next_profile_id, overtaken, table>>
  BY DEF RequestFaultClear, Done
<1> HIDE DEF j
<1> QED
  BY <1>1, <1>2, <1>3, OneRowCarried

LEMMA ProfileCarried ==
  ASSUME CTypes, NEW c \in 1 .. Len(Chains), SetTimingProfile(Chains[c])
  PROVE  \E messages : Carried(messages)
<1> DEFINE chain == Chains[c]
           id == next_profile_id
           On(l) == \E i \in 1 .. Len(chain) : chain[i] = l
           m == [i \in 1 .. Len(chain) |-> Message(chain[i], "SET_TIMING_PROFILE", id)]
<1>1. chain \in Seq(Targets) /\ Len(chain) \in Nat
      /\ \A i \in 1 .. Len(chain) : chain[i] \in Targets
  BY ListsAssumption
<1>2. /\ Done(m) /\ next_profile_id' = id + 1
      /\ table' = [l \in Targets |->
                     IF On(l) THEN [table[l] EXCEPT !["PROFILE"] = id] ELSE table[l]]
      /\ UNCHANGED <<demo_hour, demo_hour_override_active, last_auto_mode,
                     last_auto_mode_valid, overtaken>>
  BY DEF SetTimingProfile, ProfileOnRecord, Done
<1>3. /\ id \in Nat \ {0} /\ changes \in Nat
      /\ table \in [Targets -> [Kinds -> Nat]] /\ overtaken \subseteq Targets
  BY DEF CTypes, EngineTypes, ThreadTypes
<1>4. \A i \in 1 .. Len(chain) : Message(chain[i], "SET_TIMING_PROFILE", id) \in Jobs
  BY <1>1, <1>3, CommandMessages
<1>5. /\ m \in Seq(Jobs) /\ Len(m) = Len(chain)
  BY <1>1, <1>4
<1>6. \A i \in 1 .. Len(m) : m[i].target_id = chain[i] /\ m[i] \in Jobs
                             /\ m[i].verb = "SET_TIMING_PROFILE" /\ m[i].body = id
  BY <1>4, <1>5, MessageFields
<1> HIDE DEF m, chain
<1>7. /\ UNCHANGED <<hour, server, auto_mode>> /\ operator' \in {"READING", "SENDING"}
      /\ changes' \in Nat /\ changes' <= CHANGES_MAX /\ next_profile_id <= changes'
  BY <1>2, <1>5, CommandEffect
<1>8. "PROFILE" \in Kinds /\ "MODE" \in Kinds
  BY JobFacts
<1>9. /\ table' \in [Targets -> [Kinds -> Nat]]
      /\ \A a \in Targets, b \in Kinds :
           table'[a][b] = IF b = "PROFILE" /\ On(a) THEN id ELSE table[a][b]
  <2>1. \A a \in Targets : [table[a] EXCEPT !["PROFILE"] = id] \in [Kinds -> Nat]
    BY <1>3
  <2> HIDE DEF On, id
  <2>2. table' \in [Targets -> [Kinds -> Nat]]
    BY <1>2, <1>3, <2>1
  <2>3. ASSUME NEW a \in Targets, NEW b \in Kinds
        PROVE  table'[a][b] = IF b = "PROFILE" /\ On(a) THEN id ELSE table[a][b]
    <3>1. table'[a] = IF On(a) THEN [table[a] EXCEPT !["PROFILE"] = id] ELSE table[a]
      BY <1>2
    <3>2. table[a] \in [Kinds -> Nat]
      BY <1>3
    <3> QED
      BY <1>8, <3>1, <3>2
  <2> QED
    BY <2>2, <2>3
<1>10. EngineTypes' /\ overtaken' \subseteq Targets
  <2>1. /\ next_profile_id' \in Nat \ {0} /\ next_profile_id' <= changes' + 1
        /\ operator' \notin {"UPDATING", "STORING"}
    BY <1>2, <1>3, <1>7
  <2> QED
    BY <1>2, <1>3, <1>7, <1>9, <2>1 DEF CTypes, EngineTypes
<1>11. \A a \in Targets, b \in Kinds :
         Expected(a, b)' = IF b = "PROFILE" /\ On(a) THEN id ELSE Expected(a, b)
  BY <1>2, <1>7, <1>9 DEF Expected
<1>12. \A i \in 1 .. Len(m) : Taken(m[i]) = id /\ Kind(m[i].verb) = "PROFILE"
  BY <1>6 DEF Taken, Kind
<1>13. Sound(m)
  <2>1. ASSUME NEW a \in Targets, NEW b \in Kinds
        PROVE  /\ ~NoneOf(m, Mine(a, b)) \/ Expected(a, b)' = Expected(a, b)
               /\ AllOf(m, RightFor(a, b)')
    <3>1. CASE b = "PROFILE" /\ On(a)
      <4>1. PICK i \in 1 .. Len(m) : chain[i] = a
        BY <1>5, <3>1
      <4>2. m[i] \in Mine(a, b)
        BY <1>6, <1>12, <3>1, <4>1 DEF Mine
      <4>3. ~NoneOf(m, Mine(a, b))
        BY <4>2 DEF NoneOf
      <4>4. Expected(a, b)' = id
        BY <1>11, <3>1
      <4> QED
        BY <1>6, <1>12, <4>3, <4>4 DEF AllOf, RightFor
    <3>2. CASE ~(b = "PROFILE" /\ On(a))
      <4>1. Expected(a, b)' = Expected(a, b)
        BY <1>11, <3>2
      <4>2. \A i \in 1 .. Len(m) : m[i] \notin Mine(a, b)
        BY <1>5, <1>6, <1>12, <3>2 DEF Mine
      <4>3. \A i \in 1 .. Len(m) : m[i] \in RightFor(a, b)'
        BY <1>6, <4>2 DEF RightFor, Mine
      <4> QED
        BY <4>1, <4>3 DEF AllOf
    <3> QED
      BY <3>1, <3>2
  <2>2. ASSUME NEW a \in Targets
        PROVE  Expected(a, "MODE")' = Expected(a, "MODE")
    BY <1>8, <1>11
  <2> QED
    BY <2>1, <2>2 DEF Sound
<1> QED
  BY <1>2, <1>5, <1>10, <1>13 DEF Carried

\* A broadcast of a mode tells every intersection what its row says then.
LEMMA BroadcastMessages ==
  ASSUME NEW mode \in Modes, NEW l \in Targets, NEW V,
         \A j \in Jobs : j.verb = "SET_MODE" /\ j.body = mode => j \in V
  PROVE  /\ ~NoneOf(SetModeForAll(mode), Mine(l, "MODE"))
         /\ AllOf(SetModeForAll(mode), V)
         /\ \A k : k # "MODE" => NoneOf(SetModeForAll(mode), Mine(l, k))
<1> DEFINE m == SetModeForAll(mode)
<1>1. /\ m \in Seq(Jobs)
      /\ \A i \in 1 .. Len(m) : m[i].verb = "SET_MODE" /\ m[i].body = mode
      /\ \E i \in 1 .. Len(m) : m[i].target_id = l
  BY ModeMessages
<1> HIDE DEF m
<1>2. \A i \in 1 .. Len(m) : m[i] \in Jobs
  BY <1>1
<1>3. \A i \in 1 .. Len(m) : Kind(m[i].verb) = "MODE"
  BY <1>1 DEF Kind
<1>4. ~NoneOf(m, Mine(l, "MODE"))
  BY <1>1, <1>2, <1>3 DEF NoneOf, Mine
<1>5. AllOf(m, V)
  BY <1>1, <1>2 DEF AllOf
<1>6. \A k : k # "MODE" => NoneOf(m, Mine(l, k))
  BY <1>3 DEF NoneOf, Mine
<1> QED
  BY <1>4, <1>5, <1>6 DEF m

LEMMA MarkedRows ==
  ASSUME CTypes, NEW mode \in Modes, table' = MarkAllCommanded(mode)
  PROVE  /\ table' \in [Targets -> [Kinds -> Nat]]
         /\ \A l \in Targets, k \in Kinds :
              table'[l][k] = IF k = "MODE" THEN mode ELSE table[l][k]
<1>1. table \in [Targets -> [Kinds -> Nat]] /\ mode \in Nat /\ "MODE" \in Kinds
  BY JobFacts DEF CTypes, EngineTypes
<1>2. \A l \in Targets : [table[l] EXCEPT !["MODE"] = mode] \in [Kinds -> Nat]
  BY <1>1
<1>3. table' = [l \in Targets |-> [table[l] EXCEPT !["MODE"] = mode]]
  BY DEF MarkAllCommanded
<1>4. table' \in [Targets -> [Kinds -> Nat]]
  BY <1>2, <1>3
<1>5. ASSUME NEW l \in Targets, NEW k \in Kinds
      PROVE  table'[l][k] = IF k = "MODE" THEN mode ELSE table[l][k]
  <2>1. table'[l] = [table[l] EXCEPT !["MODE"] = mode] /\ table[l] \in [Kinds -> Nat]
    BY <1>1, <1>3
  <2> QED
    BY <2>1
<1> QED
  BY <1>4, <1>5

LEMMA DemoHourCarried ==
  ASSUME CTypes, NEW h \in Hours, DemoHour(h)
  PROVE  \E messages : Carried(messages)
<1> DEFINE mode == SelectMode(h)
           m == SetModeForAll(mode)
<1>1. mode \in Modes /\ m \in Seq(Jobs)
  BY SelectedMode, ModeMessages
<1>2. /\ Done(m) /\ demo_hour' = h /\ demo_hour_override_active' = TRUE
      /\ last_auto_mode' = mode /\ last_auto_mode_valid' = TRUE
      /\ table' = MarkAllCommanded(mode)
      /\ overtaken' = (IF server = "SWITCHING" THEN overtaken \cup Targets
                                               ELSE overtaken \ Targets)
      /\ UNCHANGED next_profile_id
  BY DEF DemoHour, Commanded, Done
<1> HIDE DEF mode, m
<1>3. /\ UNCHANGED <<hour, server, auto_mode>> /\ operator' \in {"READING", "SENDING"}
      /\ changes' \in Nat /\ changes' <= CHANGES_MAX /\ next_profile_id <= changes'
  BY <1>1, <1>2, CommandEffect
<1>4. /\ table' \in [Targets -> [Kinds -> Nat]]
      /\ \A a \in Targets, b \in Kinds :
           table'[a][b] = IF b = "MODE" THEN mode ELSE table[a][b]
  BY <1>1, <1>2, MarkedRows
<1>5. EngineTypes' /\ overtaken' \subseteq Targets
  <2>1. /\ next_profile_id' \in Nat \ {0} /\ next_profile_id' <= changes' + 1
        /\ operator' \notin {"UPDATING", "STORING"}
    BY <1>2, <1>3, NumberKept
  <2> QED
    BY <1>1, <1>2, <1>3, <1>4, <2>1 DEF CTypes, EngineTypes, ThreadTypes
<1>6. \A a \in Targets, b \in Kinds : b # "MODE" => Expected(a, b)' = Expected(a, b)
  BY <1>4 DEF Expected
<1>7. \A a \in Targets :
        Expected(a, "MODE")' = IF server = "SWITCHING" THEN auto_mode ELSE mode
  BY <1>2, <1>3, <1>4, JobFacts DEF Expected
<1>8. Sound(m)
  <2>1. ASSUME NEW a \in Targets, NEW b \in Kinds
        PROVE  /\ ~NoneOf(m, Mine(a, b)) \/ Expected(a, b)' = Expected(a, b)
               /\ server # "SWITCHING" \/ b # "MODE" => AllOf(m, RightFor(a, b)')
    <3>1. ~NoneOf(m, Mine(a, b)) \/ Expected(a, b)' = Expected(a, b)
      <4>1. ~NoneOf(m, Mine(a, "MODE"))
        BY <1>1, BroadcastMessages DEF m
      <4> QED
        BY <1>6, <4>1
    <3>2. ASSUME server # "SWITCHING" \/ b # "MODE"
          PROVE  AllOf(m, RightFor(a, b)')
      <4>1. ASSUME NEW j \in Jobs, j.verb = "SET_MODE" /\ j.body = mode
            PROVE  j \in RightFor(a, b)'
        <5>1. Kind(j.verb) = "MODE" /\ Taken(j) = mode
          BY <4>1 DEF Kind, Taken
        <5>2. j \in Mine(a, b) => b = "MODE"
          BY <5>1 DEF Mine
        <5> QED
          BY <1>7, <3>2, <5>1, <5>2 DEF RightFor, Mine
      <4> QED
        BY <1>1, <4>1, BroadcastMessages DEF m
    <3> QED
      BY <3>1, <3>2
  <2>2. server = "SWITCHING" => \A a \in Targets : Expected(a, "MODE")' = auto_mode
    BY <1>7
  <2> QED
    BY <2>1, <2>2 DEF Sound
<1> QED
  BY <1>1, <1>2, <1>5, <1>8 DEF Carried

LEMMA CommandsCarried ==
  ASSUME CTypes, Commands, ~ResumeAutomatic
  PROVE  \E messages : Carried(messages)
BY SetModeCarried, ProfileCarried, OverridesCarried, CancelCarried, FaultClearCarried,
   DemoHourCarried
   DEF Commands

-----------------------------------------------------------------------------
(* Every step keeps the types.                                              *)

LEMMA AutoCheckEffect ==
  ASSUME CTypes, AutoCheck
  PROVE  /\ EngineTypes' /\ ThreadTypes'
         /\ UNCHANGED <<operator, waiting, current, outcome, received, newest>>
         /\ server = "DECIDING"
         /\ \/ server' = "FINISHING" /\ UNCHANGED <<auto_mode, table, to_post, overtaken>>
            \/ /\ server' = "SWITCHING" /\ table' = MarkAllCommanded(auto_mode')
               /\ to_post' = [to_post EXCEPT !["SERVER"] = SetModeForAll(auto_mode')]
               /\ overtaken' = {}
<1>1. SelectMode(CurrentHour) \in Modes
  BY SelectedMode
<1>2. last_auto_mode' \in Modes /\ last_auto_mode_valid' = TRUE
  BY <1>1 DEF AutoCheck
<1>3. /\ UNCHANGED <<hour, changes, demo_hour, demo_hour_override_active, next_profile_id>>
      /\ UNCHANGED <<operator, waiting, current, outcome, received, newest>>
      /\ server = "DECIDING"
  BY DEF AutoCheck
<1>4. CASE server' = "FINISHING" /\ UNCHANGED <<auto_mode, table, to_post, overtaken>>
  BY <1>2, <1>3, <1>4 DEF CTypes, EngineTypes, ThreadTypes
<1>5. CASE /\ server' = "SWITCHING" /\ auto_mode' = last_auto_mode'
           /\ table' = MarkAllCommanded(auto_mode')
           /\ to_post' = [to_post EXCEPT !["SERVER"] = SetModeForAll(auto_mode')]
           /\ overtaken' = {}
  <2>1. auto_mode' \in Modes
    BY <1>2, <1>5
  <2>2. table' \in [Targets -> [Kinds -> Nat]]
    BY <1>5, <2>1, MarkedRows
  <2>3. SetModeForAll(auto_mode') \in Seq(Jobs)
    BY <2>1, ModeMessages
  <2>4. to_post' \in [Threads -> Seq(Jobs)]
    BY <1>5, <2>3 DEF CTypes, ThreadTypes, Threads
  <2>5. EngineTypes'
    BY <1>2, <1>3, <2>2 DEF CTypes, EngineTypes
  <2>6. {} \subseteq Targets
    OBVIOUS
  <2>7. ThreadTypes'
    BY <1>3, <1>5, <2>1, <2>4, <2>6 DEF CTypes, ThreadTypes
  <2> QED
    BY <1>3, <1>5, <2>5, <2>7
<1> QED
  BY <1>4, <1>5 DEF AutoCheck

LEMMA PostsTypes ==
  ASSUME CTypes, ServerPosts \/ OperatorPosts
  PROVE  CTypes'
<1>1. CASE ServerPosts
  <2>1. QueueTypes' /\ to_post' \in [Threads -> Seq(Jobs)]
    BY <1>1, PostTypes DEF ServerPosts, Threads
  <2> QED
    BY <1>1, <2>1 DEF ServerPosts, CTypes, EngineTypes, ThreadTypes
<1>2. CASE OperatorPosts
  <2>1. QueueTypes' /\ to_post' \in [Threads -> Seq(Jobs)]
    BY <1>2, PostTypes DEF OperatorPosts, Threads
  <2> QED
    BY <1>2, <2>1 DEF OperatorPosts, CTypes, EngineTypes, ThreadTypes
<1> QED
  BY <1>1, <1>2

\* A step of a thread that neither posts nor changes what is on record.
Quiet ==
  /\ UNCHANGED <<auto_mode, table, to_post, waiting, current, outcome, received, newest,
                 overtaken>>
  /\ server' # server => {server, server'} \cap {"SWITCHING", "SENDING"} = {}
  /\ operator' # operator => operator # "SENDING" /\ operator' # "SENDING"
  /\ (OperatorHolds /\ ServerHolds)' => OperatorHolds /\ ServerHolds

LEMMA QuietSteps ==
  ASSUME CTypes,
         \/ TakeEngine \/ Record \/ Log \/ StartDisplay \/ Render
         \/ Prompt \/ Return \/ TakeConsole \/ LockEngine \/ ResumeAutomatic
         \/ TypeKey \/ Quit \/ TypeNumber
         \/ HourPasses
  PROVE  Quiet /\ CTypes'
<1> USE DEF OperatorHolds, ServerHolds
<1>1. CASE TakeEngine \/ Record \/ Log \/ StartDisplay \/ Render
  <2>1. /\ UNCHANGED <<hour, changes, demo_hour, demo_hour_override_active, last_auto_mode,
                       last_auto_mode_valid, next_profile_id, table, auto_mode, operator,
                       to_post, waiting, current, outcome, received, newest, overtaken>>
        /\ server \in ServerPlaces \ {"SWITCHING", "SENDING"}
        /\ server' \in ServerPlaces \ {"SWITCHING", "SENDING"}
        /\ (OperatorHolds /\ ServerHolds)' => OperatorHolds /\ ServerHolds
    BY <1>1 DEF TakeEngine, Record, Log, StartDisplay, Render, ConsoleFree
  <2> QED
    BY <2>1 DEF Quiet, CTypes, EngineTypes, ThreadTypes, QueueTypes
<1>2. CASE Prompt \/ Return \/ TypeKey \/ Quit \/ TypeNumber
  <2>1. /\ UNCHANGED <<hour, changes, demo_hour, demo_hour_override_active, last_auto_mode,
                       last_auto_mode_valid, next_profile_id, table, auto_mode, server,
                       to_post, waiting, current, outcome, received, newest, overtaken>>
        /\ operator \in {"READING", "LOCKING", "TYPING", "RETURNING"}
        /\ operator' \in {"READING", "LOCKING", "TYPING", "RETURNING", "STOPPED"}
    BY <1>2 DEF Prompt, Return, TypeKey, Quit, TypeNumber
  <2> QED
    BY <2>1 DEF Quiet, CTypes, EngineTypes, ThreadTypes, QueueTypes
<1>3. ASSUME Count, UNCHANGED next_profile_id, operator \notin {"UPDATING", "STORING"}
      PROVE  /\ changes' \in Nat /\ changes' <= CHANGES_MAX
             /\ next_profile_id' \in Nat \ {0} /\ next_profile_id' <= changes'
  BY <1>3, BoundsAssumption DEF CTypes, EngineTypes, Count
<1>4. CASE TakeConsole
  <2>1. /\ UNCHANGED <<hour, demo_hour, demo_hour_override_active, last_auto_mode,
                       last_auto_mode_valid, next_profile_id, table, auto_mode, server,
                       to_post, waiting, current, outcome, received, newest, overtaken>>
        /\ operator \in {"LOCKING", "RETURNING"} /\ operator' \in {"UPDATING", "RESUMING"}
        /\ ~ServerHolds /\ Count
    BY <1>4 DEF TakeConsole, ConsoleFree
  <2>2. /\ changes' \in Nat /\ changes' <= CHANGES_MAX
        /\ next_profile_id' \in Nat \ {0} /\ next_profile_id' <= changes'
    BY <1>3, <2>1
  <2>3. next_profile_id' <= IF operator' \in {"UPDATING", "STORING"} THEN changes'
                           ELSE changes' + 1
    <3>1. \A n, c \in Nat : n <= c => n <= c + 1
      OBVIOUS
    <3>2. next_profile_id' <= changes' + 1
      BY <2>2, <3>1
    <3> QED
      BY <2>2, <3>2
  <2>4. EngineTypes'
    BY <2>1, <2>2, <2>3 DEF CTypes, EngineTypes
  <2> QED
    BY <2>1, <2>4 DEF Quiet, CTypes, ThreadTypes, QueueTypes
<1>5. CASE LockEngine
  <2>1. /\ UNCHANGED <<hour, changes, demo_hour, demo_hour_override_active, last_auto_mode,
                       last_auto_mode_valid, next_profile_id, table, auto_mode, server,
                       to_post, waiting, current, outcome, received, newest, overtaken>>
        /\ \/ operator = "UPDATING" /\ operator' = "STORING"
           \/ operator = "RESUMING" /\ operator' = "CLEARING"
    BY <1>5 DEF LockEngine
  <2> QED
    BY <2>1 DEF Quiet, CTypes, EngineTypes, ThreadTypes, QueueTypes
<1>6. CASE ResumeAutomatic
  <2>1. /\ UNCHANGED <<hour, changes, demo_hour, last_auto_mode, last_auto_mode_valid,
                       next_profile_id, table, auto_mode, server, to_post, waiting, current,
                       outcome, received, newest, overtaken>>
        /\ operator = "CLEARING" /\ operator' = "READING"
        /\ demo_hour_override_active' = FALSE
    BY <1>6 DEF ResumeAutomatic
  <2> QED
    BY <2>1 DEF Quiet, CTypes, EngineTypes, ThreadTypes, QueueTypes
<1>7. CASE HourPasses
  <2>1. /\ UNCHANGED <<demo_hour, demo_hour_override_active, last_auto_mode,
                       last_auto_mode_valid, table, auto_mode, server, operator, to_post,
                       waiting, current, outcome, received, newest, overtaken>>
        /\ hour' \in Hours
        /\ Count /\ UNCHANGED next_profile_id
    BY <1>7 DEF HourPasses
  <2>2. /\ changes' \in Nat /\ changes' <= CHANGES_MAX /\ next_profile_id' \in Nat \ {0}
        /\ next_profile_id' <= IF operator' \in {"UPDATING", "STORING"} THEN changes'
                               ELSE changes' + 1
    BY <2>1, BoundsAssumption DEF CTypes, EngineTypes, Count
  <2>3. EngineTypes'
    BY <2>1, <2>2 DEF CTypes, EngineTypes
  <2> QED
    BY <2>1, <2>3 DEF Quiet, CTypes, ThreadTypes, QueueTypes
<1> QED
  BY <1>1, <1>2, <1>4, <1>5, <1>6, <1>7

LEMMA NextTypes == CTypes /\ [Next]_vars => CTypes'
<1> SUFFICES ASSUME CTypes, [Next]_vars PROVE CTypes'
  OBVIOUS
<1>1. CASE UNCHANGED vars
  BY <1>1 DEF vars, CTypes, EngineTypes, ThreadTypes, QueueTypes
<1>2. CASE \/ TakeEngine \/ Record \/ Log \/ StartDisplay \/ Render
           \/ Prompt \/ Return \/ TakeConsole \/ LockEngine \/ ResumeAutomatic
           \/ TypeKey \/ Quit \/ TypeNumber \/ HourPasses
  BY <1>2, QuietSteps
<1>3. CASE AutoCheck
  <2>1. EngineTypes' /\ ThreadTypes'
        /\ UNCHANGED <<operator, waiting, current, outcome, received, newest>>
    BY <1>3, AutoCheckEffect
  <2> QED
    BY <2>1 DEF CTypes, QueueTypes
<1>4. CASE StartBroadcast
  BY <1>4 DEF StartBroadcast, CTypes, EngineTypes, ThreadTypes, QueueTypes
<1>5. CASE ServerPosts \/ OperatorPosts
  BY <1>5, PostsTypes
<1>6. CASE Commands /\ ~ResumeAutomatic
  <2>1. PICK messages : Carried(messages)
    BY <1>6, CommandsCarried
  <2>2. Done(messages)
    BY <2>1 DEF Carried
  <2>3. /\ operator' \in {"READING", "SENDING"} /\ UNCHANGED <<server, auto_mode>>
        /\ to_post' \in [Threads -> Seq(Jobs)] /\ QueueTypes'
    BY <2>1, <2>2, CommandEffect DEF Carried
  <2> QED
    BY <2>1, <2>3 DEF Carried, CTypes, ThreadTypes
<1>7. CASE BeginJob \/ OnCommandReply \/ \E result \in Queue!Results : Conclude(result)
  BY <1>7, QueueStepTypes
<1> QED
  BY <1>1, <1>2, <1>3, <1>4, <1>5, <1>6, <1>7 DEF Next, ServerStep, OperatorStep

LEMMA TypesInvariant == Spec => []CTypes
BY InitTypes, NextTypes, PTL DEF Spec

\* The values in Central's memory and messages, whatever is typed and whenever:
\* in particular, a request for an override that leaves Central has a duration
\* within the limits, whatever the number typed is after conversion.
THEOREM CentralTypeCorrect == Spec => []CTypeOK
<1>1. ASSUME CTypes PROVE CTypeOK
  <2>1. next_profile_id \in 1 .. CHANGES_MAX + 1 /\ changes \in 0 .. CHANGES_MAX
    BY <1>1, BoundsAssumption DEF CTypes, EngineTypes
  <2>2. to_post["SERVER"] \in Seq(Jobs) /\ to_post["OPERATOR"] \in Seq(Jobs)
    BY <1>1 DEF CTypes, ThreadTypes, Threads
  <2> QED
    BY <1>1, <2>1, <2>2 DEF CTypes, EngineTypes, ThreadTypes, QueueTypes, CTypeOK
<1> QED
  BY <1>1, TypesInvariant, PTL

-----------------------------------------------------------------------------
(* Who posts what.                                                          *)

ServerQueue == to_post["SERVER"]
OperatorQueue == to_post["OPERATOR"]

\* The console has one holder at most, and the threads post in turn, each of them
\* only after it has decided what; between the decision of an automatic mode and
\* its broadcast every intersection waits for that mode, and the operator's
\* messages say what is on record unless the broadcast is going to overtake them.
ThreadInv ==
  /\ server \notin {"SWITCHING", "SENDING"} => ServerQueue = <<>>
  /\ operator # "SENDING" => OperatorQueue = <<>>
  /\ ~(OperatorHolds /\ ServerHolds)
  /\ server = "SWITCHING" =>
       \A l \in Targets : ~NoneOf(ServerQueue, Mine(l, "MODE"))
  /\ server \in {"SWITCHING", "SENDING"} =>
       /\ AllOf(ServerQueue, AutoJobs)
       /\ \A l \in Targets : Expected(l, "MODE") = auto_mode
  /\ \A l \in Targets, k \in Kinds :
       server # "SWITCHING" \/ k # "MODE" => AllOf(OperatorQueue, RightFor(l, k))

\* The job that the client thread is carrying out is one of the kind.
Open(l, k) == outcome = "PENDING" /\ current \in Mine(l, k)

Unposted(l, k) == ~NoneOf(ServerQueue, Mine(l, k)) \/ ~NoneOf(OperatorQueue, Mine(l, k))

\* Nothing is on its way to an intersection that was told the newest message, and
\* what it runs is on record; one that is to be told has the right message last.
MessageInv(l, k) ==
  /\ newest[l][k] = "TOLD" =>
       /\ NoneOf(waiting, Mine(l, k)) /\ ~Open(l, k)
       /\ Unposted(l, k) \/ received[l][k] = Expected(l, k)
  /\ newest[l][k] = "PENDING" /\ ~Unposted(l, k) =>
       /\ LastOf(waiting, Mine(l, k), Right(l, k))
       /\ NoneOf(waiting, Mine(l, k)) => Open(l, k) /\ current \in Right(l, k)

MessagesInv == \A l \in Targets, k \in Kinds : MessageInv(l, k)

CInv == CTypes /\ ThreadInv /\ MessagesInv

LEMMA InitInv == Init => CInv
<1> SUFFICES ASSUME Init PROVE CInv
  OBVIOUS
<1>1. CTypes
  BY InitTypes
<1>2. /\ server = "IDLE" /\ operator = "READING"
      /\ to_post = [t \in {"SERVER", "OPERATOR"} |-> <<>>]
      /\ waiting = <<>> /\ outcome = "NONE" /\ received = table /\ overtaken = {}
      /\ newest = [l \in Targets |-> [k \in Kinds |-> "TOLD"]]
  BY DEF Init, Queue!Init
<1>3. ServerQueue = <<>> /\ OperatorQueue = <<>>
  BY <1>2 DEF ServerQueue, OperatorQueue
<1>4. ThreadInv
  BY <1>2, <1>3, EmptyQueue DEF ThreadInv, OperatorHolds, ServerHolds
<1>5. ASSUME NEW l \in Targets, NEW k \in Kinds
      PROVE  MessageInv(l, k)
  <2>1. newest[l][k] = "TOLD"
    BY <1>2
  <2>2. received[l][k] = Expected(l, k)
    BY <1>2 DEF Expected
  <2> QED
    BY <1>2, <2>1, <2>2, EmptyQueue DEF MessageInv, Open
<1> QED
  BY <1>1, <1>4, <1>5 DEF CInv, MessagesInv

LEMMA QuietInv ==
  ASSUME CInv, Quiet
  PROVE  ThreadInv' /\ MessagesInv'
<1>1. /\ UNCHANGED <<auto_mode, table, to_post, waiting, current, outcome, received, newest,
                     overtaken>>
      /\ server' # server => /\ server \notin {"SWITCHING", "SENDING"}
                             /\ server' \notin {"SWITCHING", "SENDING"}
      /\ operator' # operator => operator # "SENDING" /\ operator' # "SENDING"
      /\ (OperatorHolds /\ ServerHolds)' => OperatorHolds /\ ServerHolds
  BY DEF Quiet
<1>2. UNCHANGED <<ServerQueue, OperatorQueue, AutoJobs>>
  BY <1>1 DEF ServerQueue, OperatorQueue, AutoJobs
<1>3. \A l, k : /\ UNCHANGED <<Expected(l, k), RightFor(l, k), Right(l, k)>>
                /\ Open(l, k)' <=> Open(l, k)
                /\ Unposted(l, k)' <=> Unposted(l, k)
  BY <1>1, <1>2 DEF Expected, RightFor, Right, Open, Unposted
<1>4. ThreadInv'
  BY <1>1, <1>2, <1>3 DEF CInv, ThreadInv
<1>5. ASSUME NEW l \in Targets, NEW k \in Kinds
      PROVE  MessageInv(l, k)'
  <2>1. MessageInv(l, k)
    BY DEF CInv, MessagesInv
  <2> QED
    BY <1>1, <1>3, <2>1 DEF MessageInv
<1> QED
  BY <1>4, <1>5 DEF MessagesInv

\* A message is posted that says what is on record, or is not the last one.
LEMMA PostMessage ==
  ASSUME CInv, NEW t \in Threads, PostNext(t),
         UNCHANGED <<auto_mode, table, received, overtaken>>,
         NEW l \in Targets, NEW k \in Kinds,
         Unposted(l, k)' \/ Head(to_post[t]) \in RightFor(l, k)
  PROVE  MessageInv(l, k)'
<1> DEFINE j == Head(to_post[t])
           C == Mine(l, k)
<1>1. /\ to_post[t] # <<>> /\ to_post[t] \in Seq(Jobs) /\ j \in Jobs
      /\ to_post' = [to_post EXCEPT ![t] = Tail(to_post[t])]
      /\ UNCHANGED <<current, outcome>>
      /\ \/ Queue!Full /\ UNCHANGED waiting
         \/ ~Queue!Full /\ waiting' = Append(waiting, j)
      /\ newest' = IF Kind(j.verb) = "NONE" THEN newest
                   ELSE [newest EXCEPT ![j.target_id][Kind(j.verb)] =
                           IF Queue!Full THEN "LOST" ELSE "PENDING"]
  BY PostEffect DEF CInv
<1>2. /\ to_post \in [Threads -> Seq(Jobs)] /\ waiting \in Seq(Jobs)
      /\ newest \in [Targets -> [Kinds -> {"TOLD", "PENDING", "LOST"}]]
  BY DEF CInv, CTypes, ThreadTypes, QueueTypes
<1>3. MessageInv(l, k)
  BY DEF CInv, MessagesInv
<1>4. Unposted(l, k)' \/ j \in RightFor(l, k)
  OBVIOUS
<1>5. NoneOf(to_post[t], C) <=> j \notin C /\ NoneOf(Tail(to_post[t]), C)
  BY <1>1, TailNone
<1> HIDE DEF j
<1>6. Unposted(l, k) <=> Unposted(l, k)' \/ j \in C
  <2>1. CASE t = "SERVER"
    <3>1. to_post'["SERVER"] = Tail(to_post["SERVER"]) /\ UNCHANGED OperatorQueue
      BY <1>1, <1>2, <2>1 DEF OperatorQueue, Threads
    <3> QED
      BY <1>5, <2>1, <3>1 DEF Unposted, ServerQueue, OperatorQueue
  <2>2. CASE t = "OPERATOR"
    <3>1. to_post'["OPERATOR"] = Tail(to_post["OPERATOR"]) /\ UNCHANGED ServerQueue
      BY <1>1, <1>2, <2>2 DEF ServerQueue, Threads
    <3> QED
      BY <1>5, <2>2, <3>1 DEF Unposted, ServerQueue, OperatorQueue
  <2> QED
    BY <2>1, <2>2 DEF Threads
<1>7. UNCHANGED <<Expected(l, k), Right(l, k)>> /\ (Open(l, k)' <=> Open(l, k))
  BY <1>1 DEF Expected, Right, Open
<1>8. j \in C <=> j.target_id = l /\ Kind(j.verb) = k
  BY <1>1 DEF Mine
<1>9. /\ NoneOf(Append(waiting, j), C) <=> NoneOf(waiting, C) /\ j \notin C
      /\ LastOf(Append(waiting, j), C, Right(l, k))
           <=> IF j \in C THEN j \in Right(l, k) ELSE LastOf(waiting, C, Right(l, k))
  BY <1>1, <1>2, AppendNone, AppendLast
<1>10. CASE j \notin C
  <2>1. newest'[l][k] = newest[l][k]
    <3>1. CASE Kind(j.verb) = "NONE"
      BY <1>1, <3>1
    <3>2. CASE Kind(j.verb) # "NONE"
      <4>1. j.target_id \in Targets /\ Kind(j.verb) \in Kinds
        BY <1>1, <3>2, JobFacts
      <4>2. ~(l = j.target_id /\ k = Kind(j.verb))
        BY <1>8, <1>10
      <4>3. PICK end \in {"TOLD", "PENDING", "LOST"} :
              newest' = [newest EXCEPT ![j.target_id][Kind(j.verb)] = end]
        BY <1>1, <3>2
      <4> QED
        BY <1>2, <4>1, <4>2, <4>3, CellUpdate
    <3> QED
      BY <3>1, <3>2
  <2> HIDE DEF C
  <2>2. /\ NoneOf(waiting', C) <=> NoneOf(waiting, C)
        /\ LastOf(waiting', C, Right(l, k)) <=> LastOf(waiting, C, Right(l, k))
    BY <1>1, <1>9, <1>10
  <2>3. Unposted(l, k)' <=> Unposted(l, k)
    BY <1>6, <1>10
  <2>4. UNCHANGED <<received, current>>
    BY <1>1
  <2> QED
    BY <1>3, <1>7, <2>1, <2>2, <2>3, <2>4 DEF MessageInv, C
<1>11. CASE j \in C
  <2>1. /\ j.target_id = l /\ Kind(j.verb) = k /\ Kind(j.verb) # "NONE"
    BY <1>8, <1>11, JobFacts
  <2>2. CASE Queue!Full
    <3>1. newest' = [newest EXCEPT ![l][k] = "LOST"]
      BY <1>1, <2>1, <2>2
    <3>2. newest'[l][k] = "LOST"
      BY <1>2, <3>1, CellUpdate
    <3> QED
      BY <3>2 DEF MessageInv
  <2>3. CASE ~Queue!Full
    <3>1. newest' = [newest EXCEPT ![l][k] = "PENDING"] /\ waiting' = Append(waiting, j)
      BY <1>1, <2>1, <2>3
    <3>2. newest'[l][k] = "PENDING"
      BY <1>2, <3>1, CellUpdate
    <3>3. ~NoneOf(waiting', C)
      BY <1>9, <1>11, <3>1
    <3>4. ASSUME ~Unposted(l, k)'
          PROVE  LastOf(waiting', C, Right(l, k)')
      <4>1. j \in Right(l, k)
        BY <1>1, <1>4, <1>11, <3>4 DEF RightFor, Right
      <4> QED
        BY <1>7, <1>9, <1>11, <3>1, <4>1
    <3> QED
      BY <3>2, <3>3, <3>4 DEF MessageInv
  <2> QED
    BY <2>2, <2>3
<1> QED
  BY <1>10, <1>11

\* A message of the automatic mode is right for every intersection.
LEMMA AutoJobRight ==
  ASSUME NEW j \in AutoJobs, NEW l \in Targets, NEW k, Expected(l, "MODE") = auto_mode
  PROVE  j \in RightFor(l, k)
<1>1. j \in Jobs /\ j.verb = "SET_MODE" /\ j.body = auto_mode
  BY DEF AutoJobs
<1>2. Kind(j.verb) = "MODE" /\ Taken(j) = auto_mode
  BY <1>1 DEF Kind, Taken
<1> QED
  BY <1>1, <1>2 DEF RightFor, Mine

LEMMA ServerPostsInv ==
  ASSUME CInv, ServerPosts
  PROVE  ThreadInv' /\ MessagesInv'
<1>1. /\ server = "SENDING" /\ PostNext("SERVER")
      /\ UNCHANGED <<auto_mode, table, operator, received, overtaken>>
      /\ server' = IF ServerQueue' = <<>> THEN "FINISHING" ELSE "SENDING"
  BY DEF ServerPosts, ServerQueue
<1>2. /\ to_post \in [Threads -> Seq(Jobs)] /\ "SERVER" \in Threads
  BY DEF CInv, CTypes, ThreadTypes, Threads
<1>3. /\ ServerQueue # <<>> /\ ServerQueue \in Seq(Jobs)
      /\ to_post' = [to_post EXCEPT !["SERVER"] = Tail(ServerQueue)]
  BY <1>1, <1>2, PostEffect DEF ServerQueue, CInv
<1>4. ServerQueue' = Tail(ServerQueue) /\ UNCHANGED OperatorQueue
  BY <1>2, <1>3 DEF ServerQueue, OperatorQueue, Threads
<1>5. /\ AllOf(ServerQueue, AutoJobs) /\ \A l \in Targets : Expected(l, "MODE") = auto_mode
      /\ ~OperatorHolds /\ OperatorQueue = <<>>
  BY <1>1 DEF CInv, ThreadInv, OperatorHolds, ServerHolds
<1>6. Head(ServerQueue) \in AutoJobs /\ AllOf(Tail(ServerQueue), AutoJobs)
  BY <1>3, <1>5, TailAll
<1>7. /\ UNCHANGED AutoJobs
      /\ \A l, k : UNCHANGED <<Expected(l, k), RightFor(l, k)>>
  BY <1>1 DEF AutoJobs, Expected, RightFor
<1>8. ThreadInv'
  <2>1. AllOf(ServerQueue', AutoJobs')
    BY <1>4, <1>6, <1>7
  <2>2. \A l, k : AllOf(OperatorQueue', RightFor(l, k)')
    BY <1>4, <1>5, EmptyQueue
  <2> QED
    BY <1>1, <1>4, <1>5, <1>7, <2>1, <2>2 DEF ThreadInv, OperatorHolds
<1>9. ASSUME NEW l \in Targets, NEW k \in Kinds
      PROVE  MessageInv(l, k)'
  <2>1. Head(to_post["SERVER"]) \in RightFor(l, k)
    BY <1>5, <1>6, AutoJobRight DEF ServerQueue
  <2> QED
    BY <1>1, <1>2, <2>1, PostMessage
<1> QED
  BY <1>8, <1>9 DEF MessagesInv

LEMMA OperatorPostsInv ==
  ASSUME CInv, OperatorPosts
  PROVE  ThreadInv' /\ MessagesInv'
<1>1. /\ operator = "SENDING" /\ PostNext("OPERATOR")
      /\ UNCHANGED <<auto_mode, table, server, received, overtaken>>
      /\ operator' = IF OperatorQueue' = <<>> THEN "READING" ELSE "SENDING"
  BY DEF OperatorPosts, OperatorQueue
<1>2. /\ to_post \in [Threads -> Seq(Jobs)] /\ "OPERATOR" \in Threads
  BY DEF CInv, CTypes, ThreadTypes, Threads
<1>3. /\ OperatorQueue # <<>> /\ OperatorQueue \in Seq(Jobs)
      /\ to_post' = [to_post EXCEPT !["OPERATOR"] = Tail(OperatorQueue)]
  BY <1>1, <1>2, PostEffect DEF OperatorQueue, CInv
<1>4. OperatorQueue' = Tail(OperatorQueue) /\ UNCHANGED ServerQueue
  BY <1>2, <1>3 DEF ServerQueue, OperatorQueue, Threads
<1>5. /\ UNCHANGED AutoJobs
      /\ \A l, k : UNCHANGED <<Expected(l, k), RightFor(l, k)>>
  BY <1>1 DEF AutoJobs, Expected, RightFor
<1>6. ThreadInv
  BY DEF CInv
<1>7. ASSUME NEW l \in Targets, NEW k \in Kinds, server # "SWITCHING" \/ k # "MODE"
      PROVE  /\ Head(OperatorQueue) \in RightFor(l, k)
             /\ AllOf(OperatorQueue', RightFor(l, k)')
  <2>1. AllOf(OperatorQueue, RightFor(l, k))
    BY <1>6, <1>7 DEF ThreadInv
  <2>2. Head(OperatorQueue) \in RightFor(l, k)
        /\ AllOf(Tail(OperatorQueue), RightFor(l, k))
    BY <1>3, <2>1, TailAll
  <2> QED
    BY <1>4, <1>5, <2>2
<1>8. ThreadInv'
  <2>1. ~ServerHolds /\ server # "SENDING"
    BY <1>1, <1>6 DEF ThreadInv, OperatorHolds, ServerHolds
  <2> QED
    BY <1>1, <1>4, <1>5, <1>6, <1>7, <2>1 DEF ThreadInv, ServerHolds
<1>9. ASSUME NEW l \in Targets, NEW k \in Kinds
      PROVE  MessageInv(l, k)'
  <2>1. CASE server = "SWITCHING" /\ k = "MODE"
    <3>1. ~NoneOf(ServerQueue, Mine(l, k))
      BY <1>6, <2>1 DEF ThreadInv
    <3>2. Unposted(l, k)'
      BY <1>4, <3>1 DEF Unposted
    <3> QED
      BY <1>1, <1>2, <3>2, PostMessage
  <2>2. CASE server # "SWITCHING" \/ k # "MODE"
    <3>1. Head(to_post["OPERATOR"]) \in RightFor(l, k)
      BY <1>7, <2>2 DEF OperatorQueue
    <3> QED
      BY <1>1, <1>2, <3>1, PostMessage
  <2> QED
    BY <2>1, <2>2
<1> QED
  BY <1>8, <1>9 DEF MessagesInv

LEMMA AutoCheckInv ==
  ASSUME CInv, AutoCheck
  PROVE  ThreadInv' /\ MessagesInv'
<1>1. /\ EngineTypes' /\ ThreadTypes'
      /\ UNCHANGED <<operator, waiting, current, outcome, received, newest>>
      /\ server = "DECIDING"
      /\ \/ server' = "FINISHING" /\ UNCHANGED <<auto_mode, table, to_post, overtaken>>
         \/ /\ server' = "SWITCHING" /\ table' = MarkAllCommanded(auto_mode')
            /\ to_post' = [to_post EXCEPT !["SERVER"] = SetModeForAll(auto_mode')]
            /\ overtaken' = {}
  BY AutoCheckEffect DEF CInv
<1>2. CASE server' = "FINISHING" /\ UNCHANGED <<auto_mode, table, to_post, overtaken>>
  <2>1. Quiet
    BY <1>1, <1>2 DEF Quiet, ServerHolds
  <2> QED
    BY <2>1, QuietInv
<1>3. CASE /\ server' = "SWITCHING" /\ table' = MarkAllCommanded(auto_mode')
           /\ to_post' = [to_post EXCEPT !["SERVER"] = SetModeForAll(auto_mode')]
           /\ overtaken' = {}
  <2>1. auto_mode' \in Modes
    BY <1>1 DEF ThreadTypes
  <2>2. \A l \in Targets, k \in Kinds :
          table'[l][k] = IF k = "MODE" THEN auto_mode' ELSE table[l][k]
    BY <1>3, <2>1, MarkedRows DEF CInv
  <2>3. ServerQueue' = SetModeForAll(auto_mode') /\ UNCHANGED OperatorQueue
    BY <1>3 DEF ServerQueue, OperatorQueue, CInv, CTypes, ThreadTypes, Threads
  <2>4. ServerQueue = <<>>
    BY <1>1 DEF CInv, ThreadInv
  <2>5. \A l \in Targets : Expected(l, "MODE")' = auto_mode'
    BY <1>3, <2>2, JobFacts DEF Expected
  <2>6. \A l \in Targets, k \in Kinds : k # "MODE" => UNCHANGED Expected(l, k)
    BY <2>2 DEF Expected
  <2>7. ASSUME NEW l \in Targets
        PROVE  /\ ~NoneOf(ServerQueue', Mine(l, "MODE"))
               /\ \A k : k # "MODE" => NoneOf(ServerQueue', Mine(l, k))
    BY <2>1, <2>3, BroadcastMessages
  <2>8. AllOf(ServerQueue', AutoJobs')
    <3>1. /\ ServerQueue' \in Seq(Jobs)
          /\ \A i \in 1 .. Len(ServerQueue') :
               ServerQueue'[i].verb = "SET_MODE" /\ ServerQueue'[i].body = auto_mode'
      BY <2>1, <2>3, ModeMessages
    <3>2. \A i \in 1 .. Len(ServerQueue') : ServerQueue'[i] \in Jobs
      BY <3>1
    <3> QED
      BY <3>1, <3>2 DEF AllOf, AutoJobs
  <2>9. ThreadInv'
    <3>1. ASSUME NEW l \in Targets, NEW k \in Kinds, k # "MODE"
          PROVE  AllOf(OperatorQueue', RightFor(l, k)')
      <4>1. AllOf(OperatorQueue, RightFor(l, k))
        BY <3>1 DEF CInv, ThreadInv
      <4>2. RightFor(l, k)' = RightFor(l, k)
        BY <2>6, <3>1 DEF RightFor
      <4> QED
        BY <2>3, <4>1, <4>2
    <3>2. operator' # "SENDING" => OperatorQueue' = <<>>
      BY <1>1, <2>3 DEF CInv, ThreadInv
    <3> QED
      BY <1>3, <2>5, <2>7, <2>8, <3>1, <3>2 DEF ThreadInv, ServerHolds
  <2>10. ASSUME NEW l \in Targets, NEW k \in Kinds
         PROVE  MessageInv(l, k)'
    <3>1. MessageInv(l, k)
      BY DEF CInv, MessagesInv
    <3>2. Open(l, k)' <=> Open(l, k)
      BY <1>1 DEF Open
    <3>3. CASE k = "MODE"
      <4>1. Unposted(l, k)'
        BY <2>7, <3>3 DEF Unposted
      <4> QED
        BY <1>1, <3>1, <3>2, <4>1 DEF MessageInv
    <3>4. CASE k # "MODE"
      <4>1. Unposted(l, k)' <=> Unposted(l, k)
        BY <2>3, <2>4, <2>7, <3>4, EmptyQueue DEF Unposted
      <4>2. UNCHANGED <<Expected(l, k), Right(l, k)>>
        BY <2>6, <3>4 DEF Right
      <4> QED
        BY <1>1, <3>1, <3>2, <4>1, <4>2 DEF MessageInv
    <3> QED
      BY <3>3, <3>4
  <2> QED
    BY <2>9, <2>10 DEF MessagesInv
<1> QED
  BY <1>1, <1>2, <1>3

\* Once the console is free nothing of the operator's is left to be posted.
LEMMA StartInv ==
  ASSUME CInv, StartBroadcast
  PROVE  ThreadInv' /\ MessagesInv'
<1>1. /\ server = "SWITCHING" /\ server' = "SENDING" /\ operator # "SENDING"
      /\ ~OperatorHolds
      /\ UNCHANGED <<auto_mode, table, operator, to_post, waiting, current, outcome,
                     received, newest, overtaken>>
  BY DEF StartBroadcast, MayBroadcast, ConsoleFree, OperatorHolds
<1>2. UNCHANGED <<ServerQueue, OperatorQueue, AutoJobs>>
  BY <1>1 DEF ServerQueue, OperatorQueue, AutoJobs
<1>3. \A l, k : /\ UNCHANGED <<Expected(l, k), RightFor(l, k), Right(l, k)>>
                /\ Open(l, k)' <=> Open(l, k)
                /\ Unposted(l, k)' <=> Unposted(l, k)
  BY <1>1, <1>2 DEF Expected, RightFor, Right, Open, Unposted
<1>4. OperatorQueue = <<>>
  BY <1>1 DEF CInv, ThreadInv
<1>5. \A l, k : AllOf(OperatorQueue', RightFor(l, k)')
  BY <1>2, <1>4, EmptyQueue
<1>6. ThreadInv'
  BY <1>1, <1>2, <1>3, <1>5 DEF CInv, ThreadInv, OperatorHolds
<1>7. ASSUME NEW l \in Targets, NEW k \in Kinds
      PROVE  MessageInv(l, k)'
  <2>1. MessageInv(l, k)
    BY DEF CInv, MessagesInv
  <2> QED
    BY <1>1, <1>3, <2>1 DEF MessageInv
<1> QED
  BY <1>6, <1>7 DEF MessagesInv

\* A command changes what is on record and hands over the messages that say so.
LEMMA CommandInv ==
  ASSUME CInv, NEW messages, Carried(messages)
  PROVE  ThreadInv' /\ MessagesInv'
<1>1. Done(messages)
  BY DEF Carried
<1>2. messages \in Seq(Jobs) /\ Sound(messages)
  BY DEF Carried
<1>3. /\ operator # "SENDING" /\ operator' \in {"READING", "SENDING"}
      /\ operator' # "SENDING" => messages = <<>>
      /\ OperatorHolds \/ ~ServerHolds
      /\ UNCHANGED <<server, auto_mode>>
      /\ to_post' = [to_post EXCEPT !["OPERATOR"] = messages]
      /\ UNCHANGED <<waiting, current, outcome, received, newest>>
  BY <1>1, <1>2, CommandEffect DEF CInv
<1>4. OperatorQueue' = messages /\ UNCHANGED <<ServerQueue, AutoJobs>>
  BY <1>3 DEF ServerQueue, OperatorQueue, AutoJobs, CInv, CTypes, ThreadTypes, Threads
<1>5. ThreadInv /\ OperatorQueue = <<>> /\ ~ServerHolds /\ server # "SENDING"
  BY <1>3 DEF CInv, ThreadInv, ServerHolds
<1>6. ThreadInv'
  <2>1. server = "SWITCHING" => \A l \in Targets : Expected(l, "MODE")' = auto_mode
    BY <1>2, <1>5 DEF ThreadInv, Sound
  <2>2. \A l \in Targets, b \in Kinds :
          server # "SWITCHING" \/ b # "MODE" => AllOf(messages, RightFor(l, b)')
    BY <1>2 DEF Sound
  <2> QED
    BY <1>3, <1>4, <1>5, <2>1, <2>2 DEF ThreadInv, ServerHolds
<1>7. ASSUME NEW l \in Targets, NEW b \in Kinds
      PROVE  MessageInv(l, b)'
  <2>1. MessageInv(l, b)
    BY DEF CInv, MessagesInv
  <2>2. Open(l, b)' <=> Open(l, b)
    BY <1>3 DEF Open
  <2>3. /\ Unposted(l, b) <=> ~NoneOf(ServerQueue, Mine(l, b))
        /\ Unposted(l, b)' <=> ~NoneOf(ServerQueue, Mine(l, b)) \/ ~NoneOf(messages, Mine(l, b))
    BY <1>4, <1>5, EmptyQueue DEF Unposted
  <2>4. CASE NoneOf(messages, Mine(l, b))
    <3>1. UNCHANGED Expected(l, b)
      BY <1>2, <2>4 DEF Sound
    <3>2. UNCHANGED Right(l, b)
      BY <3>1 DEF Right
    <3> QED
      BY <1>3, <2>1, <2>2, <2>3, <2>4, <3>1, <3>2 DEF MessageInv
  <2>5. CASE ~NoneOf(messages, Mine(l, b))
    BY <1>3, <2>1, <2>2, <2>3, <2>5 DEF MessageInv
  <2> QED
    BY <2>4, <2>5
<1> QED
  BY <1>6, <1>7 DEF MessagesInv

-----------------------------------------------------------------------------
(* The client thread carries out what was posted.                           *)

LEMMA WayFacts ==
  ASSUME CTypes, NEW l, NEW k
  PROVE  OnTheWay(l, k) <=> Unposted(l, k) \/ ~NoneOf(waiting, Mine(l, k))
<1>1. /\ ServerQueue \in Seq(Jobs) /\ OperatorQueue \in Seq(Jobs) /\ waiting \in Seq(Jobs)
  BY DEF CTypes, ThreadTypes, QueueTypes, Threads, ServerQueue, OperatorQueue
<1>2. ASSUME NEW s \in Seq(Jobs)
      PROVE  (\E i \in 1 .. Len(s) : s[i].target_id = l /\ Kind(s[i].verb) = k)
               <=> ~NoneOf(s, Mine(l, k))
  <2>1. \A i \in 1 .. Len(s) : s[i] \in Jobs
    OBVIOUS
  <2> QED
    BY <2>1 DEF NoneOf, Mine
<1> QED
  BY <1>1, <1>2 DEF OnTheWay, Unposted, ServerQueue, OperatorQueue

\* The steps of the client thread leave alone what the threads post.
LEMMA ThreadFrame ==
  ASSUME ThreadInv,
         UNCHANGED <<auto_mode, table, server, operator, to_post, overtaken>>
  PROVE  /\ ThreadInv'
         /\ \A l, k : /\ UNCHANGED <<Expected(l, k), Right(l, k)>>
                      /\ Unposted(l, k)' <=> Unposted(l, k)
<1>1. UNCHANGED <<ServerQueue, OperatorQueue, AutoJobs>>
  BY DEF ServerQueue, OperatorQueue, AutoJobs
<1>2. \A l, k : UNCHANGED <<Expected(l, k), RightFor(l, k), Right(l, k)>>
  BY DEF Expected, RightFor, Right
<1> QED
  BY <1>1, <1>2 DEF ThreadInv, Unposted, OperatorHolds, ServerHolds

LEMMA BeginInv ==
  ASSUME CInv, BeginJob
  PROVE  ThreadInv' /\ MessagesInv'
<1>1. /\ current = NoJob /\ waiting # <<>> /\ waiting' = Tail(waiting)
      /\ current' = Head(waiting) /\ outcome' = "PENDING"
      /\ UNCHANGED <<auto_mode, table, server, operator, to_post, received, newest, overtaken>>
  BY DEF BeginJob, Queue!Begin
<1>2. /\ waiting \in Seq(Jobs) /\ outcome = "NONE"
  BY <1>1 DEF CInv, CTypes, QueueTypes
<1>3. ASSUME NEW l \in Targets, NEW k \in Kinds
      PROVE  MessageInv(l, k)'
  <2> DEFINE C == Mine(l, k)
             R == Right(l, k)
  <2>1. MessageInv(l, k)
    BY DEF CInv, MessagesInv
  <2>2. /\ UNCHANGED <<Expected(l, k), Right(l, k)>>
        /\ Unposted(l, k)' <=> Unposted(l, k)
    BY <1>1, ThreadFrame DEF CInv
  <2>3. ~Open(l, k) /\ (Open(l, k)' <=> Head(waiting) \in C)
    BY <1>1, <1>2 DEF Open
  <2>4. NoneOf(waiting, C) <=> Head(waiting) \notin C /\ NoneOf(Tail(waiting), C)
    BY <1>1, <1>2, TailNone
  <2>5. newest[l][k] = "TOLD" => MessageInv(l, k)'
    BY <1>1, <2>1, <2>2, <2>3, <2>4 DEF MessageInv
  <2>6. ASSUME newest[l][k] = "PENDING"
        PROVE  MessageInv(l, k)'
    <3>1. CASE Unposted(l, k)
      BY <1>1, <2>2, <2>6, <3>1 DEF MessageInv
    <3>2. CASE ~Unposted(l, k)
      <4>1. LastOf(waiting, C, R) /\ ~NoneOf(waiting, C)
        BY <2>1, <2>3, <2>6, <3>2 DEF MessageInv
      <4>2. /\ LastOf(Tail(waiting), C, R)
            /\ NoneOf(Tail(waiting), C) /\ Head(waiting) \in C => Head(waiting) \in R
        BY <1>1, <1>2, <4>1, TailLast
      <4> QED
        BY <1>1, <2>2, <2>3, <2>4, <2>6, <4>1, <4>2 DEF MessageInv
    <3> QED
      BY <3>1, <3>2
  <2>7. CASE newest[l][k] \notin {"TOLD", "PENDING"}
    BY <1>1, <2>7 DEF MessageInv
  <2> QED
    BY <2>5, <2>6, <2>7
<1> QED
  BY <1>1, <1>3, ThreadFrame DEF CInv, MessagesInv

LEMMA ReportInv ==
  ASSUME CInv, OnCommandReply
  PROVE  ThreadInv' /\ MessagesInv'
<1>1. /\ outcome # "PENDING" /\ outcome' # "PENDING"
      /\ UNCHANGED <<auto_mode, table, server, operator, to_post, waiting, received, newest,
                     overtaken>>
  BY DEF OnCommandReply, Queue!Report, Queue!Results
<1>2. ASSUME NEW l \in Targets, NEW k \in Kinds
      PROVE  MessageInv(l, k)'
  <2>1. MessageInv(l, k)
    BY DEF CInv, MessagesInv
  <2>2. /\ UNCHANGED <<Expected(l, k), Right(l, k)>>
        /\ Unposted(l, k)' <=> Unposted(l, k)
    BY <1>1, ThreadFrame DEF CInv
  <2>3. ~Open(l, k) /\ ~Open(l, k)'
    BY <1>1 DEF Open
  <2> QED
    BY <1>1, <2>1, <2>2, <2>3 DEF MessageInv
<1> QED
  BY <1>1, <1>2, ThreadFrame DEF CInv, MessagesInv

LEMMA ConcludeInv ==
  ASSUME CInv, NEW result \in Queue!Results, Conclude(result)
  PROVE  ThreadInv' /\ MessagesInv'
<1> DEFINE a == current.target_id
           kind == Kind(current.verb)
           end == IF result = "ANSWERED" THEN "TOLD" ELSE "LOST"
<1>1. /\ outcome = "PENDING" /\ outcome' = result /\ outcome' # "PENDING"
      /\ UNCHANGED <<auto_mode, table, server, operator, to_post, waiting, current, overtaken>>
  BY DEF Conclude, Queue!Conclude, Queue!Results
<1>2. /\ current \in Jobs /\ CTypes
      /\ received \in [Targets -> [Kinds -> Nat]]
      /\ newest \in [Targets -> [Kinds -> {"TOLD", "PENDING", "LOST"}]]
  BY <1>1 DEF CInv, CTypes, QueueTypes
<1>3. ASSUME NEW l \in Targets, NEW k \in Kinds
      PROVE  MessageInv(l, k)'
  <2>1. MessageInv(l, k)
    BY DEF CInv, MessagesInv
  <2>2. /\ UNCHANGED <<Expected(l, k), Right(l, k)>>
        /\ Unposted(l, k)' <=> Unposted(l, k)
    BY <1>1, ThreadFrame DEF CInv
  <2>3. ~Open(l, k)'
    BY <1>1 DEF Open
  <2>4. current \in Mine(l, k) <=> a = l /\ kind = k
    BY <1>2 DEF Mine
  <2>5. CASE ~(a = l /\ kind = k)
    <3>1. newest'[l][k] = newest[l][k] /\ received'[l][k] = received[l][k]
      <4>1. CASE kind = "NONE"
        BY <4>1 DEF Conclude
      <4>2. CASE kind # "NONE"
        <5>1. a \in Targets /\ kind \in Kinds /\ Taken(current) \in Nat
          BY <1>2, <4>2, JobFacts
        <5>2. /\ received' = [received EXCEPT ![a][kind] = Taken(current)]
                 \/ received' = received
              /\ newest' = newest \/ newest' = [newest EXCEPT ![a][kind] = end]
          BY <4>2 DEF Conclude
        <5>3. end \in {"TOLD", "PENDING", "LOST"}
          OBVIOUS
        <5> HIDE DEF a, kind, end
        <5>4. received'[l][k] = received[l][k]
          BY <1>2, <2>5, <5>1, <5>2, CellUpdate
        <5>5. newest'[l][k] = newest[l][k]
          BY <1>2, <2>5, <5>1, <5>2, <5>3, CellUpdate
        <5> QED
          BY <5>4, <5>5
      <4> QED
        BY <4>1, <4>2
    <3>2. ~Open(l, k)
      BY <2>4, <2>5 DEF Open
    <3> QED
      BY <1>1, <2>1, <2>2, <2>3, <3>1, <3>2 DEF MessageInv
  <2>6. CASE a = l /\ kind = k
    <3>1. Open(l, k) /\ newest[l][k] # "TOLD"
      BY <1>1, <2>1, <2>4, <2>6 DEF Open, MessageInv
    <3>2. kind # "NONE" /\ Taken(current) \in Nat
      BY <1>2, <2>6, JobFacts
    <3>3. /\ newest' = IF newest[l][k] = "PENDING" /\ ~OnTheWay(l, k)
                         THEN [newest EXCEPT ![l][k] = end] ELSE newest
          /\ received' = IF result = "ANSWERED"
                           THEN [received EXCEPT ![l][k] = Taken(current)] ELSE received
      BY <2>6, <3>2 DEF Conclude
    <3>4. CASE newest[l][k] = "PENDING" /\ ~OnTheWay(l, k)
      <4>1. ~Unposted(l, k) /\ NoneOf(waiting, Mine(l, k))
        BY <1>2, <3>4, WayFacts
      <4>2. Taken(current) = Expected(l, k)
        BY <2>1, <3>4, <4>1 DEF MessageInv, Right
      <4>3. end \in {"TOLD", "PENDING", "LOST"} /\ newest' = [newest EXCEPT ![l][k] = end]
        BY <3>3, <3>4
      <4>4. newest'[l][k] = end
        BY <1>2, <4>3, CellUpdate
      <4>5. CASE result = "ANSWERED"
        <5>1. received' = [received EXCEPT ![l][k] = Taken(current)]
          BY <3>3, <4>5
        <5>2. received'[l][k] = Taken(current)
          BY <1>2, <3>2, <5>1, CellUpdate
        <5> QED
          BY <1>1, <2>2, <2>3, <4>1, <4>2, <4>4, <4>5, <5>2 DEF MessageInv
      <4>6. CASE result # "ANSWERED"
        BY <4>4, <4>6 DEF MessageInv
      <4> QED
        BY <4>5, <4>6
    <3>5. CASE ~(newest[l][k] = "PENDING" /\ ~OnTheWay(l, k))
      <4>1. newest' = newest
        BY <3>3, <3>5
      <4>2. newest[l][k] = "PENDING" => Unposted(l, k) \/ ~NoneOf(waiting, Mine(l, k))
        BY <1>2, <3>5, WayFacts
      <4> QED
        BY <1>1, <2>1, <2>2, <3>1, <4>1, <4>2 DEF MessageInv
    <3> QED
      BY <3>4, <3>5
  <2> QED
    BY <2>5, <2>6
<1> QED
  BY <1>1, <1>3, ThreadFrame DEF CInv, MessagesInv

LEMMA NextInv == CInv /\ [Next]_vars => CInv'
<1> SUFFICES ASSUME CInv, [Next]_vars PROVE ThreadInv' /\ MessagesInv'
  BY NextTypes DEF CInv
<1>1. CASE UNCHANGED vars
  <2>1. Quiet
    BY <1>1 DEF vars, Quiet, OperatorHolds, ServerHolds
  <2> QED
    BY <2>1, QuietInv
<1>2. CASE \/ TakeEngine \/ Record \/ Log \/ StartDisplay \/ Render
           \/ Prompt \/ Return \/ TakeConsole \/ LockEngine \/ ResumeAutomatic
           \/ TypeKey \/ Quit \/ TypeNumber \/ HourPasses
  <2>1. Quiet
    BY <1>2, QuietSteps DEF CInv
  <2> QED
    BY <2>1, QuietInv
<1>3. CASE AutoCheck
  BY <1>3, AutoCheckInv
<1>4. CASE StartBroadcast
  BY <1>4, StartInv
<1>5. CASE ServerPosts
  BY <1>5, ServerPostsInv
<1>6. CASE OperatorPosts
  BY <1>6, OperatorPostsInv
<1>7. CASE Commands /\ ~ResumeAutomatic
  <2>1. PICK messages : Carried(messages)
    BY <1>7, CommandsCarried DEF CInv
  <2> QED
    BY <2>1, CommandInv
<1>8. CASE BeginJob
  BY <1>8, BeginInv
<1>9. CASE OnCommandReply
  BY <1>9, ReportInv
<1>10. CASE \E result \in Queue!Results : Conclude(result)
  BY <1>10, ConcludeInv
<1> QED
  BY <1>1, <1>2, <1>3, <1>4, <1>5, <1>6, <1>7, <1>8, <1>9, <1>10
     DEF Next, ServerStep, OperatorStep

THEOREM CentralInvariant == Spec => []CInv
BY InitInv, NextInv, PTL DEF Spec

\* What an intersection runs once it was told the newest message, and no other is
\* on its way, is what it is expected to run.
LEMMA SettledAsExpected ==
  ASSUME CInv, NEW l \in Targets, NEW k \in Kinds, Settled(l, k)
  PROVE  received[l][k] = Expected(l, k)
<1>1. ~Unposted(l, k)
  BY WayFacts DEF CInv, Settled
<1>2. MessageInv(l, k)
  BY DEF CInv, MessagesInv
<1> QED
  BY <1>1, <1>2 DEF Settled, MessageInv

\* Central's rows name the profile and the override that each intersection was
\* last sent, once it took it: however many intersections, chains and places in
\* the queue there are, whatever was refused or lost before, and wherever the
\* automatic decision and its broadcast fall in between.
THEOREM RecordsAlwaysAsReceived == Spec => []RecordAsReceived
<1>1. CInv => RecordAsReceived
  BY SettledAsExpected, JobFacts DEF RecordAsReceived, Expected
<1> QED
  BY <1>1, CentralInvariant, PTL

\* So do the modes, but for the intersections that the operator commanded between
\* an automatic decision and its broadcast: all of those run the automatic one.
THEOREM ModesAlwaysMatch == Spec => []ModesMatch
<1>1. CInv => ModesMatch
  BY SettledAsExpected, JobFacts DEF ModesMatch, Expected
<1> QED
  BY <1>1, CentralInvariant, PTL

-----------------------------------------------------------------------------
(* The two locks.                                                           *)

\* A thread stands before a lock that the other one holds.
ServerBlocked ==
  \/ server \in {"REPORTING", "LOGGING", "SWITCHING", "FINISHING"} /\ OperatorHolds
  \/ server \in {"IDLE", "CHECKING", "DRAWING"} /\ OperatorHoldsEngine

OperatorBlocked ==
  \/ operator \in {"LOCKING", "RETURNING"} /\ ServerHolds
  \/ operator \in {"UPDATING", "RESUMING"} /\ ServerHoldsEngine

\* The server thread and the operator thread never wait for each other, although
\* both ask for mode_eng_lock with the console held: the display of on_pulse and
\* the commands of c_operator.c take the two locks in the same order, and only
\* one of the two threads has the console.
THEOREM NeverBothBlocked == Spec => []~(ServerBlocked /\ OperatorBlocked)
<1>1. CInv => ~(ServerBlocked /\ OperatorBlocked)
  BY DEF CInv, ThreadInv, ServerBlocked, OperatorBlocked, OperatorHolds, ServerHolds,
         OperatorHoldsEngine, ServerHoldsEngine
<1> QED
  BY <1>1, CentralInvariant, PTL
=============================================================================
