--------------------------- MODULE ClientQueueProofs ---------------------------
(***************************************************************************)
(* Proofs about the client queue, for every capacity, every set of peers   *)
(* and every set of requests: its types, that the client thread never      *)
(* sleeps on a job, and that the ring buffer and its thread implement the  *)
(* promise that Outbox states.                                             *)
(***************************************************************************)
EXTENDS ClientQueue, SequenceTheorems, TLAPS

\* The groups of variables are mere abbreviations for UNCHANGED.
USE DEF ringVars, threadVars, peerVars

-----------------------------------------------------------------------------
(* The ring.                                                                *)

\* Counting on from the head by less than a lap wraps around at most once.
LEMMA Wrap ==
  ASSUME NEW h \in Slots, NEW k \in Slots
  PROVE  /\ (h + k) % CAPACITY \in Slots
         /\ (h + k) % CAPACITY = IF h + k < CAPACITY THEN h + k ELSE h + k - CAPACITY
BY CapacityAssumption, SMT DEF Slots

\* The head advances to the next slot of the ring.
LEMMA Advance ==
  ASSUME NEW h \in Slots
  PROVE  /\ (h + 1) % CAPACITY \in Slots
         /\ (h + 1) % CAPACITY = IF h + 1 < CAPACITY THEN h + 1 ELSE 0
BY CapacityAssumption, SMT DEF Slots

\* The slots that are less than a lap from the head are all different.
LEMMA SlotsApart ==
  ASSUME NEW h \in Slots, NEW k \in Slots, NEW l \in Slots, k # l
  PROVE  (h + k) % CAPACITY # (h + l) % CAPACITY
<1>1. /\ (h + k) % CAPACITY = IF h + k < CAPACITY THEN h + k ELSE h + k - CAPACITY
      /\ (h + l) % CAPACITY = IF h + l < CAPACITY THEN h + l ELSE h + l - CAPACITY
  BY Wrap
<1> QED
  BY <1>1, CapacityAssumption, SMT DEF Slots

\* A slot counted from the advanced head is one further from the old head.
LEMMA ShiftedSlot ==
  ASSUME NEW h \in Slots, NEW k \in Slots, k + 1 \in Slots
  PROVE  (((h + 1) % CAPACITY) + k) % CAPACITY = (h + (k + 1)) % CAPACITY
<1>1. /\ (h + 1) % CAPACITY \in Slots
      /\ (h + 1) % CAPACITY = IF h + 1 < CAPACITY THEN h + 1 ELSE 0
  BY Advance
<1>2. (h + (k + 1)) % CAPACITY = IF h + (k + 1) < CAPACITY THEN h + (k + 1)
                                 ELSE h + (k + 1) - CAPACITY
  BY Wrap
<1>3. (((h + 1) % CAPACITY) + k) % CAPACITY
        = IF ((h + 1) % CAPACITY) + k < CAPACITY THEN ((h + 1) % CAPACITY) + k
          ELSE ((h + 1) % CAPACITY) + k - CAPACITY
  BY <1>1, Wrap
<1> QED
  BY <1>1, <1>2, <1>3, CapacityAssumption, SMT DEF Slots

-----------------------------------------------------------------------------
(* The inductive invariant: the occupied slots hold jobs, and so does the   *)
(* client thread while it carries one out.                                  *)

OccupiedHold == \A k \in 0 .. count - 1 : jobs[(head + k) % CAPACITY] \in Jobs

CarriesJob == thread \in Carrying => job \in Jobs

QueueInv == TypeOK /\ NoLostWakeup /\ OccupiedHold /\ CarriesJob

\* The queue is created empty, with its thread awake.
LEMMA QueueInvInit == Init => QueueInv
<1> SUFFICES ASSUME Init PROVE QueueInv
  OBVIOUS
<1>1. send_ok \in BOOLEAN /\ connected \in BOOLEAN
  BY DEF Init
<1>2. /\ jobs \in [Slots -> Jobs \cup {NoJob}] /\ head \in Slots
      /\ count \in 0 .. CAPACITY
      /\ thread \in Threads /\ job \in Jobs \cup {NoJob}
      /\ attached \in [Peers -> Namespaces \cup {"NONE"}] /\ hung \subseteq Peers
  BY CapacityAssumption DEF Init, Slots, Threads
<1>3. TypeOK
  BY <1>1, <1>2 DEF TypeOK
<1>4. NoLostWakeup /\ OccupiedHold /\ CarriesJob
  BY DEF Init, NoLostWakeup, OccupiedHold, CarriesJob, Carrying
<1> QED
  BY <1>3, <1>4 DEF QueueInv

\* A post fills the slot behind the occupied ones and wakes the thread.
LEMMA PostKeeps ==
  ASSUME QueueInv, NEW j \in Jobs, Post(j)
  PROVE  QueueInv'
<1> USE DEF QueueInv
<1>1. count \in Slots /\ count + 1 \in 0 .. CAPACITY /\ count \in Nat
  BY CapacityAssumption DEF Post, TypeOK, Slots
<1>2. TailSlot(head, count) \in Slots
  BY <1>1, Wrap DEF TypeOK, TailSlot
<1>3. TypeOK'
  BY <1>1, <1>2 DEF Post, Signalled, TypeOK, Threads
<1>4. NoLostWakeup'
  BY DEF Post, Signalled, NoLostWakeup
<1>5. OccupiedHold'
  <2> SUFFICES ASSUME NEW k \in 0 .. count
               PROVE  jobs'[(head + k) % CAPACITY] \in Jobs
    BY <1>1 DEF OccupiedHold, Post
  <2>1. k \in Slots
    BY <1>1, CapacityAssumption DEF Slots
  <2>2. (head + k) % CAPACITY \in Slots
    BY <2>1, Wrap DEF TypeOK
  <2>3. CASE k = count
    BY <2>2, <2>3 DEF Post, TailSlot, TypeOK
  <2>4. CASE k # count
    <3>1. (head + k) % CAPACITY # TailSlot(head, count)
      BY <1>1, <2>1, <2>4, SlotsApart DEF TailSlot, TypeOK
    <3>2. jobs'[(head + k) % CAPACITY] = jobs[(head + k) % CAPACITY]
      BY <2>2, <3>1 DEF Post, TypeOK
    <3> QED
      BY <1>1, <2>4, <3>2 DEF OccupiedHold
  <2> QED
    BY <2>3, <2>4
<1>6. CarriesJob'
  BY DEF Post, Signalled, CarriesJob, Carrying
<1> QED
  BY <1>3, <1>4, <1>5, <1>6

\* Taking the oldest job leaves the others where they are.
LEMMA TakeJobKeeps ==
  ASSUME QueueInv, TakeJob
  PROVE  QueueInv'
<1> USE DEF QueueInv
<1>1. count \in Nat /\ count > 0 /\ count <= CAPACITY /\ head \in Slots
  BY CapacityAssumption DEF TakeJob, TypeOK
<1>2. jobs[head] \in Jobs
  <2>1. (head + 0) % CAPACITY = head
    BY <1>1, CapacityAssumption, SMT DEF Slots
  <2> QED
    BY <1>1, <2>1 DEF OccupiedHold
<1>3. TypeOK'
  <2>1. send_ok' \in BOOLEAN /\ connected' \in BOOLEAN
    BY DEF TakeJob, TypeOK
  <2>2. head' \in Slots
    BY <1>1, Advance DEF TakeJob, NextHead
  <2>3. count' \in 0 .. CAPACITY
    BY <1>1, CapacityAssumption DEF TakeJob
  <2>4. /\ jobs' \in [Slots -> Jobs \cup {NoJob}]
        /\ thread' \in Threads /\ job' \in Jobs \cup {NoJob}
        /\ attached' \in [Peers -> Namespaces \cup {"NONE"}] /\ hung' \subseteq Peers
    BY <1>2 DEF TakeJob, TypeOK, Threads
  <2> QED
    BY <2>1, <2>2, <2>3, <2>4 DEF TypeOK
<1>4. NoLostWakeup'
  BY DEF TakeJob, NoLostWakeup
<1>5. OccupiedHold'
  <2> SUFFICES ASSUME NEW k \in 0 .. count - 2
               PROVE  jobs[(((head + 1) % CAPACITY) + k) % CAPACITY] \in Jobs
    BY <1>1 DEF OccupiedHold, TakeJob, NextHead
  <2>1. k \in Slots /\ k + 1 \in Slots /\ k + 1 \in 0 .. count - 1
    BY <1>1, CapacityAssumption DEF Slots
  <2> QED
    BY <1>1, <2>1, ShiftedSlot DEF OccupiedHold
<1>6. CarriesJob'
  BY <1>2 DEF TakeJob, CarriesJob
<1> QED
  BY <1>3, <1>4, <1>5, <1>6

\* Every other step of the thread leaves the ring and the job alone.
LEMMA ThreadKeeps ==
  ASSUME QueueInv,
         \/ WaitForJob \/ SpuriousWakeup \/ Open \/ OpenFallback \/ SendFails
         \/ OnReply \/ \E p \in Peers : Reply(p)
  PROVE  QueueInv'
<1> USE DEF QueueInv
<1>1. UNCHANGED <<jobs, head, count, job, attached, hung>>
  BY DEF WaitForJob, SpuriousWakeup, Open, OpenFallback, SendFails, OnReply, Reply
<1>2. /\ thread' \in Threads /\ (thread' = "WAITING" => count = 0)
      /\ (thread' \in Carrying => thread \in Carrying)
      /\ send_ok' \in BOOLEAN
  BY DEF WaitForJob, SpuriousWakeup, Open, OpenFallback, SendFails, OnReply, Reply,
         Threads, Carrying, TypeOK
<1>3. connected' \in BOOLEAN
  BY DEF WaitForJob, SpuriousWakeup, Open, OpenFallback, SendFails, OnReply, Reply,
         TypeOK
<1>4. TypeOK'
  BY <1>1, <1>2, <1>3 DEF TypeOK
<1>5. NoLostWakeup' /\ OccupiedHold' /\ CarriesJob'
  BY <1>1, <1>2 DEF NoLostWakeup, OccupiedHold, CarriesJob
<1> QED
  BY <1>4, <1>5

\* The peers have no part in the queue.
LEMMA PeersKeep ==
  ASSUME QueueInv, PeerStep
  PROVE  QueueInv'
<1> USE DEF QueueInv
<1>1. UNCHANGED <<ringVars, threadVars>>
  BY DEF PeerStep, Attach, Die, Hang, Resume
<1>2. attached' \in [Peers -> Namespaces \cup {"NONE"}] /\ hung' \subseteq Peers
  BY DEF PeerStep, Attach, Die, Hang, Resume, TypeOK
<1>3. connected' \in BOOLEAN
  <2>1. connected' = connected \/ \E p \in Peers : connected' = (connected /\ job.target_id # p)
    BY DEF PeerStep, Attach, Die, Hang, Resume
  <2>2. connected \in BOOLEAN
    BY DEF TypeOK
  <2> QED
    BY <2>1, <2>2, Zenon
<1>4. TypeOK'
  BY <1>1, <1>2, <1>3 DEF TypeOK
<1> QED
  BY <1>1, <1>4 DEF NoLostWakeup, OccupiedHold, CarriesJob

\* No step breaks the invariant.
LEMMA QueueInvStep == QueueInv /\ [Next]_vars => QueueInv'
<1> SUFFICES ASSUME QueueInv, [Next]_vars PROVE QueueInv'
  OBVIOUS
<1>1. CASE \E j \in Jobs : Post(j)
  BY <1>1, PostKeeps
<1>2. CASE SpuriousWakeup
  BY <1>2, ThreadKeeps
<1>3. CASE ThreadStep
  BY <1>3, TakeJobKeeps, ThreadKeeps DEF ThreadStep
<1>4. CASE PeerStep
  BY <1>4, PeersKeep
<1>5. CASE UNCHANGED vars
  BY <1>5 DEF vars, QueueInv, TypeOK, NoLostWakeup, OccupiedHold, CarriesJob
<1> QED
  BY <1>1, <1>2, <1>3, <1>4, <1>5 DEF Next

LEMMA QueueInvAlways == Spec => []QueueInv
BY QueueInvInit, QueueInvStep, PTL DEF Spec

\* The ring, the locals of the client thread and the peers keep their types.
THEOREM QueueTypeCorrect == Spec => []TypeOK
BY QueueInvAlways, PTL DEF QueueInv

\* The client thread never sleeps while a job is waiting.
THEOREM WakeupNeverLost == Spec => []NoLostWakeup
BY QueueInvAlways, PTL DEF QueueInv

-----------------------------------------------------------------------------
(* The refinement.  One lemma per abstract action says what the ring does   *)
(* to the sequence of the waiting jobs.                                     *)

\* Positions count from one, distances from the head from zero.
LEMMA Behind ==
  ASSUME NEW n \in Nat, NEW i \in 1 .. n
  PROVE  i - 1 \in 0 .. n - 1
OBVIOUS

\* The occupied slots are a sequence of jobs as long as the count.
LEMMA WaitingIsSeq ==
  ASSUME QueueInv
  PROVE  /\ Waiting \in Seq(Jobs) /\ Len(Waiting) = count
         /\ \A i \in 1 .. count : Waiting[i] = jobs[(head + (i - 1)) % CAPACITY]
<1>1. count \in Nat
  BY CapacityAssumption DEF QueueInv, TypeOK
<1>2. \A i \in 1 .. count : jobs[(head + (i - 1)) % CAPACITY] \in Jobs
  <2> SUFFICES ASSUME NEW i \in 1 .. count
               PROVE  jobs[(head + (i - 1)) % CAPACITY] \in Jobs
    OBVIOUS
  <2>1. i - 1 \in 0 .. count - 1
    BY <1>1, Behind
  <2> QED
    BY <2>1 DEF QueueInv, OccupiedHold
<1>3. Waiting \in [1 .. count -> Jobs]
  BY <1>2 DEF Waiting
<1>4. Waiting \in Seq(Jobs)
  BY <1>1, <1>3, SeqDef
<1>5. Len(Waiting) = count
  BY <1>1, <1>3, <1>4, LenProperties
<1> QED
  BY <1>4, <1>5 DEF Waiting

\* The invariant of the next state, as a fact about its own sequence.
LEMMA NextWaitingIsSeq ==
  ASSUME QueueInv'
  PROVE  /\ Waiting' \in Seq(Jobs) /\ Len(Waiting') = count'
         /\ \A i \in 1 .. count' : Waiting'[i] = jobs'[(head' + (i - 1)) % CAPACITY]
<1>1. count' \in Nat
  BY CapacityAssumption DEF QueueInv, TypeOK
<1>2. \A i \in 1 .. count' : jobs'[(head' + (i - 1)) % CAPACITY] \in Jobs
  <2> SUFFICES ASSUME NEW i \in 1 .. count'
               PROVE  jobs'[(head' + (i - 1)) % CAPACITY] \in Jobs
    OBVIOUS
  <2>1. i - 1 \in 0 .. count' - 1
    BY <1>1, Behind
  <2> QED
    BY <2>1 DEF QueueInv, OccupiedHold
<1>3. Waiting' \in [1 .. count' -> Jobs]
  BY <1>2 DEF Waiting
<1>4. Waiting' \in Seq(Jobs)
  BY <1>1, <1>3, SeqDef
<1>5. Len(Waiting') = count'
  BY <1>1, <1>3, <1>4, LenProperties
<1> QED
  BY <1>4, <1>5 DEF Waiting

\* A post appends its job, wherever in the ring the tail is.
LEMMA PostAppends ==
  ASSUME QueueInv, NEW j \in Jobs, Post(j)
  PROVE  Waiting' = Append(Waiting, j)
<1>1. QueueInv' /\ Waiting \in Seq(Jobs) /\ Len(Waiting) = count
  BY PostKeeps, WaitingIsSeq
<1>2. Waiting' \in Seq(Jobs) /\ Len(Waiting') = count + 1
  BY <1>1, NextWaitingIsSeq DEF Post
<1>3. /\ Append(Waiting, j) \in Seq(Jobs) /\ Len(Append(Waiting, j)) = count + 1
      /\ \A i \in 1 .. count : Append(Waiting, j)[i] = Waiting[i]
      /\ Append(Waiting, j)[count + 1] = j
  BY <1>1, AppendProperties
<1>4. count \in Nat /\ count \in Slots /\ head \in Slots
  BY CapacityAssumption DEF QueueInv, Post, TypeOK, Slots
<1>5. ASSUME NEW i \in 1 .. count + 1
      PROVE  Waiting'[i] = Append(Waiting, j)[i]
  <2>1. i - 1 \in Slots /\ i \in 1 .. count'
    BY <1>4, <1>5, CapacityAssumption DEF Slots, Post
  <2>2. (head + (i - 1)) % CAPACITY \in Slots
    BY <1>4, <2>1, Wrap
  <2>3. Waiting'[i] = jobs'[(head + (i - 1)) % CAPACITY]
    BY <1>1, <2>1, NextWaitingIsSeq DEF Post
  <2>4. CASE i = count + 1
    <3>1. i - 1 = count
      BY <1>4, <2>4
    <3>2. (head + (i - 1)) % CAPACITY = TailSlot(head, count)
      BY <3>1 DEF TailSlot
    <3> QED
      BY <1>3, <2>2, <2>3, <2>4, <3>2 DEF Post, QueueInv, TypeOK
  <2>5. CASE i # count + 1
    <3>1. i \in 1 .. count /\ i - 1 # count
      BY <1>4, <2>5
    <3>2. (head + (i - 1)) % CAPACITY # TailSlot(head, count)
      BY <1>4, <2>1, <3>1, SlotsApart DEF TailSlot
    <3>3. Waiting'[i] = jobs[(head + (i - 1)) % CAPACITY]
      BY <2>2, <2>3, <3>2 DEF Post, QueueInv, TypeOK
    <3> QED
      BY <1>3, <3>1, <3>3, WaitingIsSeq
  <2> QED
    BY <2>4, <2>5
<1> QED
  BY <1>2, <1>3, <1>5, SeqEqual

\* The client thread takes the head of the waiting jobs and leaves their tail.
LEMMA TakeJobPops ==
  ASSUME QueueInv, TakeJob
  PROVE  /\ Waiting # <<>> /\ job' = Head(Waiting)
         /\ Waiting' = Tail(Waiting)
<1>1. QueueInv' /\ Waiting \in Seq(Jobs) /\ Len(Waiting) = count
  BY TakeJobKeeps, WaitingIsSeq
<1>2. count \in Nat /\ count > 0 /\ count <= CAPACITY /\ head \in Slots
  BY CapacityAssumption DEF QueueInv, TakeJob, TypeOK
<1>3. Waiting # <<>>
  BY <1>1, <1>2, EmptySeq
<1>4. /\ Tail(Waiting) \in Seq(Jobs) /\ Len(Tail(Waiting)) = count - 1
      /\ \A i \in 1 .. count - 1 : Tail(Waiting)[i] = Waiting[i + 1]
  BY <1>1, <1>3, HeadTailProperties
<1>5. Waiting' \in Seq(Jobs) /\ Len(Waiting') = count - 1
  BY <1>1, NextWaitingIsSeq DEF TakeJob
<1>6. job' = Head(Waiting)
  <2>1. Head(Waiting) = Waiting[1]
    BY <1>1, <1>3
  <2>2. (head + (1 - 1)) % CAPACITY = head
    BY <1>2, CapacityAssumption, SMT DEF Slots
  <2>3. Waiting[1] = jobs[(head + (1 - 1)) % CAPACITY]
    BY <1>2, WaitingIsSeq
  <2> QED
    BY <2>1, <2>2, <2>3 DEF TakeJob
<1>7. ASSUME NEW i \in 1 .. count - 1
      PROVE  Waiting'[i] = Tail(Waiting)[i]
  <2>1. /\ i - 1 \in Slots /\ (i - 1) + 1 \in Slots /\ i + 1 \in 1 .. count
        /\ i \in 1 .. count'
    BY <1>2, <1>7, CapacityAssumption DEF Slots, TakeJob
  <2>2. Waiting'[i] = jobs[(((head + 1) % CAPACITY) + (i - 1)) % CAPACITY]
    BY <1>1, <2>1, NextWaitingIsSeq DEF TakeJob, NextHead
  <2>3. (((head + 1) % CAPACITY) + (i - 1)) % CAPACITY
          = (head + ((i - 1) + 1)) % CAPACITY
    BY <1>2, <2>1, ShiftedSlot
  <2>4. (i - 1) + 1 = (i + 1) - 1
    BY <1>2, <1>7
  <2>5. Waiting[i + 1] = jobs[(head + ((i + 1) - 1)) % CAPACITY]
    BY <2>1, WaitingIsSeq
  <2> QED
    BY <1>4, <2>2, <2>3, <2>4, <2>5
<1> QED
  BY <1>3, <1>4, <1>5, <1>6, <1>7, SeqEqual

\* An empty ring is an empty sequence of waiting jobs.
LEMMA InitMaps == Init => Promise!Init
<1> SUFFICES ASSUME Init PROVE Promise!Init
  OBVIOUS
<1>1. Waiting = <<>>
  <2>1. Waiting \in Seq(Jobs) /\ Len(Waiting) = 0
    BY QueueInvInit, WaitingIsSeq DEF Init
  <2> QED
    BY <2>1, EmptySeq
<1> QED
  BY <1>1 DEF Init, Promise!Init, Carrying

\* Every step of the queue is a step of the promise, or invisible to the posters.
LEMMA StepMaps == QueueInv /\ [Next]_vars => [Promise!Next]_(Promise!ovars)
<1> SUFFICES ASSUME QueueInv, [Next]_vars PROVE [Promise!Next]_(Promise!ovars)
  OBVIOUS
<1> USE DEF Promise!ovars
<1>1. ASSUME NEW j \in Jobs, Post(j) PROVE Promise!Accept(j)
  <2>1. Waiting' = Append(Waiting, j) /\ Len(Waiting) = count
    BY <1>1, PostAppends, WaitingIsSeq
  <2>2. count # CAPACITY
    BY <1>1, CapacityAssumption DEF Post, QueueInv, TypeOK
  <2>3. /\ UNCHANGED <<job, send_ok>> /\ (thread' \in Carrying <=> thread \in Carrying)
        /\ (thread \in Carrying => thread' = thread)
    BY <1>1 DEF Post, Signalled, Carrying
  <2> QED
    BY <2>1, <2>2, <2>3 DEF Promise!Accept, Promise!Full
<1>2. ASSUME TakeJob PROVE Promise!Begin
  <2>1. Waiting # <<>> /\ job' = Head(Waiting) /\ Waiting' = Tail(Waiting)
    BY <1>2, TakeJobPops
  <2>2. thread \notin Carrying /\ thread' = "OPENING" /\ thread' \in Carrying
    BY <1>2 DEF TakeJob, Carrying
  <2> QED
    BY <2>1, <2>2 DEF Promise!Begin
<1>3. ASSUME UNCHANGED <<jobs, head, count>> PROVE Waiting' = Waiting
  BY <1>3 DEF Waiting
<1>4. ASSUME WaitForJob \/ SpuriousWakeup PROVE UNCHANGED Promise!ovars
  <2>1. thread \notin Carrying /\ thread' \notin Carrying
    BY <1>4 DEF WaitForJob, SpuriousWakeup, Carrying
  <2>2. UNCHANGED <<jobs, head, count>>
    BY <1>4 DEF WaitForJob, SpuriousWakeup
  <2> QED
    BY <1>3, <2>1, <2>2
<1>5. ASSUME Open \/ OpenFallback \/ SendFails \/ \E p \in Peers : Reply(p)
      PROVE  \/ UNCHANGED Promise!ovars
             \/ \E result \in Promise!Results : Promise!Conclude(result)
  <2>1. UNCHANGED <<jobs, head, count, job>>
    BY <1>5 DEF Open, OpenFallback, SendFails, Reply
  <2>2. /\ thread \in Carrying /\ thread # "REPORTING"
        /\ thread' \in Carrying
    BY <1>5 DEF Open, OpenFallback, SendFails, Reply, Carrying
  <2>3. CASE thread' # "REPORTING"
    BY <1>3, <2>1, <2>2, <2>3
  <2>4. CASE thread' = "REPORTING" /\ send_ok'
    BY <1>3, <2>1, <2>2, <2>4 DEF Promise!Conclude, Promise!Results
  <2>5. CASE thread' = "REPORTING" /\ ~send_ok'
    BY <1>3, <2>1, <2>2, <2>5 DEF Promise!Conclude, Promise!Results
  <2> QED
    BY <2>3, <2>4, <2>5
<1>6. ASSUME OnReply PROVE Promise!Report
  <2>1. UNCHANGED <<jobs, head, count, job, send_ok>>
    BY <1>6 DEF OnReply
  <2>2. /\ thread = "REPORTING" /\ thread \in Carrying /\ thread' \notin Carrying
    BY <1>6 DEF OnReply, Carrying
  <2>3. CASE send_ok
    BY <1>3, <2>1, <2>2, <2>3 DEF Promise!Report, Promise!Results
  <2>4. CASE ~send_ok
    BY <1>3, <2>1, <2>2, <2>4 DEF Promise!Report, Promise!Results
  <2> QED
    BY <2>3, <2>4
<1>7. ASSUME PeerStep \/ UNCHANGED vars PROVE UNCHANGED Promise!ovars
  <2>1. UNCHANGED <<jobs, head, count, thread, job, send_ok>>
    BY <1>7 DEF PeerStep, Attach, Die, Hang, Resume, vars
  <2> QED
    BY <1>3, <2>1
<1>8. CASE \E j \in Jobs : Post(j)
  BY <1>1, <1>8 DEF Promise!Next
<1>9. CASE ThreadStep
  BY <1>2, <1>4, <1>5, <1>6, <1>9 DEF ThreadStep, Promise!Next
<1> QED
  BY <1>4, <1>7, <1>8, <1>9 DEF Next

\* The ring buffer and its thread implement what the posters rely on.
THEOREM QueueKeepsPromise == Spec => KeepsPromise
BY InitMaps, StepMaps, QueueInvAlways, PTL DEF Spec, KeepsPromise, Promise!Spec
================================================================================
