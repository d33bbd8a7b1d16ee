------------------------------ MODULE ClientQueue ------------------------------
(***************************************************************************)
(* The outgoing message queue of one node: the ring buffer, the client     *)
(* thread and the naming of app/shared/src/qnet_utils.c, with the servers  *)
(* of the other nodes that it talks to.                                    *)
(*                                                                         *)
(* The threads of the node post under q->lock, so a post is one action.    *)
(* The client thread holds the lock only while it looks for a job and      *)
(* takes it; it opens the peer by name, sends and waits for the reply, and *)
(* calls the poster back with the lock released, each of which is an       *)
(* action of its own.  A peer may start, die, stop answering and resume    *)
(* between any two of them.                                                *)
(*                                                                         *)
(* stopping is left out: nothing ever sets it.                             *)
(***************************************************************************)
EXTENDS Integers, Sequences

CONSTANTS
  CAPACITY,          \* IPC_CLIENT_QUEUE_CAPACITY
  Peers,             \* controllers that are posted to
  Remote,            \* those that TRAFFIC_NODE_MAP places on another node
  Requests,
  NoJob

ASSUME CapacityAssumption == CAPACITY \in Nat \ {0}
ASSUME PeersAssumption == Remote \subseteq Peers

Jobs == [target_id : Peers, req : Requests]
ASSUME NoJobAssumption == NoJob \notin Jobs

Slots == 0 .. CAPACITY - 1
Namespaces == {"GLOBAL", "LOCAL"}

\* Where the client thread is: at the head of its wait loop, in
\* pthread_cond_wait, in the first or the second name_open, in MsgSend, in the
\* callback.
Threads == {"CHECKING", "WAITING", "OPENING", "FALLBACK", "SENDING", "REPORTING"}

VARIABLES
  jobs, head, count,           \* the ring; a slot keeps a job that was taken
  thread, job, send_ok,        \* locals of ipc_client_thread_main
  connected,                   \* coid leads to the peer's present channel
  attached,                    \* namespace of each peer's name, or "NONE"
  hung                         \* peers that run but do not receive

ringVars == <<jobs, head, count>>
threadVars == <<thread, job, send_ok>>
peerVars == <<attached, hung>>
vars == <<ringVars, threadVars, connected, peerVars>>

\* calloc, and a client thread that has just been created; the peers may or may
\* not be up.
Init ==
  /\ jobs = [i \in Slots |-> NoJob] /\ head = 0 /\ count = 0
  /\ thread = "CHECKING" /\ job = NoJob /\ send_ok = FALSE
  /\ connected = FALSE
  /\ attached \in [Peers -> Namespaces \cup {"NONE"}] /\ hung = {}

-----------------------------------------------------------------------------
(* Posting (ipc_client_post).                                               *)

\* Defect: the tail is one slot short once the buffer has wrapped.
TailSlot_Wraps(h, c) == IF h + c < CAPACITY THEN h + c ELSE h + c - CAPACITY + 1

TailSlot(h, c) == (h + c) % CAPACITY

\* Defect: the job is stored without waking the client thread.
Signalled_Not == thread

Signalled == IF thread = "WAITING" THEN "CHECKING" ELSE thread

\* A full queue refuses the job, which changes nothing.
Post(j) ==
  /\ count < CAPACITY
  /\ jobs' = [jobs EXCEPT ![TailSlot(head, count)] = j] /\ count' = count + 1
  /\ thread' = Signalled
  /\ UNCHANGED <<head, job, send_ok, connected, peerVars>>

-----------------------------------------------------------------------------
(* The client thread (ipc_client_thread_main).                              *)

WaitForJob ==
  /\ thread = "CHECKING" /\ count = 0 /\ thread' = "WAITING"
  /\ UNCHANGED <<ringVars, job, send_ok, connected, peerVars>>

\* pthread_cond_wait may return without a signal.
SpuriousWakeup ==
  /\ thread = "WAITING" /\ thread' = "CHECKING"
  /\ UNCHANGED <<ringVars, job, send_ok, connected, peerVars>>

\* Defect: the head runs off the end of the buffer.
NextHead_Unwrapped == head + 1

NextHead == (head + 1) % CAPACITY

TakeJob ==
  /\ thread = "CHECKING" /\ count > 0
  /\ job' = jobs[head] /\ send_ok' = FALSE
  /\ head' = NextHead /\ count' = count - 1
  /\ thread' = "OPENING"
  /\ UNCHANGED <<jobs, connected, peerVars>>

\* Names are looked up on the peer's node in the global namespace first, or by
\* their plain name when no node is given (build_open_path).
Found(p) == attached[p] = "GLOBAL" \/ (p \notin Remote /\ attached[p] = "LOCAL")

\* Only a path of the global namespace is tried a second time, in the local one.
FoundLocally(p) == attached[p] = "LOCAL"

\* name_open sends _IO_CONNECT, which the peer's receive loop has to answer.
Answers(p) == p \notin hung

Open ==
  /\ thread = "OPENING"
  /\ \/ /\ Found(job.target_id) /\ Answers(job.target_id)
        /\ thread' = "SENDING" /\ connected' = TRUE
     \/ /\ ~Found(job.target_id) /\ job.target_id \in Remote
        /\ thread' = "FALLBACK" /\ UNCHANGED connected
     \/ /\ ~Found(job.target_id) /\ job.target_id \notin Remote
        /\ thread' = "REPORTING" /\ UNCHANGED connected
  /\ UNCHANGED <<ringVars, job, send_ok, peerVars>>

\* Defect: a name that is not there is tried until it is.
GivesUp_Never(p) == FALSE

GivesUp(p) == ~FoundLocally(p)

OpenFallback ==
  /\ thread = "FALLBACK"
  /\ \/ /\ FoundLocally(job.target_id) /\ Answers(job.target_id)
        /\ thread' = "SENDING" /\ connected' = TRUE
     \/ /\ GivesUp(job.target_id)
        /\ thread' = "REPORTING" /\ UNCHANGED connected
  /\ UNCHANGED <<ringVars, job, send_ok, peerVars>>

\* The peer receives the request and replies: MsgSend returns.
Reply(p) ==
  /\ thread = "SENDING" /\ job.target_id = p /\ connected /\ Answers(p)
  /\ send_ok' = TRUE /\ thread' = "REPORTING" /\ connected' = FALSE
  /\ UNCHANGED <<ringVars, job, peerVars>>

\* The peer died since it was opened: MsgSend returns -1.
SendFails ==
  /\ thread = "SENDING" /\ ~connected
  /\ thread' = "REPORTING"
  /\ UNCHANGED <<ringVars, job, send_ok, connected, peerVars>>

\* on_reply runs on this thread.
OnReply ==
  /\ thread = "REPORTING" /\ thread' = "CHECKING"
  /\ UNCHANGED <<ringVars, job, send_ok, connected, peerVars>>

ThreadStep ==
  \/ WaitForJob \/ TakeJob \/ Open \/ OpenFallback \/ SendFails \/ OnReply
  \/ \E p \in Peers : Reply(p)

-----------------------------------------------------------------------------
(* The peers.                                                               *)

\* ipc_attach: globally where the global name service runs, locally otherwise.
Attach(p) ==
  /\ attached[p] = "NONE"
  /\ \E n \in Namespaces : attached' = [attached EXCEPT ![p] = n]
  /\ UNCHANGED <<ringVars, threadVars, connected, hung>>

Die(p) ==
  /\ attached[p] # "NONE"
  /\ attached' = [attached EXCEPT ![p] = "NONE"] /\ hung' = hung \ {p}
  /\ connected' = (connected /\ job.target_id # p)
  /\ UNCHANGED <<ringVars, threadVars>>

\* The process stays, but its receive loop does not get to run.
Hang(p) ==
  /\ attached[p] # "NONE" /\ p \notin hung /\ hung' = hung \cup {p}
  /\ UNCHANGED <<ringVars, threadVars, connected, attached>>

Resume(p) ==
  /\ p \in hung /\ hung' = hung \ {p}
  /\ UNCHANGED <<ringVars, threadVars, connected, attached>>

PeerStep == \E p \in Peers : Attach(p) \/ Die(p) \/ Hang(p) \/ Resume(p)

Next ==
  \/ \E j \in Jobs : Post(j)
  \/ SpuriousWakeup
  \/ ThreadStep
  \/ PeerStep

Spec == Init /\ [][Next]_vars

\* The client thread runs whenever it is not blocked, and a peer that receives
\* answers: ipc_server_run replies to every request it takes.
FairSpec == Spec /\ WF_vars(ThreadStep)

-----------------------------------------------------------------------------
Carrying == {"OPENING", "FALLBACK", "SENDING", "REPORTING"}

\* The values the ring, the locals of the thread and the peers may take.
TypeOK ==
  /\ jobs \in [Slots -> Jobs \cup {NoJob}] /\ head \in Slots
  /\ count \in 0 .. CAPACITY
  /\ thread \in Threads /\ job \in Jobs \cup {NoJob}
  /\ send_ok \in BOOLEAN /\ connected \in BOOLEAN
  /\ attached \in [Peers -> Namespaces \cup {"NONE"}] /\ hung \subseteq Peers

\* The occupied slots of the ring, oldest first, hold jobs that were posted.
Waiting == [i \in 1 .. count |-> jobs[(head + (i - 1)) % CAPACITY]]

\* The client thread never sleeps on a job: a post between its look at the count
\* and its wait cannot be missed.
NoLostWakeup == thread = "WAITING" => count = 0

\* What the posters may rely on: accepted jobs are carried out once each, one at
\* a time, in the order in which they were accepted, and reported back as they
\* ended, however the ring wraps and whatever the peers do.
Promise ==
  INSTANCE Outbox WITH
    waiting <- Waiting,
    current <- IF thread \in Carrying THEN job ELSE NoJob,
    outcome <- IF thread \notin Carrying THEN "NONE"
               ELSE IF thread # "REPORTING" THEN "PENDING"
               ELSE IF send_ok THEN "ANSWERED" ELSE "FAILED"

KeepsPromise == Promise!Spec

\* Unless some peer hangs for ever, or again and again, an accepted job of any
\* kind is begun, however many are posted before and after it: an absent or dead
\* peer never holds up the rest.
Queued(j) == \E i \in 1 .. count : Waiting[i] = j
EveryJobBegun ==
  \A j \in Jobs : <>[](hung = {}) =>
    (Queued(j) ~> thread = "OPENING" /\ job = j)
================================================================================
