-------------------------------- MODULE Outbox --------------------------------
(***************************************************************************)
(* What the outgoing message queue of a node promises the threads that     *)
(* post to it, whatever lies behind it: an accepted job is carried out     *)
(* exactly once, the jobs one at a time and in the order of their          *)
(* acceptance, and each one is reported back to its poster as answered or  *)
(* failed before the next one is begun.  A job is refused only by a queue  *)
(* that is full.                                                           *)
(*                                                                         *)
(* ClientQueue is the ring buffer and thread of qnet_utils.c that keeps    *)
(* this promise; the models of the nodes use the promise in its stead.     *)
(***************************************************************************)
EXTENDS Naturals, Sequences

CONSTANTS CAPACITY, Jobs, NoJob

VARIABLES
  waiting,      \* the jobs accepted and not begun yet, oldest first
  current,      \* the job being carried out, or NoJob
  outcome       \* of the current job

ovars == <<waiting, current, outcome>>

Results == {"ANSWERED", "FAILED"}
Outcomes == {"NONE", "PENDING"} \cup Results

Init == waiting = <<>> /\ current = NoJob /\ outcome = "NONE"

Full == Len(waiting) = CAPACITY

\* A post returns 0; one to a full queue returns -1 and changes nothing.
Accept(j) ==
  /\ ~Full /\ waiting' = Append(waiting, j)
  /\ UNCHANGED <<current, outcome>>

Begin ==
  /\ current = NoJob /\ waiting # <<>>
  /\ current' = Head(waiting) /\ waiting' = Tail(waiting)
  /\ outcome' = "PENDING"

Conclude(result) ==
  /\ outcome = "PENDING" /\ outcome' = result
  /\ UNCHANGED <<waiting, current>>

\* The poster's callback has run.
Report ==
  /\ outcome \in Results
  /\ current' = NoJob /\ outcome' = "NONE"
  /\ UNCHANGED waiting

Next ==
  \/ \E j \in Jobs : Accept(j)
  \/ Begin
  \/ \E result \in Results : Conclude(result)
  \/ Report

Spec == Init /\ [][Next]_ovars
===============================================================================
