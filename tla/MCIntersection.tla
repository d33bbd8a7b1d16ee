--------------------------- MODULE MCIntersection ---------------------------
(***************************************************************************)
(* Intersection controllers small enough for TLC.  The timings keep the    *)
(* order of the real ones (lx_timer.h): all-red < yellow < extension <=    *)
(* minimum green < walk + flashing, connector < maximum < arterial green.  *)
(* Each configuration opens the inputs that its question is about.         *)
(***************************************************************************)
EXTENDS IntersectionHistory

\* For how many seconds a crossing warns before it lowers its gate
\* (rlx_timer.h:21); it is reported as WARNING in both states (rlx_fsm.c:25-50).
RLX_WARNING_TO_CLOSING == 5

\* A direction that leads onto a crossing does not display green while the
\* crossing is CLOSING (invariant 9 of docs/specification/04-safety-and-realtime.md),
\* as it is once it has warned for its whole interval.
NoGreenOntoClosing ==
  exposed >= RLX_WARNING_TO_CLOSING => heads # "CONNECTOR_GREEN"
=============================================================================
