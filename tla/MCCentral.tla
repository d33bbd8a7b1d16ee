------------------------------- MODULE MCCentral -------------------------------
(***************************************************************************)
(* Central as TLC checks it: two intersections on one chain, the first     *)
(* hour of the peak and the first one after it, and a word of eight values *)
(* for the durations.  Of the numbers typed, what is left by uint32_t is   *)
(* 1, which is within the limits, 6, which is above them, and 0.           *)
(***************************************************************************)
EXTENDS CentralController

CONSTANTS L1, L2

Both == <<L1, L2>>
OneChain == <<Both>>
TypedDurations == {-7, -2, 0}
================================================================================
