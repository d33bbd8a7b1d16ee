------------------------------- MODULE MCRailway -------------------------------
(***************************************************************************)
(* The railway crossing as TLC checks it.  Times are in seconds, the       *)
(* period of the railway pulse; each configuration picks the directions,   *)
(* demo keys, faults and times that its question needs.                    *)
(***************************************************************************)
EXTENDS RailwayHistory
=============================================================================
