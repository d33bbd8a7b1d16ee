------------------------------- MODULE MCNetwork -------------------------------
(***************************************************************************)
(* The crossing among its peers as TLC checks it: one train direction and  *)
(* the shortest times that keep every phase of a closure.  The full check  *)
(* has one neighbour, whose messages share the queue with Central's and    *)
(* who may hang in front of them; the other one has both neighbours and a  *)
(* Central that hangs.                                                     *)
(***************************************************************************)
EXTENDS CrossingNetwork

CONSTANTS L1, L2

OneSide == <<L1>>
BothSides == <<L1, L2>>
================================================================================
