------------------------------ MODULE RightOfWay ------------------------------
(***************************************************************************)
(* What an intersection promises those who use it, whatever lies behind    *)
(* its signals: one movement at a time has right of way, with a yellow and *)
(* an all-red before the next, each for its time; the connector only while *)
(* its crossing is known to be open; and a WALK begins beside the green of *)
(* its own direction, lasts its time and never meets the traffic that      *)
(* crosses it.                                                             *)
(*                                                                         *)
(* A fault shows.  It may force every head to its safe state at any        *)
(* moment, in the middle of a green or of a WALK, and holds all of this up *)
(* for as long as it lasts.  When it is over the right of way goes on from *)
(* where it was held, but each head stays in its safe state until its own  *)
(* next change.  So no head ever shows more than the right of way: only,   *)
(* around a fault, less.                                                   *)
(*                                                                         *)
(* Preemptions, overrides, drain phases, offset corrections and changes of *)
(* mode are not seen here: Intersection keeps the promise through them.    *)
(***************************************************************************)
EXTENDS Integers

CONSTANTS
  TICK,                       \* of the signals
  MIN_GREEN, YELLOW, ALL_RED, \* for how long a phase is displayed at least
  WALK,                       \* for how long a WALK is shown
  RECORD_MAX                  \* up to which the display of a phase is timed

VARIABLES
  control,                    \* RUNNING, or HELD by a fault
  phase, shown,               \* and for how long, not counting what a fault holds it
  walking, walked,            \* sides that have their WALK, and for how long
  crossing,                   \* what is known of the one behind the connector
  heads, crosswalks           \* phase on display, and the sides that are shown WALK

rvars == <<control, phase, shown, walking, walked, crossing, heads, crosswalks>>

Init ==
  /\ control = "RUNNING"
  /\ phase = "ARTERIAL_GREEN" /\ shown = 0
  /\ walking = {} /\ walked = 0
  /\ crossing = "OPEN"
  /\ heads = "ARTERIAL_GREEN" /\ crosswalks = {}

\* Behind either all-red either movement may have its turn.
Followers(p) ==
  IF p = "ARTERIAL_GREEN" THEN {"ARTERIAL_YELLOW"}
  ELSE IF p = "CONNECTOR_GREEN" THEN {"CONNECTOR_YELLOW"}
  ELSE IF p = "ARTERIAL_YELLOW" THEN {"ALL_RED_A_TO_B"}
  ELSE IF p = "CONNECTOR_YELLOW" THEN {"ALL_RED_B_TO_A"}
  ELSE {"ARTERIAL_GREEN", "CONNECTOR_GREEN"}

Minimum(p) ==
  IF p \in {"ARTERIAL_GREEN", "CONNECTOR_GREEN"} THEN MIN_GREEN
  ELSE IF p \in {"ARTERIAL_YELLOW", "CONNECTOR_YELLOW"} THEN YELLOW ELSE ALL_RED

\* The sides that walk beside a green, and those that a green or a yellow crosses.
Beside(p) ==
  IF p = "ARTERIAL_GREEN" THEN {0, 1} ELSE IF p = "CONNECTOR_GREEN" THEN {2, 3} ELSE {}
Crossed(p) ==
  IF p \in {"ARTERIAL_GREEN", "ARTERIAL_YELLOW"} THEN {2, 3}
  ELSE IF p \in {"CONNECTOR_GREEN", "CONNECTOR_YELLOW"} THEN {0, 1} ELSE {}

Keep ==
  /\ phase' = phase
  /\ shown' = IF shown + TICK > RECORD_MAX THEN RECORD_MAX ELSE shown + TICK

Advance ==
  /\ shown + TICK >= Minimum(phase)
  /\ phase' \in Followers(phase) /\ shown' = 0
  /\ phase' = "CONNECTOR_GREEN" => crossing = "OPEN"

Pedestrians ==
  \/ walking = {} /\ walking' \subseteq Beside(phase) /\ walked' = 0
  \/ walking # {} /\ walked + TICK < WALK /\ walking' = walking /\ walked' = walked + TICK
  \/ walking # {} /\ walked + TICK >= WALK /\ walking' = {} /\ walked' = 0

\* A head changes with what it shows.
Display ==
  /\ heads' = IF phase' = phase THEN heads ELSE phase'
  /\ crosswalks' = IF walking' = walking THEN crosswalks ELSE walking'

Tick ==
  /\ control = "RUNNING"
  /\ Keep \/ Advance
  /\ Pedestrians /\ walking' \cap Crossed(phase') = {}
  /\ Display
  /\ UNCHANGED <<control, crossing>>

\* The crossing reports its state.
Report ==
  /\ crossing' \in {"OPEN", "WARNING", "CLOSED", "FAULT"}
  /\ UNCHANGED <<control, phase, shown, walking, walked, heads, crosswalks>>

\* A fault takes every head to its safe state, at any moment and at once.
Fault ==
  /\ control' = "HELD" /\ heads' = "FAULT_SAFE" /\ crosswalks' = {}
  /\ UNCHANGED <<phase, shown, walking, walked, crossing>>

\* It is cleared: the movements go on, their heads when they next change.
Recover ==
  /\ control' = "RUNNING"
  /\ UNCHANGED <<phase, shown, walking, walked, crossing, heads, crosswalks>>

Next == Tick \/ Report \/ Fault \/ Recover

Spec == Init /\ [][Next]_rvars
===============================================================================
