------------------------------ MODULE BoundedPool ------------------------------
(***************************************************************************)
(* What both concurrency caps of the agent promise: users wait for a place *)
(* in a pool, at most Max are in it at once, and a user leaves either from *)
(* the pool or from the waiting room.  No order and no permits here.       *)
(***************************************************************************)
EXTENDS Naturals, FiniteSets

CONSTANTS Users, Max

VARIABLES waiting, active

vars == <<waiting, active>>

Init == waiting = {} /\ active = {}

Join(u) ==
  /\ u \notin waiting \cup active
  /\ waiting' = waiting \cup {u} /\ active' = active

GiveUp(u) ==
  /\ u \in waiting
  /\ waiting' = waiting \ {u} /\ active' = active

\* A user that finds a free place need not wait first.
Enter(u) ==
  /\ u \notin active /\ Cardinality(active) < Max
  /\ active' = active \cup {u} /\ waiting' = waiting \ {u}

Leave(u) ==
  /\ u \in active
  /\ active' = active \ {u} /\ waiting' = waiting

Next == \E u \in Users : Join(u) \/ GiveUp(u) \/ Enter(u) \/ Leave(u)

Spec == Init /\ [][Next]_vars
=============================================================================
