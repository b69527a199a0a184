---------------------------- MODULE MCSchedulerTick ----------------------------
(* Values for TLC: product p1 has a repository with a limit, p2 a limit of its *)
(* own; the platform's limit may be lifted.                                    *)
EXTENDS SchedulerTick

CONSTANTS p1, p2, r1, w1, w2, w3, w4

MCProductOf == [w \in Items |-> IF w \in {w1, w2} THEN p1 ELSE p2]
MCScopesOf == [w \in Items |-> IF w \in {w1, w2} THEN {r1} ELSE {}]
MCConfigCap == [p \in Products |-> IF p = p2 THEN 1 ELSE 0]
MCLimits == [c \in Scopes |-> CASE c = Platform -> {0, 2} [] c = r1 -> {1} [] OTHER -> {0}]
MCItemNumber ==
  [w \in Items |-> CASE w = w1 -> 1 [] w = w2 -> 2 [] w = w3 -> 3 [] OTHER -> 4]
MCProductKey == [p \in Products |-> IF p = p1 THEN 1 ELSE 2]

\* In p1 the younger one goes first, by its priority, so that p1 comes after p2
\* in the first round and before it in the second.
MCReadyAt == [w \in Items |-> CASE w = w1 -> 0 [] w = w2 -> 2 [] OTHER -> 1]
MCKeys ==
  {[rank |-> [w \in Items |-> IF w = w1 THEN 2 ELSE 1], readyAt |-> MCReadyAt,
    productRank |-> [p \in Products |-> 0]]}
=============================================================================
