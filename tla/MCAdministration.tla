--------------------------- MODULE MCAdministration ---------------------------
(* Small instances of Administration for TLC. *)
EXTENDS Administration

CONSTANTS n1, n2, home, o2, p1, p2

MCOrgOf == [p \in Products |-> IF p = p1 THEN home ELSE o2]
MCNameOf == [p \in Products |-> n1]
=============================================================================
