----------------------------- MODULE LaneOwnership -----------------------------
(***************************************************************************)
(* What the lane table promises about a work item, whatever the states of  *)
(* its lanes mean: attempts are numbered without gaps, at most one of them *)
(* owns the work item, and it passes from one attempt to another only by   *)
(* being released or by being handed to a new attempt.                     *)
(***************************************************************************)
EXTENDS Integers

CONSTANTS WorkItems, AttemptBound

VARIABLES
  used,  \* the attempts made so far
  held   \* the attempts that own the work item: none or one

vars == <<used, held>>

Attempts == 1 .. AttemptBound

Init ==
  /\ used = [w \in WorkItems |-> {}]
  /\ held = [w \in WorkItems |-> {}]

NewAttempt(w, a) ==
  /\ used[w] = 1 .. (a - 1)
  /\ used' = [used EXCEPT ![w] = @ \cup {a}]
  /\ held' = [held EXCEPT ![w] = {a}]

\* A tick or an operator's retry starts an attempt at a work item nobody owns.
Claim(w, a) == held[w] = {} /\ NewAttempt(w, a)

\* A due retry is closed and the next attempt started in one transaction.
Handover(w, a) == held[w] # {} /\ NewAttempt(w, a)

\* Lanes end: one, or at shutdown several.
Release(W) ==
  /\ \A w \in W : held[w] # {}
  /\ held' = [w \in WorkItems |-> IF w \in W THEN {} ELSE held[w]]
  /\ UNCHANGED used

\* A runner whose lane was cancelled takes the work item back.
Reopen(w, a) ==
  /\ held[w] = {}
  /\ a \in used[w]
  /\ held' = [held EXCEPT ![w] = {a}]
  /\ UNCHANGED used

Next ==
  \/ \E w \in WorkItems, a \in Attempts :
       Claim(w, a) \/ Handover(w, a) \/ Reopen(w, a)
  \/ \E W \in SUBSET WorkItems : Release(W)

Spec == Init /\ [][Next]_vars
=============================================================================
