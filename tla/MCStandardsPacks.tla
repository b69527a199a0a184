--------------------------- MODULE MCStandardsPacks ---------------------------
(* Two packs of one kind with another in between, and what people do to files. *)
EXTENDS StandardsPacks, TLC

CONSTANTS agents, guide, base, other, v1, v2

A(p, m, s, t) == [path |-> p, mode |-> m, sections |-> s, texture |-> t]
Pack(k, v, as) == [key |-> k, version |-> v, assets |-> as]

First == Pack(base, v1, {A(agents, "managed", FALSE, "returns"), A(guide, "section-managed", TRUE, "escapes")})
Second == Pack(other, v2, {A(agents, "managed", TRUE, "malformed"), A(guide, "advisory", TRUE, "plain")})
Twice == Pack(other, v2, {A(agents, "managed", TRUE, "plain"), A(agents, "local", TRUE, "plain")})
MCProposals == {First, Second, Twice}

MCOverrides == {[mode |-> "none", deferred |-> TRUE], [mode |-> "section-managed", deferred |-> FALSE]}

MCContract == agents :> "advisory"

Kind(k) == [Absent EXCEPT !.kind = k]
MCContents == {Kind("odd"), [Text(First) EXCEPT !.around = None], Text(Second)}
=============================================================================
