--------------------------- MODULE MCProductSeeding ---------------------------
(* Contracts that ask for more than they may, declare other components or are  *)
(* no contracts, and projects and repositories that lack something.            *)
EXTENDS ProductSeeding

CONSTANTS api, lib

Calls == <<Repo, api, "calls">>
Uses == <<lib, api, "depends_on">>

Declares(nodes, edges) == [state |-> "declared", nodes |-> nodes, edges |-> edges]
NotDeclared(state) == [state |-> state, nodes |-> {}, edges |-> {}]

MCBaseline ==
  [valid |-> TRUE, fits |-> TRUE, project |-> 1, layer |-> Empty, managed |-> {"agents"},
   files |-> {"agents", "harness", "templates"}, components |-> Declares({Root, Repo}, {Owns})]

Greedy ==
  [MCBaseline EXCEPT
     !.layer = [merge |-> FALSE, posture |-> "high-trust", writes |-> "high-trust", comments |-> TRUE,
                lanes |-> 8],
     !.components = Declares({Repo, api}, {Calls})]
Dangling == [MCBaseline EXCEPT !.files = {"harness"}, !.components = Declares({lib}, {Uses})]
Plain == [MCBaseline EXCEPT !.components = NotDeclared("missing")]
NoContract ==
  [MCBaseline EXCEPT !.valid = FALSE, !.managed = {}, !.files = {}, !.components = NotDeclared("invalid")]
MCContents == {Greedy, Dangling, Plain, NoContract}

MCPlatform == {Empty, Broken}
MCOrg == {Empty, [posture |-> "operator-gated", comments |-> FALSE, lanes |-> 2]}
MCOverrides == {Empty, [writes |-> "none", secrets |-> TRUE]}
MCSecrets == {Empty}

Repository(protection, access) ==
  [adoption |-> "adopting", archived |-> FALSE, protection |-> protection, access |-> access]
MCSnapshots == {Repository("open", "write"), Repository("reviewed", "no issues")}
MCGaps == {{}, {"options", "views"}}
=============================================================================
