---------------------------- MODULE MCGitHubMirror ----------------------------
(* Values for TLC: issue 2 may depend on issue 1, by its text or by the native *)
(* field; and so may issue 1 on issue 2 by its text, which closes a cycle.      *)
EXTENDS GitHubMirror

Plain == [open |-> TRUE, text |-> {}, native |-> {}]
Closed == [Plain EXCEPT !.open = FALSE]

\* An issue names another, never itself.
MCIssues ==
  {Plain, Closed, [Plain EXCEPT !.native = {1}]} \cup {[Plain EXCEPT !.text = {d}] : d \in Issues}
MCPulls == [state : {"open"}, refs : {{}, {1, 2}}] \cup [state : {"merged"}, refs : {{2}}]
MCCanonical ==
  [c \in Columns |-> CASE c = "Todo" -> "Ready" [] c = "Done" -> "Done"
                       [] c = "Working" -> "In Progress" [] OTHER -> "unmapped"]
=============================================================================
