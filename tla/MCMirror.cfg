SPECIFICATION Spec
CONSTANTS
  Issues = {1, 2}
  Pulls = {p1}
  IssueChoices <- MCIssues
  PullChoices <- MCPulls
  Columns = {"Todo", "Done", "Odd"}
  CanonicalOf <- MCCanonical
  Answers = {TRUE, FALSE}
  MaxChanges = 3
INVARIANT LinksAgree
INVARIANT ClearIsKnown
INVARIANT OutcomesShow
INVARIANT RefreshSettles
PROPERTY RuntimeRepairsSurvive
CHECK_DEADLOCK FALSE
