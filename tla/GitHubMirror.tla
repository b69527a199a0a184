------------------------------ MODULE GitHubMirror ------------------------------
(***************************************************************************)
(* The mirror of GitHub and the normalization of work items: webhook       *)
(* payloads, project boards, repairs and refreshes are written over the    *)
(* mirrored rows, and status, dependencies and handoff of a work item are  *)
(* derived from what is mirrored at that moment.                           *)
(*                                                                         *)
(* A payload once sent may be delivered at any time and any number of      *)
(* times: late, out of order, again, or replayed by an operator.  Every    *)
(* delivery, repair or refresh is one transaction.  Issues stand for their *)
(* numbers.  Labels, priorities and project fields that are not the        *)
(* status are left out.                                                    *)
(***************************************************************************)
EXTENDS Integers, FiniteSets, SequencesExt

CONSTANTS
  Issues,       \* issue numbers of the repository
  Pulls,        \* its pull requests
  IssueChoices, \* what an issue may be: open, depending on others by its text
                \* or by GitHub's own field (native)
  PullChoices,  \* what a pull request may be: its state, the issues it refers to
  Columns,      \* names of the project's status options
  CanonicalOf,  \* what _canonical_status makes of a column, or "unmapped"
  Answers,      \* whether GitHub answers a repair: a subset of BOOLEAN
  MaxChanges    \* bound of the model: changes on GitHub

PullStates == {"draft", "open", "closed", "merged"}

ASSUME MirrorAssumption ==
  /\ Issues \subseteq Nat /\ IsFiniteSet(Issues)
  /\ IssueChoices \subseteq [open : BOOLEAN, text : SUBSET Issues, native : SUBSET Issues]
  /\ PullChoices \subseteq [state : PullStates, refs : SUBSET Issues]
  /\ Answers \subseteq BOOLEAN
  /\ CanonicalOf \in [Columns ->
       {"Ready", "Triage", "Blocked", "In Review", "In Progress", "Done", "unmapped"}]
  /\ MaxChanges \in Nat

VARIABLES
  gIssue,   \* the issues as they are on GitHub
  gPull,    \* the pull requests
  gColumn,  \* the board: column of each issue, "none" without, "off" if absent
  sent,     \* payloads GitHub has sent
  changes,  \* changes so far
  mirror,   \* the mirrored rows
  cutShort  \* a delivery became a dead letter half-way

vars == <<gIssue, gPull, gColumn, sent, changes, mirror, cutShort>>


-----------------------------------------------------------------------------
(* Payloads *)

NoNative == [d \in Issues |-> "none"]
NoClosers == [p \in Pulls |-> "none"]
NoIssue == [open |-> TRUE, text |-> {}, native |-> NoNative, closers |-> NoClosers]
NoPull == [state |-> "open", refs |-> {}]
NoStatus == "absent"

\* A webhook's issue object: GraphQL's blockedBy and
\* closedByPullRequestsReferences are not in it.
IssueObject(v) ==
  [open |-> v.open, text |-> v.text, native |-> NoNative, closers |-> NoClosers]

\* The same issue read through GraphQL (_fetch_node, _fetch_issue_by_number).
IssueSnapshot(i) ==
  [open |-> gIssue[i].open, text |-> gIssue[i].text,
   native |-> [d \in Issues |->
                 IF d \notin gIssue[i].native THEN "none"
                 ELSE IF gIssue[d].open THEN "open" ELSE "closed"],
   closers |-> [p \in Pulls |-> IF i \in gPull[p].refs THEN gPull[p].state ELSE "none"]]

-----------------------------------------------------------------------------
(* What is read from the mirrored rows.  m is a mirror:                     *)
(*   issues, pulls which of them have a row                                 *)
(*   issue, pull   raw payload of the row                                   *)
(*   column        GitHubProjectItemMirror of the issue, "off" if absent    *)
(*   prs, items    WorkItem.linked_prs, PullRequestMirror.linked_work_items *)
(*   status, dependency, handoff, repair    the normalized columns          *)

HasColumn(m, i) == m.column[i] \notin {"off", "none"}

\* _linked_pull_request_details: the row, and what the issue's payload says
\* of the same pull request; a draft or a merge in either counts.
PullDetail(m, i, p) ==
  LET row == IF p \in m.prs[i] \cap m.pulls THEN m.pull[p].state ELSE "none"
      ref == m.issue[i].closers[p]
  IN  [known |-> row # "none" \/ ref # "none",
       merged |-> "merged" \in {row, ref},
       draft |-> "draft" \in {row, ref},
       open |-> (IF ref # "none" THEN ref ELSE row) \in {"open", "draft"}]

LinkedPulls(m, i) == {p \in Pulls : PullDetail(m, i, p).known}

Handoff(m, i) ==
  LET details == {PullDetail(m, i, p) : p \in LinkedPulls(m, i)}
  IN  IF details = {} THEN "none"
      ELSE IF \E d \in details : d.merged THEN "merged"
      ELSE IF \E d \in details : d.open /\ ~d.draft THEN "in_review"
      ELSE IF \E d \in details : d.open THEN "coding"
      ELSE "closed"

\* A mutant: an issue nobody has mirrored is no dependency.
MirroredOnly(m, i) ==
  (m.issue[i].text \cup {d \in Issues : m.issue[i].native[d] # "none"}) \cap m.issues

\* The issues an issue depends on, by its text or by GitHub's own field.
DependsOn(m, i) ==
  m.issue[i].text \cup {d \in Issues : m.issue[i].native[d] # "none"}

\* A dependency that is mirrored counts by its status only.
Resolved(m, i, d) ==
  IF d \in m.issues THEN m.status[d] = "Done" ELSE m.issue[i].native[d] = "closed"

Unknown(m, i) ==
  {d \in DependsOn(m, i) \ m.issues : m.issue[i].native[d] # "closed"}

\* _dependency_state
DependencyState(m, i) ==
  IF Unknown(m, i) # {} THEN "ambiguous"
  ELSE IF \A d \in DependsOn(m, i) : Resolved(m, i, d) THEN "clear"
  ELSE "blocked"

\* A mutant: a column counts for more than a closed issue.
CanonicalByColumn(m, i) ==
  IF HasColumn(m, i) /\ CanonicalOf[m.column[i]] # "unmapped"
    THEN CanonicalOf[m.column[i]]
  ELSE IF ~m.issue[i].open THEN "Done"
  ELSE "Triage"

\* _canonical_status
CanonicalStatus(m, i) ==
  LET dependency == DependencyState(m, i)
      handoff == Handoff(m, i)
      byColumn == IF HasColumn(m, i) THEN CanonicalOf[m.column[i]] ELSE "unmapped"
      base == IF dependency = "blocked" THEN "Blocked" ELSE byColumn
  IN  IF ~m.issue[i].open THEN "Done"
      ELSE IF base \in {"unmapped", "Ready", "Triage"}
        THEN IF handoff \in {"in_review", "merged"} THEN "In Review"
             ELSE IF handoff = "coding" THEN "In Progress"
             ELSE IF base = "Ready" THEN "Ready"
             ELSE "Triage"
      ELSE base

StatusReasons(m, i) ==
  IF m.issue[i].open /\ HasColumn(m, i) /\ CanonicalOf[m.column[i]] = "unmapped"
    THEN {"status.unmapped"} ELSE {}

DependencyReasons(m, i) ==
  IF Unknown(m, i) # {} THEN {"dependency.ambiguous"} ELSE {}

\* A mutant: the runtime's reasons are rebuilt from the mirror, too.
NormalizedAfresh(m, i, kept) ==
  [m EXCEPT !.status[i] = CanonicalStatus(m, i),
            !.dependency[i] = DependencyState(m, i),
            !.handoff[i] = Handoff(m, i),
            !.prs[i] = LinkedPulls(m, i),
            !.repair[i] = StatusReasons(m, i) \cup DependencyReasons(m, i)]

\* _build_state and _apply_state; kept is what is preserved of the reasons.
Normalized(m, i, kept) ==
  [m EXCEPT !.status[i] = CanonicalStatus(m, i),
            !.dependency[i] = DependencyState(m, i),
            !.handoff[i] = Handoff(m, i),
            !.prs[i] = LinkedPulls(m, i),
            !.repair[i] = StatusReasons(m, i) \cup DependencyReasons(m, i)
                            \cup (@ \cap kept)]

\* normalize_work_item with allow_repair=False
Normalize(m, i) == Normalized(m, i, {"runtime"})

\* The rows of a query, those of the issues is, come in any order.
NormalizeAll(m, is, order) ==
  FoldLeft(LAMBDA n, i : IF i \in is THEN Normalize(n, i) ELSE n, m, order)

-----------------------------------------------------------------------------
(* What is written to them *)

RawStatus(m, i) == IF m.issue[i].open THEN "Triage" ELSE "Done"

\* A mutant: the pull requests are not told of their issue.
IssueUpsertedOneSided(m, i, payload) ==
  LET linking == {p \in m.pulls : i \in m.pull[p].refs}
  IN  [m EXCEPT !.issues = @ \cup {i}, !.issue[i] = payload,
                !.prs[i] = linking \cup {p \in Pulls : payload.closers[p] # "none"},
                !.status[i] = IF payload.open /\ HasColumn(m, i) THEN m.column[i]
                              ELSE IF ~payload.open THEN "Closed"
                              ELSE IF @ = NoStatus THEN "Triage" ELSE @]

\* upsert_issue and _sync_issue_pull_request_links
IssueUpserted(m, i, payload) ==
  LET linking == {p \in m.pulls : i \in m.pull[p].refs}
  IN  [m EXCEPT !.issues = @ \cup {i}, !.issue[i] = payload,
                !.prs[i] = linking \cup {p \in Pulls : payload.closers[p] # "none"},
                !.items = [p \in Pulls |->
                  IF p \in linking THEN @[p] \cup {i} ELSE @[p] \ {i}],
                !.status[i] = IF payload.open /\ HasColumn(m, i) THEN m.column[i]
                              ELSE IF ~payload.open THEN "Closed"
                              ELSE IF @ = NoStatus THEN "Triage" ELSE @]

\* upsert_pull_request and _sync_pull_request_issue_links
PullUpserted(m, p, payload) ==
  [m EXCEPT !.pulls = @ \cup {p}, !.pull[p] = payload,
            !.items[p] = payload.refs \cap m.issues,
            !.prs = [i \in Issues |->
              IF i \in m.issues \cap payload.refs THEN @[i] \cup {p} ELSE @[i] \ {p}]]

\* upsert_project_snapshot: items, then _reconcile_project_work_items, which
\* writes the column's name over the status of closed issues as well.
BoardUpserted(m, columns) ==
  [m EXCEPT !.column = columns,
            !.status = [i \in Issues |->
              IF i \notin m.issues THEN @[i]
              ELSE IF columns[i] \notin {"off", "none"} THEN columns[i]
              ELSE IF columns[i] = "none" \/ m.column[i] # "off" THEN RawStatus(m, i)
              ELSE @[i]]]

Orders == SetToSeqs(Issues)
ByNumber(is) ==
  CHOOSE order \in SetToSeqs(is) : \A j, k \in DOMAIN order : j < k => order[j] < order[k]

RepairIssue(m, i) == Normalize(IssueUpserted(m, i, IssueSnapshot(i)), i)

RepairIssues(m, is) == FoldLeft(RepairIssue, m, ByNumber(is))

RepairProject(m, order) == NormalizeAll(BoardUpserted(m, gColumn), m.issues, order)

\* normalize_work_item with repairs: the reasons found are looked into on
\* GitHub, and the item is normalized again.  Without GitHub the first repair
\* raises, and the delivery is a dead letter with what it has written so far.
Repairing(r, i, order, reachable) ==
  LET m1 == Normalize(r.mirror, i)
      why == m1.repair[i] \ {"runtime"}
      m2 == IF "status.unmapped" \in why THEN RepairProject(m1, order) ELSE m1
      m3 == RepairIssue(m2, i)
      m4 == RepairIssues(m3, IF "dependency.ambiguous" \in why THEN Unknown(m1, i) ELSE {})
  IN  IF r.dead THEN r
      ELSE IF why = {} THEN [r EXCEPT !.mirror = m1]
      ELSE IF ~reachable THEN [mirror |-> m1, dead |-> TRUE]
      ELSE [r EXCEPT !.mirror = Normalize(m4, i)]

RepairingAll(m, is, order, reachable) ==
  FoldLeft(LAMBDA r, i : IF i \in is THEN Repairing(r, i, order, reachable) ELSE r,
           [mirror |-> m, dead |-> FALSE], order)

-----------------------------------------------------------------------------
(* GitHub *)

Changed(payload) ==
  /\ changes < MaxChanges
  /\ changes' = changes + 1
  /\ sent' = sent \cup {payload}
  /\ UNCHANGED <<mirror, cutShort>>

\* Opened, closed, reopened, edited, or given a native dependency.
ChangeIssue(i, v) ==
  /\ v # gIssue[i] /\ i \notin v.text \cup v.native
  /\ gIssue' = [gIssue EXCEPT ![i] = v]
  /\ Changed([kind |-> "issue", of |-> i, value |-> v])
  /\ UNCHANGED <<gPull, gColumn>>

ChangePull(p, v) ==
  /\ v # gPull[p]
  /\ gPull' = [gPull EXCEPT ![p] = v]
  /\ Changed([kind |-> "pull", of |-> p, value |-> v])
  /\ UNCHANGED <<gIssue, gColumn>>

MoveCard(i, c) ==
  /\ c # gColumn[i]
  /\ gColumn' = [gColumn EXCEPT ![i] = c]
  /\ Changed([kind |-> "board", of |-> gColumn'])
  /\ UNCHANGED <<gIssue, gPull>>

-----------------------------------------------------------------------------
(* The control plane *)

Processed(r) ==
  /\ mirror' = r.mirror
  /\ cutShort' = (cutShort \/ r.dead)
  /\ UNCHANGED <<gIssue, gPull, gColumn, sent, changes>>

Wrote(m) == Processed([mirror |-> m, dead |-> FALSE])

Deliverable(kind) == {d \in sent : d.kind = kind}

\* process_delivery of "issues"
IssueDelivered(d, order, reachable) ==
  LET m == IssueUpserted(mirror, d.of, IssueObject(d.value))
  IN  Processed(RepairingAll(m, {d.of}, order, reachable))

\* A mutant: work items are normalized before the pull request is written.
PullDeliveredLate(d, order, reachable) ==
  LET m == RepairingAll(mirror, mirror.items[d.of], order, reachable)
  IN  Wrote(PullUpserted(m.mirror, d.of, d.value))

\* process_delivery of "pull_request"
PullDelivered(d, order, reachable) ==
  LET m == PullUpserted(mirror, d.of, d.value)
  IN  Processed(RepairingAll(m, m.items[d.of], order, reachable))

\* process_delivery of "projects_v2_item"
BoardDelivered(d, order, reachable) ==
  LET m == BoardUpserted(mirror, d.of)
  IN  Processed(RepairingAll(m, m.issues, order, reachable))

\* The operator's repair routes.
RepairIssueByRoute(i) == i \in mirror.issues /\ Wrote(RepairIssue(mirror, i))

RepairPullByRoute(p, order) ==
  /\ p \in mirror.pulls
  /\ LET m == PullUpserted(mirror, p, gPull[p])
     IN  Wrote(NormalizeAll(m, m.items[p], order))

RepairProjectByRoute(order) == Wrote(RepairProject(mirror, order))

\* refresh_product_mirror: the board, then every issue of the repository.
Refreshed(m, order) == RepairIssues(RepairProject(m, order), Issues)

RefreshMirror(order) == Wrote(Refreshed(mirror, order))

\* flag_runtime_repair: a runner's time-out.
FlagRuntimeRepair(i) ==
  /\ i \in mirror.issues
  /\ Wrote([mirror EXCEPT !.repair[i] = @ \cup {"runtime"}])

\* clear_runtime_repairs_for_product
RepairsCleared(m, order) ==
  FoldLeft(LAMBDA n, i : IF "runtime" \in n.repair[i] THEN Normalized(n, i, {}) ELSE n, m, order)

ClearRuntimeRepairs(order) == Wrote(RepairsCleared(mirror, order))

Init ==
  /\ gIssue = [i \in Issues |-> [open |-> TRUE, text |-> {}, native |-> {}]]
  /\ gPull = [p \in Pulls |-> [state |-> "open", refs |-> {}]]
  /\ gColumn = [i \in Issues |-> "off"]
  /\ sent = {} /\ changes = 0 /\ cutShort = FALSE
  /\ mirror = [issues |-> {}, pulls |-> {},
               issue |-> [i \in Issues |-> NoIssue], pull |-> [p \in Pulls |-> NoPull],
               column |-> [i \in Issues |-> "off"],
               prs |-> [i \in Issues |-> {}], items |-> [p \in Pulls |-> {}],
               status |-> [i \in Issues |-> NoStatus],
               dependency |-> [i \in Issues |-> "clear"],
               handoff |-> [i \in Issues |-> "none"],
               repair |-> [i \in Issues |-> {}]]

GitHubNext ==
  \/ \E i \in Issues : \E v \in IssueChoices : ChangeIssue(i, v)
  \/ \E p \in Pulls : \E v \in PullChoices : ChangePull(p, v)
  \/ \E i \in Issues : \E c \in Columns \cup {"none", "off"} : MoveCard(i, c)

ControlNext ==
  \/ \E order \in Orders, reachable \in Answers :
       \/ \E d \in Deliverable("issue") : IssueDelivered(d, order, reachable)
       \/ \E d \in Deliverable("pull") : PullDelivered(d, order, reachable)
       \/ \E d \in Deliverable("board") : BoardDelivered(d, order, reachable)
  \/ \E i \in Issues : RepairIssueByRoute(i) \/ FlagRuntimeRepair(i)
  \/ \E order \in Orders :
       \/ \E p \in Pulls : RepairPullByRoute(p, order)
       \/ RepairProjectByRoute(order) \/ RefreshMirror(order) \/ ClearRuntimeRepairs(order)

Next == GitHubNext \/ ControlNext

Spec == Init /\ [][Next]_vars

-----------------------------------------------------------------------------
(* Properties *)

\* A pull request and a work item know of each other, whichever of them was
\* mirrored first and whatever was repaired since
\* (_sync_issue_pull_request_links, _sync_pull_request_issue_links).
LinksAgree ==
  /\ \A p \in mirror.pulls, i \in mirror.issues :
       /\ i \in mirror.pull[p].refs <=> i \in mirror.items[p]
       /\ i \in mirror.items[p] => p \in mirror.prs[i]
  /\ \A p \in Pulls : mirror.items[p] \subseteq mirror.issues

\* A work item is clear only while all that its row depends on, by the text or by
\* GitHub's own field, is mirrored or is known to be closed: what is not known is
\* never taken for done (_dependency_state).  The row of an issue whose webhook
\* came last has the text only: blockedBy is not in that payload.
ClearIsKnown ==
  \A i \in mirror.issues :
    mirror.dependency[i] = "clear" =>
      \A d \in Issues \ mirror.issues :
        /\ mirror.issue[i].native[d] # "open"
        /\ d \in mirror.issue[i].text => mirror.issue[i].native[d] = "closed"

\* A closed issue is done, although boards write their columns over it.
ClosedIsDone == \A i \in mirror.issues : ~mirror.issue[i].open => mirror.status[i] = "Done"

\* A work item that a mirrored pull request refers to is not without handoff,
\* whichever of the two came first, and a merge is seen.
PullShows ==
  \A p \in mirror.pulls : \A i \in mirror.issues \cap mirror.pull[p].refs :
    /\ mirror.handoff[i] # "none"
    /\ mirror.pull[p].state = "merged" => mirror.handoff[i] = "merged"

\* While GitHub answers every repair, what is over or handed off shows after
\* each transaction (_reconcile_project_work_items, normalize_for_pull_request).
OutcomesShow == ~cutShort => ClosedIsDone /\ PullShows

\* What a runner's failure has flagged stays flagged through deliveries,
\* repairs and refreshes, until an operator clears the whole product
\* (preserve_runtime_repairs, clear_runtime_repairs_for_product).
RuntimeRepairsSurvive ==
  [][\A i \in Issues :
       "runtime" \in mirror.repair[i] /\ "runtime" \notin mirror'.repair[i] =>
         \A j \in Issues : "runtime" \notin mirror'.repair[j]]_vars

\* No open issue stands in a column that means done.
NoOpenIsDone ==
  \A i \in Issues : gIssue[i].open /\ gColumn[i] \in Columns => CanonicalOf[gColumn[i]] # "Done"

\* Every issue is mirrored as it is, and a closed one is done.
Mirrored(m) ==
  \A i \in Issues : m.issue[i] = IssueSnapshot(i) /\ (~gIssue[i].open => m.status[i] = "Done")

\* A work item is clear just when all it depends on is closed on GitHub, and
\* refreshing once more changes nothing.
Settled(m) ==
  /\ \A i \in Issues :
       m.dependency[i] = "clear" <=>
         \A d \in gIssue[i].text \cup gIssue[i].native : ~gIssue[d].open
  /\ \A order \in Orders : Refreshed(m, order) = m

\* Once GitHub is quiet, refreshing settles: from whatever late, lost or
\* repeated deliveries have made of the rows, and in whatever order the rows
\* come, one refresh mirrors the issues, and two settle them, however long the
\* chains and cycles of their dependencies are.  (With open issues in a column
\* that means done they need not: a refresh first writes column names over
\* statuses, and judges dependents in between.)
RefreshSettles ==
  \A a \in Orders :
    LET once == Refreshed(mirror, a)
    IN  Mirrored(once) /\ (NoOpenIsDone => \A b \in Orders : Settled(Refreshed(once, b)))
=============================================================================
