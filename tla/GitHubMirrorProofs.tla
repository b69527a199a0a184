--------------------------- MODULE GitHubMirrorProofs ---------------------------
(***************************************************************************)
(* What the mirror of GitHub keeps, for any issues, pull requests and      *)
(* columns.  A delivery, a repair or a refresh is a fold over the rows of  *)
(* a query.  The first section shows that such a fold is what its steps    *)
(* make of it, one after the other: by the least natural number with a     *)
(* property, since the natural numbers are well-founded.                   *)
(***************************************************************************)
EXTENDS GitHubMirror, FiniteSetTheorems, TLAPS

-----------------------------------------------------------------------------
(* Induction and folds *)

\* Every set of natural numbers with an element has a least one.
LEMMA LeastNumber ==
  ASSUME NEW T \in SUBSET Nat, T # {}
  PROVE  \E n \in T : \A m \in T : n <= m
<1>1. IsWellFoundedOn(OpToRel(<, Nat), Nat)
  BY NatLessThanWellFounded
<1>2. PICK n \in T : \A m \in T : <<m, n>> \notin OpToRel(<, Nat)
  BY <1>1, WFMin
<1>3. n \in Nat /\ \A m \in T : m \in Nat /\ ~(m < n)
  BY <1>2 DEF OpToRel
<1>4. \A m \in T : n <= m
  BY <1>3
<1>. QED  BY <1>2, <1>4

\* Induction up to a bound.
LEMMA UpTo ==
  ASSUME NEW N \in Nat, NEW S, 0 \in S, \A n \in 0 .. N - 1 : n \in S => n + 1 \in S
  PROVE  \A n \in 0 .. N : n \in S
<1> DEFINE T == {n \in 0 .. N : n \notin S}
<1>1. SUFFICES ASSUME T # {} PROVE FALSE
  OBVIOUS
<1>2. T \in SUBSET Nat
  OBVIOUS
<1> HIDE DEF T
<1>3. PICK n \in T : \A m \in T : n <= m
  BY <1>1, <1>2, LeastNumber
<1>4. n \in 0 .. N /\ n \notin S
  BY <1>3 DEF T
<1>5. n - 1 \in 0 .. N - 1 /\ n - 1 \notin T
  BY <1>2, <1>3, <1>4
<1>6. n - 1 \in S
  BY <1>5 DEF T
<1>. QED  BY <1>4, <1>5, <1>6

\* The indices up to n, and the last of them.
LEMMA LastIndex ==
  ASSUME NEW n \in Nat \ {0}
  PROVE  /\ Max(1 .. n) = n
         /\ (1 .. n) \ {n} = 1 .. (n - 1)
         /\ \A s \in SUBSET (1 .. n) : n \in s => Max(s) = n
<1>1. ASSUME NEW s \in SUBSET (1 .. n), n \in s
      PROVE  Max(s) = n
  <2>1. \A x \in s : (\A y \in s : x >= y) <=> x = n
    BY <1>1
  <2>. QED  BY <1>1, <2>1 DEF Max
<1>. QED  BY <1>1

\* A set of indices has a highest.
LEMMA HighestIndex ==
  ASSUME NEW n \in Nat, NEW s \in SUBSET (1 .. n), s # {}
  PROVE  Max(s) \in s
<1> DEFINE Rest == {k \in Nat : n - k \in s}
<1>1. Rest \in SUBSET Nat /\ Rest # {} /\ \A y \in s : n - y \in Rest
  <2>1. \A y \in s : n - y \in Nat /\ n - (n - y) = y
    OBVIOUS
  <2>. QED  BY <2>1
<1> HIDE DEF Rest
<1>2. PICK k \in Rest : \A m \in Rest : k <= m
  BY <1>1, LeastNumber
<1>3. n - k \in s /\ k \in Nat
  BY <1>2 DEF Rest
<1>4. \A y \in s : y \in Nat /\ k <= n - y
  BY <1>1, <1>2
<1>5. \A y \in s : n - k >= y
  BY <1>3, <1>4
<1>. QED  BY <1>3, <1>5 DEF Max

\* What a fold over a sequence of N elements recurs over are the sets of its
\* indices.  There is a function that does so, if the steps stay among V.
Recurs(iter, step, v0, N) ==
  iter = [s \in SUBSET (1 .. N) |-> IF s = {} THEN v0 ELSE step[Max(s)][iter[s \ {Max(s)}]]]

\* By induction on N: what recurs over n elements extends to one more.
LEMMA RecursionExists ==
  ASSUME NEW N \in Nat, NEW V, NEW v0 \in V, NEW step \in [1 .. N -> [V -> V]]
  PROVE  \E iter \in [SUBSET (1 .. N) -> V] : Recurs(iter, step, v0, N)
<1> DEFINE S == {n \in 0 .. N : \E iter \in [SUBSET (1 .. n) -> V] : Recurs(iter, step, v0, n)}
<1>1. 0 \in S
  <2> DEFINE iter == [s \in SUBSET (1 .. 0) |-> v0]
  <2>1. iter \in [SUBSET (1 .. 0) -> V] /\ \A s \in SUBSET (1 .. 0) : s = {}
    OBVIOUS
  <2>2. Recurs(iter, step, v0, 0)
    BY <2>1 DEF Recurs
  <2>. QED  BY <2>1, <2>2
<1>2. ASSUME NEW n \in 0 .. N - 1, n \in S
      PROVE  n + 1 \in S
  <2>1. PICK iter \in [SUBSET (1 .. n) -> V] : Recurs(iter, step, v0, n)
    BY <1>2
  <2> DEFINE next == [s \in SUBSET (1 .. n + 1) |->
                        IF n + 1 \in s THEN step[n + 1][iter[s \ {n + 1}]] ELSE iter[s]]
  <2>2. \A s \in SUBSET (1 .. n + 1) :
          /\ n + 1 \in s => s \ {n + 1} \in SUBSET (1 .. n) /\ Max(s) = n + 1
          /\ n + 1 \notin s => s \in SUBSET (1 .. n)
          /\ n + 1 \notin s \ {n + 1}
    BY LastIndex
  <2>3. \A s \in SUBSET (1 .. n) : s # {} => Max(s) \in s
    <3>1. n \in Nat
      OBVIOUS
    <3>. QED  BY <3>1, HighestIndex
  <2>4. next \in [SUBSET (1 .. n + 1) -> V]
    BY <2>2
  <2>5. ASSUME NEW s \in SUBSET (1 .. n + 1)
        PROVE  next[s] = IF s = {} THEN v0 ELSE step[Max(s)][next[s \ {Max(s)}]]
    <3>1. CASE n + 1 \in s
      <4>1. next[s \ {n + 1}] = iter[s \ {n + 1}]
        BY <2>2, <3>1
      <4>. QED  BY <2>2, <3>1, <4>1
    <3>2. CASE n + 1 \notin s
      <4>1. s \in SUBSET (1 .. n) /\ next[s] = iter[s]
        BY <2>2, <3>2
      <4>2. iter[s] = IF s = {} THEN v0 ELSE step[Max(s)][iter[s \ {Max(s)}]]
        BY <2>1, <4>1 DEF Recurs
      <4>3. s # {} => next[s \ {Max(s)}] = iter[s \ {Max(s)}]
        BY <3>2, <4>1
      <4>. QED  BY <4>1, <4>2, <4>3
    <3>. QED  BY <3>1, <3>2
  <2> HIDE DEF next
  <2>6. Recurs(next, step, v0, n + 1)
    BY <2>4, <2>5 DEF Recurs
  <2>. QED  BY <2>4, <2>6
<1> HIDE DEF S
<1>3. \A n \in 0 .. N - 1 : n \in S => n + 1 \in S
  BY <1>2
<1>4. \A n \in 0 .. N : n \in S
  BY <1>1, <1>3, UpTo
<1>5. N \in S
  BY <1>4
<1>. QED  BY <1>5 DEF S

\* As long as the values are among V, iter does the steps one after the other.
Unfolds(iter, step, v0, N, V) ==
  /\ iter[{}] = v0
  /\ \A s \in (SUBSET (1 .. N)) \ {{}} :
       iter[s \ {Max(s)}] \in V => iter[s] = step[Max(s)][iter[s \ {Max(s)}]]

\* The values in between.
Values(g, step, v0, N, V) ==
  /\ g \in [0 .. N -> V] /\ g[0] = v0
  /\ \A n \in 1 .. N : g[n] = step[n][g[n - 1]]

\* What unfolds goes through the values of its steps, and ends at the last of them.
LEMMA FoldReaches ==
  ASSUME NEW N \in Nat, NEW V, NEW v0 \in V, NEW step \in [1 .. N -> [V -> V]], NEW iter,
         Unfolds(iter, step, v0, N, V)
  PROVE  \E g : Values(g, step, v0, N, V) /\ g[N] = iter[1 .. N]
<1> DEFINE S == {n \in 0 .. N : iter[1 .. n] \in V}
<1>1. ASSUME NEW n \in 1 .. N, iter[1 .. n - 1] \in V
      PROVE  iter[1 .. n] = step[n][iter[1 .. n - 1]]
  <2>1. n \in Nat \ {0} /\ n \in 1 .. n
    OBVIOUS
  <2>2. 1 .. n \in (SUBSET (1 .. N)) \ {{}}
    BY <2>1
  <2>3. Max(1 .. n) = n /\ (1 .. n) \ {n} = 1 .. n - 1
    BY <2>1, LastIndex
  <2>. QED  BY <1>1, <2>2, <2>3 DEF Unfolds
<1>2. 0 \in S
  <2>1. 1 .. 0 = {}
    OBVIOUS
  <2>. QED  BY <2>1 DEF Unfolds
<1>3. \A n \in 0 .. N - 1 : n \in S => n + 1 \in S
  <2>1. SUFFICES ASSUME NEW n \in 0 .. N - 1, iter[1 .. n] \in V
                 PROVE  iter[1 .. n + 1] \in V
    OBVIOUS
  <2>2. n + 1 \in 1 .. N /\ (n + 1) - 1 = n
    OBVIOUS
  <2>3. iter[1 .. n + 1] = step[n + 1][iter[1 .. n]]
    BY <1>1, <2>1, <2>2
  <2>. QED  BY <2>1, <2>2, <2>3
<1> HIDE DEF S
<1>4. \A n \in 0 .. N : n \in S
  BY <1>2, <1>3, UpTo
<1>5. \A n \in 0 .. N : iter[1 .. n] \in V
  BY <1>4 DEF S
<1> DEFINE g == [n \in 0 .. N |-> iter[1 .. n]]
<1>6. g \in [0 .. N -> V] /\ g[N] = iter[1 .. N]
  BY <1>5
<1>7. g[0] = v0
  <2>1. 1 .. 0 = {}
    OBVIOUS
  <2>. QED  BY <2>1 DEF Unfolds
<1>8. ASSUME NEW n \in 1 .. N
      PROVE  g[n] = step[n][g[n - 1]]
  <2>1. n - 1 \in 0 .. N /\ n \in 0 .. N
    OBVIOUS
  <2>. QED  BY <1>5, <1>1, <2>1
<1> HIDE DEF g
<1>. QED  BY <1>6, <1>7, <1>8 DEF Values

\* What each step does and later steps keep is done in the end.
LEMMA EachIsDone ==
  ASSUME NEW N \in Nat, NEW g, NEW D,
         \A n \in 1 .. N : <<g[n], n>> \in D,
         \A n \in 1 .. N : \A j \in 1 .. n - 1 : <<g[n - 1], j>> \in D => <<g[n], j>> \in D
  PROVE  \A j \in 1 .. N : <<g[N], j>> \in D
<1> DEFINE S == {n \in 0 .. N : \A j \in 1 .. n : <<g[n], j>> \in D}
<1>1. 0 \in S
  OBVIOUS
<1>2. \A n \in 0 .. N - 1 : n \in S => n + 1 \in S
  <2>1. SUFFICES ASSUME NEW n \in 0 .. N - 1, \A j \in 1 .. n : <<g[n], j>> \in D,
                        NEW j \in 1 .. n + 1
                 PROVE  <<g[n + 1], j>> \in D
    OBVIOUS
  <2>2. n + 1 \in 1 .. N /\ (n + 1) - 1 = n
    OBVIOUS
  <2>3. CASE j = n + 1
    BY <2>2, <2>3
  <2>4. CASE j # n + 1
    <3>1. j \in 1 .. n /\ j \in 1 .. (n + 1) - 1
      BY <2>4
    <3>. QED  BY <2>1, <2>2, <3>1
  <2>. QED  BY <2>3, <2>4
<1> HIDE DEF S
<1>3. \A n \in 0 .. N : n \in S
  BY <1>1, <1>2, UpTo
<1>4. N \in S
  BY <1>3
<1>. QED  BY <1>4 DEF S

\* The mirrors that normalizing in an order goes through.
Normalizes(g, V, m, is, order) ==
  /\ g \in [0 .. Len(order) -> V] /\ g[0] = m /\ g[Len(order)] = NormalizeAll(m, is, order)
  /\ \A n \in 1 .. Len(order) :
       g[n] = IF order[n] \in is THEN Normalize(g[n - 1], order[n]) ELSE g[n - 1]

\* A row of a fold over a query goes through the values in between; V are those
\* that the steps stay among.
LEMMA NormalizeAllFolds ==
  ASSUME NEW V, NEW m \in V, NEW is, NEW order \in Seq(Issues),
         \A v \in V : \A i \in Issues : i \in is => Normalize(v, i) \in V
  PROVE  \E g : Normalizes(g, V, m, is, order)
<1> DEFINE N == Len(order)
           Op(v, i) == IF i \in is THEN Normalize(v, i) ELSE v
           step == [n \in 1 .. N |-> [v \in V |-> Op(v, order[n])]]
           Does(iter) == iter = [s \in SUBSET (1 .. N) |->
                                   IF s = {} THEN m ELSE Op(iter[s \ {Max(s)}], order[Max(s)])]
           iter == CHOOSE iter : Does(iter)
<1>1. N \in Nat /\ DOMAIN order = 1 .. N /\ \A n \in 1 .. N : order[n] \in Issues
  OBVIOUS
<1>2. NormalizeAll(m, is, order) = iter[1 .. N]
  BY <1>1 DEF NormalizeAll, FoldLeft, MapThenFoldSet
<1>3. \A v \in V : \A n \in 1 .. N : Op(v, order[n]) \in V
  BY <1>1
<1> HIDE DEF Op
<1>4. step \in [1 .. N -> [V -> V]]
  BY <1>3
<1>5. \A n \in 1 .. N : \A v \in V : step[n][v] = Op(v, order[n])
  OBVIOUS
<1> HIDE DEF step, N
<1>6. \A s \in (SUBSET (1 .. N)) \ {{}} : Max(s) \in 1 .. N /\ s \ {Max(s)} \in SUBSET (1 .. N)
  BY <1>1, HighestIndex
<1>7. \E f : Does(f)
  <2>1. PICK f \in [SUBSET (1 .. N) -> V] : Recurs(f, step, m, N)
    BY <1>1, <1>4, RecursionExists
  <2>2. \A s \in SUBSET (1 .. N) :
          f[s] = IF s = {} THEN m ELSE Op(f[s \ {Max(s)}], order[Max(s)])
    BY <1>5, <1>6, <2>1 DEF Recurs
  <2>3. Does(f)
    BY <2>1, <2>2
  <2>. QED  BY <2>3
<1>8. Does(iter)
  BY <1>7
<1> HIDE DEF iter
<1>9. Unfolds(iter, step, m, N, V)
  BY <1>5, <1>6, <1>8 DEF Unfolds
<1> HIDE DEF Does
<1>10. PICK g : Values(g, step, m, N, V) /\ g[N] = iter[1 .. N]
  BY <1>1, <1>4, <1>9, FoldReaches
<1>11. \A n \in 1 .. N : n - 1 \in 0 .. N /\ g[n] = Op(g[n - 1], order[n])
  BY <1>1, <1>5, <1>10 DEF Values
<1>. QED  BY <1>2, <1>10, <1>11 DEF Normalizes, N, Op, Values

-----------------------------------------------------------------------------
(* The rows, and what holds of them *)

\* What a row may hold: the payloads of GitHub, and what normalizing computes.
NativeStates == {"none", "open", "closed"}
Payloads == [open : BOOLEAN, text : SUBSET Issues, native : [Issues -> NativeStates],
             closers : [Pulls -> PullStates \cup {"none"}]]
PullPayloads == [state : PullStates, refs : SUBSET Issues]
Boards == [Issues -> Columns \cup {"none", "off"}]
Reasons == {"runtime", "status.unmapped", "dependency.ambiguous"}
Statuses == Columns \cup
  {"absent", "Triage", "Closed", "Ready", "Blocked", "In Review", "In Progress", "Done"}

\* The mirrors that may be.
Mirror ==
  [issues : SUBSET Issues, pulls : SUBSET Pulls,
   issue : [Issues -> Payloads], pull : [Pulls -> PullPayloads], column : Boards,
   prs : [Issues -> SUBSET Pulls], items : [Pulls -> SUBSET Issues],
   status : [Issues -> Statuses],
   dependency : [Issues -> {"clear", "blocked", "ambiguous"}],
   handoff : [Issues -> {"none", "merged", "in_review", "coding", "closed"}],
   repair : [Issues -> SUBSET Reasons]]

\* GitHub's side; no issue depends on itself.
GitHubTypes ==
  /\ gIssue \in [Issues -> [open : BOOLEAN, text : SUBSET Issues, native : SUBSET Issues]]
  /\ \A i \in Issues : i \notin gIssue[i].text \cup gIssue[i].native
  /\ gPull \in [Pulls -> PullPayloads]
  /\ gColumn \in Boards

\* What has been sent was once true of GitHub.
SentTypes ==
  /\ \A d \in Deliverable("issue") : d.of \in Issues /\ d.value \in IssueChoices
  /\ \A d \in Deliverable("pull") : d.of \in Pulls /\ d.value \in PullChoices
  /\ \A d \in Deliverable("board") : d.of \in Boards

\* The links of a mirror m agree: LinksAgree.
Linked(m) ==
  /\ \A p \in m.pulls, i \in m.issues :
       /\ i \in m.pull[p].refs <=> i \in m.items[p]
       /\ i \in m.items[p] => p \in m.prs[i]
  /\ \A p \in Pulls : m.items[p] \subseteq m.issues

\* A dependency is clear only when all that the row depends on is mirrored, or is
\* closed: ClearIsKnown.
Known(m, i) ==
  m.dependency[i] = "clear" =>
    \A d \in Issues \ m.issues :
      /\ m.issue[i].native[d] # "open"
      /\ d \in m.issue[i].text => m.issue[i].native[d] = "closed"

\* An issue that is closed is done, and what a pull request hands off shows:
\* OutcomesShow.
Fit(m, i) ==
  /\ ~m.issue[i].open => m.status[i] = "Done"
  /\ \A p \in m.pulls : i \in m.pull[p].refs =>
       /\ m.handoff[i] # "none"
       /\ m.pull[p].state = "merged" => m.handoff[i] = "merged"

\* The mirrors whose links agree, where the issues of flags are flagged, those of
\* known are known, and those of fit show what is over or handed off.  A step of
\* a delivery takes an issue out of known and fit when it writes its row, and
\* puts it back when it normalizes it.
Sound(flags, known, fit) ==
  {m \in Mirror :
     /\ Linked(m)
     /\ \A i \in flags : "runtime" \in m.repair[i]
     /\ \A i \in known \cap m.issues : Known(m, i)
     /\ \A i \in fit \cap m.issues : Fit(m, i)}

\* The inductive invariant.
IInv ==
  /\ GitHubTypes /\ SentTypes /\ cutShort \in BOOLEAN
  /\ mirror \in Sound({}, Issues, IF cutShort THEN {} ELSE Issues)

-----------------------------------------------------------------------------
(* One row at a time *)

\* What is read from the rows is of its kind.
LEMMA ReadTypes ==
  ASSUME NEW m \in Mirror, NEW i \in Issues
  PROVE  /\ CanonicalStatus(m, i) \in Statuses
         /\ DependencyState(m, i) \in {"clear", "blocked", "ambiguous"}
         /\ Handoff(m, i) \in {"none", "merged", "in_review", "coding", "closed"}
         /\ LinkedPulls(m, i) \in SUBSET Pulls
         /\ StatusReasons(m, i) \cup DependencyReasons(m, i) \in SUBSET (Reasons \ {"runtime"})
         /\ HasColumn(m, i) => m.column[i] \in Columns
<1>1. HasColumn(m, i) => m.column[i] \in Columns
  BY DEF HasColumn, Mirror, Boards
<1>2. HasColumn(m, i) => CanonicalOf[m.column[i]] \in
        {"Ready", "Triage", "Blocked", "In Review", "In Progress", "Done", "unmapped"}
  BY <1>1, MirrorAssumption
<1>3. CanonicalStatus(m, i) \in Statuses
  BY <1>2 DEF CanonicalStatus, Statuses
<1>. QED
  BY <1>1, <1>3 DEF DependencyState, Handoff, LinkedPulls, StatusReasons, DependencyReasons, Reasons

\* Normalizing a work item writes its normalized columns and nothing else.
Writes(n, m, i, kept) ==
  /\ n \in Mirror
  /\ n.issues = m.issues /\ n.pulls = m.pulls /\ n.issue = m.issue
  /\ n.pull = m.pull /\ n.column = m.column /\ n.items = m.items
  /\ n.status = [m.status EXCEPT ![i] = CanonicalStatus(m, i)]
  /\ n.dependency = [m.dependency EXCEPT ![i] = DependencyState(m, i)]
  /\ n.handoff = [m.handoff EXCEPT ![i] = Handoff(m, i)]
  /\ n.prs = [m.prs EXCEPT ![i] = LinkedPulls(m, i)]
  /\ n.repair = [m.repair EXCEPT ![i] = StatusReasons(m, i)
                   \cup DependencyReasons(m, i) \cup (@ \cap kept)]

\* Normalizing writes the five fields of one issue, computed from the mirror before it.
LEMMA NormalizedWrites ==
  ASSUME NEW m \in Mirror, NEW i \in Issues, NEW kept
  PROVE  Writes(Normalized(m, i, kept), m, i, kept)
<1> DEFINE n == Normalized(m, i, kept)
           status == [m.status EXCEPT ![i] = CanonicalStatus(m, i)]
           dependency == [m.dependency EXCEPT ![i] = DependencyState(m, i)]
           handoff == [m.handoff EXCEPT ![i] = Handoff(m, i)]
           prs == [m.prs EXCEPT ![i] = LinkedPulls(m, i)]
           repair == [m.repair EXCEPT ![i] = StatusReasons(m, i)
                        \cup DependencyReasons(m, i) \cup (@ \cap kept)]
<1>1. /\ status \in [Issues -> Statuses]
      /\ dependency \in [Issues -> {"clear", "blocked", "ambiguous"}]
      /\ handoff \in [Issues -> {"none", "merged", "in_review", "coding", "closed"}]
      /\ prs \in [Issues -> SUBSET Pulls]
      /\ repair \in [Issues -> SUBSET Reasons]
  BY ReadTypes DEF Mirror
<1>2. n = [m EXCEPT !.status = status, !.dependency = dependency, !.handoff = handoff,
                    !.prs = prs, !.repair = repair]
  BY DEF Normalized, Mirror
<1> HIDE DEF n, status, dependency, handoff, prs, repair
<1>3. /\ n \in Mirror
      /\ n.issues = m.issues /\ n.pulls = m.pulls /\ n.issue = m.issue
      /\ n.pull = m.pull /\ n.column = m.column /\ n.items = m.items
      /\ n.status = status /\ n.dependency = dependency /\ n.handoff = handoff
      /\ n.prs = prs /\ n.repair = repair
  BY <1>1, <1>2 DEF Mirror
<1>. QED  BY <1>3 DEF Writes, n, status, dependency, handoff, prs, repair

\* An issue's row, and the pull requests' lists of work items.
LEMMA IssueUpsertedWrites ==
  ASSUME NEW m \in Mirror, NEW i \in Issues, NEW payload \in Payloads
  PROVE  LET n == IssueUpserted(m, i, payload)
             linking == {p \in m.pulls : i \in m.pull[p].refs}
         IN  /\ n \in Mirror
             /\ n.issues = m.issues \cup {i} /\ n.pulls = m.pulls
             /\ n.issue = [m.issue EXCEPT ![i] = payload]
             /\ n.pull = m.pull /\ n.column = m.column
             /\ n.items = [p \in Pulls |-> IF p \in linking THEN m.items[p] \cup {i}
                                           ELSE m.items[p] \ {i}]
             /\ \A j \in Issues \ {i} : n.status[j] = m.status[j] /\ n.prs[j] = m.prs[j]
             /\ n.prs[i] = linking \cup {p \in Pulls : payload.closers[p] # "none"}
             /\ n.dependency = m.dependency /\ n.handoff = m.handoff /\ n.repair = m.repair
<1> DEFINE n == IssueUpserted(m, i, payload)
           linking == {p \in m.pulls : i \in m.pull[p].refs}
           issue == [m.issue EXCEPT ![i] = payload]
           prs == [m.prs EXCEPT ![i] = linking \cup {p \in Pulls : payload.closers[p] # "none"}]
           items == [p \in Pulls |-> IF p \in linking THEN m.items[p] \cup {i}
                                     ELSE m.items[p] \ {i}]
           status == [m.status EXCEPT ![i] =
                        IF payload.open /\ HasColumn(m, i) THEN m.column[i]
                        ELSE IF ~payload.open THEN "Closed"
                        ELSE IF @ = NoStatus THEN "Triage" ELSE @]
<1>1. /\ issue \in [Issues -> Payloads]
      /\ prs \in [Issues -> SUBSET Pulls]
      /\ items \in [Pulls -> SUBSET Issues]
      /\ status \in [Issues -> Statuses]
  BY ReadTypes DEF Mirror, Statuses, NoStatus
<1>2. n = [m EXCEPT !.issues = m.issues \cup {i}, !.issue = issue, !.prs = prs,
                    !.items = items, !.status = status]
  BY DEF IssueUpserted, Mirror
<1>3. \A j \in Issues \ {i} : status[j] = m.status[j] /\ prs[j] = m.prs[j]
  BY DEF Mirror
<1>4. prs[i] = linking \cup {p \in Pulls : payload.closers[p] # "none"}
  BY DEF Mirror
<1> HIDE DEF n, issue, prs, items, status
<1>5. /\ n \in Mirror
      /\ n.issues = m.issues \cup {i} /\ n.pulls = m.pulls /\ n.issue = issue
      /\ n.pull = m.pull /\ n.column = m.column /\ n.items = items
      /\ n.status = status /\ n.prs = prs
      /\ n.dependency = m.dependency /\ n.handoff = m.handoff /\ n.repair = m.repair
  BY <1>1, <1>2 DEF Mirror
<1>. QED  BY <1>3, <1>4, <1>5 DEF n, issue, items

\* A pull request's row, and the work items' lists of pull requests.
LEMMA PullUpsertedWrites ==
  ASSUME NEW m \in Mirror, NEW p \in Pulls, NEW payload \in PullPayloads
  PROVE  LET n == PullUpserted(m, p, payload)
         IN  /\ n \in Mirror
             /\ n.issues = m.issues /\ n.pulls = m.pulls \cup {p} /\ n.issue = m.issue
             /\ n.pull = [m.pull EXCEPT ![p] = payload] /\ n.column = m.column
             /\ n.items = [m.items EXCEPT ![p] = payload.refs \cap m.issues]
             /\ n.prs = [i \in Issues |-> IF i \in m.issues \cap payload.refs
                                          THEN m.prs[i] \cup {p} ELSE m.prs[i] \ {p}]
             /\ n.status = m.status /\ n.dependency = m.dependency
             /\ n.handoff = m.handoff /\ n.repair = m.repair
<1> DEFINE n == PullUpserted(m, p, payload)
           pull == [m.pull EXCEPT ![p] = payload]
           items == [m.items EXCEPT ![p] = payload.refs \cap m.issues]
           prs == [i \in Issues |-> IF i \in m.issues \cap payload.refs
                                    THEN m.prs[i] \cup {p} ELSE m.prs[i] \ {p}]
<1>1. /\ pull \in [Pulls -> PullPayloads]
      /\ items \in [Pulls -> SUBSET Issues]
      /\ prs \in [Issues -> SUBSET Pulls]
  BY DEF Mirror, PullPayloads
<1>2. n = [m EXCEPT !.pulls = m.pulls \cup {p}, !.pull = pull, !.items = items, !.prs = prs]
  BY DEF PullUpserted, Mirror
<1> HIDE DEF n, pull, items, prs
<1>3. /\ n \in Mirror
      /\ n.issues = m.issues /\ n.pulls = m.pulls \cup {p} /\ n.issue = m.issue
      /\ n.pull = pull /\ n.column = m.column /\ n.items = items /\ n.prs = prs
      /\ n.status = m.status /\ n.dependency = m.dependency
      /\ n.handoff = m.handoff /\ n.repair = m.repair
  BY <1>1, <1>2 DEF Mirror
<1>. QED  BY <1>3 DEF n, pull, items, prs

\* A board's columns, and the raw status of every row.
LEMMA BoardUpsertedWrites ==
  ASSUME NEW m \in Mirror, NEW columns \in Boards
  PROVE  LET n == BoardUpserted(m, columns)
         IN  /\ n \in Mirror
             /\ n.issues = m.issues /\ n.pulls = m.pulls /\ n.issue = m.issue
             /\ n.pull = m.pull /\ n.column = columns /\ n.items = m.items /\ n.prs = m.prs
             /\ n.dependency = m.dependency /\ n.handoff = m.handoff /\ n.repair = m.repair
<1> DEFINE n == BoardUpserted(m, columns)
           status == [i \in Issues |->
              IF i \notin m.issues THEN m.status[i]
              ELSE IF columns[i] \notin {"off", "none"} THEN columns[i]
              ELSE IF columns[i] = "none" \/ m.column[i] # "off" THEN RawStatus(m, i)
              ELSE m.status[i]]
<1>1. status \in [Issues -> Statuses]
  BY DEF Mirror, Statuses, RawStatus, Boards
<1>2. n = [m EXCEPT !.column = columns, !.status = status]
  BY DEF BoardUpserted, Mirror
<1> HIDE DEF n, status
<1>3. /\ n \in Mirror
      /\ n.issues = m.issues /\ n.pulls = m.pulls /\ n.issue = m.issue
      /\ n.pull = m.pull /\ n.column = columns /\ n.items = m.items /\ n.prs = m.prs
      /\ n.dependency = m.dependency /\ n.handoff = m.handoff /\ n.repair = m.repair
  BY <1>1, <1>2 DEF Mirror
<1>. QED  BY <1>3 DEF n

\* What is linked, and known of, in one mirror is so in another that has the same.
LEMMA SoundWeakens ==
  ASSUME NEW flags \in SUBSET Issues, NEW known, NEW fit, NEW known1, NEW fit1,
         known1 \cap Issues \subseteq known, fit1 \cap Issues \subseteq fit
  PROVE  Sound(flags, known, fit) \subseteq Sound(flags, known1, fit1)
<1>1. \A m \in Mirror : m.issues \subseteq Issues
  BY DEF Mirror
<1>. QED  BY <1>1 DEF Sound

\* A pull request linked to a work item that refers to it shows in the handoff.
LEMMA LinkedShows ==
  ASSUME NEW m \in Mirror, Linked(m), NEW i \in m.issues, NEW p \in m.pulls,
         i \in m.pull[p].refs
  PROVE  /\ p \in LinkedPulls(m, i)
         /\ Handoff(m, i) # "none"
         /\ m.pull[p].state = "merged" => Handoff(m, i) = "merged"
<1>1. p \in Pulls /\ i \in Issues /\ m.pull[p].state \in PullStates /\ p \in m.prs[i]
  BY DEF Mirror, PullPayloads, Linked
<1>2. PullDetail(m, i, p).known /\ (m.pull[p].state = "merged" => PullDetail(m, i, p).merged)
  BY <1>1 DEF PullDetail, PullStates
<1>3. p \in LinkedPulls(m, i)
  BY <1>1, <1>2 DEF LinkedPulls
<1>. QED  BY <1>2, <1>3 DEF Handoff

\* Normalizing a work item makes it known and fit, and leaves the others as they are.
LEMMA SoundNormalized ==
  ASSUME NEW flags \in SUBSET Issues, NEW known, NEW fit,
         NEW m \in Sound(flags, known, fit), NEW i \in Issues, NEW kept,
         flags = {} \/ "runtime" \in kept
  PROVE  Normalized(m, i, kept) \in Sound(flags, known \cup {i}, fit \cup {i})
<1> DEFINE n == Normalized(m, i, kept)
<1>1. m \in Mirror /\ Linked(m)
  BY DEF Sound
<1>2. /\ n \in Mirror
      /\ n.issues = m.issues /\ n.pulls = m.pulls /\ n.issue = m.issue
      /\ n.pull = m.pull /\ n.column = m.column /\ n.items = m.items
      /\ n.status[i] = CanonicalStatus(m, i) /\ n.dependency[i] = DependencyState(m, i)
      /\ n.handoff[i] = Handoff(m, i) /\ n.prs[i] = LinkedPulls(m, i)
      /\ m.repair[i] \cap kept \subseteq n.repair[i]
      /\ \A j \in Issues \ {i} :
           /\ n.status[j] = m.status[j] /\ n.dependency[j] = m.dependency[j]
           /\ n.handoff[j] = m.handoff[j] /\ n.prs[j] = m.prs[j] /\ n.repair[j] = m.repair[j]
  <2>1. Writes(n, m, i, kept)
    BY <1>1, NormalizedWrites
  <2> HIDE DEF n
  <2>2. /\ m.status \in [Issues -> Statuses] /\ DOMAIN m.dependency = Issues
        /\ DOMAIN m.handoff = Issues /\ DOMAIN m.prs = Issues /\ DOMAIN m.repair = Issues
    BY <1>1 DEF Mirror
  <2>. QED  BY <2>1, <2>2 DEF Writes
<1> HIDE DEF n
<1>3. m.issues \subseteq Issues /\ m.pulls \subseteq Pulls
  BY <1>1 DEF Mirror
<1>4. Linked(n)
  <2>1. \A p \in m.pulls : i \in m.issues /\ i \in m.items[p] => p \in n.prs[i]
    BY <1>1, <1>2, LinkedShows DEF Linked
  <2>2. \A p \in m.pulls, j \in m.issues : j # i /\ j \in m.items[p] => p \in n.prs[j]
    BY <1>1, <1>2, <1>3 DEF Linked
  <2>. QED  BY <1>1, <1>2, <2>1, <2>2 DEF Linked
<1>5. \A j \in flags : "runtime" \in n.repair[j]
  BY <1>2 DEF Sound
<1>6. ASSUME NEW j \in (known \cup {i}) \cap n.issues
      PROVE  Known(n, j)
  <2>1. CASE j = i
    <3>1. Known(n, i)
      BY <1>1, <1>2 DEF Known, DependencyState, Unknown, DependsOn, Mirror, Payloads
    <3>. QED  BY <2>1, <3>1
  <2>2. CASE j # i
    <3>1. Known(m, j)
      BY <1>2, <2>2 DEF Sound
    <3>. QED  BY <1>2, <1>3, <2>2, <3>1 DEF Known
  <2>. QED  BY <2>1, <2>2
<1>7. ASSUME NEW j \in (fit \cup {i}) \cap n.issues
      PROVE  Fit(n, j)
  <2>1. CASE j = i
    <3>1. ~n.issue[i].open => n.status[i] = "Done"
      BY <1>2 DEF CanonicalStatus
    <3>2. ASSUME NEW p \in n.pulls, i \in n.pull[p].refs
          PROVE  /\ n.handoff[i] # "none"
                 /\ n.pull[p].state = "merged" => n.handoff[i] = "merged"
      BY <1>1, <1>2, <2>1, <3>2, LinkedShows
    <3>3. Fit(n, i)
      BY <3>1, <3>2 DEF Fit
    <3>. QED  BY <2>1, <3>3
  <2>2. CASE j # i
    <3>1. Fit(m, j)
      BY <1>2, <2>2 DEF Sound
    <3>. QED  BY <1>2, <1>3, <2>2, <3>1 DEF Fit
  <2>. QED  BY <2>1, <2>2
<1>8. n \in Sound(flags, known \cup {i}, fit \cup {i})
  BY <1>2, <1>4, <1>5, <1>6, <1>7 DEF Sound
<1>. QED  BY <1>8 DEF n

\* An issue that is normalized is known, and what is over or handed off of it shows.
LEMMA SoundNormalize ==
  ASSUME NEW flags \in SUBSET Issues, NEW known, NEW fit,
         NEW m \in Sound(flags, known, fit), NEW i \in Issues
  PROVE  Normalize(m, i) \in Sound(flags, known \cup {i}, fit \cup {i})
BY SoundNormalized DEF Normalize

\* Writing an issue's row keeps the links, but the issue is to be normalized.
LEMMA SoundIssueUpserted ==
  ASSUME NEW flags \in SUBSET Issues, NEW known, NEW fit,
         NEW m \in Sound(flags, known, fit), NEW i \in Issues, NEW payload \in Payloads
  PROVE  IssueUpserted(m, i, payload) \in Sound(flags, known \ {i}, fit \ {i})
<1> DEFINE n == IssueUpserted(m, i, payload)
           linking == {p \in m.pulls : i \in m.pull[p].refs}
<1>1. m \in Mirror /\ Linked(m)
  BY DEF Sound
<1>2. /\ n \in Mirror
      /\ n.issues = m.issues \cup {i} /\ n.pulls = m.pulls
      /\ n.issue[i] = payload
      /\ n.pull = m.pull /\ n.column = m.column
      /\ \A p \in Pulls : n.items[p] = IF p \in linking THEN m.items[p] \cup {i}
                                       ELSE m.items[p] \ {i}
      /\ \A j \in Issues \ {i} : /\ n.status[j] = m.status[j] /\ n.prs[j] = m.prs[j]
                                 /\ n.issue[j] = m.issue[j]
      /\ linking \subseteq n.prs[i]
      /\ n.dependency = m.dependency /\ n.handoff = m.handoff /\ n.repair = m.repair
  <2>1. /\ n \in Mirror
        /\ n.issues = m.issues \cup {i} /\ n.pulls = m.pulls
        /\ n.issue = [m.issue EXCEPT ![i] = payload]
        /\ n.pull = m.pull /\ n.column = m.column
        /\ n.items = [p \in Pulls |-> IF p \in linking THEN m.items[p] \cup {i}
                                      ELSE m.items[p] \ {i}]
        /\ \A j \in Issues \ {i} : n.status[j] = m.status[j] /\ n.prs[j] = m.prs[j]
        /\ n.prs[i] = linking \cup {p \in Pulls : payload.closers[p] # "none"}
        /\ n.dependency = m.dependency /\ n.handoff = m.handoff /\ n.repair = m.repair
    BY <1>1, IssueUpsertedWrites
  <2> HIDE DEF n, linking
  <2>2. DOMAIN m.issue = Issues
    BY <1>1 DEF Mirror
  <2>. QED  BY <2>1, <2>2
<1>3. m.issues \subseteq Issues /\ m.pulls \subseteq Pulls
  BY <1>1 DEF Mirror
<1> HIDE DEF n
<1>4. Linked(n)
  <2>1. \A p \in m.pulls : /\ i \in m.pull[p].refs <=> i \in n.items[p]
                           /\ i \in n.items[p] => p \in n.prs[i]
    BY <1>2, <1>3
  <2>2. ASSUME NEW p \in m.pulls, NEW j \in m.issues, j # i
        PROVE  /\ j \in m.pull[p].refs <=> j \in n.items[p]
               /\ j \in n.items[p] => p \in n.prs[j]
    <3> HIDE DEF linking
    <3>2. p \in Pulls
      BY <1>3
    <3>3. n.items[p] = m.items[p] \cup {i} \/ n.items[p] = m.items[p] \ {i}
      BY <1>2, <3>2
    <3>1. j \in n.items[p] <=> j \in m.items[p]
      BY <2>2, <3>3
    <3>. QED  BY <1>1, <1>2, <1>3, <2>2, <3>1, <3>2 DEF Linked
  <2>3. ASSUME NEW p \in Pulls, NEW j \in n.items[p]
        PROVE  j \in n.issues
    <3>1. j \in m.items[p] \cup {i}
      BY <1>2, <2>3
    <3>. QED  BY <1>1, <1>2, <3>1 DEF Linked
  <2> HIDE DEF linking
  <2>. QED  BY <1>2, <2>1, <2>2, <2>3 DEF Linked
<1>5. \A j \in flags : "runtime" \in n.repair[j]
  BY <1>2 DEF Sound
<1> HIDE DEF linking
<1>6. ASSUME NEW j \in (known \ {i}) \cap n.issues
      PROVE  Known(n, j)
  <2>1. Known(m, j) /\ j \in Issues \ {i}
    BY <1>2, <1>3 DEF Sound
  <2>. QED  BY <1>2, <2>1 DEF Known
<1>7. ASSUME NEW j \in (fit \ {i}) \cap n.issues
      PROVE  Fit(n, j)
  <2>1. Fit(m, j) /\ j \in Issues \ {i}
    BY <1>2, <1>3 DEF Sound
  <2>. QED  BY <1>2, <2>1 DEF Fit
<1>8. n \in Sound(flags, known \ {i}, fit \ {i})
  BY <1>2, <1>4, <1>5, <1>6, <1>7 DEF Sound
<1>. QED  BY <1>8 DEF n

\* Writing a pull request's row: the issues it refers to are to be normalized.
LEMMA SoundPullUpserted ==
  ASSUME NEW flags \in SUBSET Issues, NEW known, NEW fit,
         NEW m \in Sound(flags, known, fit), NEW p \in Pulls, NEW payload \in PullPayloads
  PROVE  LET n == PullUpserted(m, p, payload)
         IN  /\ n \in Sound(flags, known, fit \ n.items[p])
             /\ n.items[p] \subseteq Issues
<1> DEFINE n == PullUpserted(m, p, payload)
<1>1. m \in Mirror /\ Linked(m)
  BY DEF Sound
<1>2. /\ n \in Mirror
      /\ n.issues = m.issues /\ n.pulls = m.pulls \cup {p} /\ n.issue = m.issue
      /\ n.pull[p] = payload
      /\ \A q \in Pulls \ {p} : n.pull[q] = m.pull[q] /\ n.items[q] = m.items[q]
      /\ n.column = m.column
      /\ n.items[p] = payload.refs \cap m.issues
      /\ \A i \in Issues : n.prs[i] = IF i \in m.issues \cap payload.refs
                                      THEN m.prs[i] \cup {p} ELSE m.prs[i] \ {p}
      /\ n.status = m.status /\ n.dependency = m.dependency
      /\ n.handoff = m.handoff /\ n.repair = m.repair
  <2>1. /\ n \in Mirror
        /\ n.issues = m.issues /\ n.pulls = m.pulls \cup {p} /\ n.issue = m.issue
        /\ n.pull = [m.pull EXCEPT ![p] = payload] /\ n.column = m.column
        /\ n.items = [m.items EXCEPT ![p] = payload.refs \cap m.issues]
        /\ n.prs = [i \in Issues |-> IF i \in m.issues \cap payload.refs
                                     THEN m.prs[i] \cup {p} ELSE m.prs[i] \ {p}]
        /\ n.status = m.status /\ n.dependency = m.dependency
        /\ n.handoff = m.handoff /\ n.repair = m.repair
    BY <1>1, PullUpsertedWrites
  <2> HIDE DEF n
  <2>2. DOMAIN m.pull = Pulls /\ DOMAIN m.items = Pulls
    BY <1>1 DEF Mirror
  <2>. QED  BY <2>1, <2>2
<1>3. m.issues \subseteq Issues /\ m.pulls \subseteq Pulls
  BY <1>1 DEF Mirror
<1> HIDE DEF n
<1>4. Linked(n)
  <2>1. \A i \in m.issues : /\ i \in payload.refs <=> i \in n.items[p]
                            /\ i \in n.items[p] => p \in n.prs[i]
    BY <1>2, <1>3
  <2>2. ASSUME NEW q \in m.pulls \ {p}, NEW i \in m.issues
        PROVE  /\ i \in n.pull[q].refs <=> i \in n.items[q]
               /\ i \in n.items[q] => q \in n.prs[i]
    <3>1. q \in Pulls \ {p} /\ i \in Issues
      BY <1>3
    <3>2. n.pull[q] = m.pull[q] /\ n.items[q] = m.items[q]
      BY <1>2, <3>1, Zenon
    <3>3. n.prs[i] = IF i \in m.issues \cap payload.refs THEN m.prs[i] \cup {p} ELSE m.prs[i] \ {p}
      BY <1>2, <3>1, Zenon
    <3>4. q \in m.prs[i] => q \in n.prs[i]
      BY <3>1, <3>3
    <3>. QED  BY <1>1, <3>2, <3>4 DEF Linked
  <2>3. \A q \in Pulls : n.items[q] \subseteq n.issues
    BY <1>1, <1>2 DEF Linked
  <2>. QED  BY <1>2, <2>1, <2>2, <2>3 DEF Linked
<1>5. \A j \in flags : "runtime" \in n.repair[j]
  BY <1>2 DEF Sound
<1>6. ASSUME NEW j \in known \cap n.issues
      PROVE  Known(n, j)
  <2>1. Known(m, j)
    BY <1>2 DEF Sound
  <2>. QED  BY <1>2, <2>1 DEF Known
<1>7. ASSUME NEW j \in (fit \ n.items[p]) \cap n.issues
      PROVE  Fit(n, j)
  <2>1. Fit(m, j) /\ j \notin payload.refs
    BY <1>2 DEF Sound
  <2>. QED  BY <1>2, <1>3, <2>1 DEF Fit
<1>8. n \in Sound(flags, known, fit \ n.items[p]) /\ n.items[p] \subseteq Issues
  BY <1>2, <1>3, <1>4, <1>5, <1>6, <1>7 DEF Sound
<1>. QED  BY <1>8 DEF n

\* A board's columns are written over the status of every row.
LEMMA SoundBoardUpserted ==
  ASSUME NEW flags \in SUBSET Issues, NEW known, NEW fit,
         NEW m \in Sound(flags, known, fit), NEW columns \in Boards
  PROVE  BoardUpserted(m, columns) \in Sound(flags, known, {})
<1> DEFINE n == BoardUpserted(m, columns)
<1>1. m \in Mirror /\ Linked(m)
  BY DEF Sound
<1>2. /\ n \in Mirror
      /\ n.issues = m.issues /\ n.pulls = m.pulls /\ n.issue = m.issue
      /\ n.pull = m.pull /\ n.items = m.items /\ n.prs = m.prs
      /\ n.dependency = m.dependency /\ n.handoff = m.handoff /\ n.repair = m.repair
  BY <1>1, BoardUpsertedWrites
<1> HIDE DEF n
<1>3. n \in Sound(flags, known, {})
  BY <1>1, <1>2 DEF Sound, Linked, Known
<1>. QED  BY <1>3 DEF n

\* An issue repaired from GitHub's answer is known and fit.
LEMMA SoundRepairIssue ==
  ASSUME GitHubTypes, NEW flags \in SUBSET Issues, NEW known, NEW fit,
         NEW m \in Sound(flags, known, fit), NEW i \in Issues
  PROVE  RepairIssue(m, i) \in Sound(flags, known \cup {i}, fit \cup {i})
<1>1. IssueSnapshot(i) \in Payloads
  BY DEF IssueSnapshot, Payloads, GitHubTypes, NativeStates, PullPayloads
<1>2. IssueUpserted(m, i, IssueSnapshot(i)) \in Sound(flags, known \ {i}, fit \ {i})
  BY <1>1, SoundIssueUpserted
<1>3. RepairIssue(m, i) \in Sound(flags, (known \ {i}) \cup {i}, (fit \ {i}) \cup {i})
  BY <1>2, SoundNormalize DEF RepairIssue
<1>4. (known \ {i}) \cup {i} = known \cup {i} /\ (fit \ {i}) \cup {i} = fit \cup {i}
  OBVIOUS
<1>. QED  BY <1>3, <1>4

-----------------------------------------------------------------------------
(* The rows of a query *)

\* An order of a finite set is a sequence of all its elements.
LEMMA OrderCovers ==
  ASSUME NEW is, IsFiniteSet(is), NEW order \in SetToSeqs(is)
  PROVE  /\ order \in Seq(is)
         /\ \A i \in is : \E n \in 1 .. Len(order) : order[n] = i
<1> DEFINE N == Cardinality(is)
<1>1. N \in Nat
  BY FS_CardinalityType
<1>2. order \in [1 .. N -> is] /\ \A j, k \in 1 .. N : j # k => order[j] # order[k]
  BY DEF SetToSeqs
<1>3. Cardinality(1 .. N) = N
  BY <1>1, FS_Interval
<1>4. order \in Injection(1 .. N, is)
  BY <1>2 DEF Injection, IsInjective
<1>5. order \in Surjection(1 .. N, is)
  BY <1>3, <1>4, FS_Injection
<1> HIDE DEF N
<1>6. order \in Seq(is) /\ Len(order) = N
  BY <1>1, <1>2
<1>. QED  BY <1>5, <1>6 DEF Surjection

\* A finite set of numbers can be put in order.
LEMMA ByNumberOrders ==
  ASSUME NEW is \in SUBSET Nat, IsFiniteSet(is)
  PROVE  ByNumber(is) \in SetToSeqs(is)
<1> DEFINE Increasing(order) == \A j, k \in DOMAIN order : j < k => order[j] < order[k]
           N == Cardinality(is)
           S == {n \in 0 .. N : \A T \in SUBSET is : Cardinality(T) = n =>
                                  \E order \in SetToSeqs(T) : Increasing(order)}
<1>1. N \in Nat /\ \A T \in SUBSET is : IsFiniteSet(T) /\ Cardinality(T) \in Nat
  BY FS_CardinalityType, FS_Subset
<1>2. 0 \in S
  <2>1. ASSUME NEW T \in SUBSET is, Cardinality(T) = 0
        PROVE  \E order \in SetToSeqs(T) : Increasing(order)
    <3>1. << >> \in SetToSeqs(T) /\ Increasing(<< >>)
      BY <2>1 DEF SetToSeqs
    <3>. QED  BY <3>1
  <2>. QED  BY <1>1, <2>1
<1>3. ASSUME NEW n \in 0 .. N - 1, n \in S, NEW T \in SUBSET is, Cardinality(T) = n + 1
      PROVE  \E order \in SetToSeqs(T) : Increasing(order)
  <2>1. IsFiniteSet(T) /\ n \in Nat
    BY <1>1
  <2>2. T # {}
    BY <1>3, <2>1, FS_EmptySet
  <2>3. PICK x \in T : \A y \in T : x <= y
    BY <2>2, LeastNumber
  <2>4. Cardinality(T \ {x}) = n
    <3>1. Cardinality(T \ {x}) = Cardinality(T) - 1
      BY <2>1, <2>3, FS_RemoveElement
    <3>. QED  BY <1>3, <2>1, <3>1
  <2>5. PICK rest \in SetToSeqs(T \ {x}) : Increasing(rest)
    BY <1>3, <2>4
  <2>6. /\ rest \in [1 .. n -> T \ {x}]
        /\ \A j, k \in 1 .. n : j # k => rest[j] # rest[k]
        /\ \A j, k \in 1 .. n : j < k => rest[j] < rest[k]
    BY <2>4, <2>5 DEF SetToSeqs
  <2> DEFINE order == [k \in 1 .. n + 1 |-> IF k = 1 THEN x ELSE rest[k - 1]]
  <2>7. \A k \in 1 .. n + 1 : k = 1 \/ (k - 1 \in 1 .. n)
    BY <2>1
  <2>8. order \in [1 .. n + 1 -> T]
    BY <2>3, <2>6, <2>7
  <2>9. \A j, k \in 1 .. n + 1 : j # k => order[j] # order[k]
    BY <2>6, <2>7
  <2>10. \A j, k \in 1 .. n + 1 : j < k => order[j] < order[k]
    <3>1. SUFFICES ASSUME NEW j \in 1 .. n + 1, NEW k \in 1 .. n + 1, j < k
                   PROVE  order[j] < order[k]
      OBVIOUS
    <3>2. k - 1 \in 1 .. n /\ order[k] = rest[k - 1] /\ rest[k - 1] \in T \ {x}
      BY <2>6, <2>7, <3>1
    <3>3. CASE j = 1
      <4>1. x \in Nat /\ rest[k - 1] \in Nat /\ x <= rest[k - 1] /\ x # rest[k - 1]
        BY <2>3, <3>2
      <4>. QED  BY <3>2, <3>3, <4>1
    <3>4. CASE j # 1
      <4>1. j - 1 \in 1 .. n /\ j - 1 < k - 1 /\ order[j] = rest[j - 1]
        BY <2>7, <3>1, <3>4
      <4>. QED  BY <2>6, <3>2, <4>1
    <3>. QED  BY <3>3, <3>4
  <2>11. order \in SetToSeqs(T)
    BY <1>3, <2>8, <2>9 DEF SetToSeqs
  <2>12. Increasing(order)
    BY <2>10
  <2>. QED  BY <2>11, <2>12
<1>4. \A n \in 0 .. N - 1 : n \in S => n + 1 \in S
  <2> SUFFICES ASSUME NEW n \in 0 .. N - 1, n \in S  PROVE  n + 1 \in S
    OBVIOUS
  <2> HIDE DEF Increasing
  <2>1. \A T \in SUBSET is : Cardinality(T) = n + 1 =>
                              \E order \in SetToSeqs(T) : Increasing(order)
    BY <1>3
  <2>2. n + 1 \in 0 .. N
    BY <1>1
  <2>. QED  BY <2>1, <2>2
<1> HIDE DEF S
<1>5. \A n \in 0 .. N : n \in S
  BY <1>1, <1>2, <1>4, UpTo
<1>6. N \in S
  BY <1>1, <1>5
<1>7. \E order \in SetToSeqs(is) : Increasing(order)
  BY <1>6 DEF S
<1>. QED  BY <1>7 DEF ByNumber

\* An order that the code may take meets every issue.
LEMMA OrdersCover ==
  ASSUME NEW order \in Orders
  PROVE  /\ order \in Seq(Issues)
         /\ \A i \in Issues : \E n \in 1 .. Len(order) : order[n] = i
<1>1. IsFiniteSet(Issues) /\ order \in SetToSeqs(Issues)
  BY MirrorAssumption DEF Orders
<1>. QED  BY <1>1, OrderCovers

\* The order by number meets every issue of the set.
LEMMA ByNumberCovers ==
  ASSUME NEW is \in SUBSET Issues
  PROVE  /\ ByNumber(is) \in Seq(is)
         /\ \A i \in is : \E n \in 1 .. Len(ByNumber(is)) : ByNumber(is)[n] = i
<1>1. is \in SUBSET Nat /\ IsFiniteSet(is)
  BY MirrorAssumption, FS_Subset
<1>. QED  BY <1>1, ByNumberOrders, OrderCovers

\* The mirrors that repairing in an order goes through.
Repairs(g, V, m, is, order) ==
  /\ g \in [0 .. Len(order) -> V] /\ g[0] = m /\ g[Len(order)] = RepairIssues(m, is)
  /\ \A n \in 1 .. Len(order) :
       g[n] = RepairIssue(g[n - 1], order[n])

\* The same of repairs, which go through the issues by their numbers.
LEMMA RepairIssuesFolds ==
  ASSUME NEW V, NEW m \in V, NEW is \in SUBSET Issues,
         \A v \in V : \A i \in is : RepairIssue(v, i) \in V
  PROVE  \E g : Repairs(g, V, m, is, ByNumber(is))
<1> DEFINE order == ByNumber(is)
           N == Len(order)
           Op(v, i) == RepairIssue(v, i)
           step == [n \in 1 .. N |-> [v \in V |-> Op(v, order[n])]]
           Does(iter) == iter = [s \in SUBSET (1 .. N) |->
                                   IF s = {} THEN m ELSE Op(iter[s \ {Max(s)}], order[Max(s)])]
           iter == CHOOSE iter : Does(iter)
<1>1. N \in Nat /\ DOMAIN order = 1 .. N /\ \A n \in 1 .. N : order[n] \in is
  <2>1. order \in Seq(is)
    BY ByNumberCovers
  <2>. QED  BY <2>1
<1>2. RepairIssues(m, is) = iter[1 .. N]
  BY <1>1 DEF RepairIssues, FoldLeft, MapThenFoldSet
<1> HIDE DEF order
<1>3. \A v \in V : \A n \in 1 .. N : Op(v, order[n]) \in V
  BY <1>1
<1> HIDE DEF Op
<1>4. step \in [1 .. N -> [V -> V]]
  BY <1>3
<1>5. \A n \in 1 .. N : \A v \in V : step[n][v] = Op(v, order[n])
  OBVIOUS
<1> HIDE DEF step, N
<1>6. \A s \in (SUBSET (1 .. N)) \ {{}} : Max(s) \in 1 .. N /\ s \ {Max(s)} \in SUBSET (1 .. N)
  BY <1>1, HighestIndex
<1>7. \E f : Does(f)
  <2>1. PICK f \in [SUBSET (1 .. N) -> V] : Recurs(f, step, m, N)
    BY <1>1, <1>4, RecursionExists
  <2>2. \A s \in SUBSET (1 .. N) :
          f[s] = IF s = {} THEN m ELSE Op(f[s \ {Max(s)}], order[Max(s)])
    BY <1>5, <1>6, <2>1 DEF Recurs
  <2>3. Does(f)
    BY <2>1, <2>2
  <2>. QED  BY <2>3
<1>8. Does(iter)
  BY <1>7
<1> HIDE DEF iter
<1>9. Unfolds(iter, step, m, N, V)
  BY <1>5, <1>6, <1>8 DEF Unfolds
<1> HIDE DEF Does
<1>10. PICK g : Values(g, step, m, N, V) /\ g[N] = iter[1 .. N]
  BY <1>1, <1>4, <1>9, FoldReaches
<1>11. \A n \in 1 .. N : n - 1 \in 0 .. N /\ g[n] = Op(g[n - 1], order[n])
  BY <1>1, <1>5, <1>10 DEF Values
<1>. QED  BY <1>2, <1>10, <1>11 DEF Repairs, N, Op, order, Values

\* The results that the repairs of a delivery go through.
RepairsThrough(g, V, r0, m, is, order, reachable) ==
  /\ g \in [0 .. Len(order) -> V] /\ g[0] = r0 /\ g[Len(order)] = RepairingAll(m, is, order, reachable)
  /\ \A n \in 1 .. Len(order) :
       g[n] = IF order[n] \in is THEN Repairing(g[n - 1], order[n], order, reachable)
              ELSE g[n - 1]

\* A delivery's repairs, which stop when one of them raises.
LEMMA RepairingAllFolds ==
  ASSUME NEW V, NEW m, NEW r0 \in V, r0 = [mirror |-> m, dead |-> FALSE], NEW is,
         NEW order \in Seq(Issues), NEW reachable,
         \A r \in V : \A i \in Issues : i \in is => Repairing(r, i, order, reachable) \in V
  PROVE  \E g : RepairsThrough(g, V, r0, m, is, order, reachable)
<1> DEFINE N == Len(order)
           Op(r, i) == IF i \in is THEN Repairing(r, i, order, reachable) ELSE r
           step == [n \in 1 .. N |-> [r \in V |-> Op(r, order[n])]]
           Does(iter) == iter = [s \in SUBSET (1 .. N) |->
                                   IF s = {} THEN r0 ELSE Op(iter[s \ {Max(s)}], order[Max(s)])]
           iter == CHOOSE iter : Does(iter)
<1>1. N \in Nat /\ DOMAIN order = 1 .. N /\ \A n \in 1 .. N : order[n] \in Issues
  OBVIOUS
<1>2. RepairingAll(m, is, order, reachable) = iter[1 .. N]
  BY <1>1 DEF RepairingAll, FoldLeft, MapThenFoldSet
<1>3. \A v \in V : \A n \in 1 .. N : Op(v, order[n]) \in V
  BY <1>1
<1> HIDE DEF Op
<1>4. step \in [1 .. N -> [V -> V]]
  BY <1>3
<1>5. \A n \in 1 .. N : \A v \in V : step[n][v] = Op(v, order[n])
  OBVIOUS
<1> HIDE DEF step, N
<1>6. \A s \in (SUBSET (1 .. N)) \ {{}} : Max(s) \in 1 .. N /\ s \ {Max(s)} \in SUBSET (1 .. N)
  BY <1>1, HighestIndex
<1>7. \E f : Does(f)
  <2>1. PICK f \in [SUBSET (1 .. N) -> V] : Recurs(f, step, r0, N)
    BY <1>1, <1>4, RecursionExists
  <2>2. \A s \in SUBSET (1 .. N) :
          f[s] = IF s = {} THEN r0 ELSE Op(f[s \ {Max(s)}], order[Max(s)])
    BY <1>5, <1>6, <2>1 DEF Recurs
  <2>3. Does(f)
    BY <2>1, <2>2
  <2>. QED  BY <2>3
<1>8. Does(iter)
  BY <1>7
<1> HIDE DEF iter
<1>9. Unfolds(iter, step, r0, N, V)
  BY <1>5, <1>6, <1>8 DEF Unfolds
<1> HIDE DEF Does
<1>10. PICK g : Values(g, step, r0, N, V) /\ g[N] = iter[1 .. N]
  BY <1>1, <1>4, <1>9, FoldReaches, SMTT(20)
<1>11. \A n \in 1 .. N : n - 1 \in 0 .. N /\ g[n] = Op(g[n - 1], order[n])
  <2>1. \A n \in 1 .. N : n - 1 \in 0 .. N /\ g[n] = step[n][g[n - 1]] /\ g[n - 1] \in V
    BY <1>1, <1>10 DEF Values
  <2>. QED  BY <1>5, <2>1
<1>. QED  BY <1>2, <1>10, <1>11 DEF RepairsThrough, N, Op, Values

\* The mirrors that clearing the flags of the runtime goes through.
Clears(g, V, m, order) ==
  /\ g \in [0 .. Len(order) -> V] /\ g[0] = m /\ g[Len(order)] = RepairsCleared(m, order)
  /\ \A n \in 1 .. Len(order) :
       g[n] = IF "runtime" \in g[n - 1].repair[order[n]]
                THEN Normalized(g[n - 1], order[n], {}) ELSE g[n - 1]

\* The operator's clearing of what the runtime has flagged.
LEMMA RepairsClearedFolds ==
  ASSUME NEW V, NEW m \in V, NEW order \in Seq(Issues),
         \A v \in V : \A i \in Issues : "runtime" \in v.repair[i] => Normalized(v, i, {}) \in V
  PROVE  \E g : Clears(g, V, m, order)
<1> DEFINE N == Len(order)
           Op(v, i) == IF "runtime" \in v.repair[i] THEN Normalized(v, i, {}) ELSE v
           step == [n \in 1 .. N |-> [v \in V |-> Op(v, order[n])]]
           Does(iter) == iter = [s \in SUBSET (1 .. N) |->
                                   IF s = {} THEN m ELSE Op(iter[s \ {Max(s)}], order[Max(s)])]
           iter == CHOOSE iter : Does(iter)
<1>1. N \in Nat /\ DOMAIN order = 1 .. N /\ \A n \in 1 .. N : order[n] \in Issues
  OBVIOUS
<1>2. RepairsCleared(m, order) = iter[1 .. N]
  BY <1>1 DEF RepairsCleared, FoldLeft, MapThenFoldSet
<1>3. \A v \in V : \A n \in 1 .. N : Op(v, order[n]) \in V
  BY <1>1
<1> HIDE DEF Op
<1>4. step \in [1 .. N -> [V -> V]]
  BY <1>3
<1>5. \A n \in 1 .. N : \A v \in V : step[n][v] = Op(v, order[n])
  OBVIOUS
<1> HIDE DEF step, N
<1>6. \A s \in (SUBSET (1 .. N)) \ {{}} : Max(s) \in 1 .. N /\ s \ {Max(s)} \in SUBSET (1 .. N)
  BY <1>1, HighestIndex
<1>7. \E f : Does(f)
  <2>1. PICK f \in [SUBSET (1 .. N) -> V] : Recurs(f, step, m, N)
    BY <1>1, <1>4, RecursionExists
  <2>2. \A s \in SUBSET (1 .. N) :
          f[s] = IF s = {} THEN m ELSE Op(f[s \ {Max(s)}], order[Max(s)])
    BY <1>5, <1>6, <2>1 DEF Recurs
  <2>3. Does(f)
    BY <2>1, <2>2
  <2>. QED  BY <2>3
<1>8. Does(iter)
  BY <1>7
<1> HIDE DEF iter
<1>9. Unfolds(iter, step, m, N, V)
  BY <1>5, <1>6, <1>8 DEF Unfolds
<1> HIDE DEF Does
<1>10. PICK g : Values(g, step, m, N, V) /\ g[N] = iter[1 .. N]
  BY <1>1, <1>4, <1>9, FoldReaches
<1>11. \A n \in 1 .. N : n - 1 \in 0 .. N /\ g[n] = Op(g[n - 1], order[n])
  BY <1>1, <1>5, <1>10 DEF Values
<1>. QED  BY <1>2, <1>10, <1>11 DEF Clears, N, Op, Values

-----------------------------------------------------------------------------
(* A transaction *)

\* Nothing that is mirrored is written when a query's rows are normalized.
SameRows(n, m) ==
  /\ n.issues = m.issues /\ n.pulls = m.pulls /\ n.issue = m.issue
  /\ n.pull = m.pull /\ n.column = m.column /\ n.items = m.items

\* Normalizing with any reasons kept leaves the rows that GitHub wrote alone.
LEMMA NormalizedKeepsRows ==
  ASSUME NEW m \in Mirror, NEW i \in Issues, NEW kept
  PROVE  SameRows(Normalized(m, i, kept), m)
<1>1. Writes(Normalized(m, i, kept), m, i, kept)
  BY NormalizedWrites
<1>. QED  BY <1>1 DEF Writes, SameRows

\* Normalizing leaves the rows that GitHub wrote alone.
LEMMA NormalizeKeepsRows ==
  ASSUME NEW m \in Mirror, NEW i \in Issues
  PROVE  SameRows(Normalize(m, i), m)
BY NormalizedKeepsRows DEF Normalize

\* Normalizing takes nothing away from what was sound.
LEMMA SoundStays ==
  ASSUME NEW flags \in SUBSET Issues, NEW known, NEW fit,
         NEW m \in Sound(flags, known, fit), NEW i \in Issues
  PROVE  Normalize(m, i) \in Sound(flags, known, fit)
<1>1. Normalize(m, i) \in Sound(flags, known \cup {i}, fit \cup {i})
  BY SoundNormalize
<1>2. Sound(flags, known \cup {i}, fit \cup {i}) \subseteq Sound(flags, known, fit)
  BY SoundWeakens
<1>. QED  BY <1>1, <1>2

\* The rows of a query are known and fit when they have been normalized.
LEMMA SoundNormalizeAll ==
  ASSUME NEW flags \in SUBSET Issues, NEW known, NEW fit,
         NEW m \in Sound(flags, known, fit), NEW is \in SUBSET Issues, NEW order \in Orders
  PROVE  /\ NormalizeAll(m, is, order) \in Sound(flags, known \cup is, fit \cup is)
         /\ SameRows(NormalizeAll(m, is, order), m)
<1> DEFINE N == Len(order)
           V == {v \in Sound(flags, known, fit) : SameRows(v, m)}
           D == {x \in V \X (1 .. N) : order[x[2]] \in is =>
                   x[1] \in Sound(flags, known \cup {order[x[2]]}, fit \cup {order[x[2]]})}
<1>1. order \in Seq(Issues) /\ \A i \in Issues : \E n \in 1 .. N : order[n] = i
  BY OrdersCover
<1>2. ASSUME NEW v \in V, NEW i \in Issues
      PROVE  /\ Normalize(v, i) \in V
             /\ Normalize(v, i) \in Sound(flags, known \cup {i}, fit \cup {i})
  <2>1. v \in Mirror
    BY DEF Sound
  <2>2. SameRows(Normalize(v, i), v) /\ SameRows(v, m)
    BY <2>1, NormalizeKeepsRows
  <2>3. SameRows(Normalize(v, i), m)
    BY <2>2 DEF SameRows
  <2>. QED  BY <2>3, SoundStays, SoundNormalize
<1>3. m \in V /\ \A v \in V : \A i \in Issues : i \in is => Normalize(v, i) \in V
  BY <1>2 DEF SameRows
<1>4. PICK g : Normalizes(g, V, m, is, order)
  <2> HIDE DEF V
  <2>1. m \in V /\ order \in Seq(Issues)
    BY <1>1, <1>3
  <2>2. \A v \in V : \A i \in Issues : i \in is => Normalize(v, i) \in V
    BY <1>3
  <2>. QED  BY <2>1, <2>2, NormalizeAllFolds
<1>5. N \in Nat /\ \A n \in 1 .. N : order[n] \in Issues /\ n - 1 \in 0 .. N /\ n \in 0 .. N
  BY <1>1
<1>6. /\ g \in [0 .. N -> V] /\ g[N] = NormalizeAll(m, is, order)
       /\ \A n \in 1 .. N :
            g[n] = IF order[n] \in is THEN Normalize(g[n - 1], order[n]) ELSE g[n - 1]
  <2> HIDE DEF V
  <2>. QED  BY <1>4 DEF Normalizes
<1> HIDE DEF N
<1>7. \A n \in 0 .. N : g[n] \in V
  BY <1>6
<1>8. ASSUME NEW n \in 1 .. N
      PROVE  <<g[n], n>> \in D
  BY <1>2, <1>6, <1>5, <1>7
<1>9. ASSUME NEW n \in 1 .. N, NEW j \in 1 .. n - 1, <<g[n - 1], j>> \in D
      PROVE  <<g[n], j>> \in D
  <2>1. j \in 1 .. N
    BY <1>5
  <2>2. CASE order[n] \in is /\ order[j] \in is
    <3>1. g[n - 1] \in Sound(flags, known \cup {order[j]}, fit \cup {order[j]})
      BY <1>9, <2>1, <2>2
    <3>2. g[n] \in Sound(flags, known \cup {order[j]}, fit \cup {order[j]})
      <4>1. order[n] \in Issues /\ g[n] = Normalize(g[n - 1], order[n])
        BY <1>6, <1>5, <2>2
      <4>. QED  BY <3>1, <4>1, SoundStays
    <3>. QED  BY <1>5, <1>7, <2>1, <3>2
  <2>3. CASE order[j] \notin is
    BY <1>5, <1>7, <2>1, <2>3
  <2>4. CASE order[n] \notin is
    BY <1>6, <1>5, <1>7, <1>9, <2>1, <2>4
  <2>. QED  BY <2>2, <2>3, <2>4
<1> HIDE DEF D
<1>10. \A j \in 1 .. N : <<g[N], j>> \in D
  BY <1>5, <1>8, <1>9, EachIsDone
<1>11. \A i \in is : g[N] \in Sound(flags, known \cup {i}, fit \cup {i})
  BY <1>1, <1>10 DEF D, N
<1>12. g[N] \in Sound(flags, known, fit) /\ SameRows(g[N], m)
  BY <1>5, <1>7
<1>13. g[N] \in Sound(flags, known \cup is, fit \cup is)
  BY <1>11, <1>12 DEF Sound
<1>. QED  BY <1>6, <1>12, <1>13

\* A project's repair makes every row fit.
LEMMA SoundRepairProject ==
  ASSUME GitHubTypes, NEW flags \in SUBSET Issues, NEW known, NEW fit,
         NEW m \in Sound(flags, known, fit), NEW order \in Orders
  PROVE  /\ RepairProject(m, order) \in Sound(flags, known, Issues)
         /\ RepairProject(m, order).issues = m.issues
<1> DEFINE b == BoardUpserted(m, gColumn)
           n == RepairProject(m, order)
<1>1. gColumn \in Boards /\ m \in Mirror
  BY DEF GitHubTypes, Sound
<1>2. b \in Sound(flags, known, {}) /\ b.issues = m.issues
  BY <1>1, SoundBoardUpserted, BoardUpsertedWrites
<1>3. m.issues \in SUBSET Issues
  BY <1>1 DEF Mirror
<1> HIDE DEF b
<1>4. n \in Sound(flags, known \cup m.issues, {} \cup m.issues) /\ n.issues = m.issues
  <2>1. /\ NormalizeAll(b, m.issues, order) \in Sound(flags, known \cup m.issues, {} \cup m.issues)
        /\ SameRows(NormalizeAll(b, m.issues, order), b)
    BY <1>2, <1>3, SoundNormalizeAll
  <2>. QED  BY <1>2, <2>1 DEF RepairProject, SameRows, b
<1> HIDE DEF n
<1>5. n \in Sound(flags, known, Issues)
  BY <1>4 DEF Sound
<1>. QED  BY <1>4, <1>5 DEF n

\* Repairs keep what is sound.
LEMMA SoundRepairIssues ==
  ASSUME GitHubTypes, NEW flags \in SUBSET Issues, NEW known, NEW fit,
         NEW m \in Sound(flags, known, fit), NEW is \in SUBSET Issues
  PROVE  RepairIssues(m, is) \in Sound(flags, known, fit)
<1> DEFINE V == Sound(flags, known, fit)
<1>1. ASSUME NEW v \in V, NEW i \in is
      PROVE  RepairIssue(v, i) \in V
  <2>1. RepairIssue(v, i) \in Sound(flags, known \cup {i}, fit \cup {i})
    BY SoundRepairIssue
  <2>2. Sound(flags, known \cup {i}, fit \cup {i}) \subseteq Sound(flags, known, fit)
    BY SoundWeakens
  <2>. QED  BY <2>1, <2>2
<1>2. \A v \in V : \A i \in is : RepairIssue(v, i) \in V
  BY <1>1
<1> HIDE DEF V
<1>3. PICK g : Repairs(g, V, m, is, ByNumber(is))
  BY <1>2, RepairIssuesFolds DEF V
<1>4. Len(ByNumber(is)) \in 0 .. Len(ByNumber(is))
  <2>1. ByNumber(is) \in Seq(is)
    BY ByNumberCovers
  <2>. QED  BY <2>1
<1>. QED  BY <1>3, <1>4 DEF V, Repairs

\* One work item of a delivery: it becomes known, and fit unless a repair raises.
LEMMA SoundRepairing ==
  ASSUME GitHubTypes, NEW flags \in SUBSET Issues, NEW known, NEW fit,
         NEW r \in [mirror : Sound(flags, known, fit), dead : {FALSE}],
         NEW i \in Issues, NEW order \in Orders, NEW reachable
  PROVE  Repairing(r, i, order, reachable) \in
           [mirror : Sound(flags, known \cup {i}, fit \cup {i}), dead : BOOLEAN]
<1> DEFINE m1 == Normalize(r.mirror, i)
           why == m1.repair[i] \ {"runtime"}
           m2 == IF "status.unmapped" \in why THEN RepairProject(m1, order) ELSE m1
           m3 == RepairIssue(m2, i)
           m4 == RepairIssues(m3, IF "dependency.ambiguous" \in why THEN Unknown(m1, i) ELSE {})
           G == Sound(flags, known \cup {i}, fit \cup {i})
<1>1. (known \cup {i}) \cup {i} = known \cup {i} /\ (fit \cup {i}) \cup {i} = fit \cup {i}
  OBVIOUS
<1>2. m1 \in G
  BY SoundNormalize
<1>3. m2 \in G
  <2>1. RepairProject(m1, order) \in Sound(flags, known \cup {i}, Issues)
    BY <1>2, SoundRepairProject
  <2>2. Sound(flags, known \cup {i}, Issues) \subseteq G
    BY SoundWeakens
  <2>. QED  BY <1>2, <2>1, <2>2
<1>4. Unknown(m1, i) \in SUBSET Issues
  <2>1. m1 \in Mirror
    BY <1>2 DEF Sound
  <2> HIDE DEF m1
  <2>. QED  BY <2>1 DEF Unknown, DependsOn, Mirror, Payloads
<1> HIDE DEF m1, m2
<1>5. m3 \in G
  BY <1>1, <1>3, SoundRepairIssue
<1> HIDE DEF m3
<1>6. m4 \in G
  BY <1>4, <1>5, SoundRepairIssues
<1> HIDE DEF m4
<1>7. Normalize(m4, i) \in G
  BY <1>1, <1>6, SoundNormalize
<1>8. Repairing(r, i, order, reachable) =
        IF why = {} THEN [r EXCEPT !.mirror = m1]
        ELSE IF ~reachable THEN [mirror |-> m1, dead |-> TRUE]
        ELSE [r EXCEPT !.mirror = Normalize(m4, i)]
  BY DEF Repairing, m1, m2, m3, m4
<1> HIDE DEF G, why
<1>9. /\ [r EXCEPT !.mirror = m1] \in [mirror : G, dead : BOOLEAN]
      /\ [mirror |-> m1, dead |-> TRUE] \in [mirror : G, dead : BOOLEAN]
      /\ [r EXCEPT !.mirror = Normalize(m4, i)] \in [mirror : G, dead : BOOLEAN]
  BY <1>2, <1>7
<1>10. Repairing(r, i, order, reachable) \in [mirror : G, dead : BOOLEAN]
  BY <1>8, <1>9
<1>. QED  BY <1>10 DEF G

\* A dead letter promises nothing of what shows.
Promised(r, fit) == IF r.dead THEN {} ELSE fit

\* One repair of a delivery: it stays what it is when it is dead, else the issue is sound.
LEMMA RepairingKeeps ==
  ASSUME GitHubTypes, NEW flags \in SUBSET Issues, NEW known, NEW fit,
         NEW r \in [mirror : Mirror, dead : BOOLEAN],
         r.mirror \in Sound(flags, known, Promised(r, fit)),
         NEW i \in Issues, NEW order \in Orders, NEW reachable
  PROVE  LET s == Repairing(r, i, order, reachable)
         IN  /\ s \in [mirror : Mirror, dead : BOOLEAN]
             /\ s.mirror \in Sound(flags, known, Promised(s, fit))
             /\ r.dead => s = r
             /\ ~r.dead => s.mirror \in Sound(flags, known \cup {i}, Promised(s, fit \cup {i}))
<1> DEFINE s == Repairing(r, i, order, reachable)
<1>1. CASE r.dead
  <2>1. s = r
    BY <1>1 DEF Repairing
  <2> HIDE DEF s
  <2>2. /\ s \in [mirror : Mirror, dead : BOOLEAN]
        /\ s.mirror \in Sound(flags, known, Promised(s, fit))
    BY <2>1
  <2>. QED  BY <1>1, <2>1, <2>2 DEF s
<1>2. CASE ~r.dead
  <2>1. r \in [mirror : Sound(flags, known, fit), dead : {FALSE}]
    BY <1>2 DEF Promised
  <2>2. s \in [mirror : Sound(flags, known \cup {i}, fit \cup {i}), dead : BOOLEAN]
    BY <2>1, SoundRepairing
  <2> HIDE DEF s
  <2>3. Promised(s, fit \cup {i}) \subseteq fit \cup {i} /\ Promised(s, fit) \subseteq Promised(s, fit \cup {i})
    BY DEF Promised
  <2>4. /\ s.mirror \in Sound(flags, known \cup {i}, Promised(s, fit \cup {i}))
        /\ s.mirror \in Sound(flags, known, Promised(s, fit))
    <3>1. Sound(flags, known \cup {i}, fit \cup {i})
            \subseteq Sound(flags, known \cup {i}, Promised(s, fit \cup {i}))
      BY <2>3, SoundWeakens
    <3>2. Sound(flags, known \cup {i}, fit \cup {i}) \subseteq Sound(flags, known, Promised(s, fit))
      <4>1. Promised(s, fit) \cap Issues \subseteq fit \cup {i}
        BY <2>3
      <4>. QED  BY <4>1, SoundWeakens
    <3>. QED  BY <2>2, <3>1, <3>2
  <2>5. s \in [mirror : Mirror, dead : BOOLEAN]
    BY <2>2 DEF Sound
  <2>. QED  BY <1>2, <2>4, <2>5 DEF s
<1>. QED  BY <1>1, <1>2

\* A delivery's repairs.  When one of them raises, the rows after it are not
\* normalized: what is known by then must do for all of them.
LEMMA SoundRepairingAll ==
  ASSUME GitHubTypes, NEW flags \in SUBSET Issues, NEW known \in SUBSET Issues, NEW fit,
         NEW m \in Sound(flags, known, fit), NEW is \in SUBSET Issues,
         \A i \in is : known \cup {i} = Issues,
         NEW order \in Orders, NEW reachable
  PROVE  LET r == RepairingAll(m, is, order, reachable)
         IN  /\ r.mirror \in Sound(flags, known \cup is, Promised(r, fit \cup is))
             /\ r.dead \in BOOLEAN
<1> DEFINE N == Len(order)
           V == {r \in [mirror : Mirror, dead : BOOLEAN] :
                   /\ r.mirror \in Sound(flags, known, Promised(r, fit))
                   /\ r.dead => r.mirror \in Sound(flags, Issues, {})}
           D == {x \in V \X (1 .. N) : order[x[2]] \in is =>
                   x[1].mirror \in Sound(flags, known \cup {order[x[2]]},
                                         Promised(x[1], fit \cup {order[x[2]]}))}
           r0 == [mirror |-> m, dead |-> FALSE]
<1>1. order \in Seq(Issues) /\ \A i \in Issues : \E n \in 1 .. N : order[n] = i
  BY OrdersCover
<1>2. ASSUME NEW r \in V, NEW i \in is
      PROVE  LET s == Repairing(r, i, order, reachable)
             IN  /\ s \in V
                 /\ s.mirror \in Sound(flags, known \cup {i}, Promised(s, fit \cup {i}))
  <2> DEFINE s == Repairing(r, i, order, reachable)
  <2>1. /\ s \in [mirror : Mirror, dead : BOOLEAN]
        /\ s.mirror \in Sound(flags, known, Promised(s, fit))
        /\ r.dead => s = r
        /\ ~r.dead => s.mirror \in Sound(flags, known \cup {i}, Promised(s, fit \cup {i}))
    BY RepairingKeeps
  <2> HIDE DEF s
  <2>2. s.dead => s.mirror \in Sound(flags, Issues, {})
    BY <1>2, <2>1 DEF Promised
  <2>3. s.mirror \in Sound(flags, known \cup {i}, Promised(s, fit \cup {i}))
    BY <1>2, <2>1, <2>2 DEF Promised
  <2>. QED  BY <2>1, <2>2, <2>3 DEF s
<1>3. r0 \in V
  BY DEF Promised, Sound
<1>4. \A r \in V : \A i \in Issues : i \in is => Repairing(r, i, order, reachable) \in V
  BY <1>2
<1>5. PICK g : RepairsThrough(g, V, r0, m, is, order, reachable)
  <2> HIDE DEF V
  <2>. QED  BY <1>1, <1>3, <1>4, RepairingAllFolds
<1>6. N \in Nat /\ \A n \in 1 .. N : order[n] \in Issues /\ n - 1 \in 0 .. N /\ n \in 0 .. N
  BY <1>1
<1>7. /\ g \in [0 .. N -> V] /\ g[N] = RepairingAll(m, is, order, reachable)
      /\ \A n \in 1 .. N :
           g[n] = IF order[n] \in is THEN Repairing(g[n - 1], order[n], order, reachable)
                  ELSE g[n - 1]
  <2> HIDE DEF V
  <2>. QED  BY <1>5 DEF RepairsThrough
<1> HIDE DEF N, r0
<1>8. \A n \in 0 .. N : g[n] \in V
  BY <1>7
<1>9. \A n \in 1 .. N : order[n] \in is =>
        g[n].mirror \in Sound(flags, known \cup {order[n]}, Promised(g[n], fit \cup {order[n]}))
  BY <1>2, <1>6, <1>7, <1>8
<1>10. ASSUME NEW n \in 1 .. N
       PROVE  <<g[n], n>> \in D
  BY <1>6, <1>8, <1>9
<1>11. ASSUME NEW n \in 1 .. N, NEW j \in 1 .. n - 1, <<g[n - 1], j>> \in D
       PROVE  <<g[n], j>> \in D
  <2>1. j \in 1 .. N
    BY <1>6
  <2>2. CASE order[n] \in is /\ order[j] \in is
    <3>1. g[n - 1].mirror \in Sound(flags, known \cup {order[j]},
                                    Promised(g[n - 1], fit \cup {order[j]}))
      BY <1>11, <2>1, <2>2
    <3>2. /\ g[n - 1] \in [mirror : Mirror, dead : BOOLEAN] /\ order[n] \in Issues
          /\ g[n] = Repairing(g[n - 1], order[n], order, reachable)
      BY <1>6, <1>7, <1>8, <2>2
    <3>3. g[n].mirror \in Sound(flags, known \cup {order[j]}, Promised(g[n], fit \cup {order[j]}))
      <4> DEFINE t == Repairing(g[n - 1], order[n], order, reachable)
      <4>1. t.mirror \in Sound(flags, known \cup {order[j]}, Promised(t, fit \cup {order[j]}))
        BY <3>1, <3>2, RepairingKeeps
      <4>. QED  BY <3>2, <4>1
    <3>. QED  BY <1>6, <1>8, <2>1, <3>3
  <2>3. CASE order[j] \notin is
    BY <1>6, <1>8, <2>1, <2>3
  <2>4. CASE order[n] \notin is
    BY <1>6, <1>7, <1>8, <1>11, <2>1, <2>4
  <2>. QED  BY <2>2, <2>3, <2>4
<1>12. \A j \in 1 .. N : <<g[N], j>> \in D
  <2> HIDE DEF D, V
  <2>. QED  BY <1>6, <1>10, <1>11, EachIsDone
<1>13. \A i \in is : g[N].mirror \in Sound(flags, known \cup {i}, Promised(g[N], fit \cup {i}))
  <2>1. SUFFICES ASSUME NEW i \in is
                 PROVE  g[N].mirror \in Sound(flags, known \cup {i}, Promised(g[N], fit \cup {i}))
    OBVIOUS
  <2>2. PICK j \in 1 .. N : order[j] = i
    BY <1>1 DEF N
  <2>3. <<g[N], j>> \in D
    BY <1>12
  <2>. QED  BY <2>2, <2>3 DEF D
<1>14. g[N].mirror \in Sound(flags, known, Promised(g[N], fit)) /\ g[N].dead \in BOOLEAN
  BY <1>6, <1>8
<1>15. g[N].mirror \in Sound(flags, known \cup is, Promised(g[N], fit \cup is))
  BY <1>13, <1>14 DEF Sound, Promised
<1>. QED  BY <1>7, <1>14, <1>15

\* What an operator's clearing takes away, and what it keeps.
LEMMA SoundRepairsCleared ==
  ASSUME NEW known, NEW fit, NEW m \in Sound({}, known, fit), NEW order \in Orders
  PROVE  /\ RepairsCleared(m, order) \in Sound({}, known, fit)
         /\ \A i \in Issues : "runtime" \notin RepairsCleared(m, order).repair[i]
<1> DEFINE N == Len(order)
           V == Sound({}, known, fit)
           D == {x \in V \X (1 .. N) : "runtime" \notin x[1].repair[order[x[2]]]}
<1>1. order \in Seq(Issues) /\ \A i \in Issues : \E n \in 1 .. N : order[n] = i
  BY OrdersCover
<1>2. ASSUME NEW v \in V, NEW i \in Issues
      PROVE  /\ Normalized(v, i, {}) \in V
             /\ "runtime" \notin Normalized(v, i, {}).repair[i]
             /\ \A j \in Issues : "runtime" \notin v.repair[j] =>
                                    "runtime" \notin Normalized(v, i, {}).repair[j]
  <2> DEFINE n == Normalized(v, i, {})
  <2>1. v \in Mirror
    BY DEF Sound
  <2>2. n \in V
    <3>1. n \in Sound({}, known \cup {i}, fit \cup {i})
      BY SoundNormalized
    <3>2. Sound({}, known \cup {i}, fit \cup {i}) \subseteq V
      BY SoundWeakens
    <3>. QED  BY <3>1, <3>2
  <2>3. Writes(n, v, i, {})
    BY <2>1, NormalizedWrites
  <2>4. "runtime" \notin StatusReasons(v, i) \cup DependencyReasons(v, i)
    BY DEF StatusReasons, DependencyReasons
  <2>5. DOMAIN v.repair = Issues
    BY <2>1 DEF Mirror
  <2> HIDE DEF n, V
  <2>6. /\ "runtime" \notin n.repair[i]
        /\ \A j \in Issues : "runtime" \notin v.repair[j] => "runtime" \notin n.repair[j]
    BY <2>3, <2>4, <2>5 DEF Writes
  <2>. QED  BY <2>2, <2>6 DEF n
<1>3. \A v \in V : \A i \in Issues : "runtime" \in v.repair[i] => Normalized(v, i, {}) \in V
  BY <1>2
<1>4. PICK g : Clears(g, V, m, order)
  <2>1. m \in V
    OBVIOUS
  <2> HIDE DEF V
  <2>. QED  BY <1>1, <1>3, <2>1, RepairsClearedFolds
<1>5. N \in Nat /\ \A n \in 1 .. N : order[n] \in Issues /\ n - 1 \in 0 .. N /\ n \in 0 .. N
  BY <1>1
<1>6. /\ g \in [0 .. N -> V] /\ g[N] = RepairsCleared(m, order)
      /\ \A n \in 1 .. N : g[n] = IF "runtime" \in g[n - 1].repair[order[n]]
                                  THEN Normalized(g[n - 1], order[n], {}) ELSE g[n - 1]
  <2> HIDE DEF V
  <2>. QED  BY <1>4 DEF Clears
<1> HIDE DEF N, V
<1>7. \A n \in 0 .. N : g[n] \in V
  BY <1>6
<1>8. ASSUME NEW n \in 1 .. N
      PROVE  <<g[n], n>> \in D
  <2>1. "runtime" \notin g[n].repair[order[n]]
    BY <1>2, <1>5, <1>6, <1>7
  <2>. QED  BY <1>5, <1>7, <2>1
<1>9. ASSUME NEW n \in 1 .. N, NEW j \in 1 .. n - 1, <<g[n - 1], j>> \in D
      PROVE  <<g[n], j>> \in D
  <2>1. j \in 1 .. N
    BY <1>5
  <2>2. "runtime" \notin g[n].repair[order[j]]
    BY <1>2, <1>5, <1>6, <1>7, <1>9, <2>1
  <2>. QED  BY <1>5, <1>7, <2>1, <2>2
<1> HIDE DEF D
<1>10. \A j \in 1 .. N : <<g[N], j>> \in D
  BY <1>5, <1>8, <1>9, EachIsDone
<1>11. \A i \in Issues : "runtime" \notin g[N].repair[i]
  BY <1>1, <1>10 DEF D, N
<1>. QED  BY <1>5, <1>6, <1>7, <1>11 DEF V

-----------------------------------------------------------------------------
(* The invariant *)

\* The issues whose outcome must show: none while repairs may have been cut short.
Shown(short) == IF short THEN {} ELSE Issues

\* A transaction that leaves everything known, and everything fit unless it became
\* a dead letter, keeps the invariant.
LEMMA ProcessedKeeps ==
  ASSUME cutShort \in BOOLEAN, NEW flags \in SUBSET Issues, NEW known, NEW fit, NEW r,
         r.dead \in BOOLEAN, r.mirror \in Sound(flags, known, Promised(r, fit)),
         Issues \subseteq known, Shown(cutShort) \subseteq fit, Processed(r)
  PROVE  mirror' \in Sound(flags, Issues, Shown(cutShort'))
<1>1. mirror' = r.mirror /\ cutShort' = (cutShort \/ r.dead)
  BY DEF Processed
<1>2. Shown(cutShort') \subseteq Promised(r, fit)
  BY <1>1 DEF Shown, Promised
<1>3. Issues \cap Issues \subseteq known /\ Shown(cutShort') \cap Issues \subseteq Promised(r, fit)
  BY <1>2
<1>4. Sound(flags, known, Promised(r, fit)) \subseteq Sound(flags, Issues, Shown(cutShort'))
  BY <1>3, SoundWeakens
<1>. QED  BY <1>1, <1>4

\* A route that writes a sound mirror keeps it sound.
LEMMA WroteKeeps ==
  ASSUME cutShort \in BOOLEAN, NEW flags \in SUBSET Issues, NEW known, NEW fit,
         NEW m \in Sound(flags, known, fit),
         Issues \subseteq known, Shown(cutShort) \subseteq fit, Wrote(m)
  PROVE  mirror' \in Sound(flags, Issues, Shown(cutShort'))
<1> DEFINE r == [mirror |-> m, dead |-> FALSE]
<1>1. r.dead = FALSE /\ r.mirror = m /\ Processed(r) /\ Promised(r, fit) = fit
  BY DEF Wrote, Promised
<1> HIDE DEF r
<1>2. r.dead \in BOOLEAN /\ r.mirror \in Sound(flags, known, Promised(r, fit))
  BY <1>1
<1>. QED  BY <1>1, <1>2, ProcessedKeeps

\* What GitHub does leaves the mirror alone, and sends what may be delivered.
LEMMA GitHubSends ==
  ASSUME GitHubTypes, SentTypes, GitHubNext
  PROVE  GitHubTypes' /\ SentTypes' /\ mirror' = mirror /\ cutShort' = cutShort
<1>1. ASSUME NEW i \in Issues, NEW v \in IssueChoices, ChangeIssue(i, v)
      PROVE  GitHubTypes' /\ SentTypes' /\ mirror' = mirror /\ cutShort' = cutShort
  <2>1. v \in [open : BOOLEAN, text : SUBSET Issues, native : SUBSET Issues]
    BY MirrorAssumption
  <2>2. GitHubTypes'
    BY <1>1, <2>1 DEF GitHubTypes, ChangeIssue
  <2>3. SentTypes'
    BY <1>1 DEF SentTypes, ChangeIssue, Changed, Deliverable
  <2>. QED  BY <1>1, <2>2, <2>3 DEF ChangeIssue, Changed
<1>2. ASSUME NEW p \in Pulls, NEW v \in PullChoices, ChangePull(p, v)
      PROVE  GitHubTypes' /\ SentTypes' /\ mirror' = mirror /\ cutShort' = cutShort
  <2>1. v \in PullPayloads
    BY MirrorAssumption DEF PullPayloads
  <2>2. GitHubTypes'
    BY <1>2, <2>1 DEF GitHubTypes, ChangePull
  <2>3. SentTypes'
    BY <1>2 DEF SentTypes, ChangePull, Changed, Deliverable
  <2>. QED  BY <1>2, <2>2, <2>3 DEF ChangePull, Changed
<1>3. ASSUME NEW i \in Issues, NEW c \in Columns \cup {"none", "off"}, MoveCard(i, c)
      PROVE  GitHubTypes' /\ SentTypes' /\ mirror' = mirror /\ cutShort' = cutShort
  <2>1. gColumn' \in Boards
    BY <1>3 DEF GitHubTypes, MoveCard, Boards
  <2>2. GitHubTypes'
    BY <1>3, <2>1 DEF GitHubTypes, MoveCard
  <2>3. SentTypes'
    <3>1. sent' = sent \cup {[kind |-> "board", of |-> gColumn']}
      BY <1>3 DEF MoveCard, Changed
    <3>2. /\ Deliverable("issue")' = Deliverable("issue")
          /\ Deliverable("pull")' = Deliverable("pull")
          /\ \A d \in Deliverable("board")' : d \in Deliverable("board") \/ d.of = gColumn'
      BY <3>1 DEF Deliverable
    <3>. QED  BY <2>1, <3>2 DEF SentTypes
  <2>. QED  BY <1>3, <2>2, <2>3 DEF MoveCard, Changed
<1>. QED  BY <1>1, <1>2, <1>3 DEF GitHubNext

\* An issue delivery writes the row of the issue and repairs it.
LEMMA IssueDeliveredKeeps ==
  ASSUME GitHubTypes, SentTypes, cutShort \in BOOLEAN, NEW flags \in SUBSET Issues,
         mirror \in Sound(flags, Issues, Shown(cutShort)),
         NEW d \in Deliverable("issue"), NEW order \in Orders, NEW reachable,
         IssueDelivered(d, order, reachable)
  PROVE  mirror' \in Sound(flags, Issues, Shown(cutShort'))
<1> DEFINE fit == Shown(cutShort)
           m == IssueUpserted(mirror, d.of, IssueObject(d.value))
           r == RepairingAll(m, {d.of}, order, reachable)
<1>1. d.of \in Issues /\ IssueObject(d.value) \in Payloads
  <2>1. d.value \in [open : BOOLEAN, text : SUBSET Issues, native : SUBSET Issues]
    BY MirrorAssumption DEF SentTypes
  <2>2. NoNative \in [Issues -> NativeStates] /\ NoClosers \in [Pulls -> PullStates \cup {"none"}]
    BY DEF NativeStates, NoNative, NoClosers
  <2>. QED  BY <2>1, <2>2 DEF SentTypes, IssueObject, Payloads
<1>2. m \in Sound(flags, Issues \ {d.of}, fit \ {d.of})
  BY <1>1, SoundIssueUpserted
<1>3. Processed(r)
  BY DEF IssueDelivered
<1> HIDE DEF m
<1>4. \A i \in {d.of} : (Issues \ {d.of}) \cup {i} = Issues
  BY <1>1
<1>5. /\ r.mirror \in Sound(flags, (Issues \ {d.of}) \cup {d.of},
                            Promised(r, (fit \ {d.of}) \cup {d.of}))
      /\ r.dead \in BOOLEAN
  BY <1>1, <1>2, <1>4, SoundRepairingAll
<1> HIDE DEF r, fit
<1>6. Issues \subseteq (Issues \ {d.of}) \cup {d.of} /\ fit \subseteq (fit \ {d.of}) \cup {d.of}
  OBVIOUS
<1>. QED  BY <1>3, <1>5, <1>6, ProcessedKeeps DEF fit

\* A pull request delivery writes its row and links, and repairs the issues it links.
LEMMA PullDeliveredKeeps ==
  ASSUME GitHubTypes, SentTypes, cutShort \in BOOLEAN, NEW flags \in SUBSET Issues,
         mirror \in Sound(flags, Issues, Shown(cutShort)),
         NEW d \in Deliverable("pull"), NEW order \in Orders, NEW reachable,
         PullDelivered(d, order, reachable)
  PROVE  mirror' \in Sound(flags, Issues, Shown(cutShort'))
<1> DEFINE fit == Shown(cutShort)
           m == PullUpserted(mirror, d.of, d.value)
           is == m.items[d.of]
           r == RepairingAll(m, is, order, reachable)
<1>1. d.of \in Pulls /\ d.value \in PullPayloads
  BY MirrorAssumption DEF SentTypes, PullPayloads
<1>2. m \in Sound(flags, Issues, fit \ is) /\ is \in SUBSET Issues
  BY <1>1, SoundPullUpserted
<1>3. Processed(r)
  BY DEF PullDelivered
<1> HIDE DEF m, is
<1>4. \A i \in is : Issues \cup {i} = Issues
  BY <1>2
<1>5. /\ r.mirror \in Sound(flags, Issues \cup is, Promised(r, (fit \ is) \cup is))
      /\ r.dead \in BOOLEAN
  BY <1>2, <1>4, SoundRepairingAll
<1> HIDE DEF r, fit
<1>6. Issues \subseteq Issues \cup is /\ fit \subseteq (fit \ is) \cup is
  OBVIOUS
<1>. QED  BY <1>3, <1>5, <1>6, ProcessedKeeps DEF fit

\* A board delivery writes the columns of the issues and repairs them all.
LEMMA BoardDeliveredKeeps ==
  ASSUME GitHubTypes, SentTypes, cutShort \in BOOLEAN, NEW flags \in SUBSET Issues,
         mirror \in Sound(flags, Issues, Shown(cutShort)),
         NEW d \in Deliverable("board"), NEW order \in Orders, NEW reachable,
         BoardDelivered(d, order, reachable)
  PROVE  mirror' \in Sound(flags, Issues, Shown(cutShort'))
<1> DEFINE m == BoardUpserted(mirror, d.of)
           is == m.issues
           r == RepairingAll(m, is, order, reachable)
<1>1. d.of \in Boards
  BY DEF SentTypes
<1>2. m \in Sound(flags, Issues, Issues \ is) /\ is \in SUBSET Issues
  <2>1. m \in Sound(flags, Issues, {})
    BY <1>1, SoundBoardUpserted
  <2> HIDE DEF m
  <2>. QED  BY <2>1 DEF Sound, Mirror
<1>3. Processed(r)
  BY DEF BoardDelivered
<1> HIDE DEF m, is
<1>4. \A i \in is : Issues \cup {i} = Issues
  BY <1>2
<1>5. /\ r.mirror \in Sound(flags, Issues \cup is, Promised(r, (Issues \ is) \cup is))
      /\ r.dead \in BOOLEAN
  BY <1>2, <1>4, SoundRepairingAll
<1> HIDE DEF r
<1>6. Issues \subseteq Issues \cup is /\ Shown(cutShort) \subseteq (Issues \ is) \cup is
  BY DEF Shown
<1>. QED  BY <1>3, <1>5, <1>6, ProcessedKeeps

\* The route that repairs an issue, and the runtime that flags one.
LEMMA RoutesKeep ==
  ASSUME GitHubTypes, cutShort \in BOOLEAN, NEW flags \in SUBSET Issues,
         mirror \in Sound(flags, Issues, Shown(cutShort)), NEW i \in Issues,
         RepairIssueByRoute(i) \/ FlagRuntimeRepair(i)
  PROVE  mirror' \in Sound(flags, Issues, Shown(cutShort'))
<1>1. CASE RepairIssueByRoute(i)
  <2>1. RepairIssue(mirror, i) \in Sound(flags, Issues \cup {i}, Shown(cutShort) \cup {i})
    BY SoundRepairIssue
  <2>2. Wrote(RepairIssue(mirror, i))
    BY <1>1 DEF RepairIssueByRoute
  <2>3. Issues \subseteq Issues \cup {i} /\ Shown(cutShort) \subseteq Shown(cutShort) \cup {i}
    OBVIOUS
  <2>. QED  BY <2>1, <2>2, <2>3, WroteKeeps
<1>2. CASE FlagRuntimeRepair(i)
  <2> DEFINE n == [mirror EXCEPT !.repair[i] = @ \cup {"runtime"}]
             repair == [mirror.repair EXCEPT ![i] = @ \cup {"runtime"}]
  <2>1. mirror \in Mirror
    BY DEF Sound
  <2>2. repair \in [Issues -> SUBSET Reasons] /\ n = [mirror EXCEPT !.repair = repair]
    BY <2>1 DEF Mirror, Reasons
  <2>3. \A j \in Issues : mirror.repair[j] \subseteq repair[j]
    BY <2>1 DEF Mirror
  <2> HIDE DEF n, repair
  <2>4. /\ n \in Mirror /\ SameRows(n, mirror) /\ n.prs = mirror.prs /\ n.status = mirror.status
        /\ n.dependency = mirror.dependency /\ n.handoff = mirror.handoff /\ n.repair = repair
    BY <2>1, <2>2 DEF Mirror, SameRows
  <2>5. n \in Sound(flags, Issues, Shown(cutShort))
    BY <2>3, <2>4 DEF Sound, Linked, Known, Fit, SameRows
  <2>6. Wrote(n)
    BY <1>2 DEF FlagRuntimeRepair, n
  <2>. QED  BY <2>5, <2>6, WroteKeeps
<1>. QED  BY <1>1, <1>2

\* The route that repairs a pull request normalizes the issues it links.
LEMMA PullRouteKeeps ==
  ASSUME GitHubTypes, cutShort \in BOOLEAN, NEW flags \in SUBSET Issues,
         mirror \in Sound(flags, Issues, Shown(cutShort)),
         NEW p \in Pulls, NEW order \in Orders, RepairPullByRoute(p, order)
  PROVE  mirror' \in Sound(flags, Issues, Shown(cutShort'))
<1> DEFINE fit == Shown(cutShort)
           m == PullUpserted(mirror, p, gPull[p])
           is == m.items[p]
<1>1. m \in Sound(flags, Issues, fit \ is) /\ is \in SUBSET Issues
  <2>1. gPull[p] \in PullPayloads
    BY DEF GitHubTypes
  <2>. QED  BY <2>1, SoundPullUpserted
<1>2. Wrote(NormalizeAll(m, is, order))
  BY DEF RepairPullByRoute
<1> HIDE DEF m, is
<1>3. NormalizeAll(m, is, order) \in Sound(flags, Issues \cup is, (fit \ is) \cup is)
  BY <1>1, SoundNormalizeAll
<1>4. Issues \subseteq Issues \cup is /\ fit \subseteq (fit \ is) \cup is
  OBVIOUS
<1> HIDE DEF fit
<1>. QED  BY <1>2, <1>3, <1>4, WroteKeeps DEF fit

\* The routes that repair the board and that refresh the mirror leave every issue sound.
LEMMA RefreshesKeep ==
  ASSUME GitHubTypes, cutShort \in BOOLEAN, NEW flags \in SUBSET Issues,
         mirror \in Sound(flags, Issues, Shown(cutShort)), NEW order \in Orders,
         RepairProjectByRoute(order) \/ RefreshMirror(order)
  PROVE  mirror' \in Sound(flags, Issues, Shown(cutShort'))
<1>1. RepairProject(mirror, order) \in Sound(flags, Issues, Issues)
  BY SoundRepairProject
<1>2. Refreshed(mirror, order) \in Sound(flags, Issues, Issues)
  BY <1>1, SoundRepairIssues DEF Refreshed
<1>3. Shown(cutShort) \subseteq Issues
  BY DEF Shown
<1>. QED  BY <1>1, <1>2, <1>3, WroteKeeps DEF RepairProjectByRoute, RefreshMirror

\* What is sound stays so, and what is flagged stays flagged, through every step
\* but the operator's clearing, which leaves nothing flagged.
LEMMA StepKeeps ==
  ASSUME IInv, NEW flags \in SUBSET Issues, \A i \in flags : "runtime" \in mirror.repair[i],
         [Next]_vars
  PROVE  /\ GitHubTypes' /\ SentTypes' /\ cutShort' \in BOOLEAN
         /\ \/ mirror' \in Sound(flags, Issues, Shown(cutShort'))
            \/ /\ mirror' \in Sound({}, Issues, Shown(cutShort'))
               /\ \A i \in Issues : "runtime" \notin mirror'.repair[i]
<1>1. /\ GitHubTypes /\ SentTypes /\ cutShort \in BOOLEAN
      /\ mirror \in Sound(flags, Issues, Shown(cutShort))
      /\ mirror \in Sound({}, Issues, Shown(cutShort))
  BY DEF IInv, Sound, Shown
<1>2. CASE GitHubNext
  BY <1>1, <1>2, GitHubSends
<1>3. CASE ControlNext
  <2>1. /\ cutShort' \in BOOLEAN
        /\ UNCHANGED <<gIssue, gPull, gColumn, sent, changes>>
    <3>1. PICK r : Processed(r)
      BY <1>3 DEF ControlNext, IssueDelivered, PullDelivered, BoardDelivered, RepairIssueByRoute,
                  FlagRuntimeRepair, RepairPullByRoute, RepairProjectByRoute, RefreshMirror,
                  ClearRuntimeRepairs, Wrote
    <3>. QED  BY <3>1 DEF Processed
  <2>2. GitHubTypes' /\ SentTypes' /\ cutShort' \in BOOLEAN
    BY <1>1, <2>1 DEF GitHubTypes, SentTypes, Deliverable
  <2>3. ASSUME NEW order \in Orders, NEW reachable \in Answers,
               \/ \E d \in Deliverable("issue") : IssueDelivered(d, order, reachable)
               \/ \E d \in Deliverable("pull") : PullDelivered(d, order, reachable)
               \/ \E d \in Deliverable("board") : BoardDelivered(d, order, reachable)
        PROVE  mirror' \in Sound(flags, Issues, Shown(cutShort'))
    BY <1>1, <2>3, IssueDeliveredKeeps, PullDeliveredKeeps, BoardDeliveredKeeps
  <2>4. ASSUME NEW i \in Issues, RepairIssueByRoute(i) \/ FlagRuntimeRepair(i)
        PROVE  mirror' \in Sound(flags, Issues, Shown(cutShort'))
    BY <1>1, <2>4, RoutesKeep
  <2>5. ASSUME NEW order \in Orders,
               \/ \E p \in Pulls : RepairPullByRoute(p, order)
               \/ RepairProjectByRoute(order) \/ RefreshMirror(order)
        PROVE  mirror' \in Sound(flags, Issues, Shown(cutShort'))
    BY <1>1, <2>5, PullRouteKeeps, RefreshesKeep
  <2>6. ASSUME NEW order \in Orders, ClearRuntimeRepairs(order)
        PROVE  /\ mirror' \in Sound({}, Issues, Shown(cutShort'))
               /\ \A i \in Issues : "runtime" \notin mirror'.repair[i]
    <3>1. /\ RepairsCleared(mirror, order) \in Sound({}, Issues, Shown(cutShort))
          /\ \A i \in Issues : "runtime" \notin RepairsCleared(mirror, order).repair[i]
      BY <1>1, SoundRepairsCleared
    <3>2. mirror' = RepairsCleared(mirror, order) /\ cutShort' = (cutShort \/ FALSE)
      BY <2>6 DEF ClearRuntimeRepairs, Wrote, Processed
    <3>. QED  BY <1>1, <3>1, <3>2
  <2>. QED  BY <1>3, <2>2, <2>3, <2>4, <2>5, <2>6 DEF ControlNext
<1>4. CASE UNCHANGED vars
  BY <1>1, <1>4 DEF vars, GitHubTypes, SentTypes, Deliverable
<1>. QED  BY <1>2, <1>3, <1>4 DEF Next

\* An empty mirror is sound.
LEMMA InitSound ==
  ASSUME Init
  PROVE  IInv
<1>1. mirror \in Mirror
  BY DEF Init, Mirror, Payloads, NoIssue, NoNative, NoClosers, NativeStates, NoPull,
         PullPayloads, PullStates, Boards, Statuses, NoStatus
<1>2. mirror.issues = {} /\ mirror.pulls = {} /\ \A p \in Pulls : mirror.items[p] = {}
  BY DEF Init
<1>3. mirror \in Sound({}, Issues, IF cutShort THEN {} ELSE Issues)
  BY <1>1, <1>2 DEF Sound, Linked
<1>4. GitHubTypes /\ SentTypes /\ cutShort \in BOOLEAN
  BY DEF Init, GitHubTypes, SentTypes, Deliverable, PullPayloads, PullStates, Boards
<1>. QED  BY <1>3, <1>4 DEF IInv

\* Every step keeps the inductive invariant: no issue need be flagged for it.
LEMMA IInvStep ==
  ASSUME IInv, [Next]_vars
  PROVE  IInv'
<1>1. /\ GitHubTypes' /\ SentTypes' /\ cutShort' \in BOOLEAN
      /\ mirror' \in Sound({}, Issues, Shown(cutShort'))
  BY StepKeeps
<1>. QED  BY <1>1 DEF IInv, Shown

\* The rows, GitHub and what has been sent are what they are declared to be; links
\* agree; what is mirrored is known; and what is over or handed off shows, unless a
\* delivery became a dead letter.
THEOREM MirrorSound == Spec => []IInv
BY InitSound, IInvStep, PTL DEF Spec

\* A pull request and a work item know of each other (_sync_issue_pull_request_links).
THEOREM LinksAlwaysAgree == Spec => []LinksAgree
<1>1. IInv => LinksAgree
  BY DEF IInv, Sound, Linked, LinksAgree
<1>. QED  BY <1>1, MirrorSound, PTL

\* What a row depends on, by the text or by GitHub's own field, and is not known, is
\* never taken for done (_dependency_state).
THEOREM ClearAlwaysKnown == Spec => []ClearIsKnown
<1>1. IInv => ClearIsKnown
  BY DEF IInv, Sound, Known, Mirror, ClearIsKnown
<1>. QED  BY <1>1, MirrorSound, PTL

\* What is over or handed off shows after each transaction, while GitHub answers
\* (_reconcile_project_work_items, normalize_for_pull_request).
THEOREM OutcomesAlwaysShow == Spec => []OutcomesShow
<1>1. IInv => OutcomesShow
  <2>1. SUFFICES ASSUME IInv, ~cutShort
                 PROVE  \A i \in mirror.issues : Fit(mirror, i)
    BY DEF OutcomesShow, ClosedIsDone, PullShows, Fit
  <2>. QED  BY <2>1 DEF IInv, Sound, Mirror
<1>. QED  BY <1>1, MirrorSound, PTL

\* What the runtime has flagged stays flagged until an operator clears the product.
THEOREM RuntimeRepairsAlwaysSurvive == Spec => RuntimeRepairsSurvive
<1>1. IInv /\ [Next]_vars =>
        [\A i \in Issues :
           "runtime" \in mirror.repair[i] /\ "runtime" \notin mirror'.repair[i] =>
             \A j \in Issues : "runtime" \notin mirror'.repair[j]]_vars
  <2>1. SUFFICES ASSUME IInv, [Next]_vars,
                        NEW i \in Issues, "runtime" \in mirror.repair[i],
                        "runtime" \notin mirror'.repair[i], NEW j \in Issues
                 PROVE  "runtime" \notin mirror'.repair[j]
    OBVIOUS
  <2>2. \/ mirror' \in Sound({i}, Issues, Shown(cutShort'))
        \/ \A k \in Issues : "runtime" \notin mirror'.repair[k]
    BY <2>1, StepKeeps
  <2>. QED  BY <2>1, <2>2 DEF Sound
<1>. QED  BY <1>1, MirrorSound, PTL DEF Spec, RuntimeRepairsSurvive

-----------------------------------------------------------------------------
(* Refreshing *)

\* What GitHub answers for each issue.
Snapshots == [i \in Issues |-> IssueSnapshot(i)]

\* GitHub's snapshots are payloads that a row may hold.
LEMMA SnapshotTypes ==
  ASSUME GitHubTypes
  PROVE  /\ \A i \in Issues : IssueSnapshot(i) \in Payloads
         /\ \A i \in Issues : IssueSnapshot(i).open = gIssue[i].open
         /\ \A i \in Issues : Snapshots[i] = IssueSnapshot(i)
BY DEF IssueSnapshot, Payloads, GitHubTypes, NativeStates, PullPayloads, Snapshots

\* What a repair writes; u is the mirror when the issue's row has been written.
Repaired(n, u, m, i) ==
  /\ n \in Mirror /\ u \in Mirror
  /\ n.issues = m.issues \cup {i} /\ n.pulls = m.pulls /\ n.pull = m.pull
  /\ n.column = m.column /\ n.issue = [m.issue EXCEPT ![i] = IssueSnapshot(i)]
  /\ \A j \in Issues \ {i} :
       /\ n.status[j] = m.status[j] /\ n.dependency[j] = m.dependency[j]
       /\ n.handoff[j] = m.handoff[j] /\ n.prs[j] = m.prs[j]
       /\ n.repair[j] = m.repair[j]
       /\ \A p \in Pulls : j \in n.items[p] <=> j \in m.items[p]
  /\ \A p \in Pulls : i \in n.items[p] <=> p \in m.pulls /\ i \in m.pull[p].refs
  /\ n.status[i] = CanonicalStatus(u, i) /\ n.dependency[i] = DependencyState(u, i)
  /\ n.handoff[i] = Handoff(u, i) /\ n.prs[i] = LinkedPulls(u, i)
  /\ n.repair[i] = StatusReasons(u, i) \cup DependencyReasons(u, i)
                     \cup (m.repair[i] \cap {"runtime"})
  /\ SameRows(n, u)
  /\ \A j \in Issues \ {i} : u.status[j] = m.status[j]
  /\ u.prs[i] = {p \in m.pulls : i \in m.pull[p].refs}
                  \cup {p \in Pulls : IssueSnapshot(i).closers[p] # "none"}

\* Repairing an issue writes its row from GitHub, its links, and normalizes it.
LEMMA RepairIssueWrites ==
  ASSUME GitHubTypes, NEW m \in Mirror, NEW i \in Issues
  PROVE  Repaired(RepairIssue(m, i), IssueUpserted(m, i, IssueSnapshot(i)), m, i)
<1> DEFINE u == IssueUpserted(m, i, IssueSnapshot(i))
           n == Normalized(u, i, {"runtime"})
           linking == {p \in m.pulls : i \in m.pull[p].refs}
           closing == {p \in Pulls : IssueSnapshot(i).closers[p] # "none"}
<1>1. /\ u \in Mirror
      /\ u.issues = m.issues \cup {i} /\ u.pulls = m.pulls
      /\ u.issue = [m.issue EXCEPT ![i] = IssueSnapshot(i)]
      /\ u.pull = m.pull /\ u.column = m.column
      /\ u.items = [p \in Pulls |-> IF p \in linking THEN m.items[p] \cup {i}
                                    ELSE m.items[p] \ {i}]
      /\ \A j \in Issues \ {i} : u.status[j] = m.status[j] /\ u.prs[j] = m.prs[j]
      /\ u.prs[i] = linking \cup closing
      /\ u.dependency = m.dependency /\ u.handoff = m.handoff /\ u.repair = m.repair
  BY SnapshotTypes, IssueUpsertedWrites
<1>2. RepairIssue(m, i) = n
  BY DEF RepairIssue, Normalize
<1> HIDE DEF u, closing
<1>3. Writes(n, u, i, {"runtime"})
  BY <1>1, NormalizedWrites
<1> HIDE DEF n
<1>4. /\ DOMAIN u.status = Issues /\ DOMAIN u.dependency = Issues /\ DOMAIN u.handoff = Issues
      /\ DOMAIN u.prs = Issues /\ DOMAIN u.repair = Issues
  BY <1>1 DEF Mirror
<1>5. \A p \in Pulls : i \in n.items[p] <=> p \in linking
  BY <1>1, <1>3 DEF Writes
<1>6. \A p \in Pulls : \A j \in Issues \ {i} : j \in n.items[p] <=> j \in m.items[p]
  <2> HIDE DEF linking
  <2>. QED  BY <1>1, <1>3 DEF Writes
<1>7. \A p \in Pulls : i \in n.items[p] <=> p \in m.pulls /\ i \in m.pull[p].refs
  BY <1>5
<1> HIDE DEF linking
<1>8. /\ \A j \in Issues \ {i} :
           /\ n.status[j] = m.status[j] /\ n.dependency[j] = m.dependency[j]
           /\ n.handoff[j] = m.handoff[j] /\ n.prs[j] = m.prs[j]
           /\ n.repair[j] = m.repair[j]
      /\ n.status[i] = CanonicalStatus(u, i) /\ n.dependency[i] = DependencyState(u, i)
      /\ n.handoff[i] = Handoff(u, i) /\ n.prs[i] = LinkedPulls(u, i)
      /\ n.repair[i] = StatusReasons(u, i) \cup DependencyReasons(u, i)
                         \cup (m.repair[i] \cap {"runtime"})
  BY <1>1, <1>3, <1>4 DEF Writes
<1>9. SameRows(n, u)
  BY <1>3 DEF Writes, SameRows
<1>10. Repaired(n, u, m, i)
  BY <1>1, <1>3, <1>6, <1>7, <1>8, <1>9 DEF Writes, Repaired, linking, closing
<1>. QED  BY <1>2, <1>10 DEF u

\* One refresh mirrors every issue, and shows what is over.
LEMMA RefreshMirrors ==
  ASSUME IInv, NEW order \in Orders
  PROVE  LET n == Refreshed(mirror, order)
         IN  n \in Mirror /\ n.issues = Issues /\ n.issue = Snapshots /\ Mirrored(n)
<1> DEFINE x == RepairProject(mirror, order)
           V == Sound({}, Issues, Issues)
           by == ByNumber(Issues)
           N == Len(by)
           D == {y \in V \X (1 .. N) : /\ by[y[2]] \in y[1].issues
                                       /\ y[1].issue[by[y[2]]] = IssueSnapshot(by[y[2]])}
<1>1. GitHubTypes /\ x \in V
  BY SoundRepairProject DEF IInv
<1>2. ASSUME NEW v \in V, NEW i \in Issues
      PROVE  /\ RepairIssue(v, i) \in V
             /\ RepairIssue(v, i).issues = v.issues \cup {i}
             /\ RepairIssue(v, i).issue = [v.issue EXCEPT ![i] = IssueSnapshot(i)]
             /\ DOMAIN v.issue = Issues
  <2>1. RepairIssue(v, i) \in Sound({}, Issues \cup {i}, Issues \cup {i})
    BY <1>1, SoundRepairIssue
  <2>2. Issues \cup {i} = Issues
    OBVIOUS
  <2>3. v \in Mirror
    BY DEF Sound
  <2>4. /\ RepairIssue(v, i).issues = v.issues \cup {i}
        /\ RepairIssue(v, i).issue = [v.issue EXCEPT ![i] = IssueSnapshot(i)]
    <3>1. Repaired(RepairIssue(v, i), IssueUpserted(v, i, IssueSnapshot(i)), v, i)
      BY <1>1, <2>3, RepairIssueWrites
    <3>. QED  BY <3>1 DEF Repaired
  <2>. QED  BY <2>1, <2>2, <2>3, <2>4 DEF Mirror
<1> HIDE DEF x, V
<1>3. PICK g : Repairs(g, V, x, Issues, by)
  BY <1>1, <1>2, RepairIssuesFolds
<1>4. by \in Seq(Issues) /\ \A i \in Issues : \E n \in 1 .. N : by[n] = i
  BY ByNumberCovers
<1>5. N \in Nat /\ \A n \in 1 .. N : by[n] \in Issues /\ n - 1 \in 0 .. N /\ n \in 0 .. N
  BY <1>4
<1>6. /\ g \in [0 .. N -> V] /\ g[N] = Refreshed(mirror, order)
      /\ \A n \in 1 .. N : g[n] = RepairIssue(g[n - 1], by[n])
  BY <1>3 DEF Repairs, Refreshed, x
<1> HIDE DEF N, by
<1>7. \A n \in 0 .. N : g[n] \in V
  BY <1>6
<1>8. ASSUME NEW n \in 1 .. N
      PROVE  <<g[n], n>> \in D
  <2>1. g[n] = RepairIssue(g[n - 1], by[n]) /\ by[n] \in Issues /\ g[n - 1] \in V /\ g[n] \in V
    BY <1>5, <1>6, <1>7
  <2> DEFINE v == g[n - 1]
  <2> HIDE DEF v
  <2>3. /\ RepairIssue(v, by[n]).issues = v.issues \cup {by[n]}
        /\ RepairIssue(v, by[n]).issue = [v.issue EXCEPT ![by[n]] = IssueSnapshot(by[n])]
        /\ DOMAIN v.issue = Issues
    BY <1>2, <2>1 DEF v
  <2>2. by[n] \in g[n].issues /\ g[n].issue[by[n]] = IssueSnapshot(by[n])
    BY <2>1, <2>3 DEF v
  <2>. QED  BY <2>1, <2>2
<1>9. ASSUME NEW n \in 1 .. N, NEW j \in 1 .. n - 1, <<g[n - 1], j>> \in D
      PROVE  <<g[n], j>> \in D
  <2>1. j \in 1 .. N /\ by[j] \in Issues
    BY <1>5
  <2>2. g[n] = RepairIssue(g[n - 1], by[n]) /\ by[n] \in Issues /\ g[n - 1] \in V /\ g[n] \in V
    BY <1>5, <1>6, <1>7
  <2>3. by[j] \in g[n - 1].issues /\ g[n - 1].issue[by[j]] = IssueSnapshot(by[j])
    BY <1>9
  <2> DEFINE v == g[n - 1]
  <2> HIDE DEF v
  <2>5. /\ RepairIssue(v, by[n]).issues = v.issues \cup {by[n]}
        /\ RepairIssue(v, by[n]).issue = [v.issue EXCEPT ![by[n]] = IssueSnapshot(by[n])]
        /\ DOMAIN v.issue = Issues
    BY <1>2, <2>2 DEF v
  <2>4. by[j] \in g[n].issues /\ g[n].issue[by[j]] = IssueSnapshot(by[j])
    BY <2>1, <2>2, <2>3, <2>5 DEF v
  <2>. QED  BY <2>1, <2>2, <2>4
<1> HIDE DEF D
<1>10. \A j \in 1 .. N : <<g[N], j>> \in D
  BY <1>5, <1>8, <1>9, EachIsDone
<1>11. \A i \in Issues : i \in g[N].issues /\ g[N].issue[i] = IssueSnapshot(i)
  BY <1>4, <1>10 DEF D, N
<1>12. g[N] \in V
  BY <1>5, <1>7
<1>13. g[N] \in Mirror /\ g[N].issues = Issues
  BY <1>11, <1>12 DEF V, Sound, Mirror
<1>14. g[N].issue = Snapshots
  BY <1>11, <1>13 DEF Mirror, Snapshots
<1>15. Mirrored(g[N])
  <2>1. \A i \in Issues : Fit(g[N], i)
    BY <1>12, <1>13 DEF V, Sound
  <2>. QED  BY <1>1, <1>11, <2>1, SnapshotTypes DEF Fit, Mirrored
<1>. QED  BY <1>6, <1>13, <1>14, <1>15

\* What is read of an issue depends on its own row and lists, on the rows there are,
\* and on which of the other issues are done.
LEMMA SameReadings ==
  ASSUME NEW x, NEW y, NEW i \in Issues,
         x.issues = y.issues, x.pulls = y.pulls, x.issue = y.issue, x.pull = y.pull,
         x.column = y.column, x.prs[i] = y.prs[i], i \notin DependsOn(y, i),
         DependsOn(y, i) \subseteq Issues,
         \A d \in Issues \ {i} : x.status[d] = "Done" <=> y.status[d] = "Done"
  PROVE  /\ DependencyState(x, i) = DependencyState(y, i)
         /\ Handoff(x, i) = Handoff(y, i) /\ LinkedPulls(x, i) = LinkedPulls(y, i)
         /\ CanonicalStatus(x, i) = CanonicalStatus(y, i)
         /\ StatusReasons(x, i) = StatusReasons(y, i)
         /\ DependencyReasons(x, i) = DependencyReasons(y, i)
<1>1. DependsOn(x, i) = DependsOn(y, i) /\ Unknown(x, i) = Unknown(y, i)
  BY DEF DependsOn, Unknown
<1>2. \A d \in DependsOn(y, i) : Resolved(x, i, d) <=> Resolved(y, i, d)
  BY DEF Resolved
<1>3. DependencyState(x, i) = DependencyState(y, i)
  BY <1>1, <1>2 DEF DependencyState
<1>4. \A p \in Pulls : PullDetail(x, i, p) = PullDetail(y, i, p)
  BY DEF PullDetail
<1>5. LinkedPulls(x, i) = LinkedPulls(y, i)
  BY <1>4 DEF LinkedPulls
<1>6. Handoff(x, i) = Handoff(y, i)
  <2>1. {PullDetail(x, i, p) : p \in LinkedPulls(x, i)} = {PullDetail(y, i, p) : p \in LinkedPulls(y, i)}
    BY <1>4, <1>5 DEF LinkedPulls
  <2>. QED  BY <2>1 DEF Handoff
<1>7. CanonicalStatus(x, i) = CanonicalStatus(y, i)
  BY <1>3, <1>6 DEF CanonicalStatus, HasColumn
<1>8. /\ StatusReasons(x, i) = StatusReasons(y, i)
      /\ DependencyReasons(x, i) = DependencyReasons(y, i)
  BY <1>1 DEF StatusReasons, DependencyReasons, HasColumn
<1>. QED  BY <1>3, <1>5, <1>6, <1>7, <1>8

\* The mirror of GitHub with the pull requests' rows given, as far as readings go.
Judged(pulls, pull) ==
  [issues |-> Issues, pulls |-> pulls, issue |-> Snapshots, pull |-> pull, column |-> gColumn,
   prs |-> [i \in Issues |-> {p \in pulls : i \in pull[p].refs}
                               \cup {p \in Pulls : IssueSnapshot(i).closers[p] # "none"}],
   items |-> [p \in Pulls |-> IF p \in pulls THEN pull[p].refs ELSE {}],
   status |-> [i \in Issues |-> IF gIssue[i].open THEN "Triage" ELSE "Done"],
   dependency |-> [i \in Issues |-> "clear"], handoff |-> [i \in Issues |-> "none"],
   repair |-> [i \in Issues |-> {}]]

\* What refreshing comes to.
Final(pulls, pull, flagged) ==
  LET b == Judged(pulls, pull)
  IN  [issues |-> Issues, pulls |-> pulls, issue |-> Snapshots, pull |-> pull,
       column |-> gColumn, prs |-> b.prs, items |-> b.items,
       status |-> [i \in Issues |-> CanonicalStatus(b, i)],
       dependency |-> [i \in Issues |-> DependencyState(b, i)],
       handoff |-> [i \in Issues |-> Handoff(b, i)],
       repair |-> [i \in Issues |-> StatusReasons(b, i) \cup DependencyReasons(b, i)
                                      \cup IF i \in flagged THEN {"runtime"} ELSE {}]]

\* The issues that the runtime has flagged for repair.
Flagged(m) == {i \in Issues : "runtime" \in m.repair[i]}

\* Issues are done just when they are closed, if no open one is in a column that
\* means done.
LEMMA DoneIsClosed ==
  ASSUME GitHubTypes, NoOpenIsDone, NEW m, m.issue = Snapshots, m.column = gColumn,
         NEW i \in Issues
  PROVE  CanonicalStatus(m, i) = "Done" <=> ~gIssue[i].open
<1>1. m.issue[i].open = gIssue[i].open
  BY SnapshotTypes
<1>2. HasColumn(m, i) => gColumn[i] \in Columns
  BY DEF GitHubTypes, Boards, HasColumn
<1>3. gIssue[i].open /\ HasColumn(m, i) => CanonicalOf[m.column[i]] # "Done"
  BY <1>2 DEF NoOpenIsDone
<1>4. gIssue[i].open \in BOOLEAN
  BY DEF GitHubTypes
<1>. QED  BY <1>1, <1>3, <1>4 DEF CanonicalStatus

\* What an issue depends on, and the pull requests that a repaired issue is linked to.
LEMMA JudgedReadings ==
  ASSUME GitHubTypes, NEW pulls \in SUBSET Pulls, NEW pull \in [Pulls -> PullPayloads],
         NEW i \in Issues
  PROVE  LET b == Judged(pulls, pull)
         IN  /\ DependsOn(b, i) = gIssue[i].text \cup gIssue[i].native
             /\ i \notin DependsOn(b, i) /\ DependsOn(b, i) \subseteq Issues
             /\ LinkedPulls(b, i) = b.prs[i]
             /\ DependencyState(b, i) = "clear" <=>
                  \A d \in gIssue[i].text \cup gIssue[i].native : ~gIssue[d].open
<1> DEFINE b == Judged(pulls, pull)
<1>1. /\ b.issues = Issues /\ b.issue[i] = IssueSnapshot(i) /\ b.pulls = pulls /\ b.pull = pull
      /\ \A d \in Issues : b.status[d] = IF gIssue[d].open THEN "Triage" ELSE "Done"
      /\ b.prs[i] = {p \in pulls : i \in pull[p].refs}
                      \cup {p \in Pulls : IssueSnapshot(i).closers[p] # "none"}
  BY DEF Judged, Snapshots
<1> HIDE DEF b
<1>2. /\ gIssue[i].text \subseteq Issues /\ gIssue[i].native \subseteq Issues
      /\ i \notin gIssue[i].text \cup gIssue[i].native
  BY DEF GitHubTypes
<1>3. IssueSnapshot(i).text = gIssue[i].text /\ \A d \in Issues :
        IssueSnapshot(i).native[d] # "none" <=> d \in gIssue[i].native
  BY DEF IssueSnapshot
<1>4. DependsOn(b, i) = gIssue[i].text \cup gIssue[i].native
  BY <1>1, <1>2, <1>3 DEF DependsOn
<1>5. Unknown(b, i) = {}
  BY <1>1, <1>2, <1>4 DEF Unknown
<1>6. \A d \in DependsOn(b, i) : Resolved(b, i, d) <=> ~gIssue[d].open
  BY <1>1, <1>2, <1>4 DEF Resolved
<1>7. DependencyState(b, i) = "clear" <=>
        \A d \in gIssue[i].text \cup gIssue[i].native : ~gIssue[d].open
  BY <1>4, <1>5, <1>6 DEF DependencyState
<1>8. LinkedPulls(b, i) = b.prs[i]
  <2>1. \A p \in Pulls : p \in pulls => pull[p].state # "none"
    BY DEF PullPayloads, PullStates
  <2>2. \A p \in Pulls : PullDetail(b, i, p).known <=>
           p \in b.prs[i] \cap pulls \/ IssueSnapshot(i).closers[p] # "none"
    BY <1>1, <2>1 DEF PullDetail
  <2>3. \A p \in Pulls : PullDetail(b, i, p).known <=> p \in b.prs[i]
    BY <1>1, <2>2
  <2>4. b.prs[i] \subseteq Pulls
    BY <1>1
  <2>. QED  BY <2>3, <2>4 DEF LinkedPulls
<1>. QED  BY <1>2, <1>4, <1>7, <1>8 DEF b

\* The mirrors that a refresh goes through, once the issues are mirrored.
Alike(m) ==
  {v \in Mirror : /\ v.issues = Issues /\ v.issue = Snapshots /\ v.pulls = m.pulls
                  /\ v.pull = m.pull /\ v.column = gColumn /\ Flagged(v) = Flagged(m)}

\* What normalizing finds is never the flag of the runtime.
LEMMA ReasonsNotRuntime ==
  ASSUME NEW m, NEW i
  PROVE  "runtime" \notin StatusReasons(m, i) \cup DependencyReasons(m, i)
BY DEF StatusReasons, DependencyReasons

\* Normalizing keeps a mirror alike, and writes one status.
LEMMA NormalizeAlike ==
  ASSUME NEW m, NEW v \in Alike(m), NEW i \in Issues
  PROVE  /\ Normalize(v, i) \in Alike(m)
         /\ Normalize(v, i).status = [v.status EXCEPT ![i] = CanonicalStatus(v, i)]
<1> DEFINE n == Normalized(v, i, {"runtime"})
<1>1. v \in Mirror
  BY DEF Alike
<1>2. Writes(n, v, i, {"runtime"})
  BY <1>1, NormalizedWrites
<1>3. Normalize(v, i) = n
  BY DEF Normalize
<1> HIDE DEF n
<1>4. DOMAIN v.repair = Issues
  BY <1>1 DEF Mirror
<1>5. \A j \in Issues : "runtime" \in n.repair[j] <=> "runtime" \in v.repair[j]
  BY <1>2, <1>4, ReasonsNotRuntime DEF Writes
<1>6. Flagged(n) = Flagged(v)
  BY <1>5 DEF Flagged
<1>7. n \in Alike(m)
  BY <1>2, <1>6 DEF Writes, Alike
<1>. QED  BY <1>2, <1>3, <1>7 DEF Writes

\* Repairing an issue as GitHub has it keeps a mirror alike.
LEMMA RepairIssueAlike ==
  ASSUME GitHubTypes, NEW m, NEW v \in Alike(m), NEW i \in Issues
  PROVE  RepairIssue(v, i) \in Alike(m)
<1> DEFINE n == RepairIssue(v, i)
           u == IssueUpserted(v, i, IssueSnapshot(i))
<1>1. v \in Mirror /\ v.issues = Issues /\ v.issue = Snapshots
  BY DEF Alike
<1>2. Repaired(n, u, v, i)
  BY <1>1, RepairIssueWrites
<1> HIDE DEF n, u
<1>3. n.issues = Issues /\ n.issue = Snapshots
  <2>1. n.issues = Issues \cup {i} /\ n.issue = [Snapshots EXCEPT ![i] = IssueSnapshot(i)]
    BY <1>1, <1>2 DEF Repaired
  <2>2. [Snapshots EXCEPT ![i] = IssueSnapshot(i)] = Snapshots
    BY DEF Snapshots
  <2>. QED  BY <2>1, <2>2
<1>4. \A j \in Issues : "runtime" \in n.repair[j] <=> "runtime" \in v.repair[j]
  BY <1>2, ReasonsNotRuntime DEF Repaired
<1>5. Flagged(n) = Flagged(v)
  BY <1>4 DEF Flagged
<1>6. n \in Alike(m)
  BY <1>2, <1>3, <1>5 DEF Repaired, Alike
<1>. QED  BY <1>6 DEF n

\* After the board's columns, the issues done are those closed.
LEMMA BoardRefreshed ==
  ASSUME GitHubTypes, NoOpenIsDone, NEW m \in Mirror, m.issues = Issues, m.issue = Snapshots,
         NEW order \in Orders
  PROVE  LET y == RepairProject(m, order)
         IN  y \in Alike(m) /\ \A i \in Issues : y.status[i] = "Done" <=> ~gIssue[i].open
<1> DEFINE b == BoardUpserted(m, gColumn)
           N == Len(order)
           V == Alike(m)
           D == {x \in V \X (1 .. N) : x[1].status[order[x[2]]] = "Done"
                                          <=> ~gIssue[order[x[2]]].open}
<1>1. b \in V
  <2>1. gColumn \in Boards
    BY DEF GitHubTypes
  <2>2. /\ b \in Mirror
        /\ b.issues = m.issues /\ b.pulls = m.pulls /\ b.issue = m.issue
        /\ b.pull = m.pull /\ b.column = gColumn /\ b.repair = m.repair
    BY <2>1, BoardUpsertedWrites
  <2> HIDE DEF b
  <2>. QED  BY <2>2 DEF Alike, Flagged
<1>2. order \in Seq(Issues) /\ \A i \in Issues : \E n \in 1 .. N : order[n] = i
  BY OrdersCover
<1>3. ASSUME NEW v \in V, NEW i \in Issues
      PROVE  /\ Normalize(v, i) \in V
             /\ Normalize(v, i).status[i] = "Done" <=> ~gIssue[i].open
             /\ \A j \in Issues \ {i} : Normalize(v, i).status[j] = v.status[j]
  <2>1. v.issue = Snapshots /\ v.column = gColumn /\ DOMAIN v.status = Issues
    BY DEF Alike, Mirror
  <2>2. CanonicalStatus(v, i) = "Done" <=> ~gIssue[i].open
    BY <2>1, DoneIsClosed
  <2>3. /\ Normalize(v, i) \in V
        /\ Normalize(v, i).status = [v.status EXCEPT ![i] = CanonicalStatus(v, i)]
    BY NormalizeAlike
  <2> HIDE DEF V
  <2>. QED  BY <2>1, <2>2, <2>3
<1> HIDE DEF V, b
<1>4. PICK g : Normalizes(g, V, b, Issues, order)
  <2>1. \A v \in V : \A i \in Issues : i \in Issues => Normalize(v, i) \in V
    BY <1>3
  <2>. QED  BY <1>1, <1>2, <2>1, NormalizeAllFolds
<1>5. N \in Nat /\ \A n \in 1 .. N : order[n] \in Issues /\ n - 1 \in 0 .. N /\ n \in 0 .. N
  BY <1>2
<1>6. /\ g \in [0 .. N -> V] /\ g[N] = RepairProject(m, order)
      /\ \A n \in 1 .. N : g[n] = IF order[n] \in Issues THEN Normalize(g[n - 1], order[n])
                                  ELSE g[n - 1]
  BY <1>4 DEF Normalizes, RepairProject, b
<1> HIDE DEF N
<1>7. \A n \in 0 .. N : g[n] \in V
  BY <1>6
<1>8. \A n \in 1 .. N : /\ order[n] \in Issues /\ g[n] \in V /\ g[n - 1] \in V
                        /\ g[n] = Normalize(g[n - 1], order[n])
  BY <1>5, <1>6, <1>7
<1>9. \A n \in 1 .. N : /\ g[n].status[order[n]] = "Done" <=> ~gIssue[order[n]].open
                        /\ \A j \in Issues \ {order[n]} : g[n].status[j] = g[n - 1].status[j]
  BY <1>3, <1>8
<1>10. ASSUME NEW n \in 1 .. N
       PROVE  <<g[n], n>> \in D
  BY <1>8, <1>9
<1>11. ASSUME NEW n \in 1 .. N, NEW j \in 1 .. n - 1, <<g[n - 1], j>> \in D
       PROVE  <<g[n], j>> \in D
  <2>1. j \in 1 .. N
    BY <1>5
  <2>2. g[n - 1].status[order[j]] = "Done" <=> ~gIssue[order[j]].open
    BY <1>11
  <2>3. g[n].status[order[j]] = "Done" <=> ~gIssue[order[j]].open
    BY <1>8, <1>9, <2>1, <2>2
  <2>. QED  BY <1>8, <2>1, <2>3
<1> HIDE DEF D
<1>12. \A j \in 1 .. N : <<g[N], j>> \in D
  BY <1>5, <1>10, <1>11, EachIsDone
<1>13. \A i \in Issues : g[N].status[i] = "Done" <=> ~gIssue[i].open
  <2>1. \A j \in 1 .. N : g[N].status[order[j]] = "Done" <=> ~gIssue[order[j]].open
    BY <1>12 DEF D
  <2>. QED  BY <1>2, <2>1 DEF N
<1>14. g[N] \in V
  BY <1>5, <1>7
<1>. QED  BY <1>6, <1>13, <1>14 DEF V

\* Where the issues done are those closed, a repaired issue is as it is in the end.
LEMMA RepairIssueSettles ==
  ASSUME GitHubTypes, NoOpenIsDone, NEW m \in Mirror, NEW v \in Alike(m), NEW i \in Issues,
         \A d \in Issues : v.status[d] = "Done" <=> ~gIssue[d].open
  PROVE  LET n == RepairIssue(v, i)
             final == Final(m.pulls, m.pull, Flagged(m))
         IN  /\ \A d \in Issues : n.status[d] = "Done" <=> ~gIssue[d].open
             /\ n.status[i] = final.status[i] /\ n.dependency[i] = final.dependency[i]
             /\ n.handoff[i] = final.handoff[i] /\ n.prs[i] = final.prs[i]
             /\ n.repair[i] = final.repair[i]
             /\ \A p \in Pulls : i \in n.items[p] <=> i \in final.items[p]
<1> DEFINE n == RepairIssue(v, i)
           u == IssueUpserted(v, i, IssueSnapshot(i))
           b == Judged(m.pulls, m.pull)
           final == Final(m.pulls, m.pull, Flagged(m))
<1>1. /\ v \in Mirror /\ v.pulls = m.pulls /\ v.pull = m.pull /\ v.column = gColumn
      /\ Flagged(v) = Flagged(m) /\ m.pulls \in SUBSET Pulls /\ m.pull \in [Pulls -> PullPayloads]
  BY DEF Alike, Mirror
<1>2. Repaired(n, u, v, i) /\ n \in Alike(m)
  BY <1>1, RepairIssueWrites, RepairIssueAlike
<1> HIDE DEF n, u
<1>3. /\ u.issues = Issues /\ u.pulls = m.pulls /\ u.issue = Snapshots /\ u.pull = m.pull
      /\ u.column = gColumn
  BY <1>2 DEF Repaired, SameRows, Alike
<1>4. /\ b.issues = Issues /\ b.pulls = m.pulls /\ b.issue = Snapshots /\ b.pull = m.pull
      /\ b.column = gColumn /\ b.items = [p \in Pulls |-> IF p \in m.pulls THEN m.pull[p].refs ELSE {}]
      /\ b.prs[i] = {p \in m.pulls : i \in m.pull[p].refs}
                      \cup {p \in Pulls : IssueSnapshot(i).closers[p] # "none"}
      /\ \A d \in Issues : b.status[d] = IF gIssue[d].open THEN "Triage" ELSE "Done"
  BY DEF Judged
<1>5. /\ final.status[i] = CanonicalStatus(b, i) /\ final.dependency[i] = DependencyState(b, i)
      /\ final.handoff[i] = Handoff(b, i) /\ final.prs = b.prs /\ final.items = b.items
      /\ final.repair[i] = StatusReasons(b, i) \cup DependencyReasons(b, i)
                             \cup IF i \in Flagged(m) THEN {"runtime"} ELSE {}
  BY DEF Final
<1>6. /\ i \notin DependsOn(b, i) /\ DependsOn(b, i) \subseteq Issues
      /\ LinkedPulls(b, i) = b.prs[i]
  BY <1>1, JudgedReadings
<1> HIDE DEF b, final
<1>7. u.prs[i] = b.prs[i] /\ \A d \in Issues \ {i} : u.status[d] = "Done" <=> b.status[d] = "Done"
  BY <1>1, <1>2, <1>4 DEF Repaired
<1>8. /\ DependencyState(u, i) = DependencyState(b, i)
      /\ Handoff(u, i) = Handoff(b, i) /\ LinkedPulls(u, i) = LinkedPulls(b, i)
      /\ CanonicalStatus(u, i) = CanonicalStatus(b, i)
      /\ StatusReasons(u, i) = StatusReasons(b, i)
      /\ DependencyReasons(u, i) = DependencyReasons(b, i)
  <2>1. /\ u.issues = b.issues /\ u.pulls = b.pulls /\ u.issue = b.issue /\ u.pull = b.pull
        /\ u.column = b.column
    BY <1>3, <1>4
  <2>. QED  BY <1>6, <1>7, <2>1, SameReadings
<1>9. /\ n.status[i] = final.status[i] /\ n.dependency[i] = final.dependency[i]
      /\ n.handoff[i] = final.handoff[i] /\ n.prs[i] = final.prs[i]
  BY <1>2, <1>5, <1>6, <1>8 DEF Repaired
<1>10. n.repair[i] = final.repair[i]
  <2>1. v.repair[i] \cap {"runtime"} = IF i \in Flagged(m) THEN {"runtime"} ELSE {}
    BY <1>1 DEF Flagged
  <2>. QED  BY <1>2, <1>5, <1>8, <2>1 DEF Repaired
<1>11. \A p \in Pulls : i \in n.items[p] <=> i \in final.items[p]
  BY <1>1, <1>2, <1>4, <1>5 DEF Repaired
<1>12. \A d \in Issues : n.status[d] = "Done" <=> ~gIssue[d].open
  <2>1. CanonicalStatus(u, i) = "Done" <=> ~gIssue[i].open
    BY <1>3, DoneIsClosed
  <2>. QED  BY <1>2, <2>1 DEF Repaired
<1>. QED  BY <1>9, <1>10, <1>11, <1>12 DEF n, final

\* A mirror of all issues that has what the final one has is the final one.
LEMMA FinalReached ==
  ASSUME GitHubTypes, NEW m \in Mirror, NEW n \in Alike(m),
         LET final == Final(m.pulls, m.pull, Flagged(m))
         IN  \A i \in Issues :
               /\ n.status[i] = final.status[i] /\ n.dependency[i] = final.dependency[i]
               /\ n.handoff[i] = final.handoff[i] /\ n.prs[i] = final.prs[i]
               /\ n.repair[i] = final.repair[i]
               /\ \A p \in Pulls : i \in n.items[p] <=> i \in final.items[p]
  PROVE  n = Final(m.pulls, m.pull, Flagged(m))
<1> DEFINE final == Final(m.pulls, m.pull, Flagged(m))
           b == Judged(m.pulls, m.pull)
<1>1. /\ final = [issues |-> Issues, pulls |-> m.pulls, issue |-> Snapshots, pull |-> m.pull,
                  column |-> gColumn, prs |-> final.prs, items |-> final.items,
                  status |-> final.status, dependency |-> final.dependency,
                  handoff |-> final.handoff, repair |-> final.repair]
      /\ DOMAIN final.status = Issues /\ DOMAIN final.dependency = Issues
      /\ DOMAIN final.handoff = Issues /\ DOMAIN final.repair = Issues
      /\ final.prs = b.prs /\ final.items = b.items
  BY DEF Final
<1>2. DOMAIN b.prs = Issues /\ b.items = [p \in Pulls |-> IF p \in m.pulls THEN m.pull[p].refs ELSE {}]
  BY DEF Judged
<1>3. \A p \in Pulls : final.items[p] \subseteq Issues
  <2>1. \A p \in Pulls : m.pull[p].refs \subseteq Issues
    BY DEF Mirror, PullPayloads
  <2> HIDE DEF final, b
  <2>. QED  BY <1>1, <1>2, <2>1
<1>4. \A i \in Issues :
        /\ n.status[i] = final.status[i] /\ n.dependency[i] = final.dependency[i]
        /\ n.handoff[i] = final.handoff[i] /\ n.prs[i] = final.prs[i]
        /\ n.repair[i] = final.repair[i]
        /\ \A p \in Pulls : i \in n.items[p] <=> i \in final.items[p]
  OBVIOUS
<1> HIDE DEF final, b
<1>5. /\ n \in Mirror /\ n.issues = Issues /\ n.issue = Snapshots /\ n.pulls = m.pulls
      /\ n.pull = m.pull /\ n.column = gColumn
  BY DEF Alike
<1>6. /\ n.status = [i \in Issues |-> n.status[i]]
      /\ n.dependency = [i \in Issues |-> n.dependency[i]]
      /\ n.handoff = [i \in Issues |-> n.handoff[i]]
      /\ n.prs = [i \in Issues |-> n.prs[i]] /\ n.repair = [i \in Issues |-> n.repair[i]]
      /\ n.items \in [Pulls -> SUBSET Issues]
  BY <1>5 DEF Mirror
<1>7. /\ final.status = [i \in Issues |-> final.status[i]]
      /\ final.dependency = [i \in Issues |-> final.dependency[i]]
      /\ final.handoff = [i \in Issues |-> final.handoff[i]]
      /\ final.prs = [i \in Issues |-> final.prs[i]]
      /\ final.repair = [i \in Issues |-> final.repair[i]]
      /\ final.items \in [Pulls -> SUBSET Issues]
  <2>1. final.prs = [i \in Issues |-> final.prs[i]]
    BY <1>1 DEF b, Judged
  <2>2. final.items \in [Pulls -> SUBSET Issues]
    BY <1>1, <1>2, <1>3
  <2>. QED  BY <2>1, <2>2 DEF final, Final
<1>8. /\ n.status = final.status /\ n.dependency = final.dependency
      /\ n.handoff = final.handoff /\ n.prs = final.prs /\ n.repair = final.repair
  BY <1>4, <1>6, <1>7
<1>9. n.items = final.items
  <2>1. ASSUME NEW p \in Pulls
        PROVE  n.items[p] = final.items[p]
    <3>1. n.items[p] \subseteq Issues /\ final.items[p] \subseteq Issues
      BY <1>6, <1>7
    <3>2. \A i \in Issues : i \in n.items[p] <=> i \in final.items[p]
      BY <1>4
    <3>. QED  BY <3>1, <3>2
  <2>. QED  BY <1>6, <1>7, <2>1
<1>10. n = final
  BY <1>1, <1>5, <1>8, <1>9 DEF Mirror
<1>. QED  BY <1>10 DEF final

\* Once the issues are mirrored, a refresh comes to the same, in whatever order.
LEMMA RefreshFinal ==
  ASSUME GitHubTypes, NoOpenIsDone, NEW m \in Mirror, m.issues = Issues, m.issue = Snapshots,
         NEW order \in Orders
  PROVE  /\ Refreshed(m, order) = Final(m.pulls, m.pull, Flagged(m))
         /\ Refreshed(m, order) \in Alike(m)
<1> DEFINE y == RepairProject(m, order)
           by == ByNumber(Issues)
           N == Len(by)
           final == Final(m.pulls, m.pull, Flagged(m))
           V == {v \in Alike(m) : \A d \in Issues : v.status[d] = "Done" <=> ~gIssue[d].open}
           Reached(v, i) == /\ v.status[i] = final.status[i] /\ v.dependency[i] = final.dependency[i]
                            /\ v.handoff[i] = final.handoff[i] /\ v.prs[i] = final.prs[i]
                            /\ v.repair[i] = final.repair[i]
                            /\ \A p \in Pulls : i \in v.items[p] <=> i \in final.items[p]
           D == {x \in V \X (1 .. N) : Reached(x[1], by[x[2]])}
<1>1. y \in V
  BY BoardRefreshed
<1>2. ASSUME NEW v \in V, NEW i \in Issues
      PROVE  /\ RepairIssue(v, i) \in V
             /\ Reached(RepairIssue(v, i), i)
             /\ \A j \in Issues \ {i} : Reached(v, j) => Reached(RepairIssue(v, i), j)
  <2> DEFINE n == RepairIssue(v, i)
  <2>1. n \in Alike(m)
    BY RepairIssueAlike
  <2>2. /\ \A d \in Issues : n.status[d] = "Done" <=> ~gIssue[d].open
        /\ Reached(n, i)
    BY RepairIssueSettles
  <2>3. Repaired(n, IssueUpserted(v, i, IssueSnapshot(i)), v, i)
    BY RepairIssueWrites DEF Alike
  <2> HIDE DEF n, final
  <2>4. \A j \in Issues \ {i} : Reached(v, j) => Reached(n, j)
    BY <2>3 DEF Repaired
  <2>. QED  BY <2>1, <2>2, <2>4 DEF n
<1> HIDE DEF V, Reached, y
<1>3. PICK g : Repairs(g, V, y, Issues, by)
  <2>1. \A v \in V : \A i \in Issues : RepairIssue(v, i) \in V
    BY <1>2
  <2>. QED  BY <1>1, <2>1, RepairIssuesFolds
<1>4. by \in Seq(Issues) /\ \A i \in Issues : \E n \in 1 .. N : by[n] = i
  BY ByNumberCovers
<1>5. N \in Nat /\ \A n \in 1 .. N : by[n] \in Issues /\ n - 1 \in 0 .. N /\ n \in 0 .. N
  BY <1>4
<1>6. /\ g \in [0 .. N -> V] /\ g[N] = Refreshed(m, order)
      /\ \A n \in 1 .. N : g[n] = RepairIssue(g[n - 1], by[n])
  BY <1>3 DEF Repairs, Refreshed, y
<1> HIDE DEF N, by
<1>7. \A n \in 0 .. N : g[n] \in V
  BY <1>6
<1>8. \A n \in 1 .. N : /\ by[n] \in Issues /\ g[n] \in V /\ g[n - 1] \in V
                        /\ g[n] = RepairIssue(g[n - 1], by[n])
  BY <1>5, <1>6, <1>7
<1>9. \A n \in 1 .. N : /\ Reached(g[n], by[n])
                        /\ \A j \in Issues : Reached(g[n - 1], j) => Reached(g[n], j)
  BY <1>2, <1>8
<1>10. ASSUME NEW n \in 1 .. N
       PROVE  <<g[n], n>> \in D
  BY <1>8, <1>9
<1>11. ASSUME NEW n \in 1 .. N, NEW j \in 1 .. n - 1, <<g[n - 1], j>> \in D
       PROVE  <<g[n], j>> \in D
  <2>1. j \in 1 .. N
    BY <1>5
  <2>2. Reached(g[n - 1], by[j])
    BY <1>11
  <2>. QED  BY <1>8, <1>9, <2>1, <2>2
<1>12. \A j \in 1 .. N : <<g[N], j>> \in D
  <2> HIDE DEF D
  <2>. QED  BY <1>5, <1>10, <1>11, EachIsDone
<1>13. \A j \in 1 .. N : Reached(g[N], by[j])
  BY <1>12
<1>14. \A i \in Issues : Reached(g[N], i)
  BY <1>4, <1>13 DEF N
<1>15. g[N] \in Alike(m)
  BY <1>5, <1>7 DEF V
<1>16. g[N] = final
  BY <1>14, <1>15, FinalReached DEF Reached
<1>. QED  BY <1>6, <1>15, <1>16

\* Once GitHub is quiet, refreshing settles: one refresh mirrors the issues, and two
\* settle them, however long the chains of their dependencies, unless open issues are
\* in a column that means done (refresh_product_mirror).
THEOREM RefreshAlwaysSettles == Spec => []RefreshSettles
<1>1. IInv => RefreshSettles
  <2>1. SUFFICES ASSUME IInv, NEW a \in Orders
                 PROVE  LET once == Refreshed(mirror, a)
                        IN  /\ Mirrored(once)
                            /\ NoOpenIsDone => \A b \in Orders : Settled(Refreshed(once, b))
    BY DEF RefreshSettles
  <2> DEFINE once == Refreshed(mirror, a)
  <2>2. once \in Mirror /\ once.issues = Issues /\ once.issue = Snapshots /\ Mirrored(once)
    BY <2>1, RefreshMirrors
  <2> HIDE DEF once
  <2>3. ASSUME NoOpenIsDone, NEW b \in Orders
        PROVE  Settled(Refreshed(once, b))
    <3> DEFINE f == Refreshed(once, b)
    <3>1. GitHubTypes
      BY <2>1 DEF IInv
    <3>2. f = Final(once.pulls, once.pull, Flagged(once)) /\ f \in Alike(once)
      BY <2>2, <2>3, <3>1, RefreshFinal
    <3> HIDE DEF f
    <3>3. /\ f \in Mirror /\ f.issues = Issues /\ f.issue = Snapshots
          /\ f.pulls = once.pulls /\ f.pull = once.pull /\ Flagged(f) = Flagged(once)
      BY <3>2 DEF Alike
    <3>4. \A order \in Orders : Refreshed(f, order) = f
      BY <2>3, <3>1, <3>2, <3>3, RefreshFinal
    <3>5. ASSUME NEW i \in Issues
          PROVE  f.dependency[i] = "clear" <=>
                   \A d \in gIssue[i].text \cup gIssue[i].native : ~gIssue[d].open
      <4>1. once.pulls \in SUBSET Pulls /\ once.pull \in [Pulls -> PullPayloads]
        BY <2>2 DEF Mirror
      <4>2. f.dependency[i] = DependencyState(Judged(once.pulls, once.pull), i)
        BY <3>2 DEF Final
      <4>3. DependencyState(Judged(once.pulls, once.pull), i) = "clear" <=>
              \A d \in gIssue[i].text \cup gIssue[i].native : ~gIssue[d].open
        BY <3>1, <4>1, JudgedReadings
      <4>. QED  BY <4>2, <4>3
    <3>6. Settled(f)
      BY <3>4, <3>5 DEF Settled
    <3>. QED  BY <3>6 DEF f
  <2>. QED  BY <2>2, <2>3 DEF once
<1>. QED  BY <1>1, MirrorSound, PTL
=============================================================================
