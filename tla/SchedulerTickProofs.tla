--------------------------- MODULE SchedulerTickProofs ---------------------------
(***************************************************************************)
(* A tick of the scheduler, for any schedulers, work items, keys and       *)
(* limits: claims fit the limits, and the candidates are in the order of   *)
(* one sort.                                                               *)
(***************************************************************************)
EXTENDS SchedulerTick, FiniteSetTheorems, SequenceTheorems, TLAPS

-----------------------------------------------------------------------------
(* Recursion over the rounds *)

\* Every set of natural numbers with an element has a least one.
LEMMA LeastNumber ==
  ASSUME NEW T \in SUBSET Nat, T # {}
  PROVE  \E n \in T : \A m \in T : n <= m
<1>1. IsWellFoundedOn(OpToRel(<, Nat), Nat)
  BY NatLessThanWellFounded
<1>2. PICK n \in T : \A m \in T : <<m, n>> \notin OpToRel(<, Nat)
  BY <1>1, WFMin
<1>3. n \in Nat /\ \A m \in T : m \in Nat /\ ~(m < n)
  BY <1>2 DEF OpToRel
<1>4. \A m \in T : n <= m
  BY <1>3
<1>. QED  BY <1>2, <1>4

\* Induction up to a bound.
LEMMA UpTo ==
  ASSUME NEW N \in Nat, NEW S, 0 \in S, \A n \in 0 .. N - 1 : n \in S => n + 1 \in S
  PROVE  \A n \in 0 .. N : n \in S
<1> DEFINE T == {n \in 0 .. N : n \notin S}
<1>1. SUFFICES ASSUME T # {} PROVE FALSE
  OBVIOUS
<1>2. T \in SUBSET Nat
  OBVIOUS
<1> HIDE DEF T
<1>3. PICK n \in T : \A m \in T : n <= m
  BY <1>1, <1>2, LeastNumber
<1>4. n \in 0 .. N /\ n \notin S
  BY <1>3 DEF T
<1>5. n - 1 \in 0 .. N - 1 /\ n - 1 \notin T
  BY <1>2, <1>3, <1>4
<1>6. n - 1 \in S
  BY <1>5 DEF T
<1>. QED  BY <1>4, <1>5, <1>6

\* A function defined by recursion up to N.  There is one, if the steps stay among V.
Recurs(f, step, v0, N) == f = [n \in 0 .. N |-> IF n = 0 THEN v0 ELSE step[n][f[n - 1]]]

\* By induction on N: what recurs up to k can be continued.
LEMMA RecursionExists ==
  ASSUME NEW N \in Nat, NEW V, NEW v0 \in V, NEW step \in [1 .. N -> [V -> V]]
  PROVE  \E f \in [0 .. N -> V] : Recurs(f, step, v0, N)
<1> DEFINE Does(f, k) == /\ f \in [0 .. k -> V] /\ f[0] = v0
                         /\ \A n \in 1 .. k : f[n] = step[n][f[n - 1]]
           S == {k \in 0 .. N : \E f : Does(f, k)}
<1>1. 0 \in S
  <2>1. Does([n \in 0 .. 0 |-> v0], 0)
    OBVIOUS
  <2> HIDE DEF Does
  <2>. QED  BY <2>1
<1>2. ASSUME NEW k \in 0 .. N - 1, k \in S
      PROVE  k + 1 \in S
  <2>1. PICK f : Does(f, k)
    BY <1>2
  <2>2. /\ k \in Nat /\ k + 1 \in 1 .. N /\ k + 1 \in 0 .. N
        /\ \A n \in 1 .. k : n - 1 \in 0 .. k /\ n \in 0 .. k
    OBVIOUS
  <2> DEFINE last == step[k + 1][f[k]]
             g == [n \in 0 .. k + 1 |-> IF n = k + 1 THEN last ELSE f[n]]
  <2>3. last \in V /\ \A n \in 0 .. k : f[n] \in V
    BY <2>1, <2>2
  <2> HIDE DEF last
  <2>4. g[k + 1] = last /\ \A n \in 0 .. k : g[n] = f[n]
    BY <2>2
  <2>5. \A n \in 0 .. k + 1 : g[n] \in V
    <3>1. \A n \in 0 .. k + 1 : n = k + 1 \/ n \in 0 .. k
      BY <2>2
    <3> HIDE DEF g
    <3>. QED  BY <2>3, <2>4, <3>1
  <2>6. g \in [0 .. k + 1 -> V]
    BY <2>5
  <2>7. ASSUME NEW n \in 1 .. k + 1
        PROVE  g[n] = step[n][g[n - 1]]
    <3> HIDE DEF g
    <3>1. CASE n = k + 1
      BY <2>2, <2>4, <3>1 DEF last
    <3>2. CASE n # k + 1
      <4>1. n \in 1 .. k
        BY <3>2
      <4>. QED  BY <2>1, <2>2, <2>4, <4>1
    <3>. QED  BY <3>1, <3>2
  <2>8. g[0] = v0
    BY <2>1, <2>2, <2>4
  <2>9. Does(g, k + 1)
    <3> HIDE DEF g
    <3>. QED  BY <2>6, <2>7, <2>8
  <2> HIDE DEF Does, g
  <2>. QED  BY <2>2, <2>9
<1>3. \A k \in 0 .. N : k \in S
  <2> HIDE DEF S
  <2>. QED  BY <1>1, <1>2, UpTo
<1>4. PICK f : Does(f, N)
  BY <1>3
<1>5. Recurs(f, step, v0, N)
  BY <1>4 DEF Recurs
<1>. QED  BY <1>4, <1>5

-----------------------------------------------------------------------------
(* Sorting *)

Keyed(n) == [1 .. n -> Nat]

\* Python's order of tuples of one length is a strict total order.
LEMMA PrecedesOrders ==
  ASSUME NEW n \in Nat, NEW a \in Keyed(n), NEW b \in Keyed(n), NEW c \in Keyed(n)
  PROVE  /\ ~Precedes(a, a)
         /\ Precedes(a, b) /\ Precedes(b, c) => Precedes(a, c)
         /\ a # b => Precedes(a, b) \/ Precedes(b, a)
<1>1. DOMAIN a = 1 .. n /\ DOMAIN b = 1 .. n /\ DOMAIN c = 1 .. n
  BY DEF Keyed
<1>2. \A i \in 1 .. n : a[i] \in Nat /\ b[i] \in Nat /\ c[i] \in Nat /\ i \in Nat
  BY DEF Keyed
<1>3. ~Precedes(a, a)
  BY <1>1, <1>2 DEF Precedes
<1>4. ASSUME Precedes(a, b), Precedes(b, c)
      PROVE  Precedes(a, c)
  <2>1. PICK i \in 1 .. n : a[i] < b[i] /\ \A j \in 1 .. (i - 1) : a[j] = b[j]
    BY <1>1, <1>4 DEF Precedes
  <2>2. PICK k \in 1 .. n : b[k] < c[k] /\ \A j \in 1 .. (k - 1) : b[j] = c[j]
    BY <1>1, <1>4 DEF Precedes
  <2>3. CASE i <= k
    <3>1. a[i] < c[i]
      BY <1>2, <2>1, <2>2, <2>3
    <3>2. \A j \in 1 .. (i - 1) : a[j] = c[j]
      BY <1>2, <2>1, <2>2, <2>3
    <3>. QED  BY <1>1, <3>1, <3>2 DEF Precedes
  <2>4. CASE k < i
    <3>1. a[k] < c[k]
      BY <1>2, <2>1, <2>2, <2>4
    <3>2. \A j \in 1 .. (k - 1) : a[j] = c[j]
      BY <1>2, <2>1, <2>2, <2>4
    <3>. QED  BY <1>1, <3>1, <3>2 DEF Precedes
  <2>. QED  BY <2>3, <2>4
<1>5. ASSUME a # b
      PROVE  Precedes(a, b) \/ Precedes(b, a)
  <2> DEFINE Differ == {i \in 1 .. n : a[i] # b[i]}
  <2>1. Differ \in SUBSET Nat
    OBVIOUS
  <2>2. Differ # {}
    <3>1. ASSUME \A i \in 1 .. n : a[i] = b[i]
          PROVE  FALSE
      BY <1>5, <3>1 DEF Keyed
    <3>. QED  BY <3>1
  <2> HIDE DEF Differ
  <2>3. PICK i \in Differ : \A k \in Differ : i <= k
    BY <2>1, <2>2, LeastNumber
  <2>4. i \in 1 .. n /\ a[i] # b[i]
    BY <2>3 DEF Differ
  <2>5. ASSUME NEW j \in 1 .. (i - 1)
        PROVE  a[j] = b[j]
    <3>1. j \in 1 .. n /\ ~(i <= j)
      BY <2>4
    <3>2. j \notin Differ
      BY <2>3, <3>1
    <3>. QED  BY <3>1, <3>2 DEF Differ
  <2>6. a[i] < b[i] \/ b[i] < a[i]
    BY <1>2, <2>4
  <2>. QED  BY <1>1, <2>4, <2>5, <2>6 DEF Precedes
<1>. QED  BY <1>3, <1>4, <1>5

\* The keys put the elements of S in a strict order.
Orders(S, key) ==
  \A u, v \in S :
    /\ ~Precedes(key[v], key[v])
    /\ \A w \in S : Precedes(key[u], key[v]) /\ Precedes(key[v], key[w])
                      => Precedes(key[u], key[w])
    /\ u # v => Precedes(key[u], key[v]) \/ Precedes(key[v], key[u])

\* Keys of one length order a set, if they differ.
LEMMA KeysOrder ==
  ASSUME NEW n \in Nat, NEW S, NEW key, \A v \in S : key[v] \in Keyed(n),
         \A u, v \in S : key[u] = key[v] => u = v
  PROVE  Orders(S, key)
BY PrecedesOrders DEF Orders

\* In an ordered finite set, ranks tell the elements apart, grow along the order
\* and leave no number out.
LEMMA Ranks ==
  ASSUME NEW S, IsFiniteSet(S), NEW key, Orders(S, key)
  PROVE  /\ Cardinality(S) \in Nat
         /\ \A w \in S : Rank(S, key, w) \in 0 .. Cardinality(S) - 1
         /\ \A v, w \in S : Precedes(key[v], key[w]) <=> Rank(S, key, v) < Rank(S, key, w)
         /\ \A v, w \in S : Rank(S, key, v) = Rank(S, key, w) => v = w
         /\ \A n \in 0 .. Cardinality(S) - 1 : \E w \in S : Rank(S, key, w) = n
<1> DEFINE c == Cardinality(S)
           Before(w) == {v \in S : Precedes(key[v], key[w])}
<1>1. c \in Nat
  BY FS_CardinalityType
<1>2. \A w \in S : Rank(S, key, w) = Cardinality(Before(w))
  BY DEF Rank
<1>3. \A w \in S : IsFiniteSet(Before(w)) /\ Cardinality(Before(w)) \in Nat
  <2>1. \A w \in S : Before(w) \in SUBSET S
    OBVIOUS
  <2> HIDE DEF Before
  <2>. QED  BY <2>1, FS_Subset, FS_CardinalityType
<1>4. ASSUME NEW v \in S, NEW w \in S, Precedes(key[v], key[w])
      PROVE  Rank(S, key, v) < Rank(S, key, w)
  <2>1. v \notin Before(v) /\ Before(v) \cup {v} \in SUBSET Before(w)
    BY <1>4 DEF Orders
  <2> HIDE DEF Before
  <2>2. Cardinality(Before(v) \cup {v}) = Cardinality(Before(v)) + 1
    BY <1>3, <2>1, FS_AddElement
  <2>3. Cardinality(Before(v) \cup {v}) <= Cardinality(Before(w))
    BY <1>3, <2>1, FS_Subset
  <2>. QED  BY <1>2, <1>3, <2>2, <2>3
<1>5. \A w \in S : Rank(S, key, w) \in 0 .. c - 1
  <2>1. SUFFICES ASSUME NEW w \in S PROVE Rank(S, key, w) \in 0 .. c - 1
    OBVIOUS
  <2>2. w \notin Before(w) /\ Before(w) \cup {w} \in SUBSET S
    BY DEF Orders
  <2> HIDE DEF Before
  <2>3. Cardinality(Before(w) \cup {w}) = Cardinality(Before(w)) + 1
    BY <1>3, <2>2, FS_AddElement
  <2>4. Cardinality(Before(w) \cup {w}) <= c
    BY <2>2, FS_Subset
  <2> HIDE DEF c
  <2>. QED  BY <1>1, <1>2, <1>3, <2>3, <2>4
<1>6. \A v, w \in S : Precedes(key[v], key[w]) <=> Rank(S, key, v) < Rank(S, key, w)
  <2>1. SUFFICES ASSUME NEW v \in S, NEW w \in S, Rank(S, key, v) < Rank(S, key, w)
                 PROVE  Precedes(key[v], key[w])
    BY <1>4
  <2>2. Rank(S, key, v) \in Nat /\ Rank(S, key, w) \in Nat
    BY <1>2, <1>3
  <2>3. v # w
    BY <2>1, <2>2
  <2>4. ~Precedes(key[w], key[v])
    BY <1>4, <2>1, <2>2
  <2>. QED  BY <2>3, <2>4 DEF Orders
<1>7. \A v, w \in S : Rank(S, key, v) = Rank(S, key, w) => v = w
  <2>1. \A v \in S : Rank(S, key, v) \in Nat
    BY <1>2, <1>3
  <2>. QED  BY <1>4, <2>1 DEF Orders
<1>8. \A n \in 0 .. c - 1 : \E w \in S : Rank(S, key, w) = n
  <2> DEFINE f == [w \in S |-> Rank(S, key, w)]
  <2> HIDE DEF c
  <2>1. f \in [S -> 0 .. c - 1]
    BY <1>5
  <2>2. f \in Injection(S, 0 .. c - 1)
    BY <1>7, <2>1 DEF Injection, IsInjective
  <2>3. IsFiniteSet(0 .. c - 1) /\ Cardinality(0 .. c - 1) = c
    BY <1>1, FS_Interval
  <2>4. f \in Surjection(S, 0 .. c - 1)
    BY <2>2, <2>3, FS_Injection DEF c
  <2>. QED  BY <2>4 DEF Surjection
<1>. QED  BY <1>1, <1>5, <1>6, <1>7, <1>8

\* Sorting lists a set by its keys.
LEMMA Sorts ==
  ASSUME NEW S, IsFiniteSet(S), NEW key, Orders(S, key)
  PROVE  /\ InOrder(S, key) \in Seq(S)
         /\ ToSet(InOrder(S, key)) = S
         /\ \A i, j \in DOMAIN InOrder(S, key) :
              i < j => Precedes(key[InOrder(S, key)[i]], key[InOrder(S, key)[j]])
<1> DEFINE c == Cardinality(S)
           o == InOrder(S, key)
<1>1. c \in Nat
  BY Ranks
<1>2. DOMAIN o = 1 .. c /\ \A i \in 1 .. c : o[i] = CHOOSE w \in S : Rank(S, key, w) = i - 1
  BY DEF InOrder
<1>3. \A i \in 1 .. c : i - 1 \in 0 .. c - 1
  BY <1>1
<1>4. \A i \in 1 .. c : o[i] \in S /\ Rank(S, key, o[i]) = i - 1
  <2> HIDE DEF o, c
  <2>. QED  BY <1>2, <1>3, Ranks DEF c
<1>5. o \in [1 .. c -> S]
  BY <1>4 DEF InOrder
<1>6. \A w \in S : \E i \in 1 .. c : o[i] = w
  <2>1. SUFFICES ASSUME NEW w \in S PROVE \E i \in 1 .. c : o[i] = w
    OBVIOUS
  <2>2. Rank(S, key, w) \in 0 .. c - 1
    BY Ranks
  <2> HIDE DEF o, c
  <2>3. Rank(S, key, w) + 1 \in 1 .. c /\ (Rank(S, key, w) + 1) - 1 = Rank(S, key, w)
    BY <1>1, <2>2
  <2>4. o[Rank(S, key, w) + 1] = w
    BY <1>4, <2>3, Ranks
  <2>. QED  BY <2>3, <2>4
<1>7. \A i, j \in 1 .. c : i < j => Precedes(key[o[i]], key[o[j]])
  <2>1. SUFFICES ASSUME NEW i \in 1 .. c, NEW j \in 1 .. c, i < j
                 PROVE  Precedes(key[o[i]], key[o[j]])
    OBVIOUS
  <2> HIDE DEF o, c
  <2>2. Rank(S, key, o[i]) < Rank(S, key, o[j])
    BY <1>1, <1>4, <2>1
  <2>. QED  BY <1>4, <2>2, Ranks
<1> HIDE DEF o, c
<1>8. o \in Seq(S)
  BY <1>1, <1>5, SeqDef
<1>9. ToSet(o) = S
  BY <1>2, <1>4, <1>6 DEF ToSet
<1>. QED  BY <1>2, <1>7, <1>8, <1>9 DEF o

-----------------------------------------------------------------------------
(* The lock *)

USE TickAssumption

\* One scheduler ticks at a time, and only a ticking one has claims.
LockHeld ==
  \A s, t \in Schedulers : pc[s] # "idle" /\ pc[t] # "idle" => s = t

ClaimsAreTicks == \A s \in Schedulers : pc[s] = "idle" => mine[s] = {}

\* Nobody has claimed what somebody else holds: the guards of Claim and of
\* StartOutside, which stand for the unique index, kept up by the other steps.
Disjoint ==
  /\ \A s \in Schedulers : mine[s] \cap active = {}
  /\ \A s, t \in Schedulers : s # t => mine[s] \cap mine[t] = {}

\* The part of TypeOK the argument needs.
Shape ==
  /\ pc \in [Schedulers -> {"idle", "counted", "claiming"}]
  /\ mine \in [Schedulers -> SUBSET Items]

IInv == Shape /\ LockHeld /\ ClaimsAreTicks /\ Disjoint

\* Initially nobody ticks and nothing is claimed.
LEMMA InitInv == Init => IInv
  BY DEF Init, IInv, Shape, LockHeld, ClaimsAreTicks, Disjoint

\* A step in which no tick begins, claims or ends keeps the invariant, as long
\* as it starts no lane a tick has claimed.
LEMMA OthersKeepInv ==
  ASSUME IInv, UNCHANGED <<pc, mine>>,
         \A s \in Schedulers : active' \cap mine[s] = {}
  PROVE  IInv'
  BY DEF IInv, Shape, LockHeld, ClaimsAreTicks, Disjoint

\* The end of a tick, committed or rolled back: the lock goes back, and what
\* it had claimed is active or gone.
LEMMA EndKeepsInv ==
  ASSUME IInv, NEW s \in Schedulers, pc[s] # "idle", Ended(s),
         active' \in {active, active \cup mine[s]}
  PROVE  IInv'
<1>1. mine' = [mine EXCEPT ![s] = {}] /\ pc' = [pc EXCEPT ![s] = "idle"]
  BY DEF Ended
<1>2. Shape' /\ LockHeld' /\ ClaimsAreTicks'
  BY <1>1 DEF IInv, Shape, LockHeld, ClaimsAreTicks
<1>3. ASSUME NEW t \in Schedulers
      PROVE  mine'[t] \cap active' = {} /\ \A u \in Schedulers : t # u => mine'[t] \cap mine'[u] = {}
  <2>1. t # s => mine[t] = {} /\ mine'[t] = mine[t]
    BY <1>1 DEF IInv, Shape, LockHeld, ClaimsAreTicks
  <2>2. t = s => mine'[t] = {}
    BY <1>1 DEF IInv, Shape
  <2> QED
    BY <2>1, <2>2
<1> QED
  BY <1>2, <1>3 DEF IInv, Disjoint

\* A tick claims nothing that anybody holds.
LEMMA ClaimKeepsInv ==
  ASSUME IInv, NEW s \in Schedulers, NEW w \in Items, Claim(s, w)
  PROVE  IInv'
<1>1. /\ mine' = [mine EXCEPT ![s] = @ \cup {w}]
      /\ pc[s] = "claiming" /\ pc' = pc /\ active' = active /\ w \notin Held
  BY DEF Claim, Passed, Looking
<1>2. w \notin active /\ \A t \in Schedulers : w \notin mine[t]
  BY <1>1 DEF Held
<1>3. Shape' /\ LockHeld' /\ ClaimsAreTicks'
  BY <1>1 DEF IInv, Shape, LockHeld, ClaimsAreTicks
<1>4. \A t \in Schedulers : mine'[t] = IF t = s THEN mine[t] \cup {w} ELSE mine[t]
  BY <1>1 DEF IInv, Shape
<1> QED
  BY <1>1, <1>2, <1>3, <1>4 DEF IInv, Disjoint

\* Every step of Next keeps the invariant.
LEMMA StepInv == IInv /\ [Next]_vars => IInv'
<1> SUFFICES ASSUME IInv, [Next]_vars PROVE IInv'
  OBVIOUS
<1>1. ASSUME NEW s \in Schedulers, Count(s) PROVE IInv'
  BY <1>1 DEF Count, LockFree, IInv, Shape, LockHeld, ClaimsAreTicks, Disjoint
<1>2. ASSUME NEW s \in Schedulers, List(s) PROVE IInv'
  BY <1>2 DEF List, IInv, Shape, LockHeld, ClaimsAreTicks, Disjoint
<1>3. ASSUME NEW s \in Schedulers, Commit(s) PROVE IInv'
  BY <1>3, EndKeepsInv DEF Commit
<1>4. ASSUME NEW s \in Schedulers, Rollback(s) PROVE IInv'
  BY <1>4, EndKeepsInv DEF Rollback
<1>5. ASSUME NEW s \in Schedulers, NEW w \in Items, Skip(s, w) \/ Refuse(s, w) PROVE IInv'
  <2>1. UNCHANGED <<pc, mine, active>>
    BY <1>5 DEF Skip, Refuse, Passed
  <2> QED
    BY <2>1, OthersKeepInv DEF IInv, Disjoint
<1>6. ASSUME NEW w \in Items, StartOutside(w) PROVE IInv'
  <2>1. UNCHANGED <<pc, mine>> /\ active' = active \cup {w} /\ w \notin Held
    BY <1>6 DEF StartOutside
  <2>2. \A s \in Schedulers : w \notin mine[s]
    BY <2>1 DEF Held
  <2> QED
    BY <2>1, <2>2, OthersKeepInv DEF IInv, Disjoint
<1>7. ASSUME NEW w \in Items, LaneEnds(w) PROVE IInv'
  <2>1. UNCHANGED <<pc, mine>> /\ active' \subseteq active
    BY <1>7 DEF LaneEnds, tickVars
  <2> QED
    BY <2>1, OthersKeepInv DEF IInv, Disjoint
<1>8. ASSUME NEW w \in Items, Reassess(w) PROVE IInv'
  BY <1>8, OthersKeepInv DEF Reassess, tickVars, IInv, Disjoint
<1>9. ASSUME NEW c \in Scopes, NEW n \in LimitValues[c], SetLimit(c, n) PROVE IInv'
  BY <1>9, OthersKeepInv DEF SetLimit, tickVars, IInv, Disjoint
<1>10. CASE UNCHANGED vars
  BY <1>10, OthersKeepInv DEF vars, tickVars, IInv, Disjoint
<1> QED
  BY <1>1, <1>2, <1>3, <1>4, <1>5, <1>6, <1>7, <1>8, <1>9, <1>10, ClaimKeepsInv
  DEF Next, TickStep

\* What the lock, and the index in the guards, amount to in every state.
LEMMA TickInvariant == Spec => []IInv
  BY InitInv, StepInv, PTL DEF Spec

-----------------------------------------------------------------------------
(* The limits *)

\* The lanes of a scope, committed or claimed.
Lanes(c) == InScope(Held, c)

Counters ==
  /\ usage \in [Schedulers -> [Scopes -> Nat]]
  /\ outside \in [Schedulers -> Nat]
  /\ limit \in [Scopes -> Nat]

\* There are finitely many lanes, as each begins by a step.
FewLanes == IsFiniteSet(Held)

\* What a tick has counted is behind the lanes there are by no more than others
\* have started meanwhile: counted before, or consumed by the tick's own claims.
Usage ==
  \A s \in Schedulers : pc[s] # "idle" =>
    \A c \in Scopes : Cardinality(Lanes(c)) <= usage[s][c] + outside[s]

Counting == Counters /\ FewLanes /\ Usage

\* A work item's scopes are scopes, and their limits numbers.
LEMMA ScopeTypes ==
  ASSUME NEW w \in Items
  PROVE  /\ ScopesOf(w) \subseteq Scopes
         /\ Counters => \A c \in Scopes : Caps(c) \subseteq Nat
BY DEF TickAssumption, ScopesOf, Counters, Caps

\* The lanes of a scope, with one more, or fewer.
LEMMA LanesGrow ==
  ASSUME FewLanes, NEW c, NEW w
  PROVE  /\ Cardinality(Lanes(c)) \in Nat
         /\ IsFiniteSet(InScope(Held \cup {w}, c))
         /\ Cardinality(InScope(Held \cup {w}, c)) \in Nat
         /\ Cardinality(InScope(Held \cup {w}, c)) <= Cardinality(Lanes(c)) + 1
         /\ c \notin ScopesOf(w) =>
              Cardinality(InScope(Held \cup {w}, c)) = Cardinality(Lanes(c))
<1> DEFINE more == InScope(Held \cup {w}, c)
           lanes == Lanes(c)
<1>1. IsFiniteSet(Lanes(c)) /\ Cardinality(Lanes(c)) \in Nat
  <2>1. Lanes(c) \subseteq Held
    BY DEF Lanes, InScope
  <2>. QED  BY <2>1, FS_Subset, FS_CardinalityType DEF FewLanes
<1>2. CASE c \in ScopesOf(w)
  <2>1. more = lanes \cup {w}
    BY <1>2 DEF Lanes, InScope
  <2> HIDE DEF more, lanes
  <2>2. IsFiniteSet(lanes) /\ Cardinality(lanes) \in Nat
    BY <1>1 DEF lanes
  <2>3. IsFiniteSet(more) /\ Cardinality(more) \in {Cardinality(lanes), Cardinality(lanes) + 1}
    BY <2>1, <2>2, FS_AddElement
  <2>4. /\ Cardinality(lanes) \in Nat /\ IsFiniteSet(more) /\ Cardinality(more) \in Nat
        /\ Cardinality(more) <= Cardinality(lanes) + 1
    BY <2>2, <2>3
  <2>. QED  BY <1>2, <2>4 DEF more, lanes
<1>3. CASE c \notin ScopesOf(w)
  <2>1. more = lanes
    BY <1>3 DEF Lanes, InScope
  <2> HIDE DEF more, lanes
  <2>2. IsFiniteSet(lanes) /\ Cardinality(lanes) \in Nat
    BY <1>1 DEF lanes
  <2>3. Cardinality(more) = Cardinality(lanes) /\ Cardinality(more) <= Cardinality(lanes) + 1
    BY <2>1, <2>2
  <2>. QED  BY <2>1, <2>2, <2>3 DEF more, lanes
<1>. QED  BY <1>2, <1>3

\* Where no lane is added, a scope's count does not grow.
LEMMA LanesShrink ==
  ASSUME FewLanes, Held' \subseteq Held
  PROVE  FewLanes' /\ \A c : Cardinality(Lanes(c)') <= Cardinality(Lanes(c))
                             /\ Cardinality(Lanes(c)') \in Nat
<1>1. FewLanes'
  BY FS_Subset DEF FewLanes
<1>2. ASSUME NEW c
      PROVE  Cardinality(Lanes(c)') <= Cardinality(Lanes(c)) /\ Cardinality(Lanes(c)') \in Nat
  <2>1. Lanes(c)' \subseteq Lanes(c) /\ Lanes(c) \subseteq Held
    BY DEF Lanes, InScope
  <2>. QED  BY <2>1, FS_Subset, FS_CardinalityType DEF FewLanes
<1>. QED  BY <1>1, <1>2

\* Steps in which no tick begins or ends and no lane.
LEMMA QuietKeepsCounting ==
  ASSUME IInv, Counting, UNCHANGED <<pc, usage, outside>>, Held' \subseteq Held,
         limit' \in [Scopes -> Nat]
  PROVE  Counting'
<1>1. FewLanes' /\ \A c : Cardinality(Lanes(c)') <= Cardinality(Lanes(c))
                          /\ Cardinality(Lanes(c)') \in Nat
  BY LanesShrink DEF Counting
<1>2. \A c : Cardinality(Lanes(c)) \in Nat
  BY LanesGrow DEF Counting
<1>3. Usage'
  <2>1. SUFFICES ASSUME NEW s \in Schedulers, pc'[s] # "idle", NEW c \in Scopes
                 PROVE  Cardinality(Lanes(c)') <= usage'[s][c] + outside'[s]
    BY DEF Usage
  <2>2. Cardinality(Lanes(c)) <= usage[s][c] + outside[s]
        /\ usage[s][c] \in Nat /\ outside[s] \in Nat
    BY <2>1 DEF Counting, Usage, Counters
  <2>. QED  BY <1>1, <1>2, <2>2
<1>. QED  BY <1>1, <1>3 DEF Counting, Counters

\* A tick begins: it counts the lanes there are.
LEMMA CountKeepsCounting ==
  ASSUME IInv, Counting, NEW s \in Schedulers, Count(s)
  PROVE  Counting'
<1>1. /\ pc' = [pc EXCEPT ![s] = "counted"] /\ UNCHANGED <<active, mine, limit, outside>>
      /\ usage' = [usage EXCEPT ![s] = [c \in Scopes |-> Cardinality(InScope(active, c))]]
      /\ \A t \in Schedulers : pc[t] = "idle"
  BY DEF Count, LockFree
<1>2. Held = active /\ Held' = Held
  BY <1>1 DEF Held, IInv, ClaimsAreTicks
<1>3. \A c : Lanes(c) = InScope(active, c) /\ Lanes(c)' = Lanes(c) /\ Cardinality(Lanes(c)) \in Nat
  BY <1>1, <1>2, LanesGrow DEF Lanes, Counting
<1>4. Counters'
  BY <1>1, <1>3 DEF Counting, Counters
<1>5. Usage'
  <2>1. SUFFICES ASSUME NEW t \in Schedulers, pc'[t] # "idle", NEW c \in Scopes
                 PROVE  Cardinality(Lanes(c)') <= usage'[t][c] + outside'[t]
    BY DEF Usage
  <2>2. t = s
    BY <1>1, <2>1 DEF IInv, Shape
  <2>3. usage'[t][c] = Cardinality(Lanes(c)) /\ outside'[t] \in Nat
    BY <1>1, <1>3, <2>2 DEF Counting, Counters
  <2>. QED  BY <1>3, <2>3
<1>6. FewLanes'
  BY <1>2 DEF Counting, FewLanes
<1>. QED  BY <1>4, <1>5, <1>6 DEF Counting

\* A tick claims, and consumes the capacity of the work item's scopes.
LEMMA ClaimKeepsCounting ==
  ASSUME IInv, Counting, NEW s \in Schedulers, NEW w \in Items, Claim(s, w)
  PROVE  Counting'
<1> DEFINE one(c) == IF c \in ScopesOf(w) THEN 1 ELSE 0
<1>1. /\ pc' = pc /\ UNCHANGED <<active, limit, outside>> /\ pc[s] = "claiming"
      /\ mine' = [mine EXCEPT ![s] = @ \cup {w}]
      /\ usage' = [usage EXCEPT ![s] = [c \in Scopes |-> @[c] + one(c)]]
  BY DEF Claim, Passed, Looking
<1>2. Held' = Held \cup {w}
  <2>1. \A t \in Schedulers : mine'[t] = IF t = s THEN mine[t] \cup {w} ELSE mine[t]
    BY <1>1 DEF IInv, Shape
  <2>2. UNION {mine'[t] : t \in Schedulers} = (UNION {mine[t] : t \in Schedulers}) \cup {w}
    <3>1. \A v : (\E t \in Schedulers : v \in mine'[t])
                 <=> (\E t \in Schedulers : v \in mine[t]) \/ v = w
      BY <2>1
    <3>2. \A v : v \in UNION {mine'[t] : t \in Schedulers} <=> \E t \in Schedulers : v \in mine'[t]
      OBVIOUS
    <3>3. \A v : v \in UNION {mine[t] : t \in Schedulers} <=> \E t \in Schedulers : v \in mine[t]
      OBVIOUS
    <3> DEFINE After == UNION {mine'[t] : t \in Schedulers}
               Until == UNION {mine[t] : t \in Schedulers}
    <3>4. \A v : v \in After <=> v \in Until \/ v = w
      BY <3>1, <3>2, <3>3, Zenon
    <3> HIDE DEF After, Until
    <3>5. After = Until \cup {w}
      BY <3>4
    <3>. QED  BY <3>5 DEF After, Until
  <2>. QED  BY <1>1, <2>2 DEF Held
<1>3. \A c : one(c) \in {0, 1} /\ one(c) \in Nat
  OBVIOUS
<1> HIDE DEF one
<1>4. usage'[s] = [c \in Scopes |-> usage[s][c] + one(c)]
  BY <1>1 DEF Counting, Counters
<1>5. Counters'
  <2>1. usage'[s] \in [Scopes -> Nat]
    BY <1>3, <1>4 DEF Counting, Counters
  <2>2. usage' \in [Schedulers -> [Scopes -> Nat]]
    BY <1>1, <2>1 DEF Counting, Counters
  <2>. QED  BY <1>1, <2>2 DEF Counting, Counters
<1>6. FewLanes'
  BY <1>2, FS_AddElement DEF Counting, FewLanes
<1>7. Usage'
  <2>1. SUFFICES ASSUME NEW t \in Schedulers, pc'[t] # "idle", NEW c \in Scopes
                 PROVE  Cardinality(Lanes(c)') <= usage'[t][c] + outside'[t]
    BY DEF Usage
  <2>2. t = s
    BY <1>1, <2>1 DEF IInv, LockHeld
  <2>3. usage'[t][c] = usage[s][c] + one(c) /\ outside'[t] = outside[s]
        /\ usage[s][c] \in Nat /\ outside[s] \in Nat
    BY <1>1, <1>4, <2>2 DEF Counting, Counters
  <2>4. Cardinality(Lanes(c)) <= usage[s][c] + outside[s]
    BY <1>1 DEF Counting, Usage
  <2>5. Lanes(c)' = InScope(Held \cup {w}, c)
    BY <1>2 DEF Lanes, InScope
  <2>6. /\ Cardinality(Lanes(c)) \in Nat /\ Cardinality(Lanes(c)') \in Nat
        /\ Cardinality(Lanes(c)') <= Cardinality(Lanes(c)) + one(c)
    <3>1. c \in ScopesOf(w) => one(c) = 1
      BY DEF one
    <3>2. c \notin ScopesOf(w) => one(c) = 0
      BY DEF one
    <3>. QED  BY <2>5, <3>1, <3>2, LanesGrow DEF Counting
  <2>. QED  BY <1>3, <2>3, <2>4, <2>6
<1>. QED  BY <1>5, <1>6, <1>7 DEF Counting

\* Someone else starts a lane.
LEMMA OutsideKeepsCounting ==
  ASSUME IInv, Counting, NEW w \in Items, StartOutside(w)
  PROVE  Counting'
<1>1. /\ UNCHANGED <<limit, pc, usage, mine>> /\ active' = active \cup {w}
      /\ outside' = [s \in Schedulers |-> IF pc[s] = "idle" THEN 0 ELSE outside[s] + 1]
  BY DEF StartOutside
<1>2. Held' = Held \cup {w}
  BY <1>1 DEF Held
<1>3. Counters' /\ FewLanes'
  <2>1. \A s \in Schedulers : outside[s] + 1 \in Nat
    BY DEF Counting, Counters
  <2>2. Counters'
    BY <1>1, <2>1 DEF Counting, Counters
  <2>3. FewLanes'
    BY <1>2, FS_AddElement DEF Counting, FewLanes
  <2>. QED  BY <2>2, <2>3
<1>4. Usage'
  <2>1. SUFFICES ASSUME NEW s \in Schedulers, pc'[s] # "idle", NEW c \in Scopes
                 PROVE  Cardinality(Lanes(c)') <= usage'[s][c] + outside'[s]
    BY DEF Usage
  <2>2. /\ Cardinality(Lanes(c)) <= usage[s][c] + outside[s]
        /\ usage'[s][c] = usage[s][c] /\ outside'[s] = outside[s] + 1
        /\ usage[s][c] \in Nat /\ outside[s] \in Nat
    BY <1>1, <2>1 DEF Counting, Usage, Counters
  <2>3. Lanes(c)' = InScope(Held \cup {w}, c)
    BY <1>2 DEF Lanes, InScope
  <2>4. /\ Cardinality(Lanes(c)) \in Nat /\ Cardinality(Lanes(c)') \in Nat
        /\ Cardinality(Lanes(c)') <= Cardinality(Lanes(c)) + 1
    BY <2>3, LanesGrow DEF Counting
  <2>. QED  BY <2>2, <2>4
<1>. QED  BY <1>3, <1>4 DEF Counting

\* A tick ends, and what it had claimed is active or gone.
LEMMA EndKeepsCounting ==
  ASSUME IInv, Counting, NEW s \in Schedulers, pc[s] # "idle", Ended(s),
         active' \in {active, active \cup mine[s]}
  PROVE  Counting'
<1>1. /\ pc' = [pc EXCEPT ![s] = "idle"] /\ mine' = [mine EXCEPT ![s] = {}] /\ limit' = limit
      /\ usage' = [usage EXCEPT ![s] = [c \in Scopes |-> 0]] /\ outside' = [outside EXCEPT ![s] = 0]
  BY DEF Ended
<1>2. Held' \subseteq Held
  <2>1. \A t \in Schedulers : mine'[t] \subseteq mine[t]
    BY <1>1 DEF IInv, Shape
  <2>. QED  BY <2>1 DEF Held
<1>3. Usage'
  <2>1. \A t \in Schedulers : pc'[t] = "idle"
    BY <1>1 DEF IInv, Shape, LockHeld
  <2>. QED  BY <2>1 DEF Usage
<1>4. Counters'
  BY <1>1 DEF Counting, Counters
<1>. QED  BY <1>2, <1>3, <1>4, LanesShrink DEF Counting

\* At first nothing is counted and there is no lane.
LEMMA InitCounting == Init => Counting
<1> SUFFICES ASSUME Init PROVE Counting
  OBVIOUS
<1>1. Held = {}
  BY DEF Init, Held
<1>2. FewLanes
  BY <1>1, FS_EmptySet DEF FewLanes
<1>3. Usage
  BY DEF Init, Usage
<1>4. limit \in [Scopes -> Nat]
  BY DEF Init, TickAssumption
<1>5. usage \in [Schedulers -> [Scopes -> Nat]] /\ outside \in [Schedulers -> Nat]
  BY DEF Init
<1>. QED  BY <1>2, <1>3, <1>4, <1>5 DEF Counting, Counters

\* Every step keeps the counters close to the lanes.
LEMMA StepCounting == IInv /\ Counting /\ [Next]_vars => Counting'
<1> SUFFICES ASSUME IInv, Counting, [Next]_vars PROVE Counting'
  OBVIOUS
<1>1. limit \in [Scopes -> Nat]
  BY DEF Counting, Counters
<1>2. ASSUME NEW s \in Schedulers, Commit(s) \/ Rollback(s) PROVE Counting'
  BY <1>2, EndKeepsCounting DEF Commit, Rollback
<1>3. ASSUME NEW s \in Schedulers, List(s) PROVE Counting'
  <2>1. pc' = [pc EXCEPT ![s] = "claiming"] /\ pc[s] = "counted"
        /\ UNCHANGED <<active, limit, usage, mine, outside>>
    BY <1>3 DEF List
  <2>2. Held' = Held /\ \A c : Lanes(c)' = Lanes(c)
    BY <2>1 DEF Held, Lanes
  <2>3. Usage'
    <3>1. \A t \in Schedulers : pc'[t] # "idle" => pc[t] # "idle"
      BY <2>1 DEF IInv, Shape
    <3>. QED  BY <2>1, <2>2, <3>1 DEF Counting, Usage
  <2>. QED  BY <2>1, <2>2, <2>3 DEF Counting, Counters, FewLanes
<1>4. ASSUME NEW s \in Schedulers, NEW w \in Items, Skip(s, w) \/ Refuse(s, w) PROVE Counting'
  <2>1. UNCHANGED <<pc, mine, active, limit, usage, outside>>
    BY <1>4 DEF Skip, Refuse, Passed
  <2>. QED  BY <1>1, <2>1, QuietKeepsCounting DEF Held
<1>5. ASSUME NEW w \in Items, LaneEnds(w) \/ Reassess(w) PROVE Counting'
  <2>1. UNCHANGED <<pc, mine, limit, usage, outside>> /\ active' \subseteq active
    BY <1>5 DEF LaneEnds, Reassess, tickVars
  <2>. QED  BY <1>1, <2>1, QuietKeepsCounting DEF Held
<1>6. ASSUME NEW c \in Scopes, NEW n \in LimitValues[c], SetLimit(c, n) PROVE Counting'
  <2>1. UNCHANGED <<pc, mine, active, usage, outside>> /\ limit' = [limit EXCEPT ![c] = n]
    BY <1>6 DEF SetLimit, tickVars
  <2>2. n \in Nat
    BY DEF TickAssumption
  <2>3. limit' \in [Scopes -> Nat]
    BY <1>1, <2>1, <2>2
  <2>. QED  BY <2>1, <2>3, QuietKeepsCounting DEF Held
<1>7. CASE UNCHANGED vars
  BY <1>1, <1>7, QuietKeepsCounting DEF vars, tickVars, Held
<1>. QED  BY <1>2, <1>3, <1>4, <1>5, <1>6, <1>7, CountKeepsCounting, ClaimKeepsCounting,
             OutsideKeepsCounting DEF Next, TickStep

\* Only a claim adds to what a tick has claimed.
LEMMA OnlyClaimsAdd ==
  ASSUME IInv, [Next]_vars, NEW s \in Schedulers, NEW w \in mine'[s] \ mine[s]
  PROVE  w \in Items /\ Claim(s, w)
<1>1. mine \in [Schedulers -> SUBSET Items]
  BY DEF IInv, Shape
<1>2. mine'[s] # mine[s]
  OBVIOUS
<1>3. \A t \in Schedulers : Count(t) \/ List(t) => UNCHANGED mine
  BY DEF Count, List
<1>4. \A t \in Schedulers : Commit(t) \/ Rollback(t) => mine'[s] \in {{}, mine[s]}
  BY <1>1 DEF Commit, Rollback, Ended
<1>5. \A t \in Schedulers : \A v \in Items : Skip(t, v) \/ Refuse(t, v) => UNCHANGED mine
  BY DEF Skip, Refuse
<1>6. \A t \in Schedulers : \A v \in Items : Claim(t, v) => t = s /\ v = w
  <2>1. SUFFICES ASSUME NEW t \in Schedulers, NEW v \in Items, Claim(t, v) PROVE t = s /\ v = w
    OBVIOUS
  <2>2. mine' = [mine EXCEPT ![t] = @ \cup {v}]
    BY <2>1 DEF Claim
  <2>. QED  BY <1>1, <2>2
<1>7. \A v \in Items : StartOutside(v) \/ LaneEnds(v) \/ Reassess(v) => UNCHANGED mine
  BY DEF StartOutside, LaneEnds, Reassess, tickVars
<1>8. \A c \in Scopes : \A n \in LimitValues[c] : SetLimit(c, n) => UNCHANGED mine
  BY DEF SetLimit, tickVars
<1>9. UNCHANGED vars => UNCHANGED mine
  BY DEF vars, tickVars
<1>. QED  BY <1>2, <1>3, <1>4, <1>5, <1>6, <1>7, <1>8, <1>9 DEF Next, TickStep

\* When a tick claims, the lanes there really are, committed or not, stay within
\* every limit of the work item's scopes, but for one for each that others have
\* started since the tick counted (_has_capacity, _consume_capacity, and the tick
\* lock taken before _load_capacity_usage).
THEOREM ClaimsAlwaysFit == Spec => ClaimsFit
<1> DEFINE Fits ==
      \A s \in Schedulers : \A w \in mine'[s] \ mine[s] :
        \A c \in ScopesOf(w) : \A cap \in Caps(c) :
          Cardinality(InScope(Held \cup {w}, c)) <= cap + outside[s]
<1>1. ASSUME IInv, Counting, [Next]_vars
      PROVE  Fits
  <2>1. SUFFICES ASSUME NEW s \in Schedulers, NEW w \in mine'[s] \ mine[s],
                        NEW c \in ScopesOf(w), NEW cap \in Caps(c)
                 PROVE  Cardinality(InScope(Held \cup {w}, c)) <= cap + outside[s]
    OBVIOUS
  <2>2. w \in Items /\ Claim(s, w)
    BY <1>1, OnlyClaimsAdd
  <2>3. c \in Scopes /\ cap \in Nat
    BY <1>1, <2>2, ScopeTypes DEF Counting
  <2>4. pc[s] = "claiming" /\ usage[s][c] < cap
    BY <2>2 DEF Claim, Looking, HasCapacity
  <2>5. usage[s][c] \in Nat /\ outside[s] \in Nat
        /\ Cardinality(Lanes(c)) <= usage[s][c] + outside[s]
    BY <1>1, <2>3, <2>4 DEF Counting, Counters, Usage
  <2>6. /\ Cardinality(Lanes(c)) \in Nat /\ Cardinality(InScope(Held \cup {w}, c)) \in Nat
        /\ Cardinality(InScope(Held \cup {w}, c)) <= Cardinality(Lanes(c)) + 1
    BY <1>1, LanesGrow DEF Counting
  <2>. QED  BY <2>3, <2>4, <2>5, <2>6
<1>. QED  BY <1>1, InitInv, StepInv, InitCounting, StepCounting, PTL DEF Spec, ClaimsFit

-----------------------------------------------------------------------------
(* The order of the candidates *)

KeyTypes ==
  /\ rank \in [Items -> Nat] /\ readyAt \in [Items -> Nat]
  /\ productRank \in [Products -> Nat]

SameProduct(v, w) == ProductOf[v] = ProductOf[w]

\* The keys within a product are of one length and differ.
LEMMA ItemKeys ==
  ASSUME KeyTypes
  PROVE  /\ \A w \in Items : ItemKey(w) \in Keyed(3)
         /\ \A v, w \in Items : SameProduct(v, w) /\ ItemKey(v) = ItemKey(w) => v = w
<1>1. \A w \in Items : ItemKey(w) = <<rank[w], readyAt[w], ItemNumber[w]>>
  BY DEF ItemKey
<1>2. \A w \in Items : rank[w] \in Nat /\ readyAt[w] \in Nat /\ ItemNumber[w] \in Nat
  BY DEF KeyTypes, TickAssumption
<1>3. \A v, w \in Items : SameProduct(v, w) /\ ItemNumber[v] = ItemNumber[w] => v = w
  BY DEF TickAssumption, SameProduct
<1>4. ASSUME NEW w \in Items
      PROVE  ItemKey(w) \in Keyed(3)
  BY <1>1, <1>2 DEF Keyed
<1>5. ASSUME NEW v \in Items, NEW w \in Items, SameProduct(v, w), ItemKey(v) = ItemKey(w)
      PROVE  v = w
  <2>1. <<rank[v], readyAt[v], ItemNumber[v]>> = <<rank[w], readyAt[w], ItemNumber[w]>>
    BY <1>1, <1>5
  <2>2. ItemNumber[v] = ItemNumber[w]
    BY <2>1
  <2>. QED  BY <1>3, <1>5, <2>2
<1>. QED  BY <1>4, <1>5

\* The keys of products are of one length and differ from product to product.
LEMMA ProductKeys ==
  ASSUME KeyTypes
  PROVE  /\ \A w \in Items : ProductSortKey(w) \in Keyed(4)
         /\ \A v, w \in Items : ProductSortKey(v) = ProductSortKey(w) => SameProduct(v, w)
<1>1. \A w \in Items :
        /\ ProductOf[w] \in Products /\ ProductKey[ProductOf[w]] \in Nat
        /\ readyAt[w] \in Nat /\ productRank[ProductOf[w]] \in Nat
  BY DEF KeyTypes, TickAssumption
<1>2. \A p, q \in Products : ProductKey[p] = ProductKey[q] => p = q
  BY DEF TickAssumption
<1>3. \A w \in Items : \E a, b, c \in Nat :
        ProductSortKey(w) = <<a, b, c, ProductKey[ProductOf[w]]>>
  <2>1. SUFFICES ASSUME NEW w \in Items
                 PROVE  \E a, b, c \in Nat :
                          ProductSortKey(w) = <<a, b, c, ProductKey[ProductOf[w]]>>
    OBVIOUS
  <2>2. CASE productRank[ProductOf[w]] # 0
    <3>1. ProductSortKey(w)
            = <<0, productRank[ProductOf[w]], readyAt[w], ProductKey[ProductOf[w]]>>
      BY <2>2 DEF ProductSortKey
    <3>. QED  BY <1>1, <3>1
  <2>3. CASE productRank[ProductOf[w]] = 0
    <3>1. ProductSortKey(w) = <<1, readyAt[w], readyAt[w], ProductKey[ProductOf[w]]>>
      BY <2>3 DEF ProductSortKey
    <3>. QED  BY <1>1, <3>1
  <2>. QED  BY <2>2, <2>3
<1>4. ASSUME NEW w \in Items
      PROVE  ProductSortKey(w) \in Keyed(4) /\ ProductSortKey(w)[4] = ProductKey[ProductOf[w]]
  <2>1. PICK a \in Nat, b \in Nat, c \in Nat :
          ProductSortKey(w) = <<a, b, c, ProductKey[ProductOf[w]]>>
    BY <1>3
  <2>. QED  BY <1>1, <2>1 DEF Keyed
<1>5. ASSUME NEW v \in Items, NEW w \in Items, ProductSortKey(v) = ProductSortKey(w)
      PROVE  SameProduct(v, w)
  <2>1. ProductKey[ProductOf[v]] = ProductKey[ProductOf[w]]
    BY <1>4, <1>5
  <2>. QED  BY <1>1, <1>2, <2>1 DEF SameProduct
<1>. QED  BY <1>4, <1>5

\* The turns of a product's candidates are 0, 1, 2, ... by their keys.
LEMMA Turns ==
  ASSUME KeyTypes, NEW ws \in SUBSET Items
  PROVE  /\ \A w \in ws : Turn(ws, w) \in 0 .. Cardinality(ws) - 1
         /\ \A v, w \in ws : SameProduct(v, w) =>
              /\ Precedes(ItemKey(v), ItemKey(w)) <=> Turn(ws, v) < Turn(ws, w)
              /\ Turn(ws, v) = Turn(ws, w) => v = w
         /\ \A w \in ws : \A n \in 0 .. Turn(ws, w) :
              \E v \in ws : SameProduct(v, w) /\ Turn(ws, v) = n
<1> DEFINE mates(w) == {v \in ws : SameProduct(v, w)}
           key == [v \in ws |-> ItemKey(v)]
<1>1. IsFiniteSet(ws) /\ Cardinality(ws) \in Nat
  BY FS_Subset, FS_CardinalityType DEF TickAssumption
<1>2. ASSUME NEW w \in ws
      PROVE  /\ IsFiniteSet(mates(w)) /\ Cardinality(mates(w)) <= Cardinality(ws)
             /\ Orders(mates(w), key)
  <2>1. mates(w) \in SUBSET ws
    OBVIOUS
  <2>2. \A v \in mates(w) : key[v] = ItemKey(v) /\ v \in Items /\ SameProduct(v, w)
    OBVIOUS
  <2> HIDE DEF mates, key
  <2>3. IsFiniteSet(mates(w)) /\ Cardinality(mates(w)) <= Cardinality(ws)
    BY <1>1, <2>1, FS_Subset
  <2>4. \A v \in mates(w) : key[v] \in Keyed(3)
    BY <2>2, ItemKeys
  <2>5. \A u, v \in mates(w) : key[u] = key[v] => u = v
    BY <2>2, ItemKeys DEF SameProduct
  <2>. QED  BY <2>3, <2>4, <2>5, KeysOrder
<1>3. ASSUME NEW w \in ws, NEW v \in mates(w)
      PROVE  /\ Turn(ws, v) = Rank(mates(w), key, v)
             /\ key[v] = ItemKey(v)
  <2>1. {u \in ws : ProductOf[u] = ProductOf[v] /\ Precedes(ItemKey(u), ItemKey(v))}
          = {u \in mates(w) : Precedes(key[u], key[v])}
    BY DEF SameProduct
  <2>. QED  BY <2>1 DEF Turn, Rank
<1>4. \A w \in ws : w \in mates(w) /\ \A v \in ws : v \in mates(w) <=> SameProduct(v, w)
  BY DEF SameProduct
<1> HIDE DEF mates, key
<1>5. ASSUME NEW w \in ws
      PROVE  Turn(ws, w) \in 0 .. Cardinality(ws) - 1
             /\ Turn(ws, w) \in 0 .. Cardinality(mates(w)) - 1
  <2>1. Cardinality(mates(w)) \in Nat
        /\ Rank(mates(w), key, w) \in 0 .. Cardinality(mates(w)) - 1
    BY <1>2, <1>4, Ranks
  <2>. QED  BY <1>1, <1>2, <1>3, <1>4, <2>1
<1>6. ASSUME NEW v \in ws, NEW w \in ws, SameProduct(v, w)
      PROVE  /\ Precedes(ItemKey(v), ItemKey(w)) <=> Turn(ws, v) < Turn(ws, w)
             /\ Turn(ws, v) = Turn(ws, w) => v = w
  <2>1. v \in mates(w) /\ w \in mates(w)
    BY <1>4, <1>6
  <2>. QED  BY <1>2, <1>3, <2>1, Ranks
<1>7. ASSUME NEW w \in ws, NEW n \in 0 .. Turn(ws, w)
      PROVE  \E v \in ws : SameProduct(v, w) /\ Turn(ws, v) = n
  <2>1. n \in 0 .. Cardinality(mates(w)) - 1
    BY <1>2, <1>5, FS_CardinalityType
  <2>2. PICK v \in mates(w) : Rank(mates(w), key, v) = n
    BY <1>2, <2>1, Ranks
  <2>3. v \in ws
    BY DEF mates
  <2>. QED  BY <1>3, <1>4, <2>2, <2>3
<1>. QED  BY <1>5, <1>6, <1>7

\* Turns can be compared.
LEMMA TurnsAreNumbers ==
  ASSUME KeyTypes, NEW ws \in SUBSET Items
  PROVE  Cardinality(ws) \in Nat /\ \A w \in ws : Turn(ws, w) \in Nat
<1>1. Cardinality(ws) \in Nat
  BY FS_Subset, FS_CardinalityType DEF TickAssumption
<1>. QED  BY <1>1, Turns

\* A round finds the candidates whose turn it is at the heads.
LEMMA HeadsHaveTheTurn ==
  ASSUME KeyTypes, NEW ws \in SUBSET Items, NEW n \in Nat
  PROVE  Heads({w \in ws : Turn(ws, w) >= n}) = {w \in ws : Turn(ws, w) = n}
<1> DEFINE left == {w \in ws : Turn(ws, w) >= n}
<1>1. \A w \in ws : Turn(ws, w) \in Nat
  BY TurnsAreNumbers
<1>2. \A w \in left : w \in ws /\ Turn(ws, w) >= n
  OBVIOUS
<1>3. \A w \in ws : Turn(ws, w) >= n => w \in left
  OBVIOUS
<1>4. \A w : w \in Heads(left) <=>
        w \in left /\ \A v \in left \ {w} : SameProduct(v, w) => Precedes(ItemKey(w), ItemKey(v))
  BY DEF Heads, SameProduct
<1> HIDE DEF left
<1>5. ASSUME NEW w \in ws, Turn(ws, w) = n
      PROVE  w \in Heads(left)
  <2>1. w \in left
    BY <1>3, <1>5, <1>1
  <2>2. ASSUME NEW v \in left \ {w}, SameProduct(v, w)
        PROVE  Precedes(ItemKey(w), ItemKey(v))
    <3>1. v \in ws /\ Turn(ws, v) >= n /\ v # w /\ SameProduct(w, v)
      BY <1>2, <2>2 DEF SameProduct
    <3>2. Turn(ws, v) # n
      BY <1>5, <2>2, <3>1, Turns
    <3>3. Turn(ws, w) < Turn(ws, v)
      BY <1>1, <1>5, <3>1, <3>2
    <3>. QED  BY <3>1, <3>3, Turns
  <2>. QED  BY <1>4, <2>1, <2>2
<1>6. ASSUME NEW w \in Heads(left)
      PROVE  w \in ws /\ Turn(ws, w) = n
  <2>1. w \in ws /\ Turn(ws, w) >= n
    BY <1>2, <1>4
  <2>2. SUFFICES ASSUME Turn(ws, w) # n PROVE FALSE
    BY <2>1
  <2>3. n \in 0 .. Turn(ws, w)
    BY <1>1, <2>1
  <2>4. PICK v \in ws : SameProduct(v, w) /\ Turn(ws, v) = n
    BY <2>1, <2>3, Turns
  <2>5. v \in left \ {w}
    BY <1>1, <1>3, <2>2, <2>4
  <2>6. Precedes(ItemKey(w), ItemKey(v))
    BY <1>4, <2>4, <2>5
  <2>7. Turn(ws, w) < Turn(ws, v)
    BY <2>1, <2>4, <2>6, Turns DEF SameProduct
  <2>. QED  BY <1>1, <2>1, <2>4, <2>7
<1>7. \A w : w \in Heads(left) <=> w \in {v \in ws : Turn(ws, v) = n}
  BY <1>5, <1>6
<1>. QED  BY <1>7 DEF left

\* No two heads are of one product, so that their keys order them.
LEMMA HeadsAreOrdered ==
  ASSUME KeyTypes, NEW ws \in SUBSET Items, NEW left \in SUBSET ws
  PROVE  /\ Heads(left) \in SUBSET left /\ IsFiniteSet(Heads(left))
         /\ Orders(Heads(left), [w \in ws |-> ProductSortKey(w)])
<1> DEFINE key == [w \in ws |-> ProductSortKey(w)]
<1>1. Heads(left) \in SUBSET left
  BY DEF Heads
<1>2. IsFiniteSet(Heads(left))
  BY <1>1, FS_Subset DEF TickAssumption
<1>3. \A w \in Heads(left) : w \in Items /\ w \in left /\ key[w] = ProductSortKey(w)
  BY <1>1
<1>4. ASSUME NEW u \in Heads(left), NEW v \in Heads(left), SameProduct(u, v)
      PROVE  u = v
  <2>1. SUFFICES ASSUME u # v PROVE FALSE
    OBVIOUS
  <2>2. Precedes(ItemKey(u), ItemKey(v)) /\ Precedes(ItemKey(v), ItemKey(u))
    BY <1>3, <1>4, <2>1 DEF Heads, SameProduct
  <2>3. ItemKey(u) \in Keyed(3) /\ ItemKey(v) \in Keyed(3)
    BY <1>3, ItemKeys
  <2>4. ~Precedes(ItemKey(u), ItemKey(u))
        /\ (Precedes(ItemKey(u), ItemKey(v)) /\ Precedes(ItemKey(v), ItemKey(u))
              => Precedes(ItemKey(u), ItemKey(u)))
    <3>1. 3 \in Nat
      OBVIOUS
    <3>. QED  BY <2>3, <3>1, PrecedesOrders
  <2>. QED  BY <2>2, <2>4
<1> HIDE DEF key
<1>5. \A w \in Heads(left) : key[w] \in Keyed(4)
  BY <1>3, ProductKeys
<1>6. \A u, v \in Heads(left) : key[u] = key[v] => u = v
  BY <1>3, <1>4, ProductKeys
<1>7. Orders(Heads(left), key)
  <2>1. 4 \in Nat
    OBVIOUS
  <2>. QED  BY <1>5, <1>6, <2>1, KeysOrder
<1>. QED  BY <1>1, <1>2, <1>7 DEF key

\* One round, and the rounds as a function of their number.
Lists(ws) == [left : SUBSET ws, taken : Seq(ws)]
FirstList(ws) == [left |-> ws, taken |-> <<>>]
Round(was, key) ==
  [left |-> was.left \ Heads(was.left), taken |-> was.taken \o InOrder(Heads(was.left), key)]

RoundsGo(f, ws, key) ==
  /\ f \in [0 .. Cardinality(ws) -> Lists(ws)] /\ f[0] = FirstList(ws)
  /\ \A n \in 1 .. Cardinality(ws) : f[n] = Round(f[n - 1], key)

\* A round makes lists of lists.
LEMMA RoundTypes ==
  ASSUME KeyTypes, NEW ws \in SUBSET Items, NEW was \in Lists(ws)
  PROVE  Round(was, [w \in ws |-> ProductSortKey(w)]) \in Lists(ws)
<1> DEFINE key == [w \in ws |-> ProductSortKey(w)]
           heads == Heads(was.left)
<1>1. was.left \in SUBSET ws /\ was.taken \in Seq(ws)
  BY DEF Lists
<1>2. heads \in SUBSET was.left /\ IsFiniteSet(heads) /\ Orders(heads, key)
  BY <1>1, HeadsAreOrdered
<1> HIDE DEF heads, key
<1>3. InOrder(heads, key) \in Seq(heads)
  BY <1>2, Sorts
<1>4. InOrder(heads, key) \in Seq(ws)
  BY <1>1, <1>2, <1>3, SeqDef
<1>5. was.taken \o InOrder(heads, key) \in Seq(ws)
  BY <1>1, <1>4, ConcatProperties
<1>. QED  BY <1>1, <1>5 DEF Round, Lists, heads, key

\* The recursion of the rounds is one.
LEMMA RoundsUnfold ==
  ASSUME KeyTypes, NEW ws \in SUBSET Items
  PROVE  \E f : RoundsGo(f, ws, [w \in ws |-> ProductSortKey(w)])
                /\ ProductFairness(ws) = f[Cardinality(ws)].taken
<1> DEFINE N == Cardinality(ws)
           L == Lists(ws)
           key == [w \in ws |-> ProductSortKey(w)]
           round == [was \in L |-> Round(was, key)]
           Is(f) == f = [n \in 0 .. N |-> IF n = 0 THEN FirstList(ws) ELSE round[f[n - 1]]]
           step == [n \in 1 .. N |-> round]
           after == CHOOSE f : Is(f)
<1>1. N \in Nat
  BY FS_Subset, FS_CardinalityType DEF TickAssumption
<1>2. FirstList(ws) \in L
  BY DEF FirstList, Lists
<1>3. ProductFairness(ws) = after[N].taken
  BY DEF ProductFairness, Rounds, Lists, FirstList, Round
<1>4. \A was \in L : Round(was, key) \in L
  BY RoundTypes
<1> HIDE DEF L, key, N
<1>5. round \in [L -> L] /\ \A was \in L : round[was] = Round(was, key)
  BY <1>4
<1> HIDE DEF round
<1>6. step \in [1 .. N -> [L -> L]] /\ \A n \in 1 .. N : step[n] = round
  BY <1>5
<1> HIDE DEF step
<1>7. PICK f \in [0 .. N -> L] : Recurs(f, step, FirstList(ws), N)
  BY <1>1, <1>2, <1>6, RecursionExists
<1>8. \A n \in 0 .. N : n # 0 => n \in 1 .. N /\ n - 1 \in 0 .. N
  BY <1>1
<1>9. f = [n \in 0 .. N |-> IF n = 0 THEN FirstList(ws) ELSE step[n][f[n - 1]]]
  BY <1>7 DEF Recurs
<1>10. \A n \in 0 .. N : f[n] = IF n = 0 THEN FirstList(ws) ELSE round[f[n - 1]]
  <2>1. \A n \in 0 .. N : f[n] = IF n = 0 THEN FirstList(ws) ELSE step[n][f[n - 1]]
    BY <1>9, Zenon
  <2>. QED  BY <1>6, <1>8, <2>1
<1>11. Is(f)
  BY <1>7, <1>10
<1>12. Is(after)
  BY <1>11
<1> HIDE DEF after
<1>13. /\ DOMAIN after = 0 .. N
       /\ \A n \in 0 .. N : after[n] = IF n = 0 THEN FirstList(ws) ELSE round[after[n - 1]]
  <2>1. after = [n \in 0 .. N |-> IF n = 0 THEN FirstList(ws) ELSE round[after[n - 1]]]
    BY <1>12
  <2>2. DOMAIN after = 0 .. N
    BY <2>1, Zenon
  <2>3. \A n \in 0 .. N : after[n] = IF n = 0 THEN FirstList(ws) ELSE round[after[n - 1]]
    BY <2>1, Zenon
  <2>. QED  BY <2>2, <2>3
<1>14. after[0] = FirstList(ws) /\ \A n \in 1 .. N : after[n] = round[after[n - 1]]
  <2>1. 0 \in 0 .. N /\ \A n \in 1 .. N : n \in 0 .. N /\ n # 0
    BY <1>1
  <2>. QED  BY <1>13, <2>1
<1>15. \A n \in 0 .. N : after[n] \in L
  <2> DEFINE S == {n \in 0 .. N : after[n] \in L}
  <2>1. 0 \in S
    BY <1>1, <1>2, <1>14
  <2>2. ASSUME NEW n \in 0 .. N - 1, n \in S
        PROVE  n + 1 \in S
    <3>1. n + 1 \in 1 .. N /\ n + 1 \in 0 .. N /\ (n + 1) - 1 = n
      BY <1>1
    <3>2. after[n + 1] = round[after[n]]
      BY <1>14, <3>1
    <3>. QED  BY <1>5, <2>2, <3>1, <3>2
  <2> HIDE DEF S
  <2>3. \A n \in 0 .. N : n \in S
    BY <1>1, <2>1, <2>2, UpTo
  <2>. QED  BY <2>3 DEF S
<1>16. after = [n \in 0 .. N |-> after[n]]
  BY <1>12, Zenon
<1>17. after \in [0 .. N -> L]
  BY <1>15, <1>16
<1>18. \A n \in 1 .. N : after[n] = Round(after[n - 1], key)
  <2>1. \A n \in 1 .. N : n - 1 \in 0 .. N
    BY <1>1
  <2>. QED  BY <1>5, <1>14, <1>15, <2>1
<1>19. RoundsGo(after, ws, key)
  BY <1>14, <1>17, <1>18 DEF RoundsGo, L, N
<1>. QED  BY <1>3, <1>19 DEF key, N

\* The keys of turns.
LEMMA TurnKeys ==
  ASSUME KeyTypes, NEW ws \in SUBSET Items, NEW v \in ws, NEW w \in ws
  PROVE  /\ Turn(ws, v) < Turn(ws, w) => Precedes(TurnKey(ws, v), TurnKey(ws, w))
         /\ Turn(ws, v) = Turn(ws, w) /\ Precedes(ProductSortKey(v), ProductSortKey(w))
              => Precedes(TurnKey(ws, v), TurnKey(ws, w))
<1>1. \A u \in ws : Turn(ws, u) \in Nat
  BY TurnsAreNumbers
<1>2. \A u \in ws : ProductSortKey(u) \in Seq(Nat) /\ Len(ProductSortKey(u)) = 4
                    /\ DOMAIN ProductSortKey(u) = 1 .. 4
  <2>1. SUFFICES ASSUME NEW u \in ws
                 PROVE  ProductSortKey(u) \in Seq(Nat) /\ Len(ProductSortKey(u)) = 4
                        /\ DOMAIN ProductSortKey(u) = 1 .. 4
    OBVIOUS
  <2>2. ProductSortKey(u) \in [1 .. 4 -> Nat]
    BY ProductKeys DEF Keyed
  <2>3. ProductSortKey(u) \in Seq(Nat)
    <3>1. \A n \in Nat : \A f \in [1 .. n -> Nat] : f \in Seq(Nat)
      BY SeqDef
    <3>2. 4 \in Nat
      OBVIOUS
    <3>. QED  BY <2>2, <3>1, <3>2, Zenon
  <2>. QED  BY <2>2, <2>3, LenProperties
<1>3. ASSUME NEW u \in ws
      PROVE  /\ DOMAIN TurnKey(ws, u) = 1 .. 5 /\ TurnKey(ws, u)[1] = Turn(ws, u)
             /\ \A i \in 1 .. 4 : TurnKey(ws, u)[i + 1] = ProductSortKey(u)[i]
  <2> DEFINE t == <<Turn(ws, u)>>
             k == ProductSortKey(u)
  <2>1. t \in Seq(Nat) /\ Len(t) = 1 /\ t[1] = Turn(ws, u)
    BY <1>1
  <2>2. k \in Seq(Nat) /\ Len(k) = 4
    BY <1>2
  <2> HIDE DEF t, k
  <2>3. t \o k \in Seq(Nat) /\ Len(t \o k) = 5
        /\ \A i \in 1 .. 5 : (t \o k)[i] = IF i <= 1 THEN t[i] ELSE k[i - 1]
    <3>1. t \o k \in Seq(Nat) /\ Len(t \o k) = Len(t) + Len(k)
          /\ \A i \in 1 .. Len(t) + Len(k) :
               (t \o k)[i] = IF i <= Len(t) THEN t[i] ELSE k[i - Len(t)]
      <4>1. \A r, q \in Seq(Nat) :
              /\ r \o q \in Seq(Nat) /\ Len(r \o q) = Len(r) + Len(q)
              /\ \A i \in 1 .. Len(r) + Len(q) :
                   (r \o q)[i] = IF i <= Len(r) THEN r[i] ELSE q[i - Len(r)]
        BY ConcatProperties
      <4>. QED  BY <2>1, <2>2, <4>1, Zenon
    <3>2. Len(t) + Len(k) = 5
      BY <2>1, <2>2
    <3>3. Len(t) = 1
      BY <2>1
    <3>. QED  BY <3>1, <3>2, <3>3
  <2>4. DOMAIN (t \o k) = 1 .. 5
    BY <2>3, LenProperties
  <2>5. \A i \in 1 .. 4 : i + 1 \in 1 .. 5 /\ ~(i + 1 <= 1) /\ (i + 1) - 1 = i
    OBVIOUS
  <2>6. TurnKey(ws, u) = t \o k
    BY DEF TurnKey, t, k
  <2>7. \A i \in 1 .. 4 : (t \o k)[i + 1] = k[i]
    BY <2>3, <2>5
  <2>8. (t \o k)[1] = t[1]
    <3>1. 1 \in 1 .. 5 /\ 1 <= 1
      OBVIOUS
    <3>. QED  BY <2>3, <3>1
  <2>. QED  BY <2>1, <2>4, <2>6, <2>7, <2>8 DEF k
<1>4. ASSUME Turn(ws, v) < Turn(ws, w)
      PROVE  Precedes(TurnKey(ws, v), TurnKey(ws, w))
  <2>1. 1 \in DOMAIN TurnKey(ws, v) /\ TurnKey(ws, v)[1] < TurnKey(ws, w)[1]
    BY <1>3, <1>4
  <2>2. \A j \in 1 .. (1 - 1) : TurnKey(ws, v)[j] = TurnKey(ws, w)[j]
    OBVIOUS
  <2>. QED  BY <2>1, <2>2 DEF Precedes
<1>5. ASSUME Turn(ws, v) = Turn(ws, w), Precedes(ProductSortKey(v), ProductSortKey(w))
      PROVE  Precedes(TurnKey(ws, v), TurnKey(ws, w))
  <2>1. PICK i \in 1 .. 4 : ProductSortKey(v)[i] < ProductSortKey(w)[i]
                            /\ \A j \in 1 .. (i - 1) : ProductSortKey(v)[j] = ProductSortKey(w)[j]
    BY <1>2, <1>5 DEF Precedes
  <2>2. i + 1 \in DOMAIN TurnKey(ws, v) /\ TurnKey(ws, v)[i + 1] < TurnKey(ws, w)[i + 1]
    BY <1>3, <2>1
  <2>3. ASSUME NEW j \in 1 .. ((i + 1) - 1)
        PROVE  TurnKey(ws, v)[j] = TurnKey(ws, w)[j]
    <3>1. CASE j = 1
      BY <1>3, <1>5, <3>1
    <3>2. CASE j # 1
      <4>1. j - 1 \in 1 .. 4 /\ j - 1 \in 1 .. (i - 1) /\ (j - 1) + 1 = j
        BY <3>2
      <4>. QED  BY <1>3, <2>1, <4>1
    <3>. QED  BY <3>1, <3>2
  <2>. QED  BY <2>2, <2>3 DEF Precedes
<1>. QED  BY <1>4, <1>5

\* After n rounds the candidates whose turn has come are listed, by their turns.
ByTurns(ws, o) ==
  \A i, j \in DOMAIN o : i < j => Precedes(TurnKey(ws, o[i]), TurnKey(ws, o[j]))

AfterRounds(n, ws, was) ==
  /\ was \in Lists(ws)
  /\ was.left = {w \in ws : Turn(ws, w) >= n}
  /\ ToSet(was.taken) = {w \in ws : Turn(ws, w) < n}
  /\ ByTurns(ws, was.taken)

\* One more round lists the candidates whose turn it is.
LEMMA RoundTakesTheTurn ==
  ASSUME KeyTypes, NEW ws \in SUBSET Items, NEW n \in Nat, NEW was, AfterRounds(n, ws, was)
  PROVE  AfterRounds(n + 1, ws, Round(was, [w \in ws |-> ProductSortKey(w)]))
<1> DEFINE key == [w \in ws |-> ProductSortKey(w)]
           heads == Heads(was.left)
           o == was.taken
           p == InOrder(heads, key)
<1>1. was.left \in SUBSET ws /\ o \in Seq(ws)
  BY DEF AfterRounds, Lists
<1>2. heads = {w \in ws : Turn(ws, w) = n}
  BY HeadsHaveTheTurn DEF AfterRounds
<1>3. heads \in SUBSET was.left /\ IsFiniteSet(heads) /\ Orders(heads, key)
  BY <1>1, HeadsAreOrdered
<1>4. \A w \in ws : key[w] = ProductSortKey(w)
  OBVIOUS
<1>5. \A w \in ws : Turn(ws, w) \in Nat
  BY TurnsAreNumbers
<1>6. was.left = {w \in ws : Turn(ws, w) >= n} /\ ToSet(o) = {w \in ws : Turn(ws, w) < n}
      /\ ByTurns(ws, o)
  BY DEF AfterRounds
<1>7. Round(was, key) \in Lists(ws)
  BY RoundTypes DEF AfterRounds
<1>8. Round(was, key) = [left |-> was.left \ heads, taken |-> o \o p]
  BY DEF Round
<1> HIDE DEF heads, key, o
<1>9. p \in Seq(heads) /\ ToSet(p) = heads
      /\ \A i, j \in DOMAIN p : i < j => Precedes(key[p[i]], key[p[j]])
  BY <1>3, Sorts
<1> HIDE DEF p
<1>10. /\ Len(o) \in Nat /\ DOMAIN o = 1 .. Len(o) /\ \A i \in 1 .. Len(o) : o[i] \in ws
       /\ Len(p) \in Nat /\ DOMAIN p = 1 .. Len(p) /\ \A i \in 1 .. Len(p) : p[i] \in heads
  BY <1>1, <1>9
<1>11. p \in Seq(ws)
  <2>1. heads \in SUBSET ws
    BY <1>2
  <2>. QED  BY <1>9, <2>1, SeqDef
<1>12. /\ DOMAIN (o \o p) = 1 .. Len(o) + Len(p)
       /\ \A i \in 1 .. Len(o) : (o \o p)[i] = o[i]
       /\ \A i \in 1 .. Len(p) : (o \o p)[Len(o) + i] = p[i]
  BY <1>1, <1>10, <1>11
<1>13. (was.left \ heads) = {w \in ws : Turn(ws, w) >= n + 1}
  BY <1>2, <1>5, <1>6
<1>14. ToSet(o \o p) = {w \in ws : Turn(ws, w) < n + 1}
  <2>1. ToSet(o \o p) = ToSet(o) \cup ToSet(p)
    <3>1. ASSUME NEW i \in 1 .. Len(o) + Len(p)
          PROVE  (o \o p)[i] \in ToSet(o) \cup ToSet(p)
      <4>1. CASE i <= Len(o)
        <5>1. i \in 1 .. Len(o)
          BY <1>10, <4>1
        <5>2. (o \o p)[i] = o[i]
          BY <1>12, <5>1
        <5>3. o[i] \in ToSet(o)
          BY <1>10, <5>1 DEF ToSet
        <5>. QED  BY <5>2, <5>3, Zenon
      <4>2. CASE ~(i <= Len(o))
        <5>1. i - Len(o) \in 1 .. Len(p) /\ Len(o) + (i - Len(o)) = i
          BY <1>10, <4>2
        <5>2. (o \o p)[i] = p[i - Len(o)]
          BY <1>12, <5>1
        <5>3. p[i - Len(o)] \in ToSet(p)
          BY <1>10, <5>1 DEF ToSet
        <5>. QED  BY <5>2, <5>3, Zenon
      <4>. QED  BY <4>1, <4>2
    <3>2. ASSUME NEW i \in 1 .. Len(o)
          PROVE  o[i] \in ToSet(o \o p)
      <4>1. i \in 1 .. Len(o) + Len(p)
        BY <1>10
      <4>. QED  BY <1>12, <4>1 DEF ToSet
    <3>3. ASSUME NEW i \in 1 .. Len(p)
          PROVE  p[i] \in ToSet(o \o p)
      <4>1. Len(o) + i \in 1 .. Len(o) + Len(p)
        BY <1>10
      <4>. QED  BY <1>12, <4>1 DEF ToSet
    <3>4. ToSet(o \o p) \subseteq ToSet(o) \cup ToSet(p)
      BY <1>12, <3>1 DEF ToSet
    <3>5. ToSet(o) \subseteq ToSet(o \o p)
      <4>1. ToSet(o) = {o[i] : i \in 1 .. Len(o)}
        BY <1>10 DEF ToSet
      <4>. QED  BY <3>2, <4>1
    <3>6. ToSet(p) \subseteq ToSet(o \o p)
      <4>1. ToSet(p) = {p[i] : i \in 1 .. Len(p)}
        BY <1>10 DEF ToSet
      <4>. QED  BY <3>3, <4>1
    <3>. QED  BY <3>4, <3>5, <3>6
  <2>2. \A w \in ws : Turn(ws, w) < n + 1 <=> Turn(ws, w) < n \/ Turn(ws, w) = n
    BY <1>5
  <2>. QED  BY <1>2, <1>6, <1>9, <2>1, <2>2
<1>15. ByTurns(ws, o \o p)
  <2>1. SUFFICES ASSUME NEW i \in 1 .. Len(o) + Len(p), NEW j \in 1 .. Len(o) + Len(p), i < j
                 PROVE  Precedes(TurnKey(ws, (o \o p)[i]), TurnKey(ws, (o \o p)[j]))
    BY <1>12 DEF ByTurns
  <2>2. CASE j <= Len(o)
    <3>1. i \in 1 .. Len(o) /\ j \in 1 .. Len(o)
      BY <1>10, <2>1, <2>2
    <3>. QED  BY <1>6, <1>10, <1>12, <2>1, <3>1 DEF ByTurns
  <2>3. CASE i <= Len(o) /\ ~(j <= Len(o))
    <3>1. i \in 1 .. Len(o) /\ j - Len(o) \in 1 .. Len(p) /\ Len(o) + (j - Len(o)) = j
      BY <1>10, <2>3
    <3>2. (o \o p)[i] = o[i] /\ (o \o p)[j] = p[j - Len(o)]
      BY <1>12, <3>1
    <3>3. o[i] \in ws /\ Turn(ws, o[i]) < n
      BY <1>6, <1>10, <3>1 DEF ToSet
    <3>4. p[j - Len(o)] \in ws /\ Turn(ws, p[j - Len(o)]) = n
      BY <1>2, <1>10, <3>1
    <3>. QED  BY <3>2, <3>3, <3>4, TurnKeys
  <2>4. CASE ~(i <= Len(o)) /\ ~(j <= Len(o))
    <3>1. /\ i - Len(o) \in 1 .. Len(p) /\ Len(o) + (i - Len(o)) = i
          /\ j - Len(o) \in 1 .. Len(p) /\ Len(o) + (j - Len(o)) = j
          /\ i - Len(o) < j - Len(o)
      BY <1>10, <2>1, <2>4
    <3>2. (o \o p)[i] = p[i - Len(o)] /\ (o \o p)[j] = p[j - Len(o)]
      BY <1>12, <3>1
    <3>3. /\ p[i - Len(o)] \in ws /\ Turn(ws, p[i - Len(o)]) = n
          /\ p[j - Len(o)] \in ws /\ Turn(ws, p[j - Len(o)]) = n
      BY <1>2, <1>10, <3>1
    <3>4. Precedes(ProductSortKey(p[i - Len(o)]), ProductSortKey(p[j - Len(o)]))
      <4>1. Precedes(key[p[i - Len(o)]], key[p[j - Len(o)]])
        BY <1>9, <1>10, <3>1
      <4>2. key[p[i - Len(o)]] = ProductSortKey(p[i - Len(o)])
            /\ key[p[j - Len(o)]] = ProductSortKey(p[j - Len(o)])
        BY <1>4, <3>3
      <4>. QED  BY <4>1, <4>2
    <3>. QED  BY <3>2, <3>3, <3>4, TurnKeys
  <2>. QED  BY <1>10, <2>1, <2>2, <2>3, <2>4
<1>16. AfterRounds(n + 1, ws, Round(was, key))
  BY <1>7, <1>8, <1>13, <1>14, <1>15 DEF AfterRounds
<1>. QED  BY <1>16 DEF key

\* After as many rounds as there are candidates everyone has had his turn.
LEMMA FairnessIsByTurns ==
  ASSUME KeyTypes, NEW ws \in SUBSET Items
  PROVE  /\ ProductFairness(ws) \in Seq(ws)
         /\ ToSet(ProductFairness(ws)) = ws
         /\ ByTurns(ws, ProductFairness(ws))
<1> DEFINE N == Cardinality(ws)
           key == [w \in ws |-> ProductSortKey(w)]
<1>1. N \in Nat /\ \A w \in ws : Turn(ws, w) \in Nat
  BY TurnsAreNumbers
<1>2. \A w \in ws : Turn(ws, w) \in 0 .. N - 1
  BY Turns
<1>3. PICK f : RoundsGo(f, ws, key) /\ ProductFairness(ws) = f[N].taken
  BY RoundsUnfold
<1>4. /\ f[0] = FirstList(ws)
      /\ \A n \in 1 .. N : f[n] = Round(f[n - 1], key)
      /\ \A n \in 0 .. N : f[n] \in Lists(ws)
  BY <1>3 DEF RoundsGo
<1> DEFINE S == {n \in 0 .. N : AfterRounds(n, ws, f[n])}
<1>5. 0 \in S
  <2>1. {w \in ws : Turn(ws, w) >= 0} = ws /\ {w \in ws : Turn(ws, w) < 0} = {}
    BY <1>1
  <2>2. 0 \in 0 .. N
    BY <1>1
  <2>3. f[0].left = ws /\ f[0].taken = <<>>
    BY <1>4 DEF FirstList
  <2>4. ToSet(<<>>) = {} /\ ByTurns(ws, <<>>)
    BY DEF ToSet, ByTurns
  <2> HIDE DEF N
  <2>5. AfterRounds(0, ws, f[0])
    BY <1>4, <2>1, <2>2, <2>3, <2>4 DEF AfterRounds
  <2>. QED  BY <2>2, <2>5
<1>6. ASSUME NEW n \in 0 .. N - 1, n \in S
      PROVE  n + 1 \in S
  <2>1. n \in Nat /\ n + 1 \in 1 .. N /\ n + 1 \in 0 .. N /\ (n + 1) - 1 = n
    BY <1>1
  <2>2. AfterRounds(n + 1, ws, Round(f[n], key))
    BY <1>6, <2>1, RoundTakesTheTurn
  <2> HIDE DEF N, key
  <2>. QED  BY <1>4, <2>1, <2>2
<1> HIDE DEF S, key
<1>7. \A n \in 0 .. N : n \in S
  BY <1>1, <1>5, <1>6, UpTo
<1> HIDE DEF N
<1>8. AfterRounds(N, ws, f[N])
  BY <1>1, <1>7 DEF S
<1>9. {w \in ws : Turn(ws, w) < N} = ws
  BY <1>1, <1>2
<1>. QED  BY <1>3, <1>8, <1>9 DEF AfterRounds, Lists

\* The part of TypeOK the order needs.
Ordered ==
  /\ KeyTypes
  /\ dispatchable \in SUBSET Items
  /\ order \in [Schedulers -> Seq(Items)]

\* The keys and lists begin with their types.
LEMMA InitOrdered == Init => Ordered
<1> SUFFICES ASSUME Init PROVE Ordered
  OBVIOUS
<1>1. PICK k \in Keys : rank = k.rank /\ readyAt = k.readyAt /\ productRank = k.productRank
  BY DEF Init
<1>2. KeyTypes
  BY <1>1 DEF KeyTypes, TickAssumption
<1>3. dispatchable \in SUBSET Items /\ order \in [Schedulers -> Seq(Items)]
  BY DEF Init
<1>. QED  BY <1>2, <1>3 DEF Ordered

\* A tick lists items.
LEMMA ListKeepsOrdered ==
  ASSUME Ordered, NEW s \in Schedulers, List(s)
  PROVE  /\ Ordered'
         /\ order'[s] = ProductFairness(dispatchable \ active)
         /\ \A t \in Schedulers : t # s => pc'[t] = pc[t]
<1>1. /\ order' = [order EXCEPT ![s] = ProductFairness(dispatchable \ active)]
      /\ UNCHANGED <<dispatchable, rank, readyAt, productRank>>
      /\ pc' = [pc EXCEPT ![s] = "claiming"]
  BY DEF List, keyVars
<1>2. ProductFairness(dispatchable \ active) \in Seq(dispatchable \ active)
  BY FairnessIsByTurns DEF Ordered
<1>3. ProductFairness(dispatchable \ active) \in Seq(Items)
  <2>1. dispatchable \ active \in SUBSET Items
    BY DEF Ordered
  <2>. QED  BY <1>2, <2>1, SeqDef
<1>4. Ordered'
  BY <1>1, <1>3 DEF Ordered, KeyTypes
<1>. QED  BY <1>1, <1>4 DEF Ordered

\* Every step keeps them.
LEMMA StepOrdered == Ordered /\ [Next]_vars => Ordered'
<1> SUFFICES ASSUME Ordered, [Next]_vars PROVE Ordered'
  OBVIOUS
<1>1. ASSUME NEW s \in Schedulers, Count(s)
      PROVE  Ordered'
  BY <1>1 DEF Count, Ordered, KeyTypes, keyVars
<1>2. ASSUME NEW s \in Schedulers, Commit(s) \/ Rollback(s)
      PROVE  Ordered'
  <2>1. order' = [order EXCEPT ![s] = <<>>] /\ UNCHANGED <<dispatchable, keyVars>>
    BY <1>2 DEF Commit, Rollback, Ended
  <2>2. <<>> \in Seq(Items)
    OBVIOUS
  <2>. QED  BY <2>1, <2>2 DEF Ordered, KeyTypes, keyVars
<1>3. ASSUME NEW s \in Schedulers, NEW w \in Items, Skip(s, w) \/ Claim(s, w) \/ Refuse(s, w)
      PROVE  Ordered'
  BY <1>3 DEF Skip, Claim, Refuse, Passed, Ordered, KeyTypes, keyVars
<1>4. ASSUME NEW w \in Items, StartOutside(w) \/ LaneEnds(w)
      PROVE  Ordered'
  BY <1>4 DEF StartOutside, LaneEnds, tickVars, Ordered, KeyTypes, keyVars
<1>5. ASSUME NEW w \in Items, Reassess(w)
      PROVE  Ordered'
  BY <1>5 DEF Reassess, tickVars, Ordered, KeyTypes, keyVars
<1>6. ASSUME NEW c \in Scopes, NEW n \in LimitValues[c], SetLimit(c, n)
      PROVE  Ordered'
  BY <1>6 DEF SetLimit, tickVars, Ordered, KeyTypes, keyVars
<1>7. CASE UNCHANGED vars
  BY <1>7 DEF vars, tickVars, Ordered, KeyTypes, keyVars
<1>. QED  BY <1>1, <1>2, <1>3, <1>4, <1>5, <1>6, <1>7, ListKeepsOrdered DEF Next, TickStep

\* Only listing moves a tick from counting to claiming.
LEMMA OnlyListingBegins ==
  ASSUME IInv, [Next]_vars, NEW s \in Schedulers, pc[s] = "counted", pc'[s] = "claiming"
  PROVE  List(s)
<1>1. pc \in [Schedulers -> {"idle", "counted", "claiming"}]
  BY DEF IInv, Shape
<1>2. pc'[s] # pc[s]
  OBVIOUS
<1>3. \A t \in Schedulers : ~Count(t)
  BY <1>1 DEF Count
<1>4. \A t \in Schedulers : ~(Commit(t) \/ Rollback(t))
  BY <1>1 DEF Commit, Rollback, Ended
<1>5. \A t \in Schedulers : \A w \in Items : ~(Skip(t, w) \/ Claim(t, w) \/ Refuse(t, w))
  BY <1>2 DEF Skip, Claim, Refuse, Passed
<1>6. \A w \in Items : ~(StartOutside(w) \/ LaneEnds(w) \/ Reassess(w))
  BY <1>2 DEF StartOutside, LaneEnds, Reassess, tickVars
<1>7. \A c \in Scopes : \A n \in LimitValues[c] : ~SetLimit(c, n)
  BY <1>2 DEF SetLimit, tickVars
<1>8. ~UNCHANGED vars
  BY <1>2 DEF vars, tickVars
<1>9. \A t \in Schedulers : List(t) => t = s
  BY <1>1, <1>2 DEF List
<1>. QED  BY <1>3, <1>4, <1>5, <1>6, <1>7, <1>8, <1>9 DEF Next, TickStep

\* A tick lists every work item that may be dispatched and has no lane, once, in
\* the order of one sort by the number of its turn and the key of its product:
\* the rounds of _apply_product_fairness neither lose nor repeat nor misplace one.
THEOREM OrderAlwaysByTurns == Spec => OrderIsByTurns
<1> DEFINE Sorted ==
      \A s \in Schedulers : pc[s] = "counted" /\ pc'[s] = "claiming" =>
        LET ws == dispatchable \ active
        IN  /\ ToSet(order'[s]) = ws
            /\ \A i, j \in DOMAIN order'[s] :
                 i < j => Precedes(TurnKey(ws, order'[s][i]), TurnKey(ws, order'[s][j]))
<1>1. ASSUME IInv, Ordered, [Next]_vars
      PROVE  Sorted
  <2>1. SUFFICES ASSUME NEW s \in Schedulers, pc[s] = "counted", pc'[s] = "claiming"
                 PROVE  ToSet(order'[s]) = dispatchable \ active
                        /\ ByTurns(dispatchable \ active, order'[s])
    BY DEF ByTurns
  <2>2. List(s)
    BY <1>1, <2>1, OnlyListingBegins
  <2>3. order'[s] = ProductFairness(dispatchable \ active)
    BY <1>1, <2>2, ListKeepsOrdered
  <2>4. KeyTypes /\ dispatchable \ active \in SUBSET Items
    BY <1>1 DEF Ordered
  <2>. QED  BY <2>3, <2>4, FairnessIsByTurns
<1>. QED  BY <1>1, InitInv, StepInv, InitOrdered, StepOrdered, PTL DEF Spec, OrderIsByTurns
=============================================================================
