------------------------------ MODULE SchedulerTick ------------------------------
(***************************************************************************)
(* One tick of the scheduler, which LaneOrchestration leaves open: the     *)
(* order of the candidates, the limits of every scope, and what other      *)
(* transactions do while the tick runs.                                    *)
(*                                                                         *)
(* Several processes may run cycles; the tick lock, a row locked until the *)
(* cycle commits, lets one of them tick at a time.  It does not stop an    *)
(* operator's retry, a runner or the mirror.  Transactions run at read     *)
(* committed: a query sees what others have committed, but a work item     *)
(* once loaded keeps the values it was loaded with.                        *)
(***************************************************************************)
EXTENDS Integers, FiniteSets, SequencesExt

CONSTANTS
  Schedulers,    \* processes that run orchestration cycles
  Items,         \* work items
  Products,
  Scopes,        \* what a limit can be set for: platform, orgs, products, ...
  Platform,      \* the scope every lane counts in
  ProductOf,     \* the product of a work item
  OtherScopesOf, \* organisation, repository and execution profile of an item
  ConfigCap,     \* execution.max_concurrent_lanes of a product, 0 if not set
  ItemNumber,    \* issue number; the query's order where repositories tie
  ProductKey,    \* place of Product.key in the alphabet; of product_id where
                 \* organisations tie
  Keys,          \* combinations of priorities and of ready_at to begin with
  LimitValues,   \* values of max_active_lanes in each scope's setting
  MaxClaims,     \* orchestration_max_claims_per_tick
  MaxOutside     \* bound of the model: lanes others start during a tick

ASSUME TickAssumption ==
  /\ IsFiniteSet(Items) /\ ProductOf \in [Items -> Products]
  /\ Products \subseteq Scopes /\ Platform \in Scopes
  /\ OtherScopesOf \in [Items -> SUBSET Scopes]
  /\ ConfigCap \in [Products -> Nat]
  /\ ItemNumber \in [Items -> Nat] /\ ProductKey \in [Products -> Nat]
  /\ \A v, w \in Items : ItemNumber[v] = ItemNumber[w] /\ ProductOf[v] = ProductOf[w] => v = w
  /\ \A p, q \in Products : ProductKey[p] = ProductKey[q] => p = q
  /\ LimitValues \in [Scopes -> SUBSET Nat]
  /\ Keys \subseteq [rank : [Items -> Nat], readyAt : [Items -> Nat],
                     productRank : [Products -> Nat]]
  /\ MaxClaims \in Nat /\ MaxOutside \in Nat

VARIABLES
  dispatchable,  \* work items the mirror and the products allow to dispatch
  active,        \* work items with a committed active lane
  limit,         \* max_active_lanes of each scope's setting
  rank,          \* work_item_priority
  readyAt,       \* ready_at
  productRank,   \* product_priority, 0 if not set
  pc,            \* where the tick of a scheduler is
  usage,         \* CapacityUsage of the tick
  order,         \* _ordered_candidates of the tick
  next,          \* the candidate to look at
  mine,          \* work items the tick has claimed, not yet committed
  fresh,         \* an integrity error has expired what was loaded
  outside        \* lanes others have started since the usage was counted

keyVars == <<rank, readyAt, productRank>>
tickVars == <<pc, usage, order, next, mine, fresh, outside>>
vars == <<dispatchable, active, limit, keyVars, tickVars>>

ScopesOf(w) == {Platform, ProductOf[w]} \cup OtherScopesOf[w]
InScope(ws, c) == {w \in ws : c \in ScopesOf(w)}
Held == active \cup UNION {mine[s] : s \in Schedulers}

-----------------------------------------------------------------------------
(* The order of the candidates *)

\* A tuple before another, as Python compares them.
Precedes(a, b) ==
  \E i \in DOMAIN a : a[i] < b[i] /\ \A j \in 1 .. (i - 1) : a[j] = b[j]

\* The key candidates of one product are sorted by.
ItemKey(w) == <<rank[w], readyAt[w], ItemNumber[w]>>

\* _product_sort_key of the candidate at the head of its product
ProductSortKey(w) ==
  LET p == ProductOf[w]
  IN  IF productRank[p] # 0
        THEN <<0, productRank[p], readyAt[w], ProductKey[p]>>
        ELSE <<1, readyAt[w], readyAt[w], ProductKey[p]>>

\* The first of each product's candidates.
Heads(ws) ==
  {w \in ws : \A v \in ws \ {w} :
     ProductOf[v] = ProductOf[w] => Precedes(ItemKey(w), ItemKey(v))}

\* Sorted by keys that differ: each has as many before it as it should.
Rank(ws, key, w) == Cardinality({v \in ws : Precedes(key[v], key[w])})
InOrder(ws, key) ==
  [i \in 1 .. Cardinality(ws) |-> CHOOSE w \in ws : Rank(ws, key, w) = i - 1]

\* Each round takes the head of every product that has one left.
Rounds(ws, key) ==
  LET round[was \in [left : SUBSET ws, taken : Seq(ws)]] ==
        LET heads == Heads(was.left)
        IN  [left |-> was.left \ heads, taken |-> was.taken \o InOrder(heads, key)]
      after[n \in 0 .. Cardinality(ws)] ==
        IF n = 0 THEN [left |-> ws, taken |-> <<>>] ELSE round[after[n - 1]]
  IN  after[Cardinality(ws)].taken

\* A mutant: the products are sorted once, before the rounds.
SortedOnce(ws) ==
  Rounds(ws, [w \in ws |->
    ProductSortKey(CHOOSE v \in Heads(ws) : ProductOf[v] = ProductOf[w])])

\* _apply_product_fairness
ProductFairness(ws) == Rounds(ws, [w \in ws |-> ProductSortKey(w)])

-----------------------------------------------------------------------------
(* Limits *)

\* _coerce_positive_int drops a limit of zero: 0 stands for no limit at all.
Caps(c) == ({limit[c]} \cup IF c \in Products THEN {ConfigCap[c]} ELSE {}) \ {0}

\* _has_capacity; the settings are read anew for each candidate.
HasCapacity(s, w) ==
  \A c \in ScopesOf(w) : \A cap \in Caps(c) : usage[s][c] < cap

Init ==
  /\ dispatchable \in SUBSET Items
  /\ active = {}
  /\ limit \in [Scopes -> UNION {LimitValues[c] : c \in Scopes}]
  /\ \A c \in Scopes : limit[c] \in LimitValues[c]
  /\ \E k \in Keys :
       rank = k.rank /\ readyAt = k.readyAt /\ productRank = k.productRank
  /\ pc = [s \in Schedulers |-> "idle"]
  /\ usage = [s \in Schedulers |-> [c \in Scopes |-> 0]]
  /\ order = [s \in Schedulers |-> <<>>]
  /\ next = [s \in Schedulers |-> 1]
  /\ mine = [s \in Schedulers |-> {}]
  /\ fresh = [s \in Schedulers |-> FALSE]
  /\ outside = [s \in Schedulers |-> 0]

-----------------------------------------------------------------------------
(* The tick *)

\* A mutant: nobody holds the tick lock.
LockFreeAlways == \A s \in Schedulers : pc[s] \in {"idle", "counted", "claiming"}

LockFree == \A s \in Schedulers : pc[s] = "idle"

\* _acquire_tick_lock, then _load_capacity_usage
Count(s) ==
  /\ pc[s] = "idle"
  /\ LockFree
  /\ pc' = [pc EXCEPT ![s] = "counted"]
  /\ usage' = [usage EXCEPT ![s] = [c \in Scopes |-> Cardinality(InScope(active, c))]]
  /\ UNCHANGED <<dispatchable, active, limit, keyVars, order, next, mine, fresh, outside>>

\* _ordered_candidates
List(s) ==
  /\ pc[s] = "counted"
  /\ pc' = [pc EXCEPT ![s] = "claiming"]
  /\ order' = [order EXCEPT ![s] = ProductFairness(dispatchable \ active)]
  /\ UNCHANGED <<dispatchable, active, limit, keyVars, usage, next, mine, fresh, outside>>

\* The loop of run_eligibility_tick has another candidate, w, to look at.
Looking(s, w) ==
  /\ pc[s] = "claiming"
  /\ Cardinality(mine[s]) < MaxClaims
  /\ next[s] \in DOMAIN order[s] /\ w = order[s][next[s]]

Passed(s) ==
  /\ next' = [next EXCEPT ![s] = @ + 1]
  /\ UNCHANGED <<dispatchable, active, limit, keyVars, pc, order, outside>>

\* A mutant: the first candidate without room ends the tick.
SkipEndsTick(s, w) ==
  /\ Looking(s, w)
  /\ ~HasCapacity(s, w)
  /\ next' = [next EXCEPT ![s] = Len(order[s]) + 1]
  /\ UNCHANGED <<dispatchable, active, limit, keyVars, pc, order, outside,
                 usage, mine, fresh>>

Skip(s, w) ==
  /\ Looking(s, w)
  /\ ~HasCapacity(s, w)
  /\ Passed(s)
  /\ UNCHANGED <<usage, mine, fresh>>

\* claim_work_item looks at the loaded work item, but asks the database for
\* active lanes; a claim of another transaction that has not ended is waited
\* for.  _consume_capacity
Claim(s, w) ==
  /\ Looking(s, w)
  /\ HasCapacity(s, w)
  /\ w \notin Held
  /\ fresh[s] => w \in dispatchable
  /\ mine' = [mine EXCEPT ![s] = @ \cup {w}]
  /\ usage' = [usage EXCEPT ![s] =
                 [c \in Scopes |-> @[c] + IF c \in ScopesOf(w) THEN 1 ELSE 0]]
  /\ Passed(s)
  /\ UNCHANGED fresh

\* claim_work_item returns None: someone else has a lane, which the query sees
\* or the unique index does (expire_all), or the reloaded item is not ready.
Refuse(s, w) ==
  /\ Looking(s, w)
  /\ HasCapacity(s, w)
  /\ \/ w \in active /\ \E e \in {fresh[s], TRUE} : fresh' = [fresh EXCEPT ![s] = e]
     \/ fresh[s] /\ w \notin dispatchable /\ UNCHANGED fresh
  /\ Passed(s)
  /\ UNCHANGED <<usage, mine>>

Ended(s) ==
  /\ pc' = [pc EXCEPT ![s] = "idle"]
  /\ usage' = [usage EXCEPT ![s] = [c \in Scopes |-> 0]]
  /\ order' = [order EXCEPT ![s] = <<>>]
  /\ next' = [next EXCEPT ![s] = 1]
  /\ mine' = [mine EXCEPT ![s] = {}]
  /\ fresh' = [fresh EXCEPT ![s] = FALSE]
  /\ outside' = [outside EXCEPT ![s] = 0]
  /\ UNCHANGED <<dispatchable, limit, keyVars>>

\* The cycle the tick is part of commits and gives the lock back.
Commit(s) ==
  /\ pc[s] = "claiming"
  /\ ~\E w \in Items : Looking(s, w)
  /\ active' = active \cup mine[s]
  /\ Ended(s)

\* The cycle fails, or its process dies.
Rollback(s) ==
  /\ pc[s] # "idle"
  /\ Ended(s)
  /\ UNCHANGED active

TickStep(s) ==
  \/ Count(s) \/ List(s) \/ Commit(s)
  \/ \E w \in Items : Skip(s, w) \/ Claim(s, w) \/ Refuse(s, w)

-----------------------------------------------------------------------------
(* Everybody else *)

\* retry_lane, resume_due_retries, or a runner event that reopens a lane: no
\* tick lock, no limits.  The index makes it wait for a tick's own claim.
StartOutside(w) ==
  /\ w \notin Held
  /\ \A s \in Schedulers : pc[s] # "idle" => outside[s] < MaxOutside
  /\ active' = active \cup {w}
  /\ outside' = [s \in Schedulers |-> IF pc[s] = "idle" THEN 0 ELSE outside[s] + 1]
  /\ UNCHANGED <<dispatchable, limit, keyVars, pc, usage, order, next, mine, fresh>>

LaneEnds(w) ==
  /\ w \in active
  /\ active' = active \ {w}
  /\ UNCHANGED <<dispatchable, limit, keyVars, tickVars>>

\* The mirror or the product: closed, blocked, ready again, paused, ...
Reassess(w) ==
  /\ dispatchable' = IF w \in dispatchable THEN dispatchable \ {w}
                                           ELSE dispatchable \cup {w}
  /\ UNCHANGED <<active, limit, keyVars, tickVars>>

SetLimit(c, n) ==
  /\ n # limit[c]
  /\ limit' = [limit EXCEPT ![c] = n]
  /\ UNCHANGED <<dispatchable, active, keyVars, tickVars>>

Next ==
  \/ \E s \in Schedulers : TickStep(s) \/ Rollback(s)
  \/ \E w \in Items : StartOutside(w) \/ LaneEnds(w) \/ Reassess(w)
  \/ \E c \in Scopes : \E n \in LimitValues[c] : SetLimit(c, n)

Spec == Init /\ [][Next]_vars

\* The loop goes on: a tick that is begun is gone on with.
FairSpec == Spec /\ WF_vars(\E s \in Schedulers : TickStep(s))

-----------------------------------------------------------------------------
(* Properties *)

\* When a tick claims, the lanes there really are, committed or not, stay
\* within every limit of the work item's scopes, but for one lane for each
\* that others have started since the tick counted.  The usage counters, the
\* lock and the order of the two queries have to be right together.
ClaimsFit ==
  [][\A s \in Schedulers : \A w \in mine'[s] \ mine[s] :
       \A c \in ScopesOf(w) : \A cap \in Caps(c) :
         Cardinality(InScope(Held \cup {w}, c)) <= cap + outside[s]]_vars

\* The round a candidate gets its turn in.
Turn(ws, w) ==
  Cardinality({v \in ws : ProductOf[v] = ProductOf[w] /\ Precedes(ItemKey(v), ItemKey(w))})

TurnKey(ws, w) == <<Turn(ws, w)>> \o ProductSortKey(w)

\* The rounds amount to one sort of all candidates, by the number of their
\* turn and then by the product's key: nothing is lost or listed twice, a
\* product's candidates keep their priority and age, and a product with a
\* priority goes before one without in every round.
OrderIsByTurns ==
  [][\A s \in Schedulers : pc[s] = "counted" /\ pc'[s] = "claiming" =>
       LET ws == dispatchable \ active
       IN  /\ ToSet(order'[s]) = ws
           /\ \A i, j \in DOMAIN order'[s] :
                i < j => Precedes(TurnKey(ws, order'[s][i]), TurnKey(ws, order'[s][j]))]_vars

HasRoom(w) ==
  /\ w \in dispatchable \ Held
  /\ \A c \in ScopesOf(w) : \A cap \in Caps(c) :
       Cardinality(InScope(active, c)) < cap

\* Once nobody else interferes, ticks use all the room there is: no work item
\* that has room in all its scopes is passed over for ever, whatever others
\* before it are stuck for.
RoomIsUsed ==
  <>[][\E s \in Schedulers : TickStep(s)]_vars => []<>(\A w \in Items : ~HasRoom(w))
=============================================================================
