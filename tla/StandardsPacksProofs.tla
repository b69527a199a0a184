------------------------- MODULE StandardsPacksProofs -------------------------
(***************************************************************************)
(* Theorems about StandardsPacks: pull requests are whole, an upgrade that *)
(* is merged settles, and the rows of assets follow the last run, for any  *)
(* packs, contents, overrides and number of evaluations.                   *)
(***************************************************************************)
EXTENDS StandardsPacks, TLAPS

-----------------------------------------------------------------------------
(* Facts about the data *)

\* Maps from some of the paths, without the union.
LEMMA MapType ==
  ASSUME NEW S, NEW f
  PROVE  f \in OnPaths(S) <=> DOMAIN f \subseteq Paths /\ f \in [DOMAIN f -> S]
BY DEF OnPaths

LEMMA NoPathsType ==
  ASSUME NEW S
  PROVE  NoPaths \in OnPaths(S) /\ DOMAIN NoPaths = {}
BY DEF NoPaths, OnPaths

\* An asset of a pack is one of its assets, with its own path.
LEMMA AssetOfPack ==
  ASSUME NEW k \in Proposals, NEW p \in PathsOf(k)
  PROVE  /\ Asset(k, p) \in k.assets /\ Asset(k, p).path = p /\ p \in Paths
         /\ Asset(k, p).mode \in STRING /\ Asset(k, p).sections \in BOOLEAN
         /\ Asset(k, p).texture \in Textures
<1>1. PICK a \in k.assets : a.path = p  BY DEF PathsOf
<1>2. Asset(k, p) \in k.assets /\ Asset(k, p).path = p  BY <1>1 DEF Asset
<1>3. k.assets \in SUBSET [path : Paths, mode : STRING, sections : BOOLEAN, texture : Textures]
  BY ConstantsAssumption DEF ConstantsAssumption
<1> QED  BY <1>2, <1>3

LEMMA ModeType ==
  ASSUME NEW k \in Proposals, WellFormed(k), NEW p \in PathsOf(k),
         NEW o \in Overrides \cup {NoOverride}
  PROVE  Mode(Asset(k, p), o) \in Modes
<1>1. Asset(k, p) \in k.assets  BY AssetOfPack
<1>2. Asset(k, p).mode \in Modes  BY <1>1 DEF WellFormed
<1>3. NoOverride \in [mode : Modes \cup {"none"}, deferred : BOOLEAN]
  BY DEF NoOverride
<1>4. Overrides \subseteq [mode : Modes \cup {"none"}, deferred : BOOLEAN]
  BY ConstantsAssumption DEF ConstantsAssumption
<1>5. o.mode \in Modes \cup {"none"}  BY <1>3, <1>4
<1> QED  BY <1>2, <1>5 DEF Mode

LEMMA ActionType ==
  ASSUME NEW a, NEW o, NEW k, NEW c
  PROVE  Action(a, o, k, c) \in Actions
BY DEF Action, Actions, MutationActions, UpdateActions

LEMMA DriftType ==
  ASSUME NEW action \in Actions
  PROVE  Drift(action) \in Drifts
BY DEF Drift, Drifts, Actions, MutationActions, UpdateActions

LEMMA RefreshedType ==
  ASSUME NEW m, NEW a, NEW k \in Proposals, NEW c \in Files
  PROVE  LET new == Refreshed(m, a, k, c)
         IN /\ new \in Files /\ new.kind = "text" /\ new.base = k
            /\ m = "section-managed" /\ c.kind = "text" =>
                 (new.expanded <=> a.texture \in {"escapes", "restless"})
            /\ ~(m = "section-managed" /\ c.kind = "text") => new = Text(k)
<1>1. CASE m = "section-managed" /\ c.kind = "text"
  <2> DEFINE e == a.texture \in {"escapes", "restless"}
  <2>1. e \in BOOLEAN  OBVIOUS
  <2>2. Refreshed(m, a, k, c) = [c EXCEPT !.base = k, !.expanded = e]  BY <1>1 DEF Refreshed
  <2> HIDE DEF e
  <2>3. ASSUME NEW new, new = [c EXCEPT !.base = k, !.expanded = e]
        PROVE  new \in Files /\ new.kind = "text" /\ new.base = k /\ new.expanded = e
    BY <1>1, <2>1, <2>3 DEF Files
  <2>4. Refreshed(m, a, k, c).expanded = e  BY <2>2, <2>3
  <2>5. Refreshed(m, a, k, c).expanded <=> a.texture \in {"escapes", "restless"}
    BY <2>4 DEF e
  <2> QED  BY <1>1, <2>2, <2>3, <2>5
<1>2. CASE ~(m = "section-managed" /\ c.kind = "text")
  <2>1. Refreshed(m, a, k, c) = Text(k)  BY <1>2 DEF Refreshed
  <2>2. Text(k) \in Files /\ Text(k).kind = "text" /\ Text(k).base = k  BY DEF Text, Files
  <2> QED  BY <1>2, <2>1, <2>2
<1> QED  BY <1>1, <1>2

\* A file as a pull request leaves it needs no other upgrade, or one more.
Settles(k, p, m, c) ==
  LET a == Asset(k, p)
  IN /\ Literal(m, a) => Rests(m, a, k, c)
     /\ a.texture = "escapes" => Rests(m, a, k, c) \/ Rests(m, a, k, Refreshed(m, a, k, c))

\* What equals the asset rests, if the asset's sections, where they matter, are
\* there.
LEMMA SameRests ==
  ASSUME NEW k, NEW a, NEW m, NEW c, c.kind = "text", c.base = k,
         m # "local", m # "none", m = "section-managed" => ~Unsectioned(a, c), Same(m, a, k, c)
  PROVE  Rests(m, a, k, c)
<1> DEFINE again == [NoOverride EXCEPT !.mode = m]
<1>1. again.mode = m /\ again.deferred = FALSE  BY DEF NoOverride
<1>2. Mode(a, again) = m  BY <1>1 DEF Mode
<1> HIDE DEF again
<1>3. Action(a, again, k, c) = "noop"  BY <1>1, <1>2 DEF Action
<1> QED  BY <1>3 DEF Rests, again

LEMMA RefreshedSettles ==
  ASSUME NEW k \in Proposals, NEW p \in PathsOf(k), NEW o, NEW c \in Files,
         Mode(Asset(k, p), o) \in Modes, Action(Asset(k, p), o, k, c) \in UpdateActions
  PROVE  LET a == Asset(k, p)  m == Mode(a, o) IN Settles(k, p, m, Refreshed(m, a, k, c))
<1> DEFINE a == Asset(k, p)
           m == Mode(a, o)
           new == Refreshed(m, a, k, c)
           then == Refreshed(m, a, k, new)
<1>1. /\ c.kind # "unreadable" /\ m # "local" /\ m # "advisory" /\ m # "none"
      /\ m = "section-managed" => ~Unsectioned(a, c)
  BY DEF Action, UpdateActions, Modes
<1>2. Asset(k, a.path) = a  BY AssetOfPack
<1>3. /\ new \in Files /\ new.kind = "text" /\ new.base = k
      /\ m # "section-managed" => new = Text(k)
  BY RefreshedType
<1>4. /\ then \in Files /\ then.kind = "text" /\ then.base = k
      /\ m = "section-managed" => (then.expanded <=> a.texture \in {"escapes", "restless"})
      /\ m # "section-managed" => then = Text(k)
  BY <1>3, RefreshedType
<1>5. m = "section-managed" => ~Unsectioned(a, new) /\ ~Unsectioned(a, then)
  BY <1>1, <1>2, <1>3, <1>4 DEF Unsectioned
<1> HIDE DEF a, m, new, then
<1>6. Literal(m, a) => Same(m, a, k, new)
  BY <1>3 DEF Literal, Same
<1>7. a.texture = "escapes" => Same(m, a, k, then)
  BY <1>4 DEF Same
<1>8. Literal(m, a) => Rests(m, a, k, new)
  BY <1>1, <1>3, <1>5, <1>6, SameRests
<1>9. a.texture = "escapes" => Rests(m, a, k, then)
  BY <1>1, <1>4, <1>5, <1>7, SameRests
<1> QED  BY <1>8, <1>9 DEF Settles, a, m, new, then

-----------------------------------------------------------------------------
(* The inductive invariant *)

Past(t) == t.at \notin {"idle", "loaded"}
Updates(items) == {p \in DOMAIN items : items[p].action \in UpdateActions}

\* What a transaction has loaded and what it has evaluated.
TxSound(t) ==
  /\ t.at # "idle" => t.product \in ProductRows /\ t.pack \in Proposals /\ WellFormed(t.pack)
  /\ t.at = "loaded" => t.overrides \in OverrideRows
  /\ Past(t) =>
       /\ t.rows \in AssetRows
       /\ DOMAIN t.items = PathsOf(t.pack)
       /\ DOMAIN t.plan = Updates(t.items)
       /\ \A p \in DOMAIN t.plan : Settles(t.pack, p, t.items[p].mode, t.plan[p])

\* How far a branch is, by where its transaction is.
BranchSound(t, g) ==
  /\ ~g.made => DOMAIN g.files = {} /\ ~g.pull
  /\ t.at \in {"loaded", "branch"} => ~g.made
  /\ t.at \in {"files", "pull"} => g.made /\ ~g.pull
  /\ t.at # "idle" => \A p \in DOMAIN g.files : p \in DOMAIN t.plan /\ g.files[p] = t.plan[p]
  /\ t.at = "pull" \/ (t.at = "commit" /\ g.pull) => DOMAIN g.files = DOMAIN t.plan

\* What the row of a run says of its branch.
RunSound(r, run, g) ==
  /\ run # NoRun =>
       /\ run.pack \in Proposals
       /\ g.pull => DOMAIN g.files = Updates(run.items)
       /\ \A p \in DOMAIN g.files :
            p \in DOMAIN run.items /\ Settles(run.pack, p, run.items[p].mode, g.files[p])
  /\ run.pull \in Runs => run.pull = r /\ g.pull /\ run # NoRun

Sound(r, t, g, run) ==
  /\ TxSound(t) /\ BranchSound(t, g) /\ RunSound(r, run, g)
  /\ t.at # "idle" => run = NoRun

\* Pull requests named by rows have the asset in them.
Offered(n, p) == github[n].pull /\ p \in DOMAIN github[n].files
RowsOffered(rows) == \A p \in Paths : rows[p].pull \in Runs => Offered(rows[p].pull, p)

\* As long as nothing overlaps, what was loaded is what there is.
Current(t) ==
  ~crossed => /\ t.at # "idle" => t.product = product
              /\ Past(t) => t.rows = assets

IInv ==
  /\ TypeOK
  /\ \A r \in Runs :
       /\ Sound(r, tx[r], github[r], runs[r])
       /\ Past(tx[r]) => RowsOffered(tx[r].rows)
       /\ Current(tx[r])
  /\ RowsOffered(assets)
  /\ latest # 0 => runs[latest] # NoRun
  /\ RowsFollowRuns

\* The invariant says what the properties say.
LEMMA InvImplies ==
  ASSUME IInv
  PROVE  TypeOK /\ PullsAreWhole /\ UpgradeSettles /\ RowsFollowRuns
<1>1. ASSUME NEW r \in Runs, github[r].pull
      PROVE  /\ Open(r) => DOMAIN github[r].files = DOMAIN tx[r].plan
             /\ runs[r] # NoRun => DOMAIN github[r].files = Updates(runs[r].items)
  <2>1. Sound(r, tx[r], github[r], runs[r])  BY DEF IInv
  <2>2. tx[r] \in TxRows /\ github[r] \in Branches  BY DEF IInv, TypeOK
  <2>3. tx[r].at \in {"idle", "loaded", "branch", "files", "pull", "commit"}  BY <2>2 DEF TxRows
  <2> QED  BY <1>1, <2>1, <2>2, <2>3 DEF Sound, BranchSound, RunSound, Open, Branches
<1>2. PullsAreWhole
  BY <1>1 DEF PullsAreWhole, Updates, IInv, RowsOffered, Offered
<1>3. UpgradeSettles
  BY DEF UpgradeSettles, IInv, Sound, RunSound, Settles
<1> QED  BY <1>2, <1>3 DEF IInv

LEMMA InitHolds == Init => IInv
<1> SUFFICES ASSUME Init PROVE IInv
  OBVIOUS
<1> USE ConstantsAssumption DEF ConstantsAssumption
<1>1. Runs \subseteq Nat /\ NoPull \in 0..Told /\ NoPull \notin Runs /\ 0 \in 0..MaxRuns /\ 0 \in 0..MaxChanges
  BY DEF Runs, NoPull, Told
<1>2. NoRun \in RunRows
  BY <1>1, NoPathsType DEF NoRun, RunRows, Items
<1>3. NoTx \in TxRows
  BY <1>1, NoPathsType DEF NoTx, TxRows, Items
<1>4. NoBranch \in Branches
  BY NoPathsType DEF NoBranch, Branches
<1>5. NoAsset \in AssetRow /\ Absent \in Files
  BY <1>1 DEF NoAsset, AssetRow, Versions, Drifts, Absent, Files
<1>6. TypeOK
  BY <1>1, <1>2, <1>3, <1>4, <1>5 DEF Init, TypeOK, ProductRows, Versions, OverrideRows, AssetRows
<1>7. (\A r \in Runs : Sound(r, NoTx, NoBranch, NoRun)) /\ ~Past(NoTx) /\ Current(NoTx)
  BY <1>1, NoPathsType
     DEF Sound, TxSound, BranchSound, RunSound, Past, Current, NoTx, NoBranch, NoRun
<1> QED
  BY <1>1, <1>6, <1>7 DEF Init, IInv, RowsOffered, RowsFollowRuns, NoAsset

-----------------------------------------------------------------------------
(* Steps of one transaction and its branch *)

\* A step that moves one transaction, and its branch as long as its pull request
\* is not open, keeps the invariant if it keeps their own part of it.
LEMMA MoveKeepsInv ==
  ASSUME IInv, NEW r \in Runs, NEW t \in TxRows, NEW g \in Branches,
         tx' = [tx EXCEPT ![r] = t], github' = [github EXCEPT ![r] = g],
         github[r].pull => g = github[r],
         Sound(r, t, g, runs[r]), Current(t), Past(t) => RowsOffered(t.rows),
         UNCHANGED <<packs, product, overrides, assets, runs, checkout, changes, latest, crossed>>
  PROVE  IInv'
<1>1. TypeOK'  BY DEF IInv, TypeOK
<1>2. \A n \in Runs : /\ tx'[n] = IF n = r THEN t ELSE tx[n]
                      /\ github'[n] = IF n = r THEN g ELSE github[n]
  BY DEF IInv, TypeOK
<1>3. \A n \in Runs, p \in Paths : Offered(n, p) => Offered(n, p)'
  BY <1>2 DEF Offered
<1>4. ASSUME NEW n \in Runs
      PROVE  /\ Sound(n, tx[n], github[n], runs[n])'
             /\ (Past(tx[n]) => RowsOffered(tx[n].rows))'
             /\ Current(tx[n])'
  <2>1. Sound(n, tx[n], github[n], runs[n])'
    BY <1>2 DEF IInv, Sound, TxSound, BranchSound, RunSound, Past
  <2>2. (Past(tx[n]) => RowsOffered(tx[n].rows))'
    BY <1>2, <1>3 DEF IInv, RowsOffered, Past
  <2>3. Current(tx[n])'
    BY <1>2 DEF IInv, Current, Past
  <2> QED  BY <2>1, <2>2, <2>3
<1>5. RowsOffered(assets)'  BY <1>3 DEF IInv, RowsOffered
<1>6. RowsFollowRuns'  BY DEF IInv, RowsFollowRuns, Word
<1> QED  BY <1>1, <1>4, <1>5, <1>6 DEF IInv

LEMMA FailKeepsInv ==
  ASSUME IInv, NEW r \in Runs, Fail(r)
  PROVE  IInv'
<1>1. NoTx \in TxRows /\ NoTx.at = "idle" /\ ~Past(NoTx)
  BY NoPathsType DEF NoTx, TxRows, Items, NoPull, Past
<1>2. github[r] \in Branches /\ github' = [github EXCEPT ![r] = github[r]]
  BY DEF IInv, TypeOK, Fail
<1>3. Sound(r, NoTx, github[r], runs[r]) /\ Current(NoTx)
  BY <1>1 DEF IInv, Sound, TxSound, BranchSound, Current
<1> QED  BY <1>1, <1>2, <1>3, MoveKeepsInv DEF Fail

LEMMA LoadKeepsInv ==
  ASSUME IInv, NEW r \in Runs, NEW k \in packs, NEW told \in {NoPull, Told},
         NEW publish \in BOOLEAN, Load(r, k, told, publish)
  PROVE  IInv'
<1> DEFINE t == [NoTx EXCEPT !.at = "loaded", !.pack = k, !.product = product,
                             !.overrides = overrides, !.told = told, !.publish = publish]
<1>1. k \in Proposals /\ WellFormed(k) /\ product \in ProductRows /\ overrides \in OverrideRows
  BY DEF IInv, TypeOK
<1>2. t \in TxRows
  BY <1>1, NoPathsType DEF NoTx, TxRows, Items
<1>3. /\ t.at = "loaded" /\ t.pack = k /\ t.product = product /\ t.overrides = overrides
      /\ ~Past(t)
  BY DEF NoTx, Past
<1>4. github[r] \in Branches /\ github' = [github EXCEPT ![r] = github[r]] /\ tx' = [tx EXCEPT ![r] = t]
  BY DEF IInv, TypeOK, Load
<1> HIDE DEF t
<1>5. Sound(r, t, github[r], runs[r]) /\ Current(t)
  BY <1>1, <1>3 DEF IInv, Load, Sound, TxSound, BranchSound, Current
<1> QED  BY <1>2, <1>3, <1>4, <1>5, MoveKeepsInv DEF Load

LEMMA CreateBranchKeepsInv ==
  ASSUME IInv, NEW r \in Runs, CreateBranch(r)
  PROVE  IInv'
<1> DEFINE t == [tx[r] EXCEPT !.at = "files"]
           g == [github[r] EXCEPT !.made = TRUE]
<1>1. /\ tx[r] \in TxRows /\ github[r] \in Branches /\ tx[r].at = "branch"
      /\ Sound(r, tx[r], github[r], runs[r]) /\ Current(tx[r]) /\ RowsOffered(tx[r].rows)
  BY DEF IInv, TypeOK, CreateBranch, Past
<1>2. tx' = [tx EXCEPT ![r] = t] /\ github' = [github EXCEPT ![r] = g]
  BY DEF CreateBranch, Answered
<1>3. /\ t \in TxRows /\ g \in Branches
      /\ ~github[r].pull /\ g.made /\ ~g.pull /\ g.files = github[r].files /\ DOMAIN g.files = {}
      /\ t.at = "files"
  BY <1>1 DEF TxRows, Branches, Sound, BranchSound
<1>4. /\ t.pack = tx[r].pack /\ t.product = tx[r].product /\ t.rows = tx[r].rows
      /\ t.items = tx[r].items /\ t.plan = tx[r].plan
  BY <1>1 DEF TxRows
<1> HIDE DEF t, g
<1>5. Sound(r, t, g, runs[r]) /\ Current(t) /\ RowsOffered(t.rows)
  BY <1>1, <1>3, <1>4 DEF Sound, TxSound, BranchSound, RunSound, Current, Past, RowsOffered
<1> QED  BY <1>2, <1>3, <1>5, MoveKeepsInv DEF CreateBranch, Answered

LEMMA UpsertFileKeepsInv ==
  ASSUME IInv, NEW r \in Runs, NEW p \in Paths, UpsertFile(r, p)
  PROVE  IInv'
<1> DEFINE old == github[r].files
           files == [q \in DOMAIN old \cup {p} |-> IF q = p THEN tx[r].plan[p] ELSE old[q]]
           t == [tx[r] EXCEPT !.at = IF Unwritten(r) = {p} THEN "pull" ELSE "files"]
           g == [github[r] EXCEPT !.files = files]
<1>1. /\ tx[r] \in TxRows /\ github[r] \in Branches /\ tx[r].at = "files"
      /\ Sound(r, tx[r], github[r], runs[r]) /\ Current(tx[r]) /\ RowsOffered(tx[r].rows)
      /\ p \in DOMAIN tx[r].plan /\ p \notin DOMAIN old
  BY DEF IInv, TypeOK, UpsertFile, Unwritten, Past
<1>2. tx' = [tx EXCEPT ![r] = t] /\ github' = [github EXCEPT ![r] = g]
  BY DEF UpsertFile, Answered, IInv, TypeOK
<1>3. files \in OnPaths(Files)
  <2>1. old \in OnPaths(Files) /\ tx[r].plan \in OnPaths(Files)  BY <1>1 DEF Branches, TxRows
  <2>2. /\ DOMAIN old \subseteq Paths /\ old \in [DOMAIN old -> Files]
        /\ DOMAIN tx[r].plan \subseteq Paths /\ tx[r].plan \in [DOMAIN tx[r].plan -> Files]
    BY <2>1, MapType
  <2>3. DOMAIN files \subseteq Paths /\ files \in [DOMAIN files -> Files]
    BY <1>1, <2>2
  <2> HIDE DEF files
  <2> QED  BY <2>3, MapType
<1>4. /\ DOMAIN files = DOMAIN old \cup {p}
      /\ \A q \in DOMAIN files : files[q] = IF q = p THEN tx[r].plan[p] ELSE old[q]
  OBVIOUS
<1> HIDE DEF files
<1>5. /\ t \in TxRows /\ g \in Branches /\ ~github[r].pull
      /\ g.made /\ ~g.pull /\ g.files = files
      /\ t.at = IF Unwritten(r) = {p} THEN "pull" ELSE "files"
  BY <1>1, <1>3 DEF TxRows, Branches, Sound, BranchSound
<1>6. /\ t.pack = tx[r].pack /\ t.product = tx[r].product /\ t.rows = tx[r].rows
      /\ t.items = tx[r].items /\ t.plan = tx[r].plan
  BY <1>1 DEF TxRows
<1> HIDE DEF t, g
<1>7. TxSound(t) /\ Current(t) /\ RowsOffered(t.rows)
  BY <1>1, <1>5, <1>6 DEF Sound, TxSound, Current, Past, RowsOffered
<1>8. /\ \A q \in DOMAIN g.files : q \in DOMAIN t.plan /\ g.files[q] = t.plan[q]
      /\ t.at = "pull" => DOMAIN g.files = DOMAIN t.plan
  BY <1>1, <1>4, <1>5, <1>6 DEF Sound, BranchSound, Unwritten
<1>9. BranchSound(t, g)  BY <1>5, <1>8 DEF BranchSound
<1>10. RunSound(r, runs[r], g) /\ runs[r] = NoRun
  BY <1>1, <1>5 DEF Sound, RunSound, NoRun
<1> QED  BY <1>2, <1>5, <1>7, <1>9, <1>10, MoveKeepsInv DEF UpsertFile, Answered, Sound

LEMMA OpenPullKeepsInv ==
  ASSUME IInv, NEW r \in Runs, NEW signal \in BOOLEAN, OpenPull(r, signal)
  PROVE  IInv'
<1> DEFINE t == [tx[r] EXCEPT !.at = "commit", !.flushed = signal]
           g == [github[r] EXCEPT !.pull = TRUE]
<1>1. /\ tx[r] \in TxRows /\ github[r] \in Branches /\ tx[r].at = "pull"
      /\ Sound(r, tx[r], github[r], runs[r]) /\ Current(tx[r]) /\ RowsOffered(tx[r].rows)
  BY DEF IInv, TypeOK, OpenPull, Past
<1>2. tx' = [tx EXCEPT ![r] = t] /\ github' = [github EXCEPT ![r] = g]
  BY DEF OpenPull, IInv, TypeOK
<1>3. /\ t \in TxRows /\ g \in Branches /\ ~github[r].pull
      /\ g.made /\ g.pull /\ g.files = github[r].files /\ t.at = "commit"
  BY <1>1 DEF TxRows, Branches, Sound, BranchSound
<1>4. /\ t.pack = tx[r].pack /\ t.product = tx[r].product /\ t.rows = tx[r].rows
      /\ t.items = tx[r].items /\ t.plan = tx[r].plan
  BY <1>1 DEF TxRows
<1> HIDE DEF t, g
<1>5. TxSound(t) /\ Current(t) /\ RowsOffered(t.rows) /\ BranchSound(t, g)
  BY <1>1, <1>3, <1>4 DEF Sound, TxSound, BranchSound, Current, Past, RowsOffered
<1>6. RunSound(r, runs[r], g) /\ runs[r] = NoRun
  BY <1>1, <1>3 DEF Sound, RunSound, NoRun
<1> QED  BY <1>2, <1>3, <1>5, <1>6, MoveKeepsInv DEF OpenPull, Sound

LEMMA EvaluateKeepsInv ==
  ASSUME IInv, NEW r \in Runs, Evaluate(r)
  PROVE  IInv'
<1> DEFINE k == tx[r].pack
           Says(p) == [mode |-> Mode(Asset(k, p), tx[r].overrides[p]),
                       action |-> Action(Asset(k, p), tx[r].overrides[p], k, checkout[p])]
           items == [p \in PathsOf(k) |-> Says(p)]
           changed == {p \in PathsOf(k) : items[p].action \in UpdateActions}
           plan == [p \in changed |-> Refreshed(items[p].mode, Asset(k, p), k, checkout[p])]
           t == [tx[r] EXCEPT !.at = IF Published(r, items) THEN "branch" ELSE "commit",
                              !.overrides = None, !.rows = assets, !.items = items, !.plan = plan]
<1>1. /\ tx[r] \in TxRows /\ github[r] \in Branches /\ tx[r].at = "loaded"
      /\ Sound(r, tx[r], github[r], runs[r]) /\ Current(tx[r])
      /\ assets \in AssetRows /\ RowsOffered(assets) /\ checkout \in [Paths -> Files]
  BY DEF IInv, TypeOK, Evaluate
<1>2. tx' = [tx EXCEPT ![r] = t] /\ github' = [github EXCEPT ![r] = github[r]]
  BY <1>1 DEF Evaluate, IInv, TypeOK
<1>3. k \in Proposals /\ WellFormed(k) /\ tx[r].overrides \in OverrideRows
  BY <1>1 DEF Sound, TxSound
<1>4. ASSUME NEW p \in PathsOf(k)
      PROVE  /\ p \in Paths /\ items[p] = Says(p)
             /\ items[p].mode \in Modes /\ items[p].action \in Actions
             /\ items[p].action \in UpdateActions =>
                  Settles(k, p, items[p].mode, Refreshed(items[p].mode, Asset(k, p), k, checkout[p]))
  <2>1. p \in Paths /\ items[p] = Says(p)  BY <1>3, AssetOfPack
  <2>2. tx[r].overrides[p] \in Overrides \cup {NoOverride} /\ checkout[p] \in Files
    BY <1>1, <1>3, <2>1 DEF OverrideRows
  <2>3. Mode(Asset(k, p), tx[r].overrides[p]) \in Modes  BY <1>3, <2>2, ModeType
  <2>4. Action(Asset(k, p), tx[r].overrides[p], k, checkout[p]) \in Actions  BY ActionType
  <2>5. Action(Asset(k, p), tx[r].overrides[p], k, checkout[p]) \in UpdateActions =>
          LET m == Mode(Asset(k, p), tx[r].overrides[p])
          IN Settles(k, p, m, Refreshed(m, Asset(k, p), k, checkout[p]))
    BY <1>3, <2>2, <2>3, RefreshedSettles
  <2> QED  BY <2>1, <2>3, <2>4, <2>5
<1>5. items \in Items /\ DOMAIN items = PathsOf(k)
  <2>1. DOMAIN items = PathsOf(k)  OBVIOUS
  <2>2. items \in [PathsOf(k) -> [mode : Modes, action : Actions]]  BY <1>4
  <2>3. PathsOf(k) \subseteq Paths  BY <1>4
  <2> HIDE DEF items
  <2> QED  BY <2>1, <2>2, <2>3, MapType DEF Items
<1>6. plan \in OnPaths(Files) /\ DOMAIN plan = changed
  <2>1. DOMAIN plan = changed /\ changed \subseteq Paths  BY <1>4
  <2>2. \A p \in changed : Refreshed(items[p].mode, Asset(k, p), k, checkout[p]) \in Files
    BY <1>1, <1>3, <2>1, RefreshedType
  <2>3. plan \in [changed -> Files]  BY <2>2
  <2> HIDE DEF plan, changed
  <2> QED  BY <2>1, <2>3, MapType
<1>7. \A p \in changed : Settles(k, p, items[p].mode, plan[p])
  BY <1>4
<1>8. changed = Updates(items)
  BY <1>5 DEF Updates
<1> HIDE DEF items, plan, changed
<1>9. t \in TxRows
  BY <1>1, <1>5, <1>6 DEF TxRows
<1>10. /\ t.at \in {"branch", "commit"} /\ t.pack = k /\ t.product = tx[r].product
       /\ t.rows = assets /\ t.items = items /\ t.plan = plan
  BY <1>1 DEF TxRows
<1> HIDE DEF t
<1>11. TxSound(t) /\ Current(t) /\ RowsOffered(t.rows)
  BY <1>1, <1>3, <1>5, <1>6, <1>7, <1>8, <1>10 DEF Sound, TxSound, Current, Past
<1>12. BranchSound(t, github[r]) /\ runs[r] = NoRun
  BY <1>1, <1>10 DEF Sound, BranchSound
<1>13. RunSound(r, runs[r], github[r])  BY <1>1 DEF Sound
<1> QED  BY <1>1, <1>2, <1>9, <1>11, <1>12, <1>13, MoveKeepsInv DEF Evaluate, Sound

-----------------------------------------------------------------------------
(* Steps that write rows *)

LEMMA WrittenRow ==
  ASSUME NEW now \in AssetRow, NEW loaded \in AssetRow, NEW new \in AssetRow
  PROVE  /\ Written(now, loaded, new) \in AssetRow
         /\ Written(now, loaded, new).pull \in {now.pull, new.pull}
         /\ loaded = now => Written(now, loaded, new) = new
<1> DEFINE row == Written(now, loaded, new)
           C == {"mode", "version", "drift", "pull"}
<1>1. DOMAIN now = C /\ DOMAIN new = C  BY DEF AssetRow
<1>2. row = [column \in C |-> IF new[column] = loaded[column] THEN now[column] ELSE new[column]]
  BY <1>1 DEF Written
<1>3. \A column \in C : row[column] \in {now[column], new[column]}  BY <1>2
<1>4. row = [mode |-> row.mode, version |-> row.version, drift |-> row.drift, pull |-> row.pull]
  BY <1>2
<1>5. row \in AssetRow  BY <1>3, <1>4 DEF AssetRow
<1>6. loaded = now => row = new
  BY <1>1, <1>2, <1>4 DEF AssetRow
<1> QED  BY <1>3, <1>5, <1>6

LEMMA WrittenProduct ==
  ASSUME NEW now \in ProductRows, NEW loaded \in ProductRows, NEW new \in ProductRows
  PROVE  /\ Written(now, loaded, new) \in ProductRows
         /\ loaded = now => Written(now, loaded, new) = new
<1> DEFINE row == Written(now, loaded, new)
           C == {"key", "version"}
<1>1. DOMAIN now = C /\ DOMAIN new = C  BY DEF ProductRows
<1>2. row = [column \in C |-> IF new[column] = loaded[column] THEN now[column] ELSE new[column]]
  BY <1>1 DEF Written
<1>3. \A column \in C : row[column] \in {now[column], new[column]}  BY <1>2
<1>4. row = [key |-> row.key, version |-> row.version]
  BY <1>2
<1>5. row \in ProductRows  BY <1>3, <1>4 DEF ProductRows
<1>6. loaded = now => row = new
  BY <1>1, <1>2, <1>4 DEF ProductRows
<1> QED  BY <1>5, <1>6

LEMMA DecidedType ==
  ASSUME NEW action, NEW decision \in Decisions, NEW drift \in Drifts
  PROVE  Decided(action, decision, drift) \in Drifts
BY DEF Decided, Drifts, Decisions

\* Requests about packs, overrides and the checkout touch none of the rows.
LEMMA RequestKeepsInv ==
  ASSUME IInv,
         \/ \E k \in Proposals : CreatePack(k)
         \/ \E p \in Paths : \E o \in Overrides : SetOverride(p, o)
         \/ \E p \in Paths : \E c \in Contents : Edit(p, c)
  PROVE  IInv'
<1>1. UNCHANGED <<product, assets, runs, tx, github, latest, crossed>>
  BY DEF CreatePack, SetOverride, Edit
<1>2. TypeOK'
  <2>1. CASE \E k \in Proposals : CreatePack(k)
    BY <2>1 DEF IInv, TypeOK, CreatePack
  <2>2. CASE \E p \in Paths : \E o \in Overrides : SetOverride(p, o)
    BY <2>2, ConstantsAssumption
       DEF IInv, TypeOK, SetOverride, Change, OverrideRows, ConstantsAssumption
  <2>3. CASE \E p \in Paths : \E c \in Contents : Edit(p, c)
    BY <2>3, ConstantsAssumption DEF IInv, TypeOK, Edit, Change, ConstantsAssumption
  <2> QED  BY <2>1, <2>2, <2>3
<1>3. RowsOffered(assets)' /\ \A r \in Runs : (Past(tx[r]) => RowsOffered(tx[r].rows))'
  BY <1>1 DEF IInv, RowsOffered, Offered
<1>4. RowsFollowRuns'  BY <1>1 DEF IInv, RowsFollowRuns, Word
<1>5. \A r \in Runs : Sound(r, tx[r], github[r], runs[r])' /\ Current(tx[r])'
  BY <1>1 DEF IInv, Current
<1> QED  BY <1>1, <1>2, <1>3, <1>4, <1>5 DEF IInv

LEMMA SyncContractKeepsInv ==
  ASSUME IInv, SyncContract
  PROVE  IInv'
<1>1. ASSUME NEW p \in Paths
      PROVE  /\ assets'[p] \in AssetRow
             /\ assets'[p].pull = assets[p].pull
  <2>1. assets'[p] = IF p \in DOMAIN Contract THEN Expected(p) ELSE assets[p]
    BY DEF SyncContract
  <2>2. assets[p] \in AssetRow  BY DEF IInv, TypeOK, AssetRows
  <2>3. Bundle \in Versions  BY DEF Versions
  <2>4. p \in DOMAIN Contract => Contract[p] \in Modes
    BY ConstantsAssumption DEF ConstantsAssumption
  <2>5. p \in DOMAIN Contract =>
          Expected(p) \in AssetRow /\ Expected(p).pull = assets[p].pull
    BY <2>2, <2>3, <2>4 DEF Expected, AssetRow, Drifts
  <2> QED  BY <2>1, <2>2, <2>5
<1>2. TypeOK'
  <2>1. assets' \in AssetRows  BY <1>1 DEF SyncContract, AssetRows
  <2> QED
    BY <2>1, ConstantsAssumption DEF IInv, TypeOK, SyncContract, Change, ConstantsAssumption
<1>3. RowsOffered(assets)' /\ \A r \in Runs : (Past(tx[r]) => RowsOffered(tx[r].rows))'
  BY <1>1 DEF IInv, RowsOffered, Offered, SyncContract
<1>4. \A r \in Runs : Sound(r, tx[r], github[r], runs[r])' /\ Current(tx[r])'
  BY DEF IInv, Current, SyncContract
<1>5. RowsFollowRuns'  BY DEF RowsFollowRuns, SyncContract
<1> QED  BY <1>2, <1>3, <1>4, <1>5 DEF IInv, SyncContract

LEMMA RecordOutcomeKeepsInv ==
  ASSUME IInv, NEW r \in Runs, NEW decision \in Decisions, NEW told \in {NoPull, Told},
         RecordOutcome(r, decision, told)
  PROVE  IInv'
<1> DEFINE run == [runs[r] EXCEPT !.status = decision,
                                  !.pull = IF told # NoPull THEN told ELSE @,
                                  !.follow = IF @ = "none" THEN @ ELSE decision]
<1>1. /\ runs[r] \in RunRows /\ runs[r] # NoRun /\ assets \in AssetRows
      /\ Sound(r, tx[r], github[r], runs[r])
  BY DEF IInv, TypeOK, RecordOutcome
<1>2. /\ runs' = [runs EXCEPT ![r] = run]
      /\ assets' = [p \in Paths |-> IF p \in DOMAIN run.items THEN Reset(run, p, decision)
                                    ELSE assets[p]]
  BY DEF RecordOutcome
<1>3. Told \notin Runs /\ NoPull \notin Runs /\ Told \in 0..Told /\ NoPull \in 0..Told
  BY ConstantsAssumption DEF ConstantsAssumption, Told, NoPull, Runs
<1>4. /\ run.pack = runs[r].pack /\ run.items = runs[r].items /\ run.status = decision
      /\ run.pull = IF told # NoPull THEN told ELSE runs[r].pull
  BY <1>1 DEF RunRows
<1>5. run \in RunRows /\ run # NoRun
  BY <1>1, <1>3 DEF RunRows, Decisions, NoRun
<1> HIDE DEF run
<1>6. Sound(r, tx[r], github[r], run)
  BY <1>1, <1>3, <1>4, <1>5 DEF Sound, RunSound
<1>7. \A n \in Runs : runs'[n] = IF n = r THEN run ELSE runs[n]
  BY <1>2 DEF IInv, TypeOK
<1>8. run.items \in Items /\ DOMAIN run.items \subseteq Paths
      /\ run.items \in [DOMAIN run.items -> [mode : Modes, action : Actions]]
      /\ run.pack.version \in Versions
  <2>1. run.items \in Items  BY <1>5 DEF RunRows
  <2>2. run.pack \in Proposals  BY <1>5, <1>6 DEF Sound, RunSound
  <2> QED  BY <2>1, <2>2, MapType DEF Items, Versions
<1>9. ASSUME NEW p \in Paths
      PROVE  /\ assets'[p] \in AssetRow
             /\ assets'[p].pull \in Runs => Offered(assets'[p].pull, p)
  <2>1. CASE p \notin DOMAIN run.items
    BY <1>1, <1>2, <2>1 DEF AssetRows, IInv, RowsOffered
  <2>2. CASE p \in DOMAIN run.items
    <3>1. assets'[p] = Reset(run, p, decision)  BY <1>2, <2>2
    <3>2. run.items[p].mode \in Modes /\ run.items[p].action \in Actions  BY <1>8, <2>2
    <3>3. assets[p] \in AssetRow /\ assets[p].drift \in Drifts /\ assets[p].pull \in 0..Told
      BY <1>1 DEF AssetRows, AssetRow
    <3>4. Decided(run.items[p].action, decision, assets[p].drift) \in Drifts
      BY <3>3, DecidedType
    <3>5. run.pull \in 0..Told  BY <1>5 DEF RunRows
    <3>6. assets'[p] \in AssetRow
      BY <1>8, <3>1, <3>2, <3>3, <3>4, <3>5 DEF Reset, AssetRow
    <3>7. assets'[p].pull = IF run.pull # NoPull /\ run.items[p].action \in UpdateActions
                              THEN run.pull ELSE assets[p].pull
      BY <3>1 DEF Reset
    <3>8. run.items[p].action \in UpdateActions /\ run.pull \in Runs => Offered(run.pull, p)
      BY <1>5, <1>6, <2>2 DEF Sound, RunSound, Offered, Updates
    <3>9. assets[p].pull \in Runs => Offered(assets[p].pull, p)  BY DEF IInv, RowsOffered
    <3> QED  BY <3>6, <3>7, <3>8, <3>9
  <2> QED  BY <2>1, <2>2
<1>10. TypeOK'
  <2>1. assets' \in AssetRows  BY <1>2, <1>9 DEF AssetRows
  <2>2. runs' \in [Runs -> RunRows]  BY <1>2, <1>5 DEF IInv, TypeOK
  <2>3. crossed' \in BOOLEAN  BY DEF RecordOutcome, IInv, TypeOK
  <2> QED
    BY <2>1, <2>2, <2>3, ConstantsAssumption
       DEF IInv, TypeOK, RecordOutcome, Change, ConstantsAssumption
<1>11. RowsOffered(assets)' /\ \A n \in Runs : (Past(tx[n]) => RowsOffered(tx[n].rows))'
  BY <1>9 DEF IInv, RowsOffered, Offered, RecordOutcome
<1>12. \A n \in Runs : Sound(n, tx[n], github[n], runs[n])'
  BY <1>6, <1>7 DEF IInv, RecordOutcome
<1>13. \A n \in Runs : Current(tx[n])'
  BY DEF Current, RecordOutcome, Evaluating, Open, Past
<1>14. (latest # 0 => runs[latest] # NoRun)'
  BY <1>5, <1>7 DEF IInv, RecordOutcome, TypeOK, Runs
<1>15. RowsFollowRuns'
  <2> SUFFICES ASSUME ~crossed', latest' # 0
               PROVE  /\ product' = [key |-> runs'[latest'].pack.key, version |-> runs'[latest'].pack.version]
                      /\ \A p \in DOMAIN runs'[latest'].items :
                           /\ assets'[p].mode = runs'[latest'].items[p].mode
                           /\ assets'[p].version = runs'[latest'].pack.version
                           /\ assets'[p].drift = Word(latest, p)'
    BY DEF RowsFollowRuns
  <2>1. ~crossed /\ latest # 0 /\ latest = r /\ runs[r].status \notin Decisions
    BY DEF RecordOutcome, IInv, TypeOK
  <2>2. /\ product = [key |-> run.pack.key, version |-> run.pack.version]
        /\ \A p \in DOMAIN run.items : assets[p].drift = Drift(run.items[p].action)
    BY <1>4, <2>1 DEF IInv, RowsFollowRuns, Word
  <2>3. ASSUME NEW p \in DOMAIN run.items
        PROVE  /\ assets'[p].mode = run.items[p].mode
               /\ assets'[p].version = run.pack.version
               /\ assets'[p].drift = Word(latest, p)'
    <3>1. assets'[p] = Reset(run, p, decision)  BY <1>2, <1>8
    <3>2. runs'[latest'] = run /\ latest' = latest  BY <1>7, <2>1 DEF RecordOutcome
    <3>3. Word(latest, p)' = Decided(run.items[p].action, decision, Drift(run.items[p].action))
      BY <1>4, <3>2 DEF Word
    <3> QED  BY <2>2, <3>1, <3>3 DEF Reset
  <2>4. runs'[latest'] = run /\ product' = product  BY <1>7, <2>1 DEF RecordOutcome
  <2> QED  BY <2>2, <2>3, <2>4
<1> QED  BY <1>10, <1>11, <1>12, <1>13, <1>14, <1>15 DEF IInv

\* A run whose outcome is "deferred" already says what a deferral would say.
LEMMA OutcomeWord ==
  ASSUME NEW items, NEW p \in DOMAIN items, Outcome(items) \in Decisions
  PROVE  Decided(items[p].action, Outcome(items), Drift(items[p].action)) = Drift(items[p].action)
<1>1. /\ Outcome(items) = "deferred"
      /\ items[p].action \notin UpdateActions \cup {"conflict", "advisory-drift"}
  BY DEF Outcome, Decisions
<1>2. CASE items[p].action = "deferred"
  BY <1>1, <1>2 DEF Decided, Drift, UpdateActions
<1>3. CASE items[p].action # "deferred"
  BY <1>1, <1>3 DEF Decided, MutationActions
<1> QED  BY <1>2, <1>3

LEMMA CommitKeepsInv ==
  ASSUME IInv, NEW r \in Runs, Commit(r)
  PROVE  IInv'
<1> DEFINE t == tx[r]
           g == github[r]
           pack == [key |-> t.pack.key, version |-> t.pack.version]
           run == [pack |-> t.pack, status |-> Outcome(t.items), items |-> t.items,
                   pull |-> IF g.pull THEN r ELSE t.told,
                   follow |-> IF Outcome(t.items) = "conflict" THEN "open" ELSE "none",
                   provenance |-> g.pull /\ ~t.flushed]
<1>1. /\ t \in TxRows /\ g \in Branches /\ t.at = "commit" /\ Past(t)
      /\ Sound(r, t, g, runs[r]) /\ Current(t) /\ RowsOffered(t.rows)
      /\ assets \in AssetRows /\ product \in ProductRows
  BY DEF IInv, TypeOK, Commit, Past
<1>2. /\ product' = Written(product, t.product, pack)
      /\ assets' = [p \in Paths |-> IF p \in DOMAIN t.items
                                      THEN Written(assets[p], t.rows[p], Evaluated(r, p))
                                      ELSE assets[p]]
      /\ runs' = [runs EXCEPT ![r] = run] /\ tx' = [tx EXCEPT ![r] = NoTx]
      /\ latest' = r /\ crossed' = (crossed \/ \E other \in Runs \ {r} : Open(other))
      /\ UNCHANGED <<packs, overrides, github, checkout, changes>>
  BY DEF Commit
<1>3. /\ Told \notin Runs /\ NoPull \notin Runs /\ Told \in 0..Told /\ NoPull \in 0..Told
      /\ r \in 0..Told /\ r \in 0..MaxRuns /\ r # 0
  BY ConstantsAssumption DEF ConstantsAssumption, Told, NoPull, Runs
<1>4. /\ t.pack \in Proposals /\ t.product \in ProductRows /\ t.rows \in AssetRows
      /\ t.items \in Items /\ DOMAIN t.items \subseteq Paths
      /\ t.items \in [DOMAIN t.items -> [mode : Modes, action : Actions]]
      /\ t.told \in {NoPull, Told}
  BY <1>1, MapType DEF Sound, TxSound, TxRows, Items
<1>5. pack \in ProductRows /\ t.pack.version \in Versions
  BY <1>4 DEF ProductRows, Versions
<1>6. run \in RunRows /\ run # NoRun
  BY <1>1, <1>3, <1>4 DEF RunRows, Outcome, Decisions, TxRows, Branches, NoRun
<1>7. /\ run.pack = t.pack /\ run.items = t.items /\ run.status = Outcome(t.items)
      /\ run.pull = IF g.pull THEN r ELSE t.told
  OBVIOUS
<1> HIDE DEF run
<1>8. Sound(r, NoTx, g, run) /\ ~Past(NoTx) /\ NoTx \in TxRows /\ NoTx.at = "idle"
  <2>1. NoTx \in TxRows /\ NoTx.at = "idle" /\ ~Past(NoTx)
    BY NoPathsType DEF NoTx, TxRows, Items, NoPull, Past
  <2>2. TxSound(NoTx) /\ BranchSound(NoTx, g)
    BY <1>1, <2>1 DEF Sound, TxSound, BranchSound
  <2>3. RunSound(r, run, g)
    BY <1>1, <1>3, <1>4, <1>6, <1>7 DEF Sound, TxSound, BranchSound, RunSound, Updates
  <2> QED  BY <2>1, <2>2, <2>3 DEF Sound
<1>9. \A n \in Runs : /\ runs'[n] = IF n = r THEN run ELSE runs[n]
                      /\ tx'[n] = IF n = r THEN NoTx ELSE tx[n]
                      /\ github'[n] = github[n]
  BY <1>2 DEF IInv, TypeOK
<1>10. ASSUME NEW p \in DOMAIN t.items
       PROVE  /\ Evaluated(r, p) \in AssetRow
              /\ Evaluated(r, p).pull \in Runs => Offered(Evaluated(r, p).pull, p)
  <2>1. t.items[p].mode \in Modes /\ t.items[p].action \in Actions /\ p \in Paths  BY <1>4
  <2>2. Drift(t.items[p].action) \in Drifts  BY <2>1, DriftType
  <2>3. t.rows[p] \in AssetRow /\ t.rows[p].pull \in 0..Told
    BY <1>4, <2>1 DEF AssetRows, AssetRow
  <2>4. Evaluated(r, p) \in AssetRow
    BY <1>3, <1>4, <1>5, <2>1, <2>2, <2>3 DEF Evaluated, AssetRow
  <2>5. t.items[p].action \in UpdateActions /\ g.pull => Offered(r, p)
    BY <1>1 DEF Sound, TxSound, BranchSound, Updates, Offered
  <2>6. Evaluated(r, p).pull = IF t.items[p].action \notin UpdateActions THEN t.rows[p].pull
                               ELSE IF g.pull THEN r
                               ELSE IF t.told # NoPull THEN t.told ELSE t.rows[p].pull
    BY DEF Evaluated
  <2> QED  BY <1>1, <1>3, <1>4, <2>1, <2>4, <2>5, <2>6 DEF RowsOffered
<1>11. ASSUME NEW p \in Paths
       PROVE  /\ assets'[p] \in AssetRow
              /\ assets'[p].pull \in Runs => Offered(assets'[p].pull, p)
  <2>1. assets[p] \in AssetRow /\ t.rows[p] \in AssetRow  BY <1>1, <1>4 DEF AssetRows
  <2>2. assets[p].pull \in Runs => Offered(assets[p].pull, p)  BY DEF IInv, RowsOffered
  <2>3. CASE p \notin DOMAIN t.items  BY <1>2, <2>1, <2>2, <2>3
  <2>4. CASE p \in DOMAIN t.items
    <3>1. assets'[p] = Written(assets[p], t.rows[p], Evaluated(r, p))  BY <1>2, <2>4
    <3> QED  BY <1>10, <2>1, <2>2, <2>4, <3>1, WrittenRow
  <2> QED  BY <2>3, <2>4
<1>12. TypeOK'
  <2>1. assets' \in AssetRows  BY <1>2, <1>11 DEF AssetRows
  <2>2. product' \in ProductRows  BY <1>1, <1>2, <1>4, <1>5, WrittenProduct
  <2>3. crossed' \in BOOLEAN  BY <1>2 DEF IInv, TypeOK
  <2> QED  BY <1>2, <1>3, <1>6, <1>8, <2>1, <2>2, <2>3 DEF IInv, TypeOK
<1>13. RowsOffered(assets)' /\ \A n \in Runs : (Past(tx[n]) => RowsOffered(tx[n].rows))'
  <2>1. \A n \in Runs, p \in Paths : Offered(n, p)' <=> Offered(n, p)  BY <1>2 DEF Offered
  <2>2. RowsOffered(assets)'  BY <1>11, <2>1 DEF RowsOffered
  <2>3. ASSUME NEW n \in Runs PROVE (Past(tx[n]) => RowsOffered(tx[n].rows))'
    <3>1. CASE n = r  BY <1>8, <1>9, <3>1 DEF Past
    <3>2. CASE n # r
      <4>1. tx'[n] = tx[n]  BY <1>9, <3>2
      <4>2. Past(tx[n]) => RowsOffered(tx[n].rows)  BY DEF IInv
      <4> QED  BY <2>1, <4>1, <4>2 DEF Past, RowsOffered
    <3> QED  BY <3>1, <3>2
  <2> QED  BY <2>2, <2>3
<1>14. \A n \in Runs : Sound(n, tx[n], github[n], runs[n])'
  BY <1>8, <1>9 DEF IInv
<1>15. \A n \in Runs : Current(tx[n])'
  <2> SUFFICES ASSUME NEW n \in Runs, ~crossed' PROVE tx'[n].at = "idle"
    BY DEF Current, Past
  <2>1. CASE n = r  BY <1>8, <1>9, <2>1
  <2>2. CASE n # r  BY <1>2, <1>9, <2>2 DEF Open
  <2> QED  BY <2>1, <2>2
<1>16. RowsFollowRuns'
  <2> SUFFICES ASSUME ~crossed', latest' # 0
               PROVE  /\ product' = [key |-> runs'[latest'].pack.key, version |-> runs'[latest'].pack.version]
                      /\ \A p \in DOMAIN runs'[latest'].items :
                           /\ assets'[p].mode = runs'[latest'].items[p].mode
                           /\ assets'[p].version = runs'[latest'].pack.version
                           /\ assets'[p].drift = Word(latest, p)'
    BY DEF RowsFollowRuns
  <2>1. runs'[latest'] = run /\ t.product = product /\ t.rows = assets
    BY <1>1, <1>2, <1>9 DEF Current
  <2>2. product' = pack  BY <1>1, <1>2, <1>5, <2>1, WrittenProduct
  <2>3. ASSUME NEW p \in DOMAIN t.items
        PROVE  /\ assets'[p] = Evaluated(r, p)
               /\ Word(latest, p)' = Drift(t.items[p].action)
    <3>1. assets[p] \in AssetRow /\ p \in Paths  BY <1>1, <1>4 DEF AssetRows
    <3>2. assets'[p] = Written(assets[p], assets[p], Evaluated(r, p))  BY <1>2, <2>1, <3>1
    <3>3. Word(latest, p)' = IF Outcome(t.items) \in Decisions
            THEN Decided(t.items[p].action, Outcome(t.items), Drift(t.items[p].action))
            ELSE Drift(t.items[p].action)
      BY <1>7, <2>1 DEF Word
    <3> QED  BY <1>10, <3>1, <3>2, <3>3, WrittenRow, OutcomeWord
  <2>4. product' = [key |-> run.pack.key, version |-> run.pack.version]  BY <1>7, <2>2
  <2>5. ASSUME NEW p \in DOMAIN run.items
        PROVE  /\ assets'[p].mode = run.items[p].mode
               /\ assets'[p].version = run.pack.version
               /\ assets'[p].drift = Word(latest, p)'
    <3>1. p \in DOMAIN t.items /\ run.items[p] = t.items[p] /\ run.pack = t.pack  BY <1>7
    <3>2. assets'[p] = Evaluated(r, p) /\ Word(latest, p)' = Drift(t.items[p].action)
      BY <2>3, <3>1
    <3>3. /\ Evaluated(r, p).mode = t.items[p].mode /\ Evaluated(r, p).version = t.pack.version
          /\ Evaluated(r, p).drift = Drift(t.items[p].action)
      BY DEF Evaluated
    <3> QED  BY <3>1, <3>2, <3>3
  <2> QED  BY <2>1, <2>4, <2>5
<1>17. (latest # 0 => runs[latest] # NoRun)'  BY <1>2, <1>6, <1>9
<1> QED  BY <1>12, <1>13, <1>14, <1>15, <1>16, <1>17 DEF IInv

-----------------------------------------------------------------------------
(* The theorems *)

LEMMA StepKeepsInv == IInv /\ [Next]_vars => IInv'
<1> SUFFICES ASSUME IInv, [Next]_vars PROVE IInv'
  OBVIOUS
<1>1. CASE \/ \E k \in Proposals : CreatePack(k)
           \/ \E p \in Paths : \E o \in Overrides : SetOverride(p, o)
           \/ \E p \in Paths : \E c \in Contents : Edit(p, c)
  BY <1>1, RequestKeepsInv
<1>2. CASE SyncContract
  BY <1>2, SyncContractKeepsInv
<1>3. ASSUME NEW r \in Runs,
             \/ \E k \in packs, told \in {NoPull, Told}, publish \in BOOLEAN : Load(r, k, told, publish)
             \/ Evaluate(r) \/ CreateBranch(r) \/ (\E p \in Paths : UpsertFile(r, p))
             \/ (\E signal \in BOOLEAN : OpenPull(r, signal)) \/ Commit(r) \/ Fail(r)
             \/ \E decision \in Decisions, told \in {NoPull, Told} : RecordOutcome(r, decision, told)
      PROVE  IInv'
  BY <1>3, LoadKeepsInv, EvaluateKeepsInv, CreateBranchKeepsInv, UpsertFileKeepsInv,
     OpenPullKeepsInv, CommitKeepsInv, FailKeepsInv, RecordOutcomeKeepsInv
<1>4. CASE UNCHANGED vars
  <2>1. UNCHANGED <<packs, product, overrides, assets, runs, tx, github, checkout, changes,
                    latest, crossed>>
    BY <1>4 DEF vars
  <2>2. TypeOK' /\ RowsFollowRuns'
    BY <2>1 DEF IInv, TypeOK, RowsFollowRuns, Word
  <2>3. RowsOffered(assets)' /\ \A r \in Runs : (Past(tx[r]) => RowsOffered(tx[r].rows))'
    BY <2>1 DEF IInv, RowsOffered, Offered
  <2> QED  BY <2>1, <2>2, <2>3 DEF IInv, Current
<1> QED  BY <1>1, <1>2, <1>3, <1>4 DEF Next

\* The inductive invariant: what each transaction, branch and run knows of the
\* others holds in every state.
THEOREM Invariance == Spec => []IInv
BY InitHolds, StepKeepsInv, PTL DEF Spec

\* Rows, transactions and branches keep their types.
THEOREM TypeCorrectness == Spec => []TypeOK
BY Invariance, InvImplies, PTL

\* Whatever fails and whatever overlaps, a pull request has all files of its run
\* and no other, and rows name pull requests that have their asset (publish).
THEOREM WholePulls == Spec => []PullsAreWhole
BY Invariance, InvImplies, PTL

\* What a pull request writes the next evaluation of that pack finds in order,
\* for any assets, modes and contents (_evaluate_asset, _refresh_managed_sections).
THEOREM SettledUpgrades == Spec => []UpgradeSettles
BY Invariance, InvImplies, PTL

\* Without overlaps the rows follow the last run and its decision
\* (_sync_managed_asset, record_outcome).
THEOREM RowsOfTheLastRun == Spec => []RowsFollowRuns
BY Invariance, InvImplies, PTL
=============================================================================
