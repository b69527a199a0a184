---------------------------- MODULE StandardsPacks ----------------------------
(***************************************************************************)
(* Standards packs.  An evaluation compares a pack with a checkout of the  *)
(* product's repository, asset by asset, keeps a run with an item for each *)
(* asset, brings the product's rows of managed assets up to date, and      *)
(* offers the changes it may make as a pull request.  A person accepts,    *)
(* rejects or defers the run later.                                        *)
(*                                                                         *)
(* An evaluation is one transaction, open while GitHub is called: what     *)
(* others commit meanwhile it does not see, GitHub keeps what a failed one *)
(* has done there, and a commit writes the columns that differ from the    *)
(* loaded ones.  The other requests are short and are single steps here.   *)
(* One product is modelled; a pack's channel counts as part of its key.    *)
(***************************************************************************)
EXTENDS Integers, FiniteSets

CONSTANTS
  Paths,
  Proposals,  \* packs that may be created: [key, version, assets], each
              \* asset [path, mode, sections, texture], sections: it has
              \* delimiters
  None,       \* no key, version or pack
  Contract,   \* assets the product's contract expects: path -> mode
  Bundle,     \* and the version it gives them
  Contents,   \* what people may write into the checkout
  Overrides,  \* what an override may say
  MaxRuns, MaxChanges  \* bounds of the model: evaluations; other requests
                       \* and edits

Modes == {"managed", "section-managed", "advisory", "local"}
UpdateActions == {"create-file", "update-file", "refresh-sections"}
MutationActions == UpdateActions \cup {"advisory-drift", "conflict", "deferred"}
Decisions == {"accepted", "rejected", "deferred"}
Actions == MutationActions \cup {"noop", "local-only"}

Runs == 1..MaxRuns
Told == MaxRuns + 1  \* a pull request's number given by a caller; the pull
                     \* request that GitHub makes for run r has number r
NoPull == 0

\* What re.sub, which takes a section for a template, and a read, which makes
\* newlines of carriage returns, do to an asset's text: nothing (plain); the
\* read changes it (returns); re.sub expands its backslashes to the same text
\* each time (escapes), to one that never reads back the same, as with \g<0>
\* or \r (restless), or not at all (malformed).
Textures == {"plain", "returns", "escapes", "restless", "malformed"}

\* A file as it is read: whose sections it has, expanded or verbatim, and whose
\* text is around them, None for people's own.  "odd" are sections that do not
\* fit those of the packs, which all have the same keys.
Files == [kind : {"text", "odd", "unreadable", "absent"}, base : Proposals \cup {None},
          expanded : BOOLEAN, around : Proposals \cup {None}]

ASSUME ConstantsAssumption ==
  /\ MaxRuns \in Nat /\ MaxChanges \in Nat
  /\ \A k \in Proposals : k.assets \in SUBSET [path : Paths, mode : STRING, sections : BOOLEAN,
                                              texture : Textures]
  /\ None \notin Proposals
  /\ Overrides \subseteq [mode : Modes \cup {"none"}, deferred : BOOLEAN]
  /\ DOMAIN Contract \subseteq Paths /\ Contract \in [DOMAIN Contract -> Modes]
  /\ Contents \subseteq Files

Text(k) == [kind |-> "text", base |-> k, expanded |-> FALSE, around |-> k]
Absent == [kind |-> "absent", base |-> None, expanded |-> FALSE, around |-> None]
NoPaths == [p \in {} |-> None]

VARIABLES
  packs,      \* StandardsPack rows with their assets
  product,    \* standards_pack_key and standards_pack_version of the product
  overrides,  \* ProductStandardsOverride rows
  assets,     \* ManagedAsset rows
  runs,       \* StandardsUpgradeRun rows with their items and follow-ups
  tx,         \* the transaction of each evaluation
  github,     \* each run's branch and pull request
  checkout,   \* the local checkout that evaluations read
  changes,    \* requests and edits so far
  \* What happened, for the properties:
  latest,     \* the run evaluated last
  crossed     \* two transactions overlapped, the contract wrote the assets, or
              \* a decision was about an older run or a decided one

vars == <<packs, product, overrides, assets, runs, tx, github, checkout, changes,
          latest, crossed>>

NoOverride == [mode |-> "none", deferred |-> FALSE]
NoAsset == [mode |-> "none", version |-> None, drift |-> "none", pull |-> NoPull]
NoRun == [pack |-> None, status |-> "none", pull |-> NoPull, items |-> NoPaths,
          follow |-> "none", provenance |-> FALSE]
NoTx == [at |-> "idle", pack |-> None, product |-> None, overrides |-> None, told |-> NoPull,
         publish |-> FALSE, rows |-> None, items |-> NoPaths, plan |-> NoPaths, flushed |-> FALSE]
NoBranch == [made |-> FALSE, files |-> NoPaths, pull |-> FALSE]

Init ==
  /\ packs = {}
  /\ product = [key |-> None, version |-> None]
  /\ overrides = [p \in Paths |-> NoOverride]
  /\ assets = [p \in Paths |-> NoAsset]
  /\ runs = [r \in Runs |-> NoRun]
  /\ tx = [r \in Runs |-> NoTx]
  /\ github = [r \in Runs |-> NoBranch]
  /\ checkout = [p \in Paths |-> Absent]
  /\ changes = 0 /\ latest = 0 /\ crossed = FALSE

Open(r) == tx[r].at # "idle"
Evaluating == \E r \in Runs : Open(r)

Change == changes < MaxChanges /\ changes' = changes + 1

-----------------------------------------------------------------------------
(* What an asset's evaluation says *)

Asset(k, p) == CHOOSE a \in k.assets : a.path = p
PathsOf(k) == {a.path : a \in k.assets}

Mode(a, o) == IF o.mode # "none" THEN o.mode ELSE a.mode

\* A file equals what would be written: its sections, expanded again, or the
\* whole text of the asset.
Same(m, a, k, c) ==
  IF m = "section-managed"
    THEN /\ c.kind = "text" /\ c.base = k
         /\ a.texture = "plain" \/ (a.texture = "escapes" /\ c.expanded)
    ELSE c = Text(k) /\ a.texture # "returns"

\* A mutant: a file whose sections are refreshed stays with its old ones.
RefreshedPartly(m, a, k, c) == IF m = "section-managed" /\ c.kind = "text" THEN c ELSE Text(k)

\* A new file gets the asset's text, one that is there only the sections, which
\* go through re.sub.
Refreshed(m, a, k, c) ==
  IF m = "section-managed" /\ c.kind = "text"
    THEN [c EXCEPT !.base = k, !.expanded = a.texture \in {"escapes", "restless"}]
    ELSE Text(k)

Unsectioned(a, c) ==
  \/ ~a.sections \/ c.kind = "odd"
  \/ (c.kind = "text" /\ ~Asset(c.base, a.path).sections)

\* re.error, which nobody catches
Raises(a, o, c) ==
  /\ a.texture = "malformed" /\ Mode(a, o) = "section-managed"
  /\ c.kind = "text" /\ ~o.deferred /\ ~Unsectioned(a, c)

Action(a, o, k, c) ==
  LET m == Mode(a, o)
  IN IF c.kind = "unreadable" THEN "conflict"
     ELSE IF o.deferred THEN "deferred"
     ELSE IF m = "local" THEN "local-only"
     ELSE IF m = "section-managed" /\ Unsectioned(a, c) THEN "conflict"
     ELSE IF Same(m, a, k, c) THEN "noop"
     ELSE IF m = "advisory" THEN "advisory-drift"
     ELSE IF c.kind = "absent" THEN "create-file"
     ELSE IF m = "section-managed" THEN "refresh-sections" ELSE "update-file"

Drift(action) ==
  IF action = "noop" THEN "current"
  ELSE IF action \in UpdateActions THEN "update-available" ELSE action

Outcome(items) ==
  LET Some(actions) == \E p \in DOMAIN items : items[p].action \in actions
  IN IF Some({"conflict"}) THEN "conflict"
     ELSE IF Some(UpdateActions \cup {"advisory-drift"}) THEN "reviewable"
     ELSE IF Some({"deferred"}) THEN "deferred" ELSE "current"

-----------------------------------------------------------------------------
(* Packs and overrides *)

\* create_pack takes a whole pack or nothing of it.
WellFormed(k) ==
  /\ \A a, b \in k.assets : a.path = b.path => a = b
  /\ \A a \in k.assets : a.mode \in Modes /\ (a.mode = "section-managed" => a.sections)

CreatePack(k) ==
  /\ WellFormed(k)
  /\ \A other \in packs : <<k.key, k.version>> # <<other.key, other.version>>
  /\ packs' = packs \cup {k}
  /\ UNCHANGED <<product, overrides, assets, runs, tx, github, checkout, changes, latest, crossed>>

SetOverride(p, o) ==
  /\ Change /\ overrides[p] # o
  /\ overrides' = [overrides EXCEPT ![p] = o]
  /\ UNCHANGED <<packs, product, assets, runs, tx, github, checkout, latest, crossed>>

-----------------------------------------------------------------------------
(* evaluate_product *)

\* The product, the pack and the overrides are loaded.
Load(r, k, told, publish) ==
  /\ tx[r].at = "idle" /\ runs[r] = NoRun /\ ~github[r].made
  /\ \A older \in 1..(r - 1) : Open(older) \/ runs[older] # NoRun \/ github[older].made
  /\ tx' = [tx EXCEPT ![r] = [NoTx EXCEPT !.at = "loaded", !.pack = k, !.product = product,
                                          !.overrides = overrides, !.told = told,
                                          !.publish = publish]]
  /\ UNCHANGED <<packs, product, overrides, assets, runs, github, checkout, changes, latest, crossed>>

\* An update of the product's row is flushed with the run and locks the row.
Renames(r) == <<tx[r].product.key, tx[r].product.version>> # <<tx[r].pack.key, tx[r].pack.version>>
Holds(r) == tx[r].at \notin {"idle", "loaded"} /\ Renames(r)

Published(r, items) ==
  tx[r].publish /\ \E p \in DOMAIN items : items[p].action \in UpdateActions

\* The run is flushed, then checkout and asset rows are read, path by path.
Evaluate(r) ==
  LET t == tx[r]  k == t.pack
      items == [p \in PathsOf(k) |->
                  [mode |-> Mode(Asset(k, p), t.overrides[p]),
                   action |-> Action(Asset(k, p), t.overrides[p], k, checkout[p])]]
      changed == {p \in PathsOf(k) : items[p].action \in UpdateActions}
  IN /\ t.at = "loaded"
     /\ Renames(r) => \A other \in Runs \ {r} : ~Holds(other)
     /\ \A p \in PathsOf(k) : ~Raises(Asset(k, p), t.overrides[p], checkout[p])
     /\ tx' = [tx EXCEPT ![r] =
          [t EXCEPT !.at = IF Published(r, items) THEN "branch" ELSE "commit",
                    !.overrides = None, !.rows = assets, !.items = items,
                    !.plan = [p \in changed |-> Refreshed(items[p].mode, Asset(k, p), k, checkout[p])]]]
     /\ UNCHANGED <<packs, product, overrides, assets, runs, github, checkout, changes,
                    latest, crossed>>

-----------------------------------------------------------------------------
(* publish: a branch, a commit for each file, a pull request *)

Answered(r, at) ==
  /\ tx' = [tx EXCEPT ![r].at = at]
  /\ UNCHANGED <<packs, product, overrides, assets, runs, checkout, changes, latest, crossed>>

CreateBranch(r) ==
  /\ tx[r].at = "branch"
  /\ github' = [github EXCEPT ![r].made = TRUE]
  /\ Answered(r, "files")

Unwritten(r) == DOMAIN tx[r].plan \ DOMAIN github[r].files

\* A mutant: the pull request is opened after the first file.
UpsertOne(r, p) ==
  /\ tx[r].at = "files" /\ p \in Unwritten(r)
  /\ github' = [github EXCEPT ![r].files =
                  [q \in DOMAIN @ \cup {p} |-> IF q = p THEN tx[r].plan[p] ELSE @[q]]]
  /\ Answered(r, "pull")

\* Files are written one by one; their order among themselves is not modelled.
UpsertFile(r, p) ==
  /\ tx[r].at = "files" /\ p \in Unwritten(r)
  /\ github' = [github EXCEPT ![r].files =
                  [q \in DOMAIN @ \cup {p} |-> IF q = p THEN tx[r].plan[p] ELSE @[q]]]
  /\ Answered(r, IF Unwritten(r) = {p} THEN "pull" ELSE "files")

\* An answer may carry a rate-limit signal, whose record flushes the session;
\* one on an earlier answer has the same effect.
OpenPull(r, signal) ==
  /\ tx[r].at = "pull"
  /\ github' = [github EXCEPT ![r].pull = TRUE]
  /\ tx' = [tx EXCEPT ![r].at = "commit", ![r].flushed = signal]
  /\ UNCHANGED <<packs, product, overrides, assets, runs, checkout, changes, latest, crossed>>

\* GitHub refuses, its answer is lost, the database fails or the evaluation
\* raises: the transaction is rolled back, GitHub keeps what it has.
Fail(r) ==
  /\ Open(r)
  /\ tx' = [tx EXCEPT ![r] = NoTx]
  /\ UNCHANGED <<packs, product, overrides, assets, runs, github, checkout, changes, latest, crossed>>

-----------------------------------------------------------------------------
(* Commits *)

\* The row as loaded, with what an evaluation says written over it.
Evaluated(r, p) ==
  LET t == tx[r]
  IN [mode |-> t.items[p].mode, version |-> t.pack.version,
      drift |-> Drift(t.items[p].action),
      pull |-> IF t.items[p].action \notin UpdateActions THEN t.rows[p].pull
               ELSE IF github[r].pull THEN r
               ELSE IF t.told # NoPull THEN t.told ELSE t.rows[p].pull]

\* Columns that differ from the loaded ones are written.
Written(now, loaded, new) ==
  [column \in DOMAIN now |-> IF new[column] = loaded[column] THEN now[column] ELSE new[column]]

\* Another transaction has inserted a row that this one inserts too.
Collides(r) == \E p \in DOMAIN tx[r].items : tx[r].rows[p] = NoAsset /\ assets[p] # NoAsset

Commit(r) ==
  LET t == tx[r]
      pack == [key |-> t.pack.key, version |-> t.pack.version]
  IN /\ t.at = "commit" /\ ~Collides(r)
     /\ product' = Written(product, t.product, pack)
     /\ assets' = [p \in Paths |-> IF p \in DOMAIN t.items
                                     THEN Written(assets[p], t.rows[p], Evaluated(r, p))
                                     ELSE assets[p]]
     /\ runs' = [runs EXCEPT ![r] =
          [pack |-> t.pack, status |-> Outcome(t.items), items |-> t.items,
           pull |-> IF github[r].pull THEN r ELSE t.told,
           follow |-> IF Outcome(t.items) = "conflict" THEN "open" ELSE "none",
           provenance |-> github[r].pull /\ ~t.flushed]]
     /\ tx' = [tx EXCEPT ![r] = NoTx]
     /\ latest' = r
     /\ crossed' = (crossed \/ \E other \in Runs \ {r} : Open(other))
     /\ UNCHANGED <<packs, overrides, github, checkout, changes>>

\* A decision's word on the drift of an item's asset.
Decided(action, decision, drift) ==
  IF decision = "accepted"
    THEN IF action \in UpdateActions THEN "current"
         ELSE IF action = "advisory-drift" THEN "advisory-reviewed" ELSE drift
    ELSE IF action \in MutationActions THEN decision ELSE drift

\* A mutant: a decision leaves the version of the last evaluation, and "accepted"
\* goes for advisory items as for updates.
ResetInPart(run, p, decision) ==
  [assets[p] EXCEPT !.mode = run.items[p].mode,
                    !.drift = IF decision = "accepted" THEN "current"
                              ELSE Decided(run.items[p].action, decision, @)]

\* record_outcome: mode and version become the run's again, for every item.
Reset(run, p, decision) ==
  [mode |-> run.items[p].mode, version |-> run.pack.version,
   drift |-> Decided(run.items[p].action, decision, assets[p].drift),
   pull |-> IF run.pull # NoPull /\ run.items[p].action \in UpdateActions
              THEN run.pull ELSE assets[p].pull]

\* Any run may be decided, again too.
RecordOutcome(r, decision, told) ==
  LET run == [runs[r] EXCEPT !.status = decision, !.pull = IF told # NoPull THEN told ELSE @,
                             !.follow = IF @ = "none" THEN @ ELSE decision]
  IN /\ Change /\ runs[r] # NoRun
     /\ runs' = [runs EXCEPT ![r] = run]
     /\ assets' = [p \in Paths |-> IF p \in DOMAIN run.items THEN Reset(run, p, decision)
                                   ELSE assets[p]]
     /\ crossed' = (crossed \/ Evaluating \/ r # latest \/ runs[r].status \in Decisions)
     /\ UNCHANGED <<packs, product, overrides, tx, github, checkout, latest>>

\* A refresh of the product's contract writes the same rows.
Expected(p) ==
  [assets[p] EXCEPT !.mode = Contract[p], !.version = Bundle,
                    !.drift = IF checkout[p].kind = "absent" THEN "missing" ELSE "none"]

SyncContract ==
  /\ Change /\ DOMAIN Contract # {}
  /\ assets' = [p \in Paths |-> IF p \in DOMAIN Contract THEN Expected(p) ELSE assets[p]]
  /\ crossed' = TRUE
  /\ UNCHANGED <<packs, product, overrides, runs, tx, github, checkout, latest>>

\* Someone edits the checkout, or a merged pull request arrives in it.
Edit(p, c) ==
  /\ Change /\ checkout[p] # c
  /\ checkout' = [checkout EXCEPT ![p] = c]
  /\ UNCHANGED <<packs, product, overrides, assets, runs, tx, github, latest, crossed>>

Next ==
  \/ \E k \in Proposals : CreatePack(k)
  \/ \E p \in Paths : (\E o \in Overrides : SetOverride(p, o)) \/ (\E c \in Contents : Edit(p, c))
  \/ SyncContract
  \/ \E r \in Runs :
       \/ \E k \in packs, told \in {NoPull, Told}, publish \in BOOLEAN : Load(r, k, told, publish)
       \/ Evaluate(r) \/ CreateBranch(r) \/ (\E p \in Paths : UpsertFile(r, p))
       \/ (\E signal \in BOOLEAN : OpenPull(r, signal)) \/ Commit(r) \/ Fail(r)
       \/ \E decision \in Decisions, told \in {NoPull, Told} : RecordOutcome(r, decision, told)

Spec == Init /\ [][Next]_vars

-----------------------------------------------------------------------------
(* Types *)

\* Rows of one kind, and maps from some of the paths.
Versions == {k.version : k \in Proposals} \cup {Bundle, None}
ProductRows == [key : {k.key : k \in Proposals} \cup {None}, version : Versions]
OverrideRows == [Paths -> Overrides \cup {NoOverride}]
Drifts ==
  Actions \cup Decisions \cup {"none", "missing", "current", "update-available", "advisory-reviewed"}
AssetRow == [mode : Modes \cup {"none"}, version : Versions, drift : Drifts, pull : 0..Told]
AssetRows == [Paths -> AssetRow]
OnPaths(S) == UNION {[some -> S] : some \in SUBSET Paths}
Items == OnPaths([mode : Modes, action : Actions])

RunRows ==
  [pack : Proposals \cup {None}, status : Decisions \cup {"none", "conflict", "reviewable", "current"},
   pull : 0..Told, items : Items, follow : Decisions \cup {"none", "open"}, provenance : BOOLEAN]
TxRows ==
  [at : {"idle", "loaded", "branch", "files", "pull", "commit"}, pack : Proposals \cup {None},
   product : ProductRows \cup {None}, overrides : OverrideRows \cup {None},
   told : {NoPull, Told}, publish : BOOLEAN, rows : AssetRows \cup {None}, items : Items,
   plan : OnPaths(Files), flushed : BOOLEAN]
Branches == [made : BOOLEAN, files : OnPaths(Files), pull : BOOLEAN]

TypeOK ==
  /\ packs \subseteq {k \in Proposals : WellFormed(k)} /\ product \in ProductRows
  /\ overrides \in OverrideRows /\ assets \in AssetRows
  /\ runs \in [Runs -> RunRows] /\ tx \in [Runs -> TxRows] /\ github \in [Runs -> Branches]
  /\ checkout \in [Paths -> Files]
  /\ changes \in 0..MaxChanges /\ latest \in 0..MaxRuns /\ crossed \in BOOLEAN

-----------------------------------------------------------------------------
(* Properties *)

\* What the run says of an asset's drift, after its decision if it has one.
Word(r, p) ==
  LET action == runs[r].items[p].action
  IN IF runs[r].status \in Decisions THEN Decided(action, runs[r].status, Drift(action))
     ELSE Drift(action)

\* Requests one after the other, decisions about the newest run, once: then the
\* product names the pack that was evaluated last, and each of that pack's
\* assets has mode, version and drift from this one run and its decision
\* (evaluate_product, _sync_managed_asset, record_outcome).  Overlapping
\* transactions break it: each writes the columns it has changed.
RowsFollowRuns ==
  ~crossed /\ latest # 0 =>
    /\ product = [key |-> runs[latest].pack.key, version |-> runs[latest].pack.version]
    /\ \A p \in DOMAIN runs[latest].items :
         /\ assets[p].mode = runs[latest].items[p].mode
         /\ assets[p].version = runs[latest].pack.version
         /\ assets[p].drift = Word(latest, p)

\* A pull request is opened on a branch that has every change of its run and no
\* other file, whatever fails on the way, and an asset's last pull request, if
\* GitHub made it, is one that has the asset in it (publish,
\* _sync_generated_pr_number_for_updates, record_outcome).
PullsAreWhole ==
  /\ \A r \in Runs : github[r].pull =>
       /\ Open(r) => DOMAIN github[r].files = DOMAIN tx[r].plan
       /\ runs[r] # NoRun =>
            DOMAIN github[r].files =
              {p \in DOMAIN runs[r].items : runs[r].items[p].action \in UpdateActions}
  /\ \A p \in Paths : assets[p].pull \in Runs =>
       github[assets[p].pull].pull /\ p \in DOMAIN github[assets[p].pull].files

\* Written and read back as it stands.
Literal(m, a) ==
  a.texture \in IF m = "section-managed" THEN {"plain"} ELSE Textures \ {"returns"}

\* The evaluation of the same pack under the same mode finds nothing to do.
Rests(m, a, k, c) == Action(a, [NoOverride EXCEPT !.mode = m], k, c) = "noop"

\* Merging and evaluating again comes to rest: a file as a pull request leaves it
\* needs no other upgrade, or, if its sections have backslashes that re.sub
\* expands, one more at the most.  Exempt are texts that never rest in this
\* code: with carriage returns, and, where sections are refreshed, with escapes
\* that are malformed or never read back the same (_evaluate_asset,
\* _refresh_managed_sections).
UpgradeSettles ==
  \A r \in Runs : runs[r] # NoRun => \A p \in DOMAIN github[r].files :
    LET k == runs[r].pack
        a == Asset(k, p)
        m == runs[r].items[p].mode
        left == github[r].files[p]
    IN /\ Literal(m, a) => Rests(m, a, k, left)
       /\ a.texture = "escapes" =>
            Rests(m, a, k, left) \/ Rests(m, a, k, Refreshed(m, a, k, left))
=============================================================================
