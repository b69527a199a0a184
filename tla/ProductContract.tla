--------------------------- MODULE ProductContract ---------------------------
(***************************************************************************)
(* The contract of a product: what its repository's default branch         *)
(* declares, merged with the defaults of platform and organization and     *)
(* with operator overrides, is validated and then capped by what the lower *)
(* layers allow.  A refresh reads the branch from GitHub inside one        *)
(* transaction; meanwhile webhooks, refreshes of the mirror and operators  *)
(* write the same row.  A commit writes the columns that differ from the   *)
(* loaded ones.  Short requests are single steps.  One product is          *)
(* modelled; write access stands for the six policies, agent comments for  *)
(* the three permissions of agents, and conflicts of key, repository and   *)
(* branch count as one.  Rows of managed assets are in StandardsPacks.     *)
(***************************************************************************)
EXTENDS ComponentGraph, FiniteSets

CONSTANTS
  None,
  Contents,          \* what may be pushed to the default branch, or be in a checkout
  PlatformDefaults, OrgDefaults,  \* layers that settings may hold
  Broken,            \* a setting that is not an object
  Overrides,         \* layers that operators may give
  Snapshots,         \* what an adoption may say of the repository
  Profiles, Assets,  \* execution profiles and files that a layer may name
  Gaps,              \* what a project may lack
  MaxChanges         \* bound of the model: requests, edits and deliveries

PLATFORM_DEFAULTS ==
  [merge |-> TRUE, posture |-> "high-trust", writes |-> "high-trust", comments |-> TRUE,
   profile |-> "standard-python", lanes |-> 4, required |-> {"harness"},
   recommended |-> {"templates"}, secrets |-> FALSE]

Supported == {"standard-python"}
ProfileLanes == 6
NoLanes == 0

VARIABLES
  github,    \* the repository: head of the default branch, webhook, pushes to
             \* deliver, whether it is archived; for seeds also their pull
             \* request, whether the branch asks for one, and the projects made
  settings,  \* defaults of platform and organization
  secret,    \* the required secret has a value
  product, repo, project, graph,  \* the product's rows
  refresh, mirror,  \* transactions that refresh contract and mirror
  changes,
  \* What happened, for the properties:
  read,      \* the contract read last, and where
  published, \* what the default branch has held
  unheard,   \* the branch may have changed without a delivery that tells
  crossed    \* a row was written during another one's transaction

contractVars == <<github, settings, secret, product, repo, project, graph, refresh, mirror,
                  changes, read, published, unheard, crossed>>

NoTx == [at |-> "idle", product |-> None, repo |-> None, content |-> None, given |-> Empty, codes |-> {}]

ContractInit ==
  /\ \E c \in Contents :
       /\ github = [head |-> c, hook |-> FALSE, pushes |-> 0, archived |-> FALSE,
                    pull |-> None, protected |-> FALSE, projects |-> 0]
       /\ published = {c}
  /\ settings = [platform |-> Empty, org |-> Empty]
  /\ secret = FALSE
  /\ product = None /\ repo = None /\ project = None /\ graph = Nothing
  /\ refresh = NoTx /\ mirror = NoTx
  /\ changes = 0 /\ read = None /\ unheard = FALSE /\ crossed = FALSE

Change == changes < MaxChanges /\ changes' = changes + 1

Refreshing == refresh.at # "idle" \/ mirror.at # "idle"

-----------------------------------------------------------------------------
(* Diagnostics *)

Pending == "github.contract_refresh_pending"
MirrorCodes == {"github.webhook.unavailable", "github.webhook.provision_failed"}
PullPending == "github.repo.seed_pull_request_pending"

Recoverable ==
  {Pending, "protection.force_push", "asset.recommended_missing", "asset.managed_missing",
   "github.project.view_missing", "github.repo.label_missing"} \cup MirrorCodes
Advisory ==
  {"components.missing", "merge_capped", "posture_capped", "writes_capped", "comments_capped",
   "lanes_capped"}

Blocking ==
  {"settings.platform_defaults_invalid", "settings.org_defaults_invalid", "manifest.invalid",
   "manifest.conflict", "manifest.project_number_conflict", "components.invalid",
   "components.edge_target_missing", "execution.profile_unsupported", "secret.required_missing",
   "asset.required_missing", "github.status_field_conflict", "github.status_missing",
   "github.repo_archived", "github.branch_protection_unknown", "github.branch_protection_missing",
   "github.branch_protection_reviews_required", "github.permissions_unknown",
   "github.permission_write_missing", "github.permission_issues_write_missing",
   "github.project.status_field", "github.project.status_option_missing",
   "github.project.field_missing", PullPending}

Codes == Recoverable \cup Advisory \cup Blocking

Blocks(codes) == codes \cap Blocking # {}

SetupState(codes) ==
  IF Blocks(codes) THEN "setup-needed"
  ELSE IF codes \cap Recoverable # {} THEN "drift"
  ELSE IF codes # {} THEN "advisory" ELSE "ready"

When(condition, code) == IF condition THEN {code} ELSE {}

-----------------------------------------------------------------------------
(* Types *)

\* Layers name some of the keys; Rows has every product row, and so no None.
Postures == {"blocked", "operator-gated", "high-trust"}
Ranges ==
  [merge |-> BOOLEAN, posture |-> Postures, writes |-> Postures \cup {"none"}, comments |-> BOOLEAN,
   profile |-> Profiles, lanes |-> Nat, required |-> SUBSET Assets,
   recommended |-> SUBSET Assets, secrets |-> BOOLEAN]
Keys == DOMAIN Ranges

IsLayer(l) ==
  /\ DOMAIN l \subseteq Keys /\ l = [key \in DOMAIN l |-> l[key]]
  /\ \A key \in DOMAIN l : l[key] \in Ranges[key]
IsConfig(config) == IsLayer(config) /\ DOMAIN config = Keys

Statuses == {"Draft", "Active", "Paused"}
SetupStates == {"setup-needed", "drift", "advisory", "ready"}
Values == UNION {Ranges[key] : key \in Keys}
PartialConfigs == UNION {[keys -> Values] : keys \in SUBSET Keys}
Rows == [status : Statuses, state : SetupStates, codes : SUBSET Codes, overrides : PartialConfigs,
         config : PartialConfigs \cup {None}, profile : Profiles]

IsRow(row) ==
  /\ row = [status |-> row.status, state |-> row.state, codes |-> row.codes,
            overrides |-> row.overrides, config |-> row.config, profile |-> row.profile]
  /\ row.status \in Statuses /\ row.state \in SetupStates /\ row.codes \subseteq Codes
  /\ IsLayer(row.overrides) /\ row.profile \in Profiles
  /\ row.config = None \/ IsConfig(row.config)

ASSUME ConstantsAssumption ==
  /\ None \notin Rows
  /\ Supported \subseteq Profiles /\ {"harness", "templates"} \subseteq Assets
  /\ \A s \in PlatformDefaults \cup OrgDefaults : s = Broken \/ IsLayer(s)
  /\ \A given \in Overrides : IsLayer(given)
  /\ \A c \in Contents : IsLayer(c.layer)
  /\ \A s \in Snapshots : "adoption" \in DOMAIN s

-----------------------------------------------------------------------------
(* Layers and what the validations say of the merged ones *)

Layer(setting) == IF setting = Broken THEN Empty ELSE setting

LowerLayers == {PLATFORM_DEFAULTS, Layer(settings.platform), Layer(settings.org)}

\* The manifest parses, and its sections say only what they may.
Readable(c) == c.valid

\* What the product's row says.
RecordDefaults(row) == [profile |-> row.profile]

\* A later layer's value goes before an earlier one's, a list as a whole; the
\* profile fills in the lanes that nobody names.
Merged(c, row, given) ==
  LET m == Over(given, Over(IF Readable(c) THEN c.layer ELSE Empty, Over(RecordDefaults(row),
             Over(Layer(settings.org), Over(Layer(settings.platform), PLATFORM_DEFAULTS)))))
  IN Over([lanes |-> IF m.lanes = NoLanes /\ m.profile \in Supported THEN ProfileLanes ELSE m.lanes], m)

SettingCodes ==
  When(settings.platform = Broken, "settings.platform_defaults_invalid")
  \cup When(settings.org = Broken, "settings.org_defaults_invalid")

ManifestCodes(c, row) ==
  IF ~Readable(c) THEN {"manifest.invalid"}
  ELSE When(~c.fits, "manifest.conflict")
       \cup When(c.project # row.number, "manifest.project_number_conflict")

ComponentCodes(c) ==
  IF ~Readable(c) THEN {}
  ELSE When(c.components.state = "missing", "components.missing")
       \cup When(c.components.state = "invalid", "components.invalid")
       \cup When(\E e \in c.components.edges : ~({e[1], e[2]} \subseteq c.components.nodes),
                 "components.edge_target_missing")

\* The manifest names the status field and the statuses.
ProjectCodes(c, row) ==
  IF ~Readable(c) THEN {}
  ELSE When("field" \in row.gaps, "github.status_field_conflict")
       \cup When("options" \in row.gaps, "github.status_missing")

\* Only what an adoption has brought is held against the posture of its branch
\* and its permissions, both as the repository's row remembers them.
PostureCodes(row, config) ==
  IF row.adoption = "seeded" THEN {}
  ELSE LET p == row.protection
       IN When(row.archived, "github.repo_archived")
          \cup When(p = "unknown", "github.branch_protection_unknown")
          \cup When(p = "none", "github.branch_protection_missing")
          \cup When(config.merge /\ p \in {"none", "open"}, "github.branch_protection_reviews_required")
          \cup When(p = "forced", "protection.force_push")
          \cup When(row.access = "unknown", "github.permissions_unknown")
          \cup When(row.access = "read", "github.permission_write_missing")
          \cup When(row.access = "no issues" /\ config.comments, "github.permission_issues_write_missing")

AssetCodes(c, config) ==
  When(~(config.required \subseteq c.files), "asset.required_missing")
  \cup When(~(config.recommended \subseteq c.files), "asset.recommended_missing")
  \cup When(Readable(c) /\ ~(c.managed \subseteq c.files), "asset.managed_missing")

ProfileCodes(config) == When(config.profile \notin Supported, "execution.profile_unsupported")
SecretCodes(config) == When(config.secrets /\ ~secret, "secret.required_missing")

-----------------------------------------------------------------------------
(* Caps *)

Strictness(value) ==
  CASE value = "blocked" -> 0 [] value = "high-trust" -> 2 [] OTHER -> 1

Strictest(values) == CHOOSE v \in values : \A w \in values : Strictness(v) <= Strictness(w)

Of(layers, key) == {l[key] : l \in {l \in layers : key \in DOMAIN l}}

\* What a layer says of writing, with its posture where it says nothing.
Writing(l) == "writes" \in DOMAIN l /\ l.writes # "none"
Writes(l) == IF Writing(l) THEN l.writes ELSE l.posture

\* A mutant: a layer that has a posture only allows any writing.
WritesNamed(layers) == Of(layers, "writes") \ {"none"}

WritesOf(layers) == {Writes(l) : l \in {l \in layers : Writing(l) \/ "posture" \in DOMAIN l}}

CappedTo(values, value, requested) ==
  IF \E v \in values : Strictness(v) < Strictness(requested) THEN Strictest(values) ELSE value

Least(values) == CHOOSE n \in values : \A m \in values : n <= m

\* No layer above may relax what a lower one asks for.
Capped(config, lower) ==
  LET posture == CappedTo(Of(lower, "posture"), config.posture, config.posture)
      requested == IF config.writes = "none" THEN posture ELSE config.writes
  IN Over([merge |-> TRUE \in Of(lower, "merge") \/ config.merge,
           posture |-> posture,
           writes |-> CappedTo(WritesOf(lower), config.writes, requested),
           comments |-> config.comments /\ FALSE \notin Of(lower, "comments"),
           lanes |-> IF config.profile \in Supported
                       THEN Least({config.lanes, ProfileLanes} \cup (Of(lower, "lanes") \ {NoLanes}))
                       ELSE config.lanes], config)

CapCodes(config, capped) ==
  When(capped.merge # config.merge, "merge_capped")
  \cup When(capped.posture # config.posture, "posture_capped")
  \cup When(capped.writes # config.writes, "writes_capped")
  \cup When(capped.comments # config.comments, "comments_capped")
  \cup When(capped.lanes # config.lanes, "lanes_capped")

-----------------------------------------------------------------------------
(* refresh_product_contract *)

\* Caps come last: validations see the merged layers as they are.
Diagnoses(c, row, given, repoRow, projectRow) ==
  LET config == Merged(c, row, given)
  IN SettingCodes \cup ManifestCodes(c, projectRow) \cup ComponentCodes(c)
     \cup ProfileCodes(config) \cup SecretCodes(config) \cup ProjectCodes(c, projectRow)
     \cup PostureCodes(repoRow, config) \cup AssetCodes(c, config) \cup CapCodes(config, Capped(config, LowerLayers))

\* A mutant: an accepted contract activates a paused product.
ContractedAlways(c, row, given, repoRow, projectRow) ==
  LET kept == Over(given, row.overrides)
      codes == Diagnoses(c, row, kept, repoRow, projectRow)
      config == Capped(Merged(c, row, kept), LowerLayers)
      refreshed == [row EXCEPT !.overrides = kept, !.state = SetupState(codes), !.codes = codes]
  IN IF Blocks(codes) THEN [refreshed EXCEPT !.status = IF @ = "Paused" THEN @ ELSE "Draft"]
     ELSE [refreshed EXCEPT !.config = config, !.profile = config.profile, !.status = "Active"]

\* The product's row after a refresh; a contract that blocks is not accepted.
Contracted(c, row, given, repoRow, projectRow) ==
  LET kept == Over(given, row.overrides)
      codes == Diagnoses(c, row, kept, repoRow, projectRow)
      config == Capped(Merged(c, row, kept), LowerLayers)
      refreshed == [row EXCEPT !.overrides = kept, !.state = SetupState(codes), !.codes = codes]
      Unless(status, new) == IF status = "Paused" THEN status ELSE new
  IN IF Blocks(codes) THEN [refreshed EXCEPT !.status = Unless(@, "Draft")]
     ELSE [refreshed EXCEPT !.config = config, !.profile = config.profile,
                            !.status = Unless(@, "Active")]

NothingDeclared == [nodes |-> {}, edges |-> {}]

Declared(c) ==
  IF Readable(c) /\ c.components.state = "declared"
    THEN [nodes |-> c.components.nodes, edges |-> c.components.edges] ELSE NothingDeclared

NewProduct == [status |-> "Draft", state |-> "setup-needed", codes |-> {}, overrides |-> Empty,
               config |-> None, profile |-> "standard-python"]

\* Columns that differ from the loaded ones are written.
Written(now, loaded, new) ==
  [column \in DOMAIN now |-> IF new[column] = loaded[column] THEN now[column] ELSE new[column]]

-----------------------------------------------------------------------------
(* Adoption and requests about a product *)

\* Nobody has the key, the repository or the project.
Unbound == product = None

\* adopt_product reads a local checkout.  The state of adoption is decided here,
\* once.  A dry run does the same and rolls it back.
Adopt(c, snapshot, gaps, given) ==
  LET bound == [snapshot EXCEPT !.adoption = "adopting"]
      onboard == [number |-> c.project, gaps |-> gaps]
      new == Contracted(c, NewProduct, given, bound, onboard)
  IN /\ Change /\ Unbound
     /\ product' = new
     /\ repo' = [bound EXCEPT !.adoption = IF new.state = "setup-needed" THEN "setup-needed" ELSE "adopted"]
     /\ project' = onboard
     /\ graph' = Refreshed(Nothing, Declared(c))
     /\ read' = [contract |-> c, from |-> "checkout"] /\ unheard' = TRUE
     /\ UNCHANGED <<github, settings, secret, refresh, mirror, published, crossed>>

\* A request that commits at once, perhaps during another one's transaction.
AtOnce ==
  /\ Change /\ product # None
  /\ crossed' = (crossed \/ Refreshing)

Pause ==
  /\ AtOnce /\ product.status # "Paused"
  /\ product' = [product EXCEPT !.status = "Paused"]
  /\ UNCHANGED <<github, settings, secret, repo, project, graph, refresh, mirror, read, published, unheard>>

\* A mutant: a product may be resumed whatever its setup.
ResumeAnyway ==
  /\ AtOnce /\ product.status = "Paused"
  /\ product' = [product EXCEPT !.status = "Active"]
  /\ UNCHANGED <<github, settings, secret, repo, project, graph, refresh, mirror, read, published, unheard>>

Resume ==
  /\ AtOnce /\ product.status = "Paused" /\ product.state # "setup-needed"
  /\ product' = [product EXCEPT !.status = "Active"]
  /\ UNCHANGED <<github, settings, secret, repo, project, graph, refresh, mirror, read, published, unheard>>

\* A refresh from a checkout calls nobody and is done at once.
RefreshLocally(c, given) ==
  /\ AtOnce
  /\ product' = Contracted(c, product, given, repo, project)
  /\ graph' = Refreshed(graph, Declared(c))
  /\ read' = [contract |-> c, from |-> "checkout"] /\ unheard' = TRUE
  /\ UNCHANGED <<github, settings, secret, repo, project, refresh, mirror, published>>

\* refresh_product loads product and repository, downloads the default branch,
\* and refreshes the contract with settings, secret and project as they are then.
LoadRefresh(given) ==
  /\ Change /\ product # None /\ refresh = NoTx
  /\ refresh' = [NoTx EXCEPT !.at = "loaded", !.product = product, !.repo = repo, !.given = given]
  /\ UNCHANGED <<github, settings, secret, product, repo, project, graph, mirror,
                 read, published, unheard, crossed>>

ReadSnapshot ==
  /\ refresh.at = "loaded"
  /\ refresh' = [refresh EXCEPT !.at = "read", !.content = github.head]
  /\ UNCHANGED <<github, settings, secret, product, repo, project, graph, mirror, changes,
                 read, published, unheard, crossed>>

CommitRefresh ==
  LET t == refresh
  IN /\ t.at = "read"
     /\ product' = Written(product, t.product,
                           Contracted(t.content, t.product, t.given, t.repo, project))
     /\ graph' = Refreshed(graph, Declared(t.content))
     /\ refresh' = NoTx
     /\ read' = [contract |-> t.content, from |-> "branch"]
     /\ unheard' = (unheard /\ github.head # t.content)
     /\ crossed' = (crossed \/ mirror.at # "idle")
     /\ UNCHANGED <<github, settings, secret, repo, project, mirror, changes, published>>

\* GitHub or the database refuses, and the transaction is rolled back.
FailRefresh ==
  /\ refresh # NoTx /\ refresh' = NoTx
  /\ UNCHANGED <<github, settings, secret, product, repo, project, graph, mirror, changes,
                 read, published, unheard, crossed>>

-----------------------------------------------------------------------------
(* The mirror and webhooks *)

\* Where deliveries go may be unknown, or GitHub may refuse the webhook (one
\* case here); a refresh says so and goes on.
WebhookAnswers == {{}, {"github.webhook.provision_failed"}}

\* refresh_product_mirror loads the product and makes sure of the webhook.
LoadMirror(codes) ==
  /\ Change /\ product # None /\ mirror = NoTx
  /\ mirror' = [NoTx EXCEPT !.at = "loaded", !.product = product, !.codes = codes]
  /\ github' = [github EXCEPT !.hook = @ \/ codes = {}]
  /\ UNCHANGED <<settings, secret, product, repo, project, graph, refresh,
                 read, published, unheard, crossed>>

\* upsert_repository keeps GitHub's payload in place of the one it had: what an
\* adoption noted about protection and permissions is gone.
Forgotten ==
  [repo EXCEPT !.protection = "unknown", !.access = "unknown", !.archived = github.archived]

\* _apply_product_mirror_diagnostics
Mirrored(row, codes) ==
  LET all == (row.codes \ MirrorCodes) \cup codes
  IN [row EXCEPT !.codes = all, !.state = SetupState(all)]

\* An issue's answer carries its repository; without issues there is none.
RepositoryAfter(issues) == IF issues THEN Forgotten ELSE repo

CommitMirror(issues) ==
  /\ mirror.at = "loaded"
  /\ product' = Written(product, mirror.product, Mirrored(mirror.product, mirror.codes))
  /\ repo' = RepositoryAfter(issues)
  /\ mirror' = NoTx
  /\ crossed' = (crossed \/ refresh.at # "idle")
  /\ UNCHANGED <<github, settings, secret, project, graph, refresh, changes, read, published, unheard>>

FailMirror ==
  /\ mirror # NoTx /\ mirror' = NoTx
  /\ UNCHANGED <<github, settings, secret, product, repo, project, graph, refresh, changes,
                 read, published, unheard, crossed>>

\* A mutant: a product whose setup is not done is not told of a push.
ScheduledWhenReady(row) ==
  IF row.state = "setup-needed" THEN row
  ELSE [row EXCEPT !.codes = @ \cup {Pending}, !.state = "drift"]

\* _schedule_contract_refresh
Scheduled(row) ==
  [row EXCEPT !.codes = @ \cup {Pending}, !.state = IF @ = "setup-needed" THEN @ ELSE "drift"]

\* process_delivery: a push to the default branch.  A repository that no
\* product has is not looked at.
DeliverPush ==
  /\ github.pushes > 0
  /\ github' = [github EXCEPT !.pushes = @ - 1]
  /\ IF product = None
       THEN unheard' = TRUE /\ UNCHANGED <<product, repo, crossed>>
       ELSE /\ product' = Scheduled(product) /\ repo' = Forgotten
            /\ crossed' = (crossed \/ Refreshing)
            /\ UNCHANGED unheard
  /\ UNCHANGED <<settings, secret, project, graph, refresh, mirror, changes, read, published>>

\* Any other event of the repository; an edit of it asks for a refresh too.
DeliverEvent(edited) ==
  /\ AtOnce /\ github.hook
  /\ repo' = Forgotten
  /\ product' = IF edited THEN Scheduled(product) ELSE product
  /\ UNCHANGED <<github, settings, secret, project, graph, refresh, mirror, read, published, unheard>>

-----------------------------------------------------------------------------
(* The world *)

\* The default branch gets new content; the webhook, if there is one, tells.
Moved(c) ==
  /\ github' = [github EXCEPT !.head = c, !.pull = IF @ = c THEN None ELSE @,
                              !.pushes = @ + IF github.hook THEN 1 ELSE 0]
  /\ published' = published \cup {c}
  /\ unheard' = (unheard \/ ~github.hook)
  /\ UNCHANGED <<settings, secret, product, repo, project, graph, refresh, mirror, read, crossed>>

Push(c) == Change /\ github.head # c /\ Moved(c)
MergePull == github.pull # None /\ Moved(github.pull) /\ UNCHANGED changes

Archive ==
  /\ Change
  /\ github' = [github EXCEPT !.archived = ~@]
  /\ UNCHANGED <<settings, secret, product, repo, project, graph, refresh, mirror,
                 read, published, unheard, crossed>>

SetDefaults(new) ==
  /\ Change /\ settings # new
  /\ settings' = new
  /\ UNCHANGED <<github, secret, product, repo, project, graph, refresh, mirror,
                 read, published, unheard, crossed>>

SetSecret ==
  /\ Change
  /\ secret' = ~secret
  /\ UNCHANGED <<github, settings, product, repo, project, graph, refresh, mirror,
                 read, published, unheard, crossed>>

Adoption ==
  \E c \in Contents, s \in Snapshots, gaps \in Gaps, given \in Overrides : Adopt(c, s, gaps, given)

ContractNext ==
  \/ Pause \/ Resume \/ Archive \/ SetSecret \/ MergePull
  \/ \E c \in Contents, given \in Overrides : RefreshLocally(c, given)
  \/ \E given \in Overrides : LoadRefresh(given)
  \/ ReadSnapshot \/ CommitRefresh \/ FailRefresh
  \/ \E codes \in WebhookAnswers : LoadMirror(codes)
  \/ \E issues \in BOOLEAN : CommitMirror(issues)
  \/ FailMirror \/ DeliverPush
  \/ \E edited \in BOOLEAN : DeliverEvent(edited)
  \/ \E c \in Contents : Push(c)
  \/ \E p \in PlatformDefaults, o \in OrgDefaults : SetDefaults([platform |-> p, org |-> o])

-----------------------------------------------------------------------------
(* Properties *)

\* Requests one after the other: once a contract has been read, setup state and
\* status agree with the diagnostics, whoever wrote them last, and no product
\* with a blocking one is active (refresh_product_contract,
\* _apply_product_mirror_diagnostics, _schedule_contract_refresh,
\* resume_product, the seed).
ActiveIsSetUp ==
  product # None /\ ~crossed =>
    /\ read # None => product.state = SetupState(product.codes)
    /\ product.status = "Active" => ~Blocks(product.codes)

\* Whatever overlaps: nothing but a resumption, of a product whose setup is done,
\* ends a pause, with one exception, the commit of a refresh that had loaded the
\* product before the pause and gives it another status than it loaded
\* (pause_product, resume_product, refresh_product_contract).
PauseHolds ==
  [][product # None /\ product.status = "Paused" /\ product'.status # "Paused" =>
       \/ product.state # "setup-needed" /\ product' = [product EXCEPT !.status = "Active"]
       \/ /\ refresh.at = "read" /\ refresh' = NoTx
          /\ refresh.product.status \notin {"Paused", product'.status}]_product

\* A contract that differs from the default branch is known to: a push is still
\* to be delivered, the product says that a refresh or the merge of its seed is
\* pending, or nobody told (no webhook, or no product yet; a checkout).
ContractIsCurrent ==
  product # None /\ ~crossed /\ ~unheard =>
    \/ read.contract = github.head \/ github.pushes > 0
    \/ product.codes \cap {Pending, PullPending} # {}

\* What a refresh accepts no lower layer forbids, as platform and organization
\* have it at that moment, whatever contract and operators ask for.
GovernanceIsCapped ==
  [][product' # None /\ product'.config # None /\ (product = None \/ product'.config # product.config) =>
       LET config == product'.config
       IN /\ config.merge
          /\ \A l \in LowerLayers :
               /\ "posture" \in DOMAIN l => Strictness(config.posture) <= Strictness(l.posture)
               /\ Writing(l) \/ "posture" \in DOMAIN l =>
                    Strictness(Writes(config)) <= Strictness(Writes(l))
               /\ "comments" \in DOMAIN l => (config.comments => l.comments)
               /\ "lanes" \in DOMAIN l /\ l.lanes # NoLanes => config.lanes <= l.lanes]_product

\* What the graph has as declared and current is what the contract read last
\* declares, and between two nodes joined there nothing else is in force, also
\* after a declaration has gone and come back (_mark_missing_declared_nodes_stale,
\* _edge_precedence_states).
GraphFollowsContract ==
  read # None =>
    LET d == Declared(read.contract)
        joined == Linked(graph, d)
    IN /\ {k \in DOMAIN graph.nodes : graph.nodes[k] = Current("declared")} = d.nodes
       /\ {row \in Effective(graph) : row[2] = "declared" /\ graph.edges[row] = "current"}
            = joined \X {"declared"}
       /\ \A row \in Effective(graph) :
            (\E e \in joined : <<e[1], e[2]>> = <<row[1][1], row[1][2]>>) => row[1] \in joined

\* "... gate activation on seed-time preflight" (docs/architecture/README.md): a
\* product that is active has had a contract accepted.  Left by a seed that failed
\* before its preflight was done it has none, and no diagnostics: the refresh of
\* the mirror has called it ready, and paused and resumed it is active.
ActivationIsGated ==
  product # None /\ product.status = "Active" => product.config # None
=============================================================================
