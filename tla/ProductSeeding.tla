---------------------------- MODULE ProductSeeding ----------------------------
(***************************************************************************)
(* Seeding: a repository gets the approved baseline, and the product with  *)
(* its rows is registered.  A seed is one transaction that calls GitHub    *)
(* nearly all of the time: its rows are seen when it ends, what it has     *)
(* done at GitHub stays, also when it fails, and only a seed that ends     *)
(* leaves a job.  It runs beside adoptions and other seeds of the same     *)
(* product and, once its product is there, what ProductContract does.      *)
(* Files of the baseline, git commands, labels and fields of the project   *)
(* are abstracted to what the checks at the end say of them.               *)
(***************************************************************************)
EXTENDS ProductContract

CONSTANTS
  Seeds,       \* requests to seed
  Bound,       \* number of the project that requests name, or 0: make one
  Baseline,    \* what the baseline puts on the default branch
  Secrets      \* overrides a request makes of its required secrets

ASSUME RequestsAssumption ==
  /\ "layer" \in DOMAIN Baseline /\ IsLayer(Baseline.layer)
  /\ \A given \in Secrets : IsLayer(given)

VARIABLES
  seeds,  \* the transaction of each seed
  jobs    \* the job it leaves

vars == <<contractVars, seeds, jobs>>

NoSeed == [at |-> "idle", review |-> FALSE, bundle |-> None, gaps |-> {}, pull |-> FALSE,
           codes |-> {}]
NoJob == [status |-> "none", product |-> FALSE, bundle |-> None]

Init ==
  /\ ContractInit
  /\ seeds = [s \in Seeds |-> NoSeed]
  /\ jobs = [s \in Seeds |-> NoJob]

\* _render_seed_bundle: the manifest names the project.
Bundle(number) == [Baseline EXCEPT !.project = number]

\* The rows of a seed are written and not committed.
Registering == \E s \in Seeds : seeds[s].at \in {"bootstrap", "finish"}

\* Another seed takes what it has put on the branch for the contract.
Overlapped(s) == \E o \in Seeds \ {s} : seeds[o].at \notin {"idle", "project", "publish"}

\* A call of GitHub that only a seed makes: nothing else changes but github.
Unseen ==
  UNCHANGED <<settings, secret, product, repo, project, graph, refresh, mirror,
              read, published, unheard, crossed, jobs>>
Beyond == Unseen /\ UNCHANGED changes

Step(s, new) == seeds' = [seeds EXCEPT ![s] = new]

\* The protection of the default branch, as GitHub has it.
Protected == github.protected

\* prepare_repository learns whether the branch asks for pull requests.
Prepare(s) ==
  /\ Change /\ seeds[s] = NoSeed /\ jobs[s] = NoJob
  /\ Step(s, [NoSeed EXCEPT !.at = "project", !.review = Protected])
  /\ UNCHANGED github /\ Unseen

NewProject == github.projects + 1

\* ensure_project: the project that the request names, or a new one, each time.
EnsureProject(s, gaps) ==
  /\ seeds[s].at = "project"
  /\ Step(s, [seeds[s] EXCEPT !.at = "publish", !.gaps = gaps,
                              !.bundle = Bundle(IF Bound = 0 THEN NewProject ELSE Bound)])
  /\ github' = [github EXCEPT !.projects = IF Bound = 0 THEN NewProject ELSE @]
  /\ Beyond

\* apply_bundle.  A branch that has the bundle already needs no commit.
Applied(s) ==
  /\ github.head = seeds[s].bundle
  /\ Step(s, [seeds[s] EXCEPT !.at = "protect"])
  /\ UNCHANGED <<github, published, unheard>>

\* The branch of a product's seeds is always the same one, and so is the pull
\* request while it is open.
Offered(bundle) == [github EXCEPT !.pull = bundle]

\* A branch that asks for a pull request, as known or as GitHub answers to the
\* push, gets one.
OpenPull(s) ==
  /\ github.head # seeds[s].bundle
  /\ seeds[s].review \/ Protected
  /\ Step(s, [seeds[s] EXCEPT !.at = "protect", !.pull = TRUE])
  /\ github' = Offered(seeds[s].bundle)
  /\ UNCHANGED <<published, unheard>>

Pushed(bundle) == [github EXCEPT !.head = bundle, !.pushes = @ + IF github.hook THEN 1 ELSE 0]

PushBundle(s) ==
  /\ github.head # seeds[s].bundle
  /\ ~seeds[s].review /\ ~Protected
  /\ Step(s, [seeds[s] EXCEPT !.at = "protect"])
  /\ github' = Pushed(seeds[s].bundle)
  /\ published' = published \cup {seeds[s].bundle}
  /\ unheard' = IF product = None THEN Overlapped(s) ELSE unheard \/ ~github.hook

Publish(s) ==
  /\ seeds[s].at = "publish"
  /\ Applied(s) \/ OpenPull(s) \/ PushBundle(s)
  /\ UNCHANGED <<settings, secret, product, repo, project, graph, refresh, mirror, changes,
                 read, crossed, jobs>>

\* From now on the branch asks for pull requests; then labels are made, and
\* taken to be all there.
Protect(s) ==
  /\ seeds[s].at = "protect"
  /\ Step(s, [seeds[s] EXCEPT !.at = "register"])
  /\ github' = [github EXCEPT !.protected = TRUE]
  /\ Beyond

\* _register_product flushes the new rows.  Unique indexes make another seed or
\* an adoption wait for this one's end.
Register(s) ==
  /\ seeds[s].at = "register" /\ product = None /\ ~Registering
  /\ Step(s, [seeds[s] EXCEPT !.at = "bootstrap"])
  /\ UNCHANGED github /\ Beyond

\* Somebody else's product has the key or the repository: writing the failure
\* down fails as well, and the request leaves no job.
RegisterTwice(s) ==
  /\ seeds[s].at = "register" /\ product # None
  /\ Step(s, NoSeed)
  /\ jobs' = [jobs EXCEPT ![s].status = "lost"]
  /\ UNCHANGED contractVars

\* bootstrap_product_mirror
Bootstrap(s, codes) ==
  /\ seeds[s].at = "bootstrap"
  /\ Step(s, [seeds[s] EXCEPT !.at = "finish", !.codes = codes])
  /\ github' = [github EXCEPT !.hook = @ \/ codes = {}]
  /\ Beyond

SeededRepo == [adoption |-> "seeded", archived |-> FALSE, protection |-> "reviewed", access |-> "unknown"]

ShapeCodes(gaps) ==
  When("field" \in gaps, "github.project.status_field")
  \cup When(gaps \cap {"options", "progress"} # {}, "github.project.status_option_missing")
  \cup When("fields" \in gaps, "github.project.field_missing")
  \cup When("views" \in gaps, "github.project.view_missing")

\* A mutant: a bundle that waits for its merge counts as applied.
SeedCodesAlone(t) == t.codes \cup ShapeCodes(t.gaps)

\* What the seed adds to the contract's own diagnostics.  Protection and labels
\* are checked as they were just put, and never lack anything.
SeedCodes(t) == t.codes \cup ShapeCodes(t.gaps) \cup When(t.pull, PullPending)

Onboard(t) == [number |-> t.bundle.project, gaps |-> t.gaps]

\* The preflight reads the rendered bundle; all diagnostics together decide.
Finish(s, given) ==
  LET t == seeds[s]
      contracted == Contracted(t.bundle, [NewProduct EXCEPT !.overrides = given], Empty,
                               SeededRepo, Onboard(t))
      codes == contracted.codes \cup SeedCodes(t)
      status == IF Blocks(codes) THEN "Draft" ELSE "Active"
  IN /\ t.at = "finish"
     /\ product' = [contracted EXCEPT !.codes = codes, !.state = SetupState(codes), !.status = status]
     /\ repo' = SeededRepo /\ project' = Onboard(t)
     /\ graph' = Refreshed(Seeded, Declared(t.bundle))
     /\ read' = [contract |-> t.bundle, from |-> "bundle"]
     /\ jobs' = [jobs EXCEPT ![s] = [status |-> IF status = "Active" THEN "Succeeded" ELSE "Blocked",
                                     product |-> TRUE, bundle |-> t.bundle]]
     /\ Step(s, NoSeed)
     /\ UNCHANGED <<github, settings, secret, refresh, mirror, changes, published, unheard, crossed>>

\* The product of a seed without its contract.  The refresh of the mirror has
\* put down what it found, and the setup that follows from it.
Registered(t, given) ==
  LET new == [NewProduct EXCEPT !.overrides = given]
  IN IF t.at = "finish" THEN Mirrored(new, t.codes) ELSE new

\* A call fails.  The job says so; rows that were registered are kept.
Fail(s, given) ==
  LET t == seeds[s]
      registered == t.at \in {"bootstrap", "finish"}
  IN /\ t # NoSeed
     /\ jobs' = [jobs EXCEPT ![s] = [NoJob EXCEPT !.status = "Failed", !.product = registered]]
     /\ Step(s, NoSeed)
     /\ IF registered
          THEN /\ product' = Registered(t, given)
               /\ repo' = SeededRepo /\ project' = Onboard(t) /\ graph' = Seeded
               /\ unheard' = TRUE
          ELSE UNCHANGED <<product, repo, project, graph, unheard>>
     /\ UNCHANGED <<github, settings, secret, refresh, mirror, changes, read, published, crossed>>

\* The process stops: nothing of the transaction is left but what GitHub has.
Crash(s) ==
  /\ seeds[s] # NoSeed
  /\ Step(s, NoSeed)
  /\ jobs' = [jobs EXCEPT ![s].status = "lost"]
  /\ UNCHANGED contractVars

\* A dry run renders and parses the bundle, and calls nobody.
DryRun(s) ==
  /\ Change /\ seeds[s] = NoSeed /\ jobs[s] = NoJob
  /\ jobs' = [jobs EXCEPT ![s].status = "DryRun"]
  /\ UNCHANGED <<github, settings, secret, product, repo, project, graph, refresh, mirror,
                 read, published, unheard, crossed, seeds>>

\* An adoption waits for the rows of a seed as well.
Next ==
  \/ ContractNext /\ UNCHANGED <<seeds, jobs>>
  \/ ~Registering /\ Adoption /\ UNCHANGED <<seeds, jobs>>
  \/ \E s \in Seeds :
       \/ Prepare(s) \/ Publish(s) \/ Protect(s) \/ Register(s) \/ RegisterTwice(s)
       \/ Crash(s) \/ DryRun(s)
       \/ \E gaps \in Gaps : EnsureProject(s, gaps)
       \/ \E codes \in WebhookAnswers : Bootstrap(s, codes)
       \/ \E given \in Secrets : Finish(s, given) \/ Fail(s, given)

Spec == Init /\ [][Next]_vars

-----------------------------------------------------------------------------
(* Properties *)

\* Whatever seeds and an adoption do to one repository at the same time, one of
\* them at most has the product; a seed that reports success has its bundle on
\* the default branch, and a product made active by a seed has had its contract
\* there: one that waits in a pull request is active only after a refresh.
SeedsAgree ==
  /\ \A s, o \in Seeds : jobs[s].product /\ jobs[o].product => s = o
  /\ \A s \in Seeds : jobs[s].product => product # None /\ repo.adoption = "seeded"
  /\ \A s \in Seeds : jobs[s].status = "Succeeded" => jobs[s].bundle \in published
  /\ read # None /\ read.from = "bundle" /\ product.status = "Active" =>
       read.contract \in published
=============================================================================
