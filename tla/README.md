# Orcha control plane: specifications, model checking and proofs

Orcha watches GitHub issues, claims the ones that are ready, gives each an execution environment, has
a runner (a coding agent) work in it, and hands the result back. This directory holds TLA+ modules of
that control plane, the TLC configurations that check them, and TLAPS proofs. Paths below are relative
to `src/packages/platform-api/src/agent_core_platform_api/` unless they begin with `src/`.

## 1. The system

### Components

| Component | Keeps | Operations | Module |
|---|---|---|---|
| Orchestration loop (`orchestration_runtime.py`) | nothing of its own | `run_cycle` every few seconds: reconcile, resume retries, tick, prepare launches, timeouts, orphan clean-up, in one transaction | LaneOrchestration |
| Lane recovery (`lane_recovery.py`) | lane states, retry dates, violation counts | start-up recovery, shutdown cancellation, reconciliation, retry/backoff, quarantine, clean-up | LaneOrchestration |
| Scheduler (`scheduler.py`) | lanes and attempts, tick lock | eligibility, candidate order, capacity, claim, transition | SchedulerTick, LaneOrchestration |
| Execution runtime (`execution_runtime.py`) | execution environments | provision, reuse, continuation check, finalize | LaneOrchestration |
| Runner protocol (`runner_protocol.py`) | agent sessions and their event log | prepare session, handshake, events, heartbeat, timeouts, projection | LaneOrchestration, RunnerSession |
| Operator API (`operator_api.py`) | product status | pause, resume, refreshes, retry, cancel, approve, answer | LaneOrchestration, ProductContract |
| Application (`main.py`) | - | lifespan hook, one transaction per request | LaneOrchestration |
| Work item normalization (`work_item_normalization.py`) | status, dependencies, handoff, repair reasons of a work item | normalize, flag and clear repairs | GitHubMirror |
| Product contract (`product_contract.py`) | setup state, diagnostics, effective configuration | refresh from a checkout or from the branch | ProductContract |
| Webhook intake (`github_integration.py`) | delivery ledger | intake, duplicate, dead letter, replay | WebhookLedger |
| GitHub mirror (`github_mirror.py`) | mirrored issues, pull requests, projects, repositories | upserts, repairs, full refresh, marks of pushes on the contract | GitHubMirror, ProductContract |
| Worker (`src/packages/platform-worker`) | its Codex process and what it has read of it | poll a launch, run Codex, report | RunnerSession; as a runner in LaneOrchestration |
| Component graph (`component_graph.py`) | nodes and edges of a product, their sources and staleness | refresh from a contract, precedence of edges | ComponentGraph |
| Seeding and adoption (`product_seeding.py`, `product_adoption.py`) | seed jobs, the product's first rows | live seed and dry run, adoption | ProductSeeding, ProductContract |
| Standards packs (`standards_packs.py`) | packs, overrides, runs, managed assets | evaluate, offer an upgrade, record a decision | StandardsPacks |
| Administration (`main.py`, `repos_routes.py`, `bootstrap.py`, token look-up of `github_integration.py`) | organizations, members, secrets, connected repositories | their routes, the restart | Administration |
| Registries of models and agents, roles, observability, user interface, scripts | see `PROJECT.json` | | not modelled, with the reason in `PROJECT.json` |

### How they interact

All state is in one database; the loop, the runner routes, the operator routes and the lifespan hook are
separate transactions over the same lane, session, environment, product and work item rows. There are
no messages between the parts: what one leaves in a row is what the next finds. The runner is a
separate process that only calls the HTTP API; it can be slow, stop, or go on after its lane was
taken from it.

What makes this hard:

* **Several writers of a lane's state.** The scheduler, the recovery, the runner's events and the
  operator each write `lane.state`; only some look at what was there.
* **Two rows for one fact.** Session status and lane state say much the same, and environment status
  must fit both; they are written in different places.
* **Retries keep things.** A lane that waits for a retry keeps its environment, its session and its
  runner.
* **Restarts.** The API can stop or die between two cycles; start-up works from the rows alone.
* **Time.** Start-up (120 s), heartbeat (300 s), wait (900 s) and stale-heartbeat (1800 s) limits and
  the retry date (5 min and up) run against each other.

* **Calls in the middle.** Seeds, refreshes and evaluations call GitHub many times inside one transaction: what they
  loaded is old when they commit, and what they did on GitHub stays when they fail.

Each of these is listed at its line under `hazards` in `PROJECT.json`, with the properties that cover it.

## 2. The modules

| Module | What it is |
|---|---|
| `LaneOrchestration` | the lane life cycle: all the operations above that change lanes, sessions, environments and products |
| `LaneOwnership` | the abstract specification: what the lane table promises about a work item |
| `MCLaneOrchestration` | values for TLC |
| `LaneOrchestrationProofs` | the theorems about LaneOrchestration |
| `Administration` | organizations and members, secrets, connected repositories, and the products that need them |
| `MCAdministration` | values for TLC |
| `AdministrationProofs` | theorems about Administration |
| `WebhookLedger` | intake, duplicates and replay of webhook deliveries, statement by statement |
| `MCWebhookLedger` | values for TLC |
| `WebhookLedgerProofs` | theorems about WebhookLedger |
| `GitHubMirror` | mirrored issues, pull requests and board, links, normalization of work items, repairs, refresh |
| `MCGitHubMirror` | values for TLC |
| `GitHubMirrorProofs` | theorems about GitHubMirror |
| `ComponentGraph` | what a refresh makes of a product's nodes and edges, and which edges are in force |
| `ProductContract` | contract layers, diagnostics and caps; adoption, refreshes of contract and mirror, pauses, webhooks of the repository |
| `ProductSeeding` | seeds, composed with `ProductContract` |
| `MCProductSeeding` | values for TLC |
| `ProductSeedingProofs` | theorems about the three |
| `RunnerSession` | a worker, its Codex process and the event log of one session, transactions interleaved at read committed |
| `MCRunnerSession` | values for TLC |
| `RunnerSessionProofs` | theorems about RunnerSession |
| `StandardsPacks` | packs, overrides, evaluations with their pull requests, decisions, and the rows of managed assets |
| `MCStandardsPacks` | values for TLC |
| `StandardsPacksProofs` | theorems about StandardsPacks |
| `SchedulerTick` | one tick of the scheduler: order of candidates, limits, tick lock, what others do meanwhile |
| `MCSchedulerTick` | values for TLC |
| `SchedulerTickProofs` | theorems about SchedulerTick |

### LaneOrchestration

State and code:

| Variable | In the code |
|---|---|
| `laneState[<<w, a>>]` | `OrchestrationLane.state` of attempt `a` at work item `w`; `"none"` before the row exists |
| `env` | `ExecutionEnvironment`: `"ready"`, `"lost"` (the provider no longer has it), `"drifted"` (its fingerprints no longer match the accepted configuration), `"terminated"`, `"quarantined"` |
| `sess`, `bound` | `AgentSession.status`, and whether `runner_session_id` is set |
| `timers` | which deadlines of the lane have passed |
| `ready`, `repair` | what the mirror says about the issue, and whether a runtime repair reason is flagged |
| `product`, `blocked`, `diagnosed`, `violations` | `Product.status`, `setup_state = "setup-needed"`, a blocking one among `setup_diagnostics`, the stored violation count |
| `barred` | products quarantined since their last accepted contract (for `QuarantineHolds`) |
| `phase`, `booting`, `todo`, `claims` | where the cycle (or the start-up recovery) is |
| `restarts` | a bound of the model |

A cycle is one transaction but many decisions, so it is laid out in phases: `reconcile` takes the
lanes one by one (`ReconcileCancels`, `ReconcileFails`, `ReconcileQuarantines`, `ReconcileKeeps`),
`resume` the due retries, `tick` claims, `prepare` launches, `timeouts`, `cleanup`. Other transactions
run at `phase = "idle"` only: the model takes transactions to be serial, and a cycle that raises is
rolled back, that is, a stuttering step. The start-up recovery runs `reconcile`, `resume` and `cleanup`
(`booting`). Everything else is one action per route or hook.

What is abstracted, and why it is safe:

* *Queued*: `claim_work_item` inserts the row and moves it to Claimed in one savepoint; nobody sees it
  queued.
* *Clocks*: a timer is a deadline that has passed. Any handler that writes the timestamp behind it
  lifts it. A stale heartbeat follows the heartbeat and wait timeouts, as with the default settings.
* *Reattachment*: the branch at the end of `reconcile_active_lanes` is left out because its condition
  never holds; `NothingToReattach`, a part of `LaneRowsFit`, states that, and `RowAgreement` proves it.
* *Violation counts* stop at the threshold, the only number they are compared with.
* *A configuration change* makes ready environments of the product drift; that a later change restores
  an earlier fingerprint is left out.
* *The order of candidates* in a tick is open: the properties hold for every order.

### LaneOwnership

`used[w]` are the attempts made so far, `held[w]` those that own the work item. A work item is claimed
when nobody owns it, handed over from a due retry to the next attempt, released by lanes that end, and
reopened by a runner whose lane was cancelled. `LaneOrchestration!OwnershipHolds` is the refinement.

### Administration

`member`, `secret` and `repo` are the rows of `OrgMembership`, `Secret` and `WorkspaceRepo` with its mappings; `product`
says whether a product is registered or being seeded. Each request is one step, with its checks: the foreign key that
keeps a secret in use (`Unused`), the unique index of GitHub names, and the products that stand in the way of unmapping
or archiving a repository (`Blocking`). `Serves` is `load_repository_token`. `Restart` is `ensure_runtime_state`. A seed is
two steps, `StartSeed` and `FinishSeed`, because it loads its token minutes before its product can be seen by
`_matching_products`; `spoiled` remembers the products for which the code checks nothing: those whose repository was
renamed (`update_repo` looks for products of the new name only), whose secret became another kind (`update_secret` asks
nobody), or whose repository was changed during their seed. Requests of operators that overlap, roles, and
adopted products, which are registered without a token, are left out.

### WebhookLedger

A request is a record `tx[h]` that goes from statement to statement of its handler. Before anything else it
makes sure of the webhook's configuration: while there is none (`configured`), `Configure` inserts the setting,
whose unique key it holds until its transaction ends; refreshes of a mirror do the same (`ConfigureElsewhere`).
Then `Lookup`, `Insert`, `Process`, `CommitNew` for a new guid; `TakeRow`, `CommitDuplicate` for a known one; `Recover` in a second
transaction after an integrity error; `TakeRow`, `Process`, `CommitReplay` for the replay route. `ledger`
holds committed rows. The unique indexes are the guards of `Insert` and `Configure` (they wait for an insert that is
not committed, and fail if that one commits). Whichever index it was, the route rolls the request back and
looks for the guid (`Loses`, `Recover`): a request that has lost the race for the configuration finds no row,
unless the same delivery came twice, and is refused with 409 (`Refuse`). GitHub's delivery is then in no
ledger until somebody sends it again. A request whose signature is wrong, as it is when the request has just made
the secret itself, is rolled back (`Abort`). Setting and secret count as one row. Row locks are the guard of `TakeRow`. The session writes columns whose value
differs from the loaded one, as plain values (`Written`), which is why two duplicates that overlap can count
one attempt between them; nothing decides on that count, and no property is stated about it. What the
processor does to the mirror is GitHubMirror's; here it ends as processed, as dead letter, or in `Abort`
together with the transaction. The intake route runs without interruption within one process, so
handlers stand for processes and for replays, which run in threads.

### GitHubMirror

GitHub is `gIssue`, `gPull`, `gColumn`; the control plane's rows are the record `mirror`. A change on GitHub
puts a payload in `sent`, from which it may be delivered late, twice, in another order or never: the ledger
that keeps guids apart is left to a module of its own, and replaying a delivery is an operation the API
offers. Every operator that
transforms rows takes a mirror and returns one, so that a transaction is a composition of them in the code's
order: `IssueUpserted`, then `Normalize`, then, if reasons for a repair are found, `RepairProject`,
`RepairIssue` and the unknown dependencies by number, then `Normalize` again (`Repairing`). Rows of a query
without ORDER BY are walked in any order (`order`). If GitHub does not answer (`Answers`), the repair raises
in the middle and the delivery commits as a dead letter with what it has written (`RepairingAll`).

Not modelled: labels, priorities, project fields other than the status, `dependency.stale`, several projects,
installations, and issues that texts name but GitHub does not have. The repair of pull requests in
`_trigger_repairs` has no counterpart because no code produces a reason that begins with `pr.`.

### ComponentGraph, ProductContract and ProductSeeding

`ProductContract` has the rows of one product (`product`, `repo`, `project`, `graph`), GitHub's side of its repository
(`github`: head, webhook, pushes still to be delivered, the seed's pull request), settings and the required secret.
`Diagnoses` is the validation of `refresh_product_contract` in its order: settings, manifest, components, profile,
secrets, project, posture, assets, caps. Policies that the code treats alike are one: write access for the six policies of
writing, agent comments for the three permissions of agents. `Contracted` is the row that results. A refresh from the branch is `LoadRefresh`,
`ReadSnapshot`, `CommitRefresh`, one of the mirror `LoadMirror`, `CommitMirror`; either may fail, and each commits the columns that differ from
those it loaded. Adoption, pause, resume and refreshes from a checkout call nobody and are single steps.

`ProductSeeding` adds `seeds[s]`, the transaction of a seed: `Prepare`, `EnsureProject`, `Publish` (the bundle is there, is pushed, or waits in a
pull request), `Protect`, `Register`, `Bootstrap`, `Finish`. Each call may fail (`Fail`: the job and what was
registered are committed) and the process may stop (`Crash`: nothing is). Between `Register` and `Finish` the rows are
written and not committed: unique indexes make others wait, which is why `Register` and `Adoption` ask for `~Registering`.

A seed that fails after `Bootstrap` leaves the setup that its refresh of the mirror has found (`Registered`).

`read` is the contract read last and `published` what the default branch has held; `crossed` remembers that a row was written
during another transaction (`PauseHolds` does without it: its one exception is in its formula), and `unheard` that the branch may have changed while nobody was there to tell.

### RunnerSession

One lane, one session, the workers that may take it. A transaction of the API is three steps: the handler
loads the rows and passes its guards (`Loaded`), asks for the highest sequence number (`Number`), and flushes
and commits (`Write`). The database is read committed and nothing is locked before the flush, so others
come in between; SQLAlchemy writes only the columns that differ from what was loaded (`WriteChanged`), and
counters as plain values. The unique constraint on session and sequence (`Taken`) is what stands against two
writers with one number. `raced` remembers that a transaction wrote over rows that had changed.

A worker is where `_dispatch_launch` is: polling, holding a launch, waiting for the handshake, for its first
event, running Codex, or reporting. It waits for one call at a time; a call it has given up (`Stale`) may
still be worked on. `codex[w]` is the process: the lines it has written, how many of them the worker's reader has
fetched from the pipe and how many it has taken out of its buffer. The selector looks at the pipe, not
at the buffer, so that buffered lines wait until the pipe has something new or ends (`Silent`). When nothing came
for an interval (`FallsSilent`), the worker sends a heartbeat, and leaves the loop if Codex has exited by then
(`FinishUnread`). Any failed
call, of an event or a heartbeat, kills Codex and is reported as a failure; before and after the run it only
ends the launch.

Assumed: a worker's Codex dies with the worker's container and is alone in holding its pipe; a new handshake
has a new identifier (`uuid4`), so the branch that repeats a handshake of the same runner is never taken. This
worker never asks for approval or input; LaneOrchestration has those events. Token and tool call counters are
kept like `turns` and are left out. The runner's side of LaneOrchestration is less restricted: there a runner
may send any event at any time.

### StandardsPacks

`tx[r]` is the open transaction of evaluation `r`: `Load` (product, pack, overrides), `Evaluate` (the run is flushed, which
locks the product's row if its pack changes; then checkout and asset rows are read), `CreateBranch`, `UpsertFile` for each
change, `OpenPull`, `Commit`. `Fail` may come at any point and leaves `github[r]` as it is. `Action` is
`_evaluate_asset` as one expression; a file is a record of what the code tells apart: absent, not
readable, with sections that do not fit (`odd`), or text with the sections of pack `base` and that of a pack or of
people `around` them. An asset's `texture` says what the code does to its text: the refresh of a section passes the
pack's section to `re.sub` as a template (line 1010), which expands its backslashes or raises an error nobody catches (`Raises`:
the evaluation can then only `Fail`), and the checkout is read with newline translation (line 710), so that a
text with carriage returns never equals what is read. `UpgradeSettles` says for which texts upgrades come to rest all
the same: those that both leave alone, and, after one more upgrade at the most, those that expand to the same text each time.
A caller may name a pull request and ask for one; the one GitHub makes wins. `Commit` writes the columns that differ from the loaded ones (`Written`) and fails on a row
another has inserted (`Collides`). `CreatePack`, `SetOverride`, `RecordOutcome` and the contract's sync of the same rows
are single steps. `crossed` remembers that two transactions overlapped, that the contract wrote the rows, or that an older
or decided run was decided: the code then mixes columns of several runs (a product may name the key of one pack
and the version of another; an asset may have the version of one run and the drift of another), and
`RowsFollowRuns` says what holds otherwise. Branch names, titles, patches and the product's baseline channel are left
out; rate-limit signals are modelled by the flush they cause.

### SchedulerTick

LaneOrchestration leaves the order of a tick's claims open and knows one limit. SchedulerTick is the tick
itself: `Count` (lock and usage), `List` (candidates in order), `Skip`, `Claim`, `Refuse`, `Commit`,
`Rollback`, for several processes. The tick lock is a row that stays locked until the cycle commits;
retries, runners and the mirror do not ask for it (`StartOutside`, `LaneEnds`, `Reassess`, `SetLimit`) and
run between any two steps. At read committed a query sees what others have committed
(`_has_active_lane`), while loaded work items keep their values until an integrity error expires them
(`fresh`). `usage` is the code's `CapacityUsage`, `Held` the lanes there really are; `ClaimsFit` relates
the two.

`ProductFairness` is the round-robin order, round by round as in the code (`Rounds`); `OrderIsByTurns` compares what a
`List` step puts in `order` with its reference definition, one sort by turn and key. Scopes stand for platform, organisations,
products, repositories and execution profiles, each with a limit from the settings; a limit of zero is no
limit, as in `_coerce_positive_int`. A product's configuration and the sort keys do not change during a run
of the model.

## 3. The runs

| Run | Instance | Shows |
|---|---|---|
| `lane_item` | one work item, two attempts, a restart | the rows of a lane agree, one owner, a quarantine waits for a contract, single use of environments, refinement of LaneOwnership |
| `lane_live` | one attempt, fair loop and clock, a restart | dispatchable work is claimed, orphans are collected, abandoned lanes end |
| `lane_retry` | two attempts, fair loop and clock | a waiting retry is resolved |
| `administration` | two users, three organizations, two repositories, a secret, two products, seven requests | one default organization; live products keep their token |
| `ledger` | three handlers, one guid, two bodies and a malformed one, four requests | applied once, one body, refused only without a configuration, dead letters stay, every request ends |
| `mirror` | two issues that may depend on each other, one pull request, three columns (one of them unmapped), three changes on GitHub, outages | links agree, unknown dependencies are never taken for done, runtime flags survive; as long as no delivery was cut short, a closed issue is done and a referenced work item shows its pull request; one refresh mirrors the issues and two reach a fixed point that agrees with GitHub, unless open issues are in a column that means done |
| `onboarding` | two seeds, four contracts, three requests, edits or events | what is active is set up, staleness is known, caps, graph and seeds follow the contract |
| `onboarding_gate` | one seed, four requests | violation: an active product without a contract |
| `runner` | one worker, two lines of Codex, one failure, two transactions at a time | numbered log, faithful log, counts, projection, Codex stops |
| `runner_unread` | one worker, no failure | violation: a line is lost although the session completes |
| `standards` | two packs, two files, two evaluations, two other requests or edits | pull requests are whole, upgrades come to rest, rows follow the last run |
| `tick` | two schedulers, two items in each of two products, limits of platform (changing), one repository and one product | real counts stay within the limits, up to one lane for each that others started meanwhile; under fair ticks nobody with room is passed over for ever; whatever subset is listed, the rounds give one sort by turn |

Seven requests are what it takes to connect a repository for two organizations, seed a product and take away, archive or connect again what it needs.

Rows of different guids share nothing, so one guid is enough; the theorems hold for any number.

Three changes are enough to make a dependency, close it and reopen it, or to link, unlink and close; the payloads in `sent` can be delivered without bound.

The contracts are one that asks for more than it may, one whose components are not all declared and that lacks an asset, one without components and one that is no contract. Three requests let any two transactions overlap with a third step between them; what a seed does after its request, deliveries and commits are not counted.

In `runner`, `MaxInFlight = 2` covers the races of every pair of transactions, and two lines a call that is given up while another follows, and a buffer with a line in it. Two workers with one line and no failure (6 million states) keep the five safety properties as well; `CountsAreLogged` says what they do not keep. Its `FairSpec` assumes that the API answers, that the loop cleans up, and that a worker goes on: it reads what is there, posts, and sends a heartbeat when the pipe has been silent for the interval. A Codex that writes lines without events for ever would keep the worker from its heartbeats; `MaxLines` excludes it.

Two evaluations are the least that overlap; a third adds no other pair. One pack has sections with escapes and one makes the same file, with plain ones, advisory; the other file has carriage returns in one and malformed escapes in the other, so that every action of `_evaluate_asset` but local-only occurs, evaluations raise, and of the textures only `restless` is left to the theorem.

In `tick` priorities and ages of the items make the products change places between the rounds, which sorting them once would miss. Priorities of products are the same there; that a product with one goes first is in `OrderAlwaysByTurns`.

Bounds. `AttemptBound` (lanes a work item may have) and `MaxRestarts` bound the model; every other
constant is a setting of the program. Two attempts are the least with which a lane and its successor
meet, and with `MaxAttempts = 2` the first failure is retried and the second is final. With three
attempts and no restart (6.8 million states) the safety properties hold as well; that run takes too
long to be kept. `Threshold = 2` lets one violation pass and the next quarantine. Work items share
nothing but the capacity and their product; SchedulerTick has the capacity, with several of them.
`Provider = "aks"` in the safety runs lets a quarantined environment count as reusable, `"docker"`
in the others does not.

Fairness (`FairSpec`). `WF(Loop)`: the background loop is started with the API, catches every
exception and goes on, and the API is restarted by its platform; a cycle is assumed to succeed in the
end. `SF` of the heartbeat, wait and retry deadlines: a clock runs while the loop runs, so a deadline
nobody moves passes. Nothing is assumed of runners, operators, webhooks or lost environments, and
`AbandonedLanesEnd` is about what happens when runners and operators do nothing. SchedulerTick's
`FairSpec` assumes that some process goes on ticking; WebhookLedger's, that a
request that was taken up goes on to its reply (`WF` of each handler's step). `RefreshSettles` needs no
fairness: it says what a refresh does from every state.

## 4. What the code does not keep

Two runs expect a violation; each property says what a test or a document of the repository says, and
`findings` quotes it.

* `ActivationIsGated`: a product whose seed failed after its registration is called ready by a refresh of
  its mirror, which may have been the seed's own, and can be paused and resumed.
* `CompletedIsTold`: a Codex that ends while its worker is busy with a heartbeat leaves its last lines unread, and
  the session is completed without them. `LogTellsOutput` is what is kept: what was read is told, in order.

The models have the following behaviour of the code too, without a run of its own: the recovery's cancellation ends a
lane and leaves its session open, so that the runner's next progress event sets the lane back to Running
(`runner_protocol.py:463`; `OnlyLiveSessionReopens` is what is kept); two workers that look at the same launch can both
have their handshake accepted (`runner_protocol.py:187`); a session failed
before its handshake takes `session_completed` and hands the lane off (`runner_protocol.py:265`); a lane
claimed by an operator's retry, or by the start-up recovery, is failed by the next reconciliation as
having lost the environment it never had, and waits out a backoff (`lane_recovery.py:178`); a work
item whose last allowed attempt failed is claimed again by the next tick (`scheduler.py:508`); when a
dependency is reopened, its dependents stay clear until they are normalized (`github_mirror.py:780`).

The same of the mirror: a pull request edited so that it no longer refers to an
issue loses the link on both sides, but only the issues it still refers to are normalized, so that the work item
stays `in_review` (`work_item_normalization.py:249`); reopening an issue does not touch the work items that depend on
it, which stay `clear` until something else normalizes them, and an issue webhook without `blockedBy`
makes an item forget its native dependencies until the next repair (`RefreshSettles` is about the way
back). A delivery of a board that is cut short leaves columns as statuses, of closed issues too, which is
why `OutcomesShow` speaks of states before the first such delivery (`cutShort`). A full refresh first
writes every project column over the statuses and only then repairs one issue after the other, judging the dependents
of each in between: as long as open issues are in a column that means done, chains of three issues can stay stale,
which is what `RefreshSettles` excepts.

Of products: a refresh of the contract that had loaded the product before a pause, a push's mark or a changed
repository writes over them (`product_contract.py:463-492`). `PauseHolds` excepts that one refresh and nothing else; `crossed` exempts
whatever follows such an overlap in `ContractIsCurrent` and `ActiveIsSetUp`, a push delivered during a refresh included.
A product may be in draft although nothing blocks its setup: that of a failed seed, once its mirror was refreshed. A standards run that is flushed because a rate limit was recorded loses
the provenance written into its summary afterwards (`standards_packs.py:618`). A pack's text with carriage returns is offered
anew after every merge (`standards_packs.py:710`), as are sections with escapes like `\g<0>`; a section with a
malformed escape, say a path with `\d`, makes every evaluation fail once the file is there (`standards_packs.py:1010`).
The first webhooks to arrive while none is configured race for its setting, and the losers
are refused without a ledger row (`main.py:271`; `RefusedUnconfigured` says when). A renamed repository is checked
under its new name only, so that the products of the old name lose their token (`repos_routes.py:403`), and a
secret may be made another kind under its users (`main.py:1486`); a restart makes the developer's first
organization a default beside the one chosen since (`bootstrap.py:197`). These are the exceptions
`ProductsStayServed` and `DefaultIsOne` name.

## 5. What is proved

`LaneOrchestrationProofs` proves, for any products, work items, limits and bounds that satisfy
`ConstantsAssumption`:

* `TypeCorrectness` (no run lists it again), `MutualExclusion` (one active lane per work item), `RowAgreement` (lane, session
  and environment rows fit), `QuarantineIsKept`;
* the action properties `ReopeningNeedsLiveSession` and `SingleUse`;
* `Implementation`: LaneOrchestration implements LaneOwnership.

All rest on one inductive invariant, `IInv` (`Invariance`): the types, one active lane, the row
invariants, `ProductsFit` (an active product is not blocked, one with a blocking diagnostic is, and a quarantined
one has such a diagnostic), from which `QuarantineHolds` follows, and two facts no run lists because they only strengthen the others: a
session past its launch has a runner (`OpenSessionsBound`), and what the reconciliation has still to
look at is active and not waiting for a retry (`TodoReconcilable`). The row invariants must be taken
together: that a lane is not failed twice under one session needs to know which sessions can be open
under which lane states. The argument goes lane by lane: a step changes the rows of one lane
(`OneRowMoves`), or cancels lanes at shutdown, and lane by lane the new row is one of the allowed ones.
For one active lane, each step either activates none or one lane (`LaneStep`); the one it activates
comes from a claim, which needs no active lane, from a due retry, which is closed in the same step, or
from an event, whose commit the partial unique index refuses otherwise.

`AdministrationProofs` proves `DefaultIsOne`, `ProductsStayServed` and `HomeIsMapped` from `IInv`: the types, these, and two
facts that strengthen them. Members belong to organizations that were made (`MembersAreOfOrgs`), so that making one cannot give somebody
a second default; and a seed under way is as good as a live product (`SeedsStayServed`), so that it is served when it
commits. The bounds are not used.

`WebhookLedgerProofs` proves `AppliedOnce`, `OneBody`, `RefusedUnconfigured` and `DeadLettersStay` from one
invariant, `IInv`. Its parts: nothing is applied that is not in the ledger (`NothingUnrecorded`); at each stage a request knows
what it has seen (`Sound`: an insert that is under way has no committed row to meet, a handler past its look-up keeps
finding the row, and one that has lost the setting does so to one that is there); and inserts of one guid are alone (`Alone`). The bound on requests is not used. That every
request ends (`RequestsEnd`) is model-checked only.

`GitHubMirrorProofs` proves all five properties of the mirror run, for any issues, pull requests, columns and changes.

* *Folds.* A handler walks rows in an order, so its effect is a fold, and what holds of a fold needs an induction. The
  library's induction theorems take an operator and cannot be used here, but "every set of naturals has a least element"
  (`LeastNumber`, from the well-foundedness of `<`) can: `UpTo` is induction over the sets of indices that have a property,
  `RecursionExists` builds the function that a fold recurs over, and `FoldReaches` turns a fold into the sequence of mirrors
  it goes through. `NormalizeAllFolds`, `RepairIssuesFolds`, `RepairingAllFolds` and `RepairsClearedFolds` do that for the four
  walks of the code; `EachIsDone` says that what each step does and later steps keep is done in the end.
* *Safety.* `IInv` says that the mirror is `Sound`. `Sound(flags, known, fit)` are the mirrors whose links agree, where the
  issues of `flags` are flagged, those of `known` are known and those of `fit` show their outcome. Writing the row of an
  issue takes it out of `known` and `fit`, normalizing it puts it back, and each operator of the model has a lemma that says
  how it moves the three sets. A repair that raises leaves a dead letter: it promises nothing of what shows (`Promised`), but
  what is known must be so at every point where it may stop. `flags` is a parameter so that the same lemmas prove
  `RuntimeRepairsSurvive`: take it to be the issues flagged now.
* *Refreshing.* Once a mirror holds GitHub's issues, one refresh makes it `Final`, a mirror that is written down without a
  fold: each issue's row is judged with every dependency done just when it is closed (`DoneIsClosed`), which stays so at every
  step of the refresh, whatever the order. `Final` depends on the mirror only through what a refresh keeps, so the next one
  changes nothing.

`MirrorAssumption` asks that issues be finitely many numbers and that payloads be what GitHub can send.

`ProductSeedingProofs` proves all six properties that `onboarding` checks. Its invariant `IInv` has `Types` (every row
is a row, every layer names known keys with values of their kind), `Exclusive` (one seed at most has rows that are not
committed, while there is no product and no transaction), `Loaded` (what a transaction has loaded is what there is,
unless something has overlapped), `Guarded` (blocking diagnostics keep a product from being resumed; once a contract
was read its state is what the diagnostics make of it), `SeedsPublish` (a seed that has published is on the branch or in
its pull request, and then its product waits with a diagnostic that no webhook and no mirror removes) and `Told` (what is
about to become the contract differs from the branch only where a delivery is under way). `ContractIsCurrent` alone
is not inductive: a refresh that commits needs `Loaded` and `Told`. `RefreshedFollows` is the lemma for the graph:
one refresh makes it follow, whatever graph it starts from. `CappedIs` does the same for caps: the result is a
configuration, and none of the lower layers forbids it, provided that its profile is supported, which no accepted contract
lacks. The bound `MaxChanges` is not used. Assumed of the constants: contents, defaults and overrides are layers of known
keys (`ConstantsAssumption`, `RequestsAssumption`); the code's schemas see to it.

`RunnerSessionProofs` proves `TypeOK`, `LogIsNumbered` and that the log only grows (`LogGrows`), from
`IInv`: the types and `Numbering`, which says that the numbers in the log are 1 to its length and that a transaction about to
write has one of these or the next, whichever others have committed since it asked. The bounds and the number
of workers are not used.

`LogAlwaysTells`, `CountsAlwaysLogged` and `ProjectionAlwaysAgrees` add the invariant `Telling`. For each worker
it says which event of the output is next (`Tells`): how far the log has it, which call is on its way, which events wait
to be posted, and that a call given up is not overtaken, since a worker posts no more output after one. Of the whole
it says that nothing is told before the first commit (`NotBegun`) and that a count loaded by a transaction is
that of the row (`Counted`) as long as only one worker has made events; with two, an old turn may be counted over a new one.
`OutputOf` and `Projection` are recursive functions; `UpTo` and `RecursionExists` do the induction they need, by
the least number at which a set of numbers has a gap, so that what is made of a line more, or of one more event,
follows (`OutputGrows`, `ProjectionGrows`).

`StandardsPacksProofs` proves `PullsAreWhole`, `UpgradeSettles` and `RowsFollowRuns`. The first needs what lies between
the evaluation and the pull request: what a transaction has evaluated agrees with the pack it loaded (`TxSound`), the
branch has the files written so far and those are a beginning of the run's changes (`BranchSound`), what a committed run
says is what its branch holds (`RunSound`), and every pull request named by a row is one of these (`RowsOffered`). The
third needs that a transaction which nothing has crossed still has the values it loaded (`Current`). `UpgradeSettles`
rests on a lemma about one expression, `_evaluate_asset` after `_refresh_managed_sections` (`RefreshedSettles`), which `TxSound` carries from the
evaluation to the branch and `RunSound` to the run. The bounds on runs and requests are not used.

`SchedulerTickProofs` proves `ClaimsAlwaysFit` and `OrderAlwaysByTurns`. Its invariant has the tick lock (`LockHeld`),
that claims belong to running ticks (`ClaimsAreTicks`), and that nobody holds what somebody else has claimed
(`Disjoint`), which is not a result: it is what the unique index in the guards of `Claim` and `StartOutside` says.

`ClaimsAlwaysFit` adds `Counting`: the lanes of a scope, committed or claimed, exceed what the running tick has counted by no
more than others have started since. It needs the lock, without which another tick's claims would
come between, and that claims and lanes are disjoint.

`OrderAlwaysByTurns` is about `_apply_product_fairness`: after n rounds those are listed whose turn is before n, and the
heads that are left are those whose turn it is (`HeadsHaveTheTurn`), since the turns of a product's candidates
are 0, 1, 2 and so on (`Turns`). Underneath are two lemmas about sorting: tuples of one length are strictly
ordered (`PrecedesOrders`), and in an ordered finite set every rank is taken once (`Ranks`), so that sorting lists
the set (`Sorts`). The recursion of the rounds is dealt with as in RunnerSession. `TickAssumption` says what this needs
of the constants: the work items are finitely many, candidates of a product never tie, nor do products. In the
code issue numbers may coincide in two repositories of a product; Python's sort is stable and leaves these in the query's
order, which `ItemNumber` then stands for. So does `ProductKey` for products of two organisations with one key, which are
left in the order of `product_id`.

Every invariant that a run checks, every property of steps (`[][A]_vars`) and the refinement of LaneOwnership is the
statement of a theorem. Model-checked only are the liveness properties (`EligibleWorkIsClaimed`, `OrphansCollected`,
`AbandonedLanesEnd`, `RetriesResolve`, `RequestsEnd`, `CodexStops`, `RoomIsUsed`), since fairness and ENABLED are beyond
the proof system, and what the two runs that expect a violation refute. The induction theorems of the library take an
operator, which the installed provers cannot instantiate; where a recursive function, or a fold over the orders of a
payload, had to be reasoned about (GitHubMirror, RunnerSession, SchedulerTick), `LeastNumber`, `UpTo` and
`RecursionExists` take their place: they speak of sets of numbers and of functions, which are values. Each of the
three modules has its own copy, in the form its recursion needs.

## 6. Not modelled, and the plan

Not modelled: serialisation, logging, formatting, provider commands, git, HTTP details, rendered files, read models,
registries of models and agents, roles, the user interface, deployment; PROJECT.json says why, part by part.
LaneOrchestration, GitHubMirror and Administration take transactions as serial (but for seeds, which Administration
splits); the other modules interleave them as a read-committed database does. What a cycle and the API can do to each
other in that way, beyond one session and the claims of a tick, is the subject of a planned module.

Plan, in this order:

1. LaneTransactions: a cycle against operator and runner transactions at read committed, for all rows of a
   lane (an approval beside the wait timeout, the violation count, a handshake beside the start-up timeout).
   Abstract specification: the serial LaneOrchestration, from which it may differ only where two transactions overlap.
2. The backoff of retries, the policy function of Governance and the walk of graph_context as operators, each
   against a reference definition, with their bounds proved.
3. Proofs: the promises of LaneTransactions, and the bounds of the operators in 2.
