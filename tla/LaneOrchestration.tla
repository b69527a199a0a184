--------------------------- MODULE LaneOrchestration ---------------------------
(***************************************************************************)
(* The lane life cycle of the Orcha control plane: how a work item is      *)
(* claimed, provisioned, run, paused, retried, recovered and released by   *)
(* the orchestration loop, the runner API, the operator API and the        *)
(* start-up and shutdown hooks, which share the lane tables.               *)
(*                                                                         *)
(* A lane is keyed by its work item and attempt number, the unique         *)
(* constraint of the lane table.  Every action is one database             *)
(* transaction, except that the transaction of an orchestration cycle is   *)
(* laid out in its steps, during which no other transaction runs           *)
(* (phase # "idle"); a cycle that fails rolls back and is a stuttering     *)
(* step.  Clocks are abstracted to the set of timers that have run out.    *)
(***************************************************************************)
EXTENDS Integers, FiniteSets

CONSTANTS
  Products,      \* the products
  WorkItems,     \* the mirrored issues
  ProductOf,     \* the product whose repository holds a work item
  AttemptBound,  \* bound of the model: lanes a work item can ever have
  MaxAttempts,   \* RetryPolicy.max_attempts
  Cap,           \* the platform's max_active_lanes
  MaxClaims,     \* orchestration_max_claims_per_tick
  Threshold,     \* RetryPolicy.contract_violation_quarantine_threshold
  Provider,      \* the runtime provider
  MaxRestarts    \* bound of the model: times the API goes down

Attempts == 1 .. AttemptBound
Lanes == WorkItems \X Attempts

ASSUME ConstantsAssumption ==
  /\ ProductOf \in [WorkItems -> Products]
  /\ AttemptBound \in Nat /\ MaxAttempts \in Nat
  /\ Cap \in Nat /\ MaxClaims \in Nat /\ MaxRestarts \in Nat
  /\ Threshold \in Nat \ {0}
  /\ Provider \in {"aks", "docker"}

VARIABLES
  laneState,   \* OrchestrationLane.state, "none" before the row exists
  env,         \* the lane's ExecutionEnvironment and what became of it
  sess,        \* AgentSession.status, "none" before the row exists
  bound,       \* a handshake has set AgentSession.runner_session_id
  timers,      \* the deadlines of the lane that have passed
  ready,       \* the mirrored facts about a work item allow dispatch
  repair,      \* a runtime repair reason is flagged on the work item
  product,     \* Product.status
  blocked,     \* Product.setup_state = "setup-needed"
  diagnosed,   \* Product.setup_diagnostics has a blocking one
  violations,  \* contract violations counted for the product
  phase,       \* the step of the orchestration cycle, "idle" between cycles
  booting,     \* this pass is the recovery at start-up
  todo,        \* lanes the reconciliation has still to look at
  claims,      \* lanes this tick has claimed
  restarts,    \* times the API went down
  \* What happened, for the properties:
  barred       \* products quarantined, no contract of theirs accepted since

laneVars == <<laneState, env, sess, bound, timers>>
itemVars == <<ready, repair>>
productVars == <<product, blocked, diagnosed, violations, barred>>
loopVars == <<phase, booting, todo, claims, restarts>>
vars == <<laneVars, itemVars, productVars, loopVars>>

-----------------------------------------------------------------------------
(* States and what they mean *)

\* "Queued" is not here: a row is queued and claimed in one transaction.
ActiveStates == {"Claimed", "Provisioning", "Running", "AwaitingApproval",
                 "AwaitingGitHub", "RetryPending"}
TerminalStates == {"HandedOff", "Cancelled", "FailedTerminal"}
LaneStates == {"none"} \cup ActiveStates \cup TerminalStates

\* "lost": the provider no longer has it; "drifted": its manifest or secret
\* fingerprint no longer matches.  The row of both still says Ready.
ActiveEnvs == {"ready", "lost", "drifted"}
EnvStates == {"none", "terminated", "quarantined"} \cup ActiveEnvs

WaitingSessions == {"awaiting_approval", "awaiting_human_input"}
LiveSessions == {"launching", "running"} \cup WaitingSessions
ClosedSessions == {"completed", "failed"}
SessionStates == {"none"} \cup LiveSessions \cup ClosedSessions

\* heartbeat: startup or heartbeat timeout; wait: approval wait timeout;
\* stale: stale_heartbeat_after_seconds; retry: retry_due_at.
Timers == {"heartbeat", "wait", "stale", "retry"}
MonitoredStates == {"Running", "AwaitingApproval", "AwaitingGitHub"}
ProductStates == {"Active", "Paused", "Draft", "Quarantined"}
Phases == {"down", "idle", "reconcile", "resume", "tick", "prepare",
           "timeouts", "cleanup"}

\* Every variable has its type; a tick never claims more than it may, and the
\* quarantine comes no later than its threshold.
TypeOK ==
  /\ laneState \in [Lanes -> LaneStates]
  /\ env \in [Lanes -> EnvStates]
  /\ sess \in [Lanes -> SessionStates]
  /\ bound \in [Lanes -> BOOLEAN]
  /\ timers \in [Lanes -> SUBSET Timers]
  /\ ready \in [WorkItems -> BOOLEAN]
  /\ repair \in [WorkItems -> BOOLEAN]
  /\ product \in [Products -> ProductStates]
  /\ blocked \in [Products -> BOOLEAN]
  /\ diagnosed \in [Products -> BOOLEAN]
  /\ barred \subseteq Products
  /\ violations \in [Products -> 0 .. Threshold]
  /\ phase \in Phases
  /\ booting \in BOOLEAN
  /\ todo \in SUBSET Lanes
  /\ claims \in 0 .. MaxClaims
  /\ restarts \in 0 .. MaxRestarts

Active(l) == laneState[l] \in ActiveStates
Terminal(l) == laneState[l] \in TerminalStates
HasActiveEnv(l) == env[l] \in ActiveEnvs

\* SchedulerService._is_dispatch_eligible
Eligible(w) ==
  /\ product[ProductOf[w]] = "Active"
  /\ ~blocked[ProductOf[w]]
  /\ ready[w]
  /\ ~repair[w]

HasActiveLane(w) == \E a \in Attempts : Active(<<w, a>>)

\* A mutant: the index forgets the lanes that wait for a retry.
NoOtherActiveLaneButRetries(l) ==
  \A a \in Attempts : a # l[2] =>
    laneState[<<l[1], a>>] \notin ActiveStates \ {"RetryPending"}

\* What the partial unique index admits besides lane l.
NoOtherActiveLane(l) ==
  \A a \in Attempts : a # l[2] => ~Active(<<l[1], a>>)

\* The highest attempt so far plus one.
NextAttempt(w, a) ==
  {b \in Attempts : laneState[<<w, b>>] # "none"} = 1 .. (a - 1)

ActiveCount == Cardinality({l \in Lanes : Active(l)})

\* RuntimeProvider.can_reuse: the directories are there and, with Docker, the
\* container runs.  Quarantine keeps the directories and stops the container.
CanReuse(l) ==
  \/ env[l] \in {"ready", "drifted"}
  \/ env[l] = "quarantined" /\ Provider = "aks"

ContinuationIsSafe(l) == env[l] = "ready"

HeartbeatIsStale(l) == laneState[l] \in MonitoredStates /\ "stale" \in timers[l]

\* A product is active, or in draft as a seed has left it that failed before a
\* contract was read: set up is needed, and no diagnostic says why.
Init ==
  /\ laneState = [l \in Lanes |-> "none"]
  /\ env = [l \in Lanes |-> "none"]
  /\ sess = [l \in Lanes |-> "none"]
  /\ bound = [l \in Lanes |-> FALSE]
  /\ timers = [l \in Lanes |-> {}]
  /\ ready = [w \in WorkItems |-> TRUE]
  /\ repair = [w \in WorkItems |-> FALSE]
  /\ product \in [Products -> {"Active", "Draft"}]
  /\ blocked = [p \in Products |-> product[p] = "Draft"]
  /\ diagnosed = [p \in Products |-> FALSE]
  /\ barred = {}
  /\ violations = [p \in Products |-> 0]
  /\ phase = "down"
  /\ booting = FALSE
  /\ todo = {}
  /\ claims = 0
  /\ restarts = 0

-----------------------------------------------------------------------------
(* What the handlers share *)

\* LaneRecoveryService._cancel_lane and _close_retry_attempt: neither touches
\* the agent session.
Cancelled(l) ==
  /\ laneState' = [laneState EXCEPT ![l] = "Cancelled"]
  /\ env' = [env EXCEPT ![l] = IF HasActiveEnv(l) THEN "terminated" ELSE @]
  /\ timers' = [timers EXCEPT ![l] = {}]
  /\ UNCHANGED <<sess, bound>>

Retryable(l) == l[2] < MaxAttempts

\* handle_lane_failure for a retryable kind of failure: neither the
\* environment nor the session changes.
LaneFailed(l) ==
  /\ laneState' = [laneState EXCEPT ![l] =
                     IF Retryable(l) THEN "RetryPending" ELSE "FailedTerminal"]
  /\ timers' = [timers EXCEPT ![l] =
                     IF Retryable(l) THEN @ \ {"retry"} ELSE {}]
  /\ UNCHANGED <<env, sess, bound>>

\* RunnerProtocolService._append_event: session and lane move together.  The
\* commit fails when the lane would become a second active one.
EventAppended(l, status, state) ==
  /\ state \in ActiveStates => NoOtherActiveLane(l)
  /\ sess' = [sess EXCEPT ![l] = status]
  /\ laneState' = [laneState EXCEPT ![l] = state]
  /\ timers' = [timers EXCEPT ![l] = {}]
  /\ UNCHANGED env

\* Lane <<w, a>> is inserted as Queued and moved to Claimed in one savepoint.
LaneInserted(w, a, states) ==
  laneState' = [states EXCEPT ![<<w, a>>] = "Claimed"]

-----------------------------------------------------------------------------
(* The orchestration cycle, and recovery at start-up *)

Reconcilable(l) == Active(l) /\ laneState[l] # "RetryPending"

\* run_cycle's first step; no other transaction is seen until it ends.
StartCycle ==
  /\ phase = "idle"
  /\ phase' = "reconcile"
  /\ todo' = {l \in Lanes : Reconcilable(l)}
  /\ UNCHANGED <<laneVars, itemVars, productVars, booting, claims, restarts>>

\* recover_startup_state, called by the lifespan hook before the loop starts.
Boot ==
  /\ phase = "down"
  /\ phase' = "reconcile"
  /\ booting' = TRUE
  /\ todo' = {l \in Lanes : Reconcilable(l)}
  /\ UNCHANGED <<laneVars, itemVars, productVars, claims, restarts>>

Reconciling(l) ==
  /\ phase = "reconcile"
  /\ l \in todo
  /\ todo' = todo \ {l}
  /\ UNCHANGED <<itemVars, phase, booting, claims, restarts>>

ReconcileCancels(l) ==
  /\ Reconciling(l)
  /\ ~Eligible(l[1])
  /\ Cancelled(l)
  /\ UNCHANGED productVars

ReconcileFails(l) ==
  /\ Reconciling(l)
  /\ Eligible(l[1])
  /\ \/ ~CanReuse(l)
     \/ ContinuationIsSafe(l) /\ HeartbeatIsStale(l)
  /\ LaneFailed(l)
  /\ UNCHANGED productVars

Reached(p) == violations[p] + 1 >= Threshold

\* _quarantine_contract_violator and _record_contract_violation.  The count is
\* only ever compared with the threshold, where the model stops counting.
ReconcileQuarantines(l) ==
  LET p == ProductOf[l[1]]
  IN
  /\ Reconciling(l)
  /\ Eligible(l[1]) /\ CanReuse(l) /\ ~ContinuationIsSafe(l)
  /\ laneState' = [laneState EXCEPT ![l] = "FailedTerminal"]
  /\ env' = [env EXCEPT ![l] = IF HasActiveEnv(l) THEN "quarantined" ELSE @]
  /\ timers' = [timers EXCEPT ![l] = {}]
  /\ violations' = [violations EXCEPT ![p] = IF Reached(p) THEN Threshold ELSE @ + 1]
  /\ product' = [product EXCEPT ![p] = IF Reached(p) THEN "Quarantined" ELSE @]
  /\ blocked' = [blocked EXCEPT ![p] = @ \/ Reached(p)]
  /\ diagnosed' = [diagnosed EXCEPT ![p] = @ \/ Reached(p)]
  /\ barred' = barred \cup {q \in {p} : Reached(q)}
  /\ UNCHANGED <<sess, bound>>

\* The reattachment that ends the loop's body is not here: its condition is
\* never met (NothingToReattach).
ReconcileKeeps(l) ==
  /\ Reconciling(l)
  /\ Eligible(l[1]) /\ CanReuse(l) /\ ContinuationIsSafe(l) /\ ~HeartbeatIsStale(l)
  /\ UNCHANGED <<laneVars, productVars>>

ReconcileDone ==
  /\ phase = "reconcile" /\ todo = {}
  /\ phase' = "resume"
  /\ UNCHANGED <<laneVars, itemVars, productVars, booting, todo, claims, restarts>>

\* A mutant: a retry whose work item is not eligible is not due.
RetryIsDueAndWanted(l) ==
  laneState[l] = "RetryPending" /\ "retry" \in timers[l] /\ Eligible(l[1])

RetryIsDue(l) == laneState[l] = "RetryPending" /\ "retry" \in timers[l]

\* resume_due_retries: the attempt is closed, then its work item is claimed
\* again whatever the capacity.
ResumeCancels(l) ==
  /\ phase = "resume" /\ RetryIsDue(l)
  /\ ~Eligible(l[1])
  /\ Cancelled(l)
  /\ UNCHANGED <<itemVars, productVars, loopVars>>

\* A mutant: the attempt a retry replaces is left as it is.
ResumeReclaimsOnly(l, a) ==
  /\ phase = "resume" /\ RetryIsDue(l)
  /\ Eligible(l[1])
  /\ NextAttempt(l[1], a)
  /\ LaneInserted(l[1], a, laneState)
  /\ env' = [env EXCEPT ![l] = IF HasActiveEnv(l) THEN "terminated" ELSE @]
  /\ timers' = [timers EXCEPT ![l] = {}]
  /\ UNCHANGED <<sess, bound, itemVars, productVars, loopVars>>

ResumeReclaims(l, a) ==
  /\ phase = "resume" /\ RetryIsDue(l)
  /\ Eligible(l[1])
  /\ NextAttempt(l[1], a)
  /\ LaneInserted(l[1], a, [laneState EXCEPT ![l] = "Cancelled"])
  /\ env' = [env EXCEPT ![l] = IF HasActiveEnv(l) THEN "terminated" ELSE @]
  /\ timers' = [timers EXCEPT ![l] = {}]
  /\ UNCHANGED <<sess, bound, itemVars, productVars, loopVars>>

\* Lanes the bound leaves no attempt for stay RetryPending.
ResumeDone ==
  /\ phase = "resume"
  /\ \A l \in Lanes : RetryIsDue(l) =>
       Eligible(l[1]) /\ ~\E a \in Attempts : NextAttempt(l[1], a)
  /\ phase' = IF booting THEN "cleanup" ELSE "tick"
  /\ UNCHANGED <<laneVars, itemVars, productVars, booting, todo, claims, restarts>>

\* A mutant: one place is kept free.
ClaimableWithReserve(w) ==
  /\ Eligible(w) /\ ~HasActiveLane(w)
  /\ ActiveCount + 1 < Cap
  /\ claims < MaxClaims

Claimable(w) ==
  /\ Eligible(w) /\ ~HasActiveLane(w)
  /\ ActiveCount < Cap
  /\ claims < MaxClaims

\* run_eligibility_tick, one claim at a time; the order among candidates is
\* left open here.
TickClaims(w, a) ==
  /\ phase = "tick"
  /\ Claimable(w)
  /\ NextAttempt(w, a)
  /\ LaneInserted(w, a, laneState)
  /\ claims' = claims + 1
  /\ UNCHANGED <<env, sess, bound, timers, itemVars, productVars,
                 phase, booting, todo, restarts>>

TickDone ==
  /\ phase = "tick"
  /\ \A w \in WorkItems : ~(Claimable(w) /\ \E a \in Attempts : NextAttempt(w, a))
  /\ phase' = "prepare"
  /\ claims' = 0
  /\ UNCHANGED <<laneVars, itemVars, productVars, booting, todo, restarts>>

\* A mutant: the launch picks retries up as well.
PreparingRetries(l) ==
  /\ phase = "prepare"
  /\ laneState[l] \in {"Claimed", "RetryPending"}
  /\ UNCHANGED <<itemVars, productVars, loopVars>>

Preparing(l) ==
  /\ phase = "prepare"
  /\ laneState[l] = "Claimed"
  /\ UNCHANGED <<itemVars, productVars, loopVars>>

\* provision_claimed_lane and prepare_lane_session, in one savepoint.
PrepareProvisions(l) ==
  /\ Preparing(l)
  /\ laneState' = [laneState EXCEPT ![l] = "Provisioning"]
  /\ env' = [env EXCEPT ![l] = "ready"]
  /\ sess' = [sess EXCEPT ![l] = "launching"]
  /\ timers' = [timers EXCEPT ![l] = {}]
  /\ UNCHANGED bound

\* A provisioning, protocol or value error: the savepoint is rolled back and
\* _fail_lane_terminal finds neither environment nor session.
PrepareRefused(l) ==
  /\ Preparing(l)
  /\ laneState' = [laneState EXCEPT ![l] = "FailedTerminal"]
  /\ UNCHANGED <<env, sess, bound, timers>>

\* Any other exception is a transient failure.
PrepareBreaks(l) ==
  /\ Preparing(l)
  /\ LaneFailed(l)

PrepareDone ==
  /\ phase = "prepare"
  /\ \A l \in Lanes : laneState[l] # "Claimed"
  /\ phase' = "timeouts"
  /\ UNCHANGED <<laneVars, itemVars, productVars, booting, todo, claims, restarts>>

\* A mutant: a runner that never shows up is not missed.
RunnerSilentOnceRunning(l) == sess[l] = "running" /\ "heartbeat" \in timers[l]

RunnerSilent(l) == sess[l] \in {"launching", "running"} /\ "heartbeat" \in timers[l]
WaitExpired(l) == sess[l] \in WaitingSessions /\ "wait" \in timers[l]

\* evaluate_timeouts: no handshake, or no heartbeat.
TimeoutSilent(l) ==
  /\ phase = "timeouts" /\ Active(l) /\ RunnerSilent(l)
  /\ EventAppended(l, "failed", "FailedTerminal")
  /\ repair' = [repair EXCEPT ![l[1]] = TRUE]
  /\ UNCHANGED <<bound, ready, productVars, loopVars>>

\* evaluate_timeouts: nobody approved or answered.
TimeoutWait(l) ==
  /\ phase = "timeouts" /\ Active(l) /\ WaitExpired(l)
  /\ EventAppended(l, "failed", "FailedTerminal")
  /\ UNCHANGED <<bound, itemVars, productVars, loopVars>>

TimeoutsDone ==
  /\ phase = "timeouts"
  /\ \A l \in Lanes : Active(l) => ~RunnerSilent(l) /\ ~WaitExpired(l)
  /\ phase' = "cleanup"
  /\ UNCHANGED <<laneVars, itemVars, productVars, booting, todo, claims, restarts>>

\* A mutant: only cancelled lanes leave orphans.
OrphanedByCancel(l) == HasActiveEnv(l) /\ laneState[l] = "Cancelled"

Orphaned(l) == HasActiveEnv(l) /\ ~Active(l)

CleanupOrphan(l) ==
  /\ phase = "cleanup" /\ Orphaned(l)
  /\ env' = [env EXCEPT ![l] = "terminated"]
  /\ UNCHANGED <<laneState, sess, bound, timers, itemVars, productVars, loopVars>>

CleanupDone ==
  /\ phase = "cleanup"
  /\ \A l \in Lanes : ~Orphaned(l)
  /\ phase' = "idle"
  /\ booting' = FALSE
  /\ UNCHANGED <<laneVars, itemVars, productVars, todo, claims, restarts>>

\* cancel_active_lanes_for_shutdown, after the loop has stopped.
Shutdown ==
  LET stopped == {l \in Lanes : Active(l) /\ HasActiveEnv(l)} IN
  /\ phase = "idle" /\ restarts < MaxRestarts
  /\ laneState' = [l \in Lanes |-> IF l \in stopped THEN "Cancelled" ELSE laneState[l]]
  /\ env' = [l \in Lanes |-> IF l \in stopped THEN "terminated" ELSE env[l]]
  /\ sess' = [l \in Lanes |-> IF l \in stopped /\ sess[l] \in LiveSessions
                              THEN "failed" ELSE sess[l]]
  /\ timers' = [l \in Lanes |-> IF l \in stopped THEN {} ELSE timers[l]]
  /\ phase' = "down"
  /\ restarts' = restarts + 1
  /\ UNCHANGED <<bound, itemVars, productVars, booting, todo, claims>>

\* The process dies; a cycle under way is rolled back to where it began.
Crash ==
  /\ phase = "idle" /\ restarts < MaxRestarts
  /\ phase' = "down"
  /\ restarts' = restarts + 1
  /\ UNCHANGED <<laneVars, itemVars, productVars, booting, todo, claims>>

-----------------------------------------------------------------------------
(* The runner API *)

\* record_handshake by a runner with the environment's identity and every
\* required capability.  The lane's state is not looked at.
Handshake(l) ==
  /\ phase = "idle"
  /\ HasActiveEnv(l) /\ ~bound[l] /\ sess[l] = "launching"
  /\ EventAppended(l, "running", "Running")
  /\ bound' = [bound EXCEPT ![l] = TRUE]
  /\ UNCHANGED <<itemVars, productVars, loopVars>>

RunnerEvent(l) ==
  /\ phase = "idle"
  /\ UNCHANGED <<bound, itemVars, productVars, loopVars>>

\* A mutant: events are taken after the end.
SessionOpenAfterEnd(l) ==
  sess[l] \in {"running"} \cup WaitingSessions \cup ClosedSessions

SessionOpen(l) == sess[l] \in {"running"} \cup WaitingSessions

Progress(l) ==
  /\ RunnerEvent(l) /\ SessionOpen(l)
  /\ EventAppended(l, "running", "Running")

\* An approval request whose action the policy gates.
ApprovalRequested(l) ==
  /\ RunnerEvent(l) /\ SessionOpen(l)
  /\ EventAppended(l, "awaiting_approval", "AwaitingApproval")

\* An approval request under a high-trust policy is only recorded.
ApprovalNotNeeded(l) ==
  /\ RunnerEvent(l) /\ SessionOpen(l)
  /\ timers' = [timers EXCEPT ![l] = @ \cap {"retry"}]
  /\ UNCHANGED <<laneState, env, sess>>

HumanInputRequested(l) ==
  /\ RunnerEvent(l) /\ SessionOpen(l)
  /\ EventAppended(l, "awaiting_human_input", "AwaitingGitHub")

\* Terminal events are accepted from a session that is already closed too.
SessionCompleted(l) ==
  /\ RunnerEvent(l) /\ (SessionOpen(l) \/ sess[l] \in ClosedSessions)
  /\ EventAppended(l, "completed", "HandedOff")

\* session_failed, or an approval request for an action the policy blocks.
SessionFailed(l) ==
  /\ RunnerEvent(l) /\ (SessionOpen(l) \/ sess[l] \in ClosedSessions)
  /\ EventAppended(l, "failed", "FailedTerminal")

Heartbeat(l) ==
  /\ RunnerEvent(l) /\ HasActiveEnv(l) /\ sess[l] \notin {"none", "launching"}
  /\ timers' = [timers EXCEPT ![l] = @ \ {"heartbeat", "stale"}]
  /\ UNCHANGED <<laneState, env, sess>>

-----------------------------------------------------------------------------
(* The operator API *)

OperatorAction == phase = "idle" /\ UNCHANGED loopVars

\* retry_lane: neither eligibility nor capacity is looked at.
RetryLane(l, a) ==
  /\ OperatorAction
  /\ Terminal(l) /\ NoOtherActiveLane(l)
  /\ NextAttempt(l[1], a)
  /\ LaneInserted(l[1], a, laneState)
  /\ UNCHANGED <<env, sess, bound, timers, itemVars, productVars>>

CancelLane(l, disposition) ==
  /\ OperatorAction
  /\ Active(l)
  /\ laneState' = [laneState EXCEPT ![l] = "Cancelled"]
  /\ env' = [env EXCEPT ![l] = IF HasActiveEnv(l) THEN disposition ELSE @]
  /\ sess' = [sess EXCEPT ![l] = IF @ = "none" THEN @ ELSE "failed"]
  /\ timers' = [timers EXCEPT ![l] = {}]
  /\ UNCHANGED <<bound, itemVars, productVars>>

\* A mutant: the answer moves the lane and forgets the session.
AnsweredLaneOnly(l, state, status) ==
  /\ OperatorAction
  /\ laneState[l] = state /\ sess[l] = status
  /\ laneState' = [laneState EXCEPT ![l] = "Running"]
  /\ timers' = [timers EXCEPT ![l] = @ \ {"wait", "stale"}]
  /\ UNCHANGED <<env, sess, bound, itemVars, productVars>>

\* approve_lane and submit_human_input: _append_session_action moves
\* last_event_at and leaves heartbeat_at alone.
Answered(l, state, status) ==
  /\ OperatorAction
  /\ laneState[l] = state /\ sess[l] = status
  /\ laneState' = [laneState EXCEPT ![l] = "Running"]
  /\ sess' = [sess EXCEPT ![l] = "running"]
  /\ timers' = [timers EXCEPT ![l] = @ \ {"wait", "stale"}]
  /\ UNCHANGED <<env, bound, itemVars, productVars>>

ApproveLane(l) == Answered(l, "AwaitingApproval", "awaiting_approval")
SubmitHumanInput(l) == Answered(l, "AwaitingGitHub", "awaiting_human_input")

PauseProduct(p) ==
  /\ OperatorAction
  /\ product[p] # "Paused"
  /\ product' = [product EXCEPT ![p] = "Paused"]
  /\ UNCHANGED <<laneVars, itemVars, blocked, diagnosed, violations, barred>>

ResumeProduct(p) ==
  /\ OperatorAction
  /\ product[p] = "Paused" /\ ~blocked[p]
  /\ product' = [product EXCEPT ![p] = "Active"]
  /\ UNCHANGED <<laneVars, itemVars, blocked, diagnosed, violations, barred>>

\* refresh_product: the contract is read again (accepted or not, the accepted
\* configuration changed or not) and runtime repairs are cleared.
RefreshProduct(p, accepted, changed) ==
  /\ OperatorAction
  /\ blocked' = [blocked EXCEPT ![p] = ~accepted]
  /\ diagnosed' = [diagnosed EXCEPT ![p] = ~accepted]
  /\ barred' = IF accepted THEN barred \ {p} ELSE barred
  /\ product' = [product EXCEPT ![p] =
       IF @ = "Paused" THEN @ ELSE IF accepted THEN "Active" ELSE "Draft"]
  /\ repair' = [w \in WorkItems |-> repair[w] /\ ProductOf[w] # p]
  /\ env' = [l \in Lanes |->
       IF env[l] = "ready" /\ ProductOf[l[1]] = p /\ accepted /\ changed
       THEN "drifted" ELSE env[l]]
  /\ UNCHANGED <<laneState, sess, bound, timers, ready, violations>>

\* A mutant: only the diagnostics of this refresh are kept.
RefreshMirrorAfresh(p) ==
  /\ OperatorAction
  /\ repair' = [w \in WorkItems |-> repair[w] /\ ProductOf[w] # p]
  /\ blocked' = [blocked EXCEPT ![p] = FALSE]
  /\ diagnosed' = [diagnosed EXCEPT ![p] = FALSE]
  /\ UNCHANGED <<laneVars, ready, product, violations, barred>>

\* refresh_product_mirror: besides what ItemChanges stands for, the runtime
\* repairs of the product's work items are cleared, and the setup state follows
\* from all diagnostics, of which the mirror's own do not block
\* (_apply_product_mirror_diagnostics).
RefreshMirror(p) ==
  /\ OperatorAction
  /\ repair' = [w \in WorkItems |-> repair[w] /\ ProductOf[w] # p]
  /\ blocked' = [blocked EXCEPT ![p] = diagnosed[p]]
  /\ UNCHANGED <<laneVars, ready, product, diagnosed, violations, barred>>

-----------------------------------------------------------------------------
(* What happens around the control plane *)

\* A webhook or a repair changes what the mirror says about the issue.
ItemChanges(w) ==
  /\ phase = "idle"
  /\ ready' = [ready EXCEPT ![w] = ~@]
  /\ UNCHANGED <<laneVars, repair, productVars, loopVars>>

\* A lane's directories or container go away.
EnvironmentLost(l) ==
  /\ phase \in {"idle", "down"}
  /\ Active(l) /\ env[l] \in {"ready", "drifted"}
  /\ env' = [env EXCEPT ![l] = "lost"]
  /\ UNCHANGED <<laneState, sess, bound, timers, itemVars, productVars, loopVars>>

\* A deadline passes.  With the default settings a heartbeat is stale (1800 s)
\* after the heartbeat (300 s) and wait (900 s) timeouts have passed.  Only the
\* deadlines something looks at are followed.
Expires(l, t) ==
  CASE t = "heartbeat" -> sess[l] \in LiveSessions
    [] t = "wait" -> sess[l] \in WaitingSessions
    [] t = "stale" -> /\ laneState[l] \in MonitoredStates
                      /\ "heartbeat" \in timers[l]
                      /\ sess[l] \in WaitingSessions => "wait" \in timers[l]
    [] t = "retry" -> laneState[l] = "RetryPending"

TimePasses(l, t) ==
  /\ phase \in {"idle", "down"}
  /\ Active(l) /\ t \notin timers[l]
  /\ Expires(l, t)
  /\ timers' = [timers EXCEPT ![l] = @ \cup {t}]
  /\ UNCHANGED <<laneState, env, sess, bound, itemVars, productVars, loopVars>>

-----------------------------------------------------------------------------
(* The specification *)

Reconcile == \E l \in Lanes : \/ ReconcileCancels(l) \/ ReconcileFails(l)
                              \/ ReconcileQuarantines(l) \/ ReconcileKeeps(l)

Resume == \E l \in Lanes : \/ ResumeCancels(l)
                           \/ \E a \in Attempts : ResumeReclaims(l, a)

Tick == \E w \in WorkItems, a \in Attempts : TickClaims(w, a)

Prepare == \E l \in Lanes : \/ PrepareProvisions(l) \/ PrepareRefused(l)
                            \/ PrepareBreaks(l)

Timeouts == \E l \in Lanes : TimeoutSilent(l) \/ TimeoutWait(l)

Cleanup == \E l \in Lanes : CleanupOrphan(l)

PhaseDone == \/ ReconcileDone \/ ResumeDone \/ TickDone \/ PrepareDone
             \/ TimeoutsDone \/ CleanupDone

Loop == \/ StartCycle \/ Boot \/ Reconcile \/ Resume \/ Tick \/ Prepare
        \/ Timeouts \/ Cleanup \/ PhaseDone

Runner == \E l \in Lanes :
  \/ Handshake(l) \/ Progress(l) \/ ApprovalRequested(l) \/ ApprovalNotNeeded(l)
  \/ HumanInputRequested(l) \/ SessionCompleted(l) \/ SessionFailed(l)
  \/ Heartbeat(l)

Operator ==
  \/ \E l \in Lanes : \/ \E a \in Attempts : RetryLane(l, a)
                      \/ \E d \in {"terminated", "quarantined"} : CancelLane(l, d)
                      \/ ApproveLane(l) \/ SubmitHumanInput(l)
  \/ \E p \in Products : \/ PauseProduct(p) \/ ResumeProduct(p) \/ RefreshMirror(p)
                         \/ \E accepted, changed \in BOOLEAN :
                              RefreshProduct(p, accepted, changed)

World ==
  \/ \E w \in WorkItems : ItemChanges(w)
  \/ \E l \in Lanes : EnvironmentLost(l) \/ \E t \in Timers : TimePasses(l, t)
  \/ Shutdown \/ Crash

Next == Loop \/ Runner \/ Operator \/ World

Spec == Init /\ [][Next]_vars

\* The loop goes on and its cycles succeed in the end; a clock runs whatever
\* the loop does, so a deadline nobody lifts passes.  Runners, operators,
\* webhooks and failures owe nothing.
Fairness ==
  /\ WF_vars(Loop)
  /\ \A l \in Lanes, t \in {"heartbeat", "wait", "retry"} : SF_vars(TimePasses(l, t))

FairSpec == Spec /\ Fairness

-----------------------------------------------------------------------------
(* What always holds *)

\* A work item is owned by one lane at most, although the scheduler, the
\* retries, the operator and runners whose lane was taken away (_append_event
\* sets lane.state without asking) all make lanes active.
OneActiveLane ==
  \A w \in WorkItems : \A a, b \in Attempts :
    Active(<<w, a>>) /\ Active(<<w, b>>) => a = b

\* A lane that says it runs or waits has a session that says the same, whoever
\* wrote the two: the runner's events, the operator's answers, the recovery.
LaneSessionAgree == \A l \in Lanes :
  /\ laneState[l] = "Running" => sess[l] = "running"
  /\ laneState[l] = "AwaitingApproval" => sess[l] = "awaiting_approval"
  /\ laneState[l] = "AwaitingGitHub" => sess[l] = "awaiting_human_input"

\* Once its session is over a lane holds nothing: it is terminal, and handed
\* off exactly when the session completed.
ClosedSessionClosesLane == \A l \in Lanes :
  /\ sess[l] \in ClosedSessions => Terminal(l)
  /\ sess[l] = "completed" <=> laneState[l] = "HandedOff"

\* Environment and session come into being together, after the claim: the
\* savepoint of _prepare_pending_launches leaves no lane with one of them.
ProvisionedTogether == \A l \in Lanes :
  /\ env[l] = "none" <=> sess[l] = "none"
  /\ laneState[l] \in {"none", "Claimed"} => env[l] = "none"
  /\ laneState[l] = "Provisioning" => env[l] # "none"

\* No lane is claimed or provisioning under a runner, so the reattachment at
\* the end of reconcile_active_lanes never happens.
NothingToReattach == \A l \in Lanes :
  laneState[l] \in {"none", "Claimed", "Provisioning"} =>
    sess[l] \in {"none", "launching"} /\ ~bound[l]

\* "newly provisioned lanes remain Provisioning until handshake": a lane that
\* runs or waits for an answer has a runner that shook hands.
RunningMeansHandshake == \A l \in Lanes :
  laneState[l] \in MonitoredStates => bound[l]

\* The handshake divides the lanes: before it nothing of a runner is there to
\* reattach, and nothing runs or waits without it.
HandshakeDivides == NothingToReattach /\ RunningMeansHandshake

\* The rows of a lane fit at all times, though lane, session and environment are
\* written by different components in different transactions (_append_event,
\* the recovery, the operator's answers, _prepare_pending_launches).
LaneRowsFit ==
  LaneSessionAgree /\ ClosedSessionClosesLane /\ ProvisionedTogether /\ HandshakeDivides

\* A product quarantined for its violations is not active again before a contract
\* of it is accepted, although a pause takes the place of the quarantine in its
\* status, refreshes of the mirror decide its setup state again, refused
\* contracts replace its diagnostics, and operators resume what they paused
\* (_record_contract_violation, _apply_product_mirror_diagnostics,
\* refresh_product_contract, resume_product).
QuarantineHolds == \A p \in barred : product[p] # "Active"

-----------------------------------------------------------------------------
(* What no step does *)

\* A terminal lane becomes active again only under a session that was never
\* closed: a runner whose lane the recovery cancelled.
OnlyLiveSessionReopens ==
  [][\A l \in Lanes : Terminal(l) /\ Active(l)' => sess[l] \in LiveSessions]_vars

\* An environment that was terminated or quarantined is never used again,
\* though its lane may become active again.
EnvironmentsAreSingleUse ==
  [][\A l \in Lanes :
       env[l] \in {"terminated", "quarantined"} => env'[l] = env[l]]_vars

-----------------------------------------------------------------------------
(* What it implements *)

Ownership == INSTANCE LaneOwnership WITH
  used <- [w \in WorkItems |-> {a \in Attempts : laneState[<<w, a>>] # "none"}],
  held <- [w \in WorkItems |-> {a \in Attempts : Active(<<w, a>>)}]

\* Claims, retries, recovery, operators and runners together hand a work item
\* on as LaneOwnership says.
OwnershipHolds == Ownership!Spec

-----------------------------------------------------------------------------
(* What must happen *)

\* No work item stays dispatchable and unowned for ever while there is room and
\* the model has an attempt left for it.
EligibleWorkIsClaimed ==
  \A w \in WorkItems :
    <>[](Eligible(w) /\ ActiveCount < Cap) => <>(laneState[<<w, AttemptBound>>] # "none")

\* An environment whose lane is over is collected, unless the lane is taken
\* back first.
OrphansCollected ==
  \A l \in Lanes : HasActiveEnv(l) /\ Terminal(l) ~> ~(HasActiveEnv(l) /\ Terminal(l))

\* A lane put back for a retry does not wait for ever, so long as the model's
\* bound leaves the work item an attempt.
RetriesResolve ==
  \A w \in WorkItems : \A b \in 1 .. (AttemptBound - 1) :
    laneState[<<w, b>>] = "RetryPending" ~>
      \/ laneState[<<w, b>>] # "RetryPending"
      \/ laneState[<<w, AttemptBound>>] # "none"

\* A work item is not held by a lane nobody works on: when from some time on
\* no runner is heard of and no operator acts, every lane ends or is put back
\* for a retry.
AbandonedLanesEnd ==
  <>[][~Runner /\ ~Operator]_vars =>
    \A l \in Lanes : Active(l) ~> ~Active(l) \/ laneState[l] = "RetryPending"
=============================================================================
