------------------------ MODULE LaneOrchestrationProofs ------------------------
(***************************************************************************)
(* Proofs about LaneOrchestration, for any products, work items, limits    *)
(* and bounds.  IInv is the inductive invariant: the safety invariants the *)
(* runs check and the two facts they rest on.                              *)
(***************************************************************************)
EXTENDS LaneOrchestration, TLAPS

\* A session that has left the handshake behind has a runner.
OpenSessionsBound == \A l \in Lanes : SessionOpen(l) => bound[l]

\* What the reconciliation has still to look at is as it found it.
TodoReconcilable ==
  /\ \A l \in todo : Reconcilable(l)
  /\ phase # "reconcile" => todo = {}

\* What holds of the rows of each lane.
RowsAgree ==
  /\ LaneSessionAgree
  /\ ClosedSessionClosesLane
  /\ ProvisionedTogether
  /\ NothingToReattach
  /\ OpenSessionsBound

\* What is active has nothing that blocks it; a blocking diagnostic keeps a
\* product set up anew, and a quarantine leaves one until a contract is accepted.
ProductsFit == \A p \in Products :
  /\ product[p] = "Active" => ~blocked[p]
  /\ diagnosed[p] => blocked[p]
  /\ p \in barred => diagnosed[p]

IInv ==
  /\ TypeOK
  /\ OneActiveLane
  /\ RowsAgree
  /\ ProductsFit
  /\ TodoReconcilable

-----------------------------------------------------------------------------
(* About lanes *)

\* A lane is its work item and its attempt.
LEMMA LaneParts ==
  /\ \A l \in Lanes : l[1] \in WorkItems /\ l[2] \in Attempts /\ l = <<l[1], l[2]>>
  /\ \A w \in WorkItems, a \in Attempts :
       <<w, a>> \in Lanes /\ <<w, a>>[1] = w /\ <<w, a>>[2] = a
BY DEF Lanes

\* The attempt numbered next has no lane yet.
LEMMA NextAttemptIsNew ==
  ASSUME NEW w \in WorkItems, NEW a \in Attempts, NextAttempt(w, a)
  PROVE  laneState[<<w, a>>] = "none"
BY DEF NextAttempt, Attempts

\* At start every invariant holds.
LEMMA InitIInv == Init => IInv
<1> SUFFICES ASSUME Init PROVE IInv
  OBVIOUS
<1> USE ConstantsAssumption DEF Init
<1>1. TypeOK
  <2>1. /\ laneState \in [Lanes -> LaneStates]
        /\ env \in [Lanes -> EnvStates]
        /\ sess \in [Lanes -> SessionStates]
    BY DEF LaneStates, EnvStates, SessionStates
  <2>2. /\ bound \in [Lanes -> BOOLEAN]
        /\ timers \in [Lanes -> SUBSET Timers]
        /\ ready \in [WorkItems -> BOOLEAN]
        /\ repair \in [WorkItems -> BOOLEAN]
        /\ blocked \in [Products -> BOOLEAN]
        /\ diagnosed \in [Products -> BOOLEAN] /\ barred \subseteq Products
    OBVIOUS
  <2>3. /\ product \in [Products -> ProductStates]
        /\ violations \in [Products -> 0 .. Threshold]
    BY DEF ProductStates
  <2>4. phase \in Phases /\ booting \in BOOLEAN /\ todo \in SUBSET Lanes
    BY DEF Phases
  <2>5. claims \in 0 .. MaxClaims /\ restarts \in 0 .. MaxRestarts
    OBVIOUS
  <2> QED
    BY <2>1, <2>2, <2>3, <2>4, <2>5 DEF TypeOK
<1>2. OneActiveLane
  BY LaneParts DEF OneActiveLane, Active, ActiveStates
<1>3. RowsAgree
  BY DEF RowsAgree, LaneSessionAgree, ClosedSessionClosesLane, ClosedSessions,
         Terminal, ProvisionedTogether, NothingToReattach, OpenSessionsBound,
         SessionOpen, WaitingSessions
<1>4. ProductsFit
  BY DEF ProductsFit
<1>5. TodoReconcilable
  BY DEF TodoReconcilable
<1> QED
  BY <1>1, <1>2, <1>3, <1>4, <1>5 DEF IInv

-----------------------------------------------------------------------------
(* Types *)

\* The steps of the loop keep the types.
LEMMA LoopTypes == TypeOK /\ Loop => TypeOK'
<1> SUFFICES ASSUME TypeOK, Loop PROVE TypeOK'
  OBVIOUS
<1> USE ConstantsAssumption, LaneParts
    DEF TypeOK, laneVars, itemVars, productVars, loopVars, ActiveStates,
        TerminalStates, LaneStates, ActiveEnvs, EnvStates, WaitingSessions,
        LiveSessions, ClosedSessions, SessionStates, ProductStates, Phases
<1>1. CASE StartCycle
  BY <1>1 DEF StartCycle
<1>9. CASE Boot
  BY <1>9 DEF Boot
<1>2. CASE Reconcile
  <2>1. PICK l \in Lanes : \/ ReconcileCancels(l) \/ ReconcileFails(l)
                           \/ ReconcileQuarantines(l) \/ ReconcileKeeps(l)
    BY <1>2 DEF Reconcile
  <2>2. CASE ReconcileCancels(l)
    BY <2>2 DEF ReconcileCancels, Reconciling, Cancelled
  <2>3. CASE ReconcileFails(l)
    BY <2>3 DEF ReconcileFails, Reconciling, LaneFailed
  <2>4. CASE ReconcileQuarantines(l)
    BY <2>4 DEF Reached, ReconcileQuarantines, Reconciling
  <2>5. CASE ReconcileKeeps(l)
    BY <2>5 DEF ReconcileKeeps, Reconciling
  <2> QED
    BY <2>1, <2>2, <2>3, <2>4, <2>5
<1>3. CASE Resume
  <2>1. CASE \E l \in Lanes : ResumeCancels(l)
    BY <2>1 DEF ResumeCancels, Cancelled
  <2>2. CASE \E l \in Lanes, a \in Attempts : ResumeReclaims(l, a)
    <3>1. PICK l \in Lanes, a \in Attempts : ResumeReclaims(l, a)
      BY <2>2
    <3>2. laneState' \in [Lanes -> LaneStates]
      BY <3>1 DEF ResumeReclaims, LaneInserted
    <3>5. env' \in [Lanes -> EnvStates]
      BY <3>1 DEF ResumeReclaims
    <3>3. timers' \in [Lanes -> SUBSET Timers]
      BY <3>1 DEF ResumeReclaims
    <3>4. UNCHANGED <<sess, bound, itemVars, productVars, loopVars>>
      BY <3>1 DEF ResumeReclaims
    <3> QED
      BY <3>2, <3>3, <3>4, <3>5
  <2> QED
    BY <1>3, <2>1, <2>2 DEF Resume
<1>4. CASE Tick
  BY <1>4 DEF Tick, TickClaims, LaneInserted, Claimable
<1>5. CASE Prepare
  <2>1. PICK l \in Lanes : PrepareProvisions(l) \/ PrepareRefused(l) \/ PrepareBreaks(l)
    BY <1>5 DEF Prepare
  <2>2. CASE PrepareProvisions(l)
    BY <2>2 DEF PrepareProvisions, Preparing
  <2>3. CASE PrepareRefused(l)
    BY <2>3 DEF PrepareRefused, Preparing
  <2>4. CASE PrepareBreaks(l)
    BY <2>4 DEF PrepareBreaks, Preparing, LaneFailed
  <2> QED
    BY <2>1, <2>2, <2>3, <2>4
<1>6. CASE Timeouts
  <2>1. PICK l \in Lanes : TimeoutSilent(l) \/ TimeoutWait(l)
    BY <1>6 DEF Timeouts
  <2>2. CASE TimeoutSilent(l)
    BY <2>2 DEF TimeoutSilent, EventAppended
  <2>3. CASE TimeoutWait(l)
    BY <2>3 DEF TimeoutWait, EventAppended
  <2> QED
    BY <2>1, <2>2, <2>3
<1>7. CASE Cleanup
  BY <1>7 DEF Cleanup, CleanupOrphan
<1>8. CASE PhaseDone
  <2>1. CASE ReconcileDone
    BY <2>1 DEF ReconcileDone
  <2>2. CASE ResumeDone
    BY <2>2 DEF ResumeDone
  <2>3. CASE TickDone
    BY <2>3 DEF TickDone
  <2>4. CASE PrepareDone
    BY <2>4 DEF PrepareDone
  <2>5. CASE TimeoutsDone
    BY <2>5 DEF TimeoutsDone
  <2>6. CASE CleanupDone
    BY <2>6 DEF CleanupDone
  <2> QED
    BY <1>8, <2>1, <2>2, <2>3, <2>4, <2>5, <2>6 DEF PhaseDone
<1> QED
  BY <1>1, <1>2, <1>3, <1>4, <1>5, <1>6, <1>7, <1>8, <1>9 DEF Loop

\* So do the runner API, the operator API and the world around them.
LEMMA OtherTypes == TypeOK /\ (Runner \/ Operator \/ World) => TypeOK'
<1> SUFFICES ASSUME TypeOK, Runner \/ Operator \/ World PROVE TypeOK'
  OBVIOUS
<1> USE ConstantsAssumption, LaneParts
    DEF TypeOK, laneVars, itemVars, productVars, loopVars, ActiveStates,
        TerminalStates, LaneStates, ActiveEnvs, EnvStates, WaitingSessions,
        LiveSessions, ClosedSessions, SessionStates, ProductStates, Phases
<1>1. CASE Runner
  <2>1. PICK l \in Lanes :
          \/ Handshake(l) \/ Progress(l) \/ ApprovalRequested(l)
          \/ ApprovalNotNeeded(l) \/ HumanInputRequested(l)
          \/ SessionCompleted(l) \/ SessionFailed(l) \/ Heartbeat(l)
    BY <1>1 DEF Runner
  <2>2. CASE Handshake(l)
    BY <2>2 DEF Handshake, EventAppended
  <2>3. CASE Progress(l)
    BY <2>3 DEF Progress, RunnerEvent, EventAppended
  <2>4. CASE ApprovalRequested(l)
    BY <2>4 DEF ApprovalRequested, RunnerEvent, EventAppended
  <2>5. CASE HumanInputRequested(l)
    BY <2>5 DEF HumanInputRequested, RunnerEvent, EventAppended
  <2>6. CASE SessionCompleted(l)
    BY <2>6 DEF SessionCompleted, RunnerEvent, EventAppended
  <2>7. CASE SessionFailed(l)
    BY <2>7 DEF SessionFailed, RunnerEvent, EventAppended
  <2>8. CASE ApprovalNotNeeded(l)
    BY <2>8 DEF ApprovalNotNeeded, RunnerEvent
  <2>9. CASE Heartbeat(l)
    BY <2>9 DEF Heartbeat, RunnerEvent
  <2> QED
    BY <2>1, <2>2, <2>3, <2>4, <2>5, <2>6, <2>7, <2>8, <2>9
<1>2. CASE Operator
  <2>1. CASE \E l \in Lanes, a \in Attempts : RetryLane(l, a)
    <3>1. PICK l \in Lanes, a \in Attempts : RetryLane(l, a)
      BY <2>1
    <3>2. laneState' \in [Lanes -> LaneStates]
      BY <3>1 DEF RetryLane, LaneInserted
    <3>3. UNCHANGED <<env, sess, bound, timers, itemVars, productVars, loopVars>>
      BY <3>1 DEF RetryLane, OperatorAction
    <3> QED
      BY <3>2, <3>3
  <2>2. CASE \E l \in Lanes, d \in {"terminated", "quarantined"} : CancelLane(l, d)
    BY <2>2 DEF CancelLane, OperatorAction
  <2>3. CASE \E l \in Lanes : ApproveLane(l)
    BY <2>3 DEF ApproveLane, Answered, OperatorAction
  <2>4. CASE \E l \in Lanes : SubmitHumanInput(l)
    BY <2>4 DEF SubmitHumanInput, Answered, OperatorAction
  <2>5. ASSUME NEW p \in Products,
               \/ PauseProduct(p) \/ ResumeProduct(p) \/ RefreshMirror(p)
               \/ \E accepted, changed \in BOOLEAN :
                    RefreshProduct(p, accepted, changed)
        PROVE  TypeOK'
    <3>1. CASE PauseProduct(p) \/ ResumeProduct(p)
      BY <3>1 DEF PauseProduct, ResumeProduct, OperatorAction
    <3>2. CASE RefreshMirror(p)
      BY <3>2 DEF RefreshMirror, OperatorAction
    <3>3. CASE \E accepted, changed \in BOOLEAN : RefreshProduct(p, accepted, changed)
      BY <3>3 DEF RefreshProduct, OperatorAction
    <3> QED
      BY <2>5, <3>1, <3>2, <3>3
  <2> QED
    BY <1>2, <2>1, <2>2, <2>3, <2>4, <2>5 DEF Operator
<1>3. CASE World
  <2>1. CASE \E w \in WorkItems : ItemChanges(w)
    BY <2>1 DEF ItemChanges
  <2>2. CASE \E l \in Lanes : EnvironmentLost(l)
    BY <2>2 DEF EnvironmentLost
  <2>3. CASE \E l \in Lanes, t \in Timers : TimePasses(l, t)
    BY <2>3 DEF TimePasses
  <2>4. CASE Shutdown
    BY <2>4 DEF Shutdown
  <2>5. CASE Crash
    BY <2>5 DEF Crash
  <2> QED
    BY <1>3, <2>1, <2>2, <2>3, <2>4, <2>5 DEF World
<1> QED
  BY <1>1, <1>2, <1>3

-----------------------------------------------------------------------------
(* One active lane *)

\* OneActiveLane, lane against lane.
LEMMA OneActivePairs ==
  OneActiveLane <=>
    \A k, l \in Lanes : Active(k) /\ Active(l) /\ k[1] = l[1] => k = l
<1>1. ASSUME OneActiveLane, NEW k \in Lanes, NEW l \in Lanes,
             Active(k), Active(l), k[1] = l[1]
      PROVE  k = l
  BY <1>1, LaneParts DEF OneActiveLane
<1>2. ASSUME \A k, l \in Lanes : Active(k) /\ Active(l) /\ k[1] = l[1] => k = l,
             NEW w \in WorkItems, NEW a \in Attempts, NEW b \in Attempts,
             Active(<<w, a>>), Active(<<w, b>>)
      PROVE  a = b
  BY <1>2, LaneParts
<1> QED
  BY <1>1, <1>2 DEF OneActiveLane

\* A step that makes no lane active keeps it.
LEMMA NoneActivated ==
  ASSUME OneActiveLane, \A l \in Lanes : Active(l)' => Active(l)
  PROVE  OneActiveLane'
BY LaneParts DEF OneActiveLane

\* A step that moves one lane keeps it, when the lane was active before, does
\* not become active, or is let in by the unique index.
LEMMA OneMoves ==
  ASSUME TypeOK, OneActiveLane, NEW l \in Lanes, NEW s,
         laneState' = [laneState EXCEPT ![l] = s],
         s \in ActiveStates => Active(l) \/ NoOtherActiveLane(l)
  PROVE  OneActiveLane'
<1> SUFFICES ASSUME NEW w \in WorkItems, NEW a \in Attempts, NEW b \in Attempts,
                    Active(<<w, a>>)', Active(<<w, b>>)'
             PROVE  a = b
  BY DEF OneActiveLane
<1>1. \A k \in Lanes : k # l => (Active(k)' <=> Active(k))
  BY DEF TypeOK, Active
<1>2. Active(l)' <=> s \in ActiveStates
  BY DEF TypeOK, Active
<1>3. CASE <<w, a>> # l /\ <<w, b>> # l
  BY <1>1, <1>3, LaneParts DEF OneActiveLane
<1>4. CASE <<w, a>> = l
  BY <1>1, <1>2, <1>4, LaneParts DEF OneActiveLane, NoOtherActiveLane
<1>5. CASE <<w, b>> = l
  BY <1>1, <1>2, <1>5, LaneParts DEF OneActiveLane, NoOtherActiveLane
<1> QED
  BY <1>3, <1>4, <1>5

-----------------------------------------------------------------------------
(* How the states of lanes move *)

\* A new attempt starts at a work item nobody owns.
LaneClaimed(w, a) ==
  /\ NextAttempt(w, a)
  /\ NoOtherActiveLane(<<w, a>>)
  /\ laneState' = [laneState EXCEPT ![<<w, a>>] = "Claimed"]

\* A new attempt takes the place of an active one.
LaneReplaced(l, a) ==
  /\ Active(l)
  /\ NextAttempt(l[1], a)
  /\ laneState' = [[laneState EXCEPT ![l] = "Cancelled"]
                     EXCEPT ![<<l[1], a>>] = "Claimed"]

\* A lane moves; to become active it needs a live session and the index.
LaneMoved(l, s) ==
  /\ laneState[l] # "none" /\ s # "none"
  /\ s \in ActiveStates =>
       Active(l) \/ (NoOtherActiveLane(l) /\ sess[l] \in LiveSessions)
  /\ laneState' = [laneState EXCEPT ![l] = s]

\* No lane moves, or active lanes are cancelled.
LanesCancelled ==
  \A l \in Lanes : laneState'[l] = laneState[l]
                     \/ (Active(l) /\ laneState'[l] = "Cancelled")

LaneStep ==
  \/ \E w \in WorkItems, a \in Attempts : LaneClaimed(w, a)
  \/ \E l \in Lanes, a \in Attempts : LaneReplaced(l, a)
  \/ \E l \in Lanes, s \in LaneStates : LaneMoved(l, s)
  \/ LanesCancelled

LEMMA LoopLaneSteps == IInv /\ Loop => LaneStep
<1> SUFFICES ASSUME IInv, Loop PROVE LaneStep
  OBVIOUS
<1> USE DEF IInv, laneVars, loopVars, LaneStates, ActiveStates, TerminalStates
<1>1. CASE StartCycle \/ Boot \/ PhaseDone \/ Cleanup
  BY <1>1 DEF StartCycle, Boot, PhaseDone, ReconcileDone, ResumeDone, TickDone,
              PrepareDone, TimeoutsDone, CleanupDone, Cleanup, CleanupOrphan,
              LaneStep, LanesCancelled
<1>2. CASE Reconcile
  <2>1. PICK l \in Lanes : \/ ReconcileCancels(l) \/ ReconcileFails(l)
                           \/ ReconcileQuarantines(l) \/ ReconcileKeeps(l)
    BY <1>2 DEF Reconcile
  <2>2. Active(l) /\ laneState[l] # "none"
    BY <2>1 DEF TodoReconcilable, Reconcilable, Reconciling, ReconcileCancels,
                ReconcileFails, ReconcileQuarantines, ReconcileKeeps, Active
  <2>3. \/ LanesCancelled
        \/ \E s \in LaneStates : s # "none" /\ laneState' = [laneState EXCEPT ![l] = s]
    BY <2>1 DEF ReconcileCancels, Cancelled, ReconcileFails, LaneFailed,
                ReconcileQuarantines, ReconcileKeeps, LanesCancelled
  <2> QED
    BY <2>2, <2>3 DEF LaneStep, LaneMoved
<1>3. CASE Resume
  <2>1. CASE \E l \in Lanes : ResumeCancels(l)
    BY <2>1 DEF ResumeCancels, RetryIsDue, Cancelled, Active, LaneStep, LaneMoved
  <2>2. CASE \E l \in Lanes, a \in Attempts : ResumeReclaims(l, a)
    BY <2>2 DEF ResumeReclaims, RetryIsDue, LaneInserted, Active, LaneStep, LaneReplaced
  <2> QED
    BY <1>3, <2>1, <2>2 DEF Resume
<1>4. CASE Tick
  <2>1. PICK w \in WorkItems, a \in Attempts : TickClaims(w, a)
    BY <1>4 DEF Tick
  <2>2. LaneClaimed(w, a)
    BY <2>1, LaneParts DEF TickClaims, LaneInserted, Claimable, HasActiveLane,
                           NoOtherActiveLane, LaneClaimed
  <2> QED
    BY <2>2 DEF LaneStep
<1>5. CASE Prepare
  BY <1>5 DEF Prepare, PrepareProvisions, PrepareRefused, PrepareBreaks, Preparing,
              LaneFailed, Active, LaneStep, LaneMoved
<1>6. CASE Timeouts
  BY <1>6 DEF Timeouts, TimeoutSilent, TimeoutWait, EventAppended, Active,
              LaneStep, LaneMoved
<1> QED
  BY <1>1, <1>2, <1>3, <1>4, <1>5, <1>6 DEF Loop

LEMMA OtherLaneSteps == IInv /\ (Runner \/ Operator \/ World) => LaneStep
<1> SUFFICES ASSUME IInv, Runner \/ Operator \/ World PROVE LaneStep
  OBVIOUS
<1> USE DEF IInv, laneVars, LaneStates, ActiveStates, TerminalStates
<1>1. CASE Runner
  <2>1. PICK l \in Lanes :
          \/ Handshake(l) \/ Progress(l) \/ ApprovalRequested(l)
          \/ ApprovalNotNeeded(l) \/ HumanInputRequested(l)
          \/ SessionCompleted(l) \/ SessionFailed(l) \/ Heartbeat(l)
    BY <1>1 DEF Runner
  <2>2. CASE ApprovalNotNeeded(l) \/ Heartbeat(l)
    BY <2>2 DEF ApprovalNotNeeded, Heartbeat, LaneStep, LanesCancelled
  <2>3. sess[l] # "none" => laneState[l] # "none"
    BY DEF RowsAgree, ProvisionedTogether
  <2>4. CASE Handshake(l) \/ Progress(l) \/ ApprovalRequested(l) \/ HumanInputRequested(l)
    <3>1. sess[l] \in LiveSessions /\ laneState[l] # "none"
      BY <2>3, <2>4 DEF Handshake, Progress, ApprovalRequested,
                        HumanInputRequested, SessionOpen, LiveSessions,
                        WaitingSessions
    <3> QED
      BY <2>4, <3>1 DEF Handshake, Progress, ApprovalRequested,
                        HumanInputRequested, EventAppended, LaneStep, LaneMoved
  <2>5. CASE SessionCompleted(l) \/ SessionFailed(l)
    <3>1. laneState[l] # "none"
      BY <2>3, <2>5 DEF SessionCompleted, SessionFailed, SessionOpen,
                        WaitingSessions, ClosedSessions
    <3> QED
      BY <2>5, <3>1 DEF SessionCompleted, SessionFailed, EventAppended, LaneStep,
                        LaneMoved
  <2> QED
    BY <2>1, <2>2, <2>4, <2>5
<1>2. CASE Operator
  <2>1. CASE \E l \in Lanes, a \in Attempts : RetryLane(l, a)
    <3>1. PICK l \in Lanes, a \in Attempts : RetryLane(l, a)
      BY <2>1
    <3>2. NoOtherActiveLane(l) /\ ~Active(l)
      BY <3>1 DEF RetryLane, Terminal, Active
    <3>3. LaneClaimed(l[1], a)
      BY <3>1, <3>2, LaneParts DEF RetryLane, LaneInserted, LaneClaimed,
                                   NoOtherActiveLane
    <3> QED
      BY <3>3, LaneParts DEF LaneStep
  <2>2. CASE \E l \in Lanes, d \in {"terminated", "quarantined"} : CancelLane(l, d)
    BY <2>2 DEF CancelLane, Active, LaneStep, LaneMoved
  <2>3. CASE \E l \in Lanes : ApproveLane(l) \/ SubmitHumanInput(l)
    BY <2>3 DEF ApproveLane, SubmitHumanInput, Answered, Active, LaneStep, LaneMoved
  <2>4. CASE \E p \in Products :
               \/ PauseProduct(p) \/ ResumeProduct(p) \/ RefreshMirror(p)
               \/ \E accepted, changed \in BOOLEAN :
                    RefreshProduct(p, accepted, changed)
    BY <2>4 DEF PauseProduct, ResumeProduct, RefreshMirror, RefreshProduct, LaneStep, LanesCancelled
  <2> QED
    BY <1>2, <2>1, <2>2, <2>3, <2>4 DEF Operator
<1>3. CASE World
  BY <1>3 DEF World, ItemChanges, EnvironmentLost, TimePasses, Shutdown, Crash,
              LaneStep, LanesCancelled
<1> QED
  BY <1>1, <1>2, <1>3

LEMMA NextLaneSteps == IInv /\ Next => LaneStep
BY LoopLaneSteps, OtherLaneSteps DEF Next

\* None of these ways makes a second lane of a work item active.
LEMMA LaneStepKeepsOneActive ==
  ASSUME TypeOK, OneActiveLane, LaneStep PROVE OneActiveLane'
<1>1. CASE \E w \in WorkItems, a \in Attempts : LaneClaimed(w, a)
  <2>1. PICK w \in WorkItems, a \in Attempts : LaneClaimed(w, a)
    BY <1>1
  <2> QED
    BY <2>1, OneMoves, LaneParts DEF LaneClaimed
<1>2. CASE \E l \in Lanes, a \in Attempts : LaneReplaced(l, a)
  <2>1. PICK l \in Lanes, a \in Attempts : LaneReplaced(l, a)
    BY <1>2
  <2>2. \A k \in Lanes : Active(k)' /\ k # <<l[1], a>> => Active(k) /\ k # l
    BY <2>1, LaneParts DEF LaneReplaced, TypeOK, Active, ActiveStates
  <2>3. \A k \in Lanes : Active(k)' /\ k[1] = l[1] => k = <<l[1], a>>
    BY <2>1, <2>2, OneActivePairs DEF LaneReplaced
  <2> QED
    BY <2>2, <2>3, LaneParts DEF OneActiveLane
<1>3. CASE \E l \in Lanes, s \in LaneStates : LaneMoved(l, s)
  BY <1>3, OneMoves DEF LaneMoved
<1>4. CASE LanesCancelled
  <2>1. \A l \in Lanes : Active(l)' => Active(l)
    BY <1>4 DEF LanesCancelled, Active
  <2> QED
    BY <2>1, NoneActivated
<1> QED
  BY <1>1, <1>2, <1>3, <1>4 DEF LaneStep

-----------------------------------------------------------------------------
(* The rows of a lane agree *)

\* RowsAgree, for the rows of one lane.
Row(state, environment, session, handshake) ==
  /\ state = "Running" => session = "running"
  /\ state = "AwaitingApproval" => session = "awaiting_approval"
  /\ state = "AwaitingGitHub" => session = "awaiting_human_input"
  /\ session \in ClosedSessions => state \in TerminalStates
  /\ session = "completed" <=> state = "HandedOff"
  /\ environment = "none" <=> session = "none"
  /\ state \in {"none", "Claimed"} => environment = "none"
  /\ state = "Provisioning" => environment # "none"
  /\ state \in {"none", "Claimed", "Provisioning"} =>
       session \in {"none", "launching"} /\ ~handshake
  /\ session \in {"running"} \cup WaitingSessions => handshake

RowOf(l) == Row(laneState[l], env[l], sess[l], bound[l])

LEMMA RowByRow == RowsAgree <=> \A l \in Lanes : RowOf(l)
BY DEF RowsAgree, LaneSessionAgree, ClosedSessionClosesLane, Terminal,
       ProvisionedTogether, NothingToReattach, OpenSessionsBound, SessionOpen,
       RowOf, Row

\* A step that moves the rows of one lane only has to keep those in agreement.
LEMMA OneRowMoves ==
  ASSUME RowsAgree, NEW l \in Lanes,
         \A k \in Lanes : k # l => /\ laneState'[k] = laneState[k]
                                  /\ env'[k] = env[k]
                                  /\ sess'[k] = sess[k]
                                  /\ bound'[k] = bound[k],
         RowOf(l)'
  PROVE  RowsAgree'
<1>1. \A k \in Lanes : k # l => RowOf(k)'
  BY RowByRow DEF RowOf
<1>2. \A k \in Lanes : RowOf(k)'
  BY <1>1
<1> QED
  BY <1>2
     DEF RowsAgree, LaneSessionAgree, ClosedSessionClosesLane, Terminal,
         ProvisionedTogether, NothingToReattach, OpenSessionsBound, SessionOpen,
         RowOf, Row

\* Whatever the runner reports, the rows of its lane agree afterwards.
LEMMA EventKeepsRows ==
  ASSUME IInv, NEW l \in Lanes, NEW status, NEW state,
         EventAppended(l, status, state),
         sess[l] # "none",
         \A k \in Lanes : k # l => bound'[k] = bound[k],
         \/ status = "running" /\ state = "Running" /\ bound'[l]
         \/ status = "awaiting_approval" /\ state = "AwaitingApproval" /\ bound'[l]
         \/ status = "awaiting_human_input" /\ state = "AwaitingGitHub" /\ bound'[l]
         \/ status = "completed" /\ state = "HandedOff"
         \/ status = "failed" /\ state = "FailedTerminal"
  PROVE  RowsAgree'
<1> USE DEF IInv, TypeOK
<1>1. RowOf(l)
  BY RowByRow
<1>2. /\ laneState'[l] = state /\ sess'[l] = status /\ env'[l] = env[l]
      /\ \A k \in Lanes : k # l => /\ laneState'[k] = laneState[k]
                                   /\ env'[k] = env[k]
                                   /\ sess'[k] = sess[k]
                                   /\ bound'[k] = bound[k]
  BY DEF EventAppended
<1>3. RowOf(l)'
  BY <1>1, <1>2 DEF RowOf, Row, ClosedSessions, TerminalStates, WaitingSessions
<1> QED
  BY <1>2, <1>3, OneRowMoves

\* A step that leaves the lane's session and handshake alone and moves an
\* active lane, or one without a session, where it needs no session.
LEMMA LaneLeaves ==
  ASSUME IInv, NEW l \in Lanes, NEW s, NEW e, Active(l),
         s \in {"RetryPending", "Cancelled", "FailedTerminal"},
         laneState' = [laneState EXCEPT ![l] = s],
         env' = [env EXCEPT ![l] = e],
         e = "none" <=> env[l] = "none",
         UNCHANGED <<sess, bound>>
  PROVE  RowsAgree'
<1> USE DEF IInv, TypeOK
<1>1. RowOf(l)
  BY RowByRow
<1>2. laneState[l] # "HandedOff" /\ laneState[l] \notin TerminalStates
  BY DEF Active, ActiveStates, TerminalStates
<1>3. RowOf(l)'
  BY <1>1, <1>2 DEF RowOf, Row, ClosedSessions, TerminalStates, WaitingSessions
<1> QED
  BY <1>3, OneRowMoves

\* The loop leaves the rows of every lane in agreement.
LEMMA LoopKeepsRows == IInv /\ Loop => RowsAgree'
<1> SUFFICES ASSUME IInv, Loop PROVE RowsAgree'
  OBVIOUS
<1> USE DEF IInv, laneVars, loopVars, itemVars, productVars
<1>1. CASE StartCycle \/ Boot \/ PhaseDone
  <2>1. UNCHANGED laneVars
    BY <1>1 DEF StartCycle, Boot, PhaseDone, ReconcileDone, ResumeDone, TickDone,
                PrepareDone, TimeoutsDone, CleanupDone
  <2> QED
    BY <2>1 DEF RowsAgree, LaneSessionAgree, ClosedSessionClosesLane, Terminal,
                ProvisionedTogether, NothingToReattach, OpenSessionsBound,
                SessionOpen
<1>2. CASE Reconcile
  <2>1. PICK l \in Lanes : \/ ReconcileCancels(l) \/ ReconcileFails(l)
                           \/ ReconcileQuarantines(l) \/ ReconcileKeeps(l)
    BY <1>2 DEF Reconcile
  <2>2. Active(l)
    BY <2>1 DEF TodoReconcilable, Reconcilable, Reconciling, ReconcileCancels,
                ReconcileFails, ReconcileQuarantines, ReconcileKeeps
  <2>3. CASE ReconcileCancels(l)
    BY <2>2, <2>3, LaneLeaves DEF ReconcileCancels, Cancelled, HasActiveEnv, ActiveEnvs
  <2>4. CASE ReconcileFails(l)
    <3>1. env' = [env EXCEPT ![l] = env[l]]
      BY <2>4 DEF ReconcileFails, LaneFailed, TypeOK
    <3> QED
      BY <2>2, <2>4, <3>1, LaneLeaves DEF ReconcileFails, LaneFailed
  <2>5. CASE ReconcileQuarantines(l)
    BY <2>2, <2>5, LaneLeaves DEF Reached, ReconcileQuarantines, HasActiveEnv, ActiveEnvs
  <2>6. CASE ReconcileKeeps(l)
    BY <2>6 DEF ReconcileKeeps, RowsAgree, LaneSessionAgree, Terminal,
                ClosedSessionClosesLane, ProvisionedTogether, NothingToReattach,
                OpenSessionsBound, SessionOpen
  <2> QED
    BY <2>1, <2>3, <2>4, <2>5, <2>6
<1>3. CASE Resume
  <2>1. CASE \E l \in Lanes : ResumeCancels(l)
    <3>1. PICK l \in Lanes : ResumeCancels(l)
      BY <2>1
    <3>2. Active(l)
      BY <3>1 DEF ResumeCancels, RetryIsDue, Active, ActiveStates
    <3> QED
      BY <3>1, <3>2, LaneLeaves DEF ResumeCancels, Cancelled, HasActiveEnv, ActiveEnvs
  <2>2. CASE \E l \in Lanes, a \in Attempts : ResumeReclaims(l, a)
    <3>1. PICK l \in Lanes, a \in Attempts : ResumeReclaims(l, a)
      BY <2>2
    <3> DEFINE new == <<l[1], a>>
    <3>2. new \in Lanes /\ laneState[new] = "none" /\ laneState[l] = "RetryPending"
      BY <3>1, LaneParts, NextAttemptIsNew DEF ResumeReclaims, RetryIsDue
    <3>3. /\ laneState'[new] = "Claimed" /\ laneState'[l] = "Cancelled"
          /\ \A k \in Lanes : k # l /\ k # new => laneState'[k] = laneState[k]
          /\ \A k \in Lanes : k # l => env'[k] = env[k]
          /\ env'[l] = "none" <=> env[l] = "none"
          /\ UNCHANGED <<sess, bound>>
      BY <3>1, <3>2 DEF ResumeReclaims, LaneInserted, TypeOK, HasActiveEnv, ActiveEnvs
    <3>4. RowOf(l) /\ RowOf(new)
      BY <3>2, RowByRow
    <3>5. RowOf(l)' /\ RowOf(new)'
      BY <3>2, <3>3, <3>4 DEF RowOf, Row, TerminalStates, ClosedSessions, WaitingSessions
    <3>6. \A k \in Lanes : RowOf(k)'
      BY <3>3, <3>5, RowByRow DEF RowOf
    <3> QED
      BY <3>6
         DEF RowsAgree, LaneSessionAgree, ClosedSessionClosesLane, Terminal,
             ProvisionedTogether, NothingToReattach, OpenSessionsBound,
             SessionOpen, RowOf, Row
  <2> QED
    BY <1>3, <2>1, <2>2 DEF Resume
<1>4. CASE Tick
  <2>1. PICK w \in WorkItems, a \in Attempts : TickClaims(w, a)
    BY <1>4 DEF Tick
  <2>2. <<w, a>> \in Lanes /\ laneState[<<w, a>>] = "none" /\ RowOf(<<w, a>>)
    BY <2>1, LaneParts, NextAttemptIsNew, RowByRow DEF TickClaims
  <2>3. /\ laneState' = [laneState EXCEPT ![<<w, a>>] = "Claimed"]
        /\ UNCHANGED <<env, sess, bound>>
    BY <2>1 DEF TickClaims, LaneInserted
  <2>4. RowOf(<<w, a>>)'
    BY <2>2, <2>3 DEF RowOf, Row, TypeOK, ClosedSessions, TerminalStates, WaitingSessions
  <2> QED
    BY <2>2, <2>3, <2>4, OneRowMoves DEF TypeOK
<1>5. CASE Prepare
  <2>1. PICK l \in Lanes : PrepareProvisions(l) \/ PrepareRefused(l) \/ PrepareBreaks(l)
    BY <1>5 DEF Prepare
  <2>2. laneState[l] = "Claimed" /\ Active(l) /\ RowOf(l)
    BY <2>1, RowByRow DEF PrepareProvisions, PrepareRefused, PrepareBreaks,
                          Preparing, Active, ActiveStates
  <2>3. CASE PrepareProvisions(l)
    <3>1. RowOf(l)'
      BY <2>2, <2>3 DEF PrepareProvisions, TypeOK, RowOf, Row, ClosedSessions,
                        TerminalStates, WaitingSessions
    <3> QED
      BY <2>3, <3>1, OneRowMoves DEF PrepareProvisions, TypeOK
  <2>4. CASE PrepareRefused(l) \/ PrepareBreaks(l)
    <3>1. env' = [env EXCEPT ![l] = env[l]]
      BY <2>4 DEF PrepareRefused, PrepareBreaks, LaneFailed, TypeOK
    <3> QED
      BY <2>2, <2>4, <3>1, LaneLeaves DEF PrepareRefused, PrepareBreaks, LaneFailed
  <2> QED
    BY <2>1, <2>3, <2>4
<1>6. CASE Timeouts
  <2>1. PICK l \in Lanes : TimeoutSilent(l) \/ TimeoutWait(l)
    BY <1>6 DEF Timeouts
  <2>2. /\ EventAppended(l, "failed", "FailedTerminal") /\ sess[l] # "none"
        /\ UNCHANGED bound
    BY <2>1 DEF TimeoutSilent, TimeoutWait, RunnerSilent, WaitExpired, WaitingSessions
  <2> QED
    BY <2>2, EventKeepsRows
<1>7. CASE Cleanup
  <2>1. PICK l \in Lanes : CleanupOrphan(l)
    BY <1>7 DEF Cleanup
  <2>2. RowOf(l)'
    BY <2>1, RowByRow DEF CleanupOrphan, Orphaned, HasActiveEnv, ActiveEnvs,
                          TypeOK, RowOf, Row
  <2> QED
    BY <2>1, <2>2, OneRowMoves DEF CleanupOrphan, TypeOK
<1> QED
  BY <1>1, <1>2, <1>3, <1>4, <1>5, <1>6, <1>7 DEF Loop

\* So do runners.
LEMMA RunnerKeepsRows == IInv /\ Runner => RowsAgree'
<1> SUFFICES ASSUME IInv, NEW l \in Lanes,
                    \/ Handshake(l) \/ Progress(l) \/ ApprovalRequested(l)
                    \/ ApprovalNotNeeded(l) \/ HumanInputRequested(l)
                    \/ SessionCompleted(l) \/ SessionFailed(l) \/ Heartbeat(l)
             PROVE  RowsAgree'
  BY DEF Runner
<1> USE DEF IInv
<1>1. CASE Handshake(l)
  <2>1. /\ bound'[l] /\ \A k \in Lanes : k # l => bound'[k] = bound[k]
        /\ EventAppended(l, "running", "Running") /\ sess[l] # "none"
    BY <1>1 DEF Handshake, TypeOK
  <2> QED
    BY <2>1, EventKeepsRows
<1>2. CASE Progress(l) \/ ApprovalRequested(l) \/ HumanInputRequested(l)
  <2>1. SessionOpen(l) /\ UNCHANGED bound
    BY <1>2 DEF Progress, ApprovalRequested, HumanInputRequested, RunnerEvent
  <2>2. bound'[l] /\ sess[l] # "none"
    BY <2>1 DEF RowsAgree, OpenSessionsBound, SessionOpen, WaitingSessions
  <2>3. \/ EventAppended(l, "running", "Running")
        \/ EventAppended(l, "awaiting_approval", "AwaitingApproval")
        \/ EventAppended(l, "awaiting_human_input", "AwaitingGitHub")
    BY <1>2 DEF Progress, ApprovalRequested, HumanInputRequested
  <2> QED
    BY <2>1, <2>2, <2>3, EventKeepsRows
<1>3. CASE SessionCompleted(l) \/ SessionFailed(l)
  <2>1. sess[l] # "none" /\ UNCHANGED bound
    BY <1>3 DEF SessionCompleted, SessionFailed, SessionOpen, RunnerEvent,
                WaitingSessions, ClosedSessions
  <2>2. \/ EventAppended(l, "completed", "HandedOff")
        \/ EventAppended(l, "failed", "FailedTerminal")
    BY <1>3 DEF SessionCompleted, SessionFailed
  <2> QED
    BY <2>1, <2>2, EventKeepsRows
<1>4. CASE ApprovalNotNeeded(l) \/ Heartbeat(l)
  <2>1. UNCHANGED <<laneState, env, sess, bound>>
    BY <1>4 DEF ApprovalNotNeeded, Heartbeat, RunnerEvent
  <2> QED
    BY <2>1 DEF RowsAgree, LaneSessionAgree, ClosedSessionClosesLane, Terminal,
                ProvisionedTogether, NothingToReattach, OpenSessionsBound,
                SessionOpen
<1> QED
  BY <1>1, <1>2, <1>3, <1>4

\* So do operators.
LEMMA OperatorKeepsRows == IInv /\ Operator => RowsAgree'
<1> SUFFICES ASSUME IInv, Operator PROVE RowsAgree'
  OBVIOUS
<1> USE DEF IInv, TypeOK
<1>1. CASE \E l \in Lanes, a \in Attempts : RetryLane(l, a)
  <2>1. PICK l \in Lanes, a \in Attempts : RetryLane(l, a)
    BY <1>1
  <2> DEFINE new == <<l[1], a>>
  <2>2. new \in Lanes /\ laneState[new] = "none" /\ RowOf(new)
    BY <2>1, LaneParts, NextAttemptIsNew, RowByRow DEF RetryLane
  <2>3. /\ laneState' = [laneState EXCEPT ![new] = "Claimed"]
        /\ UNCHANGED <<env, sess, bound>>
    BY <2>1 DEF RetryLane, LaneInserted
  <2>4. RowOf(new)'
    BY <2>2, <2>3 DEF RowOf, Row, ClosedSessions, TerminalStates, WaitingSessions
  <2> QED
    BY <2>2, <2>3, <2>4, OneRowMoves
<1>2. CASE \E l \in Lanes, d \in {"terminated", "quarantined"} : CancelLane(l, d)
  <2>1. PICK l \in Lanes, d \in {"terminated", "quarantined"} : CancelLane(l, d)
    BY <1>2
  <2>2. RowOf(l)
    BY RowByRow
  <2>3. RowOf(l)'
    BY <2>1, <2>2 DEF CancelLane, Active, ActiveStates, HasActiveEnv, ActiveEnvs,
                      RowOf, Row, ClosedSessions, TerminalStates, WaitingSessions
  <2> QED
    BY <2>1, <2>3, OneRowMoves DEF CancelLane
<1>3. CASE \E l \in Lanes : ApproveLane(l) \/ SubmitHumanInput(l)
  <2>1. PICK l \in Lanes : ApproveLane(l) \/ SubmitHumanInput(l)
    BY <1>3
  <2>2. RowOf(l)
    BY RowByRow
  <2>3. RowOf(l)'
    BY <2>1, <2>2 DEF ApproveLane, SubmitHumanInput, Answered, RowOf, Row,
                      ClosedSessions, TerminalStates, WaitingSessions
  <2> QED
    BY <2>1, <2>3, OneRowMoves DEF ApproveLane, SubmitHumanInput, Answered
<1>4. CASE \E p \in Products : PauseProduct(p) \/ ResumeProduct(p) \/ RefreshMirror(p)
  BY <1>4 DEF PauseProduct, ResumeProduct, RefreshMirror, laneVars, RowsAgree, LaneSessionAgree,
              ClosedSessionClosesLane, Terminal, ProvisionedTogether,
              NothingToReattach, OpenSessionsBound, SessionOpen
<1>5. CASE \E p \in Products, accepted, changed \in BOOLEAN :
             RefreshProduct(p, accepted, changed)
  <2>1. /\ UNCHANGED <<laneState, sess, bound>>
        /\ \A k \in Lanes : env'[k] = "none" <=> env[k] = "none"
    BY <1>5 DEF RefreshProduct
  <2> QED
    BY <2>1 DEF RowsAgree, LaneSessionAgree, ClosedSessionClosesLane, Terminal,
                ProvisionedTogether, NothingToReattach, OpenSessionsBound,
                SessionOpen
<1> QED
  BY <1>1, <1>2, <1>3, <1>4, <1>5 DEF Operator

\* So do failures, time and restarts.
LEMMA WorldKeepsRows == IInv /\ World => RowsAgree'
<1> SUFFICES ASSUME IInv, World PROVE RowsAgree'
  OBVIOUS
<1> USE DEF IInv, TypeOK, laneVars
<1>1. CASE Shutdown
  <2>1. \A k \in Lanes :
          \/ /\ laneState'[k] = laneState[k] /\ env'[k] = env[k]
             /\ sess'[k] = sess[k] /\ bound'[k] = bound[k]
          \/ /\ Active(k) /\ HasActiveEnv(k)
             /\ laneState'[k] = "Cancelled" /\ env'[k] = "terminated"
             /\ sess'[k] = IF sess[k] \in LiveSessions THEN "failed" ELSE sess[k]
             /\ bound'[k] = bound[k]
    BY <1>1 DEF Shutdown
  <2>2. \A k \in Lanes : RowOf(k)'
    BY <2>1, RowByRow
       DEF RowOf, Row, Active, ActiveStates, HasActiveEnv, ActiveEnvs,
           ClosedSessions, TerminalStates, WaitingSessions, LiveSessions
  <2> QED
    BY <2>2
       DEF RowsAgree, LaneSessionAgree, ClosedSessionClosesLane, Terminal,
           ProvisionedTogether, NothingToReattach, OpenSessionsBound,
           SessionOpen, RowOf, Row
<1>2. CASE ~Shutdown
  <2>1. /\ UNCHANGED <<laneState, sess, bound>>
        /\ \A k \in Lanes : env'[k] = "none" <=> env[k] = "none"
    BY <1>2 DEF World, ItemChanges, EnvironmentLost, TimePasses, Crash
  <2> QED
    BY <2>1 DEF RowsAgree, LaneSessionAgree, ClosedSessionClosesLane, Terminal,
                ProvisionedTogether, NothingToReattach, OpenSessionsBound,
                SessionOpen
<1> QED
  BY <1>1, <1>2

-----------------------------------------------------------------------------
(* Products, and what the reconciliation has before it *)

LEMMA NextKeepsSetup == IInv /\ Next => ProductsFit'
<1> SUFFICES ASSUME IInv, Next PROVE ProductsFit'
  OBVIOUS
<1> USE DEF IInv, TypeOK, ProductsFit, productVars
<1>1. CASE \E l \in Lanes : ReconcileQuarantines(l)
  <2>1. PICK l \in Lanes : ReconcileQuarantines(l)
    BY <1>1
  <2>2. Eligible(l[1])
    BY <2>1 DEF Reached, ReconcileQuarantines
  <2>3. ProductOf[l[1]] \in Products
    BY LaneParts, ConstantsAssumption
  <2> QED
    BY <2>1, <2>2, <2>3 DEF Reached, ReconcileQuarantines, Eligible
<1>2. CASE \E p \in Products :
             \/ PauseProduct(p) \/ ResumeProduct(p) \/ RefreshMirror(p)
             \/ \E accepted, changed \in BOOLEAN : RefreshProduct(p, accepted, changed)
  <2>1. PICK p \in Products :
             \/ PauseProduct(p) \/ ResumeProduct(p) \/ RefreshMirror(p)
             \/ \E accepted, changed \in BOOLEAN : RefreshProduct(p, accepted, changed)
    BY <1>2
  <2>2. CASE PauseProduct(p)
    BY <2>2 DEF PauseProduct
  <2>3. CASE ResumeProduct(p)
    BY <2>3 DEF ResumeProduct
  <2>4. CASE \E accepted, changed \in BOOLEAN : RefreshProduct(p, accepted, changed)
    <3>1. PICK accepted \in BOOLEAN, changed \in BOOLEAN : RefreshProduct(p, accepted, changed)
      BY <2>4
    <3>2. /\ blocked' = [blocked EXCEPT ![p] = ~accepted]
          /\ diagnosed' = [diagnosed EXCEPT ![p] = ~accepted]
          /\ barred' = IF accepted THEN barred \ {p} ELSE barred
          /\ product' = [product EXCEPT ![p] =
               IF @ = "Paused" THEN @ ELSE IF accepted THEN "Active" ELSE "Draft"]
      BY <3>1 DEF RefreshProduct
    <3> QED
      BY <3>2
  <2>5. CASE RefreshMirror(p)
    BY <2>5 DEF RefreshMirror, productVars
  <2> QED
    BY <2>1, <2>2, <2>3, <2>4, <2>5
<1>3. CASE Loop /\ ~\E l \in Lanes : ReconcileQuarantines(l)
  <2>1. UNCHANGED <<product, blocked, diagnosed, barred>>
    BY <1>3
       DEF Loop, StartCycle, Boot, Reconcile, ReconcileCancels, ReconcileFails,
           ReconcileKeeps, Resume, ResumeCancels, ResumeReclaims, Tick,
           TickClaims, Prepare, PrepareProvisions, PrepareRefused,
           PrepareBreaks, Preparing, Timeouts, TimeoutSilent, TimeoutWait,
           Cleanup, CleanupOrphan, PhaseDone, ReconcileDone, ResumeDone,
           TickDone, PrepareDone, TimeoutsDone, CleanupDone, itemVars
  <2> QED
    BY <2>1
<1>4. CASE Runner \/ World
  <2>1. UNCHANGED <<product, blocked, diagnosed, barred>>
    BY <1>4
       DEF Runner, Handshake, Progress, ApprovalRequested, ApprovalNotNeeded,
           HumanInputRequested, SessionCompleted, SessionFailed, Heartbeat,
           RunnerEvent, World, ItemChanges, EnvironmentLost, TimePasses,
           Shutdown, Crash
  <2> QED
    BY <2>1
<1>5. CASE \E l \in Lanes :
             \/ \E a \in Attempts : RetryLane(l, a)
             \/ \E d \in {"terminated", "quarantined"} : CancelLane(l, d)
             \/ ApproveLane(l) \/ SubmitHumanInput(l)
  <2>1. UNCHANGED <<product, blocked, diagnosed, barred>>
    BY <1>5 DEF RetryLane, CancelLane, ApproveLane, SubmitHumanInput, Answered
  <2> QED
    BY <2>1
<1> QED
  BY <1>1, <1>2, <1>3, <1>4, <1>5 DEF Next, Loop, Operator

LEMMA NextKeepsTodo == IInv /\ Next => TodoReconcilable'
<1> SUFFICES ASSUME IInv, Next PROVE TodoReconcilable'
  OBVIOUS
<1> USE DEF IInv, TypeOK, TodoReconcilable, loopVars
<1>1. CASE StartCycle \/ Boot
  BY <1>1 DEF StartCycle, Boot, Reconcilable, Active, laneVars
<1>2. CASE Reconcile
  <2>1. PICK l \in Lanes : \/ ReconcileCancels(l) \/ ReconcileFails(l)
                           \/ ReconcileQuarantines(l) \/ ReconcileKeeps(l)
    BY <1>2 DEF Reconcile
  <2>2. /\ todo' = todo \ {l} /\ phase = "reconcile" /\ phase' = phase
        /\ \A k \in Lanes : k # l => laneState'[k] = laneState[k]
    BY <2>1 DEF ReconcileCancels, ReconcileFails, ReconcileQuarantines,
                ReconcileKeeps, Reconciling, Cancelled, LaneFailed, laneVars
  <2> QED
    BY <2>2 DEF Reconcilable, Active
<1>3. CASE Resume \/ Tick \/ Prepare \/ Timeouts \/ Cleanup
  <2>1. phase # "reconcile" /\ UNCHANGED <<phase, todo>>
    BY <1>3 DEF Resume, ResumeCancels, ResumeReclaims, Tick, TickClaims, Prepare,
                PrepareProvisions, PrepareRefused, PrepareBreaks, Preparing,
                Timeouts, TimeoutSilent, TimeoutWait, Cleanup, CleanupOrphan
  <2> QED
    BY <2>1
<1>4. CASE PhaseDone
  <2>1. todo' = {}
    BY <1>4 DEF PhaseDone, ReconcileDone, ResumeDone, TickDone, PrepareDone,
                TimeoutsDone, CleanupDone
  <2> QED
    BY <2>1
<1>5. CASE Runner \/ Operator \/ World
  <2>1. phase # "reconcile" /\ phase' # "reconcile" /\ UNCHANGED todo
    BY <1>5
       DEF Runner, Handshake, Progress, ApprovalRequested, ApprovalNotNeeded,
           HumanInputRequested, SessionCompleted, SessionFailed, Heartbeat,
           RunnerEvent, Operator, OperatorAction, RetryLane, CancelLane,
           ApproveLane, SubmitHumanInput, Answered, PauseProduct,
           ResumeProduct, RefreshProduct, RefreshMirror, World, ItemChanges, EnvironmentLost,
           TimePasses, Shutdown, Crash
  <2> QED
    BY <2>1
<1> QED
  BY <1>1, <1>2, <1>3, <1>4, <1>5 DEF Next, Loop

-----------------------------------------------------------------------------
(* The inductive invariant *)

LEMMA StutterKeepsIInv == IInv /\ UNCHANGED vars => IInv'
BY DEF IInv, vars, laneVars, itemVars, productVars, loopVars, TypeOK,
       OneActiveLane, RowsAgree, LaneSessionAgree, ClosedSessionClosesLane,
       Terminal, ProvisionedTogether, NothingToReattach, OpenSessionsBound,
       SessionOpen, ProductsFit, TodoReconcilable, Reconcilable, Active

LEMMA NextIInv == IInv /\ [Next]_vars => IInv'
<1> SUFFICES ASSUME IInv, Next PROVE IInv'
  BY StutterKeepsIInv
<1>1. TypeOK'
  BY LoopTypes, OtherTypes DEF IInv, Next
<1>2. OneActiveLane'
  BY NextLaneSteps, LaneStepKeepsOneActive DEF IInv
<1>3. RowsAgree'
  BY LoopKeepsRows, RunnerKeepsRows, OperatorKeepsRows, WorldKeepsRows DEF Next
<1>4. ProductsFit' /\ TodoReconcilable'
  BY NextKeepsSetup, NextKeepsTodo
<1> QED
  BY <1>1, <1>2, <1>3, <1>4 DEF IInv

\* The inductive invariant holds of every reachable state.
THEOREM Invariance == Spec => []IInv
<1>1. Init => IInv
  BY InitIInv
<1>2. IInv /\ [Next]_vars => IInv'
  BY NextIInv
<1> QED
  BY <1>1, <1>2, PTL DEF Spec

\* Every variable keeps its type, and a tick its limit on claims.
THEOREM TypeCorrectness == Spec => []TypeOK
BY Invariance, PTL DEF IInv

\* However scheduler, recovery, operators and runners interleave, a work item
\* never has two active lanes.
THEOREM MutualExclusion == Spec => []OneActiveLane
BY Invariance, PTL DEF IInv

\* Lane, environment and session rows agree: a lane that runs or waits has a
\* session that says so and a runner that shook hands, a closed session leaves
\* no lane behind, and no lane is half provisioned.
THEOREM RowAgreement == Spec => []LaneRowsFit
<1>1. IInv => HandshakeDivides
  BY DEF IInv, RowsAgree, LaneSessionAgree, OpenSessionsBound, SessionOpen,
         WaitingSessions, HandshakeDivides, RunningMeansHandshake, MonitoredStates
<1>2. IInv => LaneSessionAgree /\ ClosedSessionClosesLane /\ ProvisionedTogether
  BY DEF IInv, RowsAgree
<1>3. IInv => LaneRowsFit
  BY <1>1, <1>2 DEF LaneRowsFit
<1> QED
  BY <1>3, Invariance, PTL

\* Quarantined for its violations, a product is not active again before a
\* contract of it is accepted, whatever refreshes, pauses and resumptions do.
THEOREM QuarantineIsKept == Spec => []QuarantineHolds
<1>1. IInv => QuarantineHolds
  BY DEF IInv, TypeOK, ProductsFit, QuarantineHolds
<1> QED
  BY <1>1, Invariance, PTL

-----------------------------------------------------------------------------
(* What no step does *)

\* A terminal lane becomes active again only under a live session: what the
\* runner protocol's check of the session guarantees of the lane.
THEOREM ReopeningNeedsLiveSession == Spec => OnlyLiveSessionReopens
<1>1. IInv /\ [Next]_vars =>
        [\A l \in Lanes : Terminal(l) /\ Active(l)' => sess[l] \in LiveSessions]_vars
  <2> SUFFICES ASSUME IInv, [Next]_vars,
                      NEW l \in Lanes, Terminal(l), Active(l)'
               PROVE  sess[l] \in LiveSessions
    OBVIOUS
  <2>1. ~Active(l) /\ laneState[l] # "none"
    BY DEF Terminal, TerminalStates, Active, ActiveStates
  <2>2. LaneStep
    BY <2>1, NextLaneSteps DEF vars, laneVars, Active
  <2>3. CASE \E w \in WorkItems, a \in Attempts : LaneClaimed(w, a)
    BY <2>1, <2>3, NextAttemptIsNew, LaneParts DEF LaneClaimed, Active, IInv, TypeOK
  <2>4. CASE \E k \in Lanes, a \in Attempts : LaneReplaced(k, a)
    BY <2>1, <2>4, NextAttemptIsNew, LaneParts
       DEF LaneReplaced, Active, ActiveStates, IInv, TypeOK
  <2>5. CASE \E k \in Lanes, s \in LaneStates : LaneMoved(k, s)
    BY <2>1, <2>5 DEF LaneMoved, Active, IInv, TypeOK
  <2>6. CASE LanesCancelled
    BY <2>1, <2>6 DEF LanesCancelled, Active, ActiveStates
  <2> QED
    BY <2>2, <2>3, <2>4, <2>5, <2>6 DEF LaneStep
<1> QED
  BY <1>1, Invariance, PTL DEF Spec, OnlyLiveSessionReopens

LEMMA LoopSpendsEnvironments ==
  ASSUME IInv, Loop, NEW k \in Lanes, env[k] \in {"terminated", "quarantined"}
  PROVE  env'[k] = env[k]
<1> USE DEF IInv, TypeOK, laneVars, HasActiveEnv, ActiveEnvs
<1>1. CASE StartCycle \/ Boot \/ PhaseDone \/ Tick \/ Timeouts
  BY <1>1 DEF StartCycle, Boot, PhaseDone, ReconcileDone, ResumeDone, TickDone,
              PrepareDone, TimeoutsDone, CleanupDone, Tick, TickClaims, Timeouts,
              TimeoutSilent, TimeoutWait, EventAppended
<1>2. CASE Reconcile
  BY <1>2 DEF Reconcile, ReconcileCancels, Cancelled, ReconcileFails, LaneFailed,
              ReconcileQuarantines, ReconcileKeeps
<1>3. CASE Resume
  BY <1>3 DEF Resume, ResumeCancels, Cancelled, ResumeReclaims
<1>4. CASE Prepare
  BY <1>4 DEF Prepare, PrepareProvisions, PrepareRefused, PrepareBreaks, Preparing,
              LaneFailed, RowsAgree, ProvisionedTogether
<1>5. CASE Cleanup
  BY <1>5 DEF Cleanup, CleanupOrphan, Orphaned
<1> QED
  BY <1>1, <1>2, <1>3, <1>4, <1>5 DEF Loop

LEMMA OthersSpendEnvironments ==
  ASSUME IInv, Runner \/ Operator \/ World,
         NEW k \in Lanes, env[k] \in {"terminated", "quarantined"}
  PROVE  env'[k] = env[k]
<1> USE DEF IInv, TypeOK, laneVars, HasActiveEnv, ActiveEnvs
<1>1. CASE Runner
  BY <1>1 DEF Runner, Handshake, Progress, ApprovalRequested, ApprovalNotNeeded,
              HumanInputRequested, SessionCompleted, SessionFailed, Heartbeat,
              EventAppended
<1>2. CASE Operator
  BY <1>2 DEF Operator, RetryLane, CancelLane, ApproveLane, SubmitHumanInput,
              Answered, PauseProduct, ResumeProduct, RefreshMirror, RefreshProduct
<1>3. CASE World
  BY <1>3 DEF World, ItemChanges, EnvironmentLost, TimePasses, Shutdown, Crash
<1> QED
  BY <1>1, <1>2, <1>3

\* Whoever ends an environment, nothing puts it to use again.
THEOREM SingleUse == Spec => EnvironmentsAreSingleUse
<1>1. IInv /\ [Next]_vars =>
        [\A l \in Lanes : env[l] \in {"terminated", "quarantined"} => env'[l] = env[l]]_vars
  BY LoopSpendsEnvironments, OthersSpendEnvironments DEF Next
<1> QED
  BY <1>1, Invariance, PTL DEF Spec, EnvironmentsAreSingleUse

-----------------------------------------------------------------------------
(* The lanes implement the ownership of work items *)

Used == [w \in WorkItems |-> {a \in Attempts : laneState[<<w, a>>] # "none"}]
Held == [w \in WorkItems |-> {a \in Attempts : Active(<<w, a>>)}]

LEMMA OwnershipStarts == Init => Ownership!Init
BY LaneParts DEF Init, Ownership!Init, Active, ActiveStates

\* Lanes of different work items or attempts are different.
LEMMA LanePairs ==
  \A w, v \in WorkItems, a, b \in Attempts :
    /\ <<w, a>> \in Lanes
    /\ <<w, a>> = <<v, b>> <=> w = v /\ a = b
BY DEF Lanes

LEMMA ClaimIsClaim ==
  ASSUME TypeOK, NEW w \in WorkItems, NEW a \in Attempts, LaneClaimed(w, a)
  PROVE  Ownership!Claim(w, a)
<1>1. laneState[<<w, a>>] = "none"
  BY NextAttemptIsNew DEF LaneClaimed
<1>2. \A b \in Attempts : ~Active(<<w, b>>)
  BY <1>1, LanePairs DEF LaneClaimed, NoOtherActiveLane, Active, ActiveStates
<1>3. Used[w] = 1 .. (a - 1)
  BY DEF Used, NextAttempt, LaneClaimed
<1>4. \A v \in WorkItems, b \in Attempts :
        laneState'[<<v, b>>] = IF v = w /\ b = a THEN "Claimed" ELSE laneState[<<v, b>>]
  BY LanePairs DEF LaneClaimed, TypeOK
<1>5. Used' = [Used EXCEPT ![w] = @ \cup {a}]
  <2>1. \A v \in WorkItems : Used'[v] = IF v = w THEN Used[v] \cup {a} ELSE Used[v]
    BY <1>4 DEF Used
  <2> QED
    BY <2>1 DEF Used
<1>6. Held' = [Held EXCEPT ![w] = {a}]
  <2>1. \A v \in WorkItems : Held'[v] = IF v = w THEN {a} ELSE Held[v]
    BY <1>2, <1>4 DEF Held, Active, ActiveStates
  <2> QED
    BY <2>1 DEF Held
<1>7. Held[w] = {}
  BY <1>2 DEF Held
<1> QED
  BY <1>3, <1>5, <1>6, <1>7 DEF Ownership!Claim, Ownership!NewAttempt, Used, Held

LEMMA ReplacementIsHandover ==
  ASSUME TypeOK, OneActiveLane, NEW l \in Lanes, NEW a \in Attempts,
         LaneReplaced(l, a)
  PROVE  Ownership!Handover(l[1], a)
<1> DEFINE w == l[1]
           c == l[2]
<1>1. w \in WorkItems /\ c \in Attempts /\ l = <<w, c>>
  BY LaneParts
<1>2. laneState[<<w, a>>] = "none" /\ Active(<<w, c>>) /\ a # c
  BY <1>1, NextAttemptIsNew DEF LaneReplaced, Active, ActiveStates
<1>3. \A b \in Attempts : Active(<<w, b>>) => b = c
  BY <1>1, <1>2 DEF OneActiveLane
<1>4. \A v \in WorkItems, b \in Attempts :
        laneState'[<<v, b>>] = IF v = w /\ b = a THEN "Claimed"
                               ELSE IF v = w /\ b = c THEN "Cancelled"
                               ELSE laneState[<<v, b>>]
  <2>1. laneState' = [[laneState EXCEPT ![<<w, c>>] = "Cancelled"]
                       EXCEPT ![<<w, a>>] = "Claimed"]
    BY <1>1 DEF LaneReplaced
  <2> QED
    BY <1>1, <2>1, LanePairs DEF TypeOK
<1>5. Used[w] = 1 .. (a - 1)
  BY <1>1 DEF Used, NextAttempt, LaneReplaced
<1> HIDE DEF w, c
<1>6. Used' = [Used EXCEPT ![w] = @ \cup {a}]
  <2>1. \A v \in WorkItems : Used'[v] = IF v = w THEN Used[v] \cup {a} ELSE Used[v]
    BY <1>1, <1>2, <1>4 DEF Used, Active, ActiveStates
  <2> QED
    BY <2>1 DEF Used
<1>7. Held' = [Held EXCEPT ![w] = {a}]
  <2>1. \A v \in WorkItems : Held'[v] = IF v = w THEN {a} ELSE Held[v]
    BY <1>3, <1>4 DEF Held, Active, ActiveStates
  <2> QED
    BY <2>1 DEF Held
<1>8. Held[w] # {}
  BY <1>1, <1>2 DEF Held
<1>9. Ownership!Handover(w, a)
  BY <1>5, <1>6, <1>7, <1>8 DEF Ownership!Handover, Ownership!NewAttempt, Used, Held
<1> QED
  BY <1>9 DEF w

LEMMA MoveReleasesOrReopens ==
  ASSUME TypeOK, OneActiveLane, NEW l \in Lanes, NEW s \in LaneStates,
         LaneMoved(l, s)
  PROVE  \/ Ownership!Reopen(l[1], l[2])
         \/ Ownership!Release({l[1]})
         \/ UNCHANGED <<Used, Held>>
<1> DEFINE w == l[1]
           a == l[2]
<1>1. w \in WorkItems /\ a \in Attempts /\ l = <<w, a>>
  BY LaneParts
<1>2. \A v \in WorkItems, b \in Attempts :
        laneState'[<<v, b>>] = IF v = w /\ b = a THEN s ELSE laneState[<<v, b>>]
  <2>1. laneState' = [laneState EXCEPT ![<<w, a>>] = s]
    BY <1>1 DEF LaneMoved
  <2> QED
    BY <1>1, <2>1, LanePairs DEF TypeOK
<1>3. laneState[<<w, a>>] # "none" /\ s # "none"
  BY <1>1 DEF LaneMoved
<1>4. s \in ActiveStates /\ ~Active(<<w, a>>) =>
        \A b \in Attempts : b # a => ~Active(<<w, b>>)
  BY <1>1 DEF LaneMoved, NoOtherActiveLane
<1>5. Active(<<w, a>>) => \A b \in Attempts : Active(<<w, b>>) => b = a
  BY <1>1 DEF OneActiveLane
<1> HIDE DEF w, a
<1>6. UNCHANGED Used
  <2>1. \A v \in WorkItems : Used'[v] = Used[v]
    BY <1>2, <1>3 DEF Used
  <2> QED
    BY <2>1 DEF Used
<1>7. CASE ~Active(<<w, a>>) /\ s \in ActiveStates
  <2>1. Held[w] = {} /\ a \in Used[w]
    BY <1>1, <1>3, <1>4, <1>7 DEF Held, Used
  <2>2. \A v \in WorkItems : Held'[v] = IF v = w THEN {a} ELSE Held[v]
    BY <1>1, <1>2, <1>4, <1>7 DEF Held, Active
  <2>3. Held' = [Held EXCEPT ![w] = {a}]
    BY <2>2 DEF Held
  <2> QED
    BY <1>6, <2>1, <2>3 DEF Ownership!Reopen, Used, Held, w, a
<1>8. CASE Active(<<w, a>>) /\ s \notin ActiveStates
  <2>1. Held[w] # {}
    BY <1>1, <1>8 DEF Held
  <2>2. \A v \in WorkItems : Held'[v] = IF v = w THEN {} ELSE Held[v]
    BY <1>1, <1>2, <1>5, <1>8 DEF Held, Active
  <2>3. Held' = [v \in WorkItems |-> IF v \in {w} THEN {} ELSE Held[v]]
    BY <2>2 DEF Held
  <2> QED
    BY <1>6, <2>1, <2>3 DEF Ownership!Release, Used, Held, w
<1>9. CASE Active(<<w, a>>) <=> s \in ActiveStates
  <2>1. \A v \in WorkItems : Held'[v] = Held[v]
    BY <1>2, <1>9 DEF Held, Active
  <2> QED
    BY <1>6, <2>1 DEF Held
<1> QED
  BY <1>7, <1>8, <1>9

LEMMA CancellationsRelease ==
  ASSUME TypeOK, OneActiveLane, LanesCancelled
  PROVE  \E W \in SUBSET WorkItems : Ownership!Release(W)
<1> DEFINE W == {w \in WorkItems : \E a \in Attempts :
                   Active(<<w, a>>) /\ laneState'[<<w, a>>] = "Cancelled"}
<1>1. \A w \in WorkItems, a \in Attempts :
        \/ laneState'[<<w, a>>] = laneState[<<w, a>>]
        \/ Active(<<w, a>>) /\ laneState'[<<w, a>>] = "Cancelled"
  BY LanePairs DEF LanesCancelled
<1>2. UNCHANGED Used
  <2>1. \A w \in WorkItems : Used'[w] = Used[w]
    BY <1>1 DEF Used, Active, ActiveStates
  <2> QED
    BY <2>1 DEF Used
<1>3. \A w \in W : Held[w] # {}
  BY DEF Held
<1>4. \A w \in W : Held'[w] = {}
  BY <1>1 DEF Held, OneActiveLane, Active, ActiveStates
<1>5. \A w \in WorkItems \ W : Held'[w] = Held[w]
  BY <1>1 DEF Held, Active
<1>6. Held' = [w \in WorkItems |-> IF w \in W THEN {} ELSE Held[w]]
  BY <1>4, <1>5 DEF Held
<1> QED
  BY <1>2, <1>3, <1>6 DEF Ownership!Release, Used, Held

\* The cycle, the recovery, the runner API and the operator API together hand
\* a work item on as LaneOwnership says, whatever the constants.
THEOREM Implementation == Spec => OwnershipHolds
<1>1. Init => Ownership!Init
  BY OwnershipStarts
<1>2. IInv /\ [Next]_vars => [Ownership!Next]_(Ownership!vars)
  <2> SUFFICES ASSUME IInv, [Next]_vars
               PROVE  Ownership!Next \/ UNCHANGED <<Used, Held>>
    BY DEF Ownership!vars, Used, Held
  <2>1. CASE UNCHANGED vars
    BY <2>1 DEF vars, laneVars, Used, Held, Active
  <2>2. CASE Next
    <3>1. LaneStep /\ TypeOK /\ OneActiveLane
      BY <2>2, NextLaneSteps DEF IInv
    <3>2. CASE \E w \in WorkItems, a \in Attempts : LaneClaimed(w, a)
      BY <3>1, <3>2, ClaimIsClaim DEF Ownership!Next, Ownership!Attempts, Attempts
    <3>3. CASE \E l \in Lanes, a \in Attempts : LaneReplaced(l, a)
      BY <3>1, <3>3, ReplacementIsHandover, LaneParts
         DEF Ownership!Next, Ownership!Attempts, Attempts
    <3>4. CASE \E l \in Lanes, s \in LaneStates : LaneMoved(l, s)
      <4>1. PICK l \in Lanes, s \in LaneStates : LaneMoved(l, s)
        BY <3>4
      <4>2. /\ l[1] \in WorkItems /\ {l[1]} \in SUBSET WorkItems
            /\ l[2] \in Ownership!Attempts
        BY LaneParts DEF Ownership!Attempts, Attempts
      <4> QED
        BY <3>1, <4>1, <4>2, MoveReleasesOrReopens DEF Ownership!Next
    <3>5. CASE LanesCancelled
      BY <3>1, <3>5, CancellationsRelease DEF Ownership!Next
    <3> QED
      BY <3>1, <3>2, <3>3, <3>4, <3>5 DEF LaneStep
  <2> QED
    BY <2>1, <2>2
<1> QED
  BY <1>1, <1>2, Invariance, PTL DEF Spec, OwnershipHolds, Ownership!Spec
=============================================================================
