----------------------------- MODULE RunnerSession -----------------------------
(***************************************************************************)
(* The worker and the session of one lane: a worker looks for a launch,    *)
(* shakes hands, starts Codex, posts an event for each line that Codex     *)
(* writes, and reports how it ended.  Each call is a transaction of the    *)
(* API; the background loop's timeouts and an operator's cancellation are  *)
(* others.  A transaction loads the rows, asks for the highest sequence    *)
(* number of the session's log, and writes: the columns whose values       *)
(* differ from the loaded ones, and one event, whose number is unique.     *)
(* The database is read committed, and nothing locks a row before that.    *)
(*                                                                         *)
(* A worker may give a call up while the API still works on it, and may    *)
(* die.  LaneOrchestration has what else happens to a lane, serially.      *)
(***************************************************************************)
EXTENDS Integers, FiniteSets, Sequences

CONSTANTS
  Workers,         \* worker processes
  Capable,         \* those with the capabilities the launch requires
  Lines,           \* kinds of lines Codex may write
  MaxLines,        \* bounds of the model: lines of one Codex run,
  MaxFaults,       \* failures, of the API, of calls and of workers,
  MaxInFlight,     \* and transactions in progress at a time
  Loop, Operator,  \* the other actors
  NoRunner         \* runner_session_id of a session without a runner

\* _translate_codex_event: what a line becomes.
Translation ==
  [kind \in {"turn.started", "turn.completed", "other", "noise"} |->
     CASE kind = "turn.started"   -> <<"turn_started">>
       [] kind = "turn.completed" -> <<"token_usage_reported", "turn_completed">>
       [] kind = "other"          -> <<"status_summary">>
       [] kind = "noise"          -> << >>]

ASSUME RunnerAssumption ==
  /\ Capable \subseteq Workers /\ Lines \subseteq DOMAIN Translation
  /\ Loop \notin Workers /\ Operator \notin Workers /\ Loop # Operator
  /\ NoRunner \notin Workers
  /\ MaxLines \in Nat /\ MaxFaults \in Nat /\ MaxInFlight \in Nat \ {0}

VARIABLES
  session,  \* the AgentSession row: status, runner, turns
  lane,     \* OrchestrationLane.state
  env,      \* ExecutionEnvironment.status: "ready" or "terminated"
  log,      \* AgentSessionEvent rows; nth is the place in what Codex wrote
  tx,       \* transactions in progress, and replies not yet seen
  worker,   \* where each worker is
  codex,    \* its Codex process: state, the lines written, those fetched from
            \* the pipe, those read, and the events made of them
  toPost,   \* events made of the last line, not yet posted
  raced,    \* history: some transaction wrote over rows that had changed
  faults    \* failures so far

vars == <<session, lane, env, log, tx, worker, codex, toPost, raced, faults>>

Progress == {"session_started", "turn_started", "token_usage_reported",
             "turn_completed", "status_summary"}
Ends == {"session_completed", "session_failed"}
EventTypes == Progress \cup Ends \cup {"operator_cancelled"}
Closed == {"completed", "failed"}
Statuses == {"launching", "running"} \cup Closed
LaneStates == {"Provisioning", "Running", "HandedOff", "FailedTerminal", "Cancelled"}
ActiveLane == lane \in {"Provisioning", "Running"}

\* A worker has one call it waits for and may have one it gave up.
Live(w) == <<w, "live">>
Stale(w) == <<w, "stale">>
LoopCall == <<Loop, "live">>
Cancellation == <<Operator, "live">>
Slots == (Workers \X {"live", "stale"}) \cup {LoopCall, Cancellation}

Fresh == [status |-> "launching", runner |-> NoRunner, turns |-> 0]
NoCall == [at |-> "none", type |-> "none", nth |-> 0, status |-> "launching", turns |-> 0,
           lane |-> "Provisioning", sequence |-> 0]
InFlight == {"number", "write"}

NoCodex == [state |-> "none", written |-> << >>, fetched |-> 0, read |-> 0, made |-> 0]

Init ==
  /\ session = Fresh /\ lane = "Provisioning" /\ env = "ready" /\ log = {}
  /\ tx = [s \in Slots |-> NoCall]
  /\ worker = [w \in Workers |-> "polling"]
  /\ codex = [w \in Workers |-> NoCodex]
  /\ toPost = [w \in Workers |-> << >>]
  /\ raced = FALSE /\ faults = 0

-----------------------------------------------------------------------------
(* Transactions of the API *)

\* record_handshake: a session nobody has taken, in its environment, by a
\* runner that can do what is required.
HandshakeAccepted(w) ==
  /\ session.status = "launching" /\ session.runner = NoRunner
  /\ env = "ready" /\ w \in Capable

\* record_event: not before the handshake; after the end only the ends.
EventAccepted(type) ==
  session.status # "launching" /\ (session.status \in Closed => type \in Ends)

Accepted(w, type) ==
  IF type = "session_started" THEN HandshakeAccepted(w) ELSE EventAccepted(type)

CanStart == Cardinality({s \in Slots : tx[s].at \in InFlight}) < MaxInFlight

\* A transaction that has loaded the rows; of turn_count, if it is to count.
Loaded(type, nth) ==
  [NoCall EXCEPT !.at = "number", !.type = type, !.nth = nth, !.lane = lane,
                 !.status = session.status,
                 !.turns = IF type = "turn_started" THEN session.turns ELSE 0]

\* Only the worker that still waits sees the reply.
Replied(s, reply) ==
  IF s \in {Live(w) : w \in Workers} THEN [NoCall EXCEPT !.at = reply] ELSE NoCall

\* _next_sequence.
NextSequence ==
  IF log = {} THEN 1
  ELSE 1 + CHOOSE n \in {e.sequence : e \in log} : \A e \in log : e.sequence <= n

Number(s) ==
  /\ tx[s].at = "number"
  /\ tx' = [tx EXCEPT ![s] = [@ EXCEPT !.at = "write", !.sequence = NextSequence]]
  /\ UNCHANGED <<session, lane, env, log, worker, codex, toPost, raced>>

\* A mutant: a failure leaves the session as it is.
StatusUnfailed(type) == IF type = "session_completed" THEN "completed" ELSE "running"

\* What an event makes of the session and of the lane.
StatusAfter(type) ==
  CASE type \in Progress -> "running"
    [] type = "session_completed" -> "completed"
    [] OTHER -> "failed"

LaneAfter(type) ==
  CASE type \in Progress           -> "Running"
    [] type = "session_completed"  -> "HandedOff"
    [] type = "session_failed"     -> "FailedTerminal"
    [] type = "operator_cancelled" -> "Cancelled"

\* The session writes a column only if its value differs from the loaded one.
WriteChanged(new, loaded, stored) == IF new = loaded THEN stored ELSE new

\* A mutant: without the unique constraint.
NeverTaken(n) == FALSE

\* uq_agent_session_events_session_sequence.
Taken(n) == \E e \in log : e.sequence = n

\* _append_event and commit.  A cancellation gives the environment up, and the
\* clean-up at the end of a cycle does when the lane has timed out.
Commits(s) ==
  LET call == tx[s]
      after == StatusAfter(call.type)
  IN /\ log' = log \cup {[sequence |-> call.sequence, type |-> call.type,
                          by |-> s[1], nth |-> call.nth]}
     /\ session' = [status |-> WriteChanged(after, call.status, session.status),
                    runner |-> IF call.type = "session_started" THEN s[1] ELSE session.runner,
                    turns  |-> IF call.type = "turn_started" THEN call.turns + 1
                               ELSE session.turns]
     /\ lane' = WriteChanged(LaneAfter(call.type), call.lane, lane)
     /\ env' = IF s \in {LoopCall, Cancellation} THEN "terminated" ELSE env
     /\ raced' = (raced \/ call.status # session.status
                        \/ (call.type = "turn_started" /\ call.turns # session.turns))
     /\ tx' = [tx EXCEPT ![s] = Replied(s, "ok")]

Write(s) ==
  /\ tx[s].at = "write"
  /\ IF ~Taken(tx[s].sequence) THEN Commits(s)
     ELSE tx' = [tx EXCEPT ![s] = Replied(s, "refused")]
          /\ UNCHANGED <<session, lane, env, log, raced>>
  /\ UNCHANGED <<worker, codex, toPost>>

\* A database error, or the API stops.
Abort(s) ==
  /\ tx[s].at \in InFlight
  /\ tx' = [tx EXCEPT ![s] = Replied(s, "refused")]
  /\ UNCHANGED <<session, lane, env, log, worker, codex, toPost, raced>>

\* evaluate_timeouts: a deadline of a session that has not ended has passed.
DeadlinePasses ==
  /\ CanStart
  /\ tx[LoopCall].at = "none" /\ session.status \notin Closed
  /\ tx' = [tx EXCEPT ![LoopCall] = Loaded("session_failed", 0)]
  /\ UNCHANGED <<session, lane, env, log, worker, codex, toPost, raced>>

OperatorCancels ==
  /\ CanStart
  /\ tx[Cancellation].at = "none" /\ ActiveLane
  /\ tx' = [tx EXCEPT ![Cancellation] = Loaded("operator_cancelled", 0)]
  /\ UNCHANGED <<session, lane, env, log, worker, codex, toPost, raced>>

\* cleanup_orphaned_environments, in a cycle in which nothing times out.
CleanupOrphan ==
  /\ tx[LoopCall].at = "none" /\ ~ActiveLane /\ env = "ready"
  /\ env' = "terminated"
  /\ UNCHANGED <<session, lane, log, tx, worker, codex, toPost, raced>>

-----------------------------------------------------------------------------
(* The worker and Codex *)

RowsSame == UNCHANGED <<session, lane, env, log, raced>>

\* Call the API, after giving up on a call that may still be worked on.  The
\* handler loads the rows; its guards pass or raise.
Calls(w, type, nth) ==
  /\ Accepted(w, type) => CanStart
  /\ tx' = [tx EXCEPT ![Live(w)] = IF Accepted(w, type) THEN Loaded(type, nth)
                                   ELSE [NoCall EXCEPT !.at = "refused"],
                      ![Stale(w)] = IF tx[Live(w)].at \in InFlight THEN tx[Live(w)] ELSE @]
Hangs(w) ==
  tx' = [tx EXCEPT ![Live(w)] = NoCall,
                   ![Stale(w)] = IF tx[Live(w)].at \in InFlight THEN tx[Live(w)] ELSE @]
CanGiveUp(w) == tx[Live(w)].at \in InFlight => tx[Stale(w)].at = "none"

\* peek_next_launch gives the launch to whoever asks.
Poll(w) ==
  /\ worker[w] = "polling" /\ tx[Live(w)].at = "none"
  /\ ActiveLane /\ env = "ready"
  /\ session.status = "launching" /\ session.runner = NoRunner
  /\ worker' = [worker EXCEPT ![w] = "launch"]
  /\ RowsSame /\ UNCHANGED <<tx, codex, toPost>>

\* _dispatch_launch: shake hands; that was taken, say so; that was taken, start
\* Codex.
ShakeHands(w) ==
  /\ worker[w] = "launch"
  /\ worker' = [worker EXCEPT ![w] = "handshake"]
  /\ Calls(w, "session_started", 0)
  /\ RowsSame /\ UNCHANGED <<codex, toPost>>

Working(w) == worker[w] = "codex" /\ tx[Live(w)].at = "none"

Report(w, type) ==
  worker' = [worker EXCEPT ![w] = "report"] /\ Calls(w, type, 0)

Greet(w) ==
  /\ worker[w] = "handshake" /\ tx[Live(w)].at = "ok"
  /\ worker' = [worker EXCEPT ![w] = "greeting"]
  /\ Calls(w, "status_summary", 0)
  /\ RowsSame /\ UNCHANGED <<codex, toPost>>

StartCodex(w) ==
  /\ worker[w] = "greeting" /\ tx[Live(w)].at = "ok"
  /\ worker' = [worker EXCEPT ![w] = "codex"]
  /\ codex' = [codex EXCEPT ![w] = [NoCodex EXCEPT !.state = "running"]]
  /\ Hangs(w)
  /\ RowsSame /\ UNCHANGED toPost

\* The selector waits for the pipe, and a line is read through a buffer that
\* fetches more than one: with nothing new in the pipe, and no end of it, the
\* buffered lines wait.
Silent(w) == codex[w].state = "running" /\ codex[w].fetched = Len(codex[w].written)

ReadLine(w) ==
  LET run == codex[w]
      events == Translation[run.written[run.read + 1]]
  IN /\ Working(w) /\ toPost[w] = << >> /\ ~Silent(w) /\ run.read < Len(run.written)
     /\ \E n \in run.read + 1 .. Len(run.written) :
          /\ run.read < run.fetched => n = run.fetched
          /\ codex' = [codex EXCEPT ![w] = [run EXCEPT !.fetched = n, !.read = run.read + 1,
                                                       !.made = run.made + Len(events)]]
     /\ toPost' = [toPost EXCEPT ![w] = events]
     /\ UNCHANGED <<tx, worker>> /\ RowsSame

\* The events of a line are posted one after the other.
PostEvent(w) ==
  /\ Working(w) /\ toPost[w] # << >>
  /\ Calls(w, Head(toPost[w]), codex[w].made - Len(toPost[w]) + 1)
  /\ toPost' = [toPost EXCEPT ![w] = Tail(@)]
  /\ RowsSame /\ UNCHANGED <<worker, codex>>

EventTaken(w) ==
  /\ worker[w] = "codex" /\ tx[Live(w)].at = "ok"
  /\ Hangs(w)
  /\ RowsSame /\ UNCHANGED <<worker, codex, toPost>>

\* A call fails or takes too long, or a heartbeat does: Codex is killed and the
\* session reported as failed.
CodexKilled(w) ==
  /\ codex' = [codex EXCEPT ![w].state = IF @ = "running" THEN "killed" ELSE @]
  /\ toPost' = [toPost EXCEPT ![w] = << >>]
  /\ Report(w, "session_failed")
  /\ RowsSame

\* A mutant: a failed call is logged and the run goes on.
EventLost(w) ==
  /\ worker[w] = "codex" /\ tx[Live(w)].at # "none" /\ CanGiveUp(w)
  /\ Hangs(w)
  /\ RowsSame /\ UNCHANGED <<worker, codex, toPost>>

EventFails(w) ==
  /\ worker[w] = "codex" /\ tx[Live(w)].at # "none" /\ CanGiveUp(w)
  /\ CodexKilled(w)

\* The selector has waited for the heartbeat's interval.
FallsSilent(w) ==
  /\ Working(w) /\ toPost[w] = << >> /\ Silent(w)
  /\ worker' = [worker EXCEPT ![w] = "silent"]
  /\ RowsSame /\ UNCHANGED <<tx, codex, toPost>>

ReadsOn(w) ==
  /\ worker' = [worker EXCEPT ![w] = "codex"]
  /\ RowsSame /\ UNCHANGED <<tx, codex, toPost>>

\* record_heartbeat: it moves no column but heartbeat_at, and asks for an
\* environment.  Codex may write, or exit, before the answer.
HeartbeatTaken(w) ==
  worker[w] = "silent" /\ env = "ready" /\ codex[w].state = "running" /\ ReadsOn(w)

\* A mutant: a heartbeat that is refused is logged and the run goes on.
HeartbeatIgnored(w) == worker[w] = "silent" /\ env # "ready" /\ ReadsOn(w)

HeartbeatRefused(w) == worker[w] = "silent" /\ env # "ready" /\ CodexKilled(w)
HeartbeatLost(w) == worker[w] = "silent" /\ CodexKilled(w)

\* _terminal_event_from_outcome.
Reported(w) ==
  /\ Report(w, IF codex[w].state = "exited" THEN "session_completed" ELSE "session_failed")
  /\ RowsSame /\ UNCHANGED <<codex, toPost>>

Gone(w) == codex[w].state \in {"exited", "broken"}

\* A mutant: the end of the output does not wait for the events of its last line.
FinishEarly(w) ==
  Working(w) /\ Gone(w) /\ codex[w].read = Len(codex[w].written) /\ Reported(w)

\* The output is read to its end.
Finish(w) ==
  /\ Working(w) /\ toPost[w] = << >>
  /\ Gone(w) /\ codex[w].read = Len(codex[w].written)
  /\ Reported(w)

\* The process is found to have exited, before or after a heartbeat, when the
\* selector has returned nothing: what it wrote in between is not read, nor
\* what the buffer has.
FinishUnread(w) == worker[w] = "silent" /\ Gone(w) /\ Reported(w)

\* Before and after the run a failed call only ends the launch.
LaunchEnds(w) ==
  /\ worker[w] \in {"handshake", "greeting", "report"} /\ tx[Live(w)].at # "none"
  /\ CanGiveUp(w)
  /\ worker' = [worker EXCEPT ![w] = "polling"]
  /\ Hangs(w)
  /\ RowsSame /\ UNCHANGED <<codex, toPost>>

\* Its container, and so Codex with it.
WorkerDies(w) ==
  /\ worker[w] # "polling" /\ CanGiveUp(w)
  /\ worker' = [worker EXCEPT ![w] = "polling"]
  /\ codex' = [codex EXCEPT ![w].state = IF @ = "running" THEN "killed" ELSE @]
  /\ toPost' = [toPost EXCEPT ![w] = << >>]
  /\ Hangs(w)
  /\ RowsSame

CodexWrites(w) ==
  /\ codex[w].state = "running" /\ Len(codex[w].written) < MaxLines
  /\ \E kind \in Lines : codex' = [codex EXCEPT ![w].written = Append(@, kind)]
  /\ RowsSame /\ UNCHANGED <<tx, worker, toPost>>

\* With code 0 or another.
CodexExits(w) ==
  /\ codex[w].state = "running"
  /\ \E state \in {"exited", "broken"} : codex' = [codex EXCEPT ![w].state = state]
  /\ RowsSame /\ UNCHANGED <<tx, worker, toPost>>

-----------------------------------------------------------------------------
Handled(s) == Number(s) \/ Write(s)

\* What a worker does by itself.
Goes(w) == ShakeHands(w) \/ Greet(w) \/ StartCodex(w) \/ ReadLine(w) \/ PostEvent(w)
           \/ EventTaken(w) \/ Finish(w) \/ FallsSilent(w) \/ HeartbeatTaken(w)
           \/ FinishUnread(w)

\* The worker's call is refused, or it gets no answer.
Refused(w) == tx[Live(w)].at = "refused"

Usual ==
  \/ \E s \in Slots : Handled(s)
  \/ DeadlinePasses \/ OperatorCancels \/ CleanupOrphan
  \/ \E w \in Workers :
       \/ Poll(w) \/ Goes(w) \/ HeartbeatRefused(w)
       \/ Refused(w) /\ (EventFails(w) \/ LaunchEnds(w))
       \/ CodexWrites(w) \/ CodexExits(w)

Fault ==
  \/ \E s \in Slots : Abort(s)
  \/ \E w \in Workers :
       \/ ~Refused(w) /\ (EventFails(w) \/ LaunchEnds(w))
       \/ HeartbeatLost(w) \/ WorkerDies(w)

Next ==
  \/ Usual /\ UNCHANGED faults
  \/ Fault /\ faults < MaxFaults /\ faults' = faults + 1

Spec == Init /\ [][Next]_vars

\* The API answers, the loop cleans up, and a worker reads, posts and sends
\* heartbeats while the pipe is silent; it sees that a call was refused.
FairSpec ==
  /\ Spec
  /\ \A s \in Slots : WF_vars(Handled(s) /\ UNCHANGED faults)
  /\ WF_vars(CleanupOrphan /\ UNCHANGED faults)
  /\ \A w \in Workers :
       /\ WF_vars(Goes(w) /\ UNCHANGED faults)
       /\ WF_vars(HeartbeatRefused(w) /\ UNCHANGED faults)
       /\ WF_vars(Refused(w) /\ EventFails(w) /\ UNCHANGED faults)

-----------------------------------------------------------------------------
(* Properties *)

Event == [sequence : Nat \ {0}, type : EventTypes, by : Workers \cup {Loop, Operator}, nth : Nat]

Transaction ==
  [at : InFlight \cup {"none", "ok", "refused"}, type : EventTypes \cup {"none"}, nth : Nat,
   status : Statuses, turns : Nat, lane : LaneStates, sequence : Nat]

CodexRun ==
  [state : {"none", "running", "exited", "broken", "killed"}, written : Seq(Lines),
   fetched : Nat, read : Nat, made : Nat]

\* Rows, transactions and workers are what they should be: Codex runs, and events
\* wait to be posted, only under a worker that attends to them.
TypeOK ==
  /\ session \in [status : Statuses, runner : Workers \cup {NoRunner}, turns : Nat]
  /\ lane \in LaneStates /\ env \in {"ready", "terminated"}
  /\ log \subseteq Event
  /\ tx \in [Slots -> Transaction]
  /\ worker \in [Workers -> {"polling", "launch", "handshake", "greeting", "codex", "silent",
                         "report"}]
  /\ codex \in [Workers -> CodexRun]
  /\ toPost \in [Workers -> Seq(Progress)]
  /\ raced \in BOOLEAN /\ faults \in 0 .. MaxFaults
  /\ \A s \in Slots : tx[s].at \in InFlight =>
       tx[s].type \in EventTypes /\ (tx[s].type = "session_started" => s[1] \in Workers)
  /\ \A w \in Workers :
       /\ codex[w].state = "running" => worker[w] \in {"codex", "silent"}
       /\ toPost[w] # << >> => worker[w] = "codex"
       /\ Len(toPost[w]) <= codex[w].made
       /\ codex[w].read <= codex[w].fetched /\ codex[w].fetched <= Len(codex[w].written)

\* uq_agent_session_events_session_sequence: the log of a session is numbered
\* 1, 2, 3 and so on without gaps, whoever writes to it at the same time.
LogIsNumbered ==
  /\ \A e, f \in log : e.sequence = f.sequence => e = f
  /\ {e.sequence : e \in log} = 1 .. Cardinality(log)

\* What Codex's lines become.
OutputOf(lines) ==
  LET upTo[n \in 0 .. Len(lines)] ==
        IF n = 0 THEN << >> ELSE upTo[n - 1] \o Translation[lines[n]]
  IN upTo[Len(lines)]

Output(w) == OutputOf(codex[w].written)

\* run_codex_launch: what the log has of a Codex run is a beginning of what
\* Codex wrote, in that order and without repetition; and if the session was
\* reported as completed, Codex has exited with code 0 and the log has all that
\* was read of it, before the report.
LogTellsOutput ==
  \A w \in Workers :
    LET events == {e \in log : e.by = w /\ e.nth > 0}
    IN /\ {e.nth : e \in events} = 1 .. Cardinality(events)
       /\ \A e \in events : e.nth <= Len(Output(w)) /\ e.type = Output(w)[e.nth]
       /\ \A e, f \in events : e.nth < f.nth => e.sequence < f.sequence
       /\ \A done \in log :
            done.by = w /\ done.type = "session_completed" =>
              /\ codex[w].state = "exited" /\ Cardinality(events) = codex[w].made
              /\ \A e \in events : e.sequence < done.sequence

\* turn_count (and the other counters, which are kept in the same way) is what
\* the log adds up to, although each transaction writes a value it has computed
\* from what it loaded: calls of one worker overlap only when it has given one
\* up.  Two runs of Codex, after two handshakes at once, may lose counts.
CountsAreLogged ==
  (\A w, x \in Workers : codex[w].made > 0 /\ codex[x].made > 0 => w = x)
    => session.turns = Cardinality({e \in log : e.type = "turn_started"})

\* rebuild_session_projection.
Projected(row, type) ==
  [status |-> CASE type = "session_failed" -> "failed"
                [] type = "session_completed" -> "completed"
                [] type \in Progress -> "running"
                [] OTHER -> row.status,
   turns |-> row.turns + (IF type = "turn_started" THEN 1 ELSE 0)]

Projection(events) ==
  LET upTo[n \in 0 .. Cardinality(events)] ==
        IF n = 0 THEN [status |-> "launching", turns |-> 0]
        ELSE Projected(upTo[n - 1], (CHOOSE e \in events : e.sequence = n).type)
  IN upTo[Cardinality(events)]

\* test_runtime_events_persist_and_projection_rebuilds_session_state: the
\* session can be rebuilt from its log, as long as no transaction has written
\* over rows that had changed and no operator took part.
ProjectionAgrees ==
  ~raced /\ (\A e \in log : e.type # "operator_cancelled")
    => Projection(log) = [status |-> session.status, turns |-> session.turns]

\* When a session has ended, by a timeout, an operator or a report, its Codex
\* does not go on: the worker learns of it by an event or a heartbeat that is
\* refused, the latter once the environment is given up.
CodexStops ==
  \A w \in Workers :
    session.status \in Closed /\ codex[w].state = "running"
      ~> session.status \notin Closed \/ codex[w].state # "running"

\* test_live_runner_processes_launch_with_real_codex_events: a session that is
\* reported as completed has an event for every line Codex wrote.  It does not
\* if Codex ends while the worker is busy with a heartbeat.
CompletedIsTold ==
  \A done \in log :
    done.type = "session_completed" => codex[done.by].made = Len(Output(done.by))
=============================================================================
