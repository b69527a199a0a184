-------------------------- MODULE RunnerSessionProofs --------------------------
(***************************************************************************)
(* The event log of a session, for any workers, bounds and number of       *)
(* transactions in progress.                                               *)
(*                                                                         *)
(* Its numbering has no gaps, although each transaction takes its number   *)
(* from what it reads and no row is locked.  It tells what Codex wrote, in *)
(* order; turns are counted as it has them; and the session can be rebuilt *)
(* from it.  What is made of lines, or of events, is computed by recursive *)
(* functions; the induction along them is by the least number that fails.  *)
(***************************************************************************)
EXTENDS RunnerSession, FiniteSetTheorems, SequenceTheorems, TLAPS

USE RunnerAssumption

\* Each actor's transactions have slots of their own.
LEMMA SlotsDiffer ==
  /\ LoopCall \in Slots /\ Cancellation \in Slots
  /\ \A w \in Workers : /\ Live(w) \in Slots /\ Stale(w) \in Slots /\ Live(w) # Stale(w)
                         /\ Live(w)[1] = w /\ Stale(w)[1] = w
  /\ \A s \in Slots : s[1] \in Workers \cup {Loop, Operator}
BY DEF Slots, LoopCall, Cancellation, Live, Stale

\* A transaction starts, or ends, with what TypeOK wants.
LEMMA TransactionTypes ==
  /\ NoCall \in Transaction
  /\ TypeOK => \A type \in EventTypes : \A nth \in Nat :
       /\ Loaded(type, nth) \in Transaction
       /\ Loaded(type, nth).at = "number" /\ Loaded(type, nth).type = type
  /\ \A s : Replied(s, "ok") \in Transaction /\ Replied(s, "refused") \in Transaction
  /\ \A s : Replied(s, "ok").at \notin InFlight /\ Replied(s, "refused").at \notin InFlight
<1>1. NoCall \in Transaction /\ NoCall.at = "none"
  BY DEF NoCall, Transaction, Statuses, Closed, LaneStates
<1>2. ASSUME TypeOK, NEW type \in EventTypes, NEW nth \in Nat
      PROVE  /\ Loaded(type, nth) \in Transaction
             /\ Loaded(type, nth).at = "number" /\ Loaded(type, nth).type = type
  BY <1>2 DEF TypeOK, Loaded, NoCall, Transaction, InFlight
<1>3. ASSUME NEW s, NEW reply \in {"ok", "refused"}
      PROVE  Replied(s, reply) \in Transaction /\ Replied(s, reply).at \notin InFlight
  BY DEF Replied, NoCall, Transaction, InFlight, Statuses, Closed, LaneStates
<1>. QED  BY <1>1, <1>2, <1>3

\* What a call, or giving one up, leaves in the slots: a worker's two slots
\* change, and a number that was taken stays where it is or moves with its
\* transaction.
NumbersKept ==
  \A s \in Slots : tx'[s].at = "write" =>
    \E t \in Slots : tx[t].at = "write" /\ tx[t].sequence = tx'[s].sequence

SlotsTyped ==
  /\ tx \in [Slots -> Transaction]
  /\ \A s \in Slots : tx[s].at \in InFlight =>
       tx[s].type \in EventTypes /\ (tx[s].type = "session_started" => s[1] \in Workers)

\* A worker has two slots, for the call it waits for and one it has given up.
LEMMA TwoSlots ==
  ASSUME TypeOK, NEW w \in Workers, NEW call \in Transaction, call.at # "write",
         call.at \in InFlight => call.type \in EventTypes,
         tx' = [tx EXCEPT ![Live(w)] = call,
                          ![Stale(w)] = IF tx[Live(w)].at \in InFlight THEN tx[Live(w)] ELSE @]
  PROVE  SlotsTyped' /\ NumbersKept
<1>1. tx \in [Slots -> Transaction] /\ Live(w) \in Slots /\ Stale(w) \in Slots
      /\ Live(w) # Stale(w) /\ Live(w)[1] = w /\ Stale(w)[1] = w
  BY SlotsDiffer DEF TypeOK
<1>2. tx'[Live(w)] = call
  BY <1>1
<1>3. tx'[Stale(w)] = tx[Live(w)] \/ tx'[Stale(w)] = tx[Stale(w)]
  BY <1>1
<1>4. \A s \in Slots \ {Live(w), Stale(w)} : tx'[s] = tx[s]
  BY <1>1
<1>5. tx' \in [Slots -> Transaction]
  BY <1>1
<1>6. ASSUME NEW s \in Slots, tx'[s].at \in InFlight
      PROVE  tx'[s].type \in EventTypes /\ (tx'[s].type = "session_started" => s[1] \in Workers)
  <2>1. CASE s = Live(w)
    BY <1>1, <1>2, <1>6, <2>1
  <2>2. CASE s = Stale(w)
    BY <1>1, <1>3, <1>6, <2>2 DEF TypeOK
  <2>3. CASE s \notin {Live(w), Stale(w)}
    BY <1>4, <1>6, <2>3 DEF TypeOK
  <2>. QED  BY <2>1, <2>2, <2>3
<1>7. NumbersKept
  BY <1>1, <1>2, <1>3, <1>4 DEF NumbersKept
<1>. QED  BY <1>5, <1>6, <1>7 DEF SlotsTyped

\* A call keeps the slots typed and the numbers asked for.
LEMMA CallsKeep ==
  ASSUME TypeOK, NEW w \in Workers, NEW type \in EventTypes, NEW nth \in Nat, Calls(w, type, nth)
  PROVE  SlotsTyped' /\ NumbersKept
<1>1. Loaded(type, nth) \in Transaction /\ Loaded(type, nth).at = "number"
      /\ Loaded(type, nth).type = type
  BY TransactionTypes
<1>2. [NoCall EXCEPT !.at = "refused"] \in Transaction
      /\ [NoCall EXCEPT !.at = "refused"].at = "refused"
  BY DEF NoCall, Transaction, InFlight, Statuses, Closed, LaneStates
<1>3. PICK call \in Transaction :
        /\ call.at \in InFlight => call.type \in EventTypes
        /\ call.at # "write"
        /\ tx' = [tx EXCEPT ![Live(w)] = call,
                            ![Stale(w)] = IF tx[Live(w)].at \in InFlight THEN tx[Live(w)] ELSE @]
  <2>1. CASE Accepted(w, type)
    BY <1>1, <2>1 DEF Calls
  <2>2. CASE ~Accepted(w, type)
    BY <1>2, <2>2 DEF Calls, InFlight
  <2>. QED  BY <2>1, <2>2
<1>. QED  BY <1>3, TwoSlots

\* So does giving a call up.
LEMMA HangsKeep ==
  ASSUME TypeOK, NEW w \in Workers, Hangs(w)
  PROVE  SlotsTyped' /\ NumbersKept
<1>1. NoCall \in Transaction /\ NoCall.at = "none"
  BY TransactionTypes DEF NoCall
<1>2. tx' = [tx EXCEPT ![Live(w)] = NoCall,
                       ![Stale(w)] = IF tx[Live(w)].at \in InFlight THEN tx[Live(w)] ELSE @]
  BY DEF Hangs
<1>. QED  BY <1>1, <1>2, TwoSlots DEF InFlight

\* The events a line becomes are events of a run's progress.
LEMMA TranslationTypes ==
  \A kind \in Lines : Translation[kind] \in Seq(Progress)
<1>1. SUFFICES ASSUME NEW kind \in {"turn.started", "turn.completed", "other", "noise"}
               PROVE  Translation[kind] \in Seq(Progress)
  BY DEF Translation
<1>2. CASE kind = "turn.started"
  <2>1. Translation[kind] = <<"turn_started">>
    BY <1>2 DEF Translation
  <2>. QED  BY <2>1 DEF Progress
<1>3. CASE kind = "turn.completed"
  <2>1. Translation[kind] = <<"token_usage_reported", "turn_completed">>
    BY <1>3 DEF Translation
  <2>. QED  BY <2>1 DEF Progress
<1>4. CASE kind = "other"
  <2>1. Translation[kind] = <<"status_summary">>
    BY <1>4 DEF Translation
  <2>. QED  BY <2>1 DEF Progress
<1>5. CASE kind = "noise"
  <2>1. Translation[kind] = << >>
    BY <1>5 DEF Translation
  <2>. QED  BY <2>1
<1>. QED  BY <1>2, <1>3, <1>4, <1>5

\* The rows a committed transaction leaves.
LEMMA CommitTypes ==
  ASSUME TypeOK, NEW s \in Slots, tx[s].at = "write", Commits(s)
  PROVE  /\ session' \in [status : Statuses, runner : Workers \cup {NoRunner}, turns : Nat]
         /\ lane' \in LaneStates /\ env' \in {"ready", "terminated"}
         /\ raced' \in BOOLEAN
<1>1. tx[s] \in Transaction /\ tx[s].type \in EventTypes
  BY DEF TypeOK, InFlight
<1>2. StatusAfter(tx[s].type) \in Statuses /\ LaneAfter(tx[s].type) \in LaneStates
  BY <1>1 DEF StatusAfter, LaneAfter, Statuses, Closed, LaneStates, EventTypes, Ends
<1>3. CASE tx[s].type = "session_started"
  <2>1. s[1] \in Workers
    BY <1>3 DEF TypeOK, InFlight
  <2>. QED  BY <1>1, <1>2, <1>3, <2>1 DEF TypeOK, Commits, WriteChanged, Transaction
<1>4. CASE tx[s].type # "session_started"
  BY <1>1, <1>2, <1>4 DEF TypeOK, Commits, WriteChanged, Transaction
<1>. QED  BY <1>3, <1>4

\* The log a committed transaction leaves, and the slots.
LEMMA CommitLogs ==
  ASSUME TypeOK, NEW s \in Slots, tx[s].at = "write", tx[s].sequence # 0, Commits(s)
  PROVE  log' \subseteq Event /\ SlotsTyped'
<1>1. tx[s] \in Transaction /\ tx[s].type \in EventTypes /\ s[1] \in Workers \cup {Loop, Operator}
  BY SlotsDiffer DEF TypeOK, InFlight
<1>2. [sequence |-> tx[s].sequence, type |-> tx[s].type, by |-> s[1], nth |-> tx[s].nth] \in Event
  BY <1>1 DEF Event, Transaction
<1>3. tx' = [tx EXCEPT ![s] = Replied(s, "ok")]
  BY DEF Commits
<1>. QED  BY <1>2, <1>3, TransactionTypes DEF TypeOK, Commits, SlotsTyped

-----------------------------------------------------------------------------
(* The numbers *)

\* The log is numbered, and a transaction holds a number of the log or the next:
\* the log only grows after the number was read.
Numbering ==
  /\ IsFiniteSet(log)
  /\ LogIsNumbered
  /\ \A s \in Slots : tx[s].at = "write" => tx[s].sequence \in 1 .. Cardinality(log) + 1

\* The next number of a numbered log is one more than its length.
LEMMA NextIsFree ==
  ASSUME IsFiniteSet(log), LogIsNumbered
  PROVE  NextSequence = Cardinality(log) + 1
<1>1. Cardinality(log) \in Nat /\ (log = {} <=> Cardinality(log) = 0)
  BY FS_CardinalityType, FS_EmptySet
<1>2. CASE log = {}
  BY <1>1, <1>2 DEF NextSequence
<1>3. CASE log # {}
  <2> DEFINE N == {e.sequence : e \in log}
             highest == CHOOSE n \in N : \A e \in log : e.sequence <= n
  <2>1. N = 1 .. Cardinality(log) /\ Cardinality(log) \in N
    BY <1>1, <1>3 DEF LogIsNumbered
  <2>2. \A n \in N : (\A e \in log : e.sequence <= n) <=> n = Cardinality(log)
    BY <1>1, <2>1
  <2>3. highest = Cardinality(log)
    BY <2>1, <2>2
  <2>4. NextSequence = 1 + highest
    BY <1>3, Zenon DEF NextSequence
  <2> HIDE DEF highest
  <2>. QED  BY <1>1, <2>3, <2>4
<1>. QED  BY <1>2, <1>3

LEMMA LogSame ==
  ASSUME Numbering, log' = log, NumbersKept
  PROVE  Numbering'
BY DEF Numbering, LogIsNumbered, NumbersKept

\* An event committed under a free number continues the numbering.
LEMMA CommitNumbers ==
  ASSUME TypeOK, Numbering, NEW s \in Slots, tx[s].at = "write", ~Taken(tx[s].sequence), Commits(s)
  PROVE  Numbering'
<1> DEFINE n == Cardinality(log)
           event == [sequence |-> tx[s].sequence, type |-> tx[s].type, by |-> s[1],
                     nth |-> tx[s].nth]
<1>1. n \in Nat
  BY FS_CardinalityType DEF Numbering
<1>2. tx[s].sequence = n + 1
  <2>1. {e.sequence : e \in log} = 1 .. n
    BY DEF Numbering, LogIsNumbered
  <2>2. tx[s].sequence \notin 1 .. n
    BY <2>1 DEF Taken
  <2>. QED  BY <1>1, <2>2 DEF Numbering
<1>3. log' = log \cup {event} /\ event.sequence = n + 1
  BY <1>2 DEF Commits
<1>4. event \notin log
  BY <1>2 DEF Taken
<1>5. IsFiniteSet(log') /\ Cardinality(log') = n + 1
  BY <1>3, <1>4, FS_AddElement DEF Numbering
<1>6. LogIsNumbered'
  <2>1. {e.sequence : e \in log'} = {e.sequence : e \in log} \cup {n + 1}
    BY <1>3
  <2>2. {e.sequence : e \in log'} = 1 .. Cardinality(log')
    BY <1>1, <1>5, <2>1 DEF Numbering, LogIsNumbered
  <2>3. \A e \in log : e.sequence # n + 1
    BY <1>2 DEF Taken
  <2>4. \A e, f \in log' : e.sequence = f.sequence => e = f
    BY <1>3, <2>3 DEF Numbering, LogIsNumbered
  <2>. QED  BY <2>2, <2>4 DEF LogIsNumbered
<1>7. ASSUME NEW t \in Slots, tx'[t].at = "write"
      PROVE  tx'[t].sequence \in 1 .. Cardinality(log') + 1
  <2>1. tx' = [tx EXCEPT ![s] = Replied(s, "ok")] /\ Replied(s, "ok").at # "write"
    BY TransactionTypes DEF Commits, InFlight
  <2>2. tx'[t] = tx[t]
    BY <1>7, <2>1 DEF TypeOK
  <2>. QED  BY <1>1, <1>5, <1>7, <2>2 DEF Numbering
<1>. QED  BY <1>5, <1>6, <1>7 DEF Numbering

-----------------------------------------------------------------------------
(* The steps *)

IInv == TypeOK /\ Numbering

LEMMA NumberKeeps ==
  ASSUME IInv, NEW s \in Slots, Number(s), faults' \in 0 .. MaxFaults
  PROVE  IInv'
<1>1. NextSequence = Cardinality(log) + 1 /\ Cardinality(log) \in Nat
  BY NextIsFree, FS_CardinalityType DEF IInv, Numbering
<1> DEFINE call == [tx[s] EXCEPT !.at = "write", !.sequence = NextSequence]
<1>2. tx[s] \in Transaction /\ tx[s].at = "number"
  BY DEF IInv, TypeOK, Number
<1>3. call \in Transaction /\ call.at = "write" /\ call.type = tx[s].type
      /\ call.sequence = Cardinality(log) + 1
  <2> DEFINE next == NextSequence
  <2>1. next \in Nat
    BY <1>1
  <2> HIDE DEF next
  <2>2. /\ [tx[s] EXCEPT !.at = "write", !.sequence = next] \in Transaction
        /\ [tx[s] EXCEPT !.at = "write", !.sequence = next].at = "write"
        /\ [tx[s] EXCEPT !.at = "write", !.sequence = next].type = tx[s].type
        /\ [tx[s] EXCEPT !.at = "write", !.sequence = next].sequence = next
    BY <1>2, <2>1 DEF Transaction, InFlight
  <2>. QED  BY <1>1, <2>2 DEF next
<1>4. tx' = [tx EXCEPT ![s] = call]
  BY DEF Number
<1>5. SlotsTyped'
  BY <1>2, <1>3, <1>4 DEF IInv, TypeOK, SlotsTyped, InFlight
<1>6. TypeOK'
  BY <1>5 DEF IInv, TypeOK, SlotsTyped, Number
<1>7. \A t \in Slots : tx'[t].at = "write" => tx'[t].sequence \in 1 .. Cardinality(log) + 1
  BY <1>1, <1>3, <1>4 DEF IInv, TypeOK, Numbering
<1>. QED  BY <1>6, <1>7 DEF IInv, Numbering, LogIsNumbered, Number

\* A transaction that is refused, and one that begins.
LEMMA SlotKeeps ==
  ASSUME IInv, NEW s \in Slots, NEW call \in Transaction, call.at # "write",
         call.at \in InFlight =>
           call.type \in EventTypes /\ (call.type = "session_started" => s[1] \in Workers),
         tx' = [tx EXCEPT ![s] = call], faults' \in 0 .. MaxFaults,
         UNCHANGED <<session, lane, env, log, worker, codex, toPost, raced>>
  PROVE  IInv'
<1>1. SlotsTyped' /\ NumbersKept
  BY DEF IInv, TypeOK, SlotsTyped, NumbersKept
<1>2. TypeOK'
  BY <1>1 DEF IInv, TypeOK, SlotsTyped
<1>. QED  BY <1>1, <1>2, LogSame DEF IInv

LEMMA WriteKeeps ==
  ASSUME IInv, NEW s \in Slots, Write(s), faults' \in 0 .. MaxFaults
  PROVE  IInv'
<1>1. CASE Taken(tx[s].sequence)
  <2>1. tx' = [tx EXCEPT ![s] = Replied(s, "refused")]
        /\ UNCHANGED <<session, lane, env, log, worker, codex, toPost, raced>>
    BY <1>1 DEF Write
  <2>2. Replied(s, "refused") \in Transaction /\ Replied(s, "refused").at \notin InFlight
    BY TransactionTypes
  <2>. QED  BY <2>1, <2>2, SlotKeeps DEF InFlight
<1>2. CASE ~Taken(tx[s].sequence)
  <2>1. Commits(s) /\ tx[s].at = "write" /\ UNCHANGED <<worker, codex, toPost>>
    BY <1>2 DEF Write
  <2>2. tx[s].sequence # 0
    BY <2>1, FS_CardinalityType DEF IInv, Numbering
  <2>3. Numbering'
    BY <1>2, <2>1, CommitNumbers DEF IInv
  <2>4. TypeOK'
    BY <2>1, <2>2, CommitTypes, CommitLogs DEF IInv, TypeOK, SlotsTyped
  <2>. QED  BY <2>3, <2>4 DEF IInv
<1>. QED  BY <1>1, <1>2

\* A worker, its Codex and its events are what TypeOK wants.
Attends(place, run, events) ==
  /\ run.state = "running" => place \in {"codex", "silent"}
  /\ events # << >> => place = "codex"
  /\ Len(events) <= run.made
  /\ run.read <= run.fetched /\ run.fetched <= Len(run.written)

Places == {"polling", "launch", "handshake", "greeting", "codex", "silent", "report"}

\* A step of a worker that leaves the rows alone and the worker as it should be.
LEMMA WorkerKeeps ==
  ASSUME IInv, SlotsTyped', NumbersKept, RowsSame, faults' \in 0 .. MaxFaults, NEW w \in Workers,
         NEW place \in Places, NEW run \in CodexRun, NEW events \in Seq(Progress),
         Attends(place, run, events),
         worker' = [worker EXCEPT ![w] = place], codex' = [codex EXCEPT ![w] = run],
         toPost' = [toPost EXCEPT ![w] = events]
  PROVE  IInv'
<1>1. /\ worker \in [Workers -> Places] /\ codex \in [Workers -> CodexRun]
      /\ toPost \in [Workers -> Seq(Progress)]
      /\ \A v \in Workers : Attends(worker[v], codex[v], toPost[v])
  BY DEF IInv, TypeOK, Places, Attends
<1>2. /\ worker' \in [Workers -> Places] /\ codex' \in [Workers -> CodexRun]
      /\ toPost' \in [Workers -> Seq(Progress)]
  BY <1>1
<1>3. \A v \in Workers : Attends(worker'[v], codex'[v], toPost'[v])
  <2>1. Attends(worker'[w], codex'[w], toPost'[w])
    BY <1>1
  <2>2. \A v \in Workers \ {w} : worker'[v] = worker[v] /\ codex'[v] = codex[v] /\ toPost'[v] = toPost[v]
    BY <1>1
  <2>. QED  BY <1>1, <2>1, <2>2
<1>4. TypeOK'
  BY <1>2, <1>3 DEF IInv, TypeOK, SlotsTyped, RowsSame, Places, Attends
<1>5. Numbering'
  BY LogSame DEF IInv, RowsSame
<1>. QED  BY <1>4, <1>5 DEF IInv

\* What a worker has, before a step.
LEMMA WorkerHas ==
  ASSUME IInv, NEW w \in Workers
  PROVE  /\ worker[w] \in Places /\ codex[w] \in CodexRun /\ toPost[w] \in Seq(Progress)
         /\ Attends(worker[w], codex[w], toPost[w])
         /\ worker = [worker EXCEPT ![w] = worker[w]]
         /\ codex = [codex EXCEPT ![w] = codex[w]]
         /\ toPost = [toPost EXCEPT ![w] = toPost[w]]
BY DEF IInv, TypeOK, Places, Attends

LEMMA EventNames ==
  /\ Progress \subseteq EventTypes /\ Ends \subseteq EventTypes
  /\ "session_started" \in EventTypes /\ "status_summary" \in EventTypes
  /\ "session_failed" \in EventTypes /\ "session_completed" \in EventTypes
  /\ "operator_cancelled" \in EventTypes
BY DEF EventTypes, Progress, Ends

\* A worker goes somewhere else, with a call or without, and neither its Codex
\* nor its events change.
LEMMA MoveKeeps ==
  ASSUME IInv, NEW w \in Workers, NEW place \in Places, SlotsTyped', NumbersKept, RowsSame,
         faults' \in 0 .. MaxFaults, codex[w].state # "running", toPost[w] = << >>,
         worker' = [worker EXCEPT ![w] = place], UNCHANGED <<codex, toPost>>
  PROVE  IInv'
<1>1. Attends(place, codex[w], toPost[w])
  BY WorkerHas DEF Attends
<1>. QED  BY <1>1, WorkerHas, WorkerKeeps

\* Away from Codex, none runs and nothing waits to be posted.
LEMMA NoCodexElsewhere ==
  ASSUME IInv, NEW w \in Workers, worker[w] \notin {"codex", "silent"}
  PROVE  codex[w].state # "running" /\ toPost[w] = << >>
BY DEF IInv, TypeOK

LEMMA DispatchKeeps ==
  ASSUME IInv, NEW w \in Workers, faults' \in 0 .. MaxFaults,
         Poll(w) \/ ShakeHands(w) \/ Greet(w) \/ LaunchEnds(w)
  PROVE  IInv'
<1>1. CASE Poll(w)
  <2>1. SlotsTyped' /\ NumbersKept
    BY <1>1 DEF Poll, IInv, TypeOK, SlotsTyped, NumbersKept
  <2>. QED  BY <1>1, <2>1, MoveKeeps, NoCodexElsewhere DEF Poll, Places
<1>2. CASE ShakeHands(w)
  <2>1. SlotsTyped' /\ NumbersKept
    BY <1>2, CallsKeep, EventNames DEF ShakeHands, IInv
  <2>. QED  BY <1>2, <2>1, MoveKeeps, NoCodexElsewhere DEF ShakeHands, Places
<1>3. CASE Greet(w)
  <2>1. SlotsTyped' /\ NumbersKept
    BY <1>3, CallsKeep, EventNames DEF Greet, IInv
  <2>. QED  BY <1>3, <2>1, MoveKeeps, NoCodexElsewhere DEF Greet, Places
<1>4. CASE LaunchEnds(w)
  <2>1. SlotsTyped' /\ NumbersKept
    BY <1>4, HangsKeep DEF LaunchEnds, IInv
  <2>. QED  BY <1>4, <2>1, MoveKeeps, NoCodexElsewhere DEF LaunchEnds, Places
<1>. QED  BY <1>1, <1>2, <1>3, <1>4

LEMMA StartKeeps ==
  ASSUME IInv, NEW w \in Workers, faults' \in 0 .. MaxFaults, StartCodex(w)
  PROVE  IInv'
<1> DEFINE run == [NoCodex EXCEPT !.state = "running"]
<1>1. SlotsTyped' /\ NumbersKept
  BY HangsKeep DEF StartCodex, IInv
<1>2. toPost[w] = << >>
  BY NoCodexElsewhere DEF StartCodex
<1>3. run \in CodexRun /\ Attends("codex", run, toPost[w])
  <2>1. run = [state |-> "running", written |-> << >>, fetched |-> 0, read |-> 0, made |-> 0]
    BY DEF NoCodex
  <2>2. << >> \in Seq(Lines) /\ Len(<< >>) = 0
    OBVIOUS
  <2> HIDE DEF run
  <2>3. run \in CodexRun
    BY <2>1, <2>2 DEF CodexRun
  <2>4. Attends("codex", run, << >>)
    BY <2>1, <2>2 DEF Attends
  <2>. QED  BY <1>2, <2>3, <2>4
<1>4. worker' = [worker EXCEPT ![w] = "codex"] /\ codex' = [codex EXCEPT ![w] = run]
      /\ toPost' = [toPost EXCEPT ![w] = toPost[w]] /\ RowsSame
  BY WorkerHas DEF StartCodex
<1>. QED  BY <1>1, <1>3, <1>4, WorkerHas, WorkerKeeps DEF Places

LEMMA ReadKeeps ==
  ASSUME IInv, NEW w \in Workers, faults' \in 0 .. MaxFaults, ReadLine(w)
  PROVE  IInv'
<1> DEFINE run == codex[w]
           events == Translation[run.written[run.read + 1]]
<1>1. SlotsTyped' /\ NumbersKept
  BY DEF ReadLine, IInv, TypeOK, SlotsTyped, NumbersKept
<1>2. run \in CodexRun /\ Attends("codex", run, << >>) /\ run.read < Len(run.written)
  BY WorkerHas DEF ReadLine, Working
<1>3. events \in Seq(Progress)
  BY <1>2, TranslationTypes DEF CodexRun
<1> HIDE DEF events
<1>4. PICK n \in run.read + 1 .. Len(run.written) :
        codex' = [codex EXCEPT ![w] = [run EXCEPT !.fetched = n, !.read = run.read + 1,
                                                  !.made = run.made + Len(events)]]
  BY Zenon DEF ReadLine, events
<1>5. /\ [run EXCEPT !.fetched = n, !.read = run.read + 1, !.made = run.made + Len(events)] \in CodexRun
      /\ Attends("codex", [run EXCEPT !.fetched = n, !.read = run.read + 1,
                                      !.made = run.made + Len(events)], events)
  <2> DEFINE made == run.made + Len(events)
             read == run.read + 1
             after == [run EXCEPT !.fetched = n, !.read = read, !.made = made]
  <2>1. made \in Nat /\ Len(events) <= made /\ read \in Nat /\ n \in Nat
        /\ read <= n /\ n <= Len(run.written)
    <3>1. run.made \in Nat /\ run.read \in Nat /\ Len(run.written) \in Nat
      BY <1>2 DEF CodexRun
    <3>2. Len(events) \in Nat
      BY <1>3
    <3> HIDE DEF run
    <3>. QED  BY <3>1, <3>2
  <2> HIDE DEF made, read, run
  <2>2. /\ after \in CodexRun /\ after.made = made /\ after.read = read /\ after.fetched = n
        /\ after.written = run.written
    BY <1>2, <2>1 DEF CodexRun
  <2>3. Attends("codex", after, events)
    BY <2>1, <2>2 DEF Attends
  <2>. QED  BY <2>2, <2>3 DEF made, read
<1>6. worker' = [worker EXCEPT ![w] = "codex"] /\ toPost' = [toPost EXCEPT ![w] = events]
      /\ RowsSame
  BY WorkerHas DEF ReadLine, Working, events
<1>. QED  BY <1>1, <1>3, <1>4, <1>5, <1>6, WorkerKeeps DEF Places

LEMMA PostKeeps ==
  ASSUME IInv, NEW w \in Workers, faults' \in 0 .. MaxFaults, PostEvent(w) \/ EventTaken(w)
  PROVE  IInv'
<1>1. CASE PostEvent(w)
  <2>1. /\ toPost[w] \in Seq(Progress) /\ toPost[w] # << >> /\ codex[w] \in CodexRun
        /\ Len(toPost[w]) <= codex[w].made
    BY <1>1, WorkerHas DEF PostEvent, Attends
  <2>2. Head(toPost[w]) \in Progress /\ Tail(toPost[w]) \in Seq(Progress)
        /\ Len(toPost[w]) \in Nat /\ Len(Tail(toPost[w])) = Len(toPost[w]) - 1
    BY <2>1
  <2>3. codex[w].made \in Nat
    BY <2>1 DEF CodexRun
  <2>4. Head(toPost[w]) \in EventTypes /\ Tail(toPost[w]) \in Seq(Progress)
        /\ Len(Tail(toPost[w])) <= codex[w].made
        /\ codex[w].made - Len(toPost[w]) + 1 \in Nat
    BY <2>1, <2>2, <2>3, EventNames
  <2>5. SlotsTyped' /\ NumbersKept
    BY <1>1, <2>4, CallsKeep DEF PostEvent, IInv
  <2>6. Attends("codex", codex[w], Tail(toPost[w]))
    BY <2>4, WorkerHas DEF Attends
  <2>7. worker' = [worker EXCEPT ![w] = "codex"] /\ codex' = [codex EXCEPT ![w] = codex[w]]
        /\ toPost' = [toPost EXCEPT ![w] = Tail(toPost[w])] /\ RowsSame
    BY <1>1, WorkerHas DEF PostEvent, Working
  <2>. QED  BY <2>4, <2>5, <2>6, <2>7, WorkerHas, WorkerKeeps DEF Places
<1>2. CASE EventTaken(w)
  <2>1. SlotsTyped' /\ NumbersKept
    BY <1>2, HangsKeep DEF EventTaken, IInv
  <2>2. UNCHANGED <<worker, codex, toPost>> /\ RowsSame
    BY <1>2 DEF EventTaken
  <2>. QED  BY <2>1, <2>2, WorkerHas, WorkerKeeps
<1>. QED  BY <1>1, <1>2

\* Codex ends, or writes, and the worker goes where nothing waits for it.
LEMMA KilledRun ==
  ASSUME IInv, NEW w \in Workers, NEW place \in Places, SlotsTyped', NumbersKept, RowsSame,
         faults' \in 0 .. MaxFaults,
         worker' = [worker EXCEPT ![w] = place],
         codex' = [codex EXCEPT ![w].state = IF @ = "running" THEN "killed" ELSE @],
         toPost' = [toPost EXCEPT ![w] = << >>]
  PROVE  IInv'
<1> DEFINE run == [codex[w] EXCEPT !.state = IF codex[w].state = "running" THEN "killed"
                                             ELSE codex[w].state]
<1>1. codex[w] \in CodexRun /\ Attends(worker[w], codex[w], toPost[w]) /\ toPost[w] \in Seq(Progress)
  BY WorkerHas
<1>2. run \in CodexRun /\ run.state # "running" /\ run.made = codex[w].made
      /\ run.read = codex[w].read /\ run.fetched = codex[w].fetched
      /\ run.written = codex[w].written
  BY <1>1 DEF CodexRun
<1>3. Attends(place, run, << >>)
  BY <1>1, <1>2 DEF Attends, CodexRun
<1>4. codex' = [codex EXCEPT ![w] = run]
  BY DEF IInv, TypeOK
<1>5. << >> \in Seq(Progress)
  OBVIOUS
<1> HIDE DEF run
<1>. QED  BY <1>2, <1>3, <1>4, <1>5, WorkerKeeps

LEMMA FailureKeeps ==
  ASSUME IInv, NEW w \in Workers, faults' \in 0 .. MaxFaults,
         EventFails(w) \/ HeartbeatRefused(w) \/ HeartbeatLost(w) \/ WorkerDies(w)
  PROVE  IInv'
<1>1. CASE WorkerDies(w)
  <2>1. SlotsTyped' /\ NumbersKept
    BY <1>1, HangsKeep DEF WorkerDies, IInv
  <2>. QED  BY <1>1, <2>1, KilledRun DEF WorkerDies, Places
<1>2. CASE ~WorkerDies(w)
  <2>1. CodexKilled(w)
    BY <1>2 DEF EventFails, HeartbeatRefused, HeartbeatLost
  <2>2. SlotsTyped' /\ NumbersKept
    BY <2>1, CallsKeep, EventNames DEF CodexKilled, Report, IInv
  <2>. QED  BY <2>1, <2>2, KilledRun DEF CodexKilled, Report, Places
<1>. QED  BY <1>1, <1>2

LEMMA FinishKeeps ==
  ASSUME IInv, NEW w \in Workers, faults' \in 0 .. MaxFaults, Finish(w) \/ FinishUnread(w)
  PROVE  IInv'
<1>1. Reported(w) /\ codex[w].state # "running"
  BY DEF Finish, FinishUnread, Gone
<1>2. toPost[w] = << >>
  <2>1. CASE Finish(w)
    BY <2>1 DEF Finish
  <2>2. CASE FinishUnread(w)
    BY <2>2, WorkerHas DEF FinishUnread, Attends
  <2>. QED  BY <2>1, <2>2
<1>3. SlotsTyped' /\ NumbersKept
  BY <1>1, CallsKeep, EventNames DEF Reported, Report, IInv
<1>. QED  BY <1>1, <1>2, <1>3, MoveKeeps DEF Reported, Report, Places

\* The pipe is silent, and a heartbeat is taken.
LEMMA SilenceKeeps ==
  ASSUME IInv, NEW w \in Workers, faults' \in 0 .. MaxFaults, FallsSilent(w) \/ HeartbeatTaken(w)
  PROVE  IInv'
<1>1. PICK place \in {"codex", "silent"} :
        worker' = [worker EXCEPT ![w] = place] /\ RowsSame /\ UNCHANGED <<tx, codex, toPost>>
  BY Zenon DEF FallsSilent, HeartbeatTaken, ReadsOn
<1>2. toPost[w] = << >>
  BY WorkerHas DEF FallsSilent, HeartbeatTaken, Attends
<1>3. Attends(place, codex[w], toPost[w])
  BY <1>2, WorkerHas DEF Attends
<1>4. SlotsTyped' /\ NumbersKept
  BY <1>1 DEF IInv, TypeOK, SlotsTyped, NumbersKept
<1>5. codex' = [codex EXCEPT ![w] = codex[w]] /\ toPost' = [toPost EXCEPT ![w] = toPost[w]]
  BY <1>1, WorkerHas
<1>6. place \in Places
  BY DEF Places
<1>7. codex[w] \in CodexRun /\ toPost[w] \in Seq(Progress)
  BY WorkerHas
<1>. QED  BY <1>1, <1>3, <1>4, <1>5, <1>6, <1>7, WorkerKeeps

LEMMA CodexKeeps ==
  ASSUME IInv, NEW w \in Workers, faults' \in 0 .. MaxFaults, CodexWrites(w) \/ CodexExits(w)
  PROVE  IInv'
<1>1. SlotsTyped' /\ NumbersKept /\ RowsSame /\ UNCHANGED <<worker, toPost>>
  BY DEF CodexWrites, CodexExits, IInv, TypeOK, SlotsTyped, NumbersKept
<1>2. codex[w] \in CodexRun /\ Attends(worker[w], codex[w], toPost[w]) /\ codex[w].state = "running"
  BY WorkerHas DEF CodexWrites, CodexExits
<1>3. CASE CodexWrites(w)
  <2>1. PICK kind \in Lines :
          codex' = [codex EXCEPT ![w] = [codex[w] EXCEPT !.written = Append(codex[w].written, kind)]]
    BY <1>3 DEF CodexWrites, IInv, TypeOK
  <2> DEFINE written == Append(codex[w].written, kind)
  <2>2. written \in Seq(Lines) /\ Len(written) = Len(codex[w].written) + 1
    BY <1>2 DEF CodexRun
  <2> HIDE DEF written
  <2> DEFINE run == [codex[w] EXCEPT !.written = written]
  <2>3. run \in CodexRun
    BY <1>2, <2>2 DEF CodexRun
  <2>4. /\ run.state = "running" /\ run.written = written
        /\ run.read = codex[w].read /\ run.fetched = codex[w].fetched /\ run.made = codex[w].made
    BY <1>2 DEF CodexRun
  <2>5. codex[w].fetched \in Nat /\ Len(codex[w].written) \in Nat
    BY <1>2 DEF CodexRun
  <2>6. codex' = [codex EXCEPT ![w] = run]
    BY <2>1 DEF written
  <2> HIDE DEF run
  <2>7. Attends(worker[w], run, toPost[w])
    BY <1>2, <2>2, <2>4, <2>5 DEF Attends
  <2>. QED  BY <1>1, <2>3, <2>6, <2>7, WorkerHas, WorkerKeeps
<1>4. CASE CodexExits(w)
  <2>1. PICK state \in {"exited", "broken"} :
          codex' = [codex EXCEPT ![w] = [codex[w] EXCEPT !.state = state]]
    BY <1>4 DEF CodexExits, IInv, TypeOK
  <2>2. /\ [codex[w] EXCEPT !.state = state] \in CodexRun
        /\ Attends(worker[w], [codex[w] EXCEPT !.state = state], toPost[w])
    BY <1>2 DEF CodexRun, Attends
  <2>. QED  BY <1>1, <2>1, <2>2, WorkerHas, WorkerKeeps
<1>. QED  BY <1>3, <1>4

LEMMA ApiKeeps ==
  ASSUME IInv, faults' \in 0 .. MaxFaults,
         \/ DeadlinePasses \/ OperatorCancels \/ CleanupOrphan
         \/ \E s \in Slots : Abort(s)
  PROVE  IInv'
<1>1. CASE DeadlinePasses
  <2> DEFINE call == Loaded("session_failed", 0)
  <2>1. call \in Transaction /\ call.at = "number" /\ call.type = "session_failed"
    BY TransactionTypes, EventNames DEF IInv
  <2>2. tx' = [tx EXCEPT ![LoopCall] = call]
        /\ UNCHANGED <<session, lane, env, log, worker, codex, toPost, raced>>
    BY <1>1 DEF DeadlinePasses
  <2> HIDE DEF call
  <2>. QED  BY <2>1, <2>2, SlotsDiffer, EventNames, SlotKeeps
<1>2. CASE OperatorCancels
  <2> DEFINE call == Loaded("operator_cancelled", 0)
  <2>1. call \in Transaction /\ call.at = "number" /\ call.type = "operator_cancelled"
    BY TransactionTypes, EventNames DEF IInv
  <2>2. tx' = [tx EXCEPT ![Cancellation] = call]
        /\ UNCHANGED <<session, lane, env, log, worker, codex, toPost, raced>>
    BY <1>2 DEF OperatorCancels
  <2> HIDE DEF call
  <2>. QED  BY <2>1, <2>2, SlotsDiffer, EventNames, SlotKeeps
<1>3. CASE CleanupOrphan
  <2>1. TypeOK'
    BY <1>3 DEF CleanupOrphan, IInv, TypeOK
  <2>2. Numbering'
    BY <1>3 DEF CleanupOrphan, IInv, Numbering, LogIsNumbered
  <2>. QED  BY <2>1, <2>2 DEF IInv
<1>4. ASSUME NEW s \in Slots, Abort(s)
      PROVE  IInv'
  <2>1. Replied(s, "refused") \in Transaction /\ Replied(s, "refused").at \notin InFlight
    BY TransactionTypes
  <2>2. tx' = [tx EXCEPT ![s] = Replied(s, "refused")]
        /\ UNCHANGED <<session, lane, env, log, worker, codex, toPost, raced>>
    BY <1>4 DEF Abort
  <2>. QED  BY <2>1, <2>2, SlotKeeps DEF InFlight
<1>. QED  BY <1>1, <1>2, <1>3, <1>4

LEMMA InitHolds == Init => IInv
<1> SUFFICES ASSUME Init PROVE IInv
  OBVIOUS
<1>1. IsFiniteSet(log) /\ Cardinality(log) = 0 /\ log = {}
  BY FS_EmptySet DEF Init
<1>2. LogIsNumbered
  BY <1>1 DEF LogIsNumbered
<1>3. /\ tx = [s \in Slots |-> NoCall] /\ NoCall \in Transaction /\ NoCall.at = "none"
  BY TransactionTypes DEF Init, NoCall
<1>4. Numbering
  BY <1>1, <1>2, <1>3 DEF Numbering
<1>5. NoCodex \in CodexRun /\ NoCodex.state = "none" /\ NoCodex.made = 0 /\ NoCodex.read = 0
      /\ NoCodex.fetched = 0 /\ NoCodex.written = << >> /\ Len(NoCodex.written) = 0
  <2>1. << >> \in Seq(Lines) /\ Len(<< >>) = 0
    OBVIOUS
  <2>. QED  BY <2>1 DEF NoCodex, CodexRun
<1>6. << >> \in Seq(Progress) /\ Len(<< >>) = 0
  OBVIOUS
<1>7. session \in [status : Statuses, runner : Workers \cup {NoRunner}, turns : Nat]
      /\ lane \in LaneStates
  BY DEF Init, Fresh, Statuses, LaneStates
<1>8. \A w \in Workers : codex[w] = NoCodex /\ toPost[w] = << >>
  BY DEF Init
<1>9. codex \in [Workers -> CodexRun] /\ toPost \in [Workers -> Seq(Progress)]
  BY <1>5, <1>6 DEF Init
<1>10. \A s \in Slots : tx[s].at \notin InFlight
  BY <1>3 DEF InFlight
<1>11. \A w \in Workers :
         /\ codex[w].state = "running" \/ toPost[w] # << >> => worker[w] = "codex"
         /\ Len(toPost[w]) <= codex[w].made
         /\ codex[w].read <= codex[w].fetched /\ codex[w].fetched <= Len(codex[w].written)
  BY <1>5, <1>6, <1>8
<1>12. env \in {"ready", "terminated"} /\ log \subseteq Event /\ tx \in [Slots -> Transaction]
       /\ worker \in [Workers -> Places]
       /\ raced \in BOOLEAN /\ faults \in 0 .. MaxFaults
  <2>1. env \in {"ready", "terminated"}
    BY DEF Init
  <2>2. raced \in BOOLEAN
    BY Zenon DEF Init
  <2>3. faults \in 0 .. MaxFaults
    <3>1. faults = 0
      BY DEF Init
    <3>. QED  BY <3>1 DEF RunnerAssumption
  <2>4. tx \in [Slots -> Transaction]
    BY <1>3
  <2>5. log \subseteq Event
    BY <1>1
  <2>6. worker \in [Workers -> Places]
    BY DEF Init, Places
  <2>. QED  BY <2>1, <2>2, <2>3, <2>4, <2>5, <2>6
<1>13. TypeOK
  BY <1>7, <1>9, <1>10, <1>11, <1>12 DEF TypeOK, Places
<1>. QED  BY <1>4, <1>13 DEF IInv

LEMMA StepKeeps == IInv /\ [Next]_vars => IInv'
<1> SUFFICES ASSUME IInv, [Next]_vars PROVE IInv'
  OBVIOUS
<1>1. CASE UNCHANGED vars
  BY <1>1 DEF vars, IInv, TypeOK, Numbering, LogIsNumbered
<1>2. CASE Next
  <2>1. faults' \in 0 .. MaxFaults
    BY <1>2 DEF Next, IInv, TypeOK
  <2>2. ASSUME NEW s \in Slots, Handled(s)
        PROVE  IInv'
    BY <2>1, <2>2, NumberKeeps, WriteKeeps DEF Handled
  <2>3. ASSUME NEW w \in Workers,
               \/ Poll(w) \/ Goes(w) \/ HeartbeatRefused(w) \/ HeartbeatLost(w)
               \/ EventFails(w) \/ LaunchEnds(w) \/ WorkerDies(w)
               \/ CodexWrites(w) \/ CodexExits(w)
        PROVE  IInv'
    BY <2>1, <2>3, DispatchKeeps, StartKeeps, ReadKeeps, PostKeeps, FailureKeeps, FinishKeeps,
       SilenceKeeps, CodexKeeps DEF Goes
  <2>. QED  BY <1>2, <2>1, <2>2, <2>3, ApiKeeps DEF Next, Usual, Fault
<1>. QED  BY <1>1, <1>2

-----------------------------------------------------------------------------
(* Recursion along what was written, and along the log *)

\* Every set of natural numbers with an element has a least one.
LEMMA LeastNumber ==
  ASSUME NEW T \in SUBSET Nat, T # {}
  PROVE  \E n \in T : \A m \in T : n <= m
<1>1. IsWellFoundedOn(OpToRel(<, Nat), Nat)
  BY NatLessThanWellFounded
<1>2. PICK n \in T : \A m \in T : <<m, n>> \notin OpToRel(<, Nat)
  BY <1>1, WFMin
<1>3. n \in Nat /\ \A m \in T : m \in Nat /\ ~(m < n)
  BY <1>2 DEF OpToRel
<1>4. \A m \in T : n <= m
  BY <1>3
<1>. QED  BY <1>2, <1>4

\* Induction up to a bound.
LEMMA UpTo ==
  ASSUME NEW N \in Nat, NEW S, 0 \in S, \A n \in 0 .. N - 1 : n \in S => n + 1 \in S
  PROVE  \A n \in 0 .. N : n \in S
<1> DEFINE T == {n \in 0 .. N : n \notin S}
<1>1. SUFFICES ASSUME T # {} PROVE FALSE
  OBVIOUS
<1>2. T \in SUBSET Nat
  OBVIOUS
<1> HIDE DEF T
<1>3. PICK n \in T : \A m \in T : n <= m
  BY <1>1, <1>2, LeastNumber
<1>4. n \in 0 .. N /\ n \notin S
  BY <1>3 DEF T
<1>5. n - 1 \in 0 .. N - 1 /\ n - 1 \notin T
  BY <1>2, <1>3, <1>4
<1>6. n - 1 \in S
  BY <1>5 DEF T
<1>. QED  BY <1>4, <1>5, <1>6

\* A function defined by recursion up to N.  There is one, if the steps stay among V.
Recurs(f, step, v0, N) == f = [n \in 0 .. N |-> IF n = 0 THEN v0 ELSE step[n][f[n - 1]]]

\* By induction on N: what recurs up to k can be continued.
LEMMA RecursionExists ==
  ASSUME NEW N \in Nat, NEW V, NEW v0 \in V, NEW step \in [1 .. N -> [V -> V]]
  PROVE  \E f \in [0 .. N -> V] : Recurs(f, step, v0, N)
<1> DEFINE Does(f, k) == /\ f \in [0 .. k -> V] /\ f[0] = v0
                         /\ \A n \in 1 .. k : f[n] = step[n][f[n - 1]]
           S == {k \in 0 .. N : \E f : Does(f, k)}
<1>1. 0 \in S
  <2>1. Does([n \in 0 .. 0 |-> v0], 0)
    OBVIOUS
  <2> HIDE DEF Does
  <2>. QED  BY <2>1
<1>2. ASSUME NEW k \in 0 .. N - 1, k \in S
      PROVE  k + 1 \in S
  <2>1. PICK f : Does(f, k)
    BY <1>2
  <2>2. /\ k \in Nat /\ k + 1 \in 1 .. N /\ k + 1 \in 0 .. N
        /\ \A n \in 1 .. k : n - 1 \in 0 .. k /\ n \in 0 .. k
    OBVIOUS
  <2> DEFINE last == step[k + 1][f[k]]
             g == [n \in 0 .. k + 1 |-> IF n = k + 1 THEN last ELSE f[n]]
  <2>3. last \in V /\ \A n \in 0 .. k : f[n] \in V
    BY <2>1, <2>2
  <2> HIDE DEF last
  <2>4. g[k + 1] = last /\ \A n \in 0 .. k : g[n] = f[n]
    BY <2>2
  <2>5. \A n \in 0 .. k + 1 : g[n] \in V
    <3>1. \A n \in 0 .. k + 1 : n = k + 1 \/ n \in 0 .. k
      BY <2>2
    <3> HIDE DEF g
    <3>. QED  BY <2>3, <2>4, <3>1
  <2>6. g \in [0 .. k + 1 -> V]
    BY <2>5
  <2>7. ASSUME NEW n \in 1 .. k + 1
        PROVE  g[n] = step[n][g[n - 1]]
    <3> HIDE DEF g
    <3>1. CASE n = k + 1
      BY <2>2, <2>4, <3>1 DEF last
    <3>2. CASE n # k + 1
      <4>1. n \in 1 .. k
        BY <3>2
      <4>. QED  BY <2>1, <2>2, <2>4, <4>1
    <3>. QED  BY <3>1, <3>2
  <2>8. g[0] = v0
    BY <2>1, <2>2, <2>4
  <2>9. Does(g, k + 1)
    <3> HIDE DEF g
    <3>. QED  BY <2>6, <2>7, <2>8
  <2> HIDE DEF Does, g
  <2>. QED  BY <2>2, <2>9
<1>3. \A k \in 0 .. N : k \in S
  <2> HIDE DEF S
  <2>. QED  BY <1>1, <1>2, UpTo
<1>4. PICK f : Does(f, N)
  BY <1>3
<1>5. Recurs(f, step, v0, N)
  BY <1>4 DEF Recurs
<1>. QED  BY <1>4, <1>5

\* The rows that rebuilding goes through.
Row == [status : Statuses, turns : Nat]
NewRow == [status |-> "launching", turns |-> 0]
Nth(events, n) == CHOOSE e \in events : e.sequence = n

Rebuilds(f, events) ==
  /\ f \in [0 .. Cardinality(events) -> Row] /\ f[0] = NewRow
  /\ \A n \in 1 .. Cardinality(events) : f[n] = Projected(f[n - 1], Nth(events, n).type)

\* An event makes a row of a row.
LEMMA ProjectedTypes ==
  ASSUME NEW row \in Row, NEW type
  PROVE  Projected(row, type) \in Row
BY DEF Projected, Row, Statuses, Closed

\* Rebuilding is what it says.
LEMMA ProjectionUnfolds ==
  ASSUME NEW events, IsFiniteSet(events)
  PROVE  \E f : Rebuilds(f, events) /\ Projection(events) = f[Cardinality(events)]
<1> DEFINE N == Cardinality(events)
           type(n) == Nth(events, n).type
           Is(f) == f = [n \in 0 .. N |-> IF n = 0 THEN NewRow ELSE Projected(f[n - 1], type(n))]
           step == [n \in 1 .. N |-> [row \in Row |-> Projected(row, type(n))]]
           upTo == CHOOSE f : Is(f)
<1>1. N \in Nat
  BY FS_CardinalityType
<1>2. Projection(events) = upTo[N]
  BY DEF Projection, Nth, NewRow
<1>3. NewRow \in Row
  BY DEF NewRow, Row, Statuses
<1>4. step \in [1 .. N -> [Row -> Row]]
  BY ProjectedTypes
<1>5. \A n \in 1 .. N : \A row \in Row : step[n][row] = Projected(row, type(n))
  OBVIOUS
<1> HIDE DEF step, N, type
<1>6. PICK f \in [0 .. N -> Row] : Recurs(f, step, NewRow, N)
  BY <1>1, <1>3, <1>4, RecursionExists
<1>7. \A n \in 0 .. N : n # 0 => n \in 1 .. N /\ n - 1 \in 0 .. N
  BY <1>1
<1>8. \A n \in 0 .. N : f[n] = IF n = 0 THEN NewRow ELSE Projected(f[n - 1], type(n))
  BY <1>5, <1>6, <1>7 DEF Recurs
<1>9. Is(f)
  BY <1>6, <1>8 DEF Recurs
<1>10. Is(upTo)
  BY <1>9
<1> HIDE DEF upTo
<1>11. /\ upTo[0] = NewRow /\ DOMAIN upTo = 0 .. N
       /\ \A n \in 1 .. N : upTo[n] = Projected(upTo[n - 1], type(n))
  BY <1>1, <1>10
<1>12. \A n \in 0 .. N : upTo[n] \in Row
  <2> DEFINE S == {n \in 0 .. N : upTo[n] \in Row}
  <2>1. 0 \in S
    BY <1>1, <1>3, <1>11
  <2>2. ASSUME NEW n \in 0 .. N - 1, n \in S
        PROVE  n + 1 \in S
    <3>1. n + 1 \in 1 .. N /\ n + 1 \in 0 .. N /\ (n + 1) - 1 = n
      BY <1>1
    <3>2. upTo[n + 1] = Projected(upTo[n], type(n + 1))
      BY <1>11, <3>1
    <3>. QED  BY <2>2, <3>1, <3>2, ProjectedTypes
  <2> HIDE DEF S
  <2>3. \A n \in 0 .. N : n \in S
    BY <1>1, <2>1, <2>2, UpTo
  <2>. QED  BY <2>3 DEF S
<1>13. upTo \in [0 .. N -> Row]
  BY <1>10, <1>11, <1>12
<1>14. Rebuilds(upTo, events)
  BY <1>11, <1>13 DEF Rebuilds, N, type
<1>. QED  BY <1>2, <1>14 DEF N

\* An event after the last makes one more row.
LEMMA ProjectionGrows ==
  ASSUME NEW events, IsFiniteSet(events),
         {e.sequence : e \in events} = 1 .. Cardinality(events),
         \A e, d \in events : e.sequence = d.sequence => e = d,
         NEW event, event.sequence = Cardinality(events) + 1
  PROVE  Projection(events \cup {event}) = Projected(Projection(events), event.type)
<1> DEFINE more == events \cup {event}
           N == Cardinality(events)
<1>1. N \in Nat
  BY FS_CardinalityType
<1>2. \A e \in events : e.sequence \in 1 .. N
  OBVIOUS
<1>3. event \notin events
  BY <1>1, <1>2
<1>4. IsFiniteSet(more) /\ Cardinality(more) = N + 1
  BY <1>3, FS_AddElement
<1>5. ASSUME NEW n \in 1 .. N
      PROVE  Nth(more, n) = Nth(events, n)
  <2>1. PICK e \in events : e.sequence = n
    OBVIOUS
  <2>2. \A d \in more : d.sequence = n <=> d = e
    BY <1>1, <2>1
  <2>. QED  BY <2>1, <2>2 DEF Nth
<1>6. Nth(more, N + 1) = event
  <2>1. \A d \in more : d.sequence = N + 1 <=> d = event
    BY <1>1, <1>2
  <2>. QED  BY <2>1 DEF Nth
<1> HIDE DEF N, more
<1>7. PICK f : Rebuilds(f, events) /\ Projection(events) = f[N]
  BY ProjectionUnfolds DEF N
<1>8. PICK g : Rebuilds(g, more) /\ Projection(more) = g[N + 1]
  BY <1>4, ProjectionUnfolds
<1>9. /\ f[0] = NewRow /\ \A n \in 1 .. N : f[n] = Projected(f[n - 1], Nth(events, n).type)
      /\ g[0] = NewRow /\ \A n \in 1 .. N + 1 : g[n] = Projected(g[n - 1], Nth(more, n).type)
  BY <1>4, <1>7, <1>8 DEF Rebuilds, N
<1> DEFINE S == {n \in 0 .. N : f[n] = g[n]}
<1>10. 0 \in S
  BY <1>1, <1>9
<1>11. ASSUME NEW n \in 0 .. N - 1, n \in S
       PROVE  n + 1 \in S
  <2>1. n + 1 \in 1 .. N /\ n + 1 \in 1 .. N + 1 /\ n + 1 \in 0 .. N /\ (n + 1) - 1 = n
    BY <1>1
  <2>. QED  BY <1>5, <1>9, <1>11, <2>1
<1>12. N \in S
  <2> HIDE DEF S
  <2>. QED  BY <1>1, <1>10, <1>11, UpTo
<1>13. N + 1 \in 1 .. N + 1 /\ (N + 1) - 1 = N
  BY <1>1
<1>14. g[N + 1] = Projected(f[N], event.type)
  BY <1>6, <1>9, <1>12, <1>13
<1>. QED  BY <1>7, <1>8, <1>14 DEF more

-----------------------------------------------------------------------------
(* What Codex's lines become *)

\* The events made of the first n lines.
Outputs(f, lines) ==
  /\ f \in [0 .. Len(lines) -> Seq(Progress)] /\ f[0] = << >>
  /\ \A n \in 1 .. Len(lines) : f[n] = f[n - 1] \o Translation[lines[n]]

\* The output is made line by line.
LEMMA OutputUnfolds ==
  ASSUME NEW lines \in Seq(Lines)
  PROVE  \E f : Outputs(f, lines) /\ OutputOf(lines) = f[Len(lines)]
<1> DEFINE N == Len(lines)
           events(n) == Translation[lines[n]]
           Is(f) == f = [n \in 0 .. N |-> IF n = 0 THEN << >> ELSE f[n - 1] \o events(n)]
           step == [n \in 1 .. N |-> [told \in Seq(Progress) |-> told \o events(n)]]
           upTo == CHOOSE f : Is(f)
<1>1. N \in Nat /\ << >> \in Seq(Progress)
  OBVIOUS
<1>2. OutputOf(lines) = upTo[N]
  BY DEF OutputOf
<1>3. \A n \in 1 .. N : events(n) \in Seq(Progress)
  BY TranslationTypes
<1> HIDE DEF N, events
<1>4. \A n \in 1 .. N : \A told \in Seq(Progress) : told \o events(n) \in Seq(Progress)
  BY <1>3
<1>5. step \in [1 .. N -> [Seq(Progress) -> Seq(Progress)]]
  BY <1>4
<1>6. \A n \in 1 .. N : \A told \in Seq(Progress) : step[n][told] = told \o events(n)
  OBVIOUS
<1> HIDE DEF step
<1>7. PICK f \in [0 .. N -> Seq(Progress)] : Recurs(f, step, << >>, N)
  BY <1>1, <1>5, RecursionExists
<1>8. \A n \in 0 .. N : n # 0 => n \in 1 .. N /\ n - 1 \in 0 .. N
  BY <1>1
<1>9. \A n \in 0 .. N : f[n] = IF n = 0 THEN << >> ELSE f[n - 1] \o events(n)
  BY <1>6, <1>7, <1>8 DEF Recurs
<1>10. Is(f)
  BY <1>7, <1>9 DEF Recurs
<1>11. Is(upTo)
  BY <1>10
<1> HIDE DEF upTo
<1>12. /\ upTo[0] = << >> /\ DOMAIN upTo = 0 .. N
       /\ \A n \in 1 .. N : upTo[n] = upTo[n - 1] \o events(n)
  <2>1. upTo = [n \in 0 .. N |-> IF n = 0 THEN << >> ELSE upTo[n - 1] \o events(n)]
    BY <1>11
  <2>2. 0 \in 0 .. N
    BY <1>1
  <2>3. \A n \in 0 .. N : upTo[n] = IF n = 0 THEN << >> ELSE upTo[n - 1] \o events(n)
    BY <2>1, Zenon
  <2>4. \A n \in 1 .. N : n \in 0 .. N /\ n # 0
    BY <1>1
  <2>5. DOMAIN upTo = 0 .. N
    BY <2>1, Zenon
  <2>. QED  BY <2>2, <2>3, <2>4, <2>5
<1>13. \A n \in 0 .. N : upTo[n] \in Seq(Progress)
  <2> DEFINE S == {n \in 0 .. N : upTo[n] \in Seq(Progress)}
  <2>1. 0 \in S
    <3>1. upTo[0] = << >>
      BY <1>12
    <3>2. upTo[0] \in Seq(Progress) /\ 0 \in 0 .. N
      BY <1>1, <3>1
    <3>. QED  BY <3>2
  <2>2. ASSUME NEW n \in 0 .. N - 1, n \in S
        PROVE  n + 1 \in S
    <3>1. n + 1 \in 1 .. N /\ n + 1 \in 0 .. N /\ (n + 1) - 1 = n
      BY <1>1
    <3>2. upTo[n + 1] = upTo[n] \o events(n + 1)
      BY <1>12, <3>1
    <3>. QED  BY <1>4, <2>2, <3>1, <3>2
  <2> HIDE DEF S
  <2>3. \A n \in 0 .. N : n \in S
    BY <1>1, <2>1, <2>2, UpTo
  <2>. QED  BY <2>3 DEF S
<1>14. upTo \in [0 .. N -> Seq(Progress)]
  BY <1>12, <1>13, <1>11
<1>15. Outputs(upTo, lines)
  BY <1>12, <1>14 DEF Outputs, N, events
<1>. QED  BY <1>2, <1>15 DEF N

\* The output is made of Codex's events.
LEMMA OutputTypes ==
  /\ OutputOf(<< >>) = << >>
  /\ \A lines \in Seq(Lines) : OutputOf(lines) \in Seq(Progress)
<1>1. OutputOf(<< >>) = << >>
  <2>1. PICK f : Outputs(f, << >>) /\ OutputOf(<< >>) = f[Len(<< >>)]
    <3>1. << >> \in Seq(Lines)
      OBVIOUS
    <3>. QED  BY <3>1, OutputUnfolds
  <2>. QED  BY <2>1 DEF Outputs
<1>2. ASSUME NEW lines \in Seq(Lines)
      PROVE  OutputOf(lines) \in Seq(Progress)
  <2>1. PICK f : Outputs(f, lines) /\ OutputOf(lines) = f[Len(lines)]
    BY OutputUnfolds
  <2>. QED  BY <2>1 DEF Outputs
<1>. QED  BY <1>1, <1>2

\* One line more adds its events at the end.
LEMMA OutputGrows ==
  ASSUME NEW lines \in Seq(Lines), NEW kind \in Lines
  PROVE  OutputOf(Append(lines, kind)) = OutputOf(lines) \o Translation[kind]
<1> DEFINE more == Append(lines, kind)
           N == Len(lines)
<1>1. /\ more \in Seq(Lines) /\ Len(more) = N + 1 /\ more[N + 1] = kind
      /\ \A n \in 1 .. N : more[n] = lines[n]
      /\ N \in Nat
  BY AppendProperties
<1>2. PICK f : Outputs(f, lines) /\ OutputOf(lines) = f[N]
  BY OutputUnfolds
<1> HIDE DEF more
<1>3. PICK g : Outputs(g, more) /\ OutputOf(more) = g[N + 1]
  BY <1>1, OutputUnfolds
<1>4. /\ f[0] = << >> /\ \A n \in 1 .. N : f[n] = f[n - 1] \o Translation[lines[n]]
      /\ g[0] = << >> /\ \A n \in 1 .. N + 1 : g[n] = g[n - 1] \o Translation[more[n]]
  BY <1>1, <1>2, <1>3 DEF Outputs
<1> HIDE DEF N
<1> DEFINE S == {n \in 0 .. N : f[n] = g[n]}
<1>5. 0 \in S
  BY <1>1, <1>4
<1>6. ASSUME NEW n \in 0 .. N - 1, n \in S
      PROVE  n + 1 \in S
  <2>1. n + 1 \in 1 .. N /\ n + 1 \in 1 .. N + 1 /\ n + 1 \in 0 .. N /\ (n + 1) - 1 = n
    BY <1>1
  <2>2. f[n + 1] = f[n] \o Translation[lines[n + 1]] /\ g[n + 1] = g[n] \o Translation[more[n + 1]]
    BY <1>4, <2>1
  <2>3. more[n + 1] = lines[n + 1] /\ f[n] = g[n]
    BY <1>1, <1>6, <2>1
  <2>. QED  BY <2>1, <2>2, <2>3
<1>7. N \in S
  <2> HIDE DEF S
  <2>1. \A n \in 0 .. N : n \in S
    BY <1>1, <1>5, <1>6, UpTo
  <2>. QED  BY <1>1, <2>1
<1>8. N + 1 \in 1 .. N + 1 /\ (N + 1) - 1 = N
  BY <1>1
<1>9. g[N + 1] = f[N] \o Translation[kind]
  BY <1>1, <1>4, <1>7, <1>8
<1>. QED  BY <1>2, <1>3, <1>9 DEF more

\* The first n lines.
Lead(lines, n) == SubSeq(lines, 1, n)

\* The first lines are lines.
LEMMA LeadTypes ==
  ASSUME NEW lines \in Seq(Lines), NEW n \in 0 .. Len(lines)
  PROVE  /\ Lead(lines, n) \in Seq(Lines) /\ OutputOf(Lead(lines, n)) \in Seq(Progress)
         /\ Lead(lines, 0) = << >> /\ Lead(lines, Len(lines)) = lines
<1>1. SubSeq(lines, 1, n) \in Seq(Lines)
  OBVIOUS
<1>2. SubSeq(lines, 1, 0) = << >>
  BY SubSeqEmpty
<1>. QED  BY <1>1, <1>2, SubSeqFull, OutputTypes DEF Lead

\* One line more adds what is made of it.
LEMMA LeadGrows ==
  ASSUME NEW lines \in Seq(Lines), NEW n \in 0 .. Len(lines) - 1
  PROVE  /\ Lead(lines, n + 1) = Append(Lead(lines, n), lines[n + 1])
         /\ OutputOf(Lead(lines, n + 1)) = OutputOf(Lead(lines, n)) \o Translation[lines[n + 1]]
<1>1. n + 1 \in 1 .. Len(lines) /\ (n + 1) - 1 = n /\ n \in 0 .. Len(lines)
  OBVIOUS
<1>2. lines[n + 1] \in Lines
  BY <1>1
<1>3. Lead(lines, n) \in Seq(Lines)
  BY <1>1, LeadTypes
<1>4. Lead(lines, n + 1) = Lead(lines, n) \o <<lines[n + 1]>>
  <2>1. 1 \in 1 .. Len(lines) /\ n + 1 \in 1 .. Len(lines)
    BY <1>1
  <2>. QED  BY <1>1, <2>1, SubSeqRecursiveSecond DEF Lead
<1>5. Lead(lines, n + 1) = Append(Lead(lines, n), lines[n + 1])
  BY <1>2, <1>3, <1>4, AppendIsConcat
<1>. QED  BY <1>2, <1>3, <1>5, OutputGrows

\* An output begins with another.
Begins(part, whole) ==
  Len(part) <= Len(whole) /\ \A k \in 1 .. Len(part) : part[k] = whole[k]

\* What is made of the first lines is how all begins.
LEMMA LeadBegins ==
  ASSUME NEW lines \in Seq(Lines), NEW n \in 0 .. Len(lines)
  PROVE  Begins(OutputOf(Lead(lines, n)), OutputOf(lines))
<1> DEFINE N == Len(lines) - n
           out(j) == OutputOf(Lead(lines, n + j))
           S == {j \in 0 .. N : Begins(out(0), out(j))}
<1>1. N \in Nat /\ n + N = Len(lines) /\ n + 0 = n
  OBVIOUS
<1>2. \A j \in 0 .. N : out(j) \in Seq(Progress)
  BY LeadTypes
<1>3. 0 \in S
  BY <1>1, <1>2 DEF Begins
<1>4. ASSUME NEW j \in 0 .. N - 1, j \in S
      PROVE  j + 1 \in S
  <2>1. /\ n + j \in 0 .. Len(lines) - 1 /\ n + (j + 1) = (n + j) + 1
        /\ lines[(n + j) + 1] \in Lines /\ j \in 0 .. N /\ j + 1 \in 0 .. N /\ 0 \in 0 .. N
    BY <1>1
  <2>2. out(j + 1) = out(j) \o Translation[lines[(n + j) + 1]]
    BY <2>1, LeadGrows
  <2>3. Translation[lines[(n + j) + 1]] \in Seq(Progress)
    BY <2>1, TranslationTypes
  <2> HIDE DEF out, N
  <2>4. Len(out(j)) <= Len(out(j + 1)) /\ \A k \in 1 .. Len(out(j)) : out(j + 1)[k] = out(j)[k]
    BY <1>2, <2>1, <2>2, <2>3, ConcatProperties
  <2>5. Begins(out(0), out(j))
    BY <1>4
  <2>6. Begins(out(0), out(j + 1))
    <3>1. Len(out(0)) \in Nat /\ Len(out(j)) \in Nat /\ Len(out(j + 1)) \in Nat
      BY <1>2, <2>1, LenProperties
    <3>2. Len(out(0)) <= Len(out(j)) /\ \A k \in 1 .. Len(out(0)) : out(0)[k] = out(j)[k]
      BY <2>5 DEF Begins
    <3>3. Len(out(0)) <= Len(out(j + 1))
      BY <2>4, <3>1, <3>2
    <3>4. \A k \in 1 .. Len(out(0)) : k \in 1 .. Len(out(j))
      BY <3>1, <3>2
    <3>. QED  BY <2>4, <3>2, <3>3, <3>4 DEF Begins
  <2>. QED  BY <2>1, <2>6
<1>5. N \in S
  <2> HIDE DEF S, N
  <2>1. \A j \in 0 .. N : j \in S
    BY <1>1, <1>3, <1>4, UpTo
  <2>. QED  BY <1>1, <2>1
<1>6. Begins(OutputOf(Lead(lines, n + 0)), OutputOf(Lead(lines, n + N)))
  BY <1>5
<1>. QED  BY <1>1, <1>6, LeadTypes

-----------------------------------------------------------------------------
(* What writes rows *)

\* Only a transaction that commits writes the log, the session and raced.
LEMMA OnlyCommitsWrite ==
  ASSUME [Next]_vars
  PROVE  \/ UNCHANGED <<log, session, raced>>
         \/ \E s \in Slots : Commits(s) /\ tx[s].at = "write" /\ ~Taken(tx[s].sequence)
<1> DEFINE Same == UNCHANGED <<log, session, raced>>
<1>1. UNCHANGED vars => Same
  BY DEF vars
<1>2. \A s \in Slots : Number(s) \/ Abort(s) => Same
  BY DEF Number, Abort
<1>3. DeadlinePasses \/ OperatorCancels \/ CleanupOrphan => Same
  BY DEF DeadlinePasses, OperatorCancels, CleanupOrphan
<1>4. ASSUME NEW w \in Workers
      PROVE  (\/ Goes(w) \/ Poll(w) \/ HeartbeatRefused(w) \/ HeartbeatLost(w) \/ EventFails(w)
              \/ LaunchEnds(w) \/ WorkerDies(w) \/ CodexWrites(w) \/ CodexExits(w)) => Same
  <2>1. ShakeHands(w) \/ Greet(w) \/ StartCodex(w) \/ ReadLine(w) => Same
    BY DEF ShakeHands, Greet, StartCodex, ReadLine, RowsSame
  <2>2. PostEvent(w) \/ EventTaken(w) \/ Finish(w) \/ FinishUnread(w) => Same
    BY DEF PostEvent, EventTaken, Finish, FinishUnread, Reported, Report, RowsSame
  <2>3. FallsSilent(w) \/ HeartbeatTaken(w) => Same
    BY DEF FallsSilent, HeartbeatTaken, ReadsOn, RowsSame
  <2>4. HeartbeatRefused(w) \/ HeartbeatLost(w) \/ EventFails(w) => Same
    BY DEF HeartbeatRefused, HeartbeatLost, EventFails, CodexKilled, RowsSame
  <2>5. Poll(w) \/ LaunchEnds(w) \/ WorkerDies(w) \/ CodexWrites(w) \/ CodexExits(w) => Same
    BY DEF Poll, LaunchEnds, WorkerDies, CodexWrites, CodexExits, RowsSame
  <2>. QED  BY <2>1, <2>2, <2>3, <2>4, <2>5 DEF Goes
<1>5. ASSUME NEW s \in Slots, Write(s)
      PROVE  Same \/ (Commits(s) /\ tx[s].at = "write" /\ ~Taken(tx[s].sequence))
  BY <1>5 DEF Write
<1>. QED  BY <1>1, <1>2, <1>3, <1>4, <1>5 DEF Next, Usual, Fault, Handled

\* The event that a transaction writes.
EventOf(s) == [sequence |-> tx[s].sequence, type |-> tx[s].type, by |-> s[1], nth |-> tx[s].nth]

\* It comes after all others.
LEMMA EventIsLast ==
  ASSUME IInv, NEW s \in Slots, Commits(s), tx[s].at = "write", ~Taken(tx[s].sequence)
  PROVE  /\ log' = log \cup {EventOf(s)} /\ EventOf(s) \notin log
         /\ EventOf(s).sequence = Cardinality(log) + 1
         /\ \A e \in log : e.sequence < EventOf(s).sequence
<1>1. Cardinality(log) \in Nat /\ {e.sequence : e \in log} = 1 .. Cardinality(log)
  BY FS_CardinalityType DEF IInv, Numbering, LogIsNumbered
<1>2. \A e \in log : e.sequence \in 1 .. Cardinality(log)
  BY <1>1
<1>3. tx[s].sequence \notin 1 .. Cardinality(log)
  BY <1>1 DEF Taken
<1>4. tx[s].sequence = Cardinality(log) + 1
  BY <1>1, <1>3 DEF IInv, Numbering
<1>. QED  BY <1>1, <1>2, <1>4 DEF Commits, EventOf

-----------------------------------------------------------------------------
(* What is told *)

\* Two kinds of transactions of a worker: one that is to write an event of Codex,
\* and one that is to write that the session is completed.
Posting(call) == call.at \in InFlight /\ call.nth > 0
Completing(call) == call.at \in InFlight /\ call.type = "session_completed"

\* A worker whose run is over: Codex has exited, all events made are told, and
\* none is on its way.
Finished(n, place, run, live, stale) ==
  /\ run.state = "exited" /\ n = run.made /\ place \in {"report", "polling"}
  /\ ~Posting(live) /\ ~Posting(stale)

\* A worker at a place, that has told n events of a run and waits to post more:
\* what its two transactions may do next.
Tells(n, place, run, events, live, stale) ==
  /\ n <= run.made /\ run.made = Len(OutputOf(Lead(run.written, run.read)))
  /\ \A k \in 1 .. Len(events) : events[k] = OutputOf(run.written)[run.made - Len(events) + k]
  /\ \A call \in {live, stale} :
       /\ Posting(call) =>
            call.nth = n + 1 /\ n < run.made /\ call.type = OutputOf(run.written)[n + 1]
       /\ Completing(call) => Finished(n, place, run, live, stale)
  /\ Posting(live) => place = "codex"
  /\ Posting(stale) => place \in {"report", "polling"}
  /\ place = "codex" /\ live.at \in {"none", "ok"} => n = run.made - Len(events)
  /\ place = "codex" /\ live.at \in InFlight => live.nth > 0 /\ live.nth = run.made - Len(events)
  /\ place = "silent" => n = run.made
  /\ place \in {"launch", "silent"} => live.at = "none"
  /\ place \in {"launch", "handshake", "greeting"} => run.state = "none"
  /\ place \in {"codex", "silent"} => run.state # "none"
  /\ run.state = "none" => run = NoCodex

\* The events of a worker's Codex in the log, and their number.
Posts(w) == {e \in log : e.by = w /\ e.nth > 0}
Told(w) == Cardinality(Posts(w))

WorkerTells(w) == Tells(Told(w), worker[w], codex[w], toPost[w], tx[Live(w)], tx[Stale(w)])
WorkerFinished(w) == Finished(Told(w), worker[w], codex[w], tx[Live(w)], tx[Stale(w)])

\* The log has the beginning of what Codex wrote.
ToldInOrder(w) ==
  /\ {e.nth : e \in Posts(w)} = 1 .. Told(w)
  /\ \A e \in Posts(w) : e.nth <= Len(Output(w)) /\ e.type = Output(w)[e.nth]
  /\ \A e, f \in Posts(w) : e.nth < f.nth => e.sequence < f.sequence

\* What a worker reports comes last.
ReportedLast(w) ==
  \A done \in log : done.by = w /\ done.type = "session_completed" =>
    WorkerFinished(w) /\ \A e \in Posts(w) : e.sequence < done.sequence

\* Before the first commit no Codex has been started, nor will be by a reply
\* that is there already.
NotBegun ==
  session.status = "launching" =>
    /\ \A s \in Slots : tx[s].at \in InFlight => tx[s].status = "launching"
    /\ \A w \in Workers :
         codex[w].state = "none" /\ tx[Live(w)].at # "ok" /\ worker[w] # "greeting"

\* A turn is counted by an event of Codex; as long as only one worker has made
\* events, the count is that of the log and that which a transaction has loaded.
OneRun == \A w, x \in Workers : codex[w].made > 0 /\ codex[x].made > 0 => w = x
Turns == {e \in log : e.type = "turn_started"}
Counting(call) == call.at \in InFlight /\ call.type = "turn_started"
Counted ==
  /\ \A s \in Slots : Counting(tx[s]) => Posting(tx[s])
  /\ \A s \in {LoopCall, Cancellation} : ~Counting(tx[s])
  /\ OneRun => /\ session.turns = Cardinality(Turns)
               /\ \A s \in Slots : Counting(tx[s]) => tx[s].turns = session.turns

Telling ==
  /\ \A w \in Workers : WorkerTells(w) /\ ToldInOrder(w) /\ ReportedLast(w)
  /\ NotBegun /\ Counted

\* A worker's slots, and whose slots there are.
LEMMA SlotOwners ==
  /\ \A v, w \in Workers : v # w => {Live(v), Stale(v)} \cap {Live(w), Stale(w)} = {}
  /\ \A w \in Workers : {LoopCall, Cancellation} \cap {Live(w), Stale(w)} = {}
  /\ \A s \in Slots : s \in {LoopCall, Cancellation} \/ \E w \in Workers : s \in {Live(w), Stale(w)}
  /\ LoopCall # Cancellation /\ LoopCall[1] \notin Workers /\ Cancellation[1] \notin Workers
BY DEF Slots, LoopCall, Cancellation, Live, Stale

\* The slots of a worker's step.
LEMMA SlotsAfter ==
  ASSUME IInv, NEW w \in Workers, NEW live, NEW stale,
         tx' = [tx EXCEPT ![Live(w)] = live, ![Stale(w)] = stale]
  PROVE  /\ tx'[Live(w)] = live /\ tx'[Stale(w)] = stale
         /\ \A s \in Slots \ {Live(w), Stale(w)} : tx'[s] = tx[s]
         /\ \A v \in Workers \ {w} : tx'[Live(v)] = tx[Live(v)] /\ tx'[Stale(v)] = tx[Stale(v)]
<1>1. tx \in [Slots -> Transaction] /\ Live(w) \in Slots /\ Stale(w) \in Slots /\ Live(w) # Stale(w)
  BY SlotsDiffer DEF IInv, TypeOK
<1>2. \A v \in Workers \ {w} : Live(v) \in Slots \ {Live(w), Stale(w)}
                               /\ Stale(v) \in Slots \ {Live(w), Stale(w)}
  BY SlotsDiffer, SlotOwners
<1>3. tx'[Live(w)] = live /\ tx'[Stale(w)] = stale
      /\ \A s \in Slots \ {Live(w), Stale(w)} : tx'[s] = tx[s]
  BY <1>1
<1>. QED  BY <1>2, <1>3

\* A step of one worker, and a worker that has told what it should after it.
Steps(w, place, run, events, live, stale) ==
  /\ worker' = [worker EXCEPT ![w] = place] /\ codex' = [codex EXCEPT ![w] = run]
  /\ toPost' = [toPost EXCEPT ![w] = events]
  /\ tx' = [tx EXCEPT ![Live(w)] = live, ![Stale(w)] = stale]
  /\ RowsSame

Calm(w, place, run, live, stale) ==
  /\ session.status = "launching" =>
       /\ run.state = "none" /\ live.at # "ok" /\ place # "greeting"
       /\ \A call \in {live, stale} : call.at \in InFlight => call.status = "launching"
  /\ \A call \in {live, stale} : Counting(call) =>
       Posting(call) /\ (OneRun => call.turns = session.turns)

\* A step of one worker that writes no row: what it has told is still told in
\* order if its output goes on as it began.
LEMMA StepTells ==
  ASSUME IInv, Telling, NEW w \in Workers,
         NEW place, NEW run \in CodexRun, NEW events, NEW live, NEW stale,
         Steps(w, place, run, events, live, stale), Calm(w, place, run, live, stale),
         Tells(Told(w), place, run, events, live, stale),
         Begins(OutputOf(codex[w].written), OutputOf(run.written)),
         codex[w].made > 0 => run.made > 0,
         WorkerFinished(w) => Finished(Told(w), place, run, live, stale)
  PROVE  Telling'
<1>0. /\ worker' = [worker EXCEPT ![w] = place] /\ codex' = [codex EXCEPT ![w] = run]
      /\ toPost' = [toPost EXCEPT ![w] = events]
      /\ tx' = [tx EXCEPT ![Live(w)] = live, ![Stale(w)] = stale]
      /\ RowsSame
  BY DEF Steps
<1>1. /\ worker'[w] = place /\ codex'[w] = run /\ toPost'[w] = events
      /\ \A v \in Workers \ {w} :
           worker'[v] = worker[v] /\ codex'[v] = codex[v] /\ toPost'[v] = toPost[v]
  BY <1>0 DEF IInv, TypeOK
<1>2. /\ tx'[Live(w)] = live /\ tx'[Stale(w)] = stale
      /\ \A s \in Slots \ {Live(w), Stale(w)} : tx'[s] = tx[s]
      /\ \A v \in Workers \ {w} : tx'[Live(v)] = tx[Live(v)] /\ tx'[Stale(v)] = tx[Stale(v)]
  BY <1>0, SlotsAfter
<1>3. log' = log /\ session' = session /\ \A v \in Workers : Posts(v)' = Posts(v) /\ Told(v)' = Told(v)
  BY <1>0 DEF RowsSame, Posts, Told
<1>4. WorkerTells(w)' /\ (WorkerFinished(w) => WorkerFinished(w)')
  BY <1>1, <1>2, <1>3 DEF WorkerTells, WorkerFinished
<1>5. \A v \in Workers \ {w} : (WorkerTells(v)' <=> WorkerTells(v))
                               /\ (WorkerFinished(v)' <=> WorkerFinished(v))
  BY <1>1, <1>2, <1>3 DEF WorkerTells, WorkerFinished
<1>6. \A v \in Workers : ReportedLast(v)'
  <2>1. \A v \in Workers : ReportedLast(v) /\ (WorkerFinished(v) => WorkerFinished(v)')
    BY <1>4, <1>5 DEF Telling
  <2>. QED  BY <1>3, <2>1 DEF ReportedLast
<1>7. \A v \in Workers : Begins(Output(v), Output(v)') /\ Output(v) \in Seq(Progress)
  <2>1. \A v \in Workers : codex[v].written \in Seq(Lines)
    BY DEF IInv, TypeOK, CodexRun
  <2>2. \A v \in Workers \ {w} : Output(v)' = Output(v)
    BY <1>1 DEF Output
  <2>3. Begins(Output(w), Output(w)')
    BY <1>1 DEF Output
  <2>4. \A v \in Workers : Output(v) \in Seq(Progress)
    BY <2>1, OutputTypes DEF Output
  <2>. QED  BY <2>2, <2>3, <2>4 DEF Begins
<1>8. \A v \in Workers : ToldInOrder(v)'
  <2>1. SUFFICES ASSUME NEW v \in Workers PROVE ToldInOrder(v)'
    OBVIOUS
  <2>2. ToldInOrder(v) /\ \A e \in Posts(v) : e.nth \in Nat \ {0}
    BY DEF Telling, Posts, IInv, TypeOK, Event
  <2>3. \A e \in Posts(v) : e.nth \in 1 .. Len(Output(v)) /\ e.type = Output(v)[e.nth]
    BY <1>7, <2>2 DEF ToldInOrder
  <2>4. Len(Output(v)) \in Nat /\ Len(Output(v)) <= Len(Output(v)')
        /\ \A k \in 1 .. Len(Output(v)) : Output(v)[k] = Output(v)'[k]
    BY <1>7 DEF Begins
  <2>5. \A e \in Posts(v) : e.nth <= Len(Output(v)') /\ e.type = Output(v)'[e.nth]
    <3>1. TAKE e \in Posts(v)
    <3>2. e.nth \in 1 .. Len(Output(v)) /\ e.type = Output(v)[e.nth]
      BY <2>3
    <3>3. e.nth <= Len(Output(v)')
      <4>1. Len(Output(v)') \in Nat
        <5>1. codex'[v].written \in Seq(Lines)
          BY <1>1 DEF IInv, TypeOK, CodexRun
        <5>. QED  BY <5>1, OutputTypes DEF Output
      <4>. QED  BY <2>4, <3>2, <4>1
    <3>. QED  BY <2>4, <3>2, <3>3
  <2>. QED  BY <1>3, <2>2, <2>5 DEF ToldInOrder
<1>9. NotBegun'
  <2>1. SUFFICES ASSUME session.status = "launching"
                 PROVE  /\ \A s \in Slots : tx'[s].at \in InFlight => tx'[s].status = "launching"
                        /\ \A v \in Workers : codex'[v].state = "none" /\ tx'[Live(v)].at # "ok"
                                              /\ worker'[v] # "greeting"
    BY <1>3 DEF NotBegun
  <2>2. NotBegun
    BY DEF Telling
  <2>3. \A s \in Slots : tx'[s].at \in InFlight => tx'[s].status = "launching"
    BY <1>2, <2>1, <2>2 DEF NotBegun, Calm
  <2>4. \A v \in Workers : codex'[v].state = "none" /\ tx'[Live(v)].at # "ok" /\ worker'[v] # "greeting"
    BY <1>1, <1>2, <2>1, <2>2 DEF NotBegun, Calm
  <2>. QED  BY <2>3, <2>4
<1>10. Counted'
  <2>1. Counted /\ Turns' = Turns
    BY <1>3 DEF Telling, Turns
  <2>2. OneRun' => OneRun
    BY <1>1 DEF OneRun
  <2>3. \A s \in Slots : Counting(tx'[s]) =>
          Posting(tx'[s]) /\ (OneRun => tx'[s].turns = session.turns)
    BY <1>2, <2>1 DEF Counted, Calm
  <2>4. \A s \in {LoopCall, Cancellation} : tx'[s] = tx[s]
    <3>1. \A s \in {LoopCall, Cancellation} : s \in Slots \ {Live(w), Stale(w)}
      BY SlotsDiffer, SlotOwners
    <3>. QED  BY <1>2, <3>1
  <2>. QED  BY <1>3, <2>1, <2>2, <2>3, <2>4 DEF Counted, Counting, Posting, InFlight
<1>. QED  BY <1>4, <1>5, <1>6, <1>8, <1>9, <1>10 DEF Telling

\* An output begins with itself.
LEMMA BeginsItself ==
  ASSUME NEW run \in CodexRun
  PROVE  Begins(OutputOf(run.written), OutputOf(run.written))
<1>1. OutputOf(run.written) \in Seq(Progress)
  BY OutputTypes DEF CodexRun
<1>. QED  BY <1>1 DEF Begins

\* What is known of a worker before its step.
LEMMA WorkerKnows ==
  ASSUME IInv, Telling, NEW w \in Workers
  PROVE  /\ Told(w) \in Nat /\ WorkerTells(w)
         /\ codex[w] \in CodexRun /\ toPost[w] \in Seq(Progress)
         /\ tx[Live(w)] \in Transaction /\ tx[Stale(w)] \in Transaction
         /\ Attends(worker[w], codex[w], toPost[w])
         /\ Calm(w, worker[w], codex[w], tx[Live(w)], tx[Stale(w)])
<1>1. Told(w) \in Nat
  <2>1. IsFiniteSet(Posts(w))
    BY FS_Subset DEF Posts, IInv, Numbering
  <2>. QED  BY <2>1, FS_CardinalityType DEF Told
<1>2. Live(w) \in Slots /\ Stale(w) \in Slots
  BY SlotsDiffer
<1>3. Calm(w, worker[w], codex[w], tx[Live(w)], tx[Stale(w)])
  BY <1>2 DEF Telling, NotBegun, Counted, Calm
<1>. QED  BY <1>1, <1>2, <1>3, WorkerHas DEF IInv, TypeOK, Telling

\* A call of the API, and one that has been given up for it.
Called(live, type, nth) ==
  /\ live.at \in {"number", "refused"}
  /\ live.at = "number" => /\ live.type = type /\ live.nth = nth /\ live.status = session.status
                           /\ type = "turn_started" => live.turns = session.turns
GivenUp(w) == IF tx[Live(w)].at \in InFlight THEN tx[Live(w)] ELSE tx[Stale(w)]

\* What a call changes.
LEMMA CallsDo ==
  ASSUME NEW w \in Workers, NEW type, NEW nth, Calls(w, type, nth), IInv
  PROVE  \E live : /\ Called(live, type, nth)
                   /\ tx' = [tx EXCEPT ![Live(w)] = live, ![Stale(w)] = GivenUp(w)]
<1> DEFINE live == IF Accepted(w, type) THEN Loaded(type, nth) ELSE [NoCall EXCEPT !.at = "refused"]
<1>1. tx' = [tx EXCEPT ![Live(w)] = live, ![Stale(w)] = GivenUp(w)]
  <2>1. tx \in [Slots -> Transaction] /\ Live(w) \in Slots /\ Stale(w) \in Slots /\ Live(w) # Stale(w)
    BY SlotsDiffer DEF IInv, TypeOK
  <2> HIDE DEF live
  <2>2. tx' = [tx EXCEPT ![Live(w)] = live,
                         ![Stale(w)] = IF tx[Live(w)].at \in InFlight THEN tx[Live(w)] ELSE @]
    BY Zenon DEF Calls, live
  <2>. QED  BY <2>1, <2>2 DEF GivenUp
<1>2. Called(live, type, nth)
  <2>1. /\ Loaded(type, nth).at = "number" /\ Loaded(type, nth).type = type
        /\ Loaded(type, nth).nth = nth /\ Loaded(type, nth).status = session.status
        /\ type = "turn_started" => Loaded(type, nth).turns = session.turns
    BY DEF Loaded, NoCall
  <2>2. [NoCall EXCEPT !.at = "refused"].at = "refused"
    BY DEF NoCall
  <2>. QED  BY <2>1, <2>2 DEF Called
<1>. QED  BY <1>1, <1>2

\* What giving a call up changes.
LEMMA HangsDo ==
  ASSUME NEW w \in Workers, Hangs(w), IInv
  PROVE  tx' = [tx EXCEPT ![Live(w)] = NoCall, ![Stale(w)] = GivenUp(w)]
<1>1. tx \in [Slots -> Transaction] /\ Live(w) \in Slots /\ Stale(w) \in Slots /\ Live(w) # Stale(w)
  BY SlotsDiffer DEF IInv, TypeOK
<1>. QED  BY <1>1 DEF Hangs, GivenUp

\* A worker goes to another place, and its Codex and events stay.
LEMMA MoveTells ==
  ASSUME IInv, Telling, NEW w \in Workers, NEW place, NEW live, NEW stale,
         Steps(w, place, codex[w], toPost[w], live, stale), Calm(w, place, codex[w], live, stale),
         Tells(Told(w), place, codex[w], toPost[w], live, stale),
         WorkerFinished(w) => Finished(Told(w), place, codex[w], live, stale)
  PROVE  Telling'
<1>1. codex[w] \in CodexRun /\ Begins(OutputOf(codex[w].written), OutputOf(codex[w].written))
  BY WorkerHas, BeginsItself
<1> DEFINE run == codex[w]
<1>2. /\ run \in CodexRun /\ Steps(w, place, run, toPost[w], live, stale)
      /\ Calm(w, place, run, live, stale)
      /\ Tells(Told(w), place, run, toPost[w], live, stale)
      /\ Begins(OutputOf(codex[w].written), OutputOf(run.written))
      /\ codex[w].made > 0 => run.made > 0
      /\ WorkerFinished(w) => Finished(Told(w), place, run, live, stale)
  BY <1>1
<1> HIDE DEF run
<1>. QED  BY <1>2, StepTells

\* A slot that is written with what it has.
LEMMA SlotsSame ==
  ASSUME IInv, NEW w \in Workers
  PROVE  tx = [tx EXCEPT ![Live(w)] = tx[Live(w)], ![Stale(w)] = tx[Stale(w)]]
<1>1. tx \in [Slots -> Transaction] /\ Live(w) \in Slots /\ Stale(w) \in Slots /\ Live(w) # Stale(w)
  BY SlotsDiffer DEF IInv, TypeOK
<1>. QED  BY <1>1

\* A worker takes a launch, falls silent, or reads on.
LEMMA MovesTell ==
  ASSUME IInv, Telling, NEW w \in Workers, Poll(w) \/ FallsSilent(w) \/ HeartbeatTaken(w)
  PROVE  Telling'
<1> DEFINE live == tx[Live(w)]
           stale == tx[Stale(w)]
<1>1. PICK place \in {"launch", "silent", "codex"} :
        /\ worker' = [worker EXCEPT ![w] = place] /\ RowsSame /\ UNCHANGED <<tx, codex, toPost>>
        /\ place = "launch" => /\ worker[w] = "polling" /\ live.at = "none"
                               /\ session.status = "launching"
        /\ place = "silent" => worker[w] = "codex" /\ live.at = "none" /\ toPost[w] = << >>
        /\ place = "codex" => worker[w] = "silent"
  BY Zenon DEF Poll, FallsSilent, HeartbeatTaken, ReadsOn, Working
<1>2. tx' = [tx EXCEPT ![Live(w)] = live, ![Stale(w)] = stale]
  BY <1>1, SlotsSame
<1>12. Steps(w, place, codex[w], toPost[w], live, stale)
  BY <1>1, <1>2, WorkerHas DEF Steps
<1>3. /\ Told(w) \in Nat /\ Tells(Told(w), worker[w], codex[w], toPost[w], live, stale)
      /\ codex[w] \in CodexRun /\ toPost[w] \in Seq(Progress)
      /\ Attends(worker[w], codex[w], toPost[w])
      /\ session.status = "launching" => codex[w].state = "none"
  BY WorkerKnows DEF WorkerTells, Calm
<1>4. place = "codex" => live.at = "none" /\ toPost[w] = << >> /\ Len(toPost[w]) = 0
  BY <1>1, <1>3 DEF Tells, Attends
<1>5. codex[w].made \in Nat /\ (codex[w].state = "none" => codex[w].made = 0 /\ codex[w].state # "exited")
  BY <1>3 DEF Tells, CodexRun, NoCodex
<1>6. ~Finished(Told(w), worker[w], codex[w], live, stale)
  BY <1>1, <1>3, <1>5 DEF Finished
<1>7. \A call \in {live, stale} : ~Completing(call)
  BY <1>3, <1>6 DEF Tells
<1>8. ~Posting(live) /\ ~Posting(stale)
  <2>1. CASE place = "launch"
    BY <1>1, <1>3, <1>5, <2>1 DEF Tells
  <2>2. CASE place # "launch"
    BY <1>1, <1>3, <1>4, <2>2 DEF Tells, Posting, InFlight
  <2>. QED  BY <2>1, <2>2
<1>9. Tells(Told(w), place, codex[w], toPost[w], live, stale)
  <2>1. live.at = "none"
    BY <1>1, <1>4
  <2>2. place = "silent" => Told(w) = codex[w].made
    <3>1. SUFFICES ASSUME place = "silent" PROVE Told(w) = codex[w].made
      OBVIOUS
    <3>2. worker[w] = "codex" /\ Len(toPost[w]) = 0
      BY <1>1, <3>1
    <3>3. Told(w) = codex[w].made - Len(toPost[w])
      BY <1>3, <2>1, <3>2 DEF Tells
    <3>. QED  BY <1>5, <3>2, <3>3
  <2>3. place = "codex" => Told(w) = codex[w].made - Len(toPost[w])
    <3>1. SUFFICES ASSUME place = "codex" PROVE Told(w) = codex[w].made - Len(toPost[w])
      OBVIOUS
    <3>2. worker[w] = "silent" /\ Len(toPost[w]) = 0
      BY <1>1, <1>4, <3>1
    <3>3. Told(w) = codex[w].made
      BY <1>3, <3>2 DEF Tells
    <3>. QED  BY <1>5, <3>2, <3>3
  <2>4. place = "launch" => codex[w].state = "none"
    BY <1>1, <1>3
  <2>5. place \in {"codex", "silent"} => codex[w].state # "none"
    BY <1>1, <1>3 DEF Tells
  <2> HIDE DEF live, stale
  <2>. QED  BY <1>3, <1>7, <1>8, <2>1, <2>2, <2>3, <2>4, <2>5 DEF Tells, InFlight
<1>10. Calm(w, place, codex[w], live, stale)
  BY <1>1, WorkerKnows DEF Calm
<1>11. WorkerFinished(w) => Finished(Told(w), place, codex[w], live, stale)
  BY <1>6 DEF WorkerFinished
<1> HIDE DEF live, stale
<1>. QED  BY <1>9, <1>10, <1>11, <1>12, MoveTells

\* What a call that was given up is.
LEMMA GivenUpIs ==
  ASSUME NEW w \in Workers
  PROVE  /\ GivenUp(w) \in {tx[Live(w)], tx[Stale(w)]}
         /\ tx[Live(w)].at \notin InFlight => GivenUp(w) = tx[Stale(w)]
         /\ CanGiveUp(w) /\ GivenUp(w) # tx[Stale(w)] => tx[Stale(w)].at = "none"
BY DEF GivenUp, CanGiveUp

\* No call.
LEMMA NoCallIs == NoCall.at = "none" /\ ~Posting(NoCall) /\ ~Completing(NoCall) /\ ~Counting(NoCall)
BY DEF NoCall, Posting, Completing, Counting, InFlight

\* A worker shakes hands, and says that it did.
LEMMA GreetingTells ==
  ASSUME IInv, Telling, NEW w \in Workers, ShakeHands(w) \/ Greet(w)
  PROVE  Telling'
<1> DEFINE stale == tx[Stale(w)]
<1>1. PICK place \in {"handshake", "greeting"}, type \in {"session_started", "status_summary"} :
        /\ worker' = [worker EXCEPT ![w] = place] /\ Calls(w, type, 0)
        /\ RowsSame /\ UNCHANGED <<codex, toPost>>
        /\ worker[w] \in {"launch", "handshake"}
        /\ worker[w] = "handshake" => tx[Live(w)].at = "ok"
        /\ place = "greeting" => tx[Live(w)].at = "ok"
  BY Zenon DEF ShakeHands, Greet
<1>2. /\ Told(w) \in Nat /\ Tells(Told(w), worker[w], codex[w], toPost[w], tx[Live(w)], stale)
      /\ codex[w] \in CodexRun
      /\ Calm(w, worker[w], codex[w], tx[Live(w)], stale)
  BY WorkerKnows DEF WorkerTells
<1>3. tx[Live(w)].at \in {"none", "ok"} /\ codex[w].state = "none" /\ codex[w].made = 0
  BY <1>1, <1>2 DEF Tells, NoCodex
<1>4. PICK live : /\ Called(live, type, 0)
                  /\ tx' = [tx EXCEPT ![Live(w)] = live, ![Stale(w)] = stale]
  BY <1>1, <1>3, CallsDo, GivenUpIs DEF InFlight
<1>5. ~Posting(live) /\ ~Completing(live) /\ ~Counting(live)
  BY <1>4 DEF Called, Posting, Completing, Counting, InFlight
<1>6. ~Posting(stale) /\ ~Completing(stale)
  BY <1>2, <1>3 DEF Tells, Finished
<1>7. live.at \in {"number", "refused"} /\ (live.at = "number" => live.status = session.status)
  BY <1>4 DEF Called
<1>8. Steps(w, place, codex[w], toPost[w], live, stale)
  BY <1>1, <1>4, WorkerHas DEF Steps
<1> HIDE DEF stale
<1>9. Tells(Told(w), place, codex[w], toPost[w], live, stale)
  BY <1>1, <1>2, <1>3, <1>5, <1>6 DEF Tells
<1>10. Calm(w, place, codex[w], live, stale)
  BY <1>1, <1>2, <1>5, <1>7 DEF Calm, InFlight
<1>11. ~WorkerFinished(w)
  BY <1>3 DEF WorkerFinished, Finished
<1>. QED  BY <1>8, <1>9, <1>10, <1>11, MoveTells

\* A worker starts Codex, which has told nothing.
LEMMA StartTells ==
  ASSUME IInv, Telling, NEW w \in Workers, StartCodex(w)
  PROVE  Telling'
<1> DEFINE stale == tx[Stale(w)]
           run == [NoCodex EXCEPT !.state = "running"]
<1>1. /\ worker[w] = "greeting" /\ tx[Live(w)].at = "ok"
      /\ worker' = [worker EXCEPT ![w] = "codex"] /\ codex' = [codex EXCEPT ![w] = run]
      /\ Hangs(w) /\ RowsSame /\ UNCHANGED toPost
  BY DEF StartCodex
<1>2. /\ Told(w) \in Nat /\ Tells(Told(w), worker[w], codex[w], toPost[w], tx[Live(w)], stale)
      /\ toPost[w] \in Seq(Progress) /\ Attends(worker[w], codex[w], toPost[w])
      /\ Calm(w, worker[w], codex[w], tx[Live(w)], stale)
  BY WorkerKnows DEF WorkerTells
<1>3. codex[w] = NoCodex
  BY <1>1, <1>2 DEF Tells
<1>4. /\ NoCodex.written = << >> /\ NoCodex.made = 0 /\ NoCodex.state = "none"
      /\ run.written = << >> /\ run.made = 0 /\ run.read = 0 /\ run.state = "running"
      /\ run \in CodexRun
  <2>1. << >> \in Seq(Lines)
    OBVIOUS
  <2>. QED  BY <2>1 DEF NoCodex, CodexRun
<1> HIDE DEF run
<1>5. Len(OutputOf(Lead(run.written, run.read))) = 0
  <2>1. Lead(<< >>, 0) = << >>
    BY SubSeqEmpty DEF Lead
  <2>. QED  BY <1>4, <2>1, OutputTypes
<1>6. Told(w) = 0 /\ Len(toPost[w]) = 0
  <2>1. Told(w) <= 0
    BY <1>2, <1>3, <1>4 DEF Tells
  <2>2. Len(toPost[w]) <= 0 /\ Len(toPost[w]) \in Nat
    BY <1>2, <1>3, <1>4 DEF Attends
  <2>. QED  BY <1>2, <2>1, <2>2
<1>7. tx' = [tx EXCEPT ![Live(w)] = NoCall, ![Stale(w)] = stale]
  BY <1>1, HangsDo, GivenUpIs DEF InFlight
<1>8. ~Posting(stale) /\ ~Completing(stale)
  BY <1>2, <1>3, <1>4, <1>6 DEF Tells, Finished
<1>9. Steps(w, "codex", run, toPost[w], NoCall, stale)
  BY <1>1, <1>7, WorkerHas DEF Steps
<1>10. Begins(OutputOf(codex[w].written), OutputOf(run.written))
  BY <1>3, <1>4, BeginsItself
<1> HIDE DEF stale
<1>11. Tells(Told(w), "codex", run, toPost[w], NoCall, stale)
  BY <1>4, <1>5, <1>6, <1>8, NoCallIs DEF Tells, InFlight
<1>12. Calm(w, "codex", run, NoCall, stale)
  BY <1>1, <1>2, NoCallIs DEF Calm
<1>13. ~WorkerFinished(w) /\ ~(codex[w].made > 0)
  BY <1>3, <1>4 DEF WorkerFinished, Finished
<1>. QED  BY <1>4, <1>9, <1>10, <1>11, <1>12, <1>13, StepTells


\* The events made are among those of the output.
LEMMA MadeIsLed ==
  ASSUME NEW run \in CodexRun, run.read <= Len(run.written),
         run.made = Len(OutputOf(Lead(run.written, run.read)))
  PROVE  /\ run.made \in Nat /\ Len(OutputOf(run.written)) \in Nat
         /\ run.made <= Len(OutputOf(run.written))
         /\ \A k \in 1 .. run.made :
              OutputOf(Lead(run.written, run.read))[k] = OutputOf(run.written)[k]
<1>1. run.written \in Seq(Lines) /\ run.read \in 0 .. Len(run.written) /\ run.made \in Nat
  BY DEF CodexRun
<1>2. OutputOf(run.written) \in Seq(Progress)
  BY <1>1, OutputTypes
<1>3. Begins(OutputOf(Lead(run.written, run.read)), OutputOf(run.written))
  BY <1>1, LeadBegins
<1>. QED  BY <1>1, <1>2, <1>3 DEF Begins

\* A worker reads a line, and has its events to post.
LEMMA ReadTells ==
  ASSUME IInv, Telling, NEW w \in Workers, ReadLine(w)
  PROVE  Telling'
<1> DEFINE run == codex[w]
           lines == run.written
           events == Translation[lines[run.read + 1]]
           live == tx[Live(w)]
           stale == tx[Stale(w)]
           n == Told(w)
<1>1. /\ worker[w] = "codex" /\ live.at = "none" /\ toPost[w] = << >> /\ run.read < Len(lines)
      /\ toPost' = [toPost EXCEPT ![w] = events] /\ UNCHANGED <<tx, worker>> /\ RowsSame
  BY DEF ReadLine, Working
<1>2. PICK fetched \in run.read + 1 .. Len(lines) :
        codex' = [codex EXCEPT ![w] = [run EXCEPT !.fetched = fetched, !.read = run.read + 1,
                                                  !.made = run.made + Len(events)]]
  BY Zenon DEF ReadLine
<1>3. /\ n \in Nat /\ Tells(n, "codex", run, << >>, live, stale)
      /\ run \in CodexRun /\ run.read <= run.fetched
      /\ Calm(w, "codex", run, live, stale)
  BY <1>1, WorkerKnows DEF WorkerTells, Attends
<1>4. lines \in Seq(Lines) /\ run.read \in 0 .. Len(lines) - 1 /\ lines[run.read + 1] \in Lines
      /\ run.made \in Nat /\ run.read + 1 \in 0 .. Len(lines)
  BY <1>1, <1>3 DEF CodexRun
<1>5. events \in Seq(Progress)
  BY <1>4, TranslationTypes
<1> DEFINE was == OutputOf(Lead(lines, run.read))
           is == OutputOf(Lead(lines, run.read + 1))
<1>6. was \in Seq(Progress) /\ is \in Seq(Progress) /\ is = was \o events
  <2>1. run.read \in 0 .. Len(lines)
    BY <1>4
  <2> HIDE DEF lines
  <2>2. was \in Seq(Progress) /\ is \in Seq(Progress)
    BY <1>4, <2>1, LeadTypes
  <2>3. is = was \o events
    BY <1>4, LeadGrows
  <2>. QED  BY <2>2, <2>3
<1>7. Begins(is, OutputOf(lines))
  BY <1>4, LeadBegins
<1> DEFINE made == run.made + Len(events)
           next == [run EXCEPT !.fetched = fetched, !.read = run.read + 1, !.made = made]
<1> HIDE DEF events
<1>8. /\ n = run.made /\ run.made = Len(was) /\ ~Posting(stale) /\ ~Completing(stale)
      /\ run.state # "none"
  BY <1>1, <1>3, <1>4 DEF Tells, Finished
<1> HIDE DEF was, is
<1>9. made \in Nat /\ made = Len(is) /\ Len(events) \in Nat
      /\ \A k \in 1 .. Len(events) : run.made + k \in 1 .. Len(is) /\ is[run.made + k] = events[k]
  BY <1>4, <1>5, <1>6, <1>8
<1>10. \A k \in 1 .. Len(events) : events[k] = OutputOf(lines)[made - Len(events) + k]
  <2>1. \A k \in 1 .. Len(events) : made - Len(events) + k = run.made + k
    BY <1>4, <1>9
  <2>2. \A k \in 1 .. Len(events) : OutputOf(lines)[run.made + k] = events[k]
    BY <1>7, <1>9 DEF Begins
  <2>. QED  BY <2>1, <2>2
<1>11. codex' = [codex EXCEPT ![w] = next]
  BY <1>2, Zenon
<1> HIDE DEF made, run
<1>12. /\ next \in CodexRun /\ next.made = made /\ next.read = run.read + 1
       /\ next.written = lines /\ next.state = run.state
  <2> DEFINE read == run.read + 1
  <2>1. read \in Nat /\ fetched \in Nat
    BY <1>3, <1>4
  <2> HIDE DEF read
  <2>2. next = [run EXCEPT !.fetched = fetched, !.read = read, !.made = made]
    BY Zenon DEF read
  <2>3. /\ next \in CodexRun /\ next.made = made /\ next.read = read
        /\ next.written = run.written /\ next.state = run.state
    BY <1>3, <1>9, <2>1, <2>2 DEF CodexRun
  <2>. QED  BY <2>3 DEF read
<1>13. Len(OutputOf(Lead(next.written, next.read))) = made
  BY <1>9, <1>12 DEF is
<1> HIDE DEF next, lines
<1>14. Steps(w, "codex", next, events, live, stale)
  BY <1>1, <1>11, SlotsSame, WorkerHas DEF Steps
<1>15. n <= made /\ n = made - Len(events)
  BY <1>3, <1>4, <1>8, <1>9 DEF made
<1> HIDE DEF stale, live, n
<1>16. ~Posting(live) /\ ~Completing(live)
  BY <1>1 DEF Posting, Completing, InFlight
<1>17. Tells(n, "codex", next, events, live, stale)
  BY <1>1, <1>8, <1>10, <1>12, <1>13, <1>15, <1>16 DEF Tells, InFlight
<1>18. Calm(w, "codex", next, live, stale)
  BY <1>3, <1>12 DEF Calm
<1>19. Begins(OutputOf(codex[w].written), OutputOf(next.written))
  BY <1>3, <1>12, BeginsItself DEF run, lines
<1>20. codex[w].made > 0 => next.made > 0
  BY <1>4, <1>5, <1>12 DEF run, made
<1>21. ~WorkerFinished(w)
  BY <1>1 DEF WorkerFinished, Finished
<1>. QED  BY <1>12, <1>14, <1>17, <1>18, <1>19, <1>20, <1>21, StepTells DEF n

\* A worker posts an event, the next that is not told.
LEMMA PostTells ==
  ASSUME IInv, Telling, NEW w \in Workers, PostEvent(w)
  PROVE  Telling'
<1> DEFINE run == codex[w]
           events == toPost[w]
           stale == tx[Stale(w)]
           n == Told(w)
           nth == run.made - Len(events) + 1
<1>1. /\ worker[w] = "codex" /\ tx[Live(w)].at = "none" /\ events # << >>
      /\ Calls(w, Head(events), nth)
      /\ toPost' = [toPost EXCEPT ![w] = Tail(events)] /\ UNCHANGED <<codex, worker>> /\ RowsSame
  BY DEF PostEvent, Working
<1>2. /\ n \in Nat /\ Tells(n, "codex", run, events, tx[Live(w)], stale)
      /\ run \in CodexRun /\ events \in Seq(Progress)
      /\ Calm(w, "codex", run, tx[Live(w)], stale) /\ Len(events) <= run.made
  BY <1>1, WorkerKnows DEF WorkerTells, Attends
<1>3. PICK live : /\ Called(live, Head(events), nth)
                  /\ tx' = [tx EXCEPT ![Live(w)] = live, ![Stale(w)] = stale]
  BY <1>1, CallsDo, GivenUpIs DEF InFlight
<1>4. /\ Head(events) \in Progress /\ Head(events) = events[1]
      /\ Tail(events) \in Seq(Progress) /\ Len(events) \in Nat /\ Len(events) > 0
      /\ Len(Tail(events)) = Len(events) - 1
      /\ \A k \in 1 .. Len(Tail(events)) : Tail(events)[k] = events[k + 1]
  BY <1>1, <1>2
<1>5. /\ n = run.made - Len(events) /\ run.made \in Nat /\ n < run.made /\ nth = n + 1
      /\ ~Posting(stale) /\ ~Completing(stale) /\ run.state # "none"
  <2>1. run.made \in Nat
    BY <1>2 DEF CodexRun
  <2> HIDE DEF run, events, n, stale
  <2>2. n = run.made - Len(events) /\ run.state # "none" /\ ~Posting(stale) /\ ~Completing(stale)
    BY <1>1, <1>2 DEF Tells, Finished
  <2>. QED  BY <1>4, <2>1, <2>2
<1>6. events[1] = OutputOf(run.written)[n + 1]
      /\ \A k \in 1 .. Len(Tail(events)) :
           Tail(events)[k] = OutputOf(run.written)[run.made - Len(Tail(events)) + k]
  <2>1. \A k \in 1 .. Len(events) : events[k] = OutputOf(run.written)[run.made - Len(events) + k]
    BY <1>2 DEF Tells
  <2>2. 1 \in 1 .. Len(events) /\ run.made - Len(events) + 1 = n + 1
    BY <1>4, <1>5
  <2>3. \A k \in 1 .. Len(Tail(events)) :
          k + 1 \in 1 .. Len(events) /\ run.made - Len(Tail(events)) + k = run.made - Len(events) + (k + 1)
    BY <1>4, <1>5
  <2>. QED  BY <1>4, <2>1, <2>2, <2>3
<1>7. ~Completing(live)
  BY <1>3, <1>4 DEF Called, Completing, Progress, InFlight
<1>8. live.at \in InFlight => live.nth = n + 1 /\ live.type = OutputOf(run.written)[n + 1]
  BY <1>3, <1>4, <1>5, <1>6 DEF Called, InFlight
<1>9. Steps(w, "codex", run, Tail(events), live, stale)
  BY <1>1, <1>3, WorkerHas DEF Steps
<1>10. live.at \in {"number", "refused"}
  BY <1>3 DEF Called
<1>11. n + 1 = run.made - Len(Tail(events))
  BY <1>4, <1>5
<1>12. Tells(n, "codex", run, Tail(events), live, stale)
  <2> HIDE DEF stale, n, nth, run
  <2>1. n <= run.made /\ run.made = Len(OutputOf(Lead(run.written, run.read)))
    BY <1>2 DEF Tells
  <2>2. \A call \in {live, stale} :
          /\ Posting(call) =>
               call.nth = n + 1 /\ n < run.made /\ call.type = OutputOf(run.written)[n + 1]
          /\ Completing(call) => Finished(n, "codex", run, live, stale)
    BY <1>5, <1>7, <1>8 DEF Posting
  <2>3. live.at \in InFlight => live.nth > 0 /\ live.nth = run.made - Len(Tail(events))
    BY <1>2, <1>8, <1>11
  <2>4. live.at \notin {"none", "ok"}
    BY <1>10
  <2>. QED  BY <1>5, <1>6, <2>1, <2>2, <2>3, <2>4 DEF Tells
<1>13. Calm(w, "codex", run, live, stale)
  <2>1. Counting(live) => Posting(live) /\ live.turns = session.turns
    BY <1>2, <1>3, <1>8 DEF Counting, Posting, Called, InFlight
  <2>2. live.at \in InFlight => live.status = session.status
    BY <1>3 DEF Called, InFlight
  <2>3. live.at # "ok"
    BY <1>10
  <2> HIDE DEF stale, run
  <2>. QED  BY <1>2, <2>1, <2>2, <2>3 DEF Calm
<1>14. ~WorkerFinished(w)
  BY <1>1 DEF WorkerFinished, Finished
<1>15. Begins(OutputOf(codex[w].written), OutputOf(run.written))
  BY <1>2, BeginsItself
<1> HIDE DEF stale, run, nth
<1>16. run.made > 0
  BY <1>2, <1>5
<1>. QED  BY <1>2, <1>9, <1>12, <1>13, <1>14, <1>15, <1>16, StepTells

\* A worker learns that its event was taken.
LEMMA TakenTells ==
  ASSUME IInv, Telling, NEW w \in Workers, EventTaken(w)
  PROVE  Telling'
<1> DEFINE stale == tx[Stale(w)]
<1>1. /\ worker[w] = "codex" /\ tx[Live(w)].at = "ok" /\ Hangs(w)
      /\ UNCHANGED <<worker, codex, toPost>> /\ RowsSame
  BY DEF EventTaken
<1>2. tx' = [tx EXCEPT ![Live(w)] = NoCall, ![Stale(w)] = stale]
  BY <1>1, HangsDo, GivenUpIs DEF InFlight
<1>3. /\ Tells(Told(w), "codex", codex[w], toPost[w], tx[Live(w)], stale)
      /\ Calm(w, "codex", codex[w], tx[Live(w)], stale)
  BY <1>1, WorkerKnows DEF WorkerTells
<1>4. Steps(w, "codex", codex[w], toPost[w], NoCall, stale)
  BY <1>1, <1>2, WorkerHas DEF Steps
<1> HIDE DEF stale
<1>5. Tells(Told(w), "codex", codex[w], toPost[w], NoCall, stale)
  BY <1>1, <1>3, NoCallIs DEF Tells, Finished, InFlight
<1>6. Calm(w, "codex", codex[w], NoCall, stale)
  BY <1>1, <1>3, NoCallIs DEF Calm
<1>7. ~WorkerFinished(w)
  BY <1>1 DEF WorkerFinished, Finished
<1>. QED  BY <1>4, <1>5, <1>6, <1>7, MoveTells


\* Codex as a failure, or the end of its worker, leaves it.
Killed(run) == [run EXCEPT !.state = IF run.state = "running" THEN "killed" ELSE run.state]

\* What becomes of a Codex that is killed.
LEMMA KilledIs ==
  ASSUME NEW run \in CodexRun
  PROVE  /\ Killed(run) \in CodexRun /\ Killed(run).written = run.written
         /\ Killed(run).read = run.read /\ Killed(run).made = run.made
         /\ run.state # "running" => Killed(run) = run
         /\ (Killed(run).state = "none" <=> run.state = "none")
BY DEF Killed, CodexRun

\* Away from Codex, a call that was given up may still do what it was to do.
LEMMA GivenUpTells ==
  ASSUME IInv, Telling, NEW w \in Workers
  PROVE  /\ Posting(GivenUp(w)) =>
              /\ GivenUp(w).nth = Told(w) + 1 /\ Told(w) < codex[w].made
              /\ GivenUp(w).type = OutputOf(codex[w].written)[Told(w) + 1]
         /\ Completing(GivenUp(w)) => WorkerFinished(w)
         /\ WorkerFinished(w) => ~Posting(GivenUp(w))
         /\ Counting(GivenUp(w)) =>
              Posting(GivenUp(w)) /\ (OneRun => GivenUp(w).turns = session.turns)
         /\ session.status = "launching" /\ GivenUp(w).at \in InFlight =>
              GivenUp(w).status = "launching"
<1>1. /\ Tells(Told(w), worker[w], codex[w], toPost[w], tx[Live(w)], tx[Stale(w)])
      /\ Calm(w, worker[w], codex[w], tx[Live(w)], tx[Stale(w)])
  BY WorkerKnows DEF WorkerTells
<1>2. GivenUp(w) \in {tx[Live(w)], tx[Stale(w)]}
  BY GivenUpIs
<1>3. WorkerFinished(w) <=> Finished(Told(w), worker[w], codex[w], tx[Live(w)], tx[Stale(w)])
  BY DEF WorkerFinished
<1> DEFINE call == GivenUp(w)
<1> HIDE DEF call
<1>4. call \in {tx[Live(w)], tx[Stale(w)]}
  BY <1>2 DEF call
<1>5. /\ Posting(call) => /\ call.nth = Told(w) + 1 /\ Told(w) < codex[w].made
                          /\ call.type = OutputOf(codex[w].written)[Told(w) + 1]
      /\ Completing(call) => WorkerFinished(w)
  BY <1>1, <1>3, <1>4 DEF Tells
<1>6. WorkerFinished(w) => ~Posting(call)
  BY <1>3, <1>4 DEF Finished
<1>7. /\ Counting(call) => Posting(call) /\ (OneRun => call.turns = session.turns)
      /\ session.status = "launching" /\ call.at \in InFlight => call.status = "launching"
  BY <1>1, <1>4 DEF Calm
<1>. QED  BY <1>5, <1>6, <1>7 DEF call

\* A worker leaves Codex, or what comes before it, with a call or without: it
\* tells no more but what it has given up.
LEMMA LeavingTells ==
  ASSUME IInv, Telling, NEW w \in Workers, NEW place \in {"report", "polling"}, NEW live,
         NEW run \in {codex[w], Killed(codex[w])}, NEW events \in {toPost[w], << >>},
         live.at \in {"none", "number", "refused"}, ~Posting(live), ~Counting(live),
         live.at \in InFlight => live.status = session.status,
         Completing(live) => Finished(Told(w), place, run, live, GivenUp(w)),
         Steps(w, place, run, events, live, GivenUp(w))
  PROVE  Telling'
<1>1. /\ Tells(Told(w), worker[w], codex[w], toPost[w], tx[Live(w)], tx[Stale(w)])
      /\ codex[w] \in CodexRun /\ toPost[w] \in Seq(Progress)
      /\ Calm(w, worker[w], codex[w], tx[Live(w)], tx[Stale(w)])
  BY WorkerKnows DEF WorkerTells
<1>2. /\ run \in CodexRun /\ run.written = codex[w].written /\ run.read = codex[w].read
      /\ run.made = codex[w].made /\ (run.state = "none" <=> codex[w].state = "none")
      /\ codex[w].state # "running" => run = codex[w]
  BY <1>1, KilledIs
<1> DEFINE stale == GivenUp(w)
<1>3. /\ Posting(stale) => /\ stale.nth = Told(w) + 1 /\ Told(w) < codex[w].made
                           /\ stale.type = OutputOf(codex[w].written)[Told(w) + 1]
      /\ Completing(stale) => WorkerFinished(w)
      /\ WorkerFinished(w) => ~Posting(stale)
      /\ Counting(stale) => Posting(stale) /\ (OneRun => stale.turns = session.turns)
      /\ session.status = "launching" /\ stale.at \in InFlight => stale.status = "launching"
  BY GivenUpTells
<1> HIDE DEF stale
<1>4. WorkerFinished(w) => Finished(Told(w), place, run, live, stale)
  BY <1>2, <1>3 DEF WorkerFinished, Finished
<1>5. \A k \in 1 .. Len(events) : events[k] = OutputOf(run.written)[run.made - Len(events) + k]
  <2>1. CASE events = << >>
    <3>1. \A k \in 1 .. Len(events) : FALSE
      BY <2>1
    <3>. QED  BY <3>1, Zenon
  <2>2. CASE events = toPost[w]
    <3> HIDE DEF stale
    <3>1. \A k \in 1 .. Len(toPost[w]) :
            toPost[w][k] = OutputOf(codex[w].written)[codex[w].made - Len(toPost[w]) + k]
      BY <1>1, Zenon DEF Tells
    <3>. QED  BY <1>2, <2>2, <3>1, Zenon
  <2>. QED  BY <2>1, <2>2
<1>6. Told(w) <= run.made /\ run.made = Len(OutputOf(Lead(run.written, run.read)))
      /\ (run.state = "none" => run = NoCodex)
  BY <1>1, <1>2 DEF Tells
<1>7. Completing(live) => Finished(Told(w), place, run, live, stale)
  BY DEF stale
<1>8. Tells(Told(w), place, run, events, live, stale)
  BY <1>2, <1>3, <1>4, <1>5, <1>6, <1>7 DEF Tells
<1>9. Calm(w, place, run, live, stale)
  BY <1>1, <1>2, <1>3 DEF Calm
<1>10. Begins(OutputOf(codex[w].written), OutputOf(run.written))
  BY <1>1, <1>2, BeginsItself
<1>11. Steps(w, place, run, events, live, stale)
  BY DEF stale
<1>. QED  BY <1>2, <1>4, <1>8, <1>9, <1>10, <1>11, StepTells

\* Codex is killed and the session reported as failed.
LEMMA KilledTells ==
  ASSUME IInv, Telling, NEW w \in Workers,
         EventFails(w) \/ HeartbeatRefused(w) \/ HeartbeatLost(w)
  PROVE  Telling'
<1>1. CodexKilled(w)
  BY DEF EventFails, HeartbeatRefused, HeartbeatLost
<1>2. codex[w] \in CodexRun
  BY WorkerHas
<1>3. PICK live : /\ Called(live, "session_failed", 0)
                  /\ tx' = [tx EXCEPT ![Live(w)] = live, ![Stale(w)] = GivenUp(w)]
  BY <1>1, CallsDo DEF CodexKilled, Report
<1>4. codex' = [codex EXCEPT ![w] = Killed(codex[w])]
  BY <1>1 DEF CodexKilled, Killed, IInv, TypeOK
<1>5. worker' = [worker EXCEPT ![w] = "report"] /\ toPost' = [toPost EXCEPT ![w] = << >>]
      /\ RowsSame
  BY <1>1 DEF CodexKilled, Report
<1>6. Steps(w, "report", Killed(codex[w]), << >>, live, GivenUp(w))
  BY <1>3, <1>4, <1>5 DEF Steps
<1>7. /\ live.at \in {"none", "number", "refused"} /\ ~Posting(live) /\ ~Counting(live)
      /\ ~Completing(live) /\ (live.at \in InFlight => live.status = session.status)
  BY <1>3 DEF Called, Posting, Counting, Completing, InFlight
<1>. QED  BY <1>6, <1>7, LeavingTells

\* What Codex wrote has been read, as far as the worker knows, and it reports.
LEMMA ReportTells ==
  ASSUME IInv, Telling, NEW w \in Workers, Finish(w) \/ FinishUnread(w)
  PROVE  Telling'
<1> DEFINE type == IF codex[w].state = "exited" THEN "session_completed" ELSE "session_failed"
           run == codex[w]
           n == Told(w)
<1>1. /\ worker' = [worker EXCEPT ![w] = "report"] /\ Calls(w, type, 0)
      /\ RowsSame /\ UNCHANGED <<codex, toPost>>
  BY DEF Finish, FinishUnread, Reported, Report
<1>2. \/ worker[w] = "codex" /\ tx[Live(w)].at = "none" /\ toPost[w] = << >>
      \/ worker[w] = "silent"
  BY DEF Finish, FinishUnread, Working
<1>3. /\ Tells(n, worker[w], run, toPost[w], tx[Live(w)], tx[Stale(w)])
      /\ n \in Nat /\ run.made \in Nat
  BY WorkerKnows DEF WorkerTells, CodexRun
<1> HIDE DEF run, n
<1>4. n = run.made /\ tx[Live(w)].at = "none" /\ ~Posting(tx[Stale(w)])
  <2>1. CASE worker[w] = "silent"
    BY <1>3, <2>1 DEF Tells
  <2>2. CASE worker[w] # "silent"
    <3>1. Len(toPost[w]) = 0 /\ worker[w] = "codex" /\ tx[Live(w)].at = "none"
      BY <1>2, <2>2
    <3>2. n = run.made - 0
      BY <1>3, <3>1 DEF Tells
    <3>. QED  BY <1>3, <3>1, <3>2 DEF Tells
  <2>. QED  BY <2>1, <2>2
<1>5. PICK live : /\ Called(live, type, 0)
                  /\ tx' = [tx EXCEPT ![Live(w)] = live, ![Stale(w)] = GivenUp(w)]
  <2> HIDE DEF type
  <2>. QED  BY <1>1, CallsDo
<1>6. GivenUp(w) = tx[Stale(w)]
  BY <1>4, GivenUpIs DEF InFlight
<1>7. /\ live.at \in {"none", "number", "refused"} /\ ~Posting(live) /\ ~Counting(live)
      /\ live.at \in InFlight => live.status = session.status
  BY <1>5 DEF Called, Posting, Counting, InFlight
<1>8. Completing(live) => run.state = "exited"
  BY <1>5 DEF Called, Completing, InFlight, run
<1>9. Completing(live) => Finished(n, "report", run, live, GivenUp(w))
  BY <1>4, <1>6, <1>7, <1>8 DEF Finished
<1>10. Steps(w, "report", run, toPost[w], live, GivenUp(w))
  BY <1>1, <1>5, WorkerHas DEF Steps, run
<1>. QED  BY <1>7, <1>9, <1>10, LeavingTells DEF run, n

\* A launch ends, or its worker dies.
LEMMA EndTells ==
  ASSUME IInv, Telling, NEW w \in Workers, LaunchEnds(w) \/ WorkerDies(w)
  PROVE  Telling'
<1>1. PICK run \in {codex[w], Killed(codex[w])}, events \in {toPost[w], << >>} :
        /\ worker' = [worker EXCEPT ![w] = "polling"] /\ codex' = [codex EXCEPT ![w] = run]
        /\ toPost' = [toPost EXCEPT ![w] = events] /\ Hangs(w) /\ RowsSame
  <2>1. CASE LaunchEnds(w)
    BY <2>1, WorkerHas DEF LaunchEnds
  <2>2. CASE WorkerDies(w)
    <3>1. codex' = [codex EXCEPT ![w] = Killed(codex[w])]
      BY <2>2 DEF WorkerDies, Killed, IInv, TypeOK
    <3>. QED  BY <2>2, <3>1 DEF WorkerDies
  <2>. QED  BY <2>1, <2>2
<1>2. Steps(w, "polling", run, events, NoCall, GivenUp(w))
  BY <1>1, HangsDo DEF Steps
<1>3. NoCall.at \notin InFlight
  BY NoCallIs DEF InFlight
<1>. QED  BY <1>2, <1>3, NoCallIs, LeavingTells

\* Codex writes a line, or exits: what it has written before stays.
LEMMA CodexTells ==
  ASSUME IInv, Telling, NEW w \in Workers, CodexWrites(w) \/ CodexExits(w)
  PROVE  Telling'
<1> DEFINE live == tx[Live(w)]
           stale == tx[Stale(w)]
           run == codex[w]
           n == Told(w)
           out == OutputOf(run.written)
<1>1. /\ n \in Nat /\ Tells(n, worker[w], run, toPost[w], live, stale)
      /\ run \in CodexRun /\ toPost[w] \in Seq(Progress)
      /\ Attends(worker[w], run, toPost[w]) /\ run.state = "running"
      /\ Calm(w, worker[w], run, live, stale)
  BY WorkerKnows DEF WorkerTells, CodexWrites, CodexExits
<1>2. /\ run.made = Len(OutputOf(Lead(run.written, run.read))) /\ run.read <= Len(run.written)
      /\ Len(toPost[w]) <= run.made /\ run.written \in Seq(Lines) /\ run.read \in Nat
  BY <1>1 DEF Tells, Attends, CodexRun
<1>3. run.made \in Nat /\ Len(out) \in Nat /\ run.made <= Len(out)
  BY <1>1, <1>2, MadeIsLed
<1>4. PICK next \in CodexRun :
        /\ codex' = [codex EXCEPT ![w] = next]
        /\ next.read = run.read /\ next.made = run.made /\ next.state # "none"
        /\ Lead(next.written, run.read) = Lead(run.written, run.read)
        /\ Begins(out, OutputOf(next.written))
  <2>1. CASE CodexWrites(w)
    <3>1. PICK kind \in Lines :
            codex' = [codex EXCEPT ![w] = [run EXCEPT !.written = Append(run.written, kind)]]
      BY <2>1 DEF CodexWrites, IInv, TypeOK
    <3> DEFINE written == Append(run.written, kind)
    <3>2. written \in Seq(Lines) /\ written = run.written \o <<kind>> /\ <<kind>> \in Seq(Lines)
      BY <1>2, AppendIsConcat
    <3>3. Lead(written, run.read) = Lead(run.written, run.read)
      <4>1. \A s, t \in Seq(Lines) : \A m \in 0 .. Len(s) : SubSeq(s \o t, 1, m) = SubSeq(s, 1, m)
        BY SubSeqOfConcat1
      <4>2. run.read \in 0 .. Len(run.written)
        BY <1>2
      <4>. QED  BY <1>2, <3>2, <4>1, <4>2 DEF Lead
    <3>4. Begins(out, OutputOf(written))
      <4>1. OutputOf(written) = out \o Translation[kind]
        BY <1>2, OutputGrows
      <4>2. out \in Seq(Progress) /\ Translation[kind] \in Seq(Progress)
        BY <1>2, OutputTypes, TranslationTypes
      <4> HIDE DEF out
      <4>. QED  BY <4>1, <4>2, ConcatProperties DEF Begins
    <3> HIDE DEF written
    <3> DEFINE next == [run EXCEPT !.written = written]
    <3>5. /\ next \in CodexRun /\ next.read = run.read /\ next.made = run.made
          /\ next.state = run.state /\ next.written = written
      BY <1>1, <3>2 DEF CodexRun
    <3>6. codex' = [codex EXCEPT ![w] = next]
      BY <3>1 DEF written
    <3> HIDE DEF next
    <3>. QED  BY <1>1, <3>3, <3>4, <3>5, <3>6
  <2>2. CASE CodexExits(w)
    <3>1. PICK state \in {"exited", "broken"} :
            codex' = [codex EXCEPT ![w] = [run EXCEPT !.state = state]]
      BY <2>2 DEF CodexExits, IInv, TypeOK
    <3> DEFINE next == [run EXCEPT !.state = state]
    <3>2. /\ next \in CodexRun /\ next.read = run.read /\ next.made = run.made
          /\ next.state = state /\ next.written = run.written
      BY <1>1 DEF CodexRun
    <3>3. codex' = [codex EXCEPT ![w] = next]
      BY <3>1
    <3> HIDE DEF next
    <3>4. Begins(out, OutputOf(next.written))
      BY <1>1, <3>2, BeginsItself
    <3>. QED  BY <3>2, <3>3, <3>4
  <2>. QED  BY <2>1, <2>2
<1>5. /\ worker[w] \in {"codex", "silent"} /\ UNCHANGED <<tx, worker, toPost>> /\ RowsSame
  BY <1>1 DEF Attends, CodexWrites, CodexExits
<1>6. Steps(w, worker[w], next, toPost[w], live, stale)
  BY <1>4, <1>5, SlotsSame, WorkerHas DEF Steps
<1>7. ~WorkerFinished(w) /\ ~Completing(live) /\ ~Completing(stale)
  BY <1>1, <1>5 DEF WorkerFinished, Finished, Tells
<1> HIDE DEF live, stale, run, n, out
<1>8. \A k \in 1 .. run.made : OutputOf(next.written)[k] = out[k]
  BY <1>3, <1>4 DEF Begins
<1>9. \A k \in 1 .. Len(toPost[w]) :
        toPost[w][k] = OutputOf(next.written)[next.made - Len(toPost[w]) + k]
  <2>1. \A k \in 1 .. Len(toPost[w]) : toPost[w][k] = out[run.made - Len(toPost[w]) + k]
    BY <1>1 DEF Tells, out
  <2>2. Len(toPost[w]) \in Nat
    BY <1>1
  <2>3. \A k \in 1 .. Len(toPost[w]) : run.made - Len(toPost[w]) + k \in 1 .. run.made
    BY <1>2, <1>3, <2>2
  <2>. QED  BY <1>4, <1>8, <2>1, <2>3
<1>10. \A call \in {live, stale} :
         Posting(call) => call.nth = n + 1 /\ n < next.made
                          /\ call.type = OutputOf(next.written)[n + 1]
  <2>1. SUFFICES ASSUME NEW call \in {live, stale}, Posting(call)
                 PROVE  call.nth = n + 1 /\ n < next.made
                        /\ call.type = OutputOf(next.written)[n + 1]
    OBVIOUS
  <2>2. call.nth = n + 1 /\ n < run.made /\ call.type = out[n + 1]
    BY <1>1, <2>1 DEF Tells, out
  <2>3. n + 1 \in 1 .. run.made
    BY <1>1, <1>3, <2>2
  <2>. QED  BY <1>4, <1>8, <2>2, <2>3
<1>11. /\ n <= next.made /\ next.made = Len(OutputOf(Lead(next.written, next.read)))
       /\ Posting(live) => worker[w] = "codex"
       /\ Posting(stale) => worker[w] \in {"report", "polling"}
       /\ worker[w] = "codex" /\ live.at \in {"none", "ok"} => n = next.made - Len(toPost[w])
       /\ worker[w] = "codex" /\ live.at \in InFlight =>
            live.nth > 0 /\ live.nth = next.made - Len(toPost[w])
       /\ worker[w] = "silent" => n = next.made /\ live.at = "none"
  BY <1>1, <1>2, <1>4 DEF Tells
<1>12. Tells(n, worker[w], next, toPost[w], live, stale)
  BY <1>4, <1>5, <1>7, <1>9, <1>10, <1>11 DEF Tells
<1>13. session.status # "launching"
  BY <1>1 DEF Calm
<1>14. Calm(w, worker[w], next, live, stale)
  BY <1>1, <1>13 DEF Calm
<1>15. Begins(OutputOf(codex[w].written), OutputOf(next.written)) /\ codex[w].made = next.made
  BY <1>4 DEF run, out
<1>. QED  BY <1>3, <1>6, <1>7, <1>12, <1>14, <1>15, StepTells DEF n, live, stale


\* The API goes on with a transaction.
GoesOn(call, was) ==
  /\ call.at \in InFlight /\ was.at \in InFlight
  /\ call.type = was.type /\ call.nth = was.nth /\ call.status = was.status
  /\ call.turns = was.turns

RestSame == UNCHANGED <<session, lane, env, log, worker, codex, toPost, raced>>

\* The API goes on with a worker's transaction, or drops it.
LEMMA SlotTells ==
  ASSUME IInv, Telling, NEW w \in Workers, NEW s \in {Live(w), Stale(w)}, NEW call,
         tx' = [tx EXCEPT ![s] = call], RestSame,
         \/ GoesOn(call, tx[s])
         \/ tx[s].at \in InFlight /\ call.at \in {"none", "refused"}
            /\ (s = Live(w) => call.at = "refused")
  PROVE  Telling'
<1> DEFINE live == IF s = Live(w) THEN call ELSE tx[Live(w)]
           stale == IF s = Live(w) THEN tx[Stale(w)] ELSE call
           run == codex[w]
           n == Told(w)
<1>1. tx' = [tx EXCEPT ![Live(w)] = live, ![Stale(w)] = stale]
  <2>1. tx \in [Slots -> Transaction] /\ Live(w) \in Slots /\ Stale(w) \in Slots /\ Live(w) # Stale(w)
    BY SlotsDiffer DEF IInv, TypeOK
  <2>2. CASE s = Live(w)
    <3>1. live = call /\ stale = tx[Stale(w)]
      BY <2>2
    <3> HIDE DEF live, stale
    <3>. QED  BY <2>1, <2>2, <3>1
  <2>3. CASE s = Stale(w)
    <3>1. live = tx[Live(w)] /\ stale = call
      BY <2>1, <2>3
    <3> HIDE DEF live, stale
    <3>. QED  BY <2>1, <2>3, <3>1
  <2>. QED  BY <2>2, <2>3
<1>2. /\ n \in Nat /\ Tells(n, worker[w], run, toPost[w], tx[Live(w)], tx[Stale(w)])
      /\ Calm(w, worker[w], run, tx[Live(w)], tx[Stale(w)])
  BY WorkerKnows DEF WorkerTells
<1>3. Steps(w, worker[w], run, toPost[w], live, stale)
  BY <1>1, WorkerHas DEF Steps, RestSame, RowsSame
<1>4. /\ live = tx[Live(w)] \/ GoesOn(live, tx[Live(w)])
         \/ (tx[Live(w)].at \in InFlight /\ live.at = "refused")
      /\ stale = tx[Stale(w)] \/ GoesOn(stale, tx[Stale(w)])
         \/ (tx[Stale(w)].at \in InFlight /\ stale.at \in {"none", "refused"})
  <2>1. CASE s = Live(w)
    BY <2>1
  <2>2. CASE s # Live(w)
    <3>1. s = Stale(w)
      BY <2>2
    <3>. QED  BY <2>2, <3>1
  <2>. QED  BY <2>1, <2>2
<1> HIDE DEF live, stale, run, n
<1>5. /\ Posting(live) => Posting(tx[Live(w)]) /\ live.nth = tx[Live(w)].nth
                          /\ live.type = tx[Live(w)].type
      /\ Posting(stale) => Posting(tx[Stale(w)]) /\ stale.nth = tx[Stale(w)].nth
                           /\ stale.type = tx[Stale(w)].type
      /\ Completing(live) => Completing(tx[Live(w)])
      /\ Completing(stale) => Completing(tx[Stale(w)])
  BY <1>4 DEF GoesOn, Posting, Completing, InFlight
<1>6. WorkerFinished(w) => Finished(n, worker[w], run, live, stale)
  BY <1>5 DEF WorkerFinished, Finished, n, run
<1>7. Completing(live) \/ Completing(stale) => WorkerFinished(w)
  BY <1>2, <1>5 DEF WorkerFinished, Tells, n, run
<1>8. /\ live.at \in {"none", "ok"} => live = tx[Live(w)]
      /\ live.at \in InFlight => tx[Live(w)].at \in InFlight /\ live.nth = tx[Live(w)].nth
      /\ tx[Live(w)].at = "none" => live = tx[Live(w)]
  BY <1>4 DEF GoesOn, InFlight
<1>9. Tells(n, worker[w], run, toPost[w], live, stale)
  <2>1. \A call_1 \in {live, stale} :
          /\ Posting(call_1) => /\ call_1.nth = n + 1 /\ n < run.made
                                /\ call_1.type = OutputOf(run.written)[n + 1]
          /\ Completing(call_1) => Finished(n, worker[w], run, live, stale)
    BY <1>2, <1>5, <1>6, <1>7 DEF Tells
  <2>2. /\ n <= run.made /\ run.made = Len(OutputOf(Lead(run.written, run.read)))
        /\ \A k \in 1 .. Len(toPost[w]) :
             toPost[w][k] = OutputOf(run.written)[run.made - Len(toPost[w]) + k]
    BY <1>2, Zenon DEF Tells
  <2>3. /\ Posting(live) => worker[w] = "codex"
        /\ Posting(stale) => worker[w] \in {"report", "polling"}
    BY <1>2, <1>5 DEF Tells
  <2>4. /\ worker[w] = "codex" /\ live.at \in {"none", "ok"} => n = run.made - Len(toPost[w])
        /\ worker[w] = "codex" /\ live.at \in InFlight =>
             live.nth > 0 /\ live.nth = run.made - Len(toPost[w])
        /\ worker[w] = "silent" => n = run.made
        /\ worker[w] \in {"launch", "silent"} => live.at = "none"
    BY <1>2, <1>8 DEF Tells
  <2>5. /\ worker[w] \in {"launch", "handshake", "greeting"} => run.state = "none"
        /\ worker[w] \in {"codex", "silent"} => run.state # "none"
        /\ run.state = "none" => run = NoCodex
    BY <1>2 DEF Tells
  <2>. QED  BY <2>1, <2>2, <2>3, <2>4, <2>5 DEF Tells
<1>10. /\ live.at \in InFlight => live.status = tx[Live(w)].status /\ tx[Live(w)].at \in InFlight
       /\ stale.at \in InFlight => stale.status = tx[Stale(w)].status /\ tx[Stale(w)].at \in InFlight
       /\ Counting(live) => Counting(tx[Live(w)]) /\ live.turns = tx[Live(w)].turns
                            /\ (Posting(tx[Live(w)]) => Posting(live))
       /\ Counting(stale) => Counting(tx[Stale(w)]) /\ stale.turns = tx[Stale(w)].turns
                             /\ (Posting(tx[Stale(w)]) => Posting(stale))
       /\ live.at = "ok" => tx[Live(w)].at = "ok"
  BY <1>4 DEF GoesOn, Counting, Posting, InFlight
<1>11. Calm(w, worker[w], run, live, stale)
  BY <1>2, <1>10 DEF Calm
<1>. QED  BY <1>3, <1>6, <1>9, <1>11, MoveTells DEF n, run

\* The loop or an operator begins a transaction, or the API goes on with it or
\* drops it: nothing of a worker changes.
LEMMA OthersTell ==
  ASSUME IInv, Telling, NEW s \in {LoopCall, Cancellation}, NEW call,
         tx' = [tx EXCEPT ![s] = call], RestSame, ~Counting(call),
         session.status = "launching" /\ call.at \in InFlight => call.status = "launching"
  PROVE  Telling'
<1>1. s \in Slots /\ tx \in [Slots -> Transaction]
  BY SlotsDiffer DEF IInv, TypeOK
<1>2. /\ tx'[s] = call /\ \A t \in Slots \ {s} : tx'[t] = tx[t]
      /\ \A w \in Workers : tx'[Live(w)] = tx[Live(w)] /\ tx'[Stale(w)] = tx[Stale(w)]
  <2>1. \A w \in Workers : Live(w) \in Slots \ {s} /\ Stale(w) \in Slots \ {s}
    BY SlotsDiffer, SlotOwners
  <2>2. tx'[s] = call /\ \A t \in Slots \ {s} : tx'[t] = tx[t]
    BY <1>1
  <2>. QED  BY <2>1, <2>2
<1>3. /\ \A w \in Workers : Posts(w)' = Posts(w) /\ Told(w)' = Told(w) /\ Output(w)' = Output(w)
      /\ Turns' = Turns /\ OneRun' = OneRun
  BY DEF RestSame, Posts, Told, Output, Turns, OneRun
<1>4. \A w \in Workers : WorkerTells(w)' /\ ToldInOrder(w)' /\ ReportedLast(w)'
  <2>1. SUFFICES ASSUME NEW w \in Workers PROVE WorkerTells(w)' /\ ToldInOrder(w)' /\ ReportedLast(w)'
    OBVIOUS
  <2>2. WorkerTells(w)' /\ (WorkerFinished(w)' <=> WorkerFinished(w))
    BY <1>2, <1>3 DEF Telling, WorkerTells, WorkerFinished, RestSame
  <2>3. ToldInOrder(w)'
    BY <1>3 DEF Telling, ToldInOrder
  <2>4. ReportedLast(w)'
    BY <1>3, <2>2 DEF Telling, ReportedLast, RestSame
  <2>. QED  BY <2>2, <2>3, <2>4
<1>5. NotBegun'
  BY <1>2 DEF Telling, NotBegun, RestSame
<1>6. Counted'
  BY <1>2, <1>3 DEF Telling, Counted, RestSame
<1>. QED  BY <1>4, <1>5, <1>6 DEF Telling

\* A transaction takes its number, is refused or aborted, or begins at the API.
LEMMA ApiTells ==
  ASSUME IInv, Telling,
         \/ DeadlinePasses \/ OperatorCancels \/ CleanupOrphan
         \/ \E s \in Slots : Number(s) \/ Abort(s) \/ (Write(s) /\ Taken(tx[s].sequence))
  PROVE  Telling'
<1>1. CASE CleanupOrphan
  <2>1. UNCHANGED <<session, log, tx, worker, codex, toPost>>
    BY <1>1 DEF CleanupOrphan
  <2>. QED  BY <2>1 DEF Telling, WorkerTells, ToldInOrder, ReportedLast, NotBegun, Counted,
                        WorkerFinished, Posts, Told, Output, OneRun, Turns
<1>2. ASSUME DeadlinePasses \/ OperatorCancels
      PROVE  Telling'
  <2>1. PICK s \in {LoopCall, Cancellation}, type \in {"session_failed", "operator_cancelled"} :
          tx' = [tx EXCEPT ![s] = Loaded(type, 0)] /\ RestSame
    BY <1>2 DEF DeadlinePasses, OperatorCancels, RestSame
  <2>2. Loaded(type, 0).type = type /\ Loaded(type, 0).status = session.status
    BY DEF Loaded, NoCall
  <2>. QED  BY <2>1, <2>2, OthersTell DEF Counting
<1>3. ASSUME NEW s \in Slots, Number(s) \/ Abort(s) \/ (Write(s) /\ Taken(tx[s].sequence))
      PROVE  Telling'
  <2>1. tx[s] \in Transaction /\ tx[s].at \in InFlight
    BY <1>3 DEF IInv, TypeOK, Number, Abort, Write, InFlight
  <2>2. PICK call : /\ tx' = [tx EXCEPT ![s] = call] /\ RestSame
                    /\ GoesOn(call, tx[s]) \/ call = Replied(s, "refused")
    <3>1. CASE Number(s)
      <4> DEFINE call == [tx[s] EXCEPT !.at = "write", !.sequence = NextSequence]
      <4>1. tx' = [tx EXCEPT ![s] = call] /\ RestSame
        BY <2>1, <3>1 DEF Number, RestSame, IInv, TypeOK
      <4>2. GoesOn(call, tx[s])
        BY <2>1 DEF GoesOn, Transaction, InFlight
      <4>. QED  BY <4>1, <4>2
    <3>2. CASE Abort(s) \/ (Write(s) /\ Taken(tx[s].sequence))
      BY <3>2 DEF Abort, Write, RestSame
    <3>. QED  BY <1>3, <3>1, <3>2
  <2>3. CASE s \in {LoopCall, Cancellation}
    <3>1. Replied(s, "refused") = NoCall
      BY <2>3, SlotOwners DEF Replied, Live, LoopCall, Cancellation
    <3>2. /\ ~Counting(tx[s])
          /\ session.status = "launching" => tx[s].status = "launching"
      BY <2>1, <2>3 DEF Telling, Counted, NotBegun
    <3>3. ~Counting(call) /\ (session.status = "launching" /\ call.at \in InFlight
                                => call.status = "launching")
      <4>1. CASE GoesOn(call, tx[s])
        BY <3>2, <4>1 DEF GoesOn, Counting
      <4>2. CASE call = NoCall
        BY <4>2, NoCallIs DEF InFlight
      <4>. QED  BY <2>2, <3>1, <4>1, <4>2
    <3>. QED  BY <2>2, <2>3, <3>3, OthersTell
  <2>4. ASSUME NEW w \in Workers, s \in {Live(w), Stale(w)}
        PROVE  Telling'
    <3>1. Replied(s, "refused").at \in {"none", "refused"}
          /\ (s = Live(w) => Replied(s, "refused").at = "refused")
      BY DEF Replied, NoCall
    <3>. QED  BY <2>1, <2>2, <2>4, <3>1, SlotTells
  <2>. QED  BY <2>3, <2>4, SlotOwners
<1>. QED  BY <1>1, <1>2, <1>3


\* A transaction that commits.
Stores(s) == Write(s) /\ ~Taken(tx[s].sequence)

\* What a commit does to the log, the rows and the slots.
LEMMA StoresDo ==
  ASSUME IInv, Telling, NEW s \in Slots, Stores(s)
  PROVE  /\ tx[s].at \in InFlight /\ tx[s] \in Transaction /\ UNCHANGED <<worker, codex, toPost>>
         /\ tx'[s] = Replied(s, "ok") /\ \A t \in Slots \ {s} : tx'[t] = tx[t]
         /\ log' = log \cup {EventOf(s)} /\ EventOf(s) \notin log
         /\ \A e \in log : e.sequence < EventOf(s).sequence
         /\ session'.turns = IF tx[s].type = "turn_started" THEN tx[s].turns + 1 ELSE session.turns
         /\ session'.status # "launching"
<1>1. Commits(s) /\ tx[s].at = "write" /\ ~Taken(tx[s].sequence) /\ UNCHANGED <<worker, codex, toPost>>
  BY DEF Stores, Write
<1>2. tx \in [Slots -> Transaction] /\ tx[s].at \in InFlight
  BY <1>1 DEF IInv, TypeOK, InFlight
<1>3. tx'[s] = Replied(s, "ok") /\ \A t \in Slots \ {s} : tx'[t] = tx[t]
  BY <1>1, <1>2 DEF Commits
<1>4. session'.turns = IF tx[s].type = "turn_started" THEN tx[s].turns + 1 ELSE session.turns
  BY <1>1 DEF Commits
<1>5. session'.status # "launching"
  <2> DEFINE after == StatusAfter(tx[s].type)
  <2>1. session'.status = WriteChanged(after, tx[s].status, session.status)
    BY <1>1 DEF Commits
  <2>2. after # "launching"
    BY DEF StatusAfter
  <2>3. session.status = "launching" => tx[s].status = "launching"
    BY <1>2 DEF Telling, NotBegun
  <2> HIDE DEF after
  <2>. QED  BY <2>1, <2>2, <2>3 DEF WriteChanged
<1>. QED  BY <1>1, <1>2, <1>3, <1>4, <1>5, EventIsLast

\* Another worker has told what it had.
LEMMA ElsewhereStored ==
  ASSUME IInv, Telling, NEW s \in Slots, Stores(s), NEW w \in Workers, s \notin {Live(w), Stale(w)}
  PROVE  WorkerTells(w)' /\ ToldInOrder(w)' /\ ReportedLast(w)'
<1>1. s[1] # w
  BY DEF Slots, LoopCall, Cancellation, Live, Stale
<1>2. /\ UNCHANGED <<worker, codex, toPost>> /\ log' = log \cup {EventOf(s)}
      /\ EventOf(s).by # w /\ \A t \in Slots \ {s} : tx'[t] = tx[t]
  BY <1>1, StoresDo DEF EventOf
<1>3. tx'[Live(w)] = tx[Live(w)] /\ tx'[Stale(w)] = tx[Stale(w)]
  BY <1>2, SlotsDiffer
<1>4. Posts(w)' = Posts(w) /\ Told(w)' = Told(w) /\ Output(w)' = Output(w)
  BY <1>2 DEF Posts, Told, Output
<1>5. WorkerTells(w)' /\ (WorkerFinished(w)' <=> WorkerFinished(w))
  BY <1>2, <1>3, <1>4 DEF Telling, WorkerTells, WorkerFinished
<1>6. ToldInOrder(w)'
  BY <1>4 DEF Telling, ToldInOrder
<1>7. ReportedLast(w)'
  BY <1>2, <1>4, <1>5 DEF Telling, ReportedLast
<1>. QED  BY <1>5, <1>6, <1>7

\* The worker's slots after its transaction: one is free, and the other as it was.
LEMMA OwnSlots ==
  ASSUME IInv, Telling, NEW s \in Slots, Stores(s), NEW w \in Workers, s \in {Live(w), Stale(w)}
  PROVE  \/ s = Live(w) /\ tx'[Live(w)].at = "ok" /\ tx'[Stale(w)] = tx[Stale(w)]
         \/ s = Stale(w) /\ tx'[Stale(w)].at = "none" /\ tx'[Live(w)] = tx[Live(w)]
<1>1. Live(w) \in Slots /\ Stale(w) \in Slots /\ Live(w) # Stale(w)
  BY SlotsDiffer
<1>2. tx'[s] = Replied(s, "ok") /\ \A t \in Slots \ {s} : tx'[t] = tx[t]
  BY StoresDo
<1>3. s = Live(w) => Replied(s, "ok").at = "ok"
  BY DEF Replied, NoCall
<1>4. s = Stale(w) => Replied(s, "ok") = NoCall
  BY DEF Replied, Live, Stale
<1>. QED  BY <1>1, <1>2, <1>3, <1>4, NoCallIs

\* The worker itself, if its transaction was not to write an event of Codex.
LEMMA ReportStored ==
  ASSUME IInv, Telling, NEW s \in Slots, Stores(s), NEW w \in Workers, s \in {Live(w), Stale(w)},
         ~Posting(tx[s])
  PROVE  WorkerTells(w)' /\ ToldInOrder(w)' /\ ReportedLast(w)'
<1> DEFINE event == EventOf(s)
           n == Told(w)
           run == codex[w]
           live == tx'[Live(w)]
           stale == tx'[Stale(w)]
<1>1. /\ UNCHANGED <<worker, codex, toPost>> /\ log' = log \cup {event}
      /\ tx[s].at \in InFlight /\ \A e \in log : e.sequence < event.sequence
      /\ event.nth = tx[s].nth /\ event.type = tx[s].type
      /\ tx[s].nth \in Nat
  BY StoresDo DEF EventOf, Transaction
<1>2. ~(event.nth > 0)
  BY <1>1 DEF Posting
<1>3. Posts(w)' = Posts(w) /\ Told(w)' = n /\ Output(w)' = Output(w)
  BY <1>1, <1>2 DEF Posts, Told, Output
<1>4. /\ n \in Nat /\ Tells(n, worker[w], run, toPost[w], tx[Live(w)], tx[Stale(w)])
      /\ WorkerFinished(w) <=> Finished(n, worker[w], run, tx[Live(w)], tx[Stale(w)])
  BY WorkerKnows DEF WorkerTells, WorkerFinished
<1>5. \/ s = Live(w) /\ live.at = "ok" /\ stale = tx[Stale(w)]
      \/ s = Stale(w) /\ stale.at = "none" /\ live = tx[Live(w)]
  BY OwnSlots
<1> HIDE DEF event, n, run, live, stale
<1>6. live.at \in InFlight => live = tx[Live(w)]
  BY <1>5 DEF InFlight
<1>7. stale.at \in InFlight => stale = tx[Stale(w)]
  BY <1>5 DEF InFlight
<1>8. Finished(n, worker[w], run, tx[Live(w)], tx[Stale(w)]) => Finished(n, worker[w], run, live, stale)
  BY <1>6, <1>7 DEF Finished, Posting
<1>9. live.at = "none" => live = tx[Live(w)]
  BY <1>5
<1>10. live.at = "ok" => live = tx[Live(w)] \/ (tx[Live(w)].at \in InFlight /\ ~Posting(tx[Live(w)]))
  BY <1>1, <1>5
<1>11. Tells(n, worker[w], run, toPost[w], live, stale)
  <2>1. \A call \in {live, stale} :
          /\ Posting(call) => call.nth = n + 1 /\ n < run.made
                              /\ call.type = OutputOf(run.written)[n + 1]
          /\ Completing(call) => Finished(n, worker[w], run, live, stale)
    BY <1>4, <1>6, <1>7, <1>8 DEF Tells, Posting, Completing
  <2>2. /\ n <= run.made /\ run.made = Len(OutputOf(Lead(run.written, run.read)))
        /\ \A k \in 1 .. Len(toPost[w]) :
             toPost[w][k] = OutputOf(run.written)[run.made - Len(toPost[w]) + k]
    BY <1>4, Zenon DEF Tells
  <2>3. /\ Posting(live) => worker[w] = "codex"
        /\ Posting(stale) => worker[w] \in {"report", "polling"}
    BY <1>4, <1>6, <1>7 DEF Tells, Posting
  <2>4. worker[w] = "codex" /\ live.at \in {"none", "ok"} => n = run.made - Len(toPost[w])
    <3>1. worker[w] = "codex" /\ tx[Live(w)].at \in InFlight => Posting(tx[Live(w)])
      BY <1>4 DEF Tells, Posting
    <3>. QED  BY <1>4, <1>9, <1>10, <3>1 DEF Tells
  <2>5. worker[w] = "codex" /\ live.at \in InFlight =>
          live.nth > 0 /\ live.nth = run.made - Len(toPost[w])
    BY <1>4, <1>6 DEF Tells
  <2>6. worker[w] \in {"launch", "silent"} => live.at = "none"
    <3>1. worker[w] \in {"launch", "silent"} => tx[Live(w)].at = "none"
      BY <1>4 DEF Tells
    <3>. QED  BY <1>1, <1>5, <3>1 DEF InFlight
  <2>7. /\ worker[w] = "silent" => n = run.made
        /\ worker[w] \in {"launch", "handshake", "greeting"} => run.state = "none"
        /\ worker[w] \in {"codex", "silent"} => run.state # "none"
        /\ run.state = "none" => run = NoCodex
    BY <1>4 DEF Tells
  <2>. QED  BY <2>1, <2>2, <2>3, <2>4, <2>5, <2>6, <2>7 DEF Tells
<1>12. WorkerTells(w)' /\ (WorkerFinished(w) => WorkerFinished(w)')
  BY <1>1, <1>3, <1>4, <1>8, <1>11 DEF WorkerTells, WorkerFinished, run, live, stale
<1>13. ToldInOrder(w)'
  BY <1>3 DEF Telling, ToldInOrder, n
<1>14. ReportedLast(w)'
  <2>1. event.type = "session_completed" => WorkerFinished(w)
    <3>1. tx[s] \in {tx[Live(w)], tx[Stale(w)]}
      OBVIOUS
    <3>2. Completing(tx[s]) => WorkerFinished(w)
      BY <1>4, <3>1 DEF Tells
    <3>. QED  BY <1>1, <3>2 DEF Completing
  <2>2. Posts(w) \subseteq log
    BY DEF Posts
  <2>. QED  BY <1>1, <1>3, <1>12, <2>1, <2>2 DEF Telling, ReportedLast
<1>. QED  BY <1>12, <1>13, <1>14

\* The worker itself, if it was: it has told one event more, the next.
LEMMA EventStored ==
  ASSUME IInv, Telling, NEW s \in Slots, Stores(s), NEW w \in Workers, s \in {Live(w), Stale(w)},
         Posting(tx[s])
  PROVE  /\ WorkerTells(w)' /\ ToldInOrder(w)' /\ ReportedLast(w)'
         /\ codex[w].made > 0
         /\ \A t \in {Live(w), Stale(w)} : ~Posting(tx'[t])
<1> DEFINE event == EventOf(s)
           n == Told(w)
           run == codex[w]
           live == tx'[Live(w)]
           stale == tx'[Stale(w)]
<1>1. /\ UNCHANGED <<worker, codex, toPost>> /\ log' = log \cup {event} /\ event \notin log
      /\ tx[s].at \in InFlight /\ \A e \in log : e.sequence < event.sequence
      /\ event.nth = tx[s].nth /\ event.type = tx[s].type /\ event.by = w
  BY StoresDo, SlotsDiffer DEF EventOf
<1>2. /\ n \in Nat /\ Tells(n, worker[w], run, toPost[w], tx[Live(w)], tx[Stale(w)])
      /\ WorkerFinished(w) <=> Finished(n, worker[w], run, tx[Live(w)], tx[Stale(w)])
      /\ run \in CodexRun /\ Attends(worker[w], run, toPost[w]) /\ toPost[w] \in Seq(Progress)
  BY WorkerKnows DEF WorkerTells, WorkerFinished
<1>3. \/ s = Live(w) /\ live.at = "ok" /\ stale = tx[Stale(w)]
      \/ s = Stale(w) /\ stale.at = "none" /\ live = tx[Live(w)]
  BY OwnSlots
<1>4. tx[s] \in {tx[Live(w)], tx[Stale(w)]}
  OBVIOUS
<1>5. run.read <= Len(run.written)
  BY <1>2 DEF Attends, CodexRun
<1>6. run.made \in Nat /\ run.made <= Len(Output(w)) /\ Len(Output(w)) \in Nat
  BY <1>2, <1>5, MadeIsLed DEF Tells, Output
<1> HIDE DEF event, n, run, live, stale
<1>7. event.nth = n + 1 /\ n < run.made /\ event.type = Output(w)[n + 1]
  BY <1>1, <1>2, <1>4 DEF Tells, Output, run
<1>8. ~WorkerFinished(w) /\ ~Completing(tx[Live(w)]) /\ ~Completing(tx[Stale(w)])
  BY <1>2, <1>7 DEF Tells, Finished
<1>9. ~Posting(live) /\ ~Posting(stale) /\ ~Completing(live) /\ ~Completing(stale)
  BY <1>2, <1>3, <1>8 DEF Tells, Posting, Completing, InFlight
<1>10. Posts(w)' = Posts(w) \cup {event} /\ event \notin Posts(w)
  BY <1>1, <1>2, <1>7 DEF Posts
<1>11. Told(w)' = n + 1
  <2>1. IsFiniteSet(Posts(w))
    BY FS_Subset DEF Posts, IInv, Numbering
  <2>. QED  BY <1>2, <1>10, <2>1, FS_AddElement DEF Told, n
<1>12. Tells(n + 1, worker[w], run, toPost[w], live, stale)
  <2>1. worker[w] = "codex" => s = Live(w) /\ live.at = "ok" /\ n + 1 = run.made - Len(toPost[w])
    <3>1. SUFFICES ASSUME worker[w] = "codex"
                   PROVE  s = Live(w) /\ live.at = "ok" /\ n + 1 = run.made - Len(toPost[w])
      OBVIOUS
    <3>2. s = Live(w) /\ live.at = "ok"
      BY <1>2, <1>3, <3>1 DEF Tells
    <3>3. tx[Live(w)].nth = run.made - Len(toPost[w])
      BY <1>1, <1>2, <3>1, <3>2 DEF Tells
    <3>. QED  BY <1>1, <1>7, <3>2, <3>3
  <2>2. /\ n + 1 <= run.made /\ run.made = Len(OutputOf(Lead(run.written, run.read)))
        /\ worker[w] # "silent"
    <3>1. run.made = Len(OutputOf(Lead(run.written, run.read))) /\ (worker[w] = "silent" => n = run.made)
      BY <1>2, Zenon DEF Tells
    <3>. QED  BY <1>2, <1>6, <1>7, <3>1
  <2>3. \A k \in 1 .. Len(toPost[w]) :
          toPost[w][k] = OutputOf(run.written)[run.made - Len(toPost[w]) + k]
    BY <1>2, Zenon DEF Tells
  <2>4. /\ run.state # "none" /\ worker[w] \notin {"launch", "handshake", "greeting"}
    <3>1. run.made > 0
      BY <1>2, <1>6, <1>7
    <3>. QED  BY <1>2, <3>1 DEF Tells, NoCodex
  <2>. QED  BY <1>9, <2>1, <2>2, <2>3, <2>4 DEF Tells, InFlight
<1>13. WorkerTells(w)'
  BY <1>1, <1>11, <1>12 DEF WorkerTells, run, live, stale
<1>14. ToldInOrder(w)'
  <2>1. /\ {e.nth : e \in Posts(w)} = 1 .. n
        /\ \A e \in Posts(w) : e.nth <= Len(Output(w)) /\ e.type = Output(w)[e.nth]
        /\ \A e, f \in Posts(w) : e.nth < f.nth => e.sequence < f.sequence
    BY DEF Telling, ToldInOrder, n
  <2>2. {e.nth : e \in Posts(w)'} = 1 .. n + 1
    <3>1. {e.nth : e \in Posts(w)'} = {e.nth : e \in Posts(w)} \cup {n + 1}
      BY <1>7, <1>10
    <3>2. 1 .. n + 1 = (1 .. n) \cup {n + 1}
      BY <1>2
    <3>. QED  BY <2>1, <3>1, <3>2
  <2>3. \A e \in Posts(w)' : e.nth <= Len(Output(w)) /\ e.type = Output(w)[e.nth]
    BY <1>2, <1>6, <1>7, <1>10, <2>1
  <2>4. \A e, f \in Posts(w)' : e.nth < f.nth => e.sequence < f.sequence
    <3>1. \A e \in Posts(w) : e.nth \in 1 .. n
      BY <2>1
    <3>2. \A f \in Posts(w) : ~(event.nth < f.nth)
      BY <1>2, <1>7, <3>1
    <3>3. \A e \in Posts(w) : e.sequence < event.sequence
      BY <1>1 DEF Posts
    <3>4. ~(event.nth < event.nth)
      BY <1>2, <1>7
    <3>. QED  BY <1>10, <2>1, <3>2, <3>3, <3>4
  <2>5. Output(w)' = Output(w)
    BY <1>1 DEF Output
  <2>. QED  BY <1>11, <2>2, <2>3, <2>4, <2>5 DEF ToldInOrder
<1>15. ReportedLast(w)'
  <2>1. event.type # "session_completed"
    BY <1>1, <1>4, <1>8 DEF Completing
  <2>2. \A done \in log : ~(done.by = w /\ done.type = "session_completed")
    BY <1>8 DEF Telling, ReportedLast
  <2>. QED  BY <1>1, <2>1, <2>2 DEF ReportedLast
<1>16. codex[w].made > 0
  BY <1>2, <1>6, <1>7 DEF run
<1>17. \A t \in {Live(w), Stale(w)} : ~Posting(tx'[t])
  BY <1>9 DEF live, stale
<1>. QED  BY <1>13, <1>14, <1>15, <1>16, <1>17


\* Turns are counted.
LEMMA CountStored ==
  ASSUME IInv, Telling, NEW s \in Slots, Stores(s)
  PROVE  Counted'
<1> DEFINE event == EventOf(s)
           call == tx[s]
<1>1. /\ UNCHANGED <<worker, codex, toPost>> /\ log' = log \cup {event} /\ event \notin log
      /\ call.at \in InFlight /\ call \in Transaction
      /\ tx'[s] = Replied(s, "ok") /\ \A t \in Slots \ {s} : tx'[t] = tx[t]
      /\ session'.turns = IF call.type = "turn_started" THEN call.turns + 1 ELSE session.turns
      /\ event.type = call.type
  BY StoresDo DEF EventOf
<1>2. /\ \A t \in Slots : Counting(tx[t]) => Posting(tx[t])
      /\ \A t \in {LoopCall, Cancellation} : ~Counting(tx[t])
      /\ OneRun => /\ session.turns = Cardinality(Turns)
                   /\ \A t \in Slots : Counting(tx[t]) => tx[t].turns = session.turns
  BY DEF Telling, Counted
<1>3. OneRun' = OneRun
  BY <1>1 DEF OneRun
<1>4. ~Counting(tx'[s]) /\ \A t \in Slots : Counting(tx'[t]) => t # s /\ tx'[t] = tx[t]
  <2>1. ~Counting(tx'[s])
    BY <1>1, TransactionTypes DEF Counting
  <2>. QED  BY <1>1, <2>1
<1>5. /\ \A t \in Slots : Counting(tx'[t]) => Posting(tx'[t])
      /\ \A t \in {LoopCall, Cancellation} : ~Counting(tx'[t])
  BY <1>2, <1>4, SlotsDiffer
<1> HIDE DEF event, call
<1>6. ASSUME OneRun'
      PROVE  /\ session'.turns = Cardinality(Turns')
             /\ \A t \in Slots : Counting(tx'[t]) => tx'[t].turns = session'.turns
  <2>1. CASE call.type = "turn_started"
    <3>1. Counting(tx[s]) /\ Posting(tx[s])
      BY <1>1, <1>2, <2>1 DEF Counting, call
    <3>2. PICK w \in Workers : s \in {Live(w), Stale(w)}
      BY <1>2, <3>1, SlotOwners
    <3>3. codex[w].made > 0 /\ \A t \in {Live(w), Stale(w)} : ~Posting(tx'[t])
      BY <3>1, <3>2, EventStored
    <3>4. \A t \in Slots : ~Counting(tx'[t])
      <4>1. SUFFICES ASSUME NEW t \in Slots, Counting(tx'[t]) PROVE FALSE
        OBVIOUS
      <4>2. tx'[t] = tx[t] /\ t # s /\ Posting(tx[t])
        BY <1>2, <1>4, <4>1
      <4>3. PICK v \in Workers : t \in {Live(v), Stale(v)}
        BY <1>2, <1>4, <4>1, SlotOwners
      <4>4. Told(v) \in Nat /\ codex[v] \in CodexRun
            /\ Tells(Told(v), worker[v], codex[v], toPost[v], tx[Live(v)], tx[Stale(v)])
        BY WorkerKnows DEF WorkerTells
      <4>5. Told(v) < codex[v].made /\ codex[v].made \in Nat
        BY <4>2, <4>3, <4>4 DEF Tells, CodexRun
      <4>6. v = w
        BY <1>3, <1>6, <3>3, <4>4, <4>5 DEF OneRun
      <4>. QED  BY <3>3, <4>2, <4>3, <4>6
    <3>5. session.turns = Cardinality(Turns) /\ tx[s].turns = session.turns
      BY <1>2, <1>3, <1>6, <3>1
    <3>6. Turns' = Turns \cup {event} /\ event \notin Turns
      BY <1>1, <2>1 DEF Turns
    <3>7. Cardinality(Turns') = Cardinality(Turns) + 1
      <4>1. IsFiniteSet(Turns)
        BY FS_Subset DEF Turns, IInv, Numbering
      <4>. QED  BY <3>6, <4>1, FS_AddElement
    <3>. QED  BY <1>1, <2>1, <3>4, <3>5, <3>7 DEF call
  <2>2. CASE call.type # "turn_started"
    <3>1. Turns' = Turns /\ session'.turns = session.turns
      BY <1>1, <2>2 DEF Turns
    <3>. QED  BY <1>2, <1>3, <1>4, <1>6, <3>1
  <2>. QED  BY <2>1, <2>2
<1>. QED  BY <1>5, <1>6 DEF Counted

\* What the rows have stored is told, counted and rebuilt as before.
LEMMA StoredTells ==
  ASSUME IInv, Telling, NEW s \in Slots, Stores(s)
  PROVE  Telling'
<1>1. \A w \in Workers : WorkerTells(w)' /\ ToldInOrder(w)' /\ ReportedLast(w)'
  BY ElsewhereStored, ReportStored, EventStored
<1>2. NotBegun'
  BY StoresDo DEF NotBegun
<1>. QED  BY <1>1, <1>2, CountStored DEF Telling

\* At first nothing is told.
LEMMA InitTells == Init => Telling
<1> SUFFICES ASSUME Init PROVE Telling
  OBVIOUS
<1>1. /\ log = {} /\ \A s \in Slots : tx[s] = NoCall
      /\ \A w \in Workers : worker[w] = "polling" /\ codex[w] = NoCodex /\ toPost[w] = << >>
      /\ session.turns = 0
  BY DEF Init, Fresh
<1>2. /\ NoCodex.state = "none" /\ NoCodex.written = << >> /\ NoCodex.read = 0 /\ NoCodex.made = 0
      /\ NoCall.at = "none" /\ ~Posting(NoCall) /\ ~Completing(NoCall) /\ ~Counting(NoCall)
  BY NoCallIs DEF NoCodex
<1>3. Len(OutputOf(Lead(NoCodex.written, NoCodex.read))) = 0
  <2>1. Lead(<< >>, 0) = << >>
    BY SubSeqEmpty DEF Lead
  <2>. QED  BY <1>2, <2>1, OutputTypes
<1>4. ASSUME NEW w \in Workers
      PROVE  WorkerTells(w) /\ ToldInOrder(w) /\ ReportedLast(w)
  <2>1. Posts(w) = {} /\ Told(w) = 0
    BY <1>1, FS_EmptySet DEF Posts, Told
  <2>2. tx[Live(w)] = NoCall /\ tx[Stale(w)] = NoCall
    BY <1>1, SlotsDiffer
  <2>3. Tells(0, "polling", NoCodex, << >>, NoCall, NoCall)
    <3>1. \A k \in 1 .. Len(<< >>) : FALSE
      OBVIOUS
    <3>. QED  BY <1>2, <1>3, <3>1 DEF Tells, InFlight
  <2>4. WorkerTells(w)
    BY <1>1, <2>1, <2>2, <2>3 DEF WorkerTells
  <2>5. ToldInOrder(w)
    <3>1. {e.nth : e \in Posts(w)} = 1 .. Told(w)
      BY <2>1
    <3>. QED  BY <2>1, <3>1, Zenon DEF ToldInOrder
  <2>6. ReportedLast(w)
    BY <1>1 DEF ReportedLast
  <2>. QED  BY <2>4, <2>5, <2>6
<1>5. NotBegun
  BY <1>1, <1>2, SlotsDiffer DEF NotBegun, InFlight
<1>6. Counted
  <2>1. Turns = {} /\ Cardinality(Turns) = 0
    BY <1>1, FS_EmptySet DEF Turns
  <2>. QED  BY <1>1, <1>2, <2>1, SlotsDiffer DEF Counted
<1>. QED  BY <1>4, <1>5, <1>6 DEF Telling

\* Every step keeps what is told.
LEMMA NextTells == IInv /\ Telling /\ [Next]_vars => Telling'
<1> SUFFICES ASSUME IInv, Telling, [Next]_vars PROVE Telling'
  OBVIOUS
<1>1. CASE UNCHANGED vars
  <2>1. UNCHANGED <<session, log, tx, worker, codex, toPost>>
    BY <1>1 DEF vars
  <2>. QED  BY <2>1 DEF Telling, WorkerTells, ToldInOrder, ReportedLast, NotBegun, Counted,
                        WorkerFinished, Posts, Told, Output, OneRun, Turns
<1>2. ASSUME NEW s \in Slots, Handled(s) \/ Abort(s)
      PROVE  Telling'
  <2>1. Number(s) \/ Abort(s) \/ (Write(s) /\ Taken(tx[s].sequence)) \/ Stores(s)
    BY <1>2 DEF Handled, Stores
  <2>. QED  BY <2>1, ApiTells, StoredTells
<1>3. ASSUME NEW w \in Workers,
             \/ Poll(w) \/ Goes(w) \/ HeartbeatRefused(w) \/ HeartbeatLost(w)
             \/ EventFails(w) \/ LaunchEnds(w) \/ WorkerDies(w)
             \/ CodexWrites(w) \/ CodexExits(w)
      PROVE  Telling'
  <2>1. Poll(w) \/ FallsSilent(w) \/ HeartbeatTaken(w) => Telling'
    BY MovesTell
  <2>2. ShakeHands(w) \/ Greet(w) \/ StartCodex(w) => Telling'
    BY GreetingTells, StartTells
  <2>3. ReadLine(w) \/ PostEvent(w) \/ EventTaken(w) => Telling'
    BY ReadTells, PostTells, TakenTells
  <2>4. EventFails(w) \/ HeartbeatRefused(w) \/ HeartbeatLost(w) => Telling'
    BY KilledTells
  <2>5. Finish(w) \/ FinishUnread(w) \/ LaunchEnds(w) \/ WorkerDies(w) => Telling'
    BY ReportTells, EndTells
  <2>6. CodexWrites(w) \/ CodexExits(w) => Telling'
    BY CodexTells
  <2>. QED  BY <1>3, <2>1, <2>2, <2>3, <2>4, <2>5, <2>6 DEF Goes
<1>4. DeadlinePasses \/ OperatorCancels \/ CleanupOrphan => Telling'
  BY ApiTells
<1>. QED  BY <1>1, <1>2, <1>3, <1>4 DEF Next, Usual, Fault

-----------------------------------------------------------------------------
(* What is proved *)

\* Rows, transactions and workers keep their types; Codex runs and events wait
\* only under a worker that attends to them (run_codex_launch ends the process on
\* every way out).
THEOREM TypeCorrectness == Spec => []TypeOK
<1>1. IInv => TypeOK
  BY DEF IInv
<1>. QED  BY <1>1, InitHolds, StepKeeps, PTL DEF Spec

\* The log of a session is numbered without gaps or repetitions, however many
\* transactions ask for the next number at the same time: the unique constraint
\* of AgentSessionEvent suffices, no row needs to be locked.
THEOREM NumberingHolds == Spec => []LogIsNumbered
<1>1. IInv => LogIsNumbered
  BY DEF IInv, Numbering
<1>. QED  BY <1>1, InitHolds, StepKeeps, PTL DEF Spec

\* A number once read stays a number of the log or the next one, so a
\* transaction that commits extends the log by exactly one.
THEOREM LogGrows ==
  Spec => [][log' # log => /\ Cardinality(log') = Cardinality(log) + 1 /\ log \subseteq log']_vars
<1>1. ASSUME IInv, [Next]_vars, log' # log
      PROVE  Cardinality(log') = Cardinality(log) + 1 /\ log \subseteq log'
  <2>1. PICK s \in Slots : Commits(s) /\ tx[s].at = "write" /\ ~Taken(tx[s].sequence)
    BY <1>1, OnlyCommitsWrite
  <2>2. log' = log \cup {EventOf(s)} /\ EventOf(s) \notin log
    BY <1>1, <2>1, EventIsLast
  <2>. QED  BY <1>1, <2>2, FS_AddElement DEF IInv, Numbering
<1>. QED  BY <1>1, InitHolds, StepKeeps, PTL DEF Spec

\* The session can be rebuilt from its log, as long as no transaction has written
\* over rows that had changed and no operator took part: what _append_event does
\* to the row at each event is what rebuild_session_projection does when it comes
\* to that event.
THEOREM ProjectionAlwaysAgrees == Spec => []ProjectionAgrees
<1>1. ASSUME Init
      PROVE  ProjectionAgrees
  <2>1. log = {} /\ IsFiniteSet(log) /\ Cardinality(log) = 0
    BY <1>1, FS_EmptySet DEF Init
  <2>2. PICK f : Rebuilds(f, log) /\ Projection(log) = f[0]
    BY <2>1, ProjectionUnfolds
  <2>3. Projection(log) = NewRow
    BY <2>2 DEF Rebuilds
  <2>4. session.status = "launching" /\ session.turns = 0
    BY <1>1 DEF Init, Fresh
  <2>. QED  BY <2>3, <2>4 DEF ProjectionAgrees, NewRow
<1>2. ASSUME IInv, ProjectionAgrees, [Next]_vars
      PROVE  ProjectionAgrees'
  <2>1. CASE UNCHANGED <<log, session, raced>>
    BY <1>2, <2>1 DEF ProjectionAgrees
  <2>2. ASSUME NEW s \in Slots, Commits(s), tx[s].at = "write", ~Taken(tx[s].sequence)
        PROVE  ProjectionAgrees'
    <3> DEFINE event == EventOf(s)
               call == tx[s]
    <3>1. SUFFICES ASSUME ~raced', \A e \in log' : e.type # "operator_cancelled"
                   PROVE  Projection(log') = [status |-> session'.status, turns |-> session'.turns]
      BY DEF ProjectionAgrees
    <3>2. /\ log' = log \cup {event} /\ event.sequence = Cardinality(log) + 1
          /\ event.type = call.type
      BY <1>2, <2>2, EventIsLast DEF EventOf
    <3> HIDE DEF event
    <3>3. /\ ~raced /\ call.status = session.status
          /\ call.type = "turn_started" => call.turns = session.turns
      BY <2>2, <3>1 DEF Commits
    <3>4. Projection(log) = [status |-> session.status, turns |-> session.turns]
      BY <1>2, <3>1, <3>2, <3>3 DEF ProjectionAgrees
    <3>5. Projection(log') = Projected(Projection(log), call.type)
      BY <1>2, <3>2, ProjectionGrows DEF IInv, Numbering, LogIsNumbered
    <3>6. call.type \in Progress \cup Ends
      BY <1>2, <2>2, <3>1, <3>2 DEF IInv, TypeOK, InFlight, EventTypes
    <3>7. session.turns \in Nat
      BY <1>2 DEF IInv, TypeOK
    <3>8. session'.status = StatusAfter(call.type)
      BY <2>2, <3>3 DEF Commits, WriteChanged
    <3>9. session'.turns = session.turns + IF call.type = "turn_started" THEN 1 ELSE 0
      BY <2>2, <3>3, <3>7 DEF Commits
    <3> HIDE DEF call
    <3>10. Projected(Projection(log), call.type).status = StatusAfter(call.type)
      BY <3>4, <3>6 DEF Projected, StatusAfter, Progress, Ends
    <3>11. Projection(log') = [status |-> StatusAfter(call.type),
                               turns |-> session.turns + IF call.type = "turn_started" THEN 1 ELSE 0]
      BY <3>4, <3>5, <3>10 DEF Projected
    <3>. QED  BY <3>8, <3>9, <3>11
  <2>. QED  BY <1>2, <2>1, <2>2, OnlyCommitsWrite
<1>. QED  BY <1>1, <1>2, InitHolds, StepKeeps, PTL DEF Spec

\* What the log has of a Codex run is a beginning of what Codex wrote, in order
\* and once, although a worker gives calls up that the API still works on and an
\* event may be refused; and a session reported as completed has in its log all
\* that was read, before the report (run_codex_launch, _post_event).
THEOREM LogAlwaysTells == Spec => []LogTellsOutput
<1>1. IInv /\ Telling => LogTellsOutput
  <2>1. SUFFICES ASSUME Telling, NEW w \in Workers
                 PROVE  /\ {e.nth : e \in Posts(w)} = 1 .. Cardinality(Posts(w))
                        /\ \A e \in Posts(w) : e.nth <= Len(Output(w)) /\ e.type = Output(w)[e.nth]
                        /\ \A e, f \in Posts(w) : e.nth < f.nth => e.sequence < f.sequence
                        /\ \A done \in log : done.by = w /\ done.type = "session_completed" =>
                             /\ codex[w].state = "exited" /\ Cardinality(Posts(w)) = codex[w].made
                             /\ \A e \in Posts(w) : e.sequence < done.sequence
    BY Zenon DEF LogTellsOutput, Posts
  <2>2. ToldInOrder(w) /\ ReportedLast(w)
    BY <2>1 DEF Telling
  <2>. QED  BY <2>2 DEF ToldInOrder, ReportedLast, WorkerFinished, Finished, Told
<1>. QED  BY <1>1, InitHolds, StepKeeps, InitTells, NextTells, PTL DEF Spec

\* The count of turns is what the log adds up to, as long as only one worker has
\* run Codex, although each transaction writes a value it has computed from what
\* it loaded (_apply_session_event): a worker that gives a call up posts no more.
THEOREM CountsAlwaysLogged == Spec => []CountsAreLogged
<1>1. Telling => CountsAreLogged
  BY DEF Telling, Counted, OneRun, Turns, CountsAreLogged
<1>. QED  BY <1>1, InitHolds, StepKeeps, InitTells, NextTells, PTL DEF Spec

=============================================================================
