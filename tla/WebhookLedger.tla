----------------------------- MODULE WebhookLedger -----------------------------
(***************************************************************************)
(* The ledger of GitHub's webhook deliveries.  Each request is handled in  *)
(* one transaction by one of several API processes: it makes sure of the   *)
(* webhook's configuration, looks for the delivery's guid, inserts a row   *)
(* or finds one, processes the payload, and commits.  GitHub may send a    *)
(* delivery any number of times, at the same time too, and an operator may *)
(* replay one.                                                             *)
(*                                                                         *)
(* The database is read committed: a handler sees rows others have         *)
(* committed, waits for a row or a unique key that another is writing, and *)
(* writes the columns that differ from what it has loaded, as values.      *)
(***************************************************************************)
EXTENDS Integers, FiniteSets

CONSTANTS
  Handlers,     \* requests that can be in progress at the same time
  Guids,        \* X-GitHub-Delivery
  Bodies,       \* bodies a delivery may have
  Malformed,    \* those that are not JSON
  NoGuid, NoBody,  \* neither a guid nor a body
  MaxRequests   \* bound of the model: requests in all

ASSUME LedgerAssumption ==
  /\ Malformed \subseteq Bodies /\ NoBody \notin Bodies /\ NoGuid \notin Guids
  /\ MaxRequests \in Nat

VARIABLES
  configured,  \* the webhook's setting is there, committed
  ledger,    \* WebhookDelivery rows, committed
  tx,        \* the request each handler has: where it is, guid and body, the
             \* row as loaded or made in its session, what the processor said,
             \* whether it has inserted the setting, the race it has lost
  requests,  \* requests so far
  \* What happened, for the properties:
  applied,   \* committed transactions that processed a payload to its end
  replays,   \* committed replays
  bodies     \* bodies processed to the end

vars == <<configured, ledger, tx, requests, applied, replays, bodies>>

Statuses == {"absent", "received", "processed", "dead-letter"}
NoRow == [status |-> "absent", body |-> NoBody, attempts |-> 0, replays |-> 0]
Idle == [at |-> "idle", guid |-> NoGuid, body |-> NoBody, row |-> NoRow, result |-> "none",
         configures |-> FALSE, lost |-> "none"]

Stages == {"idle", "configure", "lookup", "insert", "process", "commit", "recover", "refused",
           "duplicate", "count", "replay", "reprocess", "recommit"}

Recorded(g) == ledger[g].status # "absent"

\* The key of g is taken by an insert, or its row by an update, that is not
\* committed yet.
Inserting(h, g) == tx[h].guid = g /\ tx[h].at \in {"process", "commit"}
Updating(h, g) == tx[h].guid = g /\ tx[h].at \in {"count", "reprocess", "recommit"}
Locked(g) == \E h \in Handlers : Inserting(h, g) \/ Updating(h, g)

\* The key of the setting is taken by an insert that is not committed yet.
Configuring == \E h \in Handlers : tx[h].configures

Init ==
  /\ configured \in BOOLEAN
  /\ ledger = [g \in Guids |-> NoRow]
  /\ tx = [h \in Handlers |-> Idle]
  /\ requests = 0
  /\ applied = [g \in Guids |-> 0]
  /\ replays = [g \in Guids |-> 0]
  /\ bodies = [g \in Guids |-> {}]

-----------------------------------------------------------------------------
(* Requests arrive *)

Accept(h, request) ==
  /\ tx[h].at = "idle" /\ requests < MaxRequests
  /\ requests' = requests + 1
  /\ tx' = [tx EXCEPT ![h] = request]
  /\ UNCHANGED <<configured, ledger, applied, replays, bodies>>

\* A signed request, new or sent again, looks for the setting.
Deliver(h, g, b) ==
  Accept(h, [Idle EXCEPT !.at = IF configured THEN "lookup" ELSE "configure", !.guid = g, !.body = b])

\* The replay route loads the row by its id.
Replay(h, g) ==
  Recorded(g) /\
  Accept(h, [Idle EXCEPT !.at = "replay", !.guid = g, !.body = ledger[g].body,
                         !.row = ledger[g]])

-----------------------------------------------------------------------------
(* Steps of a handler, between its statements *)

Goes(h, request) ==
  /\ tx' = [tx EXCEPT ![h] = request]
  /\ UNCHANGED <<configured, ledger, requests, applied, replays, bodies>>

\* An integrity error rolls the transaction back, whichever unique key it met.
Loses(h, race) == [tx[h] EXCEPT !.at = "recover", !.lost = race, !.configures = FALSE]

\* _bootstrap_webhook_config: a request that has found no setting inserts one.
\* It waits for another insert of it, and fails if that one commits.
Configure(h) ==
  /\ tx[h].at = "configure" /\ ~Configuring
  /\ Goes(h, IF configured THEN Loses(h, "configuration")
             ELSE [tx[h] EXCEPT !.at = "lookup", !.configures = TRUE])

\* intake looks for the guid.
Lookup(h) ==
  /\ tx[h].at = "lookup"
  /\ Goes(h, [tx[h] EXCEPT !.row = ledger[tx[h].guid],
                           !.at = IF Recorded(tx[h].guid) THEN "duplicate" ELSE "insert"])

NewRow(b) == [status |-> "received", body |-> b, attempts |-> 1, replays |-> 0]

\* A body that is not JSON is a dead letter at once.
Inserted(h) ==
  [tx[h] EXCEPT !.row = NewRow(tx[h].body),
                !.at = IF tx[h].body \in Malformed THEN "commit" ELSE "process",
                !.result = IF tx[h].body \in Malformed THEN "dead-letter" ELSE "none"]

\* A mutant: nothing keeps guids unique.
InsertAnyway(h) == tx[h].at = "insert" /\ Goes(h, Inserted(h))

\* A mutant: an insert that meets one in progress fails without waiting.
InsertImpatient(h) ==
  /\ tx[h].at = "insert"
  /\ Goes(h, IF Recorded(tx[h].guid) \/ Locked(tx[h].guid)
               THEN Loses(h, "guid") ELSE Inserted(h))

\* A mutant: a request that has lost the race inserts again.
InsertAgain(h) ==
  /\ tx[h].at = "insert" /\ ~Locked(tx[h].guid)
  /\ Goes(h, IF Recorded(tx[h].guid) THEN tx[h] ELSE Inserted(h))

\* The unique index makes an insert wait for another of the same guid; if that
\* one commits, this one fails with an integrity error and is rolled back.
Insert(h) ==
  /\ tx[h].at = "insert" /\ ~Locked(tx[h].guid)
  /\ Goes(h, IF Recorded(tx[h].guid) THEN Loses(h, "guid") ELSE Inserted(h))

\* A mutant: the recovered request is processed like a new one.
RecoverProcesses(h) ==
  /\ tx[h].at = "recover"
  /\ Goes(h, [tx[h] EXCEPT !.row = ledger[tx[h].guid], !.at = "reprocess"])

\* recover_duplicate, in a new transaction; without a row the answer is 409.
Recover(h) ==
  /\ tx[h].at = "recover"
  /\ Goes(h, IF Recorded(tx[h].guid)
               THEN [tx[h] EXCEPT !.at = "duplicate", !.row = ledger[tx[h].guid], !.lost = "none"]
               ELSE [tx[h] EXCEPT !.at = "refused"])

Refuse(h) == tx[h].at = "refused" /\ Goes(h, Idle)

\* The UPDATE of a duplicate or a replay waits for the row.
TakeRow(h) ==
  /\ tx[h].at \in {"duplicate", "replay"} /\ ~Locked(tx[h].guid)
  /\ Goes(h, [tx[h] EXCEPT !.at = IF @ = "duplicate" THEN "count" ELSE "reprocess"])

\* _process_delivery; process_delivery refuses what is not an object.
Process(h, result) ==
  /\ tx[h].at \in {"process", "reprocess"}
  /\ result = "processed" => tx[h].body \notin Malformed
  /\ Goes(h, [tx[h] EXCEPT !.result = result,
                           !.at = IF @ = "process" THEN "commit" ELSE "recommit"])

\* The process dies, the signature is not the secret's, or a database error
\* inside the processor has undone the transaction before the dead letter can be
\* flushed.
Abort(h) == tx[h].at # "idle" /\ Goes(h, Idle)

-----------------------------------------------------------------------------
(* Commits.  A column is written if the session has changed its value. *)

Written(loaded, new, current) == IF new = loaded THEN current ELSE new

Ends(h, row) ==
  /\ configured' = (configured \/ tx[h].configures)
  /\ ledger' = [ledger EXCEPT ![tx[h].guid] = row]
  /\ tx' = [tx EXCEPT ![h] = Idle]
  /\ UNCHANGED requests

Applies(h) ==
  LET g == tx[h].guid IN
  IF tx[h].result = "processed"
    THEN /\ applied' = [applied EXCEPT ![g] = @ + 1]
         /\ bodies' = [bodies EXCEPT ![g] = @ \cup {tx[h].body}]
    ELSE UNCHANGED <<applied, bodies>>

CommitNew(h) ==
  /\ tx[h].at = "commit"
  /\ Ends(h, [tx[h].row EXCEPT !.status = tx[h].result])
  /\ Applies(h)
  /\ UNCHANGED replays

\* A mutant: the row is written as it was loaded.
CommitDuplicateWhole(h) ==
  LET row == tx[h].row
  IN  /\ tx[h].at = "count"
      /\ Ends(h, [ledger[tx[h].guid] EXCEPT
                    !.attempts = row.attempts + 1,
                    !.status = IF row.body # tx[h].body THEN "dead-letter" ELSE row.status])
      /\ UNCHANGED <<applied, replays, bodies>>

\* _register_duplicate; another body under the same guid is a dead letter.
CommitDuplicate(h) ==
  LET row == tx[h].row
      status == IF row.body # tx[h].body THEN "dead-letter" ELSE row.status
  IN  /\ tx[h].at = "count"
      /\ Ends(h, [ledger[tx[h].guid] EXCEPT !.attempts = row.attempts + 1,
                                            !.status = Written(row.status, status, @)])
      /\ UNCHANGED <<applied, replays, bodies>>

CommitReplay(h) ==
  /\ tx[h].at = "recommit"
  /\ Ends(h, [ledger[tx[h].guid] EXCEPT
                !.replays = tx[h].row.replays + 1,
                !.status = Written(tx[h].row.status, tx[h].result, @)])
  /\ Applies(h)
  /\ replays' = [replays EXCEPT ![tx[h].guid] = @ + 1]

\* A refresh of a mirror makes sure of the webhook as well.
ConfigureElsewhere ==
  /\ ~configured /\ ~Configuring
  /\ configured' = TRUE
  /\ UNCHANGED <<ledger, tx, requests, applied, replays, bodies>>

Step(h) ==
  \/ Configure(h) \/ Lookup(h) \/ Insert(h) \/ Recover(h) \/ Refuse(h) \/ TakeRow(h)
  \/ \E result \in {"processed", "dead-letter"} : Process(h, result)
  \/ CommitNew(h) \/ CommitDuplicate(h) \/ CommitReplay(h)

Next ==
  \/ ConfigureElsewhere
  \/ \E h \in Handlers :
       \/ \E g \in Guids : Replay(h, g) \/ \E b \in Bodies : Deliver(h, g, b)
       \/ Step(h)
       \/ Abort(h)

Spec == Init /\ [][Next]_vars

\* A handler that is not stuck goes on: the API server runs it to its end.
FairSpec == Spec /\ \A h \in Handlers : WF_vars(Step(h))

-----------------------------------------------------------------------------
(* Properties *)

\* However often GitHub sends a delivery, one after the other or at the same
\* time, it is applied once; only an operator's replay applies it again.
AppliedOnce == \A g \in Guids : applied[g] <= 1 + replays[g]

\* What has been applied under a guid is the body in the ledger, never one that
\* came later under the same guid.
OneBody == \A g \in Guids : bodies[g] \subseteq {ledger[g].body}

\* A request is refused (the answer 409 of the webhook route, which leaves nothing
\* in the ledger) only when it had found no configuration and somebody else's was
\* committed before its own; one that has lost the race for its guid finds the
\* winner's row (_bootstrap_webhook_config, recover_duplicate).
RefusedUnconfigured ==
  \A h \in Handlers : tx[h].at = "refused" => tx[h].lost = "configuration" /\ configured

\* A delivery becomes processed only as its payload is applied: a duplicate or a
\* replay that had loaded the row earlier never writes "processed" over the dead
\* letter that another handler has made of it since.
DeadLettersStay ==
  [][\A g \in Guids : ledger[g].status # "processed" /\ ledger'[g].status = "processed" =>
       applied'[g] > applied[g]]_vars

\* Handlers wait for each other's keys and rows, but every request ends.
RequestsEnd == \A h \in Handlers : (tx[h].at # "idle") ~> (tx[h].at = "idle")
=============================================================================
