-------------------------- MODULE WebhookLedgerProofs --------------------------
(* Theorems about WebhookLedger, for any handlers, guids and bodies. *)
EXTENDS WebhookLedger, TLAPS

Rows == [status : {"absent", "received", "processed", "dead-letter"},
         body : Bodies \cup {NoBody}, attempts : Nat, replays : Nat]
Requests == [at : Stages, guid : Guids \cup {NoGuid}, body : Bodies \cup {NoBody},
             row : Rows, result : {"none", "processed", "dead-letter"}, configures : BOOLEAN,
             lost : {"none", "guid", "configuration"}]

AfterInsert == {"process", "commit"}
AfterRow == {"duplicate", "count", "replay", "reprocess", "recommit"}

\* What is true of a request at each of its stages: it inserts only while the
\* ledger has no row, has a row once it has seen one or lost a guid to it, and
\* replays the row's body; and it loses the setting only to one that is there.
Sound(r) ==
  /\ r \in Requests
  /\ r.at # "idle" => r.guid \in Guids /\ r.body \in Bodies
  /\ r.at \in AfterInsert => ~Recorded(r.guid) /\ r.row = NewRow(r.body)
  /\ r.at \in AfterRow => Recorded(r.guid)
  /\ r.at \in {"replay", "reprocess", "recommit"} => r.body = ledger[r.guid].body
  /\ r.at \in {"commit", "recommit"} => r.result # "none"
  /\ r.at \in {"recover", "refused"} => r.lost # "none"
  /\ r.at \in {"recover", "refused"} /\ r.lost = "guid" => Recorded(r.guid)
  /\ r.at = "refused" => r.lost = "configuration"
  /\ r.lost = "configuration" => configured

\* The unique index: one insert of a guid at a time.
Alone(h, r) == r.at \in AfterInsert => \A k \in Handlers \ {h} : ~Inserting(k, r.guid)

Shape ==
  /\ ledger \in [Guids -> Rows] /\ tx \in [Handlers -> Requests]
  /\ applied \in [Guids -> Nat] /\ replays \in [Guids -> Nat]
  /\ bodies \in [Guids -> SUBSET Bodies] /\ configured \in BOOLEAN

\* Nothing has been applied that is not in the ledger; rows have bodies.
NothingUnrecorded ==
  \A g \in Guids : IF Recorded(g) THEN ledger[g].body \in Bodies
                   ELSE applied[g] = 0 /\ bodies[g] = {}

LedgerInv == Shape /\ NothingUnrecorded /\ AppliedOnce /\ OneBody
RequestInv == \A h \in Handlers : Sound(tx[h]) /\ Alone(h, tx[h])
IInv == LedgerInv /\ RequestInv

LEMMA IdleIsARequest == Idle \in Requests
  BY DEF Idle, Requests, Rows, NoRow, Stages

LEMMA InitInv == Init => IInv
<1> SUFFICES ASSUME Init PROVE IInv
  OBVIOUS
<1>1. NoRow \in Rows /\ NoRow.status = "absent"
  BY DEF NoRow, Rows
<1>2. LedgerInv
  BY <1>1, IdleIsARequest DEF Init, LedgerInv, Shape, NothingUnrecorded, AppliedOnce, OneBody,
     Recorded
<1>3. RequestInv
  BY IdleIsARequest DEF Init, RequestInv, Sound, Alone, Idle, AfterInsert, AfterRow
<1> QED
  BY <1>2, <1>3 DEF IInv

\* A request that moves to a sound stage, and holds a guid alone if it inserts,
\* keeps the invariant.
LEMMA MoveKeepsInv ==
  ASSUME IInv, NEW h \in Handlers, NEW r, Sound(r), Alone(h, r),
         tx' = [tx EXCEPT ![h] = r], UNCHANGED <<configured, ledger, applied, replays, bodies>>
  PROVE  IInv'
<1>1. LedgerInv'
  BY DEF IInv, LedgerInv, Shape, NothingUnrecorded, AppliedOnce, OneBody,
         Recorded, Sound
<1>2. ASSUME NEW k \in Handlers
      PROVE  Sound(tx[k])' /\ Alone(k, tx[k])'
  <2>1. tx'[k] = IF k = h THEN r ELSE tx[k]
    BY DEF IInv, LedgerInv, Shape
  <2>2. Sound(tx[k])'
    BY <2>1 DEF IInv, RequestInv, Sound, Recorded
  <2>3. Alone(k, tx[k])'
    BY <2>1 DEF IInv, LedgerInv, Shape, RequestInv, Alone, Inserting, AfterInsert
  <2> QED
    BY <2>2, <2>3
<1> QED
  BY <1>1, <1>2 DEF IInv, RequestInv

\* Requests arrive at a stage that is sound.
LEMMA ArrivalKeepsInv ==
  ASSUME IInv, NEW h \in Handlers, NEW g \in Guids,
         Replay(h, g) \/ \E b \in Bodies : Deliver(h, g, b)
  PROVE  IInv'
<1>1. CASE Replay(h, g)
  <2> DEFINE r == [Idle EXCEPT !.at = "replay", !.guid = g, !.body = ledger[g].body,
                               !.row = ledger[g]]
  <2>1. Recorded(g) /\ tx' = [tx EXCEPT ![h] = r] /\ UNCHANGED <<configured, ledger, applied, replays, bodies>>
    BY <1>1 DEF Replay, Accept
  <2>2. ledger[g].body \in Bodies /\ ledger[g] \in Rows
    BY <2>1 DEF IInv, LedgerInv, NothingUnrecorded, Shape
  <2>3. r \in Requests /\ r.at = "replay" /\ r.guid = g /\ r.body = ledger[g].body /\ r.lost = "none"
    BY <2>2, IdleIsARequest DEF Requests, Idle, Stages
  <2>4. Sound(r) /\ Alone(h, r)
    BY <2>1, <2>2, <2>3 DEF Sound, Alone, AfterInsert, AfterRow
  <2> QED
    BY <2>1, <2>4, MoveKeepsInv
<1>2. ASSUME NEW b \in Bodies, Deliver(h, g, b) PROVE IInv'
  <2> DEFINE r == [Idle EXCEPT !.at = IF configured THEN "lookup" ELSE "configure", !.guid = g, !.body = b]
  <2>1. tx' = [tx EXCEPT ![h] = r] /\ UNCHANGED <<configured, ledger, applied, replays, bodies>>
    BY <1>2 DEF Deliver, Accept
  <2>2. r \in Requests /\ r.at \in {"lookup", "configure"} /\ r.guid = g /\ r.body = b /\ r.lost = "none"
    BY IdleIsARequest DEF Requests, Idle, Stages
  <2>3. Sound(r) /\ Alone(h, r)
    BY <2>2 DEF Sound, Alone, AfterInsert, AfterRow
  <2> QED
    BY <2>1, <2>3, MoveKeepsInv
<1> QED
  BY <1>1, <1>2

\* What is known of a request of a handler.
LEMMA RequestFacts ==
  ASSUME IInv, NEW h \in Handlers
  PROVE  /\ tx[h] \in Requests /\ Sound(tx[h]) /\ Alone(h, tx[h])
         /\ tx[h].at # "idle" => ledger[tx[h].guid] \in Rows
  BY DEF IInv, LedgerInv, Shape, RequestInv, Sound

\* The statements of a handler, between which others run.
LEMMA StatementKeepsInv ==
  ASSUME IInv, NEW h \in Handlers,
         \/ Configure(h) \/ Lookup(h) \/ Insert(h) \/ Recover(h) \/ Refuse(h) \/ TakeRow(h) \/ Abort(h)
         \/ \E result \in {"processed", "dead-letter"} : Process(h, result)
  PROVE  IInv'
<1> DEFINE g == tx[h].guid
<1>0. /\ tx[h] \in Requests /\ Sound(tx[h]) /\ Alone(h, tx[h])
      /\ tx[h].at # "idle" => ledger[g] \in Rows
  BY RequestFacts
<1>1. CASE Lookup(h)
  <2> DEFINE r == [tx[h] EXCEPT !.row = ledger[g],
                                !.at = IF Recorded(g) THEN "duplicate" ELSE "insert"]
  <2>1. r \in Requests /\ r.at \in {"duplicate", "insert"} /\ r.guid = g /\ r.body = tx[h].body /\ r.lost = tx[h].lost
    BY <1>0, <1>1 DEF Lookup, Requests, Stages
  <2>2. r.at = "duplicate" => Recorded(g)
    BY <1>0 DEF Requests
  <2>3. Sound(r) /\ Alone(h, r)
    BY <2>1, <2>2, <1>0, <1>1 DEF Lookup, Sound, Alone, AfterInsert, AfterRow
  <2> QED
    BY <2>3, <1>1, MoveKeepsInv DEF Lookup, Goes
<1>2. CASE Insert(h)
  <2> DEFINE r == IF Recorded(g) THEN Loses(h, "guid") ELSE Inserted(h)
  <2>1. CASE Recorded(g)
    <3>1. r \in Requests /\ r.at = "recover" /\ r.guid = g /\ r.body = tx[h].body /\ r.lost = "guid"
      BY <1>0, <2>1 DEF Requests, Stages, Loses
    <3>2. Sound(r) /\ Alone(h, r)
      BY <3>1, <2>1, <1>0, <1>2 DEF Insert, Sound, Alone, AfterInsert, AfterRow
    <3> QED
      BY <3>2, <1>2, MoveKeepsInv DEF Insert, Goes
  <2>2. CASE ~Recorded(g)
    <3>1. NewRow(tx[h].body) \in Rows
      BY <1>0, <1>2 DEF Insert, NewRow, Rows, Sound
    <3>2. /\ r \in Requests /\ r.at \in AfterInsert /\ r.guid = g /\ r.body = tx[h].body /\ r.lost = tx[h].lost
          /\ r.row = NewRow(r.body)
          /\ r.at = "commit" => r.result = "dead-letter"
      BY <1>0, <2>2, <3>1 DEF Requests, Stages, Inserted, AfterInsert
    <3>3. Sound(r) /\ Alone(h, r)
      BY <3>2, <2>2, <1>0, <1>2 DEF Insert, Sound, Alone, AfterInsert, AfterRow, Locked
    <3> QED
      BY <3>3, <1>2, MoveKeepsInv DEF Insert, Goes
  <2> QED
    BY <2>1, <2>2
<1>3. CASE Recover(h)
  <2> DEFINE found == [tx[h] EXCEPT !.at = "duplicate", !.row = ledger[g], !.lost = "none"]
             none == [tx[h] EXCEPT !.at = "refused"]
  <2>1. tx[h].at = "recover" /\ Goes(h, IF Recorded(g) THEN found ELSE none)
    BY <1>3 DEF Recover
  <2>2. CASE Recorded(g)
    <3>1. found \in Requests /\ found.at = "duplicate" /\ found.guid = g /\ found.body = tx[h].body /\ found.lost = "none"
      BY <1>0, <2>1 DEF Requests, Stages
    <3>2. Sound(found) /\ Alone(h, found)
      BY <3>1, <1>0, <2>1, <2>2 DEF Sound, Alone, AfterInsert, AfterRow
    <3> QED
      BY <3>2, <2>1, <2>2, MoveKeepsInv DEF Goes
  <2>3. CASE ~Recorded(g)
    <3>1. none \in Requests /\ none.at = "refused" /\ none.guid = g /\ none.body = tx[h].body /\ none.lost = tx[h].lost
      BY <1>0 DEF Requests, Stages
    <3>2. tx[h].lost = "configuration"
      BY <1>0, <2>1, <2>3 DEF Sound, Requests
    <3>3. Sound(none) /\ Alone(h, none)
      BY <3>1, <3>2, <1>0, <2>1 DEF Sound, Alone, AfterInsert, AfterRow
    <3> QED
      BY <3>3, <2>1, <2>3, MoveKeepsInv DEF Goes
  <2> QED
    BY <2>2, <2>3
<1>4. CASE TakeRow(h)
  <2> DEFINE r == [tx[h] EXCEPT !.at = IF @ = "duplicate" THEN "count" ELSE "reprocess"]
  <2>1. /\ r \in Requests /\ r.guid = g /\ r.body = tx[h].body /\ r.lost = tx[h].lost
        /\ r.at \in {"count", "reprocess"}
        /\ r.at = "reprocess" => tx[h].at = "replay"
    BY <1>0, <1>4 DEF TakeRow, Requests, Stages
  <2>2. Sound(r) /\ Alone(h, r)
    BY <2>1, <1>0, <1>4 DEF TakeRow, Sound, Alone, AfterInsert, AfterRow
  <2> QED
    BY <2>2, <1>4, MoveKeepsInv DEF TakeRow, Goes
<1>5. CASE Abort(h) \/ Refuse(h)
  <2>1. Sound(Idle) /\ Alone(h, Idle)
    BY IdleIsARequest DEF Sound, Alone, Idle, AfterInsert, AfterRow
  <2> QED
    BY <2>1, <1>5, MoveKeepsInv DEF Abort, Refuse, Goes
<1>6. ASSUME NEW result \in {"processed", "dead-letter"}, Process(h, result)
      PROVE  IInv'
  <2> DEFINE r == [tx[h] EXCEPT !.result = result,
                                !.at = IF @ = "process" THEN "commit" ELSE "recommit"]
  <2>1. /\ r \in Requests /\ r.guid = g /\ r.body = tx[h].body /\ r.row = tx[h].row
        /\ r.result = result /\ r.lost = tx[h].lost
        /\ \/ r.at = "commit" /\ tx[h].at = "process"
           \/ r.at = "recommit" /\ tx[h].at = "reprocess"
    BY <1>0, <1>6 DEF Process, Requests, Stages
  <2>2. Sound(r) /\ Alone(h, r)
    BY <2>1, <1>0, <1>6 DEF Process, Sound, Alone, AfterInsert, AfterRow
  <2> QED
    BY <2>2, <1>6, MoveKeepsInv DEF Process, Goes
<1>7. CASE Configure(h)
  <2> DEFINE loser == Loses(h, "configuration")
             first == [tx[h] EXCEPT !.at = "lookup", !.configures = TRUE]
  <2>1. tx[h].at = "configure" /\ Goes(h, IF configured THEN loser ELSE first)
    BY <1>7 DEF Configure
  <2>2. /\ loser \in Requests /\ loser.at = "recover" /\ loser.guid = g /\ loser.body = tx[h].body
        /\ loser.lost = "configuration"
    BY <1>0 DEF Requests, Stages, Loses
  <2>3. configured => Sound(loser) /\ Alone(h, loser)
    BY <2>1, <2>2, <1>0 DEF Sound, Alone, AfterInsert, AfterRow
  <2>4. /\ first \in Requests /\ first.at = "lookup" /\ first.guid = g /\ first.body = tx[h].body
        /\ first.lost = tx[h].lost
    BY <1>0 DEF Requests, Stages
  <2>5. Sound(first) /\ Alone(h, first)
    BY <2>1, <2>4, <1>0 DEF Sound, Alone, AfterInsert, AfterRow
  <2> QED
    BY <2>1, <2>3, <2>5, MoveKeepsInv DEF Goes
<1> QED
  BY <1>1, <1>2, <1>3, <1>4, <1>5, <1>6, <1>7

\* A commit keeps the requests of the other handlers sound if it never takes a
\* row away or changes its body, and makes one only for its own insert.
LEMMA CommitKeepsRequests ==
  ASSUME IInv, NEW h \in Handlers, NEW row \in Rows, Ends(h, row), row.status # "absent",
         tx[h].at # "idle",
         tx[h].at \in AfterInsert \/ (tx[h].at \in AfterRow /\ row.body = ledger[tx[h].guid].body)
  PROVE  /\ RequestInv'
         /\ ledger' \in [Guids -> Rows] /\ tx' \in [Handlers -> Requests] /\ configured' \in BOOLEAN
<1> DEFINE g == tx[h].guid
<1>0. /\ tx' = [tx EXCEPT ![h] = Idle] /\ ledger' = [ledger EXCEPT ![g] = row]
      /\ g \in Guids
      /\ Sound(tx[h]) /\ Alone(h, tx[h]) /\ configured' = (configured \/ tx[h].configures)
  BY RequestFacts DEF Ends, Sound
<1>1. ledger' \in [Guids -> Rows] /\ tx' \in [Handlers -> Requests]
  BY <1>0, IdleIsARequest DEF IInv, LedgerInv, Shape
<1>a. configured' \in BOOLEAN /\ (configured => configured')
  BY <1>0, RequestFacts DEF IInv, LedgerInv, Shape, Requests
<1>2. ASSUME NEW k \in Handlers
      PROVE  Sound(tx[k])' /\ Alone(k, tx[k])'
  <2>1. CASE k = h
    <3>1. tx'[k] = Idle
      BY <1>0, <2>1 DEF IInv, LedgerInv, Shape
    <3> QED
      BY <3>1, IdleIsARequest DEF Sound, Alone, Idle, AfterInsert, AfterRow
  <2>2. CASE k # h
    <3>1. tx'[k] = tx[k] /\ Sound(tx[k]) /\ Alone(k, tx[k])
      BY <1>0, <2>2 DEF IInv, LedgerInv, Shape, RequestInv
    <3>2. Alone(k, tx[k])'
      <4>1. \A j \in Handlers : tx'[j] = IF j = h THEN Idle ELSE tx[j]
        BY <1>0 DEF IInv, LedgerInv, Shape
      <4>2. \A j \in Handlers : \A f : Inserting(j, f)' => Inserting(j, f)
        BY <4>1 DEF Inserting, Idle
      <4> QED
        BY <3>1, <4>2 DEF Alone
    <3>3. CASE tx[k].at = "idle"
      BY <1>a, <3>1, <3>2, <3>3 DEF Sound, AfterInsert, AfterRow
    <3>4. CASE tx[k].at # "idle" /\ tx[k].guid # g
      <4>1. ledger'[tx[k].guid] = ledger[tx[k].guid]
        BY <1>0, <3>1, <3>4 DEF Sound, IInv, LedgerInv, Shape
      <4> QED
        BY <1>a, <3>1, <3>2, <4>1 DEF Sound, Recorded
    <3>5. CASE tx[k].at # "idle" /\ tx[k].guid = g
      <4>1. tx[k].at \notin AfterInsert
        BY <1>0, <3>1, <3>5, <2>2 DEF Alone, Sound, Inserting, AfterInsert, AfterRow
      <4>2. ledger'[tx[k].guid] = row
        BY <1>0, <3>5 DEF IInv, LedgerInv, Shape
      <4>3. tx[k].at \in AfterRow => row.body = ledger[tx[k].guid].body
        BY <1>0, <3>1, <3>5 DEF Sound
      <4> QED
        BY <1>a, <3>1, <3>2, <4>1, <4>2, <4>3 DEF Sound, AfterRow, Recorded
    <3> QED
      BY <3>3, <3>4, <3>5
  <2> QED
    BY <2>1, <2>2
<1> QED
  BY <1>1, <1>a, <1>2 DEF RequestInv

\* A commit writes the row of one guid, and the books that go with it.
LEMMA RowWritten ==
  ASSUME IInv, NEW g \in Guids, NEW row \in Rows, NEW n \in Nat, NEW again \in Nat, NEW kept \in SUBSET Bodies,
         ledger' = [ledger EXCEPT ![g] = row], tx' \in [Handlers -> Requests], configured' \in BOOLEAN,
         applied' = [applied EXCEPT ![g] = n], replays' = [replays EXCEPT ![g] = again],
         bodies' = [bodies EXCEPT ![g] = kept],
         row.status # "absent", row.body \in Bodies, n <= 1 + again, kept \subseteq {row.body}
  PROVE  LedgerInv'
<1>1. Shape
  BY DEF IInv, LedgerInv
<1>2. Shape'
  BY <1>1 DEF Shape
<1>3. ASSUME NEW k \in Guids
      PROVE  /\ (Recorded(k) => ledger[k].body \in Bodies)'
             /\ (~Recorded(k) => applied[k] = 0 /\ bodies[k] = {})'
             /\ (applied[k] <= 1 + replays[k])'
             /\ (bodies[k] \subseteq {ledger[k].body})'
  <2>1. CASE k = g
    <3>1. ledger'[k] = row /\ applied'[k] = n /\ replays'[k] = again /\ bodies'[k] = kept
      BY <1>1, <2>1 DEF Shape
    <3> QED
      BY <3>1 DEF Recorded
  <2>2. CASE k # g
    <3>1. /\ ledger'[k] = ledger[k] /\ applied'[k] = applied[k]
          /\ replays'[k] = replays[k] /\ bodies'[k] = bodies[k]
      BY <1>1, <2>2 DEF Shape
    <3>2. /\ Recorded(k) => ledger[k].body \in Bodies
          /\ ~Recorded(k) => applied[k] = 0 /\ bodies[k] = {}
          /\ applied[k] <= 1 + replays[k] /\ bodies[k] \subseteq {ledger[k].body}
      BY DEF IInv, LedgerInv, NothingUnrecorded, AppliedOnce, OneBody
    <3> QED
      BY <3>1, <3>2 DEF Recorded
  <2> QED
    BY <2>1, <2>2
<1> QED
  BY <1>2, <1>3 DEF LedgerInv, NothingUnrecorded, AppliedOnce, OneBody

\* A first commit records and applies what was not there.
LEMMA CommitNewKeepsInv ==
  ASSUME IInv, NEW h \in Handlers, CommitNew(h)
  PROVE  IInv'
<1> DEFINE g == tx[h].guid
           row == [tx[h].row EXCEPT !.status = tx[h].result]
<1>0. /\ tx[h] \in Requests /\ Sound(tx[h]) /\ tx[h].at = "commit" /\ g \in Guids
      /\ ~Recorded(g) /\ tx[h].result \in {"processed", "dead-letter"}
      /\ tx[h].row.body = tx[h].body /\ tx[h].body \in Bodies
  BY RequestFacts DEF CommitNew, Sound, AfterInsert, Requests, NewRow
<1>1. row \in Rows /\ row.status = tx[h].result /\ row.body = tx[h].body
  BY <1>0 DEF Requests, Rows
<1>2. Ends(h, row) /\ Applies(h) /\ UNCHANGED replays
  BY DEF CommitNew
<1>3. RequestInv' /\ ledger' \in [Guids -> Rows] /\ tx' \in [Handlers -> Requests] /\ configured' \in BOOLEAN
  BY <1>0, <1>1, <1>2, CommitKeepsRequests DEF AfterInsert
<1>4. applied[g] = 0 /\ bodies[g] = {} /\ replays[g] \in Nat
  BY <1>0 DEF IInv, LedgerInv, NothingUnrecorded, Shape
<1>5. ledger' = [ledger EXCEPT ![g] = row]
  BY <1>2 DEF Ends
<1>6. Shape
  BY DEF IInv, LedgerInv
<1>7. CASE tx[h].result = "processed"
  <2>1. applied' = [applied EXCEPT ![g] = @ + 1] /\ bodies' = [bodies EXCEPT ![g] = @ \cup {tx[h].body}]
    BY <1>2, <1>7 DEF Applies
  <2>2. /\ applied' = [applied EXCEPT ![g] = 1] /\ replays' = [replays EXCEPT ![g] = replays[g]]
        /\ bodies' = [bodies EXCEPT ![g] = {tx[h].body}]
    BY <1>0, <1>2, <1>4, <1>6, <2>1 DEF Shape
  <2>3. 1 \in Nat /\ 1 <= 1 + replays[g] /\ replays[g] \in Nat
    BY <1>4
  <2>4. /\ row.status # "absent" /\ row.body \in Bodies
        /\ {tx[h].body} \in SUBSET Bodies /\ {tx[h].body} \subseteq {row.body}
    BY <1>0, <1>1
  <2> HIDE DEF row
  <2>5. LedgerInv'
    BY <1>0, <1>1, <1>3, <1>5, <2>2, <2>3, <2>4, RowWritten
  <2> QED
    BY <1>3, <2>5 DEF IInv
<1>8. CASE tx[h].result # "processed"
  <2>1. UNCHANGED <<applied, bodies>>
    BY <1>2, <1>8 DEF Applies
  <2>2. /\ applied' = [applied EXCEPT ![g] = 0] /\ replays' = [replays EXCEPT ![g] = replays[g]]
        /\ bodies' = [bodies EXCEPT ![g] = {}]
    BY <1>0, <1>2, <1>4, <1>6, <2>1 DEF Shape
  <2>3. 0 \in Nat /\ 0 <= 1 + replays[g] /\ replays[g] \in Nat
    BY <1>4
  <2>4. /\ row.status # "absent" /\ row.body \in Bodies
        /\ {} \in SUBSET Bodies /\ {} \subseteq {row.body}
    BY <1>0, <1>1, <1>8
  <2> HIDE DEF row
  <2>5. LedgerInv'
    BY <1>0, <1>1, <1>3, <1>5, <2>2, <2>3, <2>4, RowWritten
  <2> QED
    BY <1>3, <2>5 DEF IInv
<1> QED
  BY <1>7, <1>8

\* A duplicate's commit applies nothing and keeps the body.
LEMMA CommitDuplicateKeepsInv ==
  ASSUME IInv, NEW h \in Handlers, CommitDuplicate(h)
  PROVE  IInv'
<1> DEFINE g == tx[h].guid
           loaded == tx[h].row
           status == IF loaded.body # tx[h].body THEN "dead-letter" ELSE loaded.status
           row == [ledger[g] EXCEPT !.attempts = loaded.attempts + 1,
                                    !.status = Written(loaded.status, status, @)]
<1>0. /\ tx[h].at = "count" /\ g \in Guids /\ Recorded(g) /\ ledger[g] \in Rows /\ loaded \in Rows
  BY RequestFacts DEF CommitDuplicate, Sound, AfterRow, Requests
<1>1. /\ row \in Rows /\ row.body = ledger[g].body
      /\ row.status \in {"dead-letter", ledger[g].status} /\ row.status # "absent"
  <2> DEFINE new == Written(loaded.status, status, ledger[g].status)
  <2>1. new \in {"dead-letter", ledger[g].status} /\ ledger[g].status # "absent"
    BY <1>0 DEF Written, Recorded
  <2>2. row = [ledger[g] EXCEPT !.attempts = loaded.attempts + 1, !.status = new]
    OBVIOUS
  <2>3. loaded.attempts + 1 \in Nat /\ new \in {"received", "processed", "dead-letter"}
    BY <1>0, <2>1 DEF Rows
  <2> HIDE DEF new
  <2> QED
    BY <1>0, <2>1, <2>2, <2>3 DEF Rows
<1>2. Ends(h, row) /\ UNCHANGED <<applied, replays, bodies>>
  BY DEF CommitDuplicate
<1>3. RequestInv' /\ ledger' \in [Guids -> Rows] /\ tx' \in [Handlers -> Requests] /\ configured' \in BOOLEAN
  BY <1>0, <1>1, <1>2, CommitKeepsRequests DEF AfterRow
<1>4. ledger' = [ledger EXCEPT ![g] = row]
  BY <1>2 DEF Ends
<1> QED
  BY <1>0, <1>1, <1>2, <1>3, <1>4 DEF IInv, LedgerInv, Shape, NothingUnrecorded,
     AppliedOnce, OneBody, Recorded

\* A replay applies the row's own body, and is counted.
LEMMA CommitReplayKeepsInv ==
  ASSUME IInv, NEW h \in Handlers, CommitReplay(h)
  PROVE  IInv'
<1> DEFINE g == tx[h].guid
           loaded == tx[h].row
           row == [ledger[g] EXCEPT !.replays = loaded.replays + 1,
                                    !.status = Written(loaded.status, tx[h].result, @)]
<1>0. /\ tx[h].at = "recommit" /\ g \in Guids /\ Recorded(g) /\ ledger[g] \in Rows /\ loaded \in Rows
      /\ tx[h].result \in {"processed", "dead-letter"} /\ tx[h].body = ledger[g].body
      /\ tx[h].body \in Bodies
  BY RequestFacts DEF CommitReplay, Sound, AfterRow, Requests
<1>1. /\ row \in Rows /\ row.body = ledger[g].body
      /\ row.status \in {tx[h].result, ledger[g].status} /\ row.status # "absent"
  <2> DEFINE new == Written(loaded.status, tx[h].result, ledger[g].status)
  <2>1. new \in {tx[h].result, ledger[g].status} /\ ledger[g].status # "absent"
    BY <1>0 DEF Written, Recorded
  <2>2. row = [ledger[g] EXCEPT !.replays = loaded.replays + 1, !.status = new]
    OBVIOUS
  <2>3. loaded.replays + 1 \in Nat /\ new \in {"received", "processed", "dead-letter"}
    BY <1>0, <2>1 DEF Rows
  <2> HIDE DEF new
  <2> QED
    BY <1>0, <2>1, <2>2, <2>3 DEF Rows
<1>2. Ends(h, row) /\ Applies(h) /\ replays' = [replays EXCEPT ![g] = @ + 1]
  BY DEF CommitReplay
<1>3. RequestInv' /\ ledger' \in [Guids -> Rows] /\ tx' \in [Handlers -> Requests] /\ configured' \in BOOLEAN
  BY <1>0, <1>1, <1>2, CommitKeepsRequests DEF AfterRow
<1>4. ledger' = [ledger EXCEPT ![g] = row]
  BY <1>2 DEF Ends
<1>5. /\ applied[g] \in Nat /\ replays[g] \in Nat /\ bodies[g] \in SUBSET Bodies
      /\ ledger[g].body \in Bodies /\ applied[g] <= 1 + replays[g]
      /\ bodies[g] \subseteq {ledger[g].body}
  BY <1>0 DEF IInv, LedgerInv, Shape, NothingUnrecorded, AppliedOnce, OneBody
<1>6. Shape
  BY DEF IInv, LedgerInv
<1>7. CASE tx[h].result = "processed"
  <2>1. applied' = [applied EXCEPT ![g] = @ + 1] /\ bodies' = [bodies EXCEPT ![g] = @ \cup {tx[h].body}]
    BY <1>2, <1>7 DEF Applies
  <2>2. /\ applied' = [applied EXCEPT ![g] = applied[g] + 1] /\ replays' = [replays EXCEPT ![g] = replays[g] + 1]
        /\ bodies' = [bodies EXCEPT ![g] = bodies[g] \cup {tx[h].body}]
    BY <1>0, <1>2, <1>6, <2>1 DEF Shape
  <2> DEFINE kept == bodies[g] \cup {tx[h].body}
  <2>3. kept \in SUBSET Bodies /\ kept \subseteq {row.body}
    BY <1>0, <1>1, <1>5
  <2>4. applied[g] + 1 \in Nat /\ replays[g] + 1 \in Nat
        /\ applied[g] + 1 <= 1 + (replays[g] + 1)
    BY <1>5
  <2>5. bodies' = [bodies EXCEPT ![g] = kept] /\ row.body \in Bodies
    BY <1>1, <1>5, <2>2
  <2> HIDE DEF kept, row
  <2>6. LedgerInv'
    BY <1>0, <1>1, <1>3, <1>4, <2>2, <2>3, <2>4, <2>5, RowWritten
  <2> QED
    BY <1>3, <2>6 DEF IInv
<1>8. CASE tx[h].result # "processed"
  <2>1. UNCHANGED <<applied, bodies>>
    BY <1>2, <1>8 DEF Applies
  <2>2. /\ applied' = [applied EXCEPT ![g] = applied[g]] /\ replays' = [replays EXCEPT ![g] = replays[g] + 1]
        /\ bodies' = [bodies EXCEPT ![g] = bodies[g]]
    BY <1>0, <1>2, <1>6, <2>1 DEF Shape
  <2>3. replays[g] + 1 \in Nat /\ applied[g] <= 1 + (replays[g] + 1)
    BY <1>5
  <2>5. bodies[g] \subseteq {row.body} /\ row.body \in Bodies
    BY <1>1, <1>5
  <2> HIDE DEF row
  <2>6. LedgerInv'
    BY <1>0, <1>1, <1>3, <1>4, <1>5, <2>2, <2>3, <2>5, RowWritten
  <2> QED
    BY <1>3, <2>6 DEF IInv
<1> QED
  BY <1>7, <1>8

LEMMA NextKeepsInv == IInv /\ [Next]_vars => IInv'
<1> SUFFICES ASSUME IInv, [Next]_vars PROVE IInv'
  OBVIOUS
<1>1. CASE UNCHANGED vars
  BY <1>1 DEF vars, IInv, LedgerInv, RequestInv, Shape, NothingUnrecorded, AppliedOnce, OneBody, Sound, Alone, Inserting, Recorded
<1>2. CASE ConfigureElsewhere
  <2>1. configured' = TRUE /\ UNCHANGED <<ledger, tx, requests, applied, replays, bodies>>
    BY <1>2 DEF ConfigureElsewhere
  <2> QED
    BY <2>1 DEF IInv, LedgerInv, RequestInv, Shape, NothingUnrecorded, AppliedOnce, OneBody,
       Sound, Alone, Inserting, Recorded
<1>3. ASSUME NEW h \in Handlers,
             \/ \E g \in Guids : Replay(h, g) \/ \E b \in Bodies : Deliver(h, g, b)
             \/ Step(h)
             \/ Abort(h)
      PROVE  IInv'
  BY <1>3, ArrivalKeepsInv, StatementKeepsInv, CommitNewKeepsInv, CommitDuplicateKeepsInv,
     CommitReplayKeepsInv DEF Step
<1> QED
  BY <1>1, <1>2, <1>3 DEF Next

LEMMA LedgerInvariant == Spec => []IInv
  BY InitInv, NextKeepsInv, PTL DEF Spec

\* For any number of handlers, however often GitHub sends a delivery and in
\* whatever order statements of handlers run, it is applied once, and again
\* only when an operator replays it (GitHubWebhookService.intake, replay).
THEOREM DeliveriesApplyOnce == Spec => []AppliedOnce
<1>1. IInv => AppliedOnce
  BY DEF IInv, LedgerInv
<1> QED
  BY <1>1, LedgerInvariant, PTL

\* Only the body in the ledger is ever applied under its guid.
THEOREM OneBodyPerGuid == Spec => []OneBody
<1>1. IInv => OneBody
  BY DEF IInv, LedgerInv
<1> QED
  BY <1>1, LedgerInvariant, PTL

\* A request is refused only when it has lost the race for the configuration; the
\* loser of a race for a guid finds the winner's row (_bootstrap_webhook_config,
\* recover_duplicate).
THEOREM OnlyUnconfiguredAreRefused == Spec => []RefusedUnconfigured
<1>1. IInv => RefusedUnconfigured
  BY DEF IInv, RequestInv, Sound, RefusedUnconfigured
<1> QED
  BY <1>1, LedgerInvariant, PTL

\* Commits make a delivery processed only as they apply it.
LEMMA CommitsAreTrue ==
  ASSUME IInv, NEW h \in Handlers, CommitNew(h) \/ CommitDuplicate(h) \/ CommitReplay(h),
         NEW g \in Guids, ledger[g].status # "processed", ledger'[g].status = "processed"
  PROVE  applied'[g] > applied[g]
<1> DEFINE f == tx[h].guid
<1>0. /\ tx[h] \in Requests /\ tx[h].at # "idle" /\ f \in Guids /\ ledger[f] \in Rows
      /\ ledger \in [Guids -> Rows] /\ applied \in [Guids -> Nat]
  BY RequestFacts DEF CommitNew, CommitDuplicate, CommitReplay, Sound, IInv, LedgerInv, Shape
<1>1. ASSUME NEW row, Ends(h, row)  PROVE f = g /\ row.status = "processed"
  <2>1. ledger' = [ledger EXCEPT ![f] = row]  BY <1>1 DEF Ends
  <2> QED  BY <1>0, <2>1
<1>2. f = g /\ Applies(h) => (tx[h].result = "processed" => applied'[g] > applied[g])
  BY <1>0 DEF Applies
<1>3. CASE CommitNew(h)
  <2> DEFINE row == [tx[h].row EXCEPT !.status = tx[h].result]
  <2>1. row.status = tx[h].result  BY <1>0 DEF Requests, Rows
  <2>2. Ends(h, row) /\ Applies(h)  BY <1>3 DEF CommitNew
  <2> QED  BY <1>1, <1>2, <2>1, <2>2
<1>4. CASE CommitDuplicate(h)
  <2> DEFINE loaded == tx[h].row
             status == IF loaded.body # tx[h].body THEN "dead-letter" ELSE loaded.status
             new == Written(loaded.status, status, ledger[f].status)
             row == [ledger[f] EXCEPT !.attempts = loaded.attempts + 1,
                                      !.status = Written(loaded.status, status, @)]
  <2>1. Ends(h, row)  BY <1>4 DEF CommitDuplicate
  <2>2. row.status = new  BY <1>0 DEF Rows
  <2>3. new \in {"dead-letter", ledger[f].status}  BY DEF Written
  <2> HIDE DEF row, new
  <2>4. f = g /\ row.status = "processed"  BY <1>1, <2>1
  <2> QED  BY <2>2, <2>3, <2>4
<1>5. CASE CommitReplay(h)
  <2> DEFINE new == Written(tx[h].row.status, tx[h].result, ledger[f].status)
             row == [ledger[f] EXCEPT !.replays = tx[h].row.replays + 1,
                                      !.status = Written(tx[h].row.status, tx[h].result, @)]
  <2>1. Ends(h, row) /\ Applies(h)  BY <1>5 DEF CommitReplay
  <2>2. row.status = new  BY <1>0 DEF Rows
  <2>3. new \in {tx[h].result, ledger[f].status}  BY DEF Written
  <2> HIDE DEF row, new
  <2>4. f = g /\ row.status = "processed"  BY <1>1, <2>1
  <2>5. tx[h].result = "processed"  BY <2>2, <2>3, <2>4
  <2> QED  BY <1>2, <2>1, <2>4, <2>5
<1> QED  BY <1>3, <1>4, <1>5

\* However handlers overlap, none writes "processed" over a dead letter without
\* having processed its payload (_register_duplicate, _process_delivery).
THEOREM DeadLettersStayAlways == Spec => DeadLettersStay
<1>1. ASSUME IInv, [Next]_vars, NEW g \in Guids,
             ledger[g].status # "processed", ledger'[g].status = "processed"
      PROVE  applied'[g] > applied[g]
  <2>1. ledger' # ledger
    BY <1>1
  <2>2. ~ConfigureElsewhere /\ ~UNCHANGED vars
    BY <2>1 DEF ConfigureElsewhere, vars
  <2>3. PICK h \in Handlers : \/ \E f \in Guids : Replay(h, f) \/ \E b \in Bodies : Deliver(h, f, b)
                             \/ Step(h) \/ Abort(h)
    BY <1>1, <2>2 DEF Next
  <2>4. CommitNew(h) \/ CommitDuplicate(h) \/ CommitReplay(h)
    BY <2>1, <2>3 DEF Replay, Deliver, Accept, Step, Abort, Configure, Lookup, Insert, Recover, Refuse,
       TakeRow, Process, Goes
  <2> QED
    BY <1>1, <2>4, CommitsAreTrue
<1>2. IInv /\ [Next]_vars =>
        [\A g \in Guids : ledger[g].status # "processed" /\ ledger'[g].status = "processed" =>
           applied'[g] > applied[g]]_vars
  BY <1>1
<1> QED
  BY <1>2, LedgerInvariant, PTL DEF Spec, DeadLettersStay
=============================================================================
