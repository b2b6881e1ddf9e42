------------------------- MODULE ProcessingWorkers -------------------------
(***************************************************************************)
(* The realtime processing workers (backend/app/processing): replicas that *)
(* read the Redis stream hazard:events through one consumer group, claim   *)
(* each event with a Redis dedupe key, write alerts, audit rows and        *)
(* processed_events rows in one PostgreSQL transaction per batch, and      *)
(* acknowledge the batch.                                                  *)
(*                                                                         *)
(* A stream entry is named by its position in the stream.  An entry's      *)
(* payload is reduced to what the handlers branch on: the dedupe key       *)
(* source:event_id, the tier score_event gives it, whether validate        *)
(* accepts it, and the retry_count it carries.                             *)
(***************************************************************************)
EXTENDS Integers, Sequences, FiniteSets

CONSTANTS Workers,      \* the replicas of the processing service
          Keys,         \* dedupe keys
          Feed,         \* the payloads ingestion may publish
          BatchSize,    \* count= of XREADGROUP and XAUTOCLAIM (50)
          MaxRetries,   \* HazardConsumer.max_retries (5)
          StreamMaxLen, \* redis_stream_maxlen (250000)
          MaxEntries,   \* bound: entries ever published
          MaxWindows,   \* bound: dedupe windows per key
          MaxCrashes,   \* bound: worker crashes
          MaxFaults     \* bound: Redis or SQL errors inside process_event

Tiers == {"LOW", "MEDIUM", "HIGH", "CRITICAL"}
AlertTiers == {"MEDIUM", "HIGH", "CRITICAL"}
PriorityTiers == {"HIGH", "CRITICAL"}

Payload == [key: Keys, tier: Tiers, valid: BOOLEAN, retries: 0..MaxRetries]

ASSUME ConstantsAssumption ==
    /\ Feed \subseteq Payload
    /\ BatchSize \in Nat \ {0}
    /\ MaxRetries \in Nat
    /\ StreamMaxLen \in Nat \ {0}
    /\ MaxEntries \in Nat
    /\ MaxWindows \in Nat
    /\ MaxCrashes \in Nat
    /\ MaxFaults \in Nat

VARIABLES
    \* Redis: the stream, its consumer group, the dedupe keys, the side streams
    stream,         \* every entry ever added, oldest first
    trimmed,        \* entries 1..trimmed have been trimmed away
    lastDelivered,  \* the group's last-delivered id
    pending,        \* the group's pending entries list
    idle,           \* pending entries not delivered for pending_idle_ms
    seen,           \* keys whose processing:dedupe: key exists
    window,         \* how often each key has been claimed (history)
    priority,       \* hazard:events:priority
    retry,          \* hazard:events:retry
    dlq,            \* hazard:events:dlq
    \* PostgreSQL: committed rows
    alerts, audits, rows,
    \* one worker: control, its batch, the event in hand, its session
    pc, phase, todo, toAck, cur, state,
    txnAlerts, txnAudits, txnRows, aborted,
    \* bounds
    crashes, faults

groupVars == <<stream, trimmed, lastDelivered, pending, idle>>
keyVars == <<seen, window>>
sideVars == <<priority, retry, dlq>>
dbVars == <<alerts, audits, rows>>
batchVars == <<phase, todo, toAck>>
eventVars == <<cur, state>>
sessionVars == <<txnAlerts, txnAudits, txnRows, aborted>>
boundVars == <<crashes, faults>>
vars == <<groupVars, keyVars, sideVars, dbVars, pc, batchVars, eventVars,
          sessionVars, boundVars>>

(***************************************************************************)
(* A claim is what the SET NX on the dedupe key hands out: entry `entry'   *)
(* holds the `window'-th claim of `key'.  Alerts, audit rows and side      *)
(* stream entries are identified by the claim under which they are made;   *)
(* window 0 marks an event that failed before it claimed its key.          *)
(***************************************************************************)
Entries == 1..MaxEntries
Claim == [entry: Entries, key: Keys, window: 0..MaxWindows]
Row == [key: Keys, entry: Entries, tier: Tiers, state: {"ALERTED", "STORED"}]
SameClaim(a, b) == a.key = b.key /\ a.window = b.window

Ids == 1..Len(stream)
Undelivered == {i \in Ids : i > lastDelivered /\ i > trimmed}
Oldest(S) == {i \in S : Cardinality({j \in S : j < i}) < BatchSize}

\* INSERT ... ON CONFLICT (event_id) DO UPDATE of every row of T into R
Upsert(R, T) == {r \in R : \A t \in T : t.key # r.key} \cup T

Init ==
    /\ stream = << >> /\ trimmed = 0 /\ lastDelivered = 0
    /\ pending = {} /\ idle = {}
    /\ seen = {} /\ window = [k \in Keys |-> 0]
    /\ priority = {} /\ retry = {} /\ dlq = {}
    /\ alerts = {} /\ audits = {} /\ rows = {}
    /\ pc = [w \in Workers |-> "recover"]
    /\ phase = [w \in Workers |-> "recover"]
    /\ todo = [w \in Workers |-> {}]
    /\ toAck = [w \in Workers |-> {}]
    /\ cur = [w \in Workers |-> {}]
    /\ state = [w \in Workers |-> "NEW"]
    /\ txnAlerts = [w \in Workers |-> {}]
    /\ txnAudits = [w \in Workers |-> {}]
    /\ txnRows = [w \in Workers |-> {}]
    /\ aborted = [w \in Workers |-> FALSE]
    /\ crashes = 0 /\ faults = 0

-----------------------------------------------------------------------------
(***************************************************************************)
(* The environment: ingestion adds entries, time passes.                   *)
(***************************************************************************)

\* One XADD of publish_hazard_events; MAXLEN ~ may trim the oldest entries.
Publish ==
    /\ Len(stream) < MaxEntries
    /\ \E p \in Feed : stream' = Append(stream, p)
    /\ \E t \in 0..MaxEntries :
          /\ t = trimmed \/ (t > trimmed /\ t <= Len(stream) + 1 - StreamMaxLen)
          /\ trimmed' = t
    /\ UNCHANGED <<lastDelivered, pending, idle, keyVars, sideVars, dbVars, pc,
                   batchVars, eventVars, sessionVars, boundVars>>

\* Pending entry i reaches redis_stream_pending_idle_ms without a delivery.
BecomeIdle(i) ==
    /\ i \in pending \ idle
    /\ idle' = idle \cup {i}
    /\ UNCHANGED <<stream, trimmed, lastDelivered, pending, keyVars, sideVars,
                   dbVars, pc, batchVars, eventVars, sessionVars, boundVars>>

\* The 86400 s time to live of a dedupe key runs out.
Expire(k) ==
    /\ k \in seen
    /\ window[k] < MaxWindows
    /\ seen' = seen \ {k}
    /\ UNCHANGED <<groupVars, window, sideVars, dbVars, pc, batchVars,
                   eventVars, sessionVars, boundVars>>

-----------------------------------------------------------------------------
(***************************************************************************)
(* The worker loop: recover stale entries, then read new ones.             *)
(***************************************************************************)

\* A session with nothing in it: just opened, or closed (which rolls back).
FreshSession(w) ==
    /\ txnAlerts' = [txnAlerts EXCEPT ![w] = {}]
    /\ txnAudits' = [txnAudits EXCEPT ![w] = {}]
    /\ txnRows' = [txnRows EXCEPT ![w] = {}]
    /\ aborted' = [aborted EXCEPT ![w] = FALSE]

\* _dispatch_entries opens a session for a nonempty batch; an empty one
\* leaves the loop at `next'.
BeginBatch(w, batch, from, next) ==
    /\ phase' = [phase EXCEPT ![w] = IF batch = {} THEN "recover" ELSE from]
    /\ todo' = [todo EXCEPT ![w] = batch]
    /\ toAck' = [toAck EXCEPT ![w] = {}]
    /\ pc' = [pc EXCEPT ![w] = IF batch = {} THEN next ELSE "event"]
    /\ FreshSession(w)

\* Variant: recover_stale_pending takes the cursor of the XAUTOCLAIM reply for
\* its entries.
Recover_WrongIndex(w) ==
    /\ pc[w] = "recover"
    /\ idle' = idle \ Oldest(idle)
    /\ pc' = [pc EXCEPT ![w] = "read"]
    /\ UNCHANGED <<stream, trimmed, lastDelivered, pending, keyVars, sideVars,
                   dbVars, batchVars, eventVars, sessionVars, boundVars>>

\* XAUTOCLAIM of the oldest idle entries, whoever owns them; entries trimmed
\* from the stream are dropped from the pending list instead of returned.
Recover(w) ==
    LET claimed == Oldest(idle) IN
    /\ pc[w] = "recover"
    /\ idle' = idle \ claimed
    /\ pending' = pending \ {i \in claimed : i <= trimmed}
    /\ BeginBatch(w, {i \in claimed : i > trimmed}, "recover", "read")
    /\ UNCHANGED <<stream, trimmed, lastDelivered, keyVars, sideVars, dbVars,
                   eventVars, boundVars>>

\* Variant: the read is done with NOACK, so nothing becomes pending.
Read_NoAck(w) ==
    LET batch == Oldest(Undelivered) IN
    /\ pc[w] = "read"
    /\ \E last \in batch \cup {lastDelivered} :
          /\ \A i \in batch : i <= last
          /\ lastDelivered' = last
    /\ BeginBatch(w, batch, "read", "recover")
    /\ UNCHANGED <<stream, trimmed, pending, idle, keyVars, sideVars, dbVars,
                   eventVars, boundVars>>

\* XREADGROUP ... ">" ; an empty answer (the block time ran out) restarts
\* the loop.
Read(w) ==
    LET batch == Oldest(Undelivered) IN
    /\ pc[w] = "read"
    /\ pending' = pending \cup batch
    /\ \E last \in batch \cup {lastDelivered} :
          /\ \A i \in batch : i <= last
          /\ lastDelivered' = last
    /\ BeginBatch(w, batch, "read", "recover")
    /\ UNCHANGED <<stream, trimmed, idle, keyVars, sideVars, dbVars, eventVars,
                   boundVars>>

-----------------------------------------------------------------------------
(***************************************************************************)
(* process_event, one step for each call it makes on Redis or PostgreSQL.  *)
(***************************************************************************)

\* i is the entry the loop of _dispatch_entries has reached.
InHand(w, i) == i \in todo[w] /\ \A j \in todo[w] : i <= j

\* process_event returned: the entry joins ack_ids and the loop moves on.
Finish(w, i) ==
    /\ todo' = [todo EXCEPT ![w] = @ \ {i}]
    /\ toAck' = [toAck EXCEPT ![w] = @ \cup {i}]
    /\ cur' = [cur EXCEPT ![w] = {}]
    /\ state' = [state EXCEPT ![w] = "NEW"]
    /\ pc' = [pc EXCEPT ![w] = IF todo[w] = {i} THEN "commit" ELSE "event"]
    /\ UNCHANGED phase

\* SET NX finds the key: a duplicate is returned unprocessed.
DropDuplicate(w, i) ==
    /\ pc[w] = "event" /\ state[w] = "NEW" /\ InHand(w, i)
    /\ stream[i].key \in seen
    /\ Finish(w, i)
    /\ UNCHANGED <<groupVars, keyVars, sideVars, dbVars, sessionVars, boundVars>>

\* Variant: SET without NX, which succeeds on an existing key as well.
ClaimEvent_WithoutNX(w, i) ==
    LET k == stream[i].key
        n == IF k \in seen THEN window[k] ELSE window[k] + 1 IN
    /\ pc[w] = "event" /\ state[w] = "NEW" /\ InHand(w, i)
    /\ n <= MaxWindows
    /\ seen' = seen \cup {k}
    /\ window' = [window EXCEPT ![k] = n]
    /\ cur' = [cur EXCEPT ![w] = {[entry |-> i, key |-> k, window |-> n]}]
    /\ state' = [state EXCEPT ![w] = "PROCESSING"]
    /\ UNCHANGED <<groupVars, sideVars, dbVars, pc, batchVars, sessionVars,
                   boundVars>>

\* SET NX creates the key: this worker has claimed the event.
ClaimEvent(w, i) ==
    LET k == stream[i].key IN
    /\ pc[w] = "event" /\ state[w] = "NEW" /\ InHand(w, i)
    /\ k \notin seen
    /\ window[k] < MaxWindows
    /\ seen' = seen \cup {k}
    /\ window' = [window EXCEPT ![k] = @ + 1]
    /\ cur' = [cur EXCEPT ![w] = {[entry |-> i, key |-> k, window |-> window[k] + 1]}]
    /\ state' = [state EXCEPT ![w] = "PROCESSING"]
    /\ UNCHANGED <<groupVars, sideVars, dbVars, pc, batchVars, sessionVars,
                   boundVars>>

\* Variant: the rejected event is reported but processing goes on.
Reject_Continues(w, c) ==
    /\ c \in cur[w] /\ state[w] = "PROCESSING"
    /\ ~stream[c.entry].valid
    /\ dlq' = dlq \cup {c}
    /\ state' = [state EXCEPT ![w] = "ROUTED"]
    /\ UNCHANGED <<groupVars, keyVars, priority, retry, dbVars, pc, batchVars,
                   cur, sessionVars, boundVars>>

\* validate raises ValidationError: move_to_dlq.
Reject(w, c) ==
    /\ c \in cur[w] /\ state[w] = "PROCESSING"
    /\ ~stream[c.entry].valid
    /\ dlq' = dlq \cup {c}
    /\ Finish(w, c.entry)
    /\ UNCHANGED <<groupVars, keyVars, priority, retry, dbVars, sessionVars,
                   boundVars>>

\* validate, score_event, then route_priority: HIGH and CRITICAL events are
\* added to the priority stream at once, outside the transaction.
Route(w, c) ==
    /\ c \in cur[w] /\ state[w] = "PROCESSING"
    /\ stream[c.entry].valid
    /\ priority' = IF stream[c.entry].tier \in PriorityTiers
                   THEN priority \cup {c} ELSE priority
    /\ state' = [state EXCEPT ![w] = "ROUTED"]
    /\ UNCHANGED <<groupVars, keyVars, retry, dlq, dbVars, pc, batchVars, cur,
                   sessionVars, boundVars>>

\* emit_alert: the INSERT runs in the open transaction, the audit row is only
\* added to the ORM session.  A LOW event makes no statement here.
EmitAlert(w, c) ==
    LET alerting == stream[c.entry].tier \in AlertTiers
        new == IF alerting THEN {c} ELSE {} IN
    /\ c \in cur[w] /\ state[w] = "ROUTED"
    /\ alerting => ~aborted[w]
    /\ txnAlerts' = [txnAlerts EXCEPT ![w] = @ \cup new]
    /\ txnAudits' = [txnAudits EXCEPT ![w] = @ \cup new]
    /\ state' = [state EXCEPT ![w] = "ALERTED"]
    /\ UNCHANGED <<groupVars, keyVars, sideVars, dbVars, pc, batchVars, cur,
                   txnRows, aborted, boundVars>>

\* persist_state, called in state ALERTED and again in state STORED, after
\* which process_event returns.
PersistState(w, c) ==
    LET row == [key |-> c.key, entry |-> c.entry,
                tier |-> stream[c.entry].tier, state |-> state[w]] IN
    /\ c \in cur[w] /\ state[w] \in {"ALERTED", "STORED"}
    /\ ~aborted[w]
    /\ txnRows' = [txnRows EXCEPT ![w] = Upsert(@, {row})]
    /\ \/ /\ state[w] = "ALERTED"
          /\ state' = [state EXCEPT ![w] = "STORED"]
          /\ UNCHANGED <<pc, batchVars, cur>>
       \/ /\ state[w] = "STORED"
          /\ Finish(w, c.entry)
    /\ UNCHANGED <<groupVars, keyVars, sideVars, dbVars, txnAlerts, txnAudits,
                   aborted, boundVars>>

-----------------------------------------------------------------------------
(***************************************************************************)
(* The except-Exception branch: the event goes to the retry stream, or to  *)
(* the dead-letter stream when its retries are used up, and the batch goes *)
(* on.  The session is not rolled back.                                    *)
(***************************************************************************)
MoveToRetryOrDlq(w, c) ==
    /\ \/ /\ stream[c.entry].retries >= MaxRetries
          /\ dlq' = dlq \cup {c}
          /\ UNCHANGED retry
       \/ /\ stream[c.entry].retries < MaxRetries
          /\ retry' = retry \cup {c}
          /\ UNCHANGED dlq
    /\ Finish(w, c.entry)
    /\ UNCHANGED <<groupVars, keyVars, dbVars, txnAlerts, txnAudits, txnRows>>

\* The SET of dedupe fails; the retry XADD that follows goes through.
DedupeFails(w, i) ==
    /\ pc[w] = "event" /\ state[w] = "NEW" /\ InHand(w, i)
    /\ faults < MaxFaults
    /\ faults' = faults + 1
    /\ MoveToRetryOrDlq(w, [entry |-> i, key |-> stream[i].key, window |-> 0])
    /\ UNCHANGED <<priority, aborted, crashes>>

\* A Redis call after the claim fails: the reply to SET is lost after the key
\* was created, or the XADD of route_priority fails (whether or not Redis
\* performed it).  The retry XADD that follows goes through.
RedisFails(w, c) ==
    /\ c \in cur[w] /\ state[w] = "PROCESSING"
    /\ faults < MaxFaults
    /\ faults' = faults + 1
    /\ \/ UNCHANGED priority
       \/ /\ stream[c.entry].valid /\ stream[c.entry].tier \in PriorityTiers
          /\ priority' = priority \cup {c}
    /\ MoveToRetryOrDlq(w, c)
    /\ UNCHANGED <<aborted, crashes>>

\* Variant: the connection runs in autocommit, so a failed statement leaves the
\* earlier ones in force.
StatementFails_Autocommit(w, c) ==
    /\ c \in cur[w]
    /\ \/ state[w] \in {"ALERTED", "STORED"}
       \/ state[w] = "ROUTED" /\ stream[c.entry].tier \in AlertTiers
    /\ faults < MaxFaults
    /\ faults' = faults + 1
    /\ MoveToRetryOrDlq(w, c)
    /\ UNCHANGED <<priority, aborted, crashes>>

\* A statement of emit_alert or persist_state fails.  PostgreSQL aborts the
\* transaction, so every later statement of this session fails as well.
StatementFails(w, c) ==
    /\ c \in cur[w]
    /\ \/ state[w] \in {"ALERTED", "STORED"}
       \/ state[w] = "ROUTED" /\ stream[c.entry].tier \in AlertTiers
    /\ \/ aborted[w] /\ UNCHANGED faults
       \/ ~aborted[w] /\ faults < MaxFaults /\ faults' = faults + 1
    /\ aborted' = [aborted EXCEPT ![w] = TRUE]
    /\ MoveToRetryOrDlq(w, c)
    /\ UNCHANGED <<priority, crashes>>

-----------------------------------------------------------------------------
(***************************************************************************)
(* The end of a batch.                                                     *)
(***************************************************************************)

\* Variant: audit rows are written through a session of their own.
Commit_OwnAuditSession(w) ==
    /\ pc[w] = "commit"
    /\ audits' = audits \cup txnAudits[w]
    /\ \/ /\ ~aborted[w]
          /\ alerts' = alerts \cup txnAlerts[w]
          /\ rows' = Upsert(rows, txnRows[w])
       \/ /\ aborted[w]
          /\ UNCHANGED <<alerts, rows>>
    /\ pc' = [pc EXCEPT ![w] = "ack"]
    /\ FreshSession(w)
    /\ UNCHANGED <<groupVars, keyVars, sideVars, batchVars, eventVars, boundVars>>

\* Variant: the batch is committed only when the ORM session holds new objects.
Commit_OnlyWhenDirty(w) ==
    /\ pc[w] = "commit"
    /\ \/ /\ txnAudits[w] # {}
          /\ alerts' = alerts \cup txnAlerts[w]
          /\ audits' = audits \cup txnAudits[w]
          /\ rows' = Upsert(rows, txnRows[w])
       \/ /\ txnAudits[w] = {}
          /\ UNCHANGED dbVars
    /\ pc' = [pc EXCEPT ![w] = "ack"]
    /\ FreshSession(w)
    /\ UNCHANGED <<groupVars, keyVars, sideVars, batchVars, eventVars, boundVars>>

\* session.commit() returns.  Of an aborted transaction PostgreSQL turns the
\* COMMIT into a ROLLBACK, and does so without an error.
Commit(w) ==
    /\ pc[w] = "commit"
    /\ \/ /\ ~aborted[w]
          /\ alerts' = alerts \cup txnAlerts[w]
          /\ audits' = audits \cup txnAudits[w]
          /\ rows' = Upsert(rows, txnRows[w])
       \/ /\ aborted[w] /\ txnAudits[w] = {}
          /\ UNCHANGED dbVars
    /\ pc' = [pc EXCEPT ![w] = "ack"]
    /\ FreshSession(w)
    /\ UNCHANGED <<groupVars, keyVars, sideVars, batchVars, eventVars, boundVars>>

\* What a worker process keeps is lost; its session rolls back.
Die(w) ==
    /\ pc' = [pc EXCEPT ![w] = "down"]
    /\ phase' = [phase EXCEPT ![w] = "recover"]
    /\ todo' = [todo EXCEPT ![w] = {}]
    /\ toAck' = [toAck EXCEPT ![w] = {}]
    /\ cur' = [cur EXCEPT ![w] = {}]
    /\ state' = [state EXCEPT ![w] = "NEW"]
    /\ FreshSession(w)
    /\ UNCHANGED <<groupVars, keyVars, sideVars, dbVars>>

\* Audit rows waiting in the ORM session are flushed by commit(): in an
\* aborted transaction the flush raises, and the exception leaves the loop.
CommitFails(w) ==
    /\ pc[w] = "commit"
    /\ aborted[w] /\ txnAudits[w] # {}
    /\ Die(w)
    /\ UNCHANGED boundVars

\* Variant: the acknowledged entries keep their idle mark.
Ack_KeepsIdle(w) ==
    /\ pc[w] = "ack"
    /\ pending' = pending \ toAck[w]
    /\ toAck' = [toAck EXCEPT ![w] = {}]
    /\ pc' = [pc EXCEPT ![w] = IF phase[w] = "recover" THEN "read" ELSE "recover"]
    /\ phase' = [phase EXCEPT ![w] = "recover"]
    /\ UNCHANGED <<stream, trimmed, lastDelivered, idle, keyVars, sideVars,
                   dbVars, todo, eventVars, sessionVars, boundVars>>

\* One XACK of the batch, then the other half of the loop.
Ack(w) ==
    /\ pc[w] = "ack"
    /\ pending' = pending \ toAck[w]
    /\ idle' = idle \ toAck[w]
    /\ toAck' = [toAck EXCEPT ![w] = {}]
    /\ pc' = [pc EXCEPT ![w] = IF phase[w] = "recover" THEN "read" ELSE "recover"]
    /\ phase' = [phase EXCEPT ![w] = "recover"]
    /\ UNCHANGED <<stream, trimmed, lastDelivered, keyVars, sideVars, dbVars,
                   todo, eventVars, sessionVars, boundVars>>

\* The process is killed, or a Redis or PostgreSQL error leaves the loop.
Crash(w) ==
    /\ pc[w] # "down"
    /\ crashes < MaxCrashes
    /\ crashes' = crashes + 1
    /\ Die(w)
    /\ UNCHANGED faults

\* A replica is started (again): the group exists, the loop begins.
Start(w) ==
    /\ pc[w] = "down"
    /\ pc' = [pc EXCEPT ![w] = "recover"]
    /\ UNCHANGED <<groupVars, keyVars, sideVars, dbVars, batchVars, eventVars,
                   sessionVars, boundVars>>

-----------------------------------------------------------------------------
\* What a live worker does by itself.  A statement of an aborted session can
\* only fail, so that failure is one of the worker's own steps.
WorkerStep(w) ==
    \/ Recover(w) \/ Read(w) \/ Commit(w) \/ CommitFails(w) \/ Ack(w)
    \/ \E i \in todo[w] : DropDuplicate(w, i) \/ ClaimEvent(w, i)
    \/ \E c \in cur[w] : Reject(w, c) \/ Route(w, c) \/ EmitAlert(w, c)
                           \/ PersistState(w, c)
                           \/ (aborted[w] /\ StatementFails(w, c))

Fault(w) ==
    \/ \E i \in todo[w] : DedupeFails(w, i)
    \/ \E c \in cur[w] : RedisFails(w, c) \/ StatementFails(w, c)

Next ==
    \/ Publish
    \/ \E i \in Entries : BecomeIdle(i)
    \/ \E k \in Keys : Expire(k)
    \/ \E w \in Workers : WorkerStep(w) \/ Fault(w) \/ Crash(w) \/ Start(w)

Spec == Init /\ [][Next]_vars

\* Live workers keep stepping and time keeps passing.  Nothing restarts a
\* worker that died (docker-compose.yml gives the service no restart policy).
FairSpec ==
    /\ Spec
    /\ \A w \in Workers : WF_vars(WorkerStep(w))
    /\ \A i \in Entries : WF_vars(BecomeIdle(i))

-----------------------------------------------------------------------------
(***************************************************************************)
(* Properties                                                              *)
(***************************************************************************)

\* Every variable has the shape its declaration describes.
TypeOK ==
    /\ stream \in Seq(Payload) /\ Len(stream) <= MaxEntries
    /\ trimmed \in 0..MaxEntries /\ lastDelivered \in 0..Len(stream)
    /\ pending \subseteq Ids /\ idle \subseteq pending
    /\ seen \subseteq Keys /\ window \in [Keys -> 0..MaxWindows]
    /\ priority \subseteq Claim /\ retry \subseteq Claim /\ dlq \subseteq Claim
    /\ alerts \subseteq Claim /\ audits \subseteq Claim /\ rows \subseteq Row
    /\ pc \in [Workers -> {"down", "recover", "read", "event", "commit", "ack"}]
    /\ phase \in [Workers -> {"recover", "read"}]
    /\ todo \in [Workers -> SUBSET Ids] /\ toAck \in [Workers -> SUBSET Ids]
    /\ cur \in [Workers -> SUBSET Claim]
    /\ \A w \in Workers : \A c \in cur[w] : c.entry \in Ids
    /\ state \in [Workers -> {"NEW", "PROCESSING", "ROUTED", "ALERTED", "STORED"}]
    /\ txnAlerts \in [Workers -> SUBSET Claim]
    /\ txnAudits \in [Workers -> SUBSET Claim]
    /\ txnRows \in [Workers -> SUBSET Row]
    /\ aborted \in [Workers -> BOOLEAN]
    /\ crashes \in 0..MaxCrashes /\ faults \in 0..MaxFaults

\* The claims worker w may still turn into committed alerts.
Held(w) == cur[w] \cup txnAlerts[w]

Failed == {c \in retry \cup dlq : c.window > 0}

\* The claim in hand is one claim, held only inside process_event.
InHandShape ==
    \A w \in Workers :
        /\ cur[w] # {} => pc[w] = "event"
        /\ cur[w] = {} <=> state[w] = "NEW"
        /\ \A a, b \in cur[w] : a = b
        /\ state[w] \in {"PROCESSING", "ROUTED"} => cur[w] \cap txnAlerts[w] = {}

\* Every claim that still matters was handed out by a SET NX.
ClaimsWereMade ==
    /\ \A c \in alerts \cup Failed : c.window \in 1..window[c.key]
    /\ \A w \in Workers : \A c \in Held(w) : c.window \in 1..window[c.key]

\* However often an event is published, delivered, stolen by XAUTOCLAIM or
\* redelivered after a crash, one dedupe window yields at most one alert.
OneAlertPerWindow ==
    \A a, b \in alerts : SameClaim(a, b) => a = b

\* Two workers are never inside process_event, or an open transaction, for the
\* same claim, even when one has taken over the other's pending entries.
ExclusiveClaims ==
    \A v, w \in Workers : v # w =>
        \A a \in Held(v), b \in Held(w) : ~SameClaim(a, b)

\* An event sent to the retry or dead-letter stream has no alert under the
\* same claim: a retry could not alert twice.
FailureExcludesAlert ==
    \A a \in alerts, f \in Failed : ~SameClaim(a, f)

\* No worker holds a claim that is already alerted, a worker's own claims differ,
\* and a failed claim survives only in a transaction that cannot commit.
HeldClaimsAreOpen ==
    \A w \in Workers : \A a \in Held(w) :
        /\ \A b \in Held(w) : SameClaim(a, b) => a = b
        /\ \A b \in alerts : ~SameClaim(a, b)
        /\ \A f \in Failed : SameClaim(a, f) => aborted[w] /\ a \notin cur[w]

\* The inductive invariant behind the at-most-once properties.
ClaimInv ==
    /\ InHandShape
    /\ ClaimsWereMade
    /\ HeldClaimsAreOpen
    /\ OneAlertPerWindow
    /\ ExclusiveClaims
    /\ FailureExcludesAlert

\* A batch commits as a whole: an alert's event is recorded, a row of an
\* alerting tier has its alert, no row shows the intermediate state ALERTED, and
\* the audit trail names exactly the committed alerts, although alert, rows and
\* audit row are written at different times and a statement may fail in between.
BatchIsAtomic ==
    /\ \A a \in alerts : \E r \in rows : r.key = a.key
    /\ \A r \in rows : /\ r.state = "STORED"
                       /\ r.tier \in AlertTiers => \E a \in alerts : a.entry = r.entry
    /\ audits = alerts

\* An entry the group no longer holds.
Acked(i) == i \in Ids /\ i <= lastDelivered /\ i \notin pending /\ i > trimmed

\* No entry is acknowledged unless some worker claimed its key for it or an
\* equal event, or recorded its failure.
AckedWasHandled ==
    \A i \in Entries : Acked(i) =>
        \/ window[stream[i].key] > 0
        \/ \E f \in retry \cup dlq : f.entry = i

\* Worker w still has work of key k in its session or in hand.
Working(w, k) ==
    \/ \E c \in cur[w] : c.key = k
    \/ \E r \in txnRows[w] : r.key = k

\* An acknowledged valid event is recorded, is on a failure stream, or is still
\* in some worker's hands: acknowledging never discards it.
NoLostEvents ==
    \A i \in Entries : Acked(i) /\ stream[i].valid =>
        \/ \E r \in rows : r.key = stream[i].key
        \/ \E f \in retry \cup dlq : f.key = stream[i].key
        \/ \E w \in Workers : Working(w, stream[i].key)

\* Without a crash and without a failing statement that always holds, although
\* slow workers reclaim each other's entries while they are at work on them.
NoLostEventsUndisturbed == crashes = 0 /\ faults = 0 => NoLostEvents

\* Every published entry leaves the group: it is acknowledged, or MAXLEN
\* trimmed it.
EventuallySettled ==
    \A i \in Entries :
        i <= Len(stream) ~> (i <= trimmed \/ Acked(i))

\* An event moved to the retry stream is processed again and recorded, or
\* given up to the dead-letter stream.
RetryIsProcessed ==
    \A k \in Keys :
        (\E f \in retry : f.key = k) ~>
            \/ \E r \in rows : r.key = k
            \/ \E f \in dlq : f.key = k

\* The pipeline keeps the promises of AlertLedger.
Ledger == INSTANCE AlertLedger
          WITH claims <- window, alerted <- alerts, failed <- Failed
LedgerSpec == Ledger!Spec
=============================================================================
