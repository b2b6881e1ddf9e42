----------------------------- MODULE Ingestion -----------------------------
(***************************************************************************)
(* The ingestion runs of one source (backend/app/ingestion): a run fetches *)
(* the source's page through a TTL cache, drops what the validator         *)
(* rejects, upserts the rest into PostgreSQL batch by batch, commits each  *)
(* batch, and only then adds it to the Redis stream hazard:events.  Runs   *)
(* are started by the scheduler and by the cron endpoints, in one process  *)
(* and possibly at the same time.                                          *)
(*                                                                         *)
(* An event is a source_event_id and the revision of it a page shows.  The *)
(* three tables an event is written to share one transaction and one key,  *)
(* so one row per event stands for them.                                   *)
(***************************************************************************)
EXTENDS Integers, FiniteSets

CONSTANTS Runs,         \* runs that may be under way at once
          Keys,         \* source_event_ids
          MaxRevision,  \* bound: revisions of an event
          Rejected,     \* events the validator rejects
          Caching,      \* does the source's client keep a TTL cache?
          BatchSize,    \* 500 for FIRMS, the whole page elsewhere
          Attempts,     \* RetryConfig.attempts (3)
          MaxFaults     \* bound: failures and process crashes

Revisions == 0..MaxRevision
Event == [key: Keys, revision: 1..MaxRevision]

ASSUME IngestionAssumption ==
    /\ MaxRevision \in Nat \ {0}
    /\ Rejected \subseteq Event
    /\ Caching \in BOOLEAN
    /\ BatchSize \in Nat \ {0}
    /\ Attempts \in Nat \ {0}
    /\ MaxFaults \in Nat

VARIABLES
    revision,   \* the source's newest revision of each event, 0 before it exists
    gone,       \* events that have left the source's page
    cache,      \* the cached page, if there is one
    row,        \* committed rows: the revision stored for each event
    streamed,   \* the revision of each event last added to hazard:events, 0 for none
    pc, attempt, todo, batch,
    overlapped, \* a run was once started while another was under way (history)
    faults

sourceVars == <<revision, gone>>
runVars == <<pc, attempt, todo, batch>>
vars == <<sourceVars, cache, row, streamed, runVars, overlapped, faults>>

Listed == {k \in Keys : revision[k] > 0} \ gone
Page == {[key |-> k, revision |-> revision[k]] : k \in Listed}
KeysOf(S) == {e.key : e \in S}

Init ==
    /\ revision = [k \in Keys |-> 0] /\ gone = {} /\ cache = {}
    /\ row = [k \in Keys |-> 0]
    /\ streamed = [k \in Keys |-> 0]
    /\ pc = [r \in Runs |-> "idle"]
    /\ attempt = [r \in Runs |-> 1]
    /\ todo = [r \in Runs |-> {}]
    /\ batch = [r \in Runs |-> {}]
    /\ overlapped = FALSE /\ faults = 0

-----------------------------------------------------------------------------
(***************************************************************************)
(* The source and the clock.                                               *)
(***************************************************************************)

\* The source reports event k, or revises it.
Revise(k) ==
    /\ k \notin gone /\ revision[k] < MaxRevision
    /\ revision' = [revision EXCEPT ![k] = @ + 1]
    /\ UNCHANGED <<gone, cache, row, streamed, runVars, overlapped, faults>>

\* Event k grows older than the period the page covers (an hour, a day).
Delist(k) ==
    /\ k \in Listed
    /\ gone' = gone \cup {k}
    /\ UNCHANGED <<revision, cache, row, streamed, runVars, overlapped, faults>>

\* get() finds the entry's time to live over.
CacheExpires ==
    /\ cache # {}
    /\ cache' = {}
    /\ UNCHANGED <<sourceVars, row, streamed, runVars, overlapped, faults>>

-----------------------------------------------------------------------------
(***************************************************************************)
(* One run.                                                                *)
(***************************************************************************)
Fail == faults < MaxFaults /\ faults' = faults + 1

\* The exception leaves the service, or the service is done.
EndRun(r) ==
    /\ pc' = [pc EXCEPT ![r] = "idle"]
    /\ todo' = [todo EXCEPT ![r] = {}]
    /\ batch' = [batch EXCEPT ![r] = {}]

\* The events of a page that go on to storage.
StartStoring(r, page) ==
    LET accepted == page \ Rejected IN
    /\ todo' = [todo EXCEPT ![r] = accepted]
    /\ pc' = [pc EXCEPT ![r] = IF accepted = {} THEN "idle" ELSE "store"]

\* A timer or a cron call starts the service; a cached page saves the request.
Begin(r) ==
    /\ pc[r] = "idle"
    /\ overlapped' = (overlapped \/ \E q \in Runs : pc[q] # "idle")
    /\ \/ \E page \in cache : StartStoring(r, page)
       \/ /\ cache = {}
          /\ pc' = [pc EXCEPT ![r] = "request"]
          /\ UNCHANGED todo
    /\ UNCHANGED <<sourceVars, cache, row, streamed, attempt, batch, faults>>

\* The source answers with what it lists at that moment.
Respond(r) ==
    /\ pc[r] = "request"
    /\ attempt' = [attempt EXCEPT ![r] = 1]
    /\ todo' = [todo EXCEPT ![r] = Page]
    /\ pc' = [pc EXCEPT ![r] = "received"]
    /\ UNCHANGED <<sourceVars, cache, row, streamed, batch, overlapped, faults>>

\* The answer is cached, however late it is, then parsed and validated.
Receive(r) ==
    /\ pc[r] = "received"
    /\ cache' = IF Caching THEN {todo[r]} ELSE cache
    /\ StartStoring(r, todo[r])
    /\ UNCHANGED <<sourceVars, row, streamed, attempt, batch,
                   overlapped, faults>>

\* Variant: the last attempt's failure is retried as well.
RequestFails_Forever(r) ==
    /\ pc[r] = "request"
    /\ attempt' = [attempt EXCEPT ![r] = @ + 1]
    /\ Fail
    /\ UNCHANGED <<sourceVars, cache, row, streamed, pc, todo, batch,
                   overlapped>>

\* retry_async: back off and try again, or raise when the attempts are used up.
RequestFails(r) ==
    /\ pc[r] = "request"
    /\ Fail
    /\ \/ /\ attempt[r] < Attempts
          /\ attempt' = [attempt EXCEPT ![r] = @ + 1]
          /\ UNCHANGED <<pc, todo, batch>>
       \/ /\ attempt[r] >= Attempts
          /\ EndRun(r)
          /\ attempt' = [attempt EXCEPT ![r] = 1]
    /\ UNCHANGED <<sourceVars, cache, row, streamed, overlapped>>

\* The upserts of the next batch.  They wait for a transaction that has
\* written one of the same events.
Upsert(r) ==
    /\ pc[r] = "store"
    /\ \E b \in SUBSET todo[r] :
          /\ b # {}
          /\ Cardinality(b) = BatchSize \/ (b = todo[r] /\ Cardinality(b) <= BatchSize)
          /\ \A q \in Runs : pc[q] = "commit" => KeysOf(batch[q]) \cap KeysOf(b) = {}
          /\ batch' = [batch EXCEPT ![r] = b]
          /\ todo' = [todo EXCEPT ![r] = @ \ b]
    /\ pc' = [pc EXCEPT ![r] = "commit"]
    /\ UNCHANGED <<sourceVars, cache, row, streamed, attempt,
                   overlapped, faults>>

\* Variant: the failure of a batch is logged like the failure of a publication.
BatchFails_Continues(r) ==
    /\ pc[r] = "commit"
    /\ Fail
    /\ pc' = [pc EXCEPT ![r] = "publish"]
    /\ UNCHANGED <<sourceVars, cache, row, streamed, attempt, todo, batch,
                   overlapped>>

\* A statement or the commit fails (two batches may have deadlocked): the
\* transaction rolls back and the run ends; earlier batches stay.
BatchFails(r) ==
    /\ pc[r] = "commit"
    /\ Fail
    /\ EndRun(r)
    /\ UNCHANGED <<sourceVars, cache, row, streamed, attempt, overlapped>>

\* Variant: only rows that were inserted, not updated, are published.
Commit_PublishesInserts(r) ==
    /\ pc[r] = "commit"
    /\ row' = [k \in Keys |-> IF k \in KeysOf(batch[r])
                              THEN (CHOOSE e \in batch[r] : e.key = k).revision
                              ELSE row[k]]
    /\ batch' = [batch EXCEPT ![r] = {e \in @ : row[e.key] = 0}]
    /\ pc' = [pc EXCEPT ![r] = IF batch'[r] # {} THEN "publish"
                               ELSE IF todo[r] # {} THEN "store" ELSE "idle"]
    /\ UNCHANGED <<sourceVars, cache, streamed, attempt, todo, overlapped, faults>>

\* Variant: ON CONFLICT DO NOTHING.
Commit_KeepsRow(r) ==
    /\ pc[r] = "commit"
    /\ row' = [k \in Keys |-> IF row[k] = 0 /\ k \in KeysOf(batch[r])
                              THEN (CHOOSE e \in batch[r] : e.key = k).revision
                              ELSE row[k]]
    /\ pc' = [pc EXCEPT ![r] = "publish"]
    /\ UNCHANGED <<sourceVars, cache, streamed, attempt, todo, batch,
                   overlapped, faults>>

\* ON CONFLICT DO UPDATE overwrites whatever revision the row had.
Commit(r) ==
    /\ pc[r] = "commit"
    /\ row' = [k \in Keys |-> IF k \in KeysOf(batch[r])
                              THEN (CHOOSE e \in batch[r] : e.key = k).revision
                              ELSE row[k]]
    /\ pc' = [pc EXCEPT ![r] = "publish"]
    /\ UNCHANGED <<sourceVars, cache, streamed, attempt, todo, batch,
                   overlapped, faults>>

\* What is left to publish of the batch; then the next batch, or the end.
Published(r, rest) ==
    /\ batch' = [batch EXCEPT ![r] = rest]
    /\ pc' = [pc EXCEPT ![r] = IF rest # {} THEN "publish"
                               ELSE IF todo[r] # {} THEN "store" ELSE "idle"]

\* One XADD of the pipeline, which is no transaction: another run's may come
\* in between.
Xadd(r) ==
    /\ pc[r] = "publish"
    /\ \E e \in batch[r] :
          /\ streamed' = [streamed EXCEPT ![e.key] = e.revision]
          /\ Published(r, batch[r] \ {e})
    /\ UNCHANGED <<sourceVars, cache, row, attempt, todo, overlapped, faults>>

\* The pipeline fails before or after some of its XADDs were performed: the
\* exception is logged, the rest is dropped and the run goes on.
PublishFails(r) ==
    /\ pc[r] = "publish"
    /\ Fail
    /\ Published(r, {})
    /\ UNCHANGED <<sourceVars, cache, row, streamed, attempt, todo,
                   overlapped>>

\* The process dies with its runs and its cache.
Crash ==
    /\ Fail
    /\ cache' = {}
    /\ pc' = [r \in Runs |-> "idle"]
    /\ todo' = [r \in Runs |-> {}]
    /\ batch' = [r \in Runs |-> {}]
    /\ attempt' = [r \in Runs |-> 1]
    /\ UNCHANGED <<sourceVars, row, streamed, overlapped>>

-----------------------------------------------------------------------------
RunStep(r) ==
    Begin(r) \/ Respond(r) \/ Receive(r) \/ Upsert(r) \/ Commit(r) \/ Xadd(r)

Next ==
    \/ \E k \in Keys : Revise(k) \/ Delist(k)
    \/ CacheExpires
    \/ \E r \in Runs : RunStep(r) \/ RequestFails(r) \/ BatchFails(r) \/ PublishFails(r)
    \/ Crash

Spec == Init /\ [][Next]_vars

\* The timer keeps starting runs, a run keeps stepping, cached pages expire.
FairSpec ==
    /\ Spec
    /\ \A r \in Runs : WF_vars(RunStep(r))
    /\ WF_vars(CacheExpires)

-----------------------------------------------------------------------------
(***************************************************************************)
(* Properties                                                              *)
(***************************************************************************)

\* Every variable has the shape its declaration describes.
TypeOK ==
    /\ revision \in [Keys -> Revisions] /\ gone \subseteq Keys
    /\ cache \subseteq SUBSET Event /\ \A p, q \in cache : p = q
    /\ row \in [Keys -> Revisions] /\ streamed \in [Keys -> Revisions]
    /\ pc \in [Runs -> {"idle", "request", "received", "store", "commit", "publish"}]
    /\ attempt \in [Runs -> 1..Attempts]
    /\ todo \in [Runs -> SUBSET Event] /\ batch \in [Runs -> SUBSET Event]
    /\ overlapped \in BOOLEAN /\ faults \in 0..MaxFaults

\* Whatever fails in whichever of the overlapping runs, the stream never
\* carries an event that has no committed row: the workers downstream refer to
\* that row by its id.
StreamedIsStored == \A k \in Keys : streamed[k] > 0 => row[k] > 0

\* As long as runs do not overlap and nothing fails, a finished run leaves the
\* stream's last entry of every event at the revision of its row.
StreamAgreesWithRows ==
    (\A r \in Runs : pc[r] = "idle") /\ ~overlapped /\ faults = 0 =>
        streamed = row

\* However runs overlap, whichever page is cached last and whatever fails, an
\* event that stays listed is in the end stored and streamed at its newest
\* revision, unless the validator rejects that.
Converges ==
    \A k \in Keys :
        <>[](k \in Listed) =>
            <>[]([key |-> k, revision |-> revision[k]] \in Rejected
                 \/ (row[k] = revision[k] /\ streamed[k] = revision[k]))

\* Every accepted event is published.
StoredIsStreamed ==
    \A k \in Keys : row[k] > 0 ~> streamed[k] > 0
=============================================================================
