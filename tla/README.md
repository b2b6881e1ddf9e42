# ALERTIX-AI: specifications and proofs

ALERTIX-AI watches public hazard feeds, stores what they report, turns it into
alerts, and pushes alerts to a browser dashboard; citizens send SOS messages and
hazard reports. This directory holds TLA+ models of its core, the TLC
configurations that check them on small instances, and theorems that TLAPS
proves for every value of the constants.

## 1. The system

```
 public feeds            PostgreSQL                        browsers
     |                  ^    ^    ^                            ^
     v                  |    |    |                            |
 ingestion runs --------+    |    +------ FastAPI (SOS, reports, queries, /ws)
     |                       |                      ^
     | XADD hazard:events    |                      | pub/sub
     v                       |                      |
 Redis stream ----> processing workers ---> Redis side streams
                    (consumer group)        (priority, retry, dlq)
```

| Component | State it keeps | Operations | Interacts with | Hard behaviour | Correct when |
| --- | --- | --- | --- | --- | --- |
| Processing workers (`backend/app/processing`) | consumer group and pending list, dedupe keys, side streams, `alerts`, `processed_events`, `audit_log` | recover idle entries, read, claim, validate, route, alert, persist, fail, commit, acknowledge | ingestion by the stream; each other by the group and the keys; the API by the tables | replicas interleave, entries are taken over, a crash between key, commit and ack, one transaction shared by a batch | a dedupe window alerts at most once; an acknowledged event is recorded or on a failure stream; every entry is settled |
| Ingestion (`backend/app/ingestion`) | TTL page caches, `hazard_events`, source tables, legacy `events` | fetch with retries, parse, validate, drop duplicates, upsert, commit, publish | feeds by HTTP; workers by the stream | overlapping runs, stale pages, a failure between commit and publish, half-executed pipelines | a streamed event is stored; the tables agree; rows and stream catch up with the source |
| Scheduler and cron endpoints (`tasks/scheduler.py`, `api/internal_ingest.py`) | none | start ingestion and LLM runs by intervals, in production by cron only (`scheduler.py:96-98`) | ingestion, LLM worker | a timer and a cron call, or two cron calls, overlap | runs may overlap safely |
| Parsers, validators, the upserts of the five services (`ingestion/*/parser.py`, `validator.py`, `common/dedupe.py`) | three tables per source | parse, validate, drop duplicates, keep the latest bulletin, upsert in batches | the feeds; risk scoring by the stream | a page that repeats records, a failing url or batch | the tables agree, no batch names a row twice |
| Risk scoring (`processing/risk.py`) | none | validate an event, score it from its readings | payloads of the stream | overlapping bands, missing or impossible readings, a key claimed before validation | a worse event is neither scored milder nor discarded |
| LLM worker and provider ladder (`tasks/llm_worker.py`, `llm/provider.py`) | `alerts.explanation*` | explain pending alerts in batches, fall back along the providers | database, LLM services | none that is reachable: no alert is ever pending (section 7) | - |
| SOS (`api/sos.py`) | `sos_reports`, `audit_log` | submit, enrich in the background, list, delete | LLM ladder, geocoder | enrichment after deletion, lost at a restart | user locations are kept, untriaged reports stay visible |
| Citizen reports (`citizen/service.py`) | `citizen_reports`, `user_reputation`, `audit_log` | report, verify | officials and citizens at once | two officials decide one report; check-then-insert of duplicates | reputation and status follow the decisions |
| Auth (`api/auth.py`) | `profiles`, failure counter and lockout in Redis | signup, login, logout, ticket | Redis, database | two keys, many calls, concurrent logins | wrong passwords run into the lockout |
| Alert push (`ws/alerts.py`) and its client (`frontend/src/lib/ws.ts`) | connections, subscription task; socket, timers, flags | connect, broadcast, disconnect; connect, reconnect, subscribe | Redis pub/sub | a subscription that dies, late close events, an awaited ticket | a subscribed client is, eventually, connected once |
| Uploads, damage (`storage.py`, `api/damage.py`) | object store, `uploads`, `damage_results` | store by content hash, classify, serve | database | two equal uploads at once, an object that outlives its transaction | every row and answer has its bytes |
| Sentinel, prediction, event queries, AI briefings (`api/sentinel.py`, `predict.py`, `events.py`, `ai.py`) | none of their own | requests of several SELECTs each | table `events`, revised by ingestion | SELECTs that see different moments, LIMITs before and after ranking | what stands while a request runs is answered |
| Offline queue (`frontend/src/lib/offline.ts`) | `localStorage` | queue, sync | nothing calls them | - | - |

`PROJECT.json` lists every component with the reason for what is left out, and
under `hazards` the places where the code is hard to test.

## 2. The modules

| Module | Models | Kind |
| --- | --- | --- |
| `AlertLedger` | what the pipeline promises about alerts | abstract specification |
| `ProcessingWorkers` | the worker loop and `process_event` | detailed specification and its properties |
| `MCProcessing` | small instances | model checking |
| `ProcessingWorkersProofs` | type correctness; the claim invariant and what follows from it | proofs |
| `PipelineProofs` | `ProcessingWorkers` implements `AlertLedger`, batches are atomic, nothing unhandled is acknowledged, undisturbed workers lose nothing | proofs |
| `Ingestion` | the ingestion runs of one source | detailed specification and its properties |
| `MCIngestion` | small instances | model checking |
| `IngestionProofs` | type correctness, no streamed event without a row, stream and rows agree after quiet runs | proofs |
| `LiveAlerts` | the WebSocket server of one channel and the client in each page | detailed specification and its properties |
| `MCLiveAlerts` | small instances | model checking |
| `LiveAlertsProofs` | the client's and the server's inductive invariants | proofs |
| `CitizenReports`, `SosReports`, `Uploads`, `Accounts` | one request handler or job each, with its concurrent requests, failures and restarts | detailed specifications and their properties |
| `Sources` | what each ingestion service makes of its pages | detailed specification and its property |
| `RiskScoring` | from a stored event to its tier or the dead letters; extends `Sources` | detailed specification and its properties |
| `EventTable`, `Prediction`, `Sentinel` | the table `events`, and the endpoints as functions of what their SELECTs read | pure algorithms |
| `EventQueries` | requests that read the table while sources revise it; extends the three | detailed specification and its properties |
| `MCHandlers`, `MCScoring` | small instances of the modules above | model checking |
| `CitizenReportsProofs` | types and safety of the reports and of reputation | proofs |
| `HandlersProofs` | types and safety of uploads, SOS reports and logins | proofs |
| `ScoringProofs` | the tables agree, scoring refines the runs, worse is never milder | proofs |
| `EventQueriesProofs` | what stands is answered, the threats are the top, cascades lead forward | proofs |

### ProcessingWorkers

| Specification | Code |
| --- | --- |
| `stream`, `trimmed` | the stream `hazard:events`; an entry is named by its position, MAXLEN ~ trims a prefix |
| `lastDelivered`, `pending`, `idle` | the consumer group: last-delivered id, pending entries list, the entries idle for `redis_stream_pending_idle_ms` |
| `seen`, `window` | the keys `processing:dedupe:*`; `window` counts how often a key was set and is history only |
| `priority`, `retry`, `dlq` | the three side streams |
| `alerts`, `audits`, `rows` | committed rows of `alerts`, `audit_log`, `processed_events` |
| `txnAlerts`, `txnAudits`, `txnRows`, `aborted` | the session of `_dispatch_entries`: uncommitted rows, audit objects not yet flushed, PostgreSQL's aborted state |
| `pc`, `phase`, `todo`, `toAck`, `cur`, `state` | where a worker is: the loop, the rest of its batch, `ack_ids`, the event in `process_event` and its `ProcessingState` |

Each call that `process_event` makes on Redis or PostgreSQL is a step of its
own, because another worker, a crash or a failure may come in between:
`ClaimEvent` or `DropDuplicate` (the `SET NX`), `Reject` or `Route`, `EmitAlert`,
`PersistState` twice, and `Finish` inside the last step that handles an event.
`DedupeFails`, `RedisFails` and `StatementFails` are the `except Exception`
branch (retry stream, or dead-letter stream when `retry_count` is used up). It
does not roll the session back, so after a failed statement the session stays
`aborted`: later statements of the batch fail as well, and `commit()` either
raises (there are audit objects to flush: `CommitFails`) or is turned into a
ROLLBACK by PostgreSQL without an error (`Commit`). `Crash` may happen at any
step; it also stands for a Redis or PostgreSQL error that leaves the loop, such
as a failing `XACK` or a failing retry `XADD`.

An entry's payload is reduced to what the handlers branch on: dedupe key, tier,
validity, retry count. Every publisher in the repository writes `retry_count` 0;
the feeds with a used-up count exercise the branch of the handler that the
stream's format provides for.

Alerts are identified by the *claim* under which they were made (entry, key and
window), so that two alerts for one event in one dedupe window are two members of
`alerts`, as they are two rows in the table.

### Ingestion

| Specification | Code |
| --- | --- |
| `revision`, `gone` | the feed: the newest revision of each event, the events it no longer lists (outside `src/`, the environment) |
| `cache` | the client's `AsyncTTLCache`: the page of the one URL, if it has not expired |
| `row` | the committed revision of an event in `hazard_events`, the source table and `events`, which one transaction writes under one key |
| `streamed` | the revision of an event's last entry on `hazard:events` |
| `pc`, `attempt`, `todo`, `batch` | a run: idle, requesting (`retry_async`'s attempt), with an answer in hand, upserting, before its commit, publishing |
| `overlapped`, `faults` | history, and the bound on failures |

`Begin` is a timer of `tasks/scheduler.py` or a call of `api/internal_ingest.py`;
both may be at work at once, in one process, so the runs share the cache. A cached
page saves the request. `Respond` and `Receive` are apart because the source may
revise an event, and another run may fill the cache, while an answer is on its way.
`Upsert`, `Commit` and one `Xadd` per event follow; FIRMS repeats them per 500
events, every other source takes its page as one batch. `RequestFails` retries or
gives up, `BatchFails` rolls back and ends the run, `PublishFails` is logged and the
run goes on. A source that needs several requests (FIRMS, cyclone, weather) is one
`Respond`: a failure of any of them ends its run before anything is stored.
Each event occurs once on a page: what `unique_by_source_event_id` ensures.

### LiveAlerts

| Specification | Code |
| --- | --- |
| `handlers`, `destroyed`, `status`, `ws`, `timer` | the fields of `AlertixWebSocket` (`timer`: is `reconnectTimer` armed) |
| `tickets` | calls of `connect()` that await `buildAuthedUrl()` |
| `ready`, `lost` | `readyState` of each socket; a connection that has ended although its close event is still to come |
| `up` | does the API process run |
| `endpoint`, `connections`, `task` | the coroutines `ws_alerts`, `ConnectionManager._connections`, `_pubsub_tasks` of the channel |
| `deaf`, `refused` | history: who was there when the subscription last ended, whose ticket request has failed |
| `drops`, `outages`, `errors` | the bounds on failures |

`Connect` is `connect()` up to its await; `TicketArrives` and `TicketRefused` are the
rest of it. `OnOpen`, `OnClose` and `TimerFires` are the callbacks, each one task of
the browser. `onerror` only closes the socket it belongs to, which the close event
follows anyway. On the server, `Arrive` (verify, `_ensure_pubsub`) and `Accept`
(`manager.connect`) are apart because `accept()` is awaited between them; `Receive`
and `SendFails` are the two places that notice a lost connection. `/ws/events` is the
same handler on another channel. A page opens a new socket only after the old one is
closed on both ends or under a fresh name, so two names suffice for what overlaps.
`reconnect()` has no caller and is left out. Nothing in the repository publishes to
`alerts:new` or `events:*`, so the model has no message: it says who would get one.

### CitizenReports, SosReports, Uploads, Accounts

A request or job is a record of the step it is at and of what it has read; each
`await` on PostgreSQL, Redis or another service is a step.

| Specification | Code |
| --- | --- |
| `filing`, `deciding` | requests of `create_report` and `verify_report`: `AuthorTier`, `CheckDuplicate`, `InsertReport`; `LockReport` and `LockReputation` (the row locks of the two UPDATEs), `Decide` |
| `status`, `score`, `counts`, `audit` | `citizen_reports.status`, `user_reputation`, the verdicts of `audit_log` |
| `recent`, `automatic`, `overlapped` | reports of the last 30 minutes; history: verified as filed, requests that were under way together |
| `request`, `sosRow`, `sosAudited`, `task` | `submit_sos` with its two commits, `sos_reports`, the background task: `GeocodeSos`, `TriageSos`, `WriteBackSos` |
| `segment`, `objects`, `uploads`, `results` | `segment_damage` and `UploadStorage.store`: `LookUp`, `WriteObject`, `InsertUpload`, then `Classify`/`InsertResult`, `NoModel` or `RejectImage`; the bucket or disk; `uploads`, `damage_results` |
| `attempts`, `expires`, `lockout`, `login` | the two keys of an email in Redis, and which call of `login` or `signup` a request awaits |

`Decide` is the clamping UPDATE, the status, the counters and the audit entry of one
transaction. A verdict may be given again, and the other way round: the code
forbids neither. An SOS task is lost with the process (`RestartSos`), an UPDATE that
the database refuses ends it (`WriteBackSosFails`). The object of an upload stays
whatever becomes of its transaction, and `ON CONFLICT` waits for the other one.
`ImageAnswer` is the image endpoint, which joins `damage_results` with `uploads`:
without an assessment, or for somebody who is neither its owner nor an official, it
answers 404. Passwords and tokens are library code: a password is right or wrong.

### Sources, RiskScoring

A page is a sequence of records with the fields the parsers find, and a parser an
operator from a record to a normalized event (`ParseQuake` .. `ParseRainfall`):
which identifier it gets, which readings, what is dropped. `Accepted` is the
filter of a service (for cyclones `LatestByName` first), `ChunksOf` its batches,
`StoreChunk` the three upserts of a batch. `StoreAndPublish` puts on the stream
what `publish_hazard_events` does, which is the raw payload only.

| Specification | Code |
| --- | --- |
| `published` | the entries of `hazard:events` that no consumer has read |
| `claimed` | the keys `processing:dedupe:*` |
| `scored`, `deadLetters`, `retries` | what `process_event` made of an event: a tier, an entry of the dead letters, an entry of the retries |

`Consume` claims the event's key, and only then asks whether it validates
(`Validates`): an event of a claimed key is dropped, one without a usable place or,
for earthquakes, with a magnitude that is missing or outside 0 to 10 is a dead letter, although
the validator of the source lets magnitudes from -2 to 12 and missing ones pass, and
the others are scored. `ConsumeFails` is an exception on the way, before or after
the key is claimed. `ProcessingWorkers` has the same handler with its transactions
and its crashes; here its data count. Scores are integers in 1/397800000, which all divisors of
`score_event` divide, so that nothing is rounded.

### EventTable, Prediction, Sentinel, EventQueries

An endpoint is two operators: what its SELECTs find (`PredictRows`, `SentinelRows`,
`Selects`), and what it may answer from all it has read. `EventQueries` runs them:
each SELECT is a step, and `StoreEvent` may revise the table between two of them
(READ COMMITTED). Positions lie on one meridian in tenths of a degree, so that
distances are exact; what a trained model would score is any member of `Scores`.
`Rounded` is Python's `round`, where the code ranks or cuts by rounded numbers: threat
scores and the weights of cascades are thousandths. The event list has its bounding
box, hazard, times, limit and offset.

### Properties of the handlers

* `AuditExplains`: a report's status is its last audited verdict, an author's
  counters are the audited verdicts on the author's reports, however officials
  interleave and wherever a request fails.
* `TiersAreEarned`: whoever is trusted has three verified reports or more, whoever is
  blocked three rejected ones, although verdicts repeat and the score is clamped.
* `VerifiedOncePerIncident`: two reports of one incident are both verified as
  filed only if their requests overlapped. If they do, both are: the duplicate
  check takes no lock.
* `AuthorHasTheLastWord`: the enrichment brings no deleted report back and moves no
  report from the place its author gave.
* `AnsweredIsSeen`: an answered report is audited and in the officials' feed, until it
  is deleted or triaged below the feed's urgency. An answer of the language model that
  is no number fails the UPDATE: the report then stays visible as untriaged.
* `AnsweredIsTriaged`: every answered report is triaged, unless it is deleted, its
  UPDATE fails or the process restarts.
* `StoredHasBytes`: a row's path leads to bytes that were written, and the owner of an
  assessment and the officials can have its image (a private bucket says 410). No foreign key ties
  the assessment to the upload. A request that was told that no model is loaded (503)
  has its upload kept, and no assessment.
* `GuessesAreBounded`: between two moments at which an account's keys are
  cleared, no more wrong passwords are looked up than `MaxFailures` per
  concurrent request, plus the requests lost. The bound is reached: a request may
  delete late the counter that others are using already.

### Properties of the sources, the scores and the queries

* `TablesAgree`: the three tables tell the same story whichever urls and batches fail,
  and no batch names a row twice, which PostgreSQL would refuse. The exception is a
  gauge read twice in one minute at different instants: its event is replaced, its first
  reading stays in `river_gauges`, and may even be the later one of the two.
* `WorseIsNeverMilder`: of two earthquakes the stronger and shallower one, of two fires
  the more powerful and more certain one never gets the milder tier; and none that is at least as bad as a
  scored one is a dead letter, unless its magnitude is above 10.
* `DangerIsAlerted`: a flood at its danger level is alerted. It is not: finding 6.
* `StandingEventsAreSeen`: an event that stood while a request ran is in its answer: in a
  page of a list or its total, in the counts and maxima of a place, in a cluster of fires if it is
  dense enough, in the cell of a grid. A cell whose greatest magnitude is negative is
  excepted: magnitudes down to -2 are valid, and such an earthquake makes the cell's
  signal smaller than that of an empty one.
* `ThreatsAreTop`: an event is left out of the threats only for greater ones, or because
  500 newer ones exist.
* `CascadesPointForward`: the graph of cascades has no cycle and no loose node, and an
  edge is missing only for a stronger one.

### Properties of the live alerts

* `OneConnection`: a ticket request, an armed timer and a live socket exclude each
  other, per page, although `connect()` checks only for an *open* socket before its
  await. It relies on `subscribe` calling `connect()` for the first handler only and on
  `destroyed` never being reset, and would have to be looked at again if
  `reconnect()` got a caller.
* `StatusIsHonest`: the badge says connected exactly while the socket is open.
* `NewcomersAreBridged`: whoever registered after a Redis error has a running
  subscription. Whoever was there before stays deaf until somebody else connects.
* `UnsubscribedIsReleased`: after the last handler has left, the page ends without
  socket and timer, and the server forgets it, also if a ticket was awaited.
* `LiveUnlessRefused`: through lost connections and restarts, a page on which
  somebody listens ends up connected, if no ticket request failed and its client was
  not destroyed before.
* `SubscribedIsLive`: the same without the two conditions. Finding 5. Without any
  failure it does not hold either when a page unsubscribes and subscribes again
  (leaving the Alerts tab and coming back, or React's StrictMode in development),
  because `destroyed` is never reset.

### Properties of the ingestion

* `StreamedIsStored`: whatever overlaps and fails, an event on the stream has a row.
* `StreamAgreesWithRows`: without overlap and failures, an idle source's stream and
  rows show the same revisions. With overlap they need not: two runs may commit in
  one order and publish in the other, until the next run.
* `Converges`: overlap, stale cached pages, a late answer cached last, failures and
  crashes notwithstanding, an event that stays listed ends up stored and streamed at
  its newest revision.
* `StoredIsStreamed`: a stored event is streamed. It is not: finding 4.

### Properties of the processing workers

* `OneAlertPerWindow`: a dedupe window of a key yields at most one alert.
* `ExclusiveClaims`: no two workers are inside `process_event`, or a
  transaction, for the same claim.
* `FailureExcludesAlert`: a claim on a failure stream has no alert.
* `BatchIsAtomic`: alerts, audit rows and `processed_events` agree, and no row
  shows the intermediate state `ALERTED`.
* `AckedWasHandled`: an acknowledged entry's key was claimed, or its failure
  recorded.
* `NoLostEvents`: an acknowledged valid event is recorded, on a failure stream,
  or still in a worker's hands. The code keeps this only while no worker crashes
  and no statement fails (`NoLostEventsUndisturbed`): see the findings.
* `EventuallySettled`: every entry is acknowledged or trimmed.
* `RetryIsProcessed`: an event on the retry stream is tried again. It is not.
* `ClaimInv` is the inductive invariant of the at-most-once proofs;
  `LedgerSpec` is the refinement of `AlertLedger` (a claim is handed out once per
  window and ends in an alert or in a failure record, never both, never twice).

## 3. The runs

| Run | Instance | Shows |
| --- | --- | --- |
| `crash_recovery` | 2 workers, 2 entries, 2 keys, one event republished with another tier, 2 windows, 1 crash | at-most-once alerts through crash, takeover, redelivery and expiry |
| `failed_statements` | 2 workers, 3 entries, rejected and exhausted events, 1 fault | failure and alert exclude each other, the batch commits as a whole, refinement of `AlertLedger`; until the fault, takeover of a slow worker's entries loses nothing |
| `survivor` | 2 workers, 2 entries, MAXLEN 1, 1 crash, fairness | every entry is settled although a worker may stay down |
| `crash_loses_event` (violation) | 1 crash | finding 1 |
| `poisoned_batch` (violation) | 1 fault | finding 2 |
| `retry_never_read` (violation) | 1 fault, fairness | finding 3 |
| `ingestion_runs` | 2 runs, 2 events, 2 revisions, one of them rejected, batches of 1, 2 attempts, 2 faults, fairness | nothing is streamed without its row; rows and stream converge |
| `lost_publication` (violation) | the page as one batch, 1 fault, fairness | finding 4 |
| `live_alerts` | 1 page, 2 sockets, 2 handlers, 2 drops, 2 restarts, 2 Redis errors, fairness | one connection, honest status, nothing left behind, reconnection |
| `ticket_refused` (violation) | 1 handler, 1 restart, fairness | finding 5 |
| `handlers` | the modules of handlers, sources and queries, see below; fairness | all their properties but one |
| `danger_unalerted` (violation) | 2 pages of one river, 2 runs | finding 6 |

Bounds. Two workers are enough for every race of the code: a claim, an entry and
a key are contended by pairs. Two or three entries with a batch size of 2 give
batches with two events, an event in two batches, and a second batch behind a
full one; `MaxWindows` 2 lets a key expire between two claims; one crash or fault
can fall anywhere. `MaxRetries` is 1 instead of 5 and `StreamMaxLen` 1 to 3
instead of 250000 so that both limits are met.

Two ingestion runs are enough for a stale page to meet a newer one in the cache, in
the table and on the stream; two faults let a request use up its attempts, and let
a failure meet a crash. `ingestion_runs` joins the cache of USGS, flood and cyclone
with the batches of FIRMS, so that both are exercised in one instance.

Pages share nothing but the subscription task, so one page with two sockets shows
every race of a client with itself, and its second socket is the newcomer that
revives the task; the proofs hold for any number of pages. Two of each failure let
one hit what the recovery from the other has just built.

`MCHandlers` puts the handlers that share no state in one model: a behaviour is one of
theirs, chosen by `part`, while the others keep their initial state, so that its
states are the sum of theirs. Its bounds:

* reports: two reports of one incident, or one without a session, and two
  requests of officials; two audited verdicts are enough for a report to be
  decided twice, for two officials to be at one report or one author at once, and
  for the scores to be clamped, as the authors start one verdict from a tier's border;
* SOS: two reports, with and without session, place and readable text, one restart;
* uploads: three requests for an image and a text under two names, so that equal
  contents meet with unequal suffixes;
* logins: two requests, a lockout after two failures instead of five, one lost request
  (three requests have been tried as well: 2.3 million states, no violation);
* sources: nine visits, two of them in a row, each with what its parser has to drop,
  repeat or repair; gauges with and without a date in one minute; batches of two for
  the 500 of FIRMS; earthquakes with a magnitude below 0, above 10 and none, so that dead
  letters meet scored events; one failing consumer (`MaxRetries`);
* queries: eight revisions of seven events in any order, any of which may come while a
  request runs, one of them of negative magnitude; the limits are between 1 and 6 so that
  all are met, and one list is a second page between two times.

Fairness of `ProcessingWorkers`: a live worker keeps stepping (`while True` in
`run_processing_worker`) and time passes (`BecomeIdle`). Nothing restarts a
worker that died: `docker-compose.yml` gives the service no restart policy, so
`Start` has no fairness, nor have publishing, expiry, faults and crashes.
Fairness of `Ingestion`: a run keeps stepping (awaits with timeouts), the timer or
cron begins the next one, and a cached page expires after its 20 or 120 seconds. The
source and the failures have none.
Fairness of `LiveAlerts`: the browser delivers events and timers, the server's
coroutines run on, and the host starts the API process again (Render, `docs/runbook.md:52`; a ticket
request gets an answer or an error). Users, drops, restarts and Redis errors have none.
Fairness of `SosReports`: the event loop runs every task that was added. Nothing
else of the handlers is fair: requests come or not, providers answer or not.

## 4. Findings

1. `crash_loses_event`: the dedupe key is set before the transaction commits.
   When a worker dies in between, XAUTOCLAIM does hand its entries to another
   worker, which drops them as duplicates and acknowledges them. The event comes
   back only if its source still lists it a day later. `docs/deployment.md:33`
   says crashed workers' entries are recovered.
2. `poisoned_batch`: a failed SQL statement aborts the PostgreSQL transaction
   that the batch shares. The failed event goes to the retry stream, the events
   before it are rolled back and acknowledged all the same.
3. `retry_never_read`: nothing reads `hazard:events:retry`; `docs/technical.md:24`
   says failures enter retry with exponential backoff.
4. `lost_publication`: publication follows the commit and its failure is only
   logged; no later step looks for stored events that were never streamed. If the
   source no longer lists the event at the next run, the workers never see it.
   `docs/ingestion-architecture.md:5` says every accepted event is published.
5. `ticket_refused`: `connect()` takes a missing ticket for a missing session and
   gives up, but `getWsTicket` also returns null when the request itself fails. A
   restart of the server that outlasts the first reconnect delay thus ends live
   alerts for good, while `ws.ts:53` says that the page redirects to the login then.

6. `danger_unalerted`: the levels of a gauge are only in `normalized_payload`, the
   stream carries `raw_payload`, and the consumer copies it. So every gauge scores
   0.25, LOW, and none is alerted, while `docs/architecture.md:11` says that alerts are
   created when severity thresholds are crossed.

## 5. The proofs

Every invariant that a run checks is also a theorem, for all values of the constants
that the named assumptions admit.

`ProcessingWorkersProofs` proves `TypeOK`, one lemma per action, and then `ClaimInv`.
`OneAlertPerWindow` is not inductive by
itself: that a commit adds no second alert depends on what open transactions
hold, so the invariant also says that every claim held, alerted or failed was
handed out by a `SET NX` (`ClaimsWereMade`, so a fresh claim differs from all of
them), that held claims are not alerted, that failed claims survive only in a
transaction that can no longer commit (`HeldClaimsAreOpen`), and what the worker's
control state says about the claim in hand (`InHandShape`).
`PipelineProofs` proves four more theorems from it. `Spec => LedgerSpec`: a commit is
`RecordAlerts`, a claim is `OpenWindow`, a failure is `RecordFailure`, every other
step stutters. `BatchIsAtomic` needs `SessionOK`: what an open transaction has written
agrees with itself, but for the event in hand, or the transaction is aborted.
`AckedWasHandled` needs `HandledInv`: what a worker is about to acknowledge is handled,
because a key in Redis has been claimed and the event in hand carries its own entry's
key; and `XREADGROUP` moves the group's pointer only past trimmed entries and past
those it delivers, since the oldest entries of a set are an initial part of it.
`NoLostEventsUndisturbed` needs `KeptInv`: while nothing crashed or failed, every key that
was claimed is recorded, on a failure stream or in some worker's hands
(`ClaimedIsKept`), where "in hands" survives the commit because the session is not
aborted and has a row of the event in hand once that is STORED (`SessionKeeps`); and a
failure record has the key of the entry it names. An acknowledged entry was handled by
`HandledInv`, so its key was claimed or has a failure record. The assumptions are `ConstantsAssumption`; the sets of workers and
keys and all bounds are arbitrary.

`IngestionProofs` proves `TypeOK` and `StreamedIsStored` of `Ingestion` from
`IngestionAssumption`. The second needs `PublishesStored`: whatever a run still has to
publish is in the table, because only `Commit` makes a run publish and no step
deletes a row. It also proves `StreamAgreesWithRows` from `PagesAgree` (a page, and what
a run holds of it, shows one revision of an event) and `QuietInv`: until runs overlap
or something fails, one run at most is at work, what it publishes is in the rows at
that revision, and an event whose entry is older than its row is still in its hands.

`LiveAlertsProofs` proves `TypeOK`, `OneConnection`, `StatusIsHonest` and
`NewcomersAreBridged` of `LiveAlerts` from `LiveAlertsAssumption`. `OneConnection` needs
to know why a subscription finds nothing under way (`IdleUntilSubscribed`: before the
first handler there is no ticket, timer or socket), why a late close event starts
nothing (`DestroyedIsReleased`: a destroyed client has let go, and only it closes
sockets), and that a close event is awaited by a socket that is not yet closed
(`LostIsNotClosed`). `NewcomersAreBridged` follows from `EndpointsAreBridged`: an
endpoint, and not only a registered connection, has a subscription, because it ensures
one before it awaits `accept()`.

`CitizenReportsProofs` proves `ReportsTypeOK`, `TiersAreEarned`, `VerifiedOncePerIncident` and
`AuditExplains`. Tiers follow from a bound of the score by the counters that clamping
keeps (`ScoresAreEarned`). That non-overlapping filings of one incident are not both
verified needs `UnseenOverlap`: a request that found no duplicate overlaps with every
report of the incident inserted since. The counters of an author are cardinalities of
the audited verdicts on the author's reports, so `CountInv` adds that those sets are finite,
although the set of reports need not be, and that a report that is not stored has no
audit: inserting it then changes no count, and one verdict changes one count by one.

`HandlersProofs` proves, from the assumption of each module:

* `UploadsTypeOK` and `StoredHasBytes`. An answer has its row only because of what the
  request relied on before (`ReliesOn`): the object it inserts is written, and a stored
  upload is a row, or its own to commit.
* `SosTypeOK`, `AuthorHasTheLastWord` and `AnsweredIsSeen`. The invariant says of each report
  what its request did (`RequestOK`), that its task still works on what the author said
  (`TaskOK`), and that the row is as inserted until the task is over (`RowOK`), because a
  task begins only after its request was answered.
* `AccountsTypeOK` and `GuessesAreBounded`. The bound holds because of `GuessInv`, which counts
  requests by the step they are at. With the lockout set, the guesses and the requests
  that have passed its check stay within the bound (`LockedBound`). Without it,
  the guesses are paid for by what is in the counter, by the requests that are about to
  count or to lock, and by one round short of the limit for each other request that is
  not about to delete the counter (`OpenBound`); and a request that will lock has counted
  to the limit (`LockingIsHigh`). The number of concurrent requests is finite but arbitrary.

`ScoringProofs` is about `Sources` and `RiskScoring`, from `SourcesAssumption`, which says
only what the fields of a record may be: pages are arbitrary sequences of records.

* `TablesAgree` needs `SourcesInv`: what a run carries, and every row of `hazard_events`,
  was parsed (`Parsed`), so its source gives its hazard; a revision is therefore
  kept in the same tables as what it replaces. That no batch names a row twice rests on
  lemmas about `Keep` (it takes elements from different positions, in order) and on a
  batch being a part of a list without repeated keys.
* `ScoringSpec => SourcesSpec`: publishing and scoring only watch the runs, so that whatever
  holds of the runs holds of the whole.
* `WorseIsNeverMilder`: every part of a score, its caps and bonuses, grows with the
  readings (`AtMostGrows`, `ShallowBonusGrows`, `ScoreQuakeGrows`, `ScoreWildfireGrows`), the tier grows
  with the score, and the invariant `ScoredInv` says that the tier of what was scored is
  that of its score, that the power of a fire in its payload is its intensity, and that
  what waits to be scored has passed its source's validator. So a dead letter that is
  no milder than a scored event has a point on the map, hence is an earthquake with a
  magnitude out of range (`RefusedQuakes`), and not below 0, because the scored one is not
  (`WorseIsNotRefused`).

`EventQueriesProofs` is about requests that read the table while it is revised, from
`EventTableAssumption`, `InquiriesAssumption` and `ScoresAssumption`. `QueryInv` says of a request
at work what each SELECT that is done has found of the rows that have stood since the
request began: all of them that match, or as many others as its LIMIT allows.
`JustifiedInv` keeps that for the last answer. `ThreatsAreTop`, `CascadesPointForward` and
`StandingEventsAreSeen` then follow for each endpoint from what its operator makes of
rows found so: cutting a ranked list leaves out only what is no greater, an edge leads
from an older event to a newer one, and counts, maxima and clusters of a table are
no less than those of a part of it.

Proving has corrected the specifications in two places. `TablesAgree` claimed that a row
of a source table without its event is older than the event; an induction step failed,
and with dated and undated gauges of one minute TLC shows that it may be newer.
`StandingEventsAreSeen` claimed that an earthquake never lowers the signal of its cell; the
proof asked for a magnitude of 0 or more, and with a negative one TLC shows why.

Only model-checked:

* everything under fairness (`EventuallySettled`, `Converges`, `UnsubscribedIsReleased`,
  `LiveUnlessRefused`, `AnsweredIsTriaged`), which is out of the prover's
  reach;
* what the five predictions score, beyond what `StandingEventsAreSeen` says of them; and the
  runs that expect a violation.

## 6. Plan

Done: the pipeline with its abstract ledger, ingestion, live alerts, the handlers of
the API, sources, scoring, queries, and the proofs above. What would come next:

1. a composition of `Ingestion` and `ProcessingWorkers`, to state that an event that stays
   listed is alerted even if a publication is lost, and which revision is alerted;
2. one key for a cyclone's wind: the ingestion writes `wind_speed_kmh`, the endpoints read
   `wind_kmh`, and the models of both sides would have to share the metadata;
3. theorems about single steps: a committed alert, an audited verdict and a stored
   object are never taken back.

## 7. Not modelled

* Browser offline queue and cache: alerts are cached, but nothing reads the cache; the only
  function that queues a report, `submitCitizenReport`, has no caller, nor has
  `syncQueuedCitizenReports`, which would overwrite what is queued while it awaits its
  requests. There is no behaviour to model, although the repository's `README.md:82` speaks of
  offline alert and report support.
* The worker of the LLM explanations: it takes the alerts whose `explanation_status` is
  'pending', but the only INSERT of alerts (`processing/consumers.py:121-126`) makes
  them 'generated' and nothing else creates one. Its batch transaction, which one failing row
  aborts, is therefore never entered; and in production the scheduler, its only caller,
  adds no job. The provider ladder is an answer, or none, in the modules that use it.
* Passwords, tokens, cookies, `logout`, `me`, `ws-ticket`: library code without state on the
  server.
* `api/alerts.py`: it reads `alerts` in the way `api/events.py` reads `events`. The
  endpoints of `internal_llm.py` and the attachment endpoint of SOS change no state.
* Training and weights of the models (they may score anything), segmentation networks,
  and `ml/aftershock_omori.py`, which only tests use.
* Parsing of texts, HTML and dates into fields; the fields found are the records of
  `Sources`.
* Database and Redis connections, configuration, logging, migrations, rendering. What a
  session's commit and rollback do is part of each module; constraints of the migrations
  appear as upserts and refusals.
* The metrics of `processing/metrics.py`: they change no decision.
* `HazardConsumer.run_forever` and `AlertixWebSocket.reconnect` have no caller.
  `Dockerfile.ingestion` starts `app.ingestion.workers.runner`, which defines a function and
  runs nothing, so ingestion is started by the scheduler or by cron only.
