--------------------------- MODULE IngestionProofs ---------------------------
(***************************************************************************)
(* Proofs about Ingestion, for every number of runs and events and every   *)
(* bound: its type invariant, and that the stream only ever carries events *)
(* that have a committed row.                                              *)
(***************************************************************************)
EXTENDS Ingestion, TLAPS

\* What a run is about to publish is in the table.
PublishesStored ==
    \A r \in Runs : pc[r] = "publish" => \A e \in batch[r] : row[e.key] > 0

IInv == TypeOK /\ PublishesStored /\ StreamedIsStored

\* The page shows events at revisions the source has given them.
LEMMA PageType == TypeOK => Page \subseteq Event
<1>1. SUFFICES ASSUME TypeOK, NEW k \in Keys, revision[k] > 0
               PROVE  [key |-> k, revision |-> revision[k]] \in Event
  BY DEF Page, Listed
<1>2. revision[k] \in Revisions
  BY <1>1 DEF TypeOK
<1>3. revision[k] \in 1..MaxRevision
  BY <1>1, <1>2, IngestionAssumption DEF Revisions
<1>4. QED
  BY <1>3 DEF Event

\* What a commit leaves in the rows: the batch's events at their revisions,
\* every other row as it was.
LEMMA CommitRow ==
    ASSUME TypeOK, NEW r \in Runs, Commit(r)
    PROVE  /\ row' \in [Keys -> Revisions]
           /\ \A k \in Keys : row[k] > 0 => row'[k] > 0
           /\ \A e \in batch[r] : row'[e.key] > 0
<1> DEFINE chosen(k) == CHOOSE e \in batch[r] : e.key = k
<1>1. ASSUME NEW k \in Keys, k \in KeysOf(batch[r])
      PROVE  chosen(k).revision \in 1..MaxRevision
  <2>1. PICK e \in batch[r] : e.key = k
    BY <1>1 DEF KeysOf
  <2>2. chosen(k) \in batch[r]
    BY <2>1
  <2>3. chosen(k) \in Event
    BY <2>2 DEF TypeOK
  <2>4. QED
    BY <2>3 DEF Event
<1>2. \A k \in Keys : row'[k] = IF k \in KeysOf(batch[r]) THEN chosen(k).revision
                                ELSE row[k]
  BY DEF Commit
<1>3. \A k \in Keys : row[k] \in Revisions
  BY DEF TypeOK
<1>4. \A k \in Keys : row'[k] \in Revisions /\ (row[k] > 0 => row'[k] > 0)
  BY <1>1, <1>2, <1>3, IngestionAssumption DEF Revisions
<1>5. row' = [k \in Keys |-> IF k \in KeysOf(batch[r]) THEN chosen(k).revision
                             ELSE row[k]]
  BY DEF Commit
<1>6. row' \in [Keys -> Revisions]
  <2> HIDE DEF chosen
  <2> QED
    BY <1>2, <1>4, <1>5
<1>7. ASSUME NEW e \in batch[r]
      PROVE  row'[e.key] > 0
  <2>1. e.key \in Keys /\ e.key \in KeysOf(batch[r])
    BY <1>7 DEF TypeOK, Event, KeysOf
  <2>2. row'[e.key] = chosen(e.key).revision /\ chosen(e.key).revision \in 1..MaxRevision
    BY <2>1, <1>1, <1>2
  <2> HIDE DEF chosen
  <2> QED
    BY <2>2, IngestionAssumption
<1>8. QED
  BY <1>4, <1>6, <1>7

\* The type of what a run starts to store.
LEMMA StartStoringType ==
    ASSUME TypeOK, NEW r \in Runs, NEW page \in SUBSET Event, StartStoring(r, page)
    PROVE  /\ todo' \in [Runs -> SUBSET Event]
           /\ pc' \in [Runs -> {"idle", "request", "received", "store", "commit", "publish"}]
           /\ \A q \in Runs : pc'[q] = "publish" => pc[q] = "publish"
<1>1. pc' = [pc EXCEPT ![r] = "idle"] \/ pc' = [pc EXCEPT ![r] = "store"]
  BY DEF StartStoring
<1>2. todo' = [todo EXCEPT ![r] = page \ Rejected]
  BY DEF StartStoring
<1>3. QED
  BY <1>1, <1>2 DEF TypeOK

\* The type invariant holds initially.
LEMMA TypeInit == Init => TypeOK
<1>1. 0 \in Revisions /\ 1 \in 1..Attempts /\ 0 \in 0..MaxFaults
  BY IngestionAssumption DEF Revisions
<1>2. SUFFICES ASSUME Init
               PROVE  TypeOK
  OBVIOUS
<1>3. /\ revision \in [Keys -> Revisions] /\ gone \subseteq Keys
      /\ row \in [Keys -> Revisions] /\ streamed \in [Keys -> Revisions]
  BY <1>1, <1>2 DEF Init
<1>4. cache \subseteq SUBSET Event /\ \A p, q \in cache : p = q
  BY <1>2 DEF Init
<1>5. /\ pc \in [Runs -> {"idle", "request", "received", "store", "commit", "publish"}]
      /\ attempt \in [Runs -> 1..Attempts]
      /\ todo \in [Runs -> SUBSET Event] /\ batch \in [Runs -> SUBSET Event]
  BY <1>1, <1>2 DEF Init
<1>6. overlapped \in BOOLEAN /\ faults \in 0..MaxFaults
  BY <1>1, <1>2 DEF Init
<1>7. QED
  BY <1>3, <1>4, <1>5, <1>6 DEF TypeOK

\* Every step preserves the type invariant.
LEMMA TypeStep == TypeOK /\ [Next]_vars => TypeOK'
<1> SUFFICES ASSUME TypeOK, [Next]_vars
             PROVE  TypeOK'
  OBVIOUS
<1> USE IngestionAssumption
<1>1. ASSUME NEW k \in Keys, Revise(k)
      PROVE  TypeOK'
  BY <1>1 DEF Revise, TypeOK, Revisions, runVars
<1>2. ASSUME NEW k \in Keys, Delist(k)
      PROVE  TypeOK'
  BY <1>2 DEF Delist, TypeOK, Listed, runVars
<1>3. CASE CacheExpires
  BY <1>3 DEF CacheExpires, TypeOK, sourceVars, runVars
<1>4. ASSUME NEW r \in Runs, Begin(r)
      PROVE  TypeOK'
  <2>1. CASE \E page \in cache : StartStoring(r, page)
    <3>1. PICK page \in cache : StartStoring(r, page)
      BY <2>1
    <3>2. page \in SUBSET Event
      BY <3>1 DEF TypeOK
    <3>3. todo' \in [Runs -> SUBSET Event]
          /\ pc' \in [Runs -> {"idle", "request", "received", "store", "commit", "publish"}]
      BY <3>1, <3>2, StartStoringType
    <3>4. QED
      BY <1>4, <3>3 DEF Begin, TypeOK, sourceVars
  <2>2. CASE pc' = [pc EXCEPT ![r] = "request"] /\ UNCHANGED todo
    BY <1>4, <2>2 DEF Begin, TypeOK, sourceVars
  <2>3. QED
    BY <1>4, <2>1, <2>2 DEF Begin
<1>5. ASSUME NEW r \in Runs, Respond(r)
      PROVE  TypeOK'
  <2>1. Page \in SUBSET Event
    BY PageType
  <2>2. todo' \in [Runs -> SUBSET Event] /\ attempt' \in [Runs -> 1..Attempts]
    BY <1>5, <2>1 DEF Respond, TypeOK
  <2>3. QED
    BY <1>5, <2>2 DEF Respond, TypeOK, sourceVars
<1>6. ASSUME NEW r \in Runs, Receive(r)
      PROVE  TypeOK'
  <2>1. todo[r] \in SUBSET Event
    BY DEF TypeOK
  <2>2. todo' \in [Runs -> SUBSET Event]
        /\ pc' \in [Runs -> {"idle", "request", "received", "store", "commit", "publish"}]
    BY <1>6, <2>1, StartStoringType DEF Receive
  <2>3. cache' = {todo[r]} \/ cache' = cache
    BY <1>6 DEF Receive
  <2>4. QED
    BY <1>6, <2>1, <2>2, <2>3 DEF Receive, TypeOK, sourceVars
<1>7. ASSUME NEW r \in Runs, RequestFails(r)
      PROVE  TypeOK'
  <2>1. CASE attempt[r] < Attempts /\ attempt' = [attempt EXCEPT ![r] = @ + 1]
             /\ UNCHANGED <<pc, todo, batch>>
    BY <1>7, <2>1 DEF RequestFails, Fail, TypeOK, sourceVars
  <2>2. CASE EndRun(r) /\ attempt' = [attempt EXCEPT ![r] = 1]
    BY <1>7, <2>2 DEF RequestFails, Fail, EndRun, TypeOK, sourceVars
  <2>3. QED
    BY <1>7, <2>1, <2>2 DEF RequestFails
<1>8. ASSUME NEW r \in Runs, Upsert(r)
      PROVE  TypeOK'
  <2>1. PICK b \in SUBSET todo[r] : /\ batch' = [batch EXCEPT ![r] = b]
                                    /\ todo' = [todo EXCEPT ![r] = @ \ b]
    BY <1>8 DEF Upsert
  <2>2. b \in SUBSET Event
    BY <2>1 DEF TypeOK
  <2>3. QED
    BY <1>8, <2>1, <2>2 DEF Upsert, TypeOK, sourceVars
<1>9. ASSUME NEW r \in Runs, BatchFails(r)
      PROVE  TypeOK'
  BY <1>9 DEF BatchFails, Fail, EndRun, TypeOK, sourceVars
<1>10. ASSUME NEW r \in Runs, Commit(r)
       PROVE  TypeOK'
  <2>1. row' \in [Keys -> Revisions]
    BY <1>10, CommitRow
  <2>2. QED
    BY <1>10, <2>1 DEF Commit, TypeOK, sourceVars
<1>11. ASSUME NEW r \in Runs, Xadd(r)
       PROVE  TypeOK'
  <2>1. PICK e \in batch[r] : /\ streamed' = [streamed EXCEPT ![e.key] = e.revision]
                              /\ Published(r, batch[r] \ {e})
    BY <1>11 DEF Xadd
  <2>2. e \in Event
    BY <2>1 DEF TypeOK
  <2>3. e.key \in Keys /\ e.revision \in Revisions
    BY <2>2 DEF Event, Revisions
  <2>4. QED
    BY <1>11, <2>1, <2>3 DEF Xadd, Published, TypeOK, sourceVars
<1>12. ASSUME NEW r \in Runs, PublishFails(r)
       PROVE  TypeOK'
  BY <1>12 DEF PublishFails, Published, Fail, TypeOK, sourceVars
<1>13. CASE Crash
  BY <1>13 DEF Crash, Fail, TypeOK, sourceVars
<1>14. CASE UNCHANGED vars
  BY <1>14 DEF vars, TypeOK, sourceVars, runVars
<1>15. QED
  BY <1>1, <1>2, <1>3, <1>4, <1>5, <1>6, <1>7, <1>8, <1>9, <1>10, <1>11, <1>12,
     <1>13, <1>14 DEF Next, RunStep

\* Every variable of Ingestion keeps the shape its declaration describes, for
\* any number of runs, events, revisions and failures.
THEOREM TypeCorrect == Spec => []TypeOK
<1> QED
  BY TypeInit, TypeStep, PTL DEF Spec

\* A step keeps what runs publish, and what the stream carries, in the table.
LEMMA StoredStep == IInv /\ [Next]_vars => (PublishesStored /\ StreamedIsStored)'
<1> SUFFICES ASSUME IInv, [Next]_vars
             PROVE  PublishesStored' /\ StreamedIsStored'
  OBVIOUS
<1>0. TypeOK /\ PublishesStored /\ StreamedIsStored
  BY DEF IInv
<1>e. \A q \in Runs : \A e \in batch[q] : e.key \in Keys
  BY <1>0 DEF TypeOK, Event
<1>a. ASSUME UNCHANGED <<row, streamed>>,
             \A q \in Runs : pc'[q] = "publish" =>
                               pc[q] = "publish" /\ batch'[q] \subseteq batch[q]
      PROVE  PublishesStored' /\ StreamedIsStored'
  BY <1>a, <1>0 DEF PublishesStored, StreamedIsStored
<1>1. ASSUME NEW k \in Keys, Revise(k) \/ Delist(k)
      PROVE  PublishesStored' /\ StreamedIsStored'
  BY <1>1, <1>a DEF Revise, Delist, runVars
<1>2. CASE CacheExpires
  BY <1>2, <1>a DEF CacheExpires, runVars
<1>3. ASSUME NEW r \in Runs, Begin(r)
      PROVE  PublishesStored' /\ StreamedIsStored'
  <2>1. \A q \in Runs : pc'[q] = "publish" => pc[q] = "publish"
    <3>1. CASE \E page \in cache : StartStoring(r, page)
      <4>1. PICK page \in cache : StartStoring(r, page)
        BY <3>1
      <4>2. page \in SUBSET Event
        BY <1>0, <4>1 DEF TypeOK
      <4>3. QED
        BY <1>0, <4>1, <4>2, StartStoringType
    <3>2. CASE pc' = [pc EXCEPT ![r] = "request"]
      BY <1>0, <3>2 DEF TypeOK
    <3>3. QED
      BY <1>3, <3>1, <3>2 DEF Begin
  <2>2. QED
    BY <1>3, <1>a, <2>1 DEF Begin
<1>4. ASSUME NEW r \in Runs, Respond(r)
      PROVE  PublishesStored' /\ StreamedIsStored'
  BY <1>4, <1>a, <1>0 DEF Respond, TypeOK
<1>5. ASSUME NEW r \in Runs, Receive(r)
      PROVE  PublishesStored' /\ StreamedIsStored'
  <2>1. todo[r] \in SUBSET Event
    BY <1>0 DEF TypeOK
  <2>2. \A q \in Runs : pc'[q] = "publish" => pc[q] = "publish"
    BY <1>0, <1>5, <2>1, StartStoringType DEF Receive
  <2>3. QED
    BY <1>5, <1>a, <2>2 DEF Receive
<1>6. ASSUME NEW r \in Runs, RequestFails(r) \/ BatchFails(r)
      PROVE  PublishesStored' /\ StreamedIsStored'
  <2>1. UNCHANGED <<pc, batch>> \/ EndRun(r)
    BY <1>6 DEF RequestFails, BatchFails
  <2>2. \A q \in Runs : pc'[q] = "publish" =>
                          pc[q] = "publish" /\ batch'[q] \subseteq batch[q]
    BY <1>0, <2>1 DEF EndRun, TypeOK
  <2>3. QED
    BY <1>6, <1>a, <2>2 DEF RequestFails, BatchFails
<1>7. ASSUME NEW r \in Runs, Upsert(r)
      PROVE  PublishesStored' /\ StreamedIsStored'
  <2>1. PICK b \in SUBSET todo[r] : batch' = [batch EXCEPT ![r] = b]
    BY <1>7 DEF Upsert
  <2>2. pc' = [pc EXCEPT ![r] = "commit"]
    BY <1>7 DEF Upsert
  <2>3. \A q \in Runs : pc'[q] = "publish" =>
                          pc[q] = "publish" /\ batch'[q] \subseteq batch[q]
    BY <1>0, <2>1, <2>2 DEF TypeOK
  <2>4. QED
    BY <1>7, <1>a, <2>3 DEF Upsert
<1>8. ASSUME NEW r \in Runs, Commit(r)
      PROVE  PublishesStored' /\ StreamedIsStored'
  <2>1. /\ \A k \in Keys : row[k] > 0 => row'[k] > 0
        /\ \A e \in batch[r] : row'[e.key] > 0
    BY <1>0, <1>8, CommitRow
  <2>2. pc' = [pc EXCEPT ![r] = "publish"] /\ batch' = batch /\ streamed' = streamed
    BY <1>8 DEF Commit
  <2>3. ASSUME NEW q \in Runs, pc'[q] = "publish", NEW e \in batch'[q]
        PROVE  row'[e.key] > 0
    <3>1. CASE q = r
      BY <2>1, <2>2, <2>3, <3>1
    <3>2. CASE q # r
      BY <1>0, <1>e, <2>1, <2>2, <2>3, <3>2 DEF PublishesStored, TypeOK
    <3>3. QED
      BY <3>1, <3>2
  <2>4. PublishesStored'
    BY <2>3 DEF PublishesStored
  <2>5. StreamedIsStored'
    BY <1>0, <2>1, <2>2 DEF StreamedIsStored
  <2>6. QED
    BY <2>4, <2>5
<1>9. ASSUME NEW r \in Runs, Xadd(r)
      PROVE  PublishesStored' /\ StreamedIsStored'
  <2>1. PICK e \in batch[r] : /\ streamed' = [streamed EXCEPT ![e.key] = e.revision]
                              /\ Published(r, batch[r] \ {e})
    BY <1>9 DEF Xadd
  <2>2. row' = row /\ pc[r] = "publish" /\ row[e.key] > 0
    BY <1>0, <1>9, <2>1 DEF Xadd, PublishesStored
  <2>3. \A q \in Runs : pc'[q] = "publish" =>
                          pc[q] = "publish" /\ batch'[q] \subseteq batch[q]
    BY <1>0, <2>1, <2>2 DEF Published, TypeOK
  <2>4. PublishesStored'
    BY <1>0, <2>2, <2>3 DEF PublishesStored
  <2>5. StreamedIsStored'
    BY <1>0, <2>1, <2>2 DEF StreamedIsStored, TypeOK
  <2>6. QED
    BY <2>4, <2>5
<1>10. ASSUME NEW r \in Runs, PublishFails(r)
       PROVE  PublishesStored' /\ StreamedIsStored'
  BY <1>10, <1>a, <1>0 DEF PublishFails, Published, TypeOK
<1>11. CASE Crash
  BY <1>11, <1>a DEF Crash
<1>12. CASE UNCHANGED vars
  BY <1>12, <1>a DEF vars, runVars
<1>13. QED
  BY <1>1, <1>2, <1>3, <1>4, <1>5, <1>6, <1>7, <1>8, <1>9, <1>10, <1>11, <1>12
  DEF Next, RunStep

\* Whatever overlaps, fails or crashes, an event on hazard:events has a row.
THEOREM StreamCarriesStored == Spec => []StreamedIsStored
<1>1. Init => IInv
  BY TypeInit DEF Init, IInv, PublishesStored, StreamedIsStored
<1>2. IInv /\ [Next]_vars => IInv'
  BY TypeStep, StoredStep DEF IInv
<1>3. IInv => StreamedIsStored
  BY DEF IInv
<1>4. QED
  BY <1>1, <1>2, <1>3, PTL DEF Spec

-----------------------------------------------------------------------------
(***************************************************************************)
(* Without overlap and failure an idle source's stream shows its rows:     *)
(* what is stored but not streamed is still in the hands of the one run,   *)
(* in the revision of its row, because a page shows one revision of an     *)
(* event.                                                                  *)
(***************************************************************************)
OneRevision(S) == \A e, f \in S : e.key = f.key => e = f

PagesAgree ==
    /\ \A page \in cache : OneRevision(page)
    /\ \A r \in Runs : OneRevision(todo[r]) /\ OneRevision(batch[r])

OneRunAtATime == \A q, r \in Runs : pc[q] # "idle" /\ pc[r] # "idle" => q = r

PublishesRows ==
    \A r \in Runs : pc[r] = "publish" => \A e \in batch[r] : row[e.key] = e.revision

MissingIsInHand ==
    \A k \in Keys :
        streamed[k] = row[k] \/ \E r \in Runs : pc[r] = "publish" /\ k \in KeysOf(batch[r])

Quiet == ~overlapped /\ faults = 0

QuietInv == Quiet => OneRunAtATime /\ PublishesRows /\ MissingIsInHand

\* No step makes a page, or what a run holds of it, show two revisions of an event.
LEMMA PagesStep == TypeOK /\ PagesAgree /\ [Next]_vars => PagesAgree'
<1> SUFFICES ASSUME TypeOK, PagesAgree, [Next]_vars
             PROVE  PagesAgree'
  OBVIOUS
<1>a. ASSUME NEW S, NEW T \in SUBSET S, OneRevision(S)
      PROVE  OneRevision(T)
  BY <1>a DEF OneRevision
<1>b. OneRevision({}) /\ OneRevision(Page)
  BY DEF OneRevision, Page
<1>c. ASSUME \A page \in cache' : page \in cache \/ page = {} \/ \E r \in Runs : page = todo[r],
             \A r \in Runs : \/ todo'[r] \subseteq todo[r]
                             \/ todo'[r] = Page
                             \/ \E page \in cache : todo'[r] \subseteq page,
             \A r \in Runs : batch'[r] \subseteq batch[r] \/ batch'[r] \subseteq todo[r]
      PROVE  PagesAgree'
  <2>1. \A page \in cache' : OneRevision(page)
    BY <1>b, <1>c DEF PagesAgree
  <2>2. ASSUME NEW r \in Runs PROVE OneRevision(todo'[r]) /\ OneRevision(batch'[r])
    BY <1>a, <1>b, <1>c DEF PagesAgree
  <2>3. QED
    BY <2>1, <2>2 DEF PagesAgree
<1>1. CASE \/ CacheExpires \/ Crash \/ UNCHANGED vars
           \/ \E k \in Keys : Revise(k) \/ Delist(k)
           \/ \E r \in Runs : RequestFails(r) \/ BatchFails(r) \/ PublishFails(r) \/ Commit(r)
  <2>1. /\ cache' \subseteq cache
        /\ \A r \in Runs : todo'[r] \subseteq todo[r] /\ batch'[r] \subseteq batch[r]
    BY <1>1 DEF CacheExpires, Crash, Revise, Delist, RequestFails, BatchFails, PublishFails,
                Commit, Published, EndRun, TypeOK, vars, runVars
  <2>2. QED
    BY <2>1, <1>c
<1>2. ASSUME NEW r \in Runs, Begin(r)
      PROVE  PagesAgree'
  <2>1. UNCHANGED <<cache, batch>>
    BY <1>2 DEF Begin
  <2>2. \A q \in Runs : todo'[q] = todo[q] \/ \E page \in cache : todo'[q] \subseteq page
    BY <1>2 DEF Begin, StartStoring, TypeOK
  <2>3. QED
    BY <2>1, <2>2, <1>c
<1>3. ASSUME NEW r \in Runs, Respond(r)
      PROVE  PagesAgree'
  BY <1>3, <1>c DEF Respond, TypeOK
<1>4. ASSUME NEW r \in Runs, Receive(r)
      PROVE  PagesAgree'
  <2>1. /\ cache' = {todo[r]} \/ cache' = cache
        /\ batch' = batch /\ \A q \in Runs : todo'[q] \subseteq todo[q]
    BY <1>4 DEF Receive, StartStoring, TypeOK
  <2>2. QED
    BY <2>1, <1>c
<1>5. ASSUME NEW r \in Runs, Upsert(r)
      PROVE  PagesAgree'
  <2>1. PICK b \in SUBSET todo[r] : /\ batch' = [batch EXCEPT ![r] = b]
                                    /\ todo' = [todo EXCEPT ![r] = @ \ b]
    BY <1>5 DEF Upsert
  <2>2. cache' = cache /\ \A q \in Runs : /\ todo'[q] \subseteq todo[q]
                                          /\ batch'[q] \subseteq batch[q] \/ batch'[q] \subseteq todo[q]
    BY <1>5, <2>1 DEF Upsert, TypeOK
  <2>3. QED
    BY <2>2, <1>c
<1>6. ASSUME NEW r \in Runs, Xadd(r)
      PROVE  PagesAgree'
  <2>1. /\ UNCHANGED <<cache, todo>>
        /\ \A q \in Runs : batch'[q] \subseteq batch[q]
    BY <1>6 DEF Xadd, Published, TypeOK
  <2>2. QED
    BY <2>1, <1>c
<1>7. QED
  BY <1>1, <1>2, <1>3, <1>4, <1>5, <1>6 DEF Next, RunStep

\* A step that neither stores nor streams, and starts no run beside another.
LEMMA StillStep ==
  ASSUME QuietInv, Quiet, UNCHANGED <<row, streamed>>,
         \A q \in Runs : pc'[q] # "idle" => pc[q] # "idle" \/ \A r \in Runs : pc[r] = "idle",
         \A q, r \in Runs : pc'[q] # "idle" /\ pc[q] = "idle"
                              /\ pc'[r] # "idle" /\ pc[r] = "idle" => q = r,
         \A q \in Runs : (pc'[q] = "publish" <=> pc[q] = "publish"),
         \A q \in Runs : pc[q] = "publish" => batch'[q] = batch[q]
  PROVE  QuietInv'
<1>1. OneRunAtATime'
  BY DEF QuietInv, OneRunAtATime
<1>2. PublishesRows' /\ MissingIsInHand'
  BY DEF QuietInv, PublishesRows, MissingIsInHand
<1>3. QED
  BY <1>1, <1>2 DEF QuietInv

\* What a commit stores, its run streams next.
LEMMA CommitIsQuiet ==
  ASSUME NEW r \in Runs, TypeOK, PagesAgree, QuietInv, Quiet, Commit(r)
  PROVE  QuietInv'
<1>1. /\ row' = [k \in Keys |-> IF k \in KeysOf(batch[r])
                                THEN (CHOOSE e \in batch[r] : e.key = k).revision
                                ELSE row[k]]
      /\ pc' = [pc EXCEPT ![r] = "publish"] /\ pc[r] = "commit"
      /\ UNCHANGED <<batch, streamed>>
  BY DEF Commit
<1>2. OneRunAtATime /\ MissingIsInHand
  BY DEF QuietInv
<1>3. \A q \in Runs : pc'[q] = "publish" <=> q = r
  BY <1>1, <1>2 DEF OneRunAtATime, TypeOK
<1>4. OneRunAtATime'
  BY <1>1, <1>2 DEF OneRunAtATime, TypeOK
<1>5. ASSUME NEW e \in batch[r] PROVE row'[e.key] = e.revision
  <2>1. e.key \in Keys /\ e.key \in KeysOf(batch[r])
    BY DEF TypeOK, Event, KeysOf
  <2>2. (CHOOSE f \in batch[r] : f.key = e.key) = e
    BY DEF PagesAgree, OneRevision
  <2>3. QED
    BY <1>1, <2>1, <2>2
<1>6. PublishesRows'
  BY <1>1, <1>3, <1>5 DEF PublishesRows
<1>7. ASSUME NEW k \in Keys, k \notin KeysOf(batch[r]) PROVE streamed'[k] = row'[k]
  <2>1. streamed[k] = row[k]
    BY <1>1, <1>2, <1>7 DEF MissingIsInHand, OneRunAtATime
  <2>2. QED
    BY <1>1, <1>7, <2>1
<1>8. MissingIsInHand'
  BY <1>1, <1>3, <1>7 DEF MissingIsInHand
<1>9. QED
  BY <1>4, <1>6, <1>8 DEF QuietInv

\* One XADD brings one event of the stream to its row's revision.
LEMMA XaddIsQuiet ==
  ASSUME NEW r \in Runs, TypeOK, PagesAgree, QuietInv, Quiet, Xadd(r)
  PROVE  QuietInv'
<1>1. PICK e \in batch[r] : /\ streamed' = [streamed EXCEPT ![e.key] = e.revision]
                            /\ Published(r, batch[r] \ {e})
  BY DEF Xadd
<1>2. row' = row /\ pc[r] = "publish" /\ OneRunAtATime /\ PublishesRows /\ MissingIsInHand
  BY DEF Xadd, QuietInv
<1>3. \A q \in Runs : pc[q] # "idle" => q = r
  BY <1>2 DEF OneRunAtATime
<1>4. /\ \A q \in Runs : pc'[q] # "idle" => q = r
      /\ batch'[r] = batch[r] \ {e}
      /\ batch'[r] # {} => pc'[r] = "publish"
  BY <1>1, <1>3 DEF Published, TypeOK
<1>5. OneRunAtATime'
  BY <1>4 DEF OneRunAtATime
<1>6. PublishesRows'
  BY <1>2, <1>4 DEF PublishesRows
<1>7. ASSUME NEW k \in Keys
      PROVE  streamed'[k] = row'[k] \/ (pc'[r] = "publish" /\ k \in KeysOf(batch'[r]))
  <2>1. CASE k = e.key
    BY <1>1, <1>2, <2>1 DEF PublishesRows, TypeOK
  <2>2. CASE k # e.key /\ streamed[k] = row[k]
    BY <1>1, <1>2, <2>2 DEF TypeOK
  <2>3. CASE k # e.key /\ streamed[k] # row[k]
    <3>1. k \in KeysOf(batch[r])
      BY <1>2, <1>3, <2>3 DEF MissingIsInHand
    <3>2. k \in KeysOf(batch'[r])
      BY <1>4, <2>3, <3>1 DEF KeysOf
    <3>3. QED
      BY <1>4, <3>2 DEF KeysOf
  <2>4. QED
    BY <2>1, <2>2, <2>3
<1>8. QED
  BY <1>5, <1>6, <1>7 DEF QuietInv, MissingIsInHand

LEMMA QuietStep == TypeOK /\ PagesAgree /\ QuietInv /\ [Next]_vars => QuietInv'
<1> SUFFICES ASSUME TypeOK, PagesAgree, QuietInv, [Next]_vars, Quiet'
             PROVE  QuietInv'
  BY DEF QuietInv
<1>1. /\ ~\E r \in Runs : RequestFails(r) \/ BatchFails(r) \/ PublishFails(r)
      /\ ~Crash
  BY IngestionAssumption DEF RequestFails, BatchFails, PublishFails, Crash, Fail, Quiet, TypeOK
<1>2. ASSUME NEW r \in Runs, Begin(r)
      PROVE  QuietInv'
  <2>1. ~overlapped /\ \A q \in Runs : pc[q] = "idle"
    BY <1>2 DEF Begin, Quiet
  <2>2. Quiet /\ UNCHANGED <<row, streamed, batch>>
    BY <1>2, <2>1 DEF Begin, Quiet
  <2>3. pc'[r] # "publish" /\ \A q \in Runs \ {r} : pc'[q] = pc[q]
    BY <1>2 DEF Begin, StartStoring, TypeOK
  <2>4. QED
    BY <2>1, <2>2, <2>3, StillStep
<1>3. ASSUME NEW r \in Runs, Respond(r) \/ Receive(r) \/ Upsert(r)
      PROVE  QuietInv'
  <2>1. Quiet /\ UNCHANGED <<row, streamed>>
    BY <1>3 DEF Respond, Receive, Upsert, Quiet
  <2>2. /\ pc[r] \notin {"idle", "publish"} /\ pc'[r] # "publish"
        /\ \A q \in Runs \ {r} : pc'[q] = pc[q] /\ batch'[q] = batch[q]
    BY <1>3 DEF Respond, Receive, StartStoring, Upsert, TypeOK
  <2>3. QED
    BY <2>1, <2>2, StillStep
<1>4. ASSUME NEW r \in Runs, Commit(r) \/ Xadd(r)
      PROVE  QuietInv'
  <2>1. Quiet
    BY <1>4 DEF Commit, Xadd, Quiet
  <2>2. QED
    BY <1>4, <2>1, CommitIsQuiet, XaddIsQuiet
<1>5. CASE CacheExpires \/ UNCHANGED vars \/ \E k \in Keys : Revise(k) \/ Delist(k)
  <2>1. Quiet /\ UNCHANGED <<row, streamed, pc, batch>>
    BY <1>5 DEF CacheExpires, Revise, Delist, vars, runVars, Quiet
  <2>2. QED
    BY <2>1, StillStep
<1>6. QED
  BY <1>1, <1>2, <1>3, <1>4, <1>5 DEF Next, RunStep

\* Without overlap and failure, whatever the source revises and the cache keeps, a
\* finished run leaves the stream at the revisions of the rows (the commit of
\* each batch precedes its XADDs).
THEOREM QuietStreamAgrees == Spec => []StreamAgreesWithRows
<1>1. Init => PagesAgree /\ QuietInv
  BY DEF Init, PagesAgree, OneRevision, QuietInv, OneRunAtATime, PublishesRows, MissingIsInHand
<1>2. TypeOK /\ QuietInv => StreamAgreesWithRows
  <2> SUFFICES ASSUME TypeOK, QuietInv, Quiet, \A r \in Runs : pc[r] = "idle"
               PROVE  streamed = row
    BY DEF StreamAgreesWithRows, Quiet
  <2>1. \A k \in Keys : streamed[k] = row[k]
    BY DEF QuietInv, MissingIsInHand
  <2>2. QED
    BY <2>1 DEF TypeOK
<1>3. QED
  BY <1>1, <1>2, PagesStep, QuietStep, TypeCorrect, PTL DEF Spec
=============================================================================
