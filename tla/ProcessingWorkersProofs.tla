---------------------- MODULE ProcessingWorkersProofs ----------------------
(***************************************************************************)
(* Proofs about ProcessingWorkers for every number of workers, keys and    *)
(* entries and every value of the bounds.                                  *)
(***************************************************************************)
EXTENDS ProcessingWorkers, TLAPS

USE DEF vars, groupVars, keyVars, sideVars, dbVars, batchVars, eventVars,
        sessionVars, boundVars, FreshSession

-----------------------------------------------------------------------------
(***************************************************************************)
(* Type correctness                                                        *)
(***************************************************************************)

LEMMA OldestIsSubset == ASSUME NEW S PROVE Oldest(S) \subseteq S
  BY DEF Oldest

LEMMA InitType == Init => TypeOK
  <1> SUFFICES ASSUME Init PROVE TypeOK
    OBVIOUS
  <1>1. stream \in Seq(Payload) /\ Len(stream) = 0
    BY DEF Init
  <1> QED
    BY <1>1, ConstantsAssumption DEF Init, TypeOK, Ids

LEMMA PublishType == TypeOK /\ Publish => TypeOK'
  <1> SUFFICES ASSUME TypeOK, Publish PROVE TypeOK'
    OBVIOUS
  <1>1. PICK p \in Feed : stream' = Append(stream, p)
    BY DEF Publish
  <1>2. p \in Payload
    BY ConstantsAssumption
  <1>3. stream' \in Seq(Payload) /\ Len(stream') = Len(stream) + 1
    BY <1>1, <1>2 DEF TypeOK
  <1>4. Len(stream) \in Nat /\ Len(stream') <= MaxEntries
    BY <1>3, ConstantsAssumption DEF TypeOK, Publish
  <1>5. Ids \subseteq Ids'
    BY <1>3, <1>4 DEF Ids
  <1> QED
    BY <1>3, <1>4, <1>5 DEF Publish, TypeOK

\* Opening a session for a batch of stream entries keeps the types of the
\* worker's variables.
LEMMA BeginBatchType ==
  ASSUME NEW w \in Workers, NEW batch \in SUBSET Ids,
         NEW from \in {"recover", "read"}, NEW next \in {"recover", "read"},
         TypeOK, BeginBatch(w, batch, from, next)
  PROVE  /\ phase' \in [Workers -> {"recover", "read"}]
         /\ todo' \in [Workers -> SUBSET Ids] /\ toAck' \in [Workers -> SUBSET Ids]
         /\ pc' \in [Workers -> {"down", "recover", "read", "event", "commit", "ack"}]
         /\ txnAlerts' \in [Workers -> SUBSET Claim]
         /\ txnAudits' \in [Workers -> SUBSET Claim]
         /\ txnRows' \in [Workers -> SUBSET Row]
         /\ aborted' \in [Workers -> BOOLEAN]
  BY DEF BeginBatch, TypeOK

LEMMA RecoverType == ASSUME NEW w \in Workers PROVE TypeOK /\ Recover(w) => TypeOK'
  <1> SUFFICES ASSUME TypeOK, Recover(w) PROVE TypeOK'
    OBVIOUS
  <1> DEFINE claimed == Oldest(idle)
             batch == {i \in claimed : i > trimmed}
  <1>1. claimed \subseteq idle
    BY OldestIsSubset
  <1>2. batch \in SUBSET Ids
    BY <1>1 DEF TypeOK
  <1>3. /\ BeginBatch(w, batch, "recover", "read")
        /\ idle' = idle \ claimed
        /\ pending' = pending \ {i \in claimed : i <= trimmed}
    BY DEF Recover
  <1>4. pending' \subseteq Ids /\ idle' \subseteq pending'
    BY <1>3 DEF TypeOK
  <1> HIDE DEF batch, claimed
  <1> QED
    BY <1>2, <1>3, <1>4, BeginBatchType DEF Recover, TypeOK, Ids

LEMMA ReadType == ASSUME NEW w \in Workers PROVE TypeOK /\ Read(w) => TypeOK'
  <1> SUFFICES ASSUME TypeOK, Read(w) PROVE TypeOK'
    OBVIOUS
  <1> DEFINE batch == Oldest(Undelivered)
  <1>1. batch \in SUBSET Ids
    BY OldestIsSubset DEF Undelivered
  <1>2. /\ BeginBatch(w, batch, "read", "recover")
        /\ pending' = pending \cup batch
        /\ lastDelivered' \in batch \cup {lastDelivered}
    BY DEF Read
  <1>3. lastDelivered' \in 0..Len(stream)
    BY <1>1, <1>2 DEF TypeOK, Ids
  <1> HIDE DEF batch
  <1>4. pending' \subseteq Ids /\ idle' \subseteq pending'
    BY <1>1, <1>2 DEF TypeOK, Read
  <1> QED
    BY <1>1, <1>2, <1>3, <1>4, BeginBatchType DEF Read, TypeOK, Ids

LEMMA ClaimType ==
  ASSUME NEW w \in Workers, NEW i \in todo[w], TypeOK
  PROVE  /\ i \in Ids /\ i \in Entries
         /\ stream[i] \in Payload
  <1>1. Len(stream) \in Nat
    BY DEF TypeOK
  <1> QED
    BY <1>1, ConstantsAssumption DEF TypeOK, Ids, Entries

\* Leaving process_event keeps the types of the worker's variables.
LEMMA FinishType ==
  ASSUME NEW w \in Workers, NEW i \in Ids, TypeOK, Finish(w, i)
  PROVE  /\ todo' \in [Workers -> SUBSET Ids] /\ toAck' \in [Workers -> SUBSET Ids]
         /\ cur' \in [Workers -> SUBSET Claim]
         /\ \A v \in Workers : \A d \in cur'[v] : d.entry \in Ids
         /\ state' \in [Workers -> {"NEW", "PROCESSING", "ROUTED", "ALERTED", "STORED"}]
         /\ pc' \in [Workers -> {"down", "recover", "read", "event", "commit", "ack"}]
         /\ phase' \in [Workers -> {"recover", "read"}]
  BY DEF Finish, TypeOK

LEMMA DropType ==
  ASSUME NEW w \in Workers, NEW i \in todo[w]
  PROVE  TypeOK /\ DropDuplicate(w, i) => TypeOK'
  BY ClaimType DEF DropDuplicate, Finish, TypeOK, Ids

LEMMA ClaimEventType ==
  ASSUME NEW w \in Workers, NEW i \in todo[w]
  PROVE  TypeOK /\ ClaimEvent(w, i) => TypeOK'
  <1> SUFFICES ASSUME TypeOK, ClaimEvent(w, i) PROVE TypeOK'
    OBVIOUS
  <1> DEFINE k == stream[i].key
             c == [entry |-> i, key |-> k, window |-> window[k] + 1]
  <1>1. k \in Keys /\ i \in Ids /\ i \in Entries
    BY ClaimType DEF Payload
  <1>2. window[k] + 1 \in 0..MaxWindows
    BY <1>1, ConstantsAssumption DEF TypeOK, ClaimEvent
  <1>3. c \in Claim
    BY <1>1, <1>2 DEF Claim
  <1> QED
    BY <1>1, <1>2, <1>3 DEF ClaimEvent, TypeOK, Ids

LEMMA RejectType ==
  ASSUME NEW w \in Workers, NEW c \in cur[w]
  PROVE  TypeOK /\ Reject(w, c) => TypeOK'
  BY DEF Reject, Finish, TypeOK, Ids

LEMMA RouteType ==
  ASSUME NEW w \in Workers, NEW c \in cur[w]
  PROVE  TypeOK /\ Route(w, c) => TypeOK'
  BY DEF Route, TypeOK, Ids

LEMMA EmitType ==
  ASSUME NEW w \in Workers, NEW c \in cur[w]
  PROVE  TypeOK /\ EmitAlert(w, c) => TypeOK'
  BY DEF EmitAlert, TypeOK, Ids

LEMMA PersistType ==
  ASSUME NEW w \in Workers, NEW c \in cur[w]
  PROVE  TypeOK /\ PersistState(w, c) => TypeOK'
  <1> SUFFICES ASSUME TypeOK, PersistState(w, c) PROVE TypeOK'
    OBVIOUS
  <1> DEFINE row == [key |-> c.key, entry |-> c.entry,
                     tier |-> stream[c.entry].tier, state |-> state[w]]
  <1>1. c \in Claim /\ c.entry \in Ids
    BY DEF TypeOK
  <1>10. stream[c.entry] \in Payload
    BY <1>1 DEF TypeOK, Ids
  <1>2. stream[c.entry].tier \in Tiers
    BY <1>10 DEF Payload
  <1>3. row \in Row
    BY <1>1, <1>2 DEF PersistState, Row, Claim
  <1>4. Upsert(txnRows[w], {row}) \in SUBSET Row
    BY <1>3 DEF Upsert, TypeOK
  <1>5. txnRows' = [txnRows EXCEPT ![w] = Upsert(@, {row})]
    BY DEF PersistState
  <1>6. txnRows' \in [Workers -> SUBSET Row]
    BY <1>4, <1>5 DEF TypeOK
  <1> HIDE DEF row
  <1>7. CASE state[w] = "ALERTED"
    BY <1>6, <1>7 DEF PersistState, TypeOK, Ids
  <1>8. CASE state[w] = "STORED"
    <2>1. Finish(w, c.entry)
      BY <1>8 DEF PersistState
    <2> QED
      BY <1>1, <1>6, <2>1, FinishType DEF PersistState, TypeOK, Ids
  <1> QED
    BY <1>7, <1>8 DEF PersistState

\* The except-Exception branch keeps types, whichever stream it writes to.
LEMMA MoveType ==
  ASSUME NEW w \in Workers, NEW c \in Claim, c.entry \in Ids, TypeOK,
         MoveToRetryOrDlq(w, c),
         priority' \subseteq Claim, aborted' \in [Workers -> BOOLEAN],
         crashes' \in 0..MaxCrashes, faults' \in 0..MaxFaults
  PROVE  TypeOK'
  BY DEF MoveToRetryOrDlq, Finish, TypeOK, Ids

LEMMA DedupeFailsType ==
  ASSUME NEW w \in Workers, NEW i \in todo[w]
  PROVE  TypeOK /\ DedupeFails(w, i) => TypeOK'
  <1> SUFFICES ASSUME TypeOK, DedupeFails(w, i) PROVE TypeOK'
    OBVIOUS
  <1> DEFINE c == [entry |-> i, key |-> stream[i].key, window |-> 0]
  <1>1. c \in Claim /\ c.entry \in Ids
    BY ClaimType, ConstantsAssumption DEF Payload, Claim
  <1>2. /\ MoveToRetryOrDlq(w, c) /\ priority' \subseteq Claim
        /\ aborted' \in [Workers -> BOOLEAN] /\ crashes' \in 0..MaxCrashes
        /\ faults' \in 0..MaxFaults
    BY ConstantsAssumption DEF DedupeFails, TypeOK
  <1> QED
    BY <1>1, <1>2, MoveType

LEMMA RedisFailsType ==
  ASSUME NEW w \in Workers, NEW c \in cur[w]
  PROVE  TypeOK /\ RedisFails(w, c) => TypeOK'
  <1> SUFFICES ASSUME TypeOK, RedisFails(w, c) PROVE TypeOK'
    OBVIOUS
  <1>1. c \in Claim /\ c.entry \in Ids
    BY DEF TypeOK
  <1>2. /\ MoveToRetryOrDlq(w, c) /\ priority' \subseteq Claim
        /\ aborted' \in [Workers -> BOOLEAN] /\ crashes' \in 0..MaxCrashes
        /\ faults' \in 0..MaxFaults
    BY <1>1, ConstantsAssumption DEF RedisFails, TypeOK
  <1> QED
    BY <1>1, <1>2, MoveType

LEMMA StatementFailsType ==
  ASSUME NEW w \in Workers, NEW c \in cur[w]
  PROVE  TypeOK /\ StatementFails(w, c) => TypeOK'
  <1> SUFFICES ASSUME TypeOK, StatementFails(w, c) PROVE TypeOK'
    OBVIOUS
  <1>1. c \in Claim /\ c.entry \in Ids
    BY DEF TypeOK
  <1>2. /\ MoveToRetryOrDlq(w, c) /\ priority' \subseteq Claim
        /\ aborted' \in [Workers -> BOOLEAN] /\ crashes' \in 0..MaxCrashes
        /\ faults' \in 0..MaxFaults
    BY ConstantsAssumption DEF StatementFails, TypeOK
  <1> QED
    BY <1>1, <1>2, MoveType

LEMMA CommitType == ASSUME NEW w \in Workers PROVE TypeOK /\ Commit(w) => TypeOK'
  <1> SUFFICES ASSUME TypeOK, Commit(w) PROVE TypeOK'
    OBVIOUS
  <1>1. Upsert(rows, txnRows[w]) \subseteq Row
    BY DEF Upsert, TypeOK
  <1>2. alerts' \subseteq Claim /\ audits' \subseteq Claim /\ rows' \subseteq Row
    BY <1>1 DEF Commit, TypeOK
  <1> QED
    BY <1>2 DEF Commit, TypeOK, Ids

LEMMA CommitFailsType ==
  ASSUME NEW w \in Workers PROVE TypeOK /\ CommitFails(w) => TypeOK'
  BY DEF CommitFails, Die, TypeOK, Ids

LEMMA AckType == ASSUME NEW w \in Workers PROVE TypeOK /\ Ack(w) => TypeOK'
  BY DEF Ack, TypeOK, Ids

LEMMA CrashType == ASSUME NEW w \in Workers PROVE TypeOK /\ Crash(w) => TypeOK'
  BY ConstantsAssumption DEF Crash, Die, TypeOK, Ids

LEMMA StartType == ASSUME NEW w \in Workers PROVE TypeOK /\ Start(w) => TypeOK'
  BY DEF Start, TypeOK, Ids

LEMMA WorkerType ==
  ASSUME NEW w \in Workers, TypeOK,
         WorkerStep(w) \/ Fault(w) \/ Crash(w) \/ Start(w)
  PROVE  TypeOK'
  BY RecoverType, ReadType, DropType, ClaimEventType, RejectType, RouteType,
     EmitType, PersistType, DedupeFailsType, RedisFailsType, StatementFailsType,
     CommitType, CommitFailsType, AckType, CrashType, StartType
  DEF WorkerStep, Fault

LEMMA NextType == TypeOK /\ [Next]_vars => TypeOK'
  <1> SUFFICES ASSUME TypeOK, [Next]_vars PROVE TypeOK'
    OBVIOUS
  <1>1. CASE Publish
    BY <1>1, PublishType
  <1>2. ASSUME NEW i \in Entries, BecomeIdle(i) PROVE TypeOK'
    BY <1>2 DEF BecomeIdle, TypeOK, Ids
  <1>3. ASSUME NEW k \in Keys, Expire(k) PROVE TypeOK'
    BY <1>3 DEF Expire, TypeOK, Ids
  <1>4. ASSUME NEW w \in Workers,
               WorkerStep(w) \/ Fault(w) \/ Crash(w) \/ Start(w)
        PROVE  TypeOK'
    BY <1>4, WorkerType
  <1>5. CASE UNCHANGED vars
    BY <1>5 DEF TypeOK, Ids
  <1> QED
    BY <1>1, <1>2, <1>3, <1>4, <1>5 DEF Next

\* Every reachable state is well typed, for any constants.
THEOREM TypeCorrect == Spec => []TypeOK
  BY InitType, NextType, PTL DEF Spec

-----------------------------------------------------------------------------
(***************************************************************************)
(* The at-most-once guarantees of the processing workers, for every number *)
(* of workers, crashes and faults: ClaimInv is inductive.                  *)
(*                                                                         *)
(* A step of worker w is of one of four kinds: it claims an event, it      *)
(* records a failure, it commits, or it only gives up claims it held.  One *)
(* lemma treats each kind.                                                 *)
(***************************************************************************)
\* Only worker w's claims change.
OnlyHolder(w) ==
    \A v \in Workers \ {w} :
        /\ cur'[v] = cur[v] /\ txnAlerts'[v] = txnAlerts[v]
        /\ aborted'[v] = aborted[v]

\* A step after which w holds no more than before keeps ClaimInv.
LEMMA GivingUpClaims ==
  ASSUME NEW w \in Workers, ClaimInv, OnlyHolder(w), InHandShape',
         alerts' = alerts, Failed' = Failed, window' = window,
         Held(w)' \subseteq Held(w), cur'[w] \subseteq cur[w],
         aborted[w] => (aborted'[w] \/ Held(w)' = {})
  PROVE  ClaimInv'
  <1>1. \A v \in Workers : /\ Held(v)' \subseteq Held(v)
                           /\ cur'[v] \subseteq cur[v]
                           /\ aborted[v] => (aborted'[v] \/ Held(v)' = {})
    BY DEF OnlyHolder, Held
  <1>2. ClaimsWereMade'
    BY <1>1 DEF ClaimInv, ClaimsWereMade
  <1>3. HeldClaimsAreOpen'
    BY <1>1 DEF ClaimInv, HeldClaimsAreOpen, SameClaim
  <1>4. OneAlertPerWindow' /\ FailureExcludesAlert'
    BY DEF ClaimInv, OneAlertPerWindow, FailureExcludesAlert, SameClaim
  <1>5. ExclusiveClaims'
    BY <1>1 DEF ClaimInv, ExclusiveClaims, SameClaim
  <1> QED
    BY <1>2, <1>3, <1>4, <1>5 DEF ClaimInv

\* A step that touches no claim at all keeps ClaimInv.
LEMMA KeepingClaims ==
  ASSUME NEW w \in Workers, ClaimInv,
         UNCHANGED <<alerts, retry, dlq, window, cur, state, txnAlerts, aborted>>,
         \A v \in Workers : pc'[v] # pc[v] => cur[v] = {}
  PROVE  ClaimInv'
  <1>1. InHandShape'
    BY DEF ClaimInv, InHandShape
  <1>2. Held(w)' = Held(w) /\ Failed' = Failed
    BY DEF Held, Failed
  <1> QED
    BY <1>1, <1>2, GivingUpClaims DEF OnlyHolder

\* SET NX hands out a claim nobody has held before.
LEMMA ClaimingKeepsInv ==
  ASSUME NEW w \in Workers, NEW i \in todo[w], TypeOK, ClaimInv, ClaimEvent(w, i)
  PROVE  ClaimInv'
  <1> DEFINE k == stream[i].key
             c == [entry |-> i, key |-> k, window |-> window[k] + 1]
  <1>1. /\ k \in Keys /\ window \in [Keys -> Nat] /\ window[k] \in Nat
        /\ window' = [window EXCEPT ![k] = @ + 1]
    <2>1. k \in Keys
      BY ClaimType DEF Payload
    <2>2. window \in [Keys -> Nat]
      BY ConstantsAssumption DEF TypeOK
    <2> QED
      BY <2>1, <2>2 DEF ClaimEvent
  <1>2. /\ cur[w] = {} /\ cur' = [cur EXCEPT ![w] = {c}]
        /\ state' = [state EXCEPT ![w] = "PROCESSING"]
        /\ UNCHANGED <<alerts, retry, dlq, txnAlerts, aborted, pc>> /\ pc[w] = "event"
    <2>1. state[w] = "NEW" /\ pc[w] = "event"
      BY DEF ClaimEvent
    <2>2. cur[w] = {}
      BY <2>1 DEF ClaimInv, InHandShape
    <2>3. cur' = [cur EXCEPT ![w] = {c}] /\ state' = [state EXCEPT ![w] = "PROCESSING"]
      BY DEF ClaimEvent
    <2>4. UNCHANGED <<alerts, retry, dlq, txnAlerts, aborted, pc>>
      BY DEF ClaimEvent
    <2> HIDE DEF c, k
    <2> QED
      BY <2>1, <2>2, <2>3, <2>4
  <1>3. /\ c.key = k /\ c.window = window[k] + 1
    OBVIOUS
  <1> HIDE DEF c, k
  <1>4. /\ Held(w)' = txnAlerts[w] \cup {c} /\ Held(w) = txnAlerts[w]
        /\ \A v \in Workers \ {w} : Held(v)' = Held(v) /\ cur'[v] = cur[v]
        /\ cur'[w] = {c} /\ state'[w] = "PROCESSING"
        /\ \A v \in Workers \ {w} : state'[v] = state[v]
        /\ Failed' = Failed
    BY <1>2 DEF TypeOK, Held, Failed
  <1>5. \A d \in Claim : d.key \in Keys
    BY DEF Claim
  <1>6. ASSUME NEW d \in Claim, d.window \in 1..window[d.key]
        PROVE  d.window \in 1..window'[d.key] /\ ~SameClaim(c, d)
    <2>1. CASE d.key = k
      BY <1>1, <1>3, <1>6, <2>1 DEF SameClaim
    <2>2. CASE d.key # k
      BY <1>1, <1>3, <1>5, <1>6, <2>2 DEF SameClaim
    <2> QED
      BY <2>1, <2>2
  <1>7. /\ alerts \subseteq Claim /\ Failed \subseteq Claim
        /\ \A v \in Workers : Held(v) \subseteq Claim
    BY DEF TypeOK, Failed, Held
  <1>8. /\ \A d \in alerts \cup Failed : d.window \in 1..window'[d.key] /\ ~SameClaim(c, d)
        /\ \A v \in Workers : \A d \in Held(v) :
              d.window \in 1..window'[d.key] /\ ~SameClaim(c, d)
    BY <1>6, <1>7 DEF ClaimInv, ClaimsWereMade
  <1>9. InHandShape'
    <2>1. c \notin txnAlerts[w]
      BY <1>4, <1>8 DEF SameClaim
    <2> QED
      BY <1>2, <1>4, <2>1 DEF ClaimInv, InHandShape
  <1>10. ClaimsWereMade'
    <2>1. c.window \in 1..window'[c.key]
      BY <1>1, <1>3
    <2> QED
      BY <1>2, <1>4, <1>8, <2>1 DEF ClaimsWereMade
  <1>11. HeldClaimsAreOpen'
    BY <1>2, <1>4, <1>8 DEF ClaimInv, HeldClaimsAreOpen, SameClaim
  <1>12. OneAlertPerWindow' /\ FailureExcludesAlert'
    BY <1>2, <1>4 DEF ClaimInv, OneAlertPerWindow, FailureExcludesAlert, SameClaim
  <1>13. ExclusiveClaims'
    BY <1>4, <1>8 DEF ClaimInv, ExclusiveClaims, SameClaim
  <1> QED
    BY <1>9, <1>10, <1>11, <1>12, <1>13 DEF ClaimInv

\* Recording the failure of the claim in hand keeps ClaimInv, when the claim has
\* no uncommitted alert or the transaction is lost.
LEMMA FailingKeepsInv ==
  ASSUME NEW w \in Workers, NEW c \in cur[w], TypeOK, ClaimInv,
         alerts' = alerts, window' = window, txnAlerts' = txnAlerts,
         \A v \in Workers : aborted[v] => aborted'[v],
         OnlyHolder(w), retry' \cup dlq' = retry \cup dlq \cup {c},
         Finish(w, c.entry),
         c \notin txnAlerts[w] \/ aborted'[w]
  PROVE  ClaimInv'
  <1>1. /\ cur'[w] = {} /\ state'[w] = "NEW"
        /\ \A v \in Workers \ {w} : cur'[v] = cur[v] /\ state'[v] = state[v]
                                      /\ pc'[v] = pc[v]
    BY DEF Finish, TypeOK
  <1>2. c \in Held(w) /\ c \in Claim /\ c.window \in 1..window[c.key]
    BY DEF Held, TypeOK, ClaimInv, ClaimsWereMade
  <1>3. Failed' = Failed \cup {c}
    BY <1>2, ConstantsAssumption DEF Failed, Claim, TypeOK
  <1>4. Held(w)' = txnAlerts[w] /\ \A v \in Workers \ {w} : Held(v)' = Held(v)
    BY <1>1 DEF Held
  <1>5. \A v \in Workers : Held(v)' \subseteq Held(v) /\ cur'[v] \subseteq cur[v]
    BY <1>1, <1>4 DEF Held
  <1>6. InHandShape'
    BY <1>1 DEF ClaimInv, InHandShape
  <1>7. ClaimsWereMade'
    BY <1>2, <1>3, <1>5 DEF ClaimInv, ClaimsWereMade
  <1>8. HeldClaimsAreOpen'
    <2> SUFFICES ASSUME NEW v \in Workers, NEW a \in Held(v)'
                 PROVE  /\ \A b \in Held(v)' : SameClaim(a, b) => a = b
                        /\ \A b \in alerts : ~SameClaim(a, b)
                        /\ \A f \in Failed' : SameClaim(a, f) =>
                                aborted'[v] /\ a \notin cur'[v]
      BY DEF HeldClaimsAreOpen, SameClaim
    <2>1. a \in Held(v)
      BY <1>5
    <2>2. ASSUME NEW f \in Failed, SameClaim(a, f)
          PROVE  aborted'[v] /\ a \notin cur'[v]
      BY <1>5, <2>1, <2>2 DEF ClaimInv, HeldClaimsAreOpen
    <2>3. ASSUME SameClaim(a, c) PROVE aborted'[v] /\ a \notin cur'[v]
      <3>1. v = w
        BY <1>2, <2>1, <2>3 DEF ClaimInv, ExclusiveClaims
      <3>2. a = c
        BY <1>2, <2>1, <2>3, <3>1 DEF ClaimInv, HeldClaimsAreOpen
      <3> QED
        BY <1>1, <1>4, <3>1, <3>2
    <2> QED
      BY <1>3, <1>5, <2>1, <2>2, <2>3 DEF ClaimInv, HeldClaimsAreOpen
  <1>9. OneAlertPerWindow'
    BY DEF ClaimInv, OneAlertPerWindow, SameClaim
  <1>10. FailureExcludesAlert'
    BY <1>2, <1>3 DEF ClaimInv, FailureExcludesAlert, HeldClaimsAreOpen, SameClaim
  <1>11. ExclusiveClaims'
    BY <1>5 DEF ClaimInv, ExclusiveClaims, SameClaim
  <1> QED
    BY <1>6, <1>7, <1>8, <1>9, <1>10, <1>11 DEF ClaimInv

\* A commit turns the claims of a live transaction into alerts; of an aborted
\* one it discards them.
LEMMA CommittingKeepsInv ==
  ASSUME NEW w \in Workers, TypeOK, ClaimInv, Commit(w)
  PROVE  ClaimInv'
  <1>1. /\ cur[w] = {} /\ UNCHANGED <<cur, state, retry, dlq, window>>
        /\ txnAlerts'[w] = {} /\ OnlyHolder(w) /\ Failed' = Failed
        /\ \A v \in Workers \ {w} : pc'[v] = pc[v]
    BY DEF Commit, ClaimInv, InHandShape, TypeOK, OnlyHolder, Failed
  <1>2. /\ Held(w)' = {} /\ Held(w) = txnAlerts[w]
        /\ \A v \in Workers \ {w} : Held(v)' = Held(v)
    BY <1>1 DEF Held, OnlyHolder
  <1>3. InHandShape'
    BY <1>1 DEF ClaimInv, InHandShape, OnlyHolder
  <1>4. CASE aborted[w]
    <2>1. alerts' = alerts
      BY <1>4 DEF Commit
    <2> QED
      BY <1>1, <1>2, <1>3, <2>1, GivingUpClaims
  <1>5. CASE ~aborted[w]
    <2>1. alerts' = alerts \cup Held(w)
      BY <1>2, <1>5 DEF Commit
    <2>2. ClaimsWereMade'
      BY <1>1, <1>2, <2>1 DEF ClaimInv, ClaimsWereMade
    <2>3. HeldClaimsAreOpen'
      BY <1>1, <1>2, <2>1
      DEF ClaimInv, HeldClaimsAreOpen, ExclusiveClaims, SameClaim, OnlyHolder
    <2>4. OneAlertPerWindow'
      BY <2>1 DEF ClaimInv, OneAlertPerWindow, HeldClaimsAreOpen, SameClaim
    <2>5. FailureExcludesAlert'
      BY <1>1, <1>5, <2>1
      DEF ClaimInv, FailureExcludesAlert, HeldClaimsAreOpen, SameClaim
    <2>6. ExclusiveClaims'
      BY <1>2 DEF ClaimInv, ExclusiveClaims, SameClaim
    <2> QED
      BY <1>3, <2>2, <2>3, <2>4, <2>5, <2>6 DEF ClaimInv
  <1> QED
    BY <1>4, <1>5

-----------------------------------------------------------------------------
(***************************************************************************)
(* One lemma per action of a worker.                                       *)
(***************************************************************************)

\* Finishing an entry without recording anything only gives up the claim.
LEMMA FinishingKeepsInv ==
  ASSUME NEW w \in Workers, NEW i \in Ids, TypeOK, ClaimInv, Finish(w, i),
         UNCHANGED <<alerts, window, txnAlerts, aborted>>, Failed' = Failed
  PROVE  ClaimInv'
  <1>1. /\ cur'[w] = {} /\ state'[w] = "NEW"
        /\ \A v \in Workers \ {w} : cur'[v] = cur[v] /\ state'[v] = state[v]
                                      /\ pc'[v] = pc[v]
    BY DEF Finish, TypeOK
  <1>2. InHandShape'
    BY <1>1 DEF ClaimInv, InHandShape
  <1>3. Held(w)' \subseteq Held(w) /\ OnlyHolder(w)
    BY <1>1 DEF Held, OnlyHolder
  <1> QED
    BY <1>1, <1>2, <1>3, GivingUpClaims

\* A new batch, and a dead process, hold nothing.
LEMMA EmptySessionKeepsInv ==
  ASSUME NEW w \in Workers, TypeOK, ClaimInv,
         UNCHANGED <<alerts, window, retry, dlq>>,
         cur' = [cur EXCEPT ![w] = {}], state' = [state EXCEPT ![w] = "NEW"],
         txnAlerts' = [txnAlerts EXCEPT ![w] = {}],
         aborted' = [aborted EXCEPT ![w] = FALSE],
         \A v \in Workers \ {w} : pc'[v] = pc[v]
  PROVE  ClaimInv'
  <1>1. /\ cur'[w] = {} /\ state'[w] = "NEW" /\ txnAlerts'[w] = {}
        /\ \A v \in Workers \ {w} : state'[v] = state[v]
        /\ OnlyHolder(w)
    BY DEF TypeOK, OnlyHolder
  <1>2. InHandShape'
    BY <1>1 DEF ClaimInv, InHandShape, OnlyHolder
  <1>3. Held(w)' = {} /\ Failed' = Failed
    BY <1>1 DEF Held, Failed
  <1> QED
    BY <1>1, <1>2, <1>3, GivingUpClaims

LEMMA BatchKeepsInv ==
  ASSUME NEW w \in Workers, TypeOK, ClaimInv, Recover(w) \/ Read(w)
  PROVE  ClaimInv'
  <1>1. cur[w] = {} /\ state[w] = "NEW"
    BY DEF ClaimInv, InHandShape, Recover, Read
  <1>2. PICK batch, from, next : BeginBatch(w, batch, from, next)
    BY DEF Recover, Read
  <1>3. UNCHANGED <<alerts, window, retry, dlq, cur, state>>
    BY DEF Recover, Read
  <1>4. /\ cur' = [cur EXCEPT ![w] = {}] /\ state' = [state EXCEPT ![w] = "NEW"]
        /\ txnAlerts' = [txnAlerts EXCEPT ![w] = {}]
        /\ aborted' = [aborted EXCEPT ![w] = FALSE]
        /\ \A v \in Workers \ {w} : pc'[v] = pc[v]
    BY <1>1, <1>2, <1>3 DEF BeginBatch, TypeOK
  <1> QED
    BY <1>3, <1>4, EmptySessionKeepsInv

LEMMA DyingKeepsInv ==
  ASSUME NEW w \in Workers, TypeOK, ClaimInv, Die(w)
  PROVE  ClaimInv'
  <1>1. \A v \in Workers \ {w} : pc'[v] = pc[v]
    BY DEF Die, TypeOK
  <1> QED
    BY <1>1, EmptySessionKeepsInv DEF Die

\* Ack and Start move the control of a worker that holds nothing in hand.
LEMMA LoopKeepsInv ==
  ASSUME NEW w \in Workers, TypeOK, ClaimInv, Ack(w) \/ Start(w)
  PROVE  ClaimInv'
  <1>1. cur[w] = {} /\ \A v \in Workers \ {w} : pc'[v] = pc[v]
    BY DEF ClaimInv, InHandShape, Ack, Start, TypeOK
  <1>2. UNCHANGED <<alerts, retry, dlq, window, cur, state, txnAlerts, aborted>>
    BY DEF Ack, Start
  <1> QED
    BY <1>1, <1>2, KeepingClaims

LEMMA DropKeepsInv ==
  ASSUME NEW w \in Workers, NEW i \in todo[w], TypeOK, ClaimInv, DropDuplicate(w, i)
  PROVE  ClaimInv'
  <1>1. /\ i \in Ids /\ Finish(w, i)
        /\ UNCHANGED <<alerts, window, txnAlerts, aborted>> /\ Failed' = Failed
    BY ClaimType DEF DropDuplicate, Failed
  <1> QED
    BY <1>1, FinishingKeepsInv

\* The failure of an event that claimed nothing is recorded under window 0.
LEMMA DedupeFailsKeepsInv ==
  ASSUME NEW w \in Workers, NEW i \in todo[w], TypeOK, ClaimInv, DedupeFails(w, i)
  PROVE  ClaimInv'
  <1> DEFINE c == [entry |-> i, key |-> stream[i].key, window |-> 0]
  <1>1. i \in Ids /\ c.entry = i /\ c.window = 0
    BY ClaimType
  <1>2. MoveToRetryOrDlq(w, c) /\ aborted' = aborted
    BY DEF DedupeFails
  <1> HIDE DEF c
  <1>3. /\ Finish(w, i) /\ UNCHANGED <<alerts, window, txnAlerts, aborted>>
        /\ retry' \cup dlq' = retry \cup dlq \cup {c}
    BY <1>1, <1>2 DEF MoveToRetryOrDlq
  <1>4. Failed' = Failed
    BY <1>1, <1>3 DEF Failed
  <1> QED
    BY <1>1, <1>3, <1>4, FinishingKeepsInv

LEMMA RouteKeepsInv ==
  ASSUME NEW w \in Workers, NEW c \in cur[w], TypeOK, ClaimInv, Route(w, c)
  PROVE  ClaimInv'
  <1>1. /\ UNCHANGED <<alerts, retry, dlq, window, cur, txnAlerts, aborted, pc>>
        /\ state[w] = "PROCESSING" /\ state' = [state EXCEPT ![w] = "ROUTED"]
    BY DEF Route
  <1>2. state'[w] = "ROUTED" /\ \A v \in Workers \ {w} : state'[v] = state[v]
    BY <1>1 DEF TypeOK
  <1>3. InHandShape'
    BY <1>1, <1>2 DEF ClaimInv, InHandShape
  <1>4. Held(w)' = Held(w) /\ Failed' = Failed /\ OnlyHolder(w)
    BY <1>1 DEF Held, Failed, OnlyHolder
  <1> QED
    BY <1>1, <1>3, <1>4, GivingUpClaims

\* The claim in hand moves into the transaction; w holds the same claims.
LEMMA EmitKeepsInv ==
  ASSUME NEW w \in Workers, NEW c \in cur[w], TypeOK, ClaimInv, EmitAlert(w, c)
  PROVE  ClaimInv'
  <1>1. /\ UNCHANGED <<alerts, retry, dlq, window, cur, aborted, pc>>
        /\ state[w] = "ROUTED" /\ state' = [state EXCEPT ![w] = "ALERTED"]
    BY DEF EmitAlert
  <1>2. state'[w] = "ALERTED" /\ \A v \in Workers \ {w} : state'[v] = state[v]
    BY <1>1 DEF TypeOK
  <1>3. /\ \A v \in Workers \ {w} : txnAlerts'[v] = txnAlerts[v]
        /\ txnAlerts'[w] \subseteq txnAlerts[w] \cup {c}
    BY DEF EmitAlert, TypeOK
  <1>4. InHandShape'
    BY <1>1, <1>2, <1>3 DEF ClaimInv, InHandShape
  <1>5. Held(w)' \subseteq Held(w) /\ Failed' = Failed /\ OnlyHolder(w)
    BY <1>1, <1>3 DEF Held, Failed, OnlyHolder
  <1> QED
    BY <1>1, <1>4, <1>5, GivingUpClaims

LEMMA PersistKeepsInv ==
  ASSUME NEW w \in Workers, NEW c \in cur[w], TypeOK, ClaimInv, PersistState(w, c)
  PROVE  ClaimInv'
  <1>1. UNCHANGED <<alerts, retry, dlq, window, txnAlerts, aborted>>
    BY DEF PersistState
  <1>2. CASE state[w] = "ALERTED"
    <2>1. UNCHANGED <<cur, pc>> /\ state' = [state EXCEPT ![w] = "STORED"]
      BY <1>2 DEF PersistState
    <2>2. state'[w] = "STORED" /\ \A v \in Workers \ {w} : state'[v] = state[v]
      BY <2>1 DEF TypeOK
    <2>3. InHandShape'
      BY <1>1, <1>2, <2>1, <2>2 DEF ClaimInv, InHandShape
    <2>4. Held(w)' = Held(w) /\ Failed' = Failed /\ OnlyHolder(w)
      BY <1>1, <2>1 DEF Held, Failed, OnlyHolder
    <2> QED
      BY <1>1, <2>1, <2>3, <2>4, GivingUpClaims
  <1>3. CASE state[w] = "STORED"
    <2>1. c.entry \in Ids /\ Failed' = Failed
      BY <1>1 DEF TypeOK, Failed
    <2>2. Finish(w, c.entry)
      BY <1>3 DEF PersistState
    <2> QED
      BY <1>1, <2>1, <2>2, FinishingKeepsInv
  <1> QED
    BY <1>2, <1>3 DEF PersistState

LEMMA RejectKeepsInv ==
  ASSUME NEW w \in Workers, NEW c \in cur[w], TypeOK, ClaimInv, Reject(w, c)
  PROVE  ClaimInv'
  <1>1. /\ UNCHANGED <<alerts, window, txnAlerts, aborted, retry>>
        /\ dlq' = dlq \cup {c} /\ Finish(w, c.entry) /\ state[w] = "PROCESSING"
    BY DEF Reject
  <1>2. c \notin txnAlerts[w]
    BY <1>1 DEF ClaimInv, InHandShape
  <1>3. OnlyHolder(w)
    BY <1>1 DEF OnlyHolder, Finish, TypeOK
  <1> QED
    BY <1>1, <1>2, <1>3, FailingKeepsInv

LEMMA RedisFailsKeepsInv ==
  ASSUME NEW w \in Workers, NEW c \in cur[w], TypeOK, ClaimInv, RedisFails(w, c)
  PROVE  ClaimInv'
  <1>1. /\ MoveToRetryOrDlq(w, c) /\ aborted' = aborted /\ state[w] = "PROCESSING"
    BY DEF RedisFails
  <1>2. /\ UNCHANGED <<alerts, window, txnAlerts, aborted>>
        /\ retry' \cup dlq' = retry \cup dlq \cup {c} /\ Finish(w, c.entry)
    BY <1>1 DEF MoveToRetryOrDlq
  <1>3. c \notin txnAlerts[w]
    BY <1>1 DEF ClaimInv, InHandShape
  <1>4. OnlyHolder(w)
    BY <1>2 DEF OnlyHolder, Finish, TypeOK
  <1> QED
    BY <1>2, <1>3, <1>4, FailingKeepsInv

LEMMA StatementFailsKeepsInv ==
  ASSUME NEW w \in Workers, NEW c \in cur[w], TypeOK, ClaimInv, StatementFails(w, c)
  PROVE  ClaimInv'
  <1>1. MoveToRetryOrDlq(w, c) /\ aborted' = [aborted EXCEPT ![w] = TRUE]
    BY DEF StatementFails
  <1>2. /\ UNCHANGED <<alerts, window, txnAlerts>>
        /\ retry' \cup dlq' = retry \cup dlq \cup {c} /\ Finish(w, c.entry)
    BY <1>1 DEF MoveToRetryOrDlq
  <1>3. /\ aborted'[w] /\ \A v \in Workers \ {w} : aborted'[v] = aborted[v]
    BY <1>1 DEF TypeOK
  <1>4. OnlyHolder(w)
    BY <1>2, <1>3 DEF OnlyHolder, Finish, TypeOK
  <1> QED
    BY <1>2, <1>3, <1>4, FailingKeepsInv

-----------------------------------------------------------------------------
LEMMA WorkerKeepsInv ==
  ASSUME NEW w \in Workers, TypeOK, ClaimInv,
         WorkerStep(w) \/ Fault(w) \/ Crash(w) \/ Start(w)
  PROVE  ClaimInv'
  <1>1. CASE Crash(w) \/ CommitFails(w)
    BY <1>1, DyingKeepsInv DEF Crash, CommitFails
  <1>2. CASE \E i \in todo[w] : DropDuplicate(w, i) \/ ClaimEvent(w, i) \/ DedupeFails(w, i)
    BY <1>2, DropKeepsInv, ClaimingKeepsInv, DedupeFailsKeepsInv
  <1>3. CASE \E c \in cur[w] : \/ Reject(w, c) \/ Route(w, c) \/ EmitAlert(w, c)
                               \/ PersistState(w, c)
                               \/ RedisFails(w, c) \/ StatementFails(w, c)
    BY <1>3, RejectKeepsInv, RouteKeepsInv, EmitKeepsInv, PersistKeepsInv,
       RedisFailsKeepsInv, StatementFailsKeepsInv
  <1>4. CASE Recover(w) \/ Read(w) \/ Commit(w) \/ Ack(w) \/ Start(w)
    BY <1>4, BatchKeepsInv, CommittingKeepsInv, LoopKeepsInv
  <1> QED
    BY <1>1, <1>2, <1>3, <1>4 DEF WorkerStep, Fault

LEMMA InitClaimInv == Init => ClaimInv
  BY DEF Init, ClaimInv, InHandShape, ClaimsWereMade, HeldClaimsAreOpen,
         OneAlertPerWindow, ExclusiveClaims, FailureExcludesAlert, Held, Failed

LEMMA NextClaimInv == TypeOK /\ ClaimInv /\ [Next]_vars => ClaimInv'
  <1> SUFFICES ASSUME TypeOK, ClaimInv, [Next]_vars PROVE ClaimInv'
    OBVIOUS
  <1>1. ASSUME UNCHANGED <<alerts, retry, dlq, window, pc, cur, state, txnAlerts, aborted>>
        PROVE  ClaimInv'
    <2>1. /\ Failed' = Failed /\ \A w \in Workers : Held(w)' = Held(w)
      BY <1>1 DEF Failed, Held
    <2> QED
      BY <1>1, <2>1
      DEF ClaimInv, InHandShape, ClaimsWereMade, HeldClaimsAreOpen,
          OneAlertPerWindow, ExclusiveClaims, FailureExcludesAlert, SameClaim
  <1>2. CASE \/ Publish \/ (\E i \in Entries : BecomeIdle(i)) \/ (\E k \in Keys : Expire(k))
             \/ UNCHANGED vars
    BY <1>1, <1>2 DEF Publish, BecomeIdle, Expire
  <1>3. ASSUME NEW w \in Workers,
               WorkerStep(w) \/ Fault(w) \/ Crash(w) \/ Start(w)
        PROVE  ClaimInv'
    BY <1>3, WorkerKeepsInv
  <1> QED
    BY <1>2, <1>3 DEF Next

\* The inductive invariant holds in every reachable state.
THEOREM ClaimsCorrect == Spec => []ClaimInv
  BY TypeCorrect, InitClaimInv, NextClaimInv, PTL DEF Spec

\* One dedupe window of a key yields at most one committed alert, whatever the
\* workers, crashes, redeliveries and faults.
THEOREM AtMostOneAlert == Spec => []OneAlertPerWindow
  <1>1. ClaimInv => OneAlertPerWindow
    BY DEF ClaimInv
  <1> QED
    BY <1>1, ClaimsCorrect, PTL

\* No two workers ever hold the same claim.
THEOREM ClaimsAreExclusive == Spec => []ExclusiveClaims
  <1>1. ClaimInv => ExclusiveClaims
    BY DEF ClaimInv
  <1> QED
    BY <1>1, ClaimsCorrect, PTL

\* A claim recorded on a failure stream never has an alert as well.
THEOREM FailedClaimsAreNotAlerted == Spec => []FailureExcludesAlert
  <1>1. ClaimInv => FailureExcludesAlert
    BY DEF ClaimInv
  <1> QED
    BY <1>1, ClaimsCorrect, PTL
=============================================================================
