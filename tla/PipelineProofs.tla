--------------------------- MODULE PipelineProofs ---------------------------
(***************************************************************************)
(* What the processing workers promise as a whole, for every number of     *)
(* workers, crashes and faults: they implement AlertLedger, a batch        *)
(* commits as a whole, and nothing is acknowledged that was not handled.   *)
(***************************************************************************)
EXTENDS ProcessingWorkersProofs, FiniteSetTheorems

USE DEF vars, groupVars, keyVars, sideVars, dbVars, batchVars, eventVars,
        sessionVars, boundVars, FreshSession

-----------------------------------------------------------------------------
(***************************************************************************)
(* The refinement: opening a window is the SET NX of ClaimEvent, recording *)
(* alerts is the commit of a live transaction, recording a failure is the  *)
(* XADD to a failure stream; every other step, crashes and takeovers       *)
(* included, is invisible.                                                 *)
(***************************************************************************)

\* Claims a worker holds for a live transaction, and the claim in hand, have no
\* outcome yet.
LEMMA HeldIsOpen ==
  ASSUME NEW w \in Workers, NEW c \in Held(w), TypeOK, ClaimInv,
         c \in cur[w] \/ ~aborted[w]
  PROVE  c \in Ledger!Open
  <1>1. c \in Claim /\ c \in Ledger!Claim
    BY DEF Held, TypeOK, Claim, Ledger!Claim
  <1>2. c.window \in 1..window[c.key]
    BY DEF ClaimInv, ClaimsWereMade
  <1>3. \A r \in alerts \cup Failed : ~SameClaim(c, r)
    BY DEF ClaimInv, HeldClaimsAreOpen
  <1> QED
    BY <1>1, <1>2, <1>3 DEF Ledger!Open, Ledger!SameClaim, SameClaim

\* A recorded failure of the claim in hand is the ledger's RecordFailure.
LEMMA FailureRefines ==
  ASSUME NEW w \in Workers, NEW c \in cur[w], TypeOK, ClaimInv,
         UNCHANGED <<alerts, window>>, retry' \cup dlq' = retry \cup dlq \cup {c}
  PROVE  Ledger!Next
  <1>1. c \in Held(w) /\ c \in Ledger!Open
    BY HeldIsOpen DEF Held
  <1>2. c \in Ledger!Claim /\ c.window > 0
    BY <1>1, ConstantsAssumption DEF Ledger!Open, Ledger!Claim
  <1>3. Failed' = Failed \cup {c}
    BY <1>2 DEF Failed
  <1>4. Ledger!RecordFailure(c)
    BY <1>3 DEF Ledger!RecordFailure
  <1> QED
    BY <1>1, <1>4 DEF Ledger!Next

\* A committed transaction is the ledger's RecordAlerts, a discarded one nothing.
LEMMA CommitRefines ==
  ASSUME NEW w \in Workers, TypeOK, ClaimInv, Commit(w)
  PROVE  Ledger!Next \/ UNCHANGED Ledger!ledgerVars
  <1>1. UNCHANGED <<window, retry, dlq>> /\ Failed' = Failed
    BY DEF Commit, Failed
  <1>2. CASE aborted[w]
    <2>1. alerts' = alerts
      BY <1>2 DEF Commit
    <2> QED
      BY <1>1, <2>1 DEF Ledger!ledgerVars
  <1>3. CASE ~aborted[w]
    <2>1. txnAlerts[w] \subseteq Ledger!Open
      BY <1>3, HeldIsOpen DEF Held
    <2>2. \A a, b \in txnAlerts[w] : Ledger!SameClaim(a, b) => a = b
      BY DEF ClaimInv, HeldClaimsAreOpen, Held, SameClaim, Ledger!SameClaim
    <2>3. alerts' = alerts \cup txnAlerts[w]
      BY <1>3 DEF Commit
    <2>4. Ledger!RecordAlerts(txnAlerts[w])
      BY <1>1, <2>2, <2>3 DEF Ledger!RecordAlerts
    <2> QED
      BY <2>1, <2>4 DEF Ledger!Next
  <1> QED
    BY <1>2, <1>3

LEMMA ClaimRefines ==
  ASSUME NEW w \in Workers, NEW i \in todo[w], TypeOK, ClaimEvent(w, i)
  PROVE  Ledger!Next
  <1>1. stream[i].key \in Keys
    BY ClaimType DEF Payload
  <1>2. Failed' = Failed
    BY DEF ClaimEvent, Failed
  <1>3. Ledger!OpenWindow(stream[i].key)
    BY <1>2 DEF ClaimEvent, Ledger!OpenWindow
  <1> QED
    BY <1>1, <1>3 DEF Ledger!Next

\* An event that fails before it claimed its key leaves the ledger alone.
LEMMA DedupeFailsRefines ==
  ASSUME NEW w \in Workers, NEW i \in todo[w], TypeOK, DedupeFails(w, i)
  PROVE  UNCHANGED Ledger!ledgerVars
  <1> DEFINE c == [entry |-> i, key |-> stream[i].key, window |-> 0]
  <1>1. MoveToRetryOrDlq(w, c) /\ c.window = 0
    BY DEF DedupeFails
  <1> HIDE DEF c
  <1>2. UNCHANGED <<alerts, window>> /\ retry' \cup dlq' = retry \cup dlq \cup {c}
    BY <1>1 DEF MoveToRetryOrDlq
  <1>3. Failed' = Failed
    BY <1>1, <1>2 DEF Failed
  <1> QED
    BY <1>2, <1>3 DEF Ledger!ledgerVars

LEMMA WorkerRefines ==
  ASSUME NEW w \in Workers, TypeOK, ClaimInv,
         WorkerStep(w) \/ Fault(w) \/ Crash(w) \/ Start(w)
  PROVE  Ledger!Next \/ UNCHANGED Ledger!ledgerVars
  <1>1. ASSUME UNCHANGED <<alerts, window, retry, dlq>>
        PROVE  UNCHANGED Ledger!ledgerVars
    BY <1>1 DEF Failed, Ledger!ledgerVars
  <1>2. CASE \/ Recover(w) \/ Read(w) \/ Ack(w) \/ Start(w) \/ CommitFails(w) \/ Crash(w)
             \/ \E i \in todo[w] : DropDuplicate(w, i)
             \/ \E c \in cur[w] : Route(w, c) \/ EmitAlert(w, c) \/ PersistState(w, c)
    BY <1>1, <1>2 DEF Recover, Read, Ack, Start, CommitFails, Crash, Die, DropDuplicate,
                      Route, EmitAlert, PersistState
  <1>3. ASSUME NEW c \in cur[w], Reject(w, c) \/ RedisFails(w, c) \/ StatementFails(w, c)
        PROVE  Ledger!Next
    BY <1>3, FailureRefines DEF Reject, RedisFails, StatementFails, MoveToRetryOrDlq
  <1> QED
    BY <1>2, <1>3, CommitRefines, ClaimRefines, DedupeFailsRefines DEF WorkerStep, Fault

\* The workers keep the promises of the abstract ledger.
THEOREM WorkersImplementLedger == Spec => LedgerSpec
  <1>1. Init => Ledger!Init
    BY DEF Init, Ledger!Init, Failed
  <1>2. TypeOK /\ ClaimInv /\ [Next]_vars => [Ledger!Next]_(Ledger!ledgerVars)
    <2> SUFFICES ASSUME TypeOK, ClaimInv, [Next]_vars
                 PROVE  Ledger!Next \/ UNCHANGED Ledger!ledgerVars
      OBVIOUS
    <2>1. CASE \/ Publish \/ (\E i \in Entries : BecomeIdle(i))
               \/ (\E k \in Keys : Expire(k)) \/ UNCHANGED vars
      BY <2>1 DEF Publish, BecomeIdle, Expire, Ledger!ledgerVars, Failed
    <2>2. CASE \E w \in Workers : WorkerStep(w) \/ Fault(w) \/ Crash(w) \/ Start(w)
      BY <2>2, WorkerRefines
    <2> QED
      BY <2>1, <2>2 DEF Next
  <1> QED
    BY <1>1, <1>2, TypeCorrect, ClaimsCorrect, PTL DEF Spec, LedgerSpec, Ledger!Spec

-----------------------------------------------------------------------------
(***************************************************************************)
(* Batches are atomic: what a session has written agrees with itself, but  *)
(* for the event in hand, or can no longer be committed.                   *)
(***************************************************************************)
SessionOK(w) ==
    /\ txnAudits[w] = txnAlerts[w]
    /\ state[w] \in {"ALERTED", "STORED"} =>
          \A c \in cur[w] : stream[c.entry].tier \in AlertTiers => c \in txnAlerts[w]
    /\ ~aborted[w] =>
          /\ \A a \in txnAlerts[w] : a \in cur[w] \/ \E r \in txnRows[w] : r.key = a.key
          /\ \A r \in txnRows[w] :
                r.tier \in AlertTiers => \E a \in txnAlerts[w] : a.entry = r.entry
          /\ \A r \in txnRows[w] :
                r.state = "STORED" \/ (state[w] = "STORED" /\ \E c \in cur[w] : r.key = c.key)

AtomicInv == BatchIsAtomic /\ \A w \in Workers : SessionOK(w)

\* A step of one worker leaves the sessions of the others alone.
LEMMA OtherSessions ==
  ASSUME NEW w \in Workers, AtomicInv, SessionOK(w)', BatchIsAtomic', stream' = stream,
         \A v \in Workers \ {w} :
            /\ cur'[v] = cur[v] /\ state'[v] = state[v] /\ aborted'[v] = aborted[v]
            /\ txnAlerts'[v] = txnAlerts[v] /\ txnAudits'[v] = txnAudits[v]
            /\ txnRows'[v] = txnRows[v]
  PROVE  AtomicInv'
  <1>1. \A v \in Workers \ {w} : SessionOK(v)'
    BY DEF AtomicInv, SessionOK
  <1> QED
    BY <1>1 DEF AtomicInv

\* A session that was opened or closed, with no event in hand.
LEMMA EmptySession ==
  ASSUME NEW w \in Workers, TypeOK, AtomicInv, BatchIsAtomic', FreshSession(w),
         stream' = stream, cur'[w] = {},
         \A v \in Workers \ {w} : cur'[v] = cur[v] /\ state'[v] = state[v]
  PROVE  AtomicInv'
  <1>1. /\ txnAlerts'[w] = {} /\ txnAudits'[w] = {} /\ txnRows'[w] = {}
        /\ \A v \in Workers \ {w} :
              /\ txnAlerts'[v] = txnAlerts[v] /\ txnAudits'[v] = txnAudits[v]
              /\ txnRows'[v] = txnRows[v] /\ aborted'[v] = aborted[v]
    BY DEF TypeOK
  <1>2. SessionOK(w)'
    BY <1>1 DEF SessionOK
  <1> QED
    BY <1>1, <1>2, OtherSessions

LEMMA DbUnchanged ==
  ASSUME UNCHANGED <<alerts, audits, rows>>, BatchIsAtomic
  PROVE  BatchIsAtomic'
  BY DEF BatchIsAtomic

\* What a step that finishes an event leaves in hand.
LEMMA FinishHand ==
  ASSUME NEW w \in Workers, NEW i, TypeOK, Finish(w, i)
  PROVE  /\ cur'[w] = {} /\ state'[w] = "NEW"
         /\ \A v \in Workers \ {w} : cur'[v] = cur[v] /\ state'[v] = state[v]
  BY DEF Finish, TypeOK

\* An event that ends before its alert leaves its session as it was.
LEMMA EndingEarly ==
  ASSUME NEW w \in Workers, NEW i, TypeOK, AtomicInv, Finish(w, i),
         cur[w] \cap txnAlerts[w] = {}, state[w] # "STORED",
         UNCHANGED <<stream, alerts, audits, rows, txnAlerts, txnAudits, txnRows, aborted>>
  PROVE  AtomicInv'
  <1>1. /\ cur'[w] = {} /\ state'[w] = "NEW"
        /\ \A v \in Workers \ {w} : cur'[v] = cur[v] /\ state'[v] = state[v]
    BY FinishHand
  <1>2. SessionOK(w)
    BY DEF AtomicInv
  <1>3. SessionOK(w)'
    BY <1>1, <1>2 DEF SessionOK
  <1> QED
    BY <1>1, <1>3, OtherSessions, DbUnchanged DEF AtomicInv

LEMMA DieIsAtomic ==
  ASSUME NEW w \in Workers, TypeOK, AtomicInv, Die(w)
  PROVE  AtomicInv'
  <1>1. /\ cur'[w] = {} /\ UNCHANGED <<stream, alerts, audits, rows>> /\ FreshSession(w)
        /\ \A v \in Workers \ {w} : cur'[v] = cur[v] /\ state'[v] = state[v]
    BY DEF Die, TypeOK
  <1> QED
    BY <1>1, EmptySession, DbUnchanged DEF AtomicInv

LEMMA LoopIsAtomic ==
  ASSUME NEW w \in Workers, TypeOK, ClaimInv, AtomicInv,
         Recover(w) \/ Read(w) \/ Ack(w) \/ Start(w)
  PROVE  AtomicInv'
  <1>1. UNCHANGED <<stream, alerts, audits, rows, cur, state>>
    BY DEF Recover, Read, Ack, Start
  <1>2. CASE Recover(w) \/ Read(w)
    <2>1. cur[w] = {} /\ FreshSession(w)
      BY <1>2 DEF Recover, Read, BeginBatch, ClaimInv, InHandShape
    <2> QED
      BY <1>1, <2>1, EmptySession, DbUnchanged DEF AtomicInv
  <1>3. CASE Ack(w) \/ Start(w)
    <2>1. UNCHANGED <<txnAlerts, txnAudits, txnRows, aborted>>
      BY <1>3 DEF Ack, Start
    <2> QED
      BY <1>1, <2>1 DEF AtomicInv, SessionOK, BatchIsAtomic
  <1> QED
    BY <1>2, <1>3

\* A committed session's alerts have their rows and its rows their alerts.
LEMMA CommitIsAtomic ==
  ASSUME NEW w \in Workers, TypeOK, ClaimInv, AtomicInv, Commit(w)
  PROVE  AtomicInv'
  <1>1. cur[w] = {} /\ UNCHANGED <<stream, cur, state>> /\ FreshSession(w)
    BY DEF Commit, ClaimInv, InHandShape
  <1>2. BatchIsAtomic'
    <2>1. CASE aborted[w]
      BY <2>1, DbUnchanged DEF Commit, AtomicInv
    <2>2. CASE ~aborted[w]
      <3>1. /\ alerts' = alerts \cup txnAlerts[w] /\ audits' = audits \cup txnAudits[w]
            /\ rows' = Upsert(rows, txnRows[w])
        BY <2>2 DEF Commit
      <3>2. /\ txnAudits[w] = txnAlerts[w]
            /\ \A a \in txnAlerts[w] : \E r \in txnRows[w] : r.key = a.key
            /\ \A r \in txnRows[w] :
                  /\ r.state = "STORED"
                  /\ r.tier \in AlertTiers => \E a \in txnAlerts[w] : a.entry = r.entry
        BY <1>1, <2>2 DEF AtomicInv, SessionOK
      <3>3. \A k : (\E r \in rows : r.key = k) => \E r \in rows' : r.key = k
        BY <3>1 DEF Upsert
      <3>4. \A r \in rows' : r \in rows \/ r \in txnRows[w]
        BY <3>1 DEF Upsert
      <3>5. txnRows[w] \subseteq rows'
        BY <3>1 DEF Upsert
      <3>6. \A a \in alerts' : \E r \in rows' : r.key = a.key
        BY <3>1, <3>2, <3>3, <3>5 DEF AtomicInv, BatchIsAtomic
      <3>7. \A r \in rows' : /\ r.state = "STORED"
                             /\ r.tier \in AlertTiers => \E a \in alerts' : a.entry = r.entry
        BY <3>1, <3>2, <3>4 DEF AtomicInv, BatchIsAtomic
      <3>8. audits' = alerts'
        BY <3>1, <3>2 DEF AtomicInv, BatchIsAtomic
      <3> QED
        BY <3>6, <3>7, <3>8 DEF BatchIsAtomic
    <2> QED
      BY <2>1, <2>2
  <1> QED
    BY <1>1, <1>2, EmptySession

LEMMA ClaimIsAtomic ==
  ASSUME NEW w \in Workers, NEW i \in todo[w], TypeOK, ClaimInv, AtomicInv, ClaimEvent(w, i)
  PROVE  AtomicInv'
  <1>1. /\ state'[w] = "PROCESSING" /\ state[w] = "NEW" /\ cur[w] = {}
        /\ \A v \in Workers \ {w} : cur'[v] = cur[v] /\ state'[v] = state[v]
        /\ UNCHANGED <<stream, alerts, audits, rows, txnAlerts, txnAudits, txnRows, aborted>>
    BY DEF ClaimEvent, TypeOK, ClaimInv, InHandShape
  <1>2. SessionOK(w)
    BY DEF AtomicInv
  <1>3. SessionOK(w)'
    BY <1>1, <1>2 DEF SessionOK
  <1> QED
    BY <1>1, <1>3, OtherSessions, DbUnchanged DEF AtomicInv

LEMMA RouteIsAtomic ==
  ASSUME NEW w \in Workers, NEW c \in cur[w], TypeOK, AtomicInv, Route(w, c)
  PROVE  AtomicInv'
  <1>1. /\ state'[w] = "ROUTED" /\ state[w] = "PROCESSING"
        /\ \A v \in Workers \ {w} : state'[v] = state[v]
        /\ UNCHANGED <<cur, stream, alerts, audits, rows, txnAlerts, txnAudits, txnRows, aborted>>
    BY DEF Route, TypeOK
  <1>2. SessionOK(w)
    BY DEF AtomicInv
  <1>3. SessionOK(w)'
    BY <1>1, <1>2 DEF SessionOK
  <1> QED
    BY <1>1, <1>3, OtherSessions, DbUnchanged DEF AtomicInv

LEMMA EmitIsAtomic ==
  ASSUME NEW w \in Workers, NEW c \in cur[w], TypeOK, ClaimInv, AtomicInv, EmitAlert(w, c)
  PROVE  AtomicInv'
  <1> DEFINE new == IF stream[c.entry].tier \in AlertTiers THEN {c} ELSE {}
  <1>1. /\ state'[w] = "ALERTED" /\ state[w] = "ROUTED"
        /\ txnAlerts'[w] = txnAlerts[w] \cup new /\ txnAudits'[w] = txnAudits[w] \cup new
        /\ \A v \in Workers \ {w} :
              /\ state'[v] = state[v]
              /\ txnAlerts'[v] = txnAlerts[v] /\ txnAudits'[v] = txnAudits[v]
        /\ UNCHANGED <<cur, stream, alerts, audits, rows, txnRows, aborted>>
    BY DEF EmitAlert, TypeOK
  <1>2. SessionOK(w) /\ \A d \in cur[w] : d = c
    BY DEF AtomicInv, ClaimInv, InHandShape
  <1>3. new \subseteq {c} /\ (stream[c.entry].tier \in AlertTiers => c \in new)
    OBVIOUS
  <1> HIDE DEF new
  <1>4. SessionOK(w)'
    <2>1. txnAudits'[w] = txnAlerts'[w]
      BY <1>1, <1>2 DEF SessionOK
    <2>2. \A d \in cur'[w] : stream'[d.entry].tier \in AlertTiers => d \in txnAlerts'[w]
      BY <1>1, <1>2, <1>3
    <2>3. ASSUME ~aborted'[w]
          PROVE  /\ \A a \in txnAlerts'[w] :
                       a \in cur'[w] \/ \E r \in txnRows'[w] : r.key = a.key
                 /\ \A r \in txnRows'[w] : r.tier \in AlertTiers =>
                       \E a \in txnAlerts'[w] : a.entry = r.entry
                 /\ \A r \in txnRows'[w] : r.state = "STORED"
      BY <1>1, <1>2, <1>3, <2>3 DEF SessionOK
    <2> QED
      BY <2>1, <2>2, <2>3 DEF SessionOK
  <1> QED
    BY <1>1, <1>4, OtherSessions, DbUnchanged DEF AtomicInv

LEMMA PersistIsAtomic ==
  ASSUME NEW w \in Workers, NEW c \in cur[w], TypeOK, ClaimInv, AtomicInv, PersistState(w, c)
  PROVE  AtomicInv'
  <1> DEFINE row == [key |-> c.key, entry |-> c.entry,
                     tier |-> stream[c.entry].tier, state |-> state[w]]
  <1>1. /\ state[w] \in {"ALERTED", "STORED"} /\ ~aborted[w]
        /\ txnRows'[w] = Upsert(txnRows[w], {row})
        /\ \A v \in Workers \ {w} : txnRows'[v] = txnRows[v]
        /\ UNCHANGED <<stream, alerts, audits, rows, txnAlerts, txnAudits, aborted>>
    BY DEF PersistState, TypeOK
  <1>2. SessionOK(w) /\ \A d \in cur[w] : d = c
    BY DEF AtomicInv, ClaimInv, InHandShape
  <1>3. \/ /\ state[w] = "ALERTED" /\ state'[w] = "STORED" /\ cur'[w] = cur[w]
        \/ /\ state[w] = "STORED" /\ state'[w] = "NEW" /\ cur'[w] = {}
    BY FinishHand DEF PersistState, TypeOK
  <1>4. \A v \in Workers \ {w} : cur'[v] = cur[v] /\ state'[v] = state[v]
    BY FinishHand DEF PersistState, TypeOK
  <1>5. row.key = c.key /\ row.entry = c.entry /\ row.tier = stream[c.entry].tier
        /\ row.state = state[w]
    OBVIOUS
  <1> HIDE DEF row
  <1>6. /\ row \in txnRows'[w]
        /\ \A r \in txnRows'[w] : r = row \/ (r \in txnRows[w] /\ r.key # c.key)
        /\ \A r \in txnRows[w] : r.key = c.key \/ r \in txnRows'[w]
    BY <1>1, <1>5 DEF Upsert
  <1>7. stream[c.entry].tier \in AlertTiers => c \in txnAlerts[w]
    BY <1>1, <1>2 DEF SessionOK
  <1>8. SessionOK(w)'
    <2>1. txnAudits'[w] = txnAlerts'[w]
      BY <1>1, <1>2 DEF SessionOK
    <2>2. state'[w] \in {"ALERTED", "STORED"} =>
            \A d \in cur'[w] : stream'[d.entry].tier \in AlertTiers => d \in txnAlerts'[w]
      BY <1>1, <1>2, <1>3 DEF SessionOK
    <2>3. \A a \in txnAlerts'[w] : \E r \in txnRows'[w] : r.key = a.key
      <3>1. ASSUME NEW a \in txnAlerts[w] PROVE \E r \in txnRows'[w] : r.key = a.key
        <4>1. a = c \/ \E r \in txnRows[w] : r.key = a.key
          BY <1>1, <1>2 DEF SessionOK
        <4> QED
          BY <1>5, <1>6, <4>1
      <3> QED
        BY <1>1, <3>1
    <2>4. \A r \in txnRows'[w] : r.tier \in AlertTiers =>
             \E a \in txnAlerts'[w] : a.entry = r.entry
      BY <1>1, <1>2, <1>5, <1>6, <1>7 DEF SessionOK
    <2>5. \A r \in txnRows'[w] :
             r.state = "STORED" \/ (state'[w] = "STORED" /\ \E d \in cur'[w] : r.key = d.key)
      BY <1>1, <1>2, <1>3, <1>5, <1>6 DEF SessionOK
    <2> QED
      BY <2>1, <2>2, <2>3, <2>4, <2>5 DEF SessionOK
  <1> QED
    BY <1>1, <1>4, <1>8, OtherSessions, DbUnchanged DEF AtomicInv

LEMMA StatementFailsIsAtomic ==
  ASSUME NEW w \in Workers, NEW c \in cur[w], TypeOK, AtomicInv, StatementFails(w, c)
  PROVE  AtomicInv'
  <1>1. /\ UNCHANGED <<stream, alerts, audits, rows, txnAlerts, txnAudits, txnRows>>
        /\ Finish(w, c.entry) /\ aborted'[w]
        /\ \A v \in Workers \ {w} : aborted'[v] = aborted[v]
    BY DEF StatementFails, MoveToRetryOrDlq, TypeOK
  <1>2. /\ cur'[w] = {} /\ state'[w] = "NEW"
        /\ \A v \in Workers \ {w} : cur'[v] = cur[v] /\ state'[v] = state[v]
    BY <1>1, FinishHand
  <1>3. SessionOK(w)'
    BY <1>1, <1>2 DEF AtomicInv, SessionOK
  <1> QED
    BY <1>1, <1>2, <1>3, OtherSessions, DbUnchanged DEF AtomicInv

LEMMA EarlyEndsAreAtomic ==
  ASSUME NEW w \in Workers, TypeOK, ClaimInv, AtomicInv,
         \/ \E i \in todo[w] : DropDuplicate(w, i) \/ DedupeFails(w, i)
         \/ \E c \in cur[w] : Reject(w, c) \/ RedisFails(w, c)
  PROVE  AtomicInv'
  <1>1. /\ \E i : Finish(w, i)
        /\ UNCHANGED <<stream, alerts, audits, rows, txnAlerts, txnAudits, txnRows, aborted>>
        /\ state[w] \in {"NEW", "PROCESSING"}
    BY DEF DropDuplicate, DedupeFails, Reject, RedisFails, MoveToRetryOrDlq
  <1>2. cur[w] \cap txnAlerts[w] = {}
    BY <1>1 DEF ClaimInv, InHandShape
  <1> QED
    BY <1>1, <1>2, EndingEarly

LEMMA NextAtomicInv == TypeOK /\ ClaimInv /\ AtomicInv /\ [Next]_vars => AtomicInv'
  <1> SUFFICES ASSUME TypeOK, ClaimInv, AtomicInv, [Next]_vars PROVE AtomicInv'
    OBVIOUS
  <1>1. CASE Publish
    <2>1. \A i \in Ids : stream'[i] = stream[i]
      BY <1>1 DEF Publish, TypeOK, Ids
    <2>2. \A w \in Workers : \A c \in cur[w] : c.entry \in Ids
      BY DEF TypeOK
    <2>3. UNCHANGED <<alerts, audits, rows, cur, state, txnAlerts, txnAudits, txnRows, aborted>>
      BY <1>1 DEF Publish
    <2> QED
      BY <2>1, <2>2, <2>3 DEF AtomicInv, SessionOK, BatchIsAtomic
  <1>2. CASE (\E i \in Entries : BecomeIdle(i)) \/ (\E k \in Keys : Expire(k)) \/ UNCHANGED vars
    BY <1>2 DEF BecomeIdle, Expire, AtomicInv, SessionOK, BatchIsAtomic
  <1>3. ASSUME NEW w \in Workers, WorkerStep(w) \/ Fault(w) \/ Crash(w) \/ Start(w)
        PROVE  AtomicInv'
    BY <1>3, DieIsAtomic, LoopIsAtomic, CommitIsAtomic, ClaimIsAtomic, RouteIsAtomic,
       EmitIsAtomic, PersistIsAtomic, StatementFailsIsAtomic, EarlyEndsAreAtomic
    DEF WorkerStep, Fault, Crash, CommitFails
  <1> QED
    BY <1>1, <1>2, <1>3 DEF Next

\* A batch commits as a whole: alerts, audit rows and processed_events agree in
\* every committed state, whichever statement, commit or process fails
\* (_dispatch_entries shares one session among the events of a batch).
THEOREM BatchesAreAtomic == Spec => []BatchIsAtomic
  <1>1. Init => AtomicInv
    BY DEF Init, AtomicInv, SessionOK, BatchIsAtomic
  <1>2. AtomicInv => BatchIsAtomic
    BY DEF AtomicInv
  <1> QED
    BY <1>1, <1>2, NextAtomicInv, TypeCorrect, ClaimsCorrect, PTL DEF Spec

-----------------------------------------------------------------------------
(***************************************************************************)
(* Nothing is acknowledged that was not handled: a worker acknowledges     *)
(* only what process_event returned from, and the group's pointer passes   *)
(* only entries that were trimmed or became pending.                       *)
(***************************************************************************)
Handled(i) ==
    \/ window[stream[i].key] > 0
    \/ \E f \in retry \cup dlq : f.entry = i

SeenWasClaimed == \A k \in seen : window[k] > 0

InHandIsItsEntry == \A w \in Workers : \A c \in cur[w] : c.key = stream[c.entry].key

ToAckWasHandled == \A w \in Workers : \A i \in toAck[w] : Handled(i)

HandledInv == SeenWasClaimed /\ InHandIsItsEntry /\ ToAckWasHandled /\ AckedWasHandled

\* An acknowledged entry stays handled, and so does one about to be.
LEMMA StaysHandled ==
  ASSUME NEW i \in Ids, TypeOK, Handled(i), stream'[i] = stream[i],
         \A k \in Keys : window[k] > 0 => window'[k] > 0,
         retry \subseteq retry', dlq \subseteq dlq'
  PROVE  Handled(i)'
  <1>1. stream[i] \in Payload
    BY DEF TypeOK, Ids
  <1>2. stream[i].key \in Keys
    BY <1>1 DEF Payload
  <1> QED
    BY <1>2 DEF Handled

\* Steps that leave the group alone, add records of failure or claims, and put
\* only handled entries on an acknowledgement list.
LEMMA HandlingKeepsInv ==
  ASSUME TypeOK, HandledInv, UNCHANGED <<stream, trimmed, lastDelivered, pending>>,
         \A k \in Keys : window[k] > 0 => window'[k] > 0,
         retry \subseteq retry', dlq \subseteq dlq',
         SeenWasClaimed', InHandIsItsEntry',
         \A w \in Workers : \A i \in toAck'[w] :
            i \in toAck[w] \/ (i \in Ids /\ Handled(i)')
  PROVE  HandledInv'
  <1>1. \A i \in Ids : Handled(i) => Handled(i)'
    BY StaysHandled
  <1>2. ToAckWasHandled'
    BY <1>1 DEF HandledInv, ToAckWasHandled, TypeOK
  <1>3. \A i \in Entries : Acked(i)' => Acked(i) /\ i \in Ids
    BY DEF Acked, Ids
  <1>4. AckedWasHandled'
    BY <1>1, <1>3 DEF HandledInv, AckedWasHandled, Handled
  <1> QED
    BY <1>2, <1>4 DEF HandledInv

\* A worker that claims nothing and only drops the event in hand.
LEMMA IdlingKeepsInv ==
  ASSUME TypeOK, HandledInv, UNCHANGED <<stream, trimmed, lastDelivered, pending, window>>,
         seen' \subseteq seen, retry \subseteq retry', dlq \subseteq dlq',
         \A w \in Workers : cur'[w] \subseteq cur[w],
         \A w \in Workers : \A i \in toAck'[w] :
            i \in toAck[w] \/ (i \in Ids /\ Handled(i)')
  PROVE  HandledInv'
  <1>1. SeenWasClaimed' /\ InHandIsItsEntry'
    BY DEF HandledInv, SeenWasClaimed, InHandIsItsEntry
  <1> QED
    BY <1>1, HandlingKeepsInv

\* The oldest entries of a set of entries are an initial part of it.
LEMMA OldestIsInitial ==
  ASSUME NEW S \in SUBSET Ids, TypeOK, NEW last \in Oldest(S), NEW i \in S, i <= last
  PROVE  i \in Oldest(S)
  <1> DEFINE Below(n) == {j \in S : j < n}
  <1>1. Len(stream) \in Nat
    BY DEF TypeOK
  <1>2. IsFiniteSet(Ids)
    BY <1>1, FS_Interval DEF Ids
  <1>3. last \in S /\ Cardinality(Below(last)) < BatchSize
    BY DEF Oldest
  <1>4. Below(last) \in SUBSET Ids /\ Below(i) \in SUBSET Below(last)
    <2>1. S \subseteq Int /\ last \in Int
      BY <1>1, <1>3 DEF Ids
    <2>2. \A j \in S : j < i => j < last
      BY <2>1
    <2> QED
      BY <2>2
  <1> HIDE DEF Below
  <1>5. IsFiniteSet(Below(last))
    BY <1>2, <1>4, FS_Subset
  <1>6. Cardinality(Below(i)) <= Cardinality(Below(last)) /\ IsFiniteSet(Below(i))
    BY <1>4, <1>5, FS_Subset
  <1>7. Cardinality(Below(i)) \in Nat /\ Cardinality(Below(last)) \in Nat
    BY <1>5, <1>6, FS_CardinalityType
  <1>8. Cardinality(Below(i)) < BatchSize
    BY <1>3, <1>6, <1>7, ConstantsAssumption
  <1> QED
    BY <1>8 DEF Oldest, Below

\* XREADGROUP moves the pointer past trimmed entries and entries it delivers.
LEMMA ReadKeepsHandled ==
  ASSUME NEW w \in Workers, TypeOK, HandledInv, Read(w)
  PROVE  HandledInv'
  <1> DEFINE batch == Oldest(Undelivered)
  <1>1. /\ pending' = pending \cup batch
        /\ lastDelivered' \in batch \cup {lastDelivered}
        /\ UNCHANGED <<stream, trimmed, window, seen, retry, dlq, cur>>
        /\ toAck' = [toAck EXCEPT ![w] = {}]
    BY DEF Read, BeginBatch
  <1>2. Undelivered \in SUBSET Ids
    BY DEF Undelivered
  <1>3. ASSUME NEW i \in Entries, Acked(i)' PROVE Acked(i)
    <2>1. i \in Ids /\ i <= lastDelivered' /\ i \notin pending' /\ i > trimmed
      BY <1>1, <1>3 DEF Acked, Ids
    <2>2. CASE i <= lastDelivered
      BY <1>1, <2>1, <2>2 DEF Acked
    <2>3. CASE ~(i <= lastDelivered)
      <3>1. lastDelivered \in Int /\ i \in Int /\ Len(stream) \in Nat
        BY <2>1 DEF TypeOK, Ids
      <3>2. i \in Undelivered
        BY <2>1, <2>3, <3>1 DEF Undelivered
      <3>3. lastDelivered' \in batch
        BY <1>1, <2>1, <2>3
      <3>4. i \in batch
        BY <1>2, <2>1, <3>2, <3>3, OldestIsInitial
      <3> QED
        BY <1>1, <2>1, <3>4
    <2> QED
      BY <2>2, <2>3
  <1>4. AckedWasHandled'
    BY <1>1, <1>3 DEF HandledInv, AckedWasHandled
  <1>5. ToAckWasHandled'
    BY <1>1 DEF HandledInv, ToAckWasHandled, Handled, TypeOK
  <1>6. SeenWasClaimed' /\ InHandIsItsEntry'
    BY <1>1 DEF HandledInv, SeenWasClaimed, InHandIsItsEntry
  <1> QED
    BY <1>4, <1>5, <1>6 DEF HandledInv

\* XAUTOCLAIM forgets trimmed entries, XACK those on the acknowledgement list.
LEMMA ForgettingKeepsHandled ==
  ASSUME NEW w \in Workers, TypeOK, HandledInv, Recover(w) \/ Ack(w)
  PROVE  HandledInv'
  <1>1. /\ UNCHANGED <<stream, trimmed, lastDelivered, window, seen, retry, dlq, cur>>
        /\ toAck' = [toAck EXCEPT ![w] = {}]
        /\ \A i \in pending : i \in pending' \/ i \in toAck[w] \/ i <= trimmed
    BY DEF Recover, Ack, BeginBatch
  <1>2. ASSUME NEW i \in Entries, Acked(i)' PROVE Acked(i) \/ i \in toAck[w]
    <2>1. i \in Ids /\ i <= lastDelivered /\ i \notin pending' /\ i > trimmed
      BY <1>1, <1>2 DEF Acked, Ids
    <2>2. ~(i <= trimmed)
      BY <2>1 DEF TypeOK, Ids
    <2> QED
      BY <1>1, <2>1, <2>2 DEF Acked
  <1>3. AckedWasHandled'
    BY <1>1, <1>2 DEF HandledInv, AckedWasHandled, ToAckWasHandled, Handled
  <1>4. ToAckWasHandled'
    BY <1>1 DEF HandledInv, ToAckWasHandled, Handled, TypeOK
  <1>5. SeenWasClaimed' /\ InHandIsItsEntry'
    BY <1>1 DEF HandledInv, SeenWasClaimed, InHandIsItsEntry
  <1> QED
    BY <1>3, <1>4, <1>5 DEF HandledInv

\* process_event returns only from entries that are handled.
LEMMA FinishingKeepsHandled ==
  ASSUME NEW w \in Workers, NEW i \in Ids, TypeOK, HandledInv, Finish(w, i), Handled(i)',
         UNCHANGED <<stream, trimmed, lastDelivered, pending, window, seen>>,
         retry \subseteq retry', dlq \subseteq dlq'
  PROVE  HandledInv'
  <1>1. \A v \in Workers : /\ cur'[v] \subseteq cur[v]
                           /\ \A j \in toAck'[v] : j \in toAck[v] \/ j = i
    BY DEF Finish, TypeOK
  <1> QED
    BY <1>1, IdlingKeepsInv

\* The event in hand was claimed, so its key has a window.
LEMMA InHandIsHandled ==
  ASSUME NEW w \in Workers, NEW c \in cur[w], TypeOK, ClaimInv, HandledInv
  PROVE  c.entry \in Ids /\ Handled(c.entry)
  <1>1. c.entry \in Ids /\ c.key \in Keys /\ c.key = stream[c.entry].key
    BY DEF TypeOK, Claim, HandledInv, InHandIsItsEntry
  <1>2. c.window \in 1..window[c.key]
    BY DEF ClaimInv, ClaimsWereMade, Held
  <1>3. window[c.key] \in Nat
    BY <1>1, ConstantsAssumption DEF TypeOK
  <1> QED
    BY <1>1, <1>2, <1>3 DEF Handled

LEMMA ClaimedKeepsHandled ==
  ASSUME NEW w \in Workers, NEW i \in todo[w], TypeOK, HandledInv, ClaimEvent(w, i)
  PROVE  HandledInv'
  <1> DEFINE k == stream[i].key
  <1>1. k \in Keys
    BY ClaimType DEF Payload
  <1>2. window \in [Keys -> Nat] /\ window' = [window EXCEPT ![k] = @ + 1]
    BY ConstantsAssumption DEF TypeOK, ClaimEvent
  <1>3. window'[k] > 0 /\ \A x \in Keys : window[x] > 0 => window'[x] > 0
    BY <1>1, <1>2
  <1>4. SeenWasClaimed'
    <2>1. seen' = seen \cup {k} /\ seen \subseteq Keys
      BY DEF ClaimEvent, TypeOK
    <2> QED
      BY <1>3, <2>1 DEF HandledInv, SeenWasClaimed
  <1>5. InHandIsItsEntry'
    BY DEF ClaimEvent, TypeOK, HandledInv, InHandIsItsEntry
  <1>6. UNCHANGED <<stream, trimmed, lastDelivered, pending, toAck, retry, dlq>>
    BY DEF ClaimEvent
  <1> QED
    BY <1>3, <1>4, <1>5, <1>6, HandlingKeepsInv

LEMMA EventEndsHandled ==
  ASSUME NEW w \in Workers, TypeOK, ClaimInv, HandledInv,
         \/ \E i \in todo[w] : DropDuplicate(w, i) \/ DedupeFails(w, i)
         \/ \E c \in cur[w] : \/ Reject(w, c) \/ RedisFails(w, c) \/ StatementFails(w, c)
                              \/ (PersistState(w, c) /\ state[w] = "STORED")
  PROVE  HandledInv'
  <1>1. ASSUME NEW i \in todo[w], DropDuplicate(w, i) PROVE HandledInv'
    <2>1. i \in Ids /\ Handled(i)
      BY <1>1, ClaimType DEF DropDuplicate, HandledInv, SeenWasClaimed, Handled
    <2>2. Handled(i)'
      BY <1>1, <2>1 DEF DropDuplicate, Handled
    <2> QED
      BY <1>1, <2>1, <2>2, FinishingKeepsHandled DEF DropDuplicate
  <1>2. ASSUME NEW i \in todo[w], DedupeFails(w, i) PROVE HandledInv'
    <2> DEFINE c == [entry |-> i, key |-> stream[i].key, window |-> 0]
    <2>1. i \in Ids /\ MoveToRetryOrDlq(w, c) /\ c.entry = i
      BY <1>2, ClaimType DEF DedupeFails
    <2> HIDE DEF c
    <2>2. /\ Finish(w, i) /\ c \in retry' \cup dlq'
          /\ retry \subseteq retry' /\ dlq \subseteq dlq'
          /\ UNCHANGED <<stream, trimmed, lastDelivered, pending, window, seen>>
      BY <2>1 DEF MoveToRetryOrDlq
    <2>3. Handled(i)'
      BY <2>1, <2>2 DEF Handled
    <2> QED
      BY <2>1, <2>2, <2>3, FinishingKeepsHandled
  <1>3. ASSUME NEW c \in cur[w],
               \/ Reject(w, c) \/ RedisFails(w, c) \/ StatementFails(w, c)
               \/ (PersistState(w, c) /\ state[w] = "STORED")
        PROVE  HandledInv'
    <2>1. /\ Finish(w, c.entry) /\ retry \subseteq retry' /\ dlq \subseteq dlq'
          /\ UNCHANGED <<stream, trimmed, lastDelivered, pending, window, seen>>
      BY <1>3 DEF Reject, RedisFails, StatementFails, PersistState, MoveToRetryOrDlq
    <2>2. c.entry \in Ids /\ Handled(c.entry)
      BY InHandIsHandled
    <2>3. Handled(c.entry)'
      BY <2>1, <2>2, StaysHandled
    <2> QED
      BY <2>1, <2>2, <2>3, FinishingKeepsHandled
  <1> QED
    BY <1>1, <1>2, <1>3

LEMMA NextHandledInv == TypeOK /\ ClaimInv /\ HandledInv /\ [Next]_vars => HandledInv'
  <1> SUFFICES ASSUME TypeOK, ClaimInv, HandledInv, [Next]_vars PROVE HandledInv'
    OBVIOUS
  <1>1. CASE Publish
    <2>1. /\ \A i \in Ids : i \in Ids' /\ stream'[i] = stream[i]
          /\ trimmed' \in Int /\ trimmed \in Int /\ (trimmed' = trimmed \/ trimmed' > trimmed)
          /\ UNCHANGED <<lastDelivered, pending, window, seen, retry, dlq, cur, toAck>>
      BY <1>1 DEF Publish, TypeOK, Ids
    <2>2. \A i \in Ids : Handled(i) => Handled(i)'
      BY <2>1 DEF Handled
    <2>3. SeenWasClaimed' /\ InHandIsItsEntry' /\ ToAckWasHandled'
      BY <2>1, <2>2 DEF HandledInv, SeenWasClaimed, InHandIsItsEntry, ToAckWasHandled, TypeOK
    <2>4. \A i \in Entries : Acked(i)' => Acked(i) /\ i \in Ids
      BY <2>1 DEF Acked, TypeOK, Ids
    <2>5. AckedWasHandled'
      BY <2>2, <2>4 DEF HandledInv, AckedWasHandled, Handled
    <2> QED
      BY <2>3, <2>5 DEF HandledInv
  <1>2. CASE (\E i \in Entries : BecomeIdle(i)) \/ (\E k \in Keys : Expire(k)) \/ UNCHANGED vars
    <2>1. /\ UNCHANGED <<stream, trimmed, lastDelivered, pending, window, retry, dlq, cur, toAck>>
          /\ seen' \subseteq seen
      BY <1>2 DEF BecomeIdle, Expire
    <2> QED
      BY <2>1, IdlingKeepsInv
  <1>3. ASSUME NEW w \in Workers, WorkerStep(w) \/ Fault(w) \/ Crash(w) \/ Start(w)
        PROVE  HandledInv'
    <2>1. CASE \/ Commit(w) \/ CommitFails(w) \/ Crash(w) \/ Start(w)
               \/ \E c \in cur[w] : Route(w, c) \/ EmitAlert(w, c)
                                      \/ (PersistState(w, c) /\ state[w] # "STORED")
      <3>1. /\ UNCHANGED <<stream, trimmed, lastDelivered, pending, window, seen, retry, dlq>>
            /\ \A v \in Workers : cur'[v] \subseteq cur[v] /\ toAck'[v] \subseteq toAck[v]
        BY <2>1 DEF Commit, CommitFails, Crash, Start, Die, Route, EmitAlert, PersistState, TypeOK
      <3> QED
        BY <3>1, IdlingKeepsInv
    <2> QED
      BY <1>3, <2>1, ReadKeepsHandled, ForgettingKeepsHandled, ClaimedKeepsHandled,
         EventEndsHandled DEF WorkerStep, Fault
  <1> QED
    BY <1>1, <1>2, <1>3 DEF Next

\* Nothing is acknowledged that was not handled, however entries are trimmed,
\* taken over and redelivered (ack_ids of _dispatch_entries, the XREADGROUP
\* pointer).
THEOREM AcknowledgedIsHandled == Spec => []AckedWasHandled
  <1>1. Init => HandledInv
    BY DEF Init, HandledInv, SeenWasClaimed, InHandIsItsEntry, ToAckWasHandled,
           AckedWasHandled, Acked, Ids
  <1>2. HandledInv => AckedWasHandled
    BY DEF HandledInv
  <1> QED
    BY <1>1, <1>2, NextHandledInv, TypeCorrect, ClaimsCorrect, PTL DEF Spec

-----------------------------------------------------------------------------
(***************************************************************************)
(* Undisturbed, nothing is lost: a key that was claimed is recorded, on a  *)
(* failure stream, or in the hands of the worker that claimed it, whoever  *)
(* else reclaims the entry and drops it as a duplicate.                    *)
(***************************************************************************)
Kept(k) ==
    \/ \E r \in rows : r.key = k
    \/ \E f \in retry \cup dlq : f.key = k
    \/ \E w \in Workers : Working(w, k)

ClaimedIsKept == \A k \in Keys : window[k] > 0 => Kept(k)

\* A failure record names the key of its entry.
FailuresNameTheirEntry ==
    \A f \in retry \cup dlq : f.entry \in Ids /\ f.key = stream[f.entry].key

\* A session that nothing has disturbed is alive, is empty between two batches,
\* and holds a row of the event in hand once that is STORED.
SessionKeeps(w) ==
    /\ ~aborted[w]
    /\ pc[w] \in {"down", "recover", "read", "ack"} => txnRows[w] = {}
    /\ state[w] = "STORED" => \A c \in cur[w] : \E r \in txnRows[w] : r.key = c.key

Undisturbed == crashes = 0 /\ faults = 0

KeptInv ==
    Undisturbed =>
        ClaimedIsKept /\ FailuresNameTheirEntry /\ \A w \in Workers : SessionKeeps(w)

\* What is kept stays kept in a step that takes no row, no failure record and no
\* work away without recording it.
LEMMA StaysKept ==
  ASSUME NEW k, Kept(k), retry \subseteq retry', dlq \subseteq dlq',
         (\E r \in rows : r.key = k) => \E r \in rows' : r.key = k,
         \A w \in Workers : Working(w, k) => Working(w, k)' \/ Kept(k)'
  PROVE  Kept(k)'
  BY DEF Kept

\* A step of worker w that claims no key, and after which w still has in its
\* session, or has recorded, what it had.
LEMMA StepKeeps ==
  ASSUME NEW w \in Workers, TypeOK, ClaimedIsKept, FailuresNameTheirEntry,
         \A v \in Workers : SessionKeeps(v),
         UNCHANGED <<stream, window, retry>>, dlq \subseteq dlq',
         \A f \in dlq' : f \in dlq \/ (f.entry \in Ids /\ f.key = stream[f.entry].key),
         \A k \in Keys : (\E r \in rows : r.key = k) => \E r \in rows' : r.key = k,
         \A v \in Workers \ {w} :
            /\ cur'[v] = cur[v] /\ txnRows'[v] = txnRows[v] /\ aborted'[v] = aborted[v]
            /\ pc'[v] = pc[v] /\ state'[v] = state[v],
         SessionKeeps(w)',
         \A k \in Keys : Working(w, k) => Working(w, k)' \/ Kept(k)'
  PROVE  KeptInv'
  <1>1. ASSUME NEW k \in Keys, window'[k] > 0 PROVE Kept(k)'
    <2>1. Kept(k)
      BY <1>1 DEF ClaimedIsKept
    <2>2. \A v \in Workers : Working(v, k) => Working(v, k)' \/ Kept(k)'
      BY DEF Working
    <2> QED
      BY <2>1, <2>2, StaysKept
  <1>2. FailuresNameTheirEntry'
    BY DEF FailuresNameTheirEntry, Ids
  <1>3. \A v \in Workers : SessionKeeps(v)'
    BY DEF SessionKeeps
  <1> QED
    BY <1>1, <1>2, <1>3 DEF KeptInv, ClaimedIsKept

LEMMA LoopKeeps ==
  ASSUME NEW w \in Workers, TypeOK, ClaimInv, KeptInv, Undisturbed,
         Recover(w) \/ Read(w) \/ Ack(w) \/ Start(w)
  PROVE  KeptInv'
  <1>1. /\ UNCHANGED <<stream, window, retry, dlq, rows, cur, state>>
        /\ \A v \in Workers \ {w} : /\ pc'[v] = pc[v] /\ txnRows'[v] = txnRows[v]
                                    /\ aborted'[v] = aborted[v]
        /\ pc[w] \in {"down", "recover", "read", "ack"}
        /\ txnRows'[w] \in {txnRows[w], {}} /\ (aborted'[w] => aborted[w])
    BY DEF Recover, Read, Ack, Start, BeginBatch, TypeOK
  <1>2. ClaimedIsKept /\ FailuresNameTheirEntry /\ \A v \in Workers : SessionKeeps(v)
    BY DEF KeptInv
  <1>3. txnRows[w] = {} /\ cur[w] = {} /\ state[w] = "NEW"
    BY <1>1, <1>2 DEF SessionKeeps, ClaimInv, InHandShape
  <1>4. SessionKeeps(w)'
    BY <1>1, <1>2, <1>3 DEF SessionKeeps
  <1>5. \A k : ~Working(w, k)
    BY <1>3 DEF Working
  <1> QED
    BY <1>1, <1>2, <1>4, <1>5, StepKeeps

\* A commit turns the rows of the session into rows of the table.
LEMMA CommitKeeps ==
  ASSUME NEW w \in Workers, TypeOK, ClaimInv, KeptInv, Undisturbed, Commit(w)
  PROVE  KeptInv'
  <1>1. ClaimedIsKept /\ FailuresNameTheirEntry /\ \A v \in Workers : SessionKeeps(v)
    BY DEF KeptInv
  <1>2. ~aborted[w] /\ cur[w] = {} /\ state[w] = "NEW"
    BY <1>1 DEF SessionKeeps, Commit, ClaimInv, InHandShape
  <1>3. /\ UNCHANGED <<stream, window, retry, dlq, cur, state>>
        /\ rows' = Upsert(rows, txnRows[w])
        /\ \A v \in Workers \ {w} : /\ pc'[v] = pc[v] /\ txnRows'[v] = txnRows[v]
                                    /\ aborted'[v] = aborted[v]
        /\ txnRows'[w] = {} /\ ~aborted'[w]
    BY <1>2 DEF Commit, TypeOK
  <1>4. \A k : (\E r \in rows : r.key = k) => \E r \in rows' : r.key = k
    BY <1>3 DEF Upsert
  <1>5. \A k : (\E r \in txnRows[w] : r.key = k) => \E r \in rows' : r.key = k
    BY <1>3 DEF Upsert
  <1>6. \A k : Working(w, k) => Kept(k)'
    BY <1>2, <1>5 DEF Working, Kept
  <1>7. SessionKeeps(w)'
    BY <1>2, <1>3 DEF SessionKeeps
  <1> QED
    BY <1>1, <1>3, <1>4, <1>6, <1>7, StepKeeps

\* The claim in hand keeps the key.
LEMMA ClaimKeeps ==
  ASSUME NEW w \in Workers, NEW i \in todo[w], TypeOK, ClaimInv, KeptInv, Undisturbed,
         ClaimEvent(w, i)
  PROVE  KeptInv'
  <1> DEFINE k == stream[i].key
  <1>1. ClaimedIsKept /\ FailuresNameTheirEntry /\ \A v \in Workers : SessionKeeps(v)
    BY DEF KeptInv
  <1>2. k \in Keys /\ \A x \in Keys \ {k} : window'[x] = window[x]
    BY ClaimType DEF Payload, TypeOK, ClaimEvent
  <1>3. /\ UNCHANGED <<stream, retry, dlq, rows, txnRows, pc, aborted>>
        /\ cur[w] = {} /\ pc[w] = "event" /\ state'[w] = "PROCESSING"
        /\ \E c \in cur'[w] : c.key = k
        /\ \A v \in Workers \ {w} : cur'[v] = cur[v] /\ state'[v] = state[v]
    <2> DEFINE claim == [entry |-> i, key |-> k, window |-> window[k] + 1]
    <2>1. claim.key = k /\ cur' = [cur EXCEPT ![w] = {claim}]
      BY DEF ClaimEvent
    <2> HIDE DEF claim, k
    <2>2. claim \in cur'[w] /\ \A v \in Workers \ {w} : cur'[v] = cur[v]
      BY <2>1 DEF TypeOK
    <2>3. /\ UNCHANGED <<stream, retry, dlq, rows, txnRows, pc, aborted>>
          /\ cur[w] = {} /\ pc[w] = "event" /\ state'[w] = "PROCESSING"
          /\ \A v \in Workers \ {w} : state'[v] = state[v]
      BY DEF ClaimEvent, TypeOK, ClaimInv, InHandShape
    <2> QED
      BY <2>1, <2>2, <2>3
  <1> HIDE DEF k
  <1>4. ASSUME NEW x \in Keys, window'[x] > 0 PROVE Kept(x)'
    <2>1. CASE x = k
      BY <1>3, <2>1 DEF Kept, Working
    <2>2. CASE x # k
      <3>1. Kept(x)
        BY <1>1, <1>2, <1>4, <2>2 DEF ClaimedIsKept
      <3>2. \A v \in Workers : Working(v, x) => Working(v, x)'
        BY <1>3 DEF Working
      <3> QED
        BY <1>3, <3>1, <3>2, StaysKept
    <2> QED
      BY <2>1, <2>2
  <1>5. FailuresNameTheirEntry'
    BY <1>1, <1>3 DEF FailuresNameTheirEntry, Ids
  <1>6. \A v \in Workers : SessionKeeps(v)'
    BY <1>1, <1>3 DEF SessionKeeps
  <1> QED
    BY <1>4, <1>5, <1>6 DEF KeptInv, ClaimedIsKept

\* A rejected event is on the dead-letter stream when its worker lets go of it.
LEMMA RejectKeeps ==
  ASSUME NEW w \in Workers, NEW c \in cur[w], TypeOK, ClaimInv, HandledInv, KeptInv,
         Undisturbed, Reject(w, c)
  PROVE  KeptInv'
  <1>1. ClaimedIsKept /\ FailuresNameTheirEntry /\ \A v \in Workers : SessionKeeps(v)
    BY DEF KeptInv
  <1>2. /\ UNCHANGED <<stream, window, retry, rows, txnRows, aborted>>
        /\ dlq' = dlq \cup {c} /\ Finish(w, c.entry)
    BY DEF Reject
  <1>3. /\ \A v \in Workers \ {w} : /\ pc'[v] = pc[v] /\ cur'[v] = cur[v]
                                    /\ state'[v] = state[v]
        /\ pc'[w] \in {"event", "commit"} /\ state'[w] = "NEW"
    BY <1>2 DEF Finish, TypeOK
  <1>4. c.entry \in Ids /\ c.key = stream[c.entry].key /\ \A d \in cur[w] : d = c
    BY DEF TypeOK, HandledInv, InHandIsItsEntry, ClaimInv, InHandShape
  <1>5. \A k : Working(w, k) => Working(w, k)' \/ Kept(k)'
    BY <1>2, <1>4 DEF Working, Kept
  <1>6. SessionKeeps(w)'
    BY <1>1, <1>2, <1>3 DEF SessionKeeps
  <1> QED
    BY <1>1, <1>2, <1>3, <1>4, <1>5, <1>6, StepKeeps

\* Routing and alerting keep the event in hand, and so does a duplicate, which
\* is dropped with nothing in hand.
LEMMA HandlingKeeps ==
  ASSUME NEW w \in Workers, TypeOK, ClaimInv, KeptInv, Undisturbed,
         \/ \E c \in cur[w] : Route(w, c) \/ EmitAlert(w, c)
         \/ \E i \in todo[w] : DropDuplicate(w, i)
  PROVE  KeptInv'
  <1>1. ClaimedIsKept /\ FailuresNameTheirEntry /\ \A v \in Workers : SessionKeeps(v)
    BY DEF KeptInv
  <1>2. /\ UNCHANGED <<stream, window, retry, dlq, rows, txnRows, aborted>>
        /\ cur'[w] = cur[w] /\ pc'[w] \in {pc[w], "event", "commit"}
        /\ state'[w] # "STORED"
        /\ \A v \in Workers \ {w} : /\ pc'[v] = pc[v] /\ cur'[v] = cur[v]
                                    /\ state'[v] = state[v]
    <2>1. CASE \E c \in cur[w] : Route(w, c) \/ EmitAlert(w, c)
      BY <2>1 DEF Route, EmitAlert, TypeOK
    <2>2. CASE \E i \in todo[w] : DropDuplicate(w, i)
      <3>1. cur[w] = {}
        BY <2>2 DEF DropDuplicate, ClaimInv, InHandShape
      <3> QED
        BY <2>2, <3>1 DEF DropDuplicate, Finish, TypeOK
    <2> QED
      BY <2>1, <2>2
  <1>3. SessionKeeps(w)'
    BY <1>1, <1>2 DEF SessionKeeps
  <1>4. \A k : Working(w, k) => Working(w, k)'
    BY <1>2 DEF Working
  <1> QED
    BY <1>1, <1>2, <1>3, <1>4, StepKeeps

\* The row that persist_state writes takes the place of the event in hand.
LEMMA PersistKeeps ==
  ASSUME NEW w \in Workers, NEW c \in cur[w], TypeOK, ClaimInv, KeptInv, Undisturbed,
         PersistState(w, c)
  PROVE  KeptInv'
  <1> DEFINE row == [key |-> c.key, entry |-> c.entry,
                     tier |-> stream[c.entry].tier, state |-> state[w]]
  <1>1. ClaimedIsKept /\ FailuresNameTheirEntry /\ \A v \in Workers : SessionKeeps(v)
    BY DEF KeptInv
  <1>2. /\ UNCHANGED <<stream, window, retry, dlq, rows, aborted>>
        /\ txnRows'[w] = Upsert(txnRows[w], {row})
        /\ \A v \in Workers \ {w} : /\ txnRows'[v] = txnRows[v] /\ pc'[v] = pc[v]
                                    /\ cur'[v] = cur[v] /\ state'[v] = state[v]
        /\ pc[w] = "event" /\ pc'[w] \in {"event", "commit"}
        /\ cur'[w] \subseteq cur[w] /\ \A d \in cur[w] : d = c
    BY DEF PersistState, Finish, TypeOK, ClaimInv, InHandShape
  <1>3. row.key = c.key
    OBVIOUS
  <1> HIDE DEF row
  <1>4. /\ \E r \in txnRows'[w] : r.key = c.key
        /\ \A k : (\E r \in txnRows[w] : r.key = k) => \E r \in txnRows'[w] : r.key = k
    BY <1>2, <1>3 DEF Upsert
  <1>5. \A k : Working(w, k) => Working(w, k)'
    BY <1>2, <1>4 DEF Working
  <1>6. SessionKeeps(w)'
    BY <1>1, <1>2, <1>4 DEF SessionKeeps
  <1> QED
    BY <1>1, <1>2, <1>5, <1>6, StepKeeps

LEMMA NextKeptInv == TypeOK /\ ClaimInv /\ HandledInv /\ KeptInv /\ [Next]_vars => KeptInv'
  <1> SUFFICES ASSUME TypeOK, ClaimInv, HandledInv, KeptInv, [Next]_vars, Undisturbed'
               PROVE  KeptInv'
    BY DEF KeptInv
  <1>1. crashes' >= crashes /\ faults' >= faults /\ crashes \in Nat /\ faults \in Nat
    <2>1. crashes \in Nat /\ faults \in Nat
      BY ConstantsAssumption DEF TypeOK
    <2>2. crashes' \in {crashes, crashes + 1} /\ faults' \in {faults, faults + 1}
      <3>1. ASSUME NEW w \in Workers, WorkerStep(w)
            PROVE  crashes' = crashes /\ faults' \in {faults, faults + 1}
        BY <3>1 DEF WorkerStep, Recover, Read, Commit, CommitFails, Ack, DropDuplicate,
                    ClaimEvent, Reject, Route, EmitAlert, PersistState, StatementFails
      <3>2. ASSUME NEW w \in Workers, Fault(w) \/ Crash(w) \/ Start(w)
            PROVE  crashes' \in {crashes, crashes + 1} /\ faults' \in {faults, faults + 1}
        BY <3>2 DEF Fault, Crash, Start, StatementFails, RedisFails, DedupeFails
      <3> QED
        BY <3>1, <3>2 DEF Next, Publish, BecomeIdle, Expire
    <2> QED
      BY <2>1, <2>2
  <1>2. Undisturbed
    BY <1>1 DEF Undisturbed
  <1>3. ClaimedIsKept /\ FailuresNameTheirEntry /\ \A v \in Workers : SessionKeeps(v)
    BY <1>2 DEF KeptInv
  <1>4. CASE Publish \/ (\E i \in Entries : BecomeIdle(i)) \/ (\E k \in Keys : Expire(k))
             \/ UNCHANGED vars
    <2>1. /\ \A i \in Ids : i \in Ids' /\ stream'[i] = stream[i]
          /\ UNCHANGED <<window, retry, dlq, rows, cur, txnRows, aborted, pc, state>>
      <3>1. CASE Publish
        BY <3>1 DEF Publish, TypeOK, Ids
      <3>2. CASE ~Publish
        BY <1>4, <3>2 DEF BecomeIdle, Expire, Ids
      <3> QED
        BY <3>1, <3>2
    <2>2. ClaimedIsKept'
      BY <1>3, <2>1 DEF ClaimedIsKept, Kept, Working
    <2>3. FailuresNameTheirEntry' /\ \A v \in Workers : SessionKeeps(v)'
      BY <1>3, <2>1 DEF FailuresNameTheirEntry, SessionKeeps
    <2> QED
      BY <2>2, <2>3 DEF KeptInv
  <1>5. ASSUME NEW w \in Workers, WorkerStep(w) \/ Fault(w) \/ Crash(w) \/ Start(w)
        PROVE  KeptInv'
    <2>1. ~CommitFails(w) /\ ~\E c \in cur[w] : aborted[w] /\ StatementFails(w, c)
      BY <1>3 DEF CommitFails, SessionKeeps
    <2>2. ~Fault(w) /\ ~Crash(w)
      <3>1. crashes' # crashes + 1 /\ faults' # faults + 1
        BY <1>1, <1>2 DEF Undisturbed
      <3>2. ~aborted[w]
        BY <1>3 DEF SessionKeeps
      <3> QED
        BY <3>1, <3>2 DEF Fault, Crash, DedupeFails, RedisFails, StatementFails
    <2> QED
      BY <1>2, <1>5, <2>1, <2>2, LoopKeeps, CommitKeeps, ClaimKeeps, RejectKeeps, HandlingKeeps,
         PersistKeeps DEF WorkerStep
  <1> QED
    BY <1>4, <1>5 DEF Next

\* Without a crash and without a failing statement no acknowledged valid event
\* is lost, however many workers take over each other's entries (the dedupe key
\* of process_event is set before its row is committed).
THEOREM UndisturbedNothingIsLost == Spec => []NoLostEventsUndisturbed
  <1>1. Init => HandledInv
    BY DEF Init, HandledInv, SeenWasClaimed, InHandIsItsEntry, ToAckWasHandled,
           AckedWasHandled, Acked, Ids
  <1>2. Init => KeptInv
    BY DEF Init, KeptInv, ClaimedIsKept, FailuresNameTheirEntry, SessionKeeps
  <1>3. TypeOK /\ HandledInv /\ KeptInv => NoLostEventsUndisturbed
    <2> SUFFICES ASSUME TypeOK, HandledInv, KeptInv, Undisturbed,
                        NEW i \in Entries, Acked(i), stream[i].valid
                 PROVE  Kept(stream[i].key)
      BY DEF NoLostEventsUndisturbed, NoLostEvents, Kept, Undisturbed
    <2>1. window[stream[i].key] > 0 \/ \E f \in retry \cup dlq : f.entry = i
      BY DEF HandledInv, AckedWasHandled
    <2>2. stream[i] \in Payload
      BY DEF TypeOK, Acked, Ids
    <2>3. stream[i].key \in Keys
      BY <2>2 DEF Payload
    <2> QED
      BY <2>1, <2>3 DEF KeptInv, ClaimedIsKept, FailuresNameTheirEntry, Kept
  <1> QED
    BY <1>1, <1>2, <1>3, NextHandledInv, NextKeptInv, TypeCorrect, ClaimsCorrect, PTL DEF Spec
=============================================================================
