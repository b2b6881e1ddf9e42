------------------------ MODULE CitizenReportsProofs ------------------------
(***************************************************************************)
(* Proofs about CitizenReports, for every number of authors, reports and   *)
(* officials: its type invariant, that tiers are earned, that the audit    *)
(* log explains the status of a report, and that one incident is verified  *)
(* automatically once, except by requests that overlap.                    *)
(***************************************************************************)
EXTENDS CitizenReports, FiniteSetTheorems, TLAPS

Tiers == {"trusted", "normal", "flagged", "blocked"}
FilingStates ==
    {NoFiling, [step |-> "failed"]} \cup
    [step : {"check", "insert", "stored"}, input : Filings, tier : Tiers, duplicate : BOOLEAN]
DecidingStates ==
    {NotDeciding} \cup
    [step : {"found", "locked", "adjusted"}, report : Reports, verdict : Verdicts]

FilingTypeOK ==
    /\ filing \in [Reports -> FilingStates]
    /\ status \in [Reports -> {"none", "pending"} \cup Verdicts]
    /\ \A r \in Reports : status[r] # "none" <=> filing[r].step = "stored"

DecidingTypeOK ==
    /\ deciding \in [Verifications -> DecidingStates]
    /\ \A v \in Verifications :
          deciding[v] # NotDeciding => status[deciding[v].report] # "none"

ReputationTypeOK ==
    /\ score \in [Authors -> 0..100]
    /\ counts \in [Authors -> [verified : Nat, rejected : Nat]]

ScoresAreEarned == \A u \in Authors : EarnedBy(score[u], counts[u])

\* Recent and automatic reports are stored, and no automatic one had a
\* duplicate: with one the confidence is 0.70 at most.
HistoryOK ==
    /\ recent \subseteq Reports /\ automatic \subseteq Reports
    /\ \A r \in recent \cup automatic : filing[r].step = "stored"
    /\ \A r \in automatic : ~filing[r].duplicate

\* Of two requests under way one began while the other was.
InFlightOverlap ==
    \A r, q \in Reports : r # q /\ InFlight(r) /\ InFlight(q) => {r, q} \in overlapped

\* A request that found no duplicate overlaps with whatever was inserted since.
UnseenOverlap ==
    \A r \in recent, q \in Reports :
       filing[q].step = "insert" /\ ~filing[q].duplicate /\ SameIncident(r, q)
          => {r, q} \in overlapped

AuditTypeOK == audit \in [Reports -> Seq(Verdicts)]

TypeInv == FilingTypeOK /\ DecidingTypeOK /\ ReputationTypeOK
OverlapInv == HistoryOK /\ InFlightOverlap /\ UnseenOverlap /\ VerifiedOncePerIncident
AuditInv == AuditTypeOK /\ StatusIsAudited
IInv == TypeInv /\ ScoresAreEarned /\ OverlapInv /\ AuditInv

-----------------------------------------------------------------------------
\* What a request to verify works on.
LEMMA DecidingType ==
    ASSUME TypeInv, NEW v \in Verifications, deciding[v].step \in {"found", "locked", "adjusted"}
    PROVE  /\ deciding[v].report \in Reports /\ deciding[v].verdict \in Verdicts
           /\ deciding[v] # NotDeciding
           /\ status[deciding[v].report] # "none"
           /\ filing[deciding[v].report].step = "stored"
           /\ AuthorOf(deciding[v].report) \in Authors \cup {Anonymous}
<1>1. deciding[v] # NotDeciding
  BY DEF NotDeciding
<1>2. deciding[v] \in [step : {"found", "locked", "adjusted"}, report : Reports,
                       verdict : Verdicts]
  BY <1>1 DEF TypeInv, DecidingTypeOK, DecidingStates
<1>3. status[deciding[v].report] # "none" /\ filing[deciding[v].report].step = "stored"
  BY <1>1, <1>2 DEF TypeInv, DecidingTypeOK, FilingTypeOK
<1>4. filing[deciding[v].report] \in FilingStates
  BY <1>2 DEF TypeInv, FilingTypeOK
<1>5. filing[deciding[v].report].input \in Filings
  BY <1>3, <1>4 DEF FilingStates, NoFiling
<1>6. QED
  BY <1>1, <1>2, <1>3, <1>5, ReportsAssumption DEF AuthorOf

\* A step of a request that files a report.
LEMMA FilingType ==
    ASSUME TypeInv, NEW r \in Reports, filing[r].step \in {"check", "insert", "stored"}
    PROVE  /\ filing[r] \in [step : {"check", "insert", "stored"}, input : Filings,
                             tier : Tiers, duplicate : BOOLEAN]
           /\ filing[r] # NoFiling
<1>1. filing[r] \in FilingStates
  BY DEF TypeInv, FilingTypeOK
<1>2. QED
  BY <1>1 DEF FilingStates, NoFiling

-----------------------------------------------------------------------------
(***************************************************************************)
(* The confidence of a report.                                             *)
(***************************************************************************)
\* A duplicate is never verified as it is filed.
LEMMA DuplicatesWait ==
    ASSUME NEW f, NEW tier
    PROVE  InitialStatus(f, tier, TRUE) # "verified"
<1> DEFINE known == Points(f.known, 25)
           media == Points(f.media, 15)
           places == Points(f.places, 10)
           trusted == Points(tier = "trusted", 20)
           flagged == Points(tier = "flagged", 20)
           blocked == Points(tier = "blocked", 50)
           duplicate == Points(TRUE, 35)
           confidence == Confidence(f, tier, TRUE)
           s == InitialStatus(f, tier, TRUE)
<1>1. known \in {0, 25} /\ media \in {0, 15} /\ places \in {0, 10}
  BY DEF Points
<1>2. trusted \in {0, 20} /\ flagged \in {0, 20} /\ blocked \in {0, 50} /\ duplicate = 35
  BY DEF Points
<1>3. confidence =
        Clamp(35 + known + media + places + trusted - flagged - blocked - duplicate)
  BY DEF Confidence
<1>4. s = "verified" => confidence >= 85
  BY DEF InitialStatus
<1> HIDE DEF known, media, places, trusted, flagged, blocked, duplicate, confidence, s
<1>5. confidence \in 0..84
  BY <1>1, <1>2, <1>3 DEF Clamp
<1>6. s # "verified"
  BY <1>4, <1>5
<1>7. QED
  BY <1>6 DEF s

\* The status a report is filed with.
LEMMA InitialStatusType ==
    ASSUME NEW f, NEW tier, NEW duplicate
    PROVE  InitialStatus(f, tier, duplicate) \in {"pending"} \cup Verdicts
BY DEF InitialStatus, Verdicts

\* One audited verdict changes a score by no more than it counts.
LEMMA VerdictIsEarned ==
    ASSUME NEW n \in 0..100, NEW verified \in Nat, NEW rejected \in Nat,
           50 - 15 * rejected <= n, n <= 50 + 10 * verified
    PROVE  /\ Clamp(n + 10) \in 0..100 /\ Clamp(n - 15) \in 0..100
           /\ 50 - 15 * rejected <= Clamp(n + 10)
           /\ Clamp(n + 10) <= 50 + 10 * (verified + 1)
           /\ 50 - 15 * (rejected + 1) <= Clamp(n - 15)
           /\ Clamp(n - 15) <= 50 + 10 * verified
BY DEF Clamp

\* Three verdicts lead from the middle to a tier.
LEMMA EarnedTiers ==
    ASSUME NEW n \in 0..100, NEW c \in [verified : Nat, rejected : Nat], EarnedBy(n, c)
    PROVE  /\ Tier(n) = "trusted" => c.verified >= 3
           /\ Tier(n) = "blocked" => c.rejected >= 3
<1>1. c.verified \in Nat /\ c.rejected \in Nat /\ n \in Int
  OBVIOUS
<1>2. 50 - 15 * c.rejected <= n /\ n <= 50 + 10 * c.verified
  BY DEF EarnedBy
<1>3. Tier(n) = "trusted" => n >= 80
  BY <1>1 DEF Tier
<1>4. Tier(n) = "blocked" => n < 10
  BY <1>1 DEF Tier
<1>5. QED
  BY <1>1, <1>2, <1>3, <1>4

-----------------------------------------------------------------------------
LEMMA InitIInv == ReportsInit => IInv
<1>1. SUFFICES ASSUME ReportsInit PROVE IInv
  OBVIOUS
<1>2. /\ \A r \in Reports : filing[r] = NoFiling /\ status[r] = "none" /\ audit[r] = <<>>
      /\ \A v \in Verifications : deciding[v] = NotDeciding
      /\ recent = {} /\ automatic = {}
  BY <1>1 DEF ReportsInit
<1>3. \A r \in Reports : filing[r].step = "none"
  BY <1>2 DEF NoFiling
<1>4. FilingTypeOK
  BY <1>1, <1>2, <1>3 DEF ReportsInit, FilingTypeOK, FilingStates
<1>5. DecidingTypeOK
  BY <1>1, <1>2 DEF ReportsInit, DecidingTypeOK, DecidingStates
<1>6. ReputationTypeOK
  BY <1>1, ReportsAssumption DEF ReportsInit, ReputationTypeOK
<1>7. ScoresAreEarned
  <2>1. ASSUME NEW u \in Authors PROVE EarnedBy(score[u], counts[u])
    <3>1. EarnedBy(Earned[u].score, Earned[u])
      BY ReportsAssumption
    <3>2. score[u] = Earned[u].score /\ counts[u].verified = Earned[u].verified
          /\ counts[u].rejected = Earned[u].rejected
      BY <1>1 DEF ReportsInit
    <3>3. QED
      BY <3>1, <3>2 DEF EarnedBy
  <2>2. QED
    BY <2>1 DEF ScoresAreEarned
<1>8. OverlapInv
  BY <1>2, <1>3 DEF OverlapInv, HistoryOK, InFlightOverlap, UnseenOverlap, InFlight,
                    VerifiedOncePerIncident
<1>9. AuditInv
  BY <1>1, <1>2 DEF ReportsInit, AuditInv, AuditTypeOK, StatusIsAudited
<1>10. QED
  BY <1>4, <1>5, <1>6, <1>7, <1>8, <1>9 DEF IInv, TypeInv

LEMMA StutterIInv == IInv /\ UNCHANGED reportsVars => IInv'
BY DEF IInv, TypeInv, OverlapInv, AuditInv, FilingTypeOK, DecidingTypeOK, ReputationTypeOK,
       ScoresAreEarned, HistoryOK, InFlightOverlap, UnseenOverlap, VerifiedOncePerIncident,
       AuditTypeOK, StatusIsAudited, InFlight, SameIncident, reportsVars, reputationVars,
       filingVars

-----------------------------------------------------------------------------
(***************************************************************************)
(* POST /report                                                            *)
(***************************************************************************)
\* Before a report is stored a step of its request touches nothing but the
\* request, and perhaps the overlaps.
LEMMA FilingFrame ==
    ASSUME IInv, NEW r \in Reports, NEW new \in FilingStates,
           filing[r].step # "stored", new.step # "stored",
           filing' = [filing EXCEPT ![r] = new],
           UNCHANGED <<reputationVars, status, recent, deciding, audit, automatic>>,
           overlapped \subseteq overlapped'
    PROVE  /\ TypeInv' /\ ScoresAreEarned' /\ AuditInv'
           /\ HistoryOK' /\ VerifiedOncePerIncident'
           /\ filing'[r] = new
           /\ \A q \in Reports \ {r} : filing'[q] = filing[q]
<1>1. filing \in [Reports -> FilingStates]
  BY DEF IInv, TypeInv, FilingTypeOK
<1>2. /\ filing' \in [Reports -> FilingStates]
      /\ filing'[r] = new
      /\ \A q \in Reports \ {r} : filing'[q] = filing[q]
  BY <1>1
<1>3. status[r] = "none"
  BY DEF IInv, TypeInv, FilingTypeOK
<1>4. FilingTypeOK'
  BY <1>2, <1>3 DEF IInv, TypeInv, FilingTypeOK, reputationVars
<1>5. DecidingTypeOK' /\ ReputationTypeOK' /\ ScoresAreEarned'
  BY DEF IInv, TypeInv, DecidingTypeOK, ReputationTypeOK, ScoresAreEarned, reputationVars
<1>6. AuditInv'
  BY <1>2, <1>3 DEF IInv, AuditInv, AuditTypeOK, StatusIsAudited, reputationVars, TypeInv,
                    FilingTypeOK
<1>7. \A q \in recent \cup automatic : q \in Reports /\ q # r /\ filing'[q] = filing[q]
  BY <1>2 DEF IInv, OverlapInv, HistoryOK
<1>8. HistoryOK'
  BY <1>7 DEF IInv, OverlapInv, HistoryOK
<1>9. VerifiedOncePerIncident'
  BY <1>7 DEF IInv, OverlapInv, VerifiedOncePerIncident, SameIncident
<1>10. QED
  BY <1>2, <1>4, <1>5, <1>6, <1>8, <1>9 DEF TypeInv

LEMMA BeginReportKeeps ==
    ASSUME IInv, NEW r \in Reports, NEW f \in Filings, BeginReport(r, f)
    PROVE  IInv'
<1> DEFINE new == [step |-> "check", input |-> f, tier |-> AuthorTier(f.author),
                   duplicate |-> FALSE]
<1>1. /\ filing[r].step = "none" /\ filing' = [filing EXCEPT ![r] = new]
      /\ overlapped' = overlapped \cup {{r, q} : q \in {q \in Reports : InFlight(q)}}
      /\ UNCHANGED <<reputationVars, status, recent, deciding, audit, automatic>>
  BY DEF BeginReport, NoFiling
<1>2. new \in FilingStates /\ new.step = "check"
  BY DEF FilingStates, AuthorTier, Tier, Tiers
<1> HIDE DEF new
<1>3. /\ TypeInv' /\ ScoresAreEarned' /\ AuditInv'
      /\ HistoryOK' /\ VerifiedOncePerIncident'
      /\ filing'[r] = new
      /\ \A q \in Reports \ {r} : filing'[q] = filing[q]
  BY <1>1, <1>2, FilingFrame
<1>4. InFlightOverlap'
  <2>1. SUFFICES ASSUME NEW p \in Reports, NEW q \in Reports, p # q, InFlight(p)', InFlight(q)'
                 PROVE  {p, q} \in overlapped'
    BY DEF InFlightOverlap
  <2>2. \A x \in Reports \ {r} : InFlight(x)' => InFlight(x)
    BY <1>3 DEF InFlight
  <2>3. CASE p = r
    BY <1>1, <2>1, <2>2, <2>3
  <2>4. CASE q = r
    <3>1. {r, p} \in overlapped'
      BY <1>1, <2>1, <2>2, <2>4
    <3>2. {r, p} = {p, q}
      BY <2>4
    <3>3. QED
      BY <3>1, <3>2
  <2>5. CASE p # r /\ q # r
    BY <1>1, <2>1, <2>2, <2>5 DEF IInv, OverlapInv, InFlightOverlap
  <2>6. QED
    BY <2>3, <2>4, <2>5
<1>5. UnseenOverlap'
  <2>1. \A p \in recent : p \in Reports \ {r}
    BY <1>1 DEF IInv, OverlapInv, HistoryOK
  <2>2. filing'[r].step # "insert"
    BY <1>2, <1>3
  <2>3. QED
    BY <1>1, <1>3, <2>1, <2>2 DEF IInv, OverlapInv, UnseenOverlap, SameIncident
<1>6. QED
  BY <1>3, <1>4, <1>5 DEF IInv, OverlapInv

LEMMA CheckDuplicateKeeps ==
    ASSUME IInv, NEW r \in Reports, CheckDuplicate(r)
    PROVE  IInv'
<1> DEFINE found == \E q \in recent : SameIncident(r, q)
           new == [filing[r] EXCEPT !.step = "insert", !.duplicate = found]
<1>1. /\ filing[r].step = "check" /\ filing' = [filing EXCEPT ![r] = new]
      /\ UNCHANGED <<reputationVars, status, recent, deciding, audit, automatic, overlapped>>
  BY DEF CheckDuplicate
<1>2. filing[r] \in [step : {"check", "insert", "stored"}, input : Filings,
                     tier : Tiers, duplicate : BOOLEAN]
  BY <1>1, FilingType DEF IInv
<1>3. found \in BOOLEAN
  OBVIOUS
<1> HIDE DEF found
<1>4. /\ new \in FilingStates /\ new.step = "insert" /\ new.duplicate = found
      /\ new.input = filing[r].input
  BY <1>2, <1>3 DEF FilingStates
<1> HIDE DEF new
<1>5. /\ TypeInv' /\ ScoresAreEarned' /\ AuditInv'
      /\ HistoryOK' /\ VerifiedOncePerIncident'
      /\ filing'[r] = new
      /\ \A q \in Reports \ {r} : filing'[q] = filing[q]
  BY <1>1, <1>4, FilingFrame
<1>6. InFlightOverlap'
  BY <1>1, <1>5 DEF IInv, OverlapInv, InFlightOverlap, InFlight
<1>7. UnseenOverlap'
  <2>1. SUFFICES ASSUME NEW p \in recent', NEW q \in Reports, filing'[q].step = "insert",
                        ~filing'[q].duplicate, SameIncident(p, q)'
                 PROVE  {p, q} \in overlapped'
    BY DEF UnseenOverlap
  <2>2. p \in recent /\ p \in Reports \ {r} /\ filing'[p] = filing[p]
    BY <1>1, <1>5, <2>1 DEF IInv, OverlapInv, HistoryOK
  <2>3. CASE q = r
    <3>1. SameIncident(r, p)
      BY <1>4, <1>5, <2>1, <2>2, <2>3 DEF SameIncident
    <3>2. found
      BY <2>2, <3>1 DEF found
    <3>3. QED
      BY <1>4, <1>5, <2>1, <2>3, <3>2
  <2>4. CASE q # r
    BY <1>1, <1>5, <2>1, <2>2, <2>4 DEF IInv, OverlapInv, UnseenOverlap, SameIncident
  <2>5. QED
    BY <2>3, <2>4
<1>8. QED
  BY <1>5, <1>6, <1>7 DEF IInv, OverlapInv

LEMMA ReportFailsKeeps ==
    ASSUME IInv, NEW r \in Reports, ReportFails(r)
    PROVE  IInv'
<1> DEFINE new == [step |-> "failed"]
<1>1. /\ filing[r].step # "stored" /\ filing' = [filing EXCEPT ![r] = new]
      /\ UNCHANGED <<reputationVars, status, recent, deciding, audit, automatic, overlapped>>
  BY DEF ReportFails, InFlight
<1>2. new \in FilingStates /\ new.step = "failed"
  BY DEF FilingStates
<1> HIDE DEF new
<1>3. /\ TypeInv' /\ ScoresAreEarned' /\ AuditInv'
      /\ HistoryOK' /\ VerifiedOncePerIncident'
      /\ filing'[r] = new
      /\ \A q \in Reports \ {r} : filing'[q] = filing[q]
  BY <1>1, <1>2, FilingFrame
<1>4. InFlightOverlap'
  BY <1>1, <1>2, <1>3 DEF IInv, OverlapInv, InFlightOverlap, InFlight
<1>5. UnseenOverlap'
  <2>1. \A p \in recent : p \in Reports \ {r}
    BY <1>1 DEF IInv, OverlapInv, HistoryOK
  <2>2. QED
    BY <1>1, <1>2, <1>3, <2>1 DEF IInv, OverlapInv, UnseenOverlap, SameIncident
<1>6. QED
  BY <1>3, <1>4, <1>5 DEF IInv, OverlapInv

LEMMA InsertReportKeeps ==
    ASSUME IInv, NEW r \in Reports, InsertReport(r)
    PROVE  IInv'
<1> DEFINE s == InitialStatus(filing[r].input, filing[r].tier, filing[r].duplicate)
           new == [filing[r] EXCEPT !.step = "stored"]
<1>1. /\ filing[r].step = "insert" /\ filing' = [filing EXCEPT ![r] = new]
      /\ status' = [status EXCEPT ![r] = s]
      /\ recent' = recent \cup {r}
      /\ automatic' = IF s = "verified" THEN automatic \cup {r} ELSE automatic
      /\ UNCHANGED <<reputationVars, deciding, audit, overlapped>>
  BY DEF InsertReport
<1>2. filing[r] \in [step : {"check", "insert", "stored"}, input : Filings,
                     tier : Tiers, duplicate : BOOLEAN]
  BY <1>1, FilingType DEF IInv
<1>3. s \in {"pending"} \cup Verdicts
  BY InitialStatusType
<1>4. s = "verified" => ~filing[r].duplicate
  BY <1>2, DuplicatesWait
<1>5. /\ new \in FilingStates /\ new.step = "stored" /\ new.duplicate = filing[r].duplicate
      /\ new.input = filing[r].input /\ new.tier = filing[r].tier
  BY <1>2 DEF FilingStates
<1>6. s = InitialStatus(new.input, new.tier, new.duplicate)
  BY <1>5
<1> HIDE DEF s, new
<1>7. filing \in [Reports -> FilingStates]
      /\ status \in [Reports -> {"none", "pending"} \cup Verdicts] /\ status[r] = "none"
  BY <1>1 DEF IInv, TypeInv, FilingTypeOK
<1>8. /\ filing' \in [Reports -> FilingStates] /\ filing'[r] = new
      /\ \A q \in Reports \ {r} : filing'[q] = filing[q]
      /\ status' \in [Reports -> {"none", "pending"} \cup Verdicts] /\ status'[r] = s
      /\ \A q \in Reports \ {r} : status'[q] = status[q]
  BY <1>1, <1>3, <1>5, <1>7
<1>9. s # "none"
  BY <1>3 DEF Verdicts
<1>10. FilingTypeOK'
  BY <1>5, <1>8, <1>9 DEF IInv, TypeInv, FilingTypeOK
<1>11. DecidingTypeOK'
  <2>1. ASSUME NEW v \in Verifications, deciding[v] # NotDeciding
        PROVE  deciding[v].report \in Reports /\ status'[deciding[v].report] # "none"
    <3>1. deciding[v].report \in Reports /\ status[deciding[v].report] # "none"
      BY <2>1 DEF IInv, TypeInv, DecidingTypeOK, DecidingStates
    <3>2. QED
      BY <1>7, <1>8, <1>9, <3>1
  <2>2. QED
    BY <1>1, <2>1 DEF IInv, TypeInv, DecidingTypeOK
<1>12. ReputationTypeOK' /\ ScoresAreEarned'
  BY <1>1 DEF IInv, TypeInv, ReputationTypeOK, ScoresAreEarned, reputationVars
<1>13. AuditInv'
  <2>1. audit' = audit /\ AuditTypeOK'
    BY <1>1 DEF IInv, AuditInv, AuditTypeOK
  <2>2. audit[r] = <<>>
    <3>1. audit[r] # <<>> => status[r] = audit[r][Len(audit[r])]
      BY DEF IInv, AuditInv, StatusIsAudited
    <3>2. audit[r] # <<>> => audit[r][Len(audit[r])] \in Verdicts
      BY DEF IInv, AuditInv, AuditTypeOK
    <3>3. QED
      BY <1>7, <3>1, <3>2 DEF Verdicts
  <2>3. StatusIsAudited'
    BY <1>6, <1>8, <2>1, <2>2 DEF IInv, AuditInv, StatusIsAudited
  <2>4. QED
    BY <2>1, <2>3 DEF AuditInv
<1>14. \A q \in recent \cup automatic : q \in Reports /\ q # r /\ filing'[q] = filing[q]
  BY <1>1, <1>8 DEF IInv, OverlapInv, HistoryOK
<1>15. HistoryOK'
  BY <1>1, <1>4, <1>5, <1>8, <1>14 DEF IInv, OverlapInv, HistoryOK
<1>16. InFlightOverlap'
  BY <1>1, <1>5, <1>8 DEF IInv, OverlapInv, InFlightOverlap, InFlight
<1>17. UnseenOverlap'
  <2>1. SUFFICES ASSUME NEW p \in recent', NEW q \in Reports, filing'[q].step = "insert",
                        ~filing'[q].duplicate, SameIncident(p, q)'
                 PROVE  {p, q} \in overlapped'
    BY DEF UnseenOverlap
  <2>2. q # r /\ filing'[q] = filing[q]
    BY <1>5, <1>8, <2>1
  <2>3. CASE p = r
    <3>1. InFlight(r) /\ InFlight(q)
      BY <1>1, <2>1, <2>2 DEF InFlight
    <3>2. QED
      BY <1>1, <2>2, <2>3, <3>1 DEF IInv, OverlapInv, InFlightOverlap
  <2>4. CASE p # r
    <3>1. p \in recent /\ filing'[p] = filing[p]
      BY <1>1, <1>14, <2>1, <2>4
    <3>2. QED
      BY <1>1, <2>1, <2>2, <3>1 DEF IInv, OverlapInv, UnseenOverlap, SameIncident
  <2>5. QED
    BY <2>3, <2>4
<1>18. VerifiedOncePerIncident'
  <2>1. SUFFICES ASSUME NEW p \in automatic' \cap recent', NEW q \in automatic' \cap recent',
                        p # q, SameIncident(p, q)'
                 PROVE  {p, q} \in overlapped'
    BY DEF VerifiedOncePerIncident
  <2>2. r \in automatic' => ~filing[r].duplicate
    BY <1>1, <1>4, <1>14
  <2>3. ASSUME NEW x \in automatic' \cap recent', x # r
        PROVE  x \in automatic \cap recent /\ filing'[x] = filing[x]
    BY <1>1, <1>14, <2>3
  <2>4. CASE q = r
    <3>1. p \in recent /\ SameIncident(p, r)
      BY <1>5, <1>8, <2>1, <2>3, <2>4 DEF SameIncident
    <3>2. QED
      BY <1>1, <2>1, <2>2, <2>4, <3>1 DEF IInv, OverlapInv, UnseenOverlap
  <2>5. CASE p = r
    <3>1. q \in recent /\ SameIncident(q, r)
      BY <1>5, <1>8, <2>1, <2>3, <2>5 DEF SameIncident
    <3>2. {q, p} \in overlapped
      BY <1>1, <2>1, <2>2, <2>5, <3>1 DEF IInv, OverlapInv, UnseenOverlap
    <3>3. {q, p} = {p, q}
      OBVIOUS
    <3>4. QED
      BY <1>1, <3>2, <3>3
  <2>6. CASE p # r /\ q # r
    BY <1>1, <2>1, <2>3, <2>6 DEF IInv, OverlapInv, VerifiedOncePerIncident, SameIncident
  <2>7. QED
    BY <2>4, <2>5, <2>6
<1>19. QED
  BY <1>10, <1>11, <1>12, <1>13, <1>15, <1>16, <1>17, <1>18 DEF IInv, TypeInv, OverlapInv

LEMMA HalfHourPassesKeeps ==
    ASSUME IInv, NEW r \in Reports, HalfHourPasses(r)
    PROVE  IInv'
BY DEF IInv, TypeInv, OverlapInv, AuditInv, FilingTypeOK, DecidingTypeOK, ReputationTypeOK,
       ScoresAreEarned, HistoryOK, InFlightOverlap, UnseenOverlap, VerifiedOncePerIncident,
       AuditTypeOK, StatusIsAudited, InFlight, SameIncident, HalfHourPasses, reputationVars

-----------------------------------------------------------------------------
(***************************************************************************)
(* POST /verify                                                            *)
(***************************************************************************)
\* Before its commit a request to verify touches nothing but itself.
LEMMA DecidingFrame ==
    ASSUME IInv, NEW v \in Verifications, NEW new \in DecidingStates,
           new # NotDeciding => status[new.report] # "none",
           deciding' = [deciding EXCEPT ![v] = new],
           UNCHANGED <<reputationVars, filingVars, status, audit>>
    PROVE  IInv'
<1>1. deciding \in [Verifications -> DecidingStates]
  BY DEF IInv, TypeInv, DecidingTypeOK
<1>2. DecidingTypeOK'
  BY <1>1 DEF IInv, TypeInv, DecidingTypeOK
<1>3. FilingTypeOK' /\ ReputationTypeOK' /\ ScoresAreEarned'
  BY DEF IInv, TypeInv, FilingTypeOK, ReputationTypeOK, ScoresAreEarned, reputationVars,
         filingVars
<1>4. OverlapInv'
  BY DEF IInv, OverlapInv, HistoryOK, InFlightOverlap, UnseenOverlap, VerifiedOncePerIncident,
         InFlight, SameIncident, filingVars
<1>5. AuditInv'
  BY DEF IInv, AuditInv, AuditTypeOK, StatusIsAudited, filingVars
<1>6. QED
  BY <1>2, <1>3, <1>4, <1>5 DEF IInv, TypeInv

LEMMA BeginVerifyKeeps ==
    ASSUME IInv, NEW v \in Verifications, NEW r \in Reports, NEW verdict \in Verdicts,
           BeginVerify(v, r, verdict)
    PROVE  IInv'
<1> DEFINE new == [step |-> "found", report |-> r, verdict |-> verdict]
<1>1. /\ deciding' = [deciding EXCEPT ![v] = new] /\ status[r] # "none"
      /\ UNCHANGED <<reputationVars, filingVars, status, audit>>
  BY DEF BeginVerify
<1>2. new \in DecidingStates /\ new.report = r
  BY DEF DecidingStates
<1> HIDE DEF new
<1>3. QED
  BY <1>1, <1>2, DecidingFrame

\* Waiting for a row lock.
LEMMA LocksKeep ==
    ASSUME IInv, NEW v \in Verifications, LockReport(v) \/ LockReputation(v)
    PROVE  IInv'
<1>1. PICK step \in {"locked", "adjusted"} :
         /\ deciding[v].step \in {"found", "locked"}
         /\ deciding' = [deciding EXCEPT ![v] = [deciding[v] EXCEPT !.step = step]]
         /\ UNCHANGED <<reputationVars, filingVars, status, audit>>
  BY DEF LockReport, LockReputation
<1> DEFINE new == [deciding[v] EXCEPT !.step = step]
<1>2. deciding[v] # NotDeciding /\ deciding[v] \in DecidingStates
      /\ status[deciding[v].report] # "none"
  BY <1>1, DecidingType DEF IInv, TypeInv, DecidingTypeOK
<1>3. new \in DecidingStates /\ new.report = deciding[v].report
  BY <1>2 DEF DecidingStates
<1>4. deciding' = [deciding EXCEPT ![v] = new]
  BY <1>1
<1> HIDE DEF new
<1>5. QED
  BY <1>1, <1>2, <1>3, <1>4, DecidingFrame

LEMMA VerifyFailsKeeps ==
    ASSUME IInv, NEW v \in Verifications, VerifyFails(v)
    PROVE  IInv'
<1>1. /\ deciding' = [deciding EXCEPT ![v] = NotDeciding]
      /\ UNCHANGED <<reputationVars, filingVars, status, audit>>
  BY DEF VerifyFails
<1>2. NotDeciding \in DecidingStates
  BY DEF DecidingStates
<1>3. QED
  BY <1>1, <1>2, DecidingFrame

\* What the commit leaves of the author's reputation.
LEMMA DecideReputation ==
    ASSUME IInv, NEW v \in Verifications, Decide(v)
    PROVE  ReputationTypeOK' /\ ScoresAreEarned'
<1> DEFINE d == deciding[v]
           u == AuthorOf(d.report)
<1>1. d.step = "adjusted" /\ d.verdict \in Verdicts /\ u \in Authors \cup {Anonymous}
  BY DecidingType DEF IInv, Decide
<1>2. score \in [Authors -> 0..100] /\ counts \in [Authors -> [verified : Nat, rejected : Nat]]
      /\ ScoresAreEarned
  BY DEF IInv, TypeInv, ReputationTypeOK
<1>3. CASE u = Anonymous
  <2>1. UNCHANGED reputationVars
    BY <1>3 DEF Decide
  <2>2. QED
    BY <1>2, <2>1 DEF ReputationTypeOK, ScoresAreEarned, reputationVars
<1>4. CASE u # Anonymous
  <2> DEFINE n == Clamp(score[u] + Delta(d.verdict))
             c == [counts[u] EXCEPT ![d.verdict] = @ + 1]
  <2>1. u \in Authors
    BY <1>1, <1>4
  <2>2. score' = [score EXCEPT ![u] = n] /\ counts' = [counts EXCEPT ![u] = c]
    BY <1>4 DEF Decide
  <2>3. /\ score[u] \in 0..100 /\ counts[u] \in [verified : Nat, rejected : Nat]
        /\ 50 - 15 * counts[u].rejected <= score[u] /\ score[u] <= 50 + 10 * counts[u].verified
    BY <1>2, <2>1 DEF ScoresAreEarned, EarnedBy
  <2>4. n \in 0..100 /\ c \in [verified : Nat, rejected : Nat] /\ EarnedBy(n, c)
    <3>1. CASE d.verdict = "verified"
      <4>1. n = Clamp(score[u] + 10)
        BY <3>1 DEF Delta
      <4>2. c = [counts[u] EXCEPT !.verified = @ + 1]
        BY <3>1
      <4>3. /\ c \in [verified : Nat, rejected : Nat]
            /\ c.verified = counts[u].verified + 1 /\ c.rejected = counts[u].rejected
        BY <2>3, <4>2
      <4> HIDE DEF n, c
      <4>4. QED
        BY <2>3, <4>1, <4>3, VerdictIsEarned DEF EarnedBy
    <3>2. CASE d.verdict = "rejected"
      <4>1. n = Clamp(score[u] - 15)
        BY <2>3, <3>2 DEF Delta
      <4>2. c = [counts[u] EXCEPT !.rejected = @ + 1]
        BY <3>2
      <4>3. /\ c \in [verified : Nat, rejected : Nat]
            /\ c.rejected = counts[u].rejected + 1 /\ c.verified = counts[u].verified
        BY <2>3, <4>2
      <4> HIDE DEF n, c
      <4>4. QED
        BY <2>3, <4>1, <4>3, VerdictIsEarned DEF EarnedBy
    <3>3. QED
      BY <1>1, <3>1, <3>2 DEF Verdicts
  <2> HIDE DEF n, c, u
  <2>5. /\ score' \in [Authors -> 0..100]
        /\ counts' \in [Authors -> [verified : Nat, rejected : Nat]]
        /\ score'[u] = n /\ counts'[u] = c
        /\ \A w \in Authors \ {u} : score'[w] = score[w] /\ counts'[w] = counts[w]
    BY <1>2, <2>1, <2>2, <2>4
  <2>6. \A w \in Authors : EarnedBy(score'[w], counts'[w])
    BY <1>2, <2>4, <2>5 DEF ScoresAreEarned
  <2>7. QED
    BY <2>5, <2>6 DEF ReputationTypeOK, ScoresAreEarned
<1>5. QED
  BY <1>3, <1>4

LEMMA DecideKeeps ==
    ASSUME IInv, NEW v \in Verifications, Decide(v)
    PROVE  IInv'
<1> DEFINE r == deciding[v].report
           verdict == deciding[v].verdict
<1>1. /\ deciding' = [deciding EXCEPT ![v] = NotDeciding]
      /\ status' = [status EXCEPT ![r] = verdict]
      /\ audit' = [audit EXCEPT ![r] = Append(audit[r], verdict)]
      /\ UNCHANGED filingVars
  BY DEF Decide
<1>2. r \in Reports /\ verdict \in Verdicts /\ status[r] # "none"
  BY DecidingType DEF IInv, Decide
<1> HIDE DEF r, verdict
<1>3. ReputationTypeOK' /\ ScoresAreEarned'
  BY DecideReputation
<1>4. /\ filing \in [Reports -> FilingStates]
      /\ status \in [Reports -> {"none", "pending"} \cup Verdicts]
      /\ deciding \in [Verifications -> DecidingStates]
      /\ audit \in [Reports -> Seq(Verdicts)]
  BY DEF IInv, TypeInv, FilingTypeOK, DecidingTypeOK, AuditInv, AuditTypeOK
<1>5. verdict # "none"
  BY <1>2 DEF Verdicts
<1>6. /\ status' \in [Reports -> {"none", "pending"} \cup Verdicts] /\ status'[r] = verdict
      /\ \A q \in Reports \ {r} : status'[q] = status[q]
      /\ \A q \in Reports : status'[q] # "none" <=> status[q] # "none"
  BY <1>1, <1>2, <1>4, <1>5
<1>7. FilingTypeOK'
  BY <1>1, <1>6 DEF IInv, TypeInv, FilingTypeOK, filingVars
<1>8. DecidingTypeOK'
  <2>1. /\ deciding' \in [Verifications -> DecidingStates]
        /\ deciding'[v] = NotDeciding
        /\ \A w \in Verifications \ {v} : deciding'[w] = deciding[w]
    BY <1>1, <1>4 DEF DecidingStates
  <2>2. ASSUME NEW w \in Verifications, deciding'[w] # NotDeciding
        PROVE  status'[deciding'[w].report] # "none"
    <3>1. deciding'[w] = deciding[w] /\ deciding[w] # NotDeciding
      BY <2>1, <2>2
    <3>2. deciding[w].report \in Reports /\ status[deciding[w].report] # "none"
      BY <1>4, <3>1 DEF IInv, TypeInv, DecidingTypeOK, DecidingStates
    <3>3. QED
      BY <1>6, <3>1, <3>2
  <2>3. QED
    BY <2>1, <2>2 DEF DecidingTypeOK
<1>9. OverlapInv'
  BY <1>1 DEF IInv, OverlapInv, HistoryOK, InFlightOverlap, UnseenOverlap,
              VerifiedOncePerIncident, InFlight, SameIncident, filingVars
<1>10. AuditInv'
  <2> DEFINE log == Append(audit[r], verdict)
  <2>1. log \in Seq(Verdicts) /\ log # <<>> /\ log[Len(log)] = verdict
    <3>1. audit[r] \in Seq(Verdicts)
      BY <1>2, <1>4
    <3>2. log \in Seq(Verdicts) /\ Len(log) = Len(audit[r]) + 1
          /\ log[Len(audit[r]) + 1] = verdict
      BY <1>2, <3>1
    <3>3. QED
      BY <3>1, <3>2
  <2> HIDE DEF log
  <2>2. /\ audit' \in [Reports -> Seq(Verdicts)] /\ audit'[r] = log
        /\ \A q \in Reports \ {r} : audit'[q] = audit[q]
    BY <1>1, <1>2, <1>4, <2>1 DEF log
  <2>3. filing' = filing
    BY <1>1 DEF filingVars
  <2>4. \A q \in Reports :
           /\ audit'[q] # <<>> => status'[q] = audit'[q][Len(audit'[q])]
           /\ status'[q] # "none" /\ audit'[q] = <<>> =>
                 status'[q] = InitialStatus(filing[q].input, filing[q].tier, filing[q].duplicate)
    BY <1>6, <2>1, <2>2 DEF IInv, AuditInv, StatusIsAudited
  <2>5. QED
    BY <2>2, <2>3, <2>4 DEF AuditInv, AuditTypeOK, StatusIsAudited
<1>11. QED
  BY <1>3, <1>7, <1>8, <1>9, <1>10 DEF IInv, TypeInv

-----------------------------------------------------------------------------
LEMMA NextIInv == IInv /\ [ReportsNext]_reportsVars => IInv'
<1>1. SUFFICES ASSUME IInv, [ReportsNext]_reportsVars PROVE IInv'
  OBVIOUS
<1>2. ASSUME NEW r \in Reports,
             \/ \E f \in Filings : BeginReport(r, f)
             \/ CheckDuplicate(r) \/ InsertReport(r) \/ ReportFails(r) \/ HalfHourPasses(r)
      PROVE  IInv'
  BY <1>1, <1>2, BeginReportKeeps, CheckDuplicateKeeps, InsertReportKeeps, ReportFailsKeeps,
     HalfHourPassesKeeps
<1>3. ASSUME NEW v \in Verifications,
             \/ \E r \in Reports, verdict \in Verdicts : BeginVerify(v, r, verdict)
             \/ LockReport(v) \/ LockReputation(v) \/ Decide(v) \/ VerifyFails(v)
      PROVE  IInv'
  BY <1>1, <1>3, BeginVerifyKeeps, LocksKeep, DecideKeeps, VerifyFailsKeeps
<1>4. CASE UNCHANGED reportsVars
  BY <1>1, <1>4, StutterIInv
<1>5. QED
  BY <1>1, <1>2, <1>3, <1>4 DEF ReportsNext

LEMMA Invariance == ReportsSpec => []IInv
BY InitIInv, NextIInv, PTL DEF ReportsSpec

\* Scores never leave 0..100, and requests and rows keep the shapes that their
\* handlers give them (report_citizen_event, verify_citizen_report).
THEOREM ReportsTypeCorrect == ReportsSpec => []ReportsTypeOK
<1>1. IInv => ReportsTypeOK
  BY DEF IInv, TypeInv, FilingTypeOK, DecidingTypeOK, ReputationTypeOK, ReportsTypeOK,
         FilingStates, DecidingStates, Tiers
<1>2. QED
  BY <1>1, Invariance, PTL

\* A tier is earned by three verdicts (adjust_reputation): repeated and
\* concurrent decisions move a score only together with its counters, and the
\* clamp only brings it nearer to the middle.
THEOREM TiersFollowVerdicts == ReportsSpec => []TiersAreEarned
<1>1. IInv => TiersAreEarned
  <2>1. SUFFICES ASSUME IInv, NEW u \in Authors
                 PROVE  /\ EarnedBy(score[u], counts[u])
                        /\ Tier(score[u]) = "trusted" => counts[u].verified >= 3
                        /\ Tier(score[u]) = "blocked" => counts[u].rejected >= 3
    BY DEF TiersAreEarned
  <2>2. /\ score[u] \in 0..100 /\ counts[u] \in [verified : Nat, rejected : Nat]
        /\ EarnedBy(score[u], counts[u])
    BY <2>1 DEF IInv, TypeInv, ReputationTypeOK, ScoresAreEarned
  <2>3. QED
    BY <2>2, EarnedTiers
<1>2. QED
  BY <1>1, Invariance, PTL

\* The status of a report is its last audited verdict, or the one it was filed
\* with, however decisions of officials interleave and fail (verify_report).
THEOREM AuditGivesStatus == ReportsSpec => []StatusIsAudited
<1>1. IInv => StatusIsAudited
  BY DEF IInv, AuditInv
<1>2. QED
  BY <1>1, Invariance, PTL

\* Two reports of one incident are both verified as they are filed only if
\* their requests overlapped (has_duplicate_report before the INSERT).
THEOREM OneAutomaticVerification == ReportsSpec => []VerifiedOncePerIncident
<1>1. IInv => VerifiedOncePerIncident
  BY DEF IInv, OverlapInv
<1>2. QED
  BY <1>1, Invariance, PTL

-----------------------------------------------------------------------------
(***************************************************************************)
(* The counters of an author are the audited verdicts.                     *)
(***************************************************************************)
CountInv ==
    /\ \A r \in Reports : status[r] = "none" => audit[r] = <<>>
    /\ \A u \in Authors, verdict \in Verdicts : IsFiniteSet(AuditedFor(u, verdict))
    /\ CountsAreAudited

LEMMA AuditedForMember ==
    ASSUME NEW u, NEW verdict, NEW e
    PROVE  e \in AuditedFor(u, verdict) <=>
             \E r \in Reports :
               /\ status[r] # "none" /\ filing[r].input.author = u
               /\ \E i \in DOMAIN audit[r] : e = <<r, i>> /\ audit[r][i] = verdict
BY DEF AuditedFor, AuthorOf

\* A step that decides nothing keeps the audited verdicts of every author: a
\* report that comes to be stored has none.
LEMMA CountFrame ==
    ASSUME IInv, CountInv, UNCHANGED <<counts, audit>>,
           \A r \in Reports : status[r] # "none" =>
              status'[r] # "none" /\ filing'[r].input.author = filing[r].input.author
    PROVE  CountInv'
<1>1. \A r \in Reports : status[r] = "none" => DOMAIN audit[r] = {}
  BY DEF CountInv
<1>2. ASSUME NEW u, NEW verdict PROVE AuditedFor(u, verdict)' = AuditedFor(u, verdict)
  <2>1. \A e : e \in AuditedFor(u, verdict)' <=>
             \E r \in Reports :
               /\ status'[r] # "none" /\ filing'[r].input.author = u
               /\ \E i \in DOMAIN audit[r] : e = <<r, i>> /\ audit[r][i] = verdict
    BY DEF AuditedFor, AuthorOf
  <2>2. \A e : e \in AuditedFor(u, verdict)' <=> e \in AuditedFor(u, verdict)
    BY <1>1, <2>1, AuditedForMember
  <2>3. QED
    BY <2>2
<1>3. QED
  BY <1>2 DEF CountInv, CountsAreAudited

LEMMA DecideCounts ==
    ASSUME IInv, CountInv, NEW v \in Verifications, Decide(v)
    PROVE  CountInv'
<1> DEFINE r == deciding[v].report
           verdict == deciding[v].verdict
           n == Len(audit[r]) + 1
           author == filing[r].input.author
<1>1. /\ status' = [status EXCEPT ![r] = verdict]
      /\ audit' = [audit EXCEPT ![r] = Append(audit[r], verdict)]
      /\ UNCHANGED filing
  BY DEF Decide, filingVars
<1>0. /\ author = Anonymous => UNCHANGED counts
      /\ author # Anonymous =>
            counts' = [counts EXCEPT ![author] = [counts[author] EXCEPT ![verdict] = @ + 1]]
  BY DEF Decide, reputationVars, AuthorOf
<1>2. r \in Reports /\ verdict \in Verdicts /\ status[r] # "none"
      /\ author \in Authors \cup {Anonymous}
  BY DecidingType DEF IInv, Decide, AuthorOf
<1> HIDE DEF r, verdict, n, author
<1>3. /\ status \in [Reports -> {"none", "pending"} \cup Verdicts]
      /\ audit \in [Reports -> Seq(Verdicts)]
      /\ counts \in [Authors -> [verified : Nat, rejected : Nat]]
  BY DEF IInv, TypeInv, FilingTypeOK, AuditInv, AuditTypeOK, ReputationTypeOK
<1>4. /\ status'[r] = verdict /\ \A q \in Reports \ {r} : status'[q] = status[q]
      /\ audit'[r] = Append(audit[r], verdict)
      /\ \A q \in Reports \ {r} : audit'[q] = audit[q]
      /\ verdict # "none"
  BY <1>1, <1>2, <1>3 DEF Verdicts
<1>5. /\ audit[r] \in Seq(Verdicts) /\ DOMAIN audit[r] = 1..(n - 1) /\ n \in Nat \ {0}
      /\ DOMAIN audit'[r] = 1..n /\ audit'[r][n] = verdict
      /\ \A i \in 1..(n - 1) : audit'[r][i] = audit[r][i]
  BY <1>2, <1>3, <1>4 DEF n
<1>6. ASSUME NEW u \in Authors, NEW x \in Verdicts
      PROVE  /\ u = author /\ x = verdict =>
                   AuditedFor(u, x)' = AuditedFor(u, x) \cup {<<r, n>>}
             /\ ~(u = author /\ x = verdict) => AuditedFor(u, x)' = AuditedFor(u, x)
             /\ <<r, n>> \notin AuditedFor(u, x)
  <2>1. \A e : e \in AuditedFor(u, x)' <=>
             \E q \in Reports :
               /\ status'[q] # "none" /\ filing[q].input.author = u
               /\ \E i \in DOMAIN audit'[q] : e = <<q, i>> /\ audit'[q][i] = x
    BY <1>1 DEF AuditedFor, AuthorOf
  <2>2. <<r, n>> \notin AuditedFor(u, x)
    BY <1>5, AuditedForMember
  <2>3. ASSUME NEW e, e \in AuditedFor(u, x) PROVE e \in AuditedFor(u, x)'
    <3>1. PICK q \in Reports :
             /\ status[q] # "none" /\ filing[q].input.author = u
             /\ \E i \in DOMAIN audit[q] : e = <<q, i>> /\ audit[q][i] = x
      BY <2>3, AuditedForMember
    <3>2. CASE q = r
      BY <1>2, <1>4, <1>5, <2>1, <3>1, <3>2
    <3>3. CASE q # r
      BY <1>4, <2>1, <3>1, <3>3
    <3>4. QED
      BY <3>2, <3>3
  <2>4. ASSUME NEW e, e \in AuditedFor(u, x)'
        PROVE  e \in AuditedFor(u, x) \/ (e = <<r, n>> /\ u = author /\ x = verdict)
    <3>1. PICK q \in Reports :
             /\ status'[q] # "none" /\ filing[q].input.author = u
             /\ \E i \in DOMAIN audit'[q] : e = <<q, i>> /\ audit'[q][i] = x
      BY <2>1, <2>4
    <3>2. CASE q = r
      <4>1. PICK i \in 1..n : e = <<r, i>> /\ audit'[r][i] = x
        BY <1>5, <3>1, <3>2
      <4>2. CASE i = n
        BY <1>5, <3>1, <3>2, <4>1, <4>2 DEF author
      <4>3. CASE i \in 1..(n - 1)
        BY <1>2, <1>5, <3>1, <3>2, <4>1, <4>3, AuditedForMember
      <4>4. QED
        BY <1>5, <4>2, <4>3
    <3>3. CASE q # r
      BY <1>4, <3>1, <3>3, AuditedForMember
    <3>4. QED
      BY <3>2, <3>3
  <2>5. u = author /\ x = verdict => <<r, n>> \in AuditedFor(u, x)'
    BY <1>2, <1>4, <1>5, <2>1 DEF author
  <2>6. QED
    BY <2>2, <2>3, <2>4, <2>5
<1>7. ASSUME NEW u \in Authors, NEW x \in Verdicts
      PROVE  /\ IsFiniteSet(AuditedFor(u, x)')
             /\ Cardinality(AuditedFor(u, x)') = Cardinality(AuditedFor(u, x))
                  + IF u = author /\ x = verdict THEN 1 ELSE 0
  <2>1. IsFiniteSet(AuditedFor(u, x)) /\ Cardinality(AuditedFor(u, x)) \in Nat
    BY FS_CardinalityType DEF CountInv
  <2>2. QED
    BY <1>6, <2>1, FS_AddElement
<1>8. ASSUME NEW u \in Authors, NEW x \in Verdicts
      PROVE  counts'[u][x] = counts[u][x] + IF u = author /\ x = verdict THEN 1 ELSE 0
  <2>0. counts[u][x] \in Nat /\ Anonymous \notin Authors
    BY <1>3, ReportsAssumption DEF Verdicts
  <2>1. CASE author = Anonymous
    BY <1>0, <2>0, <2>1
  <2>2. CASE author # Anonymous
    <3>1. author \in Authors /\ counts[author] \in [verified : Nat, rejected : Nat]
      BY <1>2, <1>3, <2>2
    <3>2. counts'[u] = IF u = author THEN [counts[author] EXCEPT ![verdict] = @ + 1]
                       ELSE counts[u]
      <4> DEFINE c == [counts[author] EXCEPT ![verdict] = @ + 1]
      <4>1. counts' = [counts EXCEPT ![author] = c]
        BY <1>0, <2>2
      <4> HIDE DEF c
      <4>2. counts'[u] = IF u = author THEN c ELSE counts[u]
        BY <1>3, <4>1
      <4>3. QED
        BY <4>2 DEF c
    <3>3. QED
      BY <1>2, <2>0, <3>1, <3>2 DEF Verdicts
  <2>3. QED
    BY <2>1, <2>2
<1>9. ASSUME NEW u \in Authors, NEW x \in Verdicts
      PROVE  counts'[u][x] = Earned[u][x] + Cardinality(AuditedFor(u, x)')
  <2>1. /\ counts[u][x] = Earned[u][x] + Cardinality(AuditedFor(u, x))
        /\ IsFiniteSet(AuditedFor(u, x))
    BY DEF CountInv, CountsAreAudited
  <2>2. Cardinality(AuditedFor(u, x)) \in Nat /\ Earned[u][x] \in Nat
    BY <2>1, FS_CardinalityType, ReportsAssumption DEF Verdicts
  <2>3. QED
    BY <1>7, <1>8, <2>1, <2>2
<1>10. \A q \in Reports : status'[q] = "none" => audit'[q] = <<>>
  BY <1>4 DEF CountInv
<1>11. QED
  BY <1>7, <1>9, <1>10 DEF CountInv, CountsAreAudited

LEMMA NextCounts == IInv /\ CountInv /\ [ReportsNext]_reportsVars => CountInv'
<1>1. SUFFICES ASSUME IInv, CountInv, [ReportsNext]_reportsVars PROVE CountInv'
  OBVIOUS
<1>2. /\ filing \in [Reports -> FilingStates]
      /\ status \in [Reports -> {"none", "pending"} \cup Verdicts]
      /\ \A r \in Reports : status[r] # "none" <=> filing[r].step = "stored"
  BY <1>1 DEF IInv, TypeInv, FilingTypeOK
<1>3. ASSUME NEW r \in Reports,
             \/ \E f \in Filings : BeginReport(r, f)
             \/ CheckDuplicate(r) \/ ReportFails(r)
      PROVE  CountInv'
  <2>1. status[r] = "none" /\ UNCHANGED <<counts, audit, status>>
    BY <1>2, <1>3 DEF BeginReport, CheckDuplicate, ReportFails, InFlight, NoFiling, reputationVars
  <2>2. \A q \in Reports \ {r} : filing'[q] = filing[q]
    BY <1>2, <1>3 DEF BeginReport, CheckDuplicate, ReportFails
  <2>3. QED
    BY <1>1, <2>1, <2>2, CountFrame
<1>4. ASSUME NEW r \in Reports, InsertReport(r) PROVE CountInv'
  <2>1. status[r] = "none" /\ UNCHANGED <<counts, audit>>
    BY <1>2, <1>4 DEF InsertReport, reputationVars
  <2>2. \A q \in Reports \ {r} : filing'[q] = filing[q] /\ status'[q] = status[q]
    BY <1>2, <1>4 DEF InsertReport
  <2>3. QED
    BY <1>1, <2>1, <2>2, CountFrame
<1>5. ASSUME NEW r \in Reports, HalfHourPasses(r) PROVE CountInv'
  BY <1>1, <1>5, CountFrame DEF HalfHourPasses, reputationVars
<1>6. ASSUME NEW v \in Verifications,
             \/ \E r \in Reports, verdict \in Verdicts : BeginVerify(v, r, verdict)
             \/ LockReport(v) \/ LockReputation(v) \/ VerifyFails(v)
      PROVE  CountInv'
  <2>1. UNCHANGED <<counts, audit, status, filing>>
    BY <1>6 DEF BeginVerify, LockReport, LockReputation, VerifyFails, reputationVars, filingVars
  <2>2. QED
    BY <1>1, <2>1, CountFrame
<1>7. CASE UNCHANGED reportsVars
  BY <1>1, <1>7, CountFrame DEF reportsVars, reputationVars, filingVars
<1>8. QED
  BY <1>1, <1>3, <1>4, <1>5, <1>6, <1>7, DecideCounts DEF ReportsNext

\* The counters of a user's reputation are the audited verdicts on the user's
\* reports, on top of what they were: verify_report commits the verdict, its
\* audit entry and the reputation together, or none of them.
THEOREM AuditExplainsReports == ReportsSpec => []AuditExplains
<1>1. ReportsInit => CountInv
  <2>1. SUFFICES ASSUME ReportsInit PROVE CountInv
    OBVIOUS
  <2>2. ASSUME NEW u, NEW verdict
        PROVE  IsFiniteSet(AuditedFor(u, verdict)) /\ Cardinality(AuditedFor(u, verdict)) = 0
    <3>1. AuditedFor(u, verdict) = {}
      BY <2>1, AuditedForMember DEF ReportsInit
    <3>2. QED
      BY <3>1, FS_EmptySet
  <2>3. \A u \in Authors, verdict \in Verdicts :
           counts[u][verdict] = Earned[u][verdict] /\ Earned[u][verdict] \in Nat
    BY <2>1, ReportsAssumption DEF ReportsInit, Verdicts
  <2>4. QED
    BY <2>1, <2>2, <2>3 DEF CountInv, CountsAreAudited, ReportsInit
<1>2. ReportsSpec => []CountInv
  BY <1>1, NextCounts, Invariance, PTL DEF ReportsSpec
<1>3. CountInv /\ IInv => AuditExplains
  BY DEF CountInv, IInv, AuditInv, AuditExplains
<1>4. QED
  BY <1>2, <1>3, Invariance, PTL
=============================================================================
