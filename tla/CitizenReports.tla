--------------------------- MODULE CitizenReports ---------------------------
(***************************************************************************)
(* Citizen reports, their verification and the reputation of their authors *)
(* (backend/app/citizen/service.py, backend/app/api/citizen_reports.py).   *)
(*                                                                         *)
(* A request is one transaction under READ COMMITTED.  Its row locks last  *)
(* until it commits, and what it wrote is seen by others from then on.     *)
(* A reputation row that is not there yet reads as (50, 0, 0), which is    *)
(* also what its INSERT starts from.  Confidences are in hundredths.       *)
(***************************************************************************)
EXTENDS Integers, Sequences, FiniteSets
LOCAL INSTANCE FiniteSetsExt

CONSTANTS Reports,        \* names for the reports to come
          Authors,        \* users with a reputation
          Anonymous,      \* the author of a report without a session
          Filings,        \* what may be reported
          Verifications,  \* names for the requests of officials
          Earned,         \* the reputations at the start
          MaxDecisions    \* bound: audited verdicts before the last requests

Verdicts == {"verified", "rejected"}

\* Ten points for every verified report, fifteen off for every rejected one.
EarnedBy(n, c) == 50 - 15 * c.rejected <= n /\ n <= 50 + 10 * c.verified

ASSUME ReportsAssumption ==
    /\ Anonymous \notin Authors
    /\ Filings \subseteq [author : Authors \cup {Anonymous}, incident : Int,
                          known : BOOLEAN, media : BOOLEAN, places : BOOLEAN]
    /\ Earned \in [Authors -> [score : 0..100, verified : Nat, rejected : Nat]]
    /\ \A u \in Authors : EarnedBy(Earned[u].score, Earned[u])

VARIABLES
    score, counts,  \* user_reputation
    filing,         \* the request that files a report
    status,         \* citizen_reports.status, "none" before the INSERT
    recent,         \* reports of the last 30 minutes
    deciding,       \* the requests of officials
    audit,          \* the audited verdicts of each report
    automatic,      \* reports that were verified as they were filed (history)
    overlapped      \* pairs of reports that were filed at once (history)

reputationVars == <<score, counts>>
filingVars == <<filing, recent, automatic, overlapped>>
reportsVars == <<reputationVars, filingVars, status, deciding, audit>>

Clamp(n) == IF n < 0 THEN 0 ELSE IF n > 100 THEN 100 ELSE n

Tier(n) ==
    IF n >= 80 THEN "trusted"
    ELSE IF n >= 40 THEN "normal"
    ELSE IF n >= 10 THEN "flagged" ELSE "blocked"

Points(condition, n) == IF condition THEN n ELSE 0

\* score_report
Confidence(f, tier, duplicate) ==
    Clamp(35 + Points(f.known, 25) + Points(f.media, 15) + Points(f.places, 10)
             + Points(tier = "trusted", 20) - Points(tier = "flagged", 20)
             - Points(tier = "blocked", 50) - Points(duplicate, 35))

InitialStatus(f, tier, duplicate) ==
    IF tier = "blocked" THEN "rejected"
    ELSE IF tier = "trusted" /\ Confidence(f, tier, duplicate) >= 85 THEN "verified"
    ELSE "pending"

NoFiling == [step |-> "none"]
NotDeciding == [step |-> "none"]

ReportsInit ==
    /\ score = [u \in Authors |-> Earned[u].score]
    /\ counts = [u \in Authors |-> [verified |-> Earned[u].verified,
                                    rejected |-> Earned[u].rejected]]
    /\ filing = [r \in Reports |-> NoFiling]
    /\ status = [r \in Reports |-> "none"]
    /\ recent = {}
    /\ deciding = [v \in Verifications |-> NotDeciding]
    /\ audit = [r \in Reports |-> <<>>]
    /\ automatic = {} /\ overlapped = {}

-----------------------------------------------------------------------------
(***************************************************************************)
(* POST /report                                                            *)
(***************************************************************************)
InFlight(r) == filing[r].step \in {"check", "insert"}
AuthorTier(u) == IF u = Anonymous THEN "flagged" ELSE Tier(score[u])

\* get_reputation
BeginReport(r, f) ==
    /\ filing[r] = NoFiling
    /\ filing' = [filing EXCEPT ![r] =
          [step |-> "check", input |-> f, tier |-> AuthorTier(f.author), duplicate |-> FALSE]]
    /\ overlapped' = overlapped \cup {{r, q} : q \in {q \in Reports : InFlight(q)}}
    /\ UNCHANGED <<reputationVars, status, recent, deciding, audit, automatic>>

SameIncident(r, q) == filing[r].input.incident = filing[q].input.incident

\* Variant: the check does not look at the reports of the last 30 minutes.
CheckDuplicate_OldReports(r) ==
    /\ filing[r].step = "check"
    /\ filing' = [filing EXCEPT ![r].step = "insert",
          ![r].duplicate = \E q \in Reports \ recent :
                               status[q] # "none" /\ SameIncident(r, q)]
    /\ UNCHANGED <<reputationVars, status, recent, deciding, audit, automatic, overlapped>>

\* has_duplicate_report
CheckDuplicate(r) ==
    /\ filing[r].step = "check"
    /\ filing' = [filing EXCEPT ![r].step = "insert",
                                ![r].duplicate = \E q \in recent : SameIncident(r, q)]
    /\ UNCHANGED <<reputationVars, status, recent, deciding, audit, automatic, overlapped>>

\* INSERT and commit
InsertReport(r) ==
    LET s == InitialStatus(filing[r].input, filing[r].tier, filing[r].duplicate)
    IN  /\ filing[r].step = "insert"
        /\ filing' = [filing EXCEPT ![r].step = "stored"]
        /\ status' = [status EXCEPT ![r] = s]
        /\ recent' = recent \cup {r}
        /\ automatic' = IF s = "verified" THEN automatic \cup {r} ELSE automatic
        /\ UNCHANGED <<reputationVars, deciding, audit, overlapped>>

\* The request fails and its transaction is rolled back.
ReportFails(r) ==
    /\ InFlight(r)
    /\ filing' = [filing EXCEPT ![r] = [step |-> "failed"]]
    /\ UNCHANGED <<reputationVars, status, recent, deciding, audit, automatic, overlapped>>

HalfHourPasses(r) ==
    /\ r \in recent
    /\ recent' = recent \ {r}
    /\ UNCHANGED <<reputationVars, filing, status, deciding, audit, automatic, overlapped>>

-----------------------------------------------------------------------------
(***************************************************************************)
(* POST /verify                                                            *)
(***************************************************************************)
Decisions == {deciding[v] : v \in Verifications}
Audited == MapThenSumSet(LAMBDA r : Len(audit[r]), Reports)
Open(d) == d.step \in {"locked", "adjusted"}
AuthorOf(r) == filing[r].input.author

\* verify_report finds the report.
BeginVerify(v, r, verdict) ==
    /\ deciding[v] = NotDeciding /\ status[r] # "none" /\ Audited < MaxDecisions
    /\ deciding' = [deciding EXCEPT ![v] = [step |-> "found", report |-> r, verdict |-> verdict]]
    /\ UNCHANGED <<reputationVars, filingVars, status, audit>>

\* UPDATE citizen_reports waits for the row.
LockReport(v) ==
    /\ deciding[v].step = "found"
    /\ ~\E d \in Decisions : Open(d) /\ d.report = deciding[v].report
    /\ deciding' = [deciding EXCEPT ![v].step = "locked"]
    /\ UNCHANGED <<reputationVars, filingVars, status, audit>>

\* The upsert of user_reputation waits for the row, too.
LockReputation(v) ==
    /\ deciding[v].step = "locked"
    /\ \/ AuthorOf(deciding[v].report) = Anonymous
       \/ ~\E d \in Decisions : /\ d.step = "adjusted"
                                /\ AuthorOf(d.report) = AuthorOf(deciding[v].report)
    /\ deciding' = [deciding EXCEPT ![v].step = "adjusted"]
    /\ UNCHANGED <<reputationVars, filingVars, status, audit>>

Delta(verdict) == IF verdict = "verified" THEN 10 ELSE -15

\* Variant: only a report that was pending changes the reputation.
Decide_PendingOnly(v) ==
    LET d == deciding[v]
        u == AuthorOf(d.report)
    IN  /\ d.step = "adjusted"
        /\ deciding' = [deciding EXCEPT ![v] = NotDeciding]
        /\ status' = [status EXCEPT ![d.report] = d.verdict]
        /\ audit' = [audit EXCEPT ![d.report] = Append(@, d.verdict)]
        /\ IF u = Anonymous \/ status[d.report] # "pending" THEN UNCHANGED reputationVars
           ELSE /\ score' = [score EXCEPT ![u] = Clamp(@ + Delta(d.verdict))]
                /\ counts' = [counts EXCEPT ![u][d.verdict] = @ + 1]
        /\ UNCHANGED filingVars

\* Variant: a rejection weighs twice what it counts.
Decide_HardRejection(v) ==
    LET d == deciding[v]
        u == AuthorOf(d.report)
    IN  /\ d.step = "adjusted"
        /\ deciding' = [deciding EXCEPT ![v] = NotDeciding]
        /\ status' = [status EXCEPT ![d.report] = d.verdict]
        /\ audit' = [audit EXCEPT ![d.report] = Append(@, d.verdict)]
        /\ IF u = Anonymous THEN UNCHANGED reputationVars
           ELSE /\ score' = [score EXCEPT ![u] =
                                Clamp(@ + (IF d.verdict = "verified" THEN 10 ELSE -30))]
                /\ counts' = [counts EXCEPT ![u][d.verdict] = @ + 1]
        /\ UNCHANGED filingVars

\* The audit entry and the commit.
Decide(v) ==
    LET d == deciding[v]
        u == AuthorOf(d.report)
    IN  /\ d.step = "adjusted"
        /\ deciding' = [deciding EXCEPT ![v] = NotDeciding]
        /\ status' = [status EXCEPT ![d.report] = d.verdict]
        /\ audit' = [audit EXCEPT ![d.report] = Append(@, d.verdict)]
        /\ IF u = Anonymous THEN UNCHANGED reputationVars
           ELSE /\ score' = [score EXCEPT ![u] = Clamp(@ + Delta(d.verdict))]
                /\ counts' = [counts EXCEPT ![u][d.verdict] = @ + 1]
        /\ UNCHANGED filingVars

\* A statement fails, or the process ends: nothing of the request stays.
VerifyFails(v) ==
    /\ deciding[v] # NotDeciding
    /\ deciding' = [deciding EXCEPT ![v] = NotDeciding]
    /\ UNCHANGED <<reputationVars, filingVars, status, audit>>

ReportsNext ==
    \/ \E r \in Reports :
          \/ \E f \in Filings : BeginReport(r, f)
          \/ CheckDuplicate(r)
          \/ InsertReport(r)
          \/ ReportFails(r)
          \/ HalfHourPasses(r)
    \/ \E v \in Verifications :
          \/ \E r \in Reports, verdict \in Verdicts : BeginVerify(v, r, verdict)
          \/ LockReport(v)
          \/ LockReputation(v)
          \/ Decide(v)
          \/ VerifyFails(v)

ReportsSpec == ReportsInit /\ [][ReportsNext]_reportsVars

-----------------------------------------------------------------------------
\* The audited verdicts of one kind on an author's reports.
AuditedFor(u, verdict) ==
    UNION {{r} \X {i \in DOMAIN audit[r] : audit[r][i] = verdict} :
              r \in {r \in Reports : status[r] # "none" /\ AuthorOf(r) = u}}

\* Scores stay between 0 and 100 (no update escapes the clamp of the upsert),
\* and every request is in one of the steps its handler goes through.
ReportsTypeOK ==
    /\ score \in [Authors -> 0..100]
    /\ counts \in [Authors -> [verified : Nat, rejected : Nat]]
    /\ filing \in [Reports -> {NoFiling, [step |-> "failed"]} \cup
                     [step : {"check", "insert", "stored"}, input : Filings,
                      tier : {"trusted", "normal", "flagged", "blocked"}, duplicate : BOOLEAN]]
    /\ status \in [Reports -> {"none", "pending"} \cup Verdicts]
    /\ \A r \in Reports : status[r] # "none" <=> filing[r].step = "stored"
    /\ deciding \in [Verifications -> {NotDeciding} \cup
                       [step : {"found", "locked", "adjusted"}, report : Reports,
                        verdict : Verdicts]]
    /\ \A v \in Verifications :
          deciding[v] # NotDeciding => status[deciding[v].report] # "none"

\* The audit log explains what a user sees: a report's status is its last
\* audited verdict (the one it was filed with when there is none), and an
\* author's counters are the audited verdicts on the author's reports, however
\* the requests of two officials about one report or one author interleave
\* and wherever one of them fails (verify_report is one transaction).
StatusIsAudited ==
    \A r \in Reports :
      /\ audit[r] # <<>> => status[r] = audit[r][Len(audit[r])]
      /\ status[r] # "none" /\ audit[r] = <<>> =>
            status[r] = InitialStatus(filing[r].input, filing[r].tier, filing[r].duplicate)

CountsAreAudited ==
    \A u \in Authors, verdict \in Verdicts :
        counts[u][verdict] = Earned[u][verdict] + Cardinality(AuditedFor(u, verdict))

AuditExplains == StatusIsAudited /\ CountsAreAudited

\* A tier is earned: whoever is trusted has three verified reports or more, and
\* whoever is blocked three rejected ones or more, although verdicts may be
\* given again and the score is clamped on the way.
TiersAreEarned ==
    \A u \in Authors :
      /\ EarnedBy(score[u], counts[u])
      /\ Tier(score[u]) = "trusted" => counts[u].verified >= 3
      /\ Tier(score[u]) = "blocked" => counts[u].rejected >= 3

\* Two reports of one incident within half an hour are both verified as they
\* are filed only if the requests ran at the same time: the second one
\* otherwise finds the first and cannot reach the confidence of 0.85.
VerifiedOncePerIncident ==
    \A r, q \in automatic \cap recent :
      r # q /\ SameIncident(r, q) => {r, q} \in overlapped

=============================================================================
