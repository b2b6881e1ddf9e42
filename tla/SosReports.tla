----------------------------- MODULE SosReports -----------------------------
(***************************************************************************)
(* SOS reports and their enrichment (backend/app/api/sos.py,               *)
(* backend/app/citizen).                                                   *)
(*                                                                         *)
(* A report is stored and audited in two transactions and answered.  After *)
(* the answer a task of the process geocodes the text, asks the language   *)
(* models for an urgency and writes both back, while the author may delete *)
(* the report and the process may restart.                                 *)
(***************************************************************************)
EXTENDS Integers, FiniteSets

CONSTANTS Sos,          \* names for the reports to come
          Messages,     \* what may be reported
          MinUrgency,   \* sos_feed's default: 3
          MaxRestarts   \* bound: process restarts

\* What the triage may find in the answer: no score, no number, or a score.
Unrated == -1
Garbled == -2
Ratings == {Unrated, Garbled, 1, 4}

ASSUME SosAssumption ==
    /\ Messages \subseteq [signedIn : BOOLEAN,  \* the author has a session
                           located : BOOLEAN,   \* with coordinates
                           indic : BOOLEAN,     \* four Indic letters or more
                           places : BOOLEAN]    \* names a place, in English
    /\ MinUrgency \in 0..5
    /\ MaxRestarts \in Nat

VARIABLES
    message,    \* what each report says
    request,    \* POST /api/sos
    sosRow,     \* sos_reports
    sosAudited, \* reports in the audit log
    task,       \* the enrichment of each report
    deleted,    \* reports their author deleted (history)
    restarts

sosVars == <<message, request, sosRow, sosAudited, task, deleted, restarts>>

NoRow == [stored |-> FALSE]
NoTask == [step |-> "none"]
Over(result, rating) == [step |-> "over", result |-> result, rating |-> rating]

SosInit ==
    /\ message \in [Sos -> Messages]
    /\ request = [s \in Sos |-> "none"]
    /\ sosRow = [s \in Sos |-> NoRow]
    /\ sosAudited = {}
    /\ task = [s \in Sos |-> NoTask]
    /\ deleted = {}
    /\ restarts = 0

-----------------------------------------------------------------------------
(***************************************************************************)
(* The request.                                                            *)
(***************************************************************************)

\* INSERT and the first commit.
SubmitSos(s) ==
    /\ request[s] = "none"
    /\ request' = [request EXCEPT ![s] = "inserted"]
    /\ sosRow' = [sosRow EXCEPT ![s] =
          [stored |-> TRUE, urgency |-> Unrated, triaged |-> FALSE,
           location |-> IF message[s].located THEN "user" ELSE "none"]]
    /\ UNCHANGED <<message, sosAudited, task, deleted, restarts>>

\* The audit entry, its commit and the answer; the task follows the answer.
AuditSos(s) ==
    /\ request[s] = "inserted"
    /\ request' = [request EXCEPT ![s] = "answered"]
    /\ sosAudited' = sosAudited \cup {s}
    /\ task' = [task EXCEPT ![s] = [step |-> "queued", hasLocation |-> message[s].located]]
    /\ UNCHANGED <<message, sosRow, deleted, restarts>>

\* Either transaction fails; what the first one stored stays.
RequestSosFails(s) ==
    /\ request[s] \in {"none", "inserted"}
    /\ request' = [request EXCEPT ![s] = "failed"]
    /\ UNCHANGED <<message, sosRow, sosAudited, task, deleted, restarts>>

\* An author with a session deletes a report found in GET /api/sos/mine.
DeleteMySos(s) ==
    /\ message[s].signedIn /\ sosRow[s].stored
    /\ sosRow' = [sosRow EXCEPT ![s] = NoRow]
    /\ deleted' = deleted \cup {s}
    /\ UNCHANGED <<message, request, sosAudited, task, restarts>>

-----------------------------------------------------------------------------
(***************************************************************************)
(* The task.  A provider of the ladder answers (up) or none does.          *)
(***************************************************************************)

\* detect_language and translate_to_english: only English text has places.
Readable(m, up) == m.places /\ (m.indic => up)

\* enrich_sos: at most three candidates are geocoded.
GeocodeSos(s) ==
    /\ task[s].step = "queued"
    /\ \E up, found \in BOOLEAN :
          /\ found => Readable(message[s], up)
          /\ task' = [task EXCEPT ![s] =
                [step |-> "geocoded", hasLocation |-> @.hasLocation, found |-> found]]
    /\ UNCHANGED <<message, request, sosRow, sosAudited, deleted, restarts>>

\* Variant: a triage without an answer ends the task.
TriageSos_LlmRequired(s) ==
    /\ task[s].step = "geocoded"
    /\ \E rating \in Ratings :
          task' = [task EXCEPT ![s] =
             IF rating = Unrated THEN Over("lost", Unrated)
             ELSE [step |-> "rated", hasLocation |-> @.hasLocation,
                   found |-> @.found, rating |-> rating]]
    /\ UNCHANGED <<message, request, sosRow, sosAudited, deleted, restarts>>

\* The triage prompt: no answer, no JSON in it and no score in that are alike.
TriageSos(s) ==
    /\ task[s].step = "geocoded"
    /\ \E rating \in Ratings :
          task' = [task EXCEPT ![s] = [step |-> "rated", hasLocation |-> @.hasLocation,
                                       found |-> @.found, rating |-> rating]]
    /\ UNCHANGED <<message, request, sosRow, sosAudited, deleted, restarts>>

\* Variant: the coordinates that were found replace the author's.
Enriched_Overwrites(row, t) ==
    [row EXCEPT !.triaged = TRUE,
                !.urgency = IF t.rating = Unrated THEN @ ELSE t.rating,
                !.location = IF t.found THEN "geocoded" ELSE @]

\* Variant: a triage without a score writes the lowest one.
Enriched_Unimportant(row, t) ==
    [row EXCEPT !.triaged = TRUE,
                !.urgency = IF t.rating = Unrated THEN 0 ELSE t.rating,
                !.location = IF ~t.hasLocation /\ t.found THEN "geocoded" ELSE @]

\* What the UPDATE leaves in a row.
Enriched(row, t) ==
    [row EXCEPT !.triaged = TRUE,
                !.urgency = IF t.rating = Unrated THEN @ ELSE t.rating,
                !.location = IF ~t.hasLocation /\ t.found THEN "geocoded" ELSE @]

\* The UPDATE: it finds no row when the author was faster, and it fails when
\* the score is no number.
WriteBackSos(s) ==
    /\ task[s].step = "rated"
    /\ IF task[s].rating = Garbled
       THEN /\ task' = [task EXCEPT ![s] = Over("refused", @.rating)]
            /\ UNCHANGED sosRow
       ELSE /\ task' = [task EXCEPT ![s] = Over("done", @.rating)]
            /\ sosRow' = IF sosRow[s].stored
                         THEN [sosRow EXCEPT ![s] = Enriched(@, task[s])] ELSE sosRow
    /\ UNCHANGED <<message, request, sosAudited, deleted, restarts>>

\* The database refuses the UPDATE: logged, never tried again.
WriteBackSosFails(s) ==
    /\ task[s].step = "rated"
    /\ task' = [task EXCEPT ![s] = Over("refused", @.rating)]
    /\ UNCHANGED <<message, request, sosRow, sosAudited, deleted, restarts>>

\* The process restarts: requests break off, and its tasks are nowhere else.
RestartSos ==
    /\ restarts < MaxRestarts
    /\ restarts' = restarts + 1
    /\ request' = [s \in Sos |-> IF request[s] = "inserted" THEN "failed" ELSE request[s]]
    /\ task' = [s \in Sos |-> IF task[s].step \in {"none", "over"} THEN task[s]
                              ELSE Over("lost", Unrated)]
    /\ UNCHANGED <<message, sosRow, sosAudited, deleted>>

-----------------------------------------------------------------------------
TaskStep(s) == GeocodeSos(s) \/ TriageSos(s) \/ WriteBackSos(s)

SosNext ==
    \/ \E s \in Sos :
          \/ SubmitSos(s) \/ AuditSos(s) \/ RequestSosFails(s)
          \/ DeleteMySos(s)
          \/ TaskStep(s) \/ WriteBackSosFails(s)
    \/ RestartSos

\* The event loop runs every task that was added.
SosFairness == \A s \in Sos : WF_sosVars(TaskStep(s))
SosSpec == SosInit /\ [][SosNext]_sosVars /\ SosFairness

-----------------------------------------------------------------------------
\* sos_feed, whose limit is larger than the number of reports here.
Feed == {s \in Sos : sosRow[s].stored /\
                     (sosRow[s].urgency = Unrated \/ sosRow[s].urgency >= MinUrgency)}

\* Every row, request and task is in a state its handler produces.
SosTypeOK ==
    /\ message \in [Sos -> Messages]
    /\ request \in [Sos -> {"none", "inserted", "answered", "failed"}]
    /\ sosRow \in [Sos -> {NoRow} \cup
          [stored : {TRUE}, urgency : Ratings \ {Garbled}, triaged : BOOLEAN,
           location : {"none", "user", "geocoded"}]]
    /\ sosAudited \subseteq Sos /\ deleted \subseteq Sos
    /\ restarts \in 0..MaxRestarts

\* The background task never works against the author: it does not bring a
\* deleted report back, does not move a report away from the place its author
\* gave, and places no report on a text it could not read, whatever it began
\* with before the author acted.
AuthorHasTheLastWord ==
    \A s \in Sos :
      /\ s \in deleted => ~sosRow[s].stored
      /\ sosRow[s].stored /\ message[s].located => sosRow[s].location = "user"
      /\ sosRow[s].stored /\ ~message[s].places => sosRow[s].location # "geocoded"

\* A report that was answered is audited, and officials see it until its
\* author deletes it or a triage rates it below their threshold: neither a
\* failed triage nor a restart takes it from the feed.
AnsweredIsSeen ==
    \A s \in Sos : request[s] = "answered" =>
      /\ s \in sosAudited
      /\ \/ s \in Feed \/ s \in deleted
         \/ task[s].step = "over" /\ task[s].rating \in 0..(MinUrgency - 1)

\* Every answered report is triaged in the end, unless it is deleted, its
\* UPDATE fails or the process restarts: a ladder that does not answer does not
\* prevent it.  Each of these lasts, so it is enough that the answered reports
\* are all in one of them again and again.
AnsweredIsTriaged ==
    []<>(\A s \in Sos : request[s] = "answered" =>
        \/ sosRow[s].stored /\ sosRow[s].triaged
        \/ s \in deleted
        \/ task[s].step = "over" /\ task[s].result = "refused"
        \/ restarts > 0)
=============================================================================
