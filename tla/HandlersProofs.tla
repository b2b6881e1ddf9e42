--------------------------- MODULE HandlersProofs ---------------------------
(***************************************************************************)
(* Proofs about the request handlers that share no state: uploads and      *)
(* their assessment, SOS reports, and the login lockout.                   *)
(***************************************************************************)
EXTENDS Uploads, SosReports, Accounts, FiniteSetTheorems, TLAPS

-----------------------------------------------------------------------------
(***************************************************************************)
(* Proofs about Uploads, for every number of requests, contents and        *)
(* suffixes and each storage backend: its type invariant, and that every   *)
(* row and every answer has its bytes.                                     *)
(***************************************************************************)

Begun == [step : {"write", "insert", "stored", "classified"} \cup Answered,
          object : Objects, inserted : BOOLEAN]

RowsHaveBytes ==
    \A c \in Contents : uploads[c] # NoPath => Object(c, uploads[c]) \in objects

\* What a request relies on: the object it is about to insert is written, and
\* once its upload is stored the row is there, or is its own.
HasRow(r) == uploads[ContentOf(r)] # NoPath
ReliesOn(r) ==
    /\ segment[r].step \in {"write", "insert"} => ~segment[r].inserted
    /\ segment[r].step = "insert" => segment[r].object \in objects
    /\ segment[r].step \in {"stored", "classified"} =>
          IF segment[r].inserted THEN segment[r].object \in objects ELSE HasRow(r)
    /\ segment[r].step \in {"processed", "unavailable"} => HasRow(r)

\* The assessments that are stored are those of the requests that were told so.
ResultsAreProcessed ==
    /\ \A r \in results : segment[r].step = "processed"
    /\ \A r \in Assessments : segment[r].step = "processed" => r \in results

UploadsInv ==
    /\ UploadsTypeOK
    /\ RowsHaveBytes
    /\ \A r \in Assessments : ReliesOn(r)
    /\ ResultsAreProcessed

-----------------------------------------------------------------------------
\* A request that is under way has a file.
LEMMA UnderWayType ==
    ASSUME UploadsTypeOK, NEW r \in Assessments, segment[r].step # "none"
    PROVE  /\ segment[r] \in Begun
           /\ segment[r].object = Object(ContentOf(r), segment[r].object.suffix)
           /\ ContentOf(r) \in Contents
           /\ segment[r].object.suffix \in Suffixes
<1>1. segment[r] \in Begun
  BY DEF UploadsTypeOK, Begun
<1>2. segment[r].object \in Objects
  BY <1>1 DEF Begun
<1>3. QED
  BY <1>1, <1>2 DEF ContentOf, Objects, Object

\* A step of one request keeps the type of `segment`.
LEMMA GoType ==
    ASSUME UploadsTypeOK, NEW r \in Assessments, segment[r].step # "none",
           NEW step \in {"write", "insert", "stored", "classified"} \cup Answered, Go(r, step)
    PROVE  /\ segment' \in [Assessments -> {[step |-> "none"]} \cup Begun]
           /\ segment'[r] \in Begun
           /\ segment'[r].step = step
           /\ segment'[r].object = segment[r].object
           /\ segment'[r].inserted = segment[r].inserted
           /\ \A q \in Assessments \ {r} : segment'[q] = segment[q]
<1>1. segment[r] \in Begun
  BY UnderWayType
<1>2. segment \in [Assessments -> {[step |-> "none"]} \cup Begun]
  BY DEF UploadsTypeOK, Begun
<1>3. segment' = [segment EXCEPT ![r] = [segment[r] EXCEPT !.step = step]]
  BY DEF Go
<1>4. [segment[r] EXCEPT !.step = step] \in Begun
  BY <1>1 DEF Begun
<1>5. segment'[r] = [segment[r] EXCEPT !.step = step]
  BY <1>2, <1>3
<1>6. QED
  BY <1>1, <1>2, <1>3, <1>4, <1>5 DEF Begun

\* Objects and rows never go away, so that a step of one request leaves what
\* the others rely on.
LEMMA OthersRely ==
    ASSUME UploadsInv, NEW r \in Assessments, NEW q \in Assessments \ {r},
           segment'[q] = segment[q], objects \subseteq objects',
           \A c \in Contents : uploads[c] # NoPath => uploads'[c] # NoPath
    PROVE  ReliesOn(q)'
<1>1. CASE segment[q].step = "none"
  BY <1>1 DEF ReliesOn
<1>2. CASE segment[q].step # "none"
  <2>1. ContentOf(q) \in Contents /\ ContentOf(q)' = ContentOf(q)
    BY <1>2, UnderWayType DEF UploadsInv, ContentOf
  <2>2. ReliesOn(q)
    BY DEF UploadsInv
  <2>3. HasRow(q) => HasRow(q)'
    BY <2>1 DEF HasRow
  <2>4. QED
    BY <2>2, <2>3 DEF ReliesOn
<1>3. QED
  BY <1>1, <1>2

\* What a commit of a stored upload leaves in the rows.
LEMMA CommitRows ==
    ASSUME UploadsInv, NEW r \in Assessments, segment[r].step \in {"stored", "classified"},
           CommitUpload(r)
    PROVE  /\ uploads' \in [Contents -> Suffixes \cup {NoPath}]
           /\ \A c \in Contents : uploads[c] # NoPath => uploads'[c] # NoPath
           /\ uploads'[ContentOf(r)] # NoPath
           /\ \A c \in Contents : uploads'[c] # NoPath => Object(c, uploads'[c]) \in objects
<1> DEFINE c == ContentOf(r)
           suffix == segment[r].object.suffix
<1>1. /\ c \in Contents /\ suffix \in Suffixes /\ suffix # NoPath
      /\ segment[r].object = Object(c, suffix)
  BY UnderWayType, UploadsAssumption DEF UploadsInv
<1>2. uploads \in [Contents -> Suffixes \cup {NoPath}] /\ RowsHaveBytes /\ ReliesOn(r)
  BY DEF UploadsInv, UploadsTypeOK
<1>3. CASE segment[r].inserted
  <2>1. uploads' = [uploads EXCEPT ![c] = suffix]
    BY <1>3 DEF CommitUpload
  <2>2. Object(c, suffix) \in objects
    BY <1>1, <1>2, <1>3 DEF ReliesOn
  <2> HIDE DEF c, suffix
  <2>3. uploads' \in [Contents -> Suffixes \cup {NoPath}]
    BY <1>1, <1>2, <2>1
  <2>4. \A d \in Contents : uploads'[d] = IF d = c THEN suffix ELSE uploads[d]
    BY <1>2, <2>1
  <2>5. QED
    BY <1>1, <1>2, <2>2, <2>3, <2>4 DEF RowsHaveBytes, c
<1>4. CASE ~segment[r].inserted
  <2>1. uploads' = uploads
    BY <1>4 DEF CommitUpload
  <2>2. uploads[c] # NoPath
    BY <1>2, <1>4 DEF ReliesOn, HasRow
  <2>3. QED
    BY <1>2, <2>1, <2>2 DEF RowsHaveBytes
<1>5. QED
  BY <1>3, <1>4

-----------------------------------------------------------------------------
\* A step of request r that writes nothing keeps the invariant, if r may rely
\* on what it relies on then.
LEMMA GoOn ==
    ASSUME UploadsInv, NEW r \in Assessments, segment[r].step # "none", r \notin results,
           NEW step \in {"write", "insert", "stored", "classified", "invalid", "failed"},
           Go(r, step), UNCHANGED <<objects, uploads, results>>, ReliesOn(r)'
    PROVE  UploadsInv'
<1>1. /\ segment' \in [Assessments -> {[step |-> "none"]} \cup Begun]
      /\ segment'[r].step = step
      /\ \A q \in Assessments \ {r} : segment'[q] = segment[q]
  BY GoType DEF UploadsInv, Answered
<1>2. UploadsTypeOK'
  BY <1>1 DEF UploadsInv, UploadsTypeOK, Begun
<1>3. RowsHaveBytes'
  BY DEF UploadsInv, RowsHaveBytes
<1>4. \A q \in Assessments : ReliesOn(q)'
  BY <1>1, OthersRely
<1>5. ResultsAreProcessed'
  BY <1>1 DEF UploadsInv, ResultsAreProcessed, UploadsTypeOK
<1>6. QED
  BY <1>2, <1>3, <1>4, <1>5 DEF UploadsInv

\* The lookup of a request that begins.
LEMMA LookUpKeeps ==
    ASSUME UploadsInv, NEW r \in Assessments, NEW c \in Contents, NEW suffix \in Suffixes,
           LookUp(r, c, suffix)
    PROVE  UploadsInv'
<1> DEFINE new == [step |-> IF uploads[c] = NoPath THEN "write" ELSE "stored",
                   object |-> Object(c, suffix), inserted |-> FALSE]
<1>1. segment \in [Assessments -> {[step |-> "none"]} \cup Begun]
  BY DEF UploadsInv, UploadsTypeOK, Begun
<1>2. new \in Begun
  BY DEF Begun, Object, Objects
<1>3. segment' = [segment EXCEPT ![r] = new]
  BY DEF LookUp
<1>4. /\ segment' \in [Assessments -> {[step |-> "none"]} \cup Begun]
      /\ segment'[r] = new
      /\ \A q \in Assessments \ {r} : segment'[q] = segment[q]
  <2> HIDE DEF new
  <2> QED
    BY <1>1, <1>2, <1>3
<1>5. UNCHANGED <<objects, uploads, results>> /\ segment[r].step = "none"
  BY DEF LookUp
<1>6. UploadsTypeOK'
  BY <1>4, <1>5 DEF UploadsInv, UploadsTypeOK, Begun
<1>7. RowsHaveBytes'
  BY <1>5 DEF UploadsInv, RowsHaveBytes
<1>8. ReliesOn(r)'
  BY <1>4, <1>5 DEF ReliesOn, HasRow, ContentOf, Object
<1>9. \A q \in Assessments \ {r} : ReliesOn(q)'
  BY <1>4, <1>5, OthersRely
<1>10. ResultsAreProcessed'
  BY <1>4, <1>5 DEF UploadsInv, ResultsAreProcessed, UploadsTypeOK
<1>11. QED
  BY <1>6, <1>7, <1>8, <1>9, <1>10 DEF UploadsInv

\* Writing an object.
LEMMA WriteObjectKeeps ==
    ASSUME UploadsInv, NEW r \in Assessments, WriteObject(r)
    PROVE  UploadsInv'
<1>1. segment[r].step = "write" /\ Go(r, "insert") /\ UNCHANGED <<uploads, results>>
      /\ objects' = objects \cup {segment[r].object}
  BY DEF WriteObject
<1>2. segment[r] \in Begun /\ segment[r].object \in Objects /\ ~segment[r].inserted
  BY <1>1, UnderWayType DEF UploadsInv, ReliesOn, Begun
<1>3. /\ segment' \in [Assessments -> {[step |-> "none"]} \cup Begun]
      /\ segment'[r].step = "insert" /\ segment'[r].object = segment[r].object
      /\ segment'[r].inserted = segment[r].inserted
      /\ \A q \in Assessments \ {r} : segment'[q] = segment[q]
  BY <1>1, GoType DEF UploadsInv
<1>4. UploadsTypeOK'
  BY <1>1, <1>2, <1>3 DEF UploadsInv, UploadsTypeOK, Begun
<1>5. RowsHaveBytes'
  BY <1>1 DEF UploadsInv, RowsHaveBytes
<1>6. ReliesOn(r)'
  BY <1>1, <1>2, <1>3 DEF ReliesOn
<1>7. \A q \in Assessments \ {r} : ReliesOn(q)'
  BY <1>1, <1>3, OthersRely
<1>8. ResultsAreProcessed'
  BY <1>1, <1>3 DEF UploadsInv, ResultsAreProcessed, UploadsTypeOK
<1>9. QED
  BY <1>4, <1>5, <1>6, <1>7, <1>8 DEF UploadsInv

\* Inserting the row, or finding that another request has.
LEMMA InsertUploadKeeps ==
    ASSUME UploadsInv, NEW r \in Assessments, InsertUpload(r)
    PROVE  UploadsInv'
<1> DEFINE new == [segment[r] EXCEPT !.step = "stored",
                                     !.inserted = (uploads[ContentOf(r)] = NoPath)]
<1>1. segment[r].step = "insert" /\ UNCHANGED <<objects, uploads, results>>
  BY DEF InsertUpload
<1>2. segment[r] \in Begun /\ segment[r].object \in objects
  BY <1>1, UnderWayType DEF UploadsInv, ReliesOn
<1>3. segment \in [Assessments -> {[step |-> "none"]} \cup Begun]
  BY DEF UploadsInv, UploadsTypeOK, Begun
<1>4. /\ new \in Begun /\ new.step = "stored" /\ new.object = segment[r].object
      /\ new.inserted = (uploads[ContentOf(r)] = NoPath)
  BY <1>2 DEF Begun
<1>5. segment' = [segment EXCEPT ![r] = new]
  BY DEF InsertUpload
<1>6. /\ segment' \in [Assessments -> {[step |-> "none"]} \cup Begun]
      /\ segment'[r] = new
      /\ \A q \in Assessments \ {r} : segment'[q] = segment[q]
  <2> HIDE DEF new
  <2> QED
    BY <1>3, <1>4, <1>5
<1>7. UploadsTypeOK'
  BY <1>1, <1>6 DEF UploadsInv, UploadsTypeOK, Begun
<1>8. RowsHaveBytes'
  BY <1>1 DEF UploadsInv, RowsHaveBytes
<1>9. ReliesOn(r)'
  <2>1. ContentOf(r)' = ContentOf(r)
    BY <1>4, <1>6 DEF ContentOf
  <2> HIDE DEF new
  <2>2. QED
    BY <1>1, <1>2, <1>4, <1>6, <2>1 DEF ReliesOn, HasRow
<1>10. \A q \in Assessments \ {r} : ReliesOn(q)'
  BY <1>1, <1>6, OthersRely
<1>11. ResultsAreProcessed'
  <2>1. segment'[r].step = "stored"
    BY <1>4, <1>6
  <2> HIDE DEF new
  <2>2. QED
    BY <1>1, <1>6, <2>1 DEF UploadsInv, ResultsAreProcessed, UploadsTypeOK
<1>12. QED
  BY <1>7, <1>8, <1>9, <1>10, <1>11 DEF UploadsInv

\* The two answers that commit what was stored.
LEMMA CommitKeeps ==
    ASSUME UploadsInv, NEW r \in Assessments, NoModel(r) \/ InsertResult(r)
    PROVE  UploadsInv'
<1>1. /\ segment[r].step \in {"stored", "classified"} /\ CommitUpload(r)
      /\ UNCHANGED objects
      /\ \/ Go(r, "unavailable") /\ results' = results
         \/ Go(r, "processed") /\ results' = results \cup {r}
  BY DEF NoModel, InsertResult
<1>2. /\ segment' \in [Assessments -> {[step |-> "none"]} \cup Begun]
      /\ segment'[r].step \in {"processed", "unavailable"}
      /\ r \in results' <=> r \in results \/ segment'[r].step = "processed"
      /\ segment'[r].object = segment[r].object
      /\ \A q \in Assessments \ {r} : segment'[q] = segment[q]
  BY <1>1, GoType DEF UploadsInv, Answered
<1>3. /\ uploads' \in [Contents -> Suffixes \cup {NoPath}]
      /\ \A c \in Contents : uploads[c] # NoPath => uploads'[c] # NoPath
      /\ uploads'[ContentOf(r)] # NoPath
      /\ \A c \in Contents : uploads'[c] # NoPath => Object(c, uploads'[c]) \in objects
  BY <1>1, CommitRows
<1>4. r \notin results
  BY <1>1 DEF UploadsInv, ResultsAreProcessed
<1>5. UploadsTypeOK'
  BY <1>1, <1>2, <1>3 DEF UploadsInv, UploadsTypeOK, Begun
<1>6. RowsHaveBytes'
  BY <1>1, <1>3 DEF RowsHaveBytes
<1>7. ReliesOn(r)'
  <2>1. ContentOf(r)' = ContentOf(r)
    BY <1>2 DEF ContentOf
  <2>2. QED
    BY <1>2, <1>3, <2>1 DEF ReliesOn, HasRow
<1>8. \A q \in Assessments \ {r} : ReliesOn(q)'
  BY <1>1, <1>2, <1>3, OthersRely
<1>9. ResultsAreProcessed'
  BY <1>1, <1>2, <1>4 DEF UploadsInv, ResultsAreProcessed, UploadsTypeOK
<1>10. QED
  BY <1>5, <1>6, <1>7, <1>8, <1>9 DEF UploadsInv

\* The steps that only go on, or answer without a commit.
LEMMA AnswerKeeps ==
    ASSUME UploadsInv, NEW r \in Assessments, RejectImage(r) \/ Classify(r) \/ SegmentFails(r)
    PROVE  UploadsInv'
<1>1. /\ segment[r].step \notin {"none"} \cup Answered
      /\ UNCHANGED <<objects, uploads, results>>
      /\ \/ Go(r, "invalid") \/ Go(r, "failed")
         \/ Go(r, "classified") /\ segment[r].step = "stored"
  BY DEF RejectImage, Classify, SegmentFails, UnderWay, Answered
<1>2. r \notin results
  BY <1>1 DEF UploadsInv, ResultsAreProcessed, Answered
<1>3. ReliesOn(r)
  BY DEF UploadsInv
<1>4. CASE Go(r, "invalid") \/ Go(r, "failed")
  <2>1. segment'[r].step \in {"invalid", "failed"}
    BY <1>1, <1>4, GoType DEF UploadsInv, Answered
  <2>2. ReliesOn(r)'
    BY <2>1 DEF ReliesOn
  <2>3. QED
    BY <1>1, <1>2, <1>4, <2>2, GoOn DEF Answered
<1>5. CASE Go(r, "classified") /\ segment[r].step = "stored"
  <2>1. /\ segment'[r].step = "classified" /\ segment'[r].object = segment[r].object
        /\ segment'[r].inserted = segment[r].inserted
    BY <1>1, <1>5, GoType DEF UploadsInv, Answered
  <2>2. HasRow(r)' = HasRow(r)
    BY <1>1, <2>1 DEF HasRow, ContentOf
  <2>3. ReliesOn(r)'
    BY <1>1, <1>3, <1>5, <2>1, <2>2 DEF ReliesOn
  <2>4. QED
    BY <1>1, <1>2, <1>5, <2>3, GoOn
<1>6. QED
  BY <1>1, <1>4, <1>5

-----------------------------------------------------------------------------
LEMMA InitUploadsInv == UploadsInit => UploadsInv
<1>1. SUFFICES ASSUME UploadsInit PROVE UploadsInv
  OBVIOUS
<1>2. \A r \in Assessments : segment[r] = [step |-> "none"]
  BY <1>1 DEF UploadsInit
<1>3. UploadsTypeOK /\ RowsHaveBytes /\ ResultsAreProcessed
  BY <1>1 DEF UploadsInit, UploadsTypeOK, RowsHaveBytes, ResultsAreProcessed
<1>4. \A r \in Assessments : ReliesOn(r)
  BY <1>2 DEF ReliesOn
<1>5. QED
  BY <1>3, <1>4 DEF UploadsInv

LEMMA StutterUploadsInv == UploadsInv /\ UNCHANGED uploadVars => UploadsInv'
<1>1. SUFFICES ASSUME UploadsInv, UNCHANGED uploadVars PROVE UploadsInv'
  OBVIOUS
<1>2. UploadsTypeOK' /\ RowsHaveBytes' /\ ResultsAreProcessed'
  BY <1>1 DEF UploadsInv, uploadVars, UploadsTypeOK, RowsHaveBytes, ResultsAreProcessed
<1>3. \A r \in Assessments : ReliesOn(r)'
  BY <1>1 DEF UploadsInv, uploadVars, ReliesOn, HasRow, ContentOf
<1>4. QED
  BY <1>2, <1>3 DEF UploadsInv

LEMMA NextUploadsInv == UploadsInv /\ [UploadsNext]_uploadVars => UploadsInv'
<1>1. SUFFICES ASSUME UploadsInv, [UploadsNext]_uploadVars PROVE UploadsInv'
  OBVIOUS
<1>2. CASE UploadsNext
  <2>1. PICK r \in Assessments :
            \/ \E c \in Contents, suffix \in Suffixes : LookUp(r, c, suffix)
            \/ WriteObject(r) \/ InsertUpload(r)
            \/ RejectImage(r) \/ Classify(r) \/ NoModel(r) \/ InsertResult(r)
            \/ SegmentFails(r)
    BY <1>2 DEF UploadsNext
  <2>2. QED
    BY <1>1, <2>1, LookUpKeeps, WriteObjectKeeps, InsertUploadKeeps, CommitKeeps, AnswerKeeps
<1>3. CASE UNCHANGED uploadVars
  BY <1>1, <1>3, StutterUploadsInv
<1>4. QED
  BY <1>1, <1>2, <1>3

\* What the invariant says of rows and answers.
LEMMA UploadsInvGivesBytes == UploadsInv => StoredHasBytes
<1>1. SUFFICES ASSUME UploadsInv PROVE StoredHasBytes
  OBVIOUS
<1>2. RowsHaveBytes /\ ResultsAreProcessed
  BY <1>1 DEF UploadsInv
<1>3. ASSUME NEW r \in Assessments, segment[r].step = "processed",
             NEW reader \in {"owner", "official"}
      PROVE  ImageAnswer(r, reader) \in (IF Backend = "s3" THEN {410} ELSE {200, 302})
  <2>1. ContentOf(r) \in Contents /\ uploads[ContentOf(r)] # NoPath
    BY <1>1, <1>3, UnderWayType DEF UploadsInv, ReliesOn, HasRow
  <2>2. Object(ContentOf(r), uploads[ContentOf(r)]) \in objects
    BY <1>2, <2>1 DEF RowsHaveBytes
  <2>3. r \in results /\ reader # "other"
    BY <1>2, <1>3 DEF ResultsAreProcessed
  <2>4. QED
    BY <2>1, <2>2, <2>3, UploadsAssumption DEF ImageAnswer
<1>4. ASSUME NEW r \in Assessments, segment[r].step = "unavailable"
      PROVE  r \notin results /\ uploads[ContentOf(r)] # NoPath
  BY <1>1, <1>2, <1>4 DEF UploadsInv, ReliesOn, HasRow, ResultsAreProcessed
<1>5. \A r \in results : segment[r].step = "processed"
  BY <1>2 DEF ResultsAreProcessed
<1>6. QED
  BY <1>2, <1>3, <1>4, <1>5 DEF StoredHasBytes, RowsHaveBytes

\* Every reachable state has the shape that the declarations describe: a
\* request has a file from its lookup on, and each row a suffix.
THEOREM UploadsTypeCorrect == UploadsSpec => []UploadsTypeOK
<1>1. UploadsInv => UploadsTypeOK
  BY DEF UploadsInv
<1>2. QED
  BY <1>1, InitUploadsInv, NextUploadsInv, PTL DEF UploadsSpec

\* Every row leads to bytes that were written, who got an assessment has its
\* image, for the owner and for officials, and who was told that no model was
\* there has no assessment but a stored upload, whatever uploads of equal
\* contents overlap or fail (UploadStorage.store, segment_damage,
\* get_damage_image).
THEOREM RowsAndAnswersHaveBytes == UploadsSpec => []StoredHasBytes
BY InitUploadsInv, NextUploadsInv, UploadsInvGivesBytes, PTL DEF UploadsSpec

-----------------------------------------------------------------------------
(***************************************************************************)
(* Proofs about SosReports, for every number of reports and restarts and   *)
(* every threshold: its type invariant, that the enrichment never works    *)
(* against the author, and that what was answered stays before officials.  *)
(***************************************************************************)

Rows ==
    {NoRow} \cup
    [stored : {TRUE}, urgency : Ratings \ {Garbled}, triaged : BOOLEAN,
     location : {"none", "user", "geocoded"}]

Tasks ==
    {NoTask} \cup [step : {"queued"}, hasLocation : BOOLEAN] \cup
    [step : {"geocoded"}, hasLocation : BOOLEAN, found : BOOLEAN] \cup
    [step : {"rated"}, hasLocation : BOOLEAN, found : BOOLEAN, rating : Ratings] \cup
    [step : {"over"}, result : {"done", "refused", "lost"}, rating : Ratings]

TypeInv == SosTypeOK /\ task \in [Sos -> Tasks]

\* A report is stored by its request only, which does not come again.
RequestOK(s) ==
    /\ request[s] = "none" => ~sosRow[s].stored /\ s \notin deleted
    /\ s \in deleted => ~sosRow[s].stored
    /\ request[s] \in {"inserted", "answered"} => sosRow[s].stored \/ s \in deleted
    /\ request[s] = "answered" => s \in sosAudited

\* What the task took from the request is still what the author said.
TaskOK(s) ==
    /\ task[s].step # "none" => request[s] = "answered"
    /\ task[s].step \in {"queued", "geocoded", "rated"} =>
          task[s].hasLocation = message[s].located
    /\ task[s].step \in {"geocoded", "rated"} => (task[s].found => message[s].places)

\* A row is as it was inserted until its task is over.
RowOK(s) ==
    sosRow[s].stored =>
      /\ message[s].located => sosRow[s].location = "user"
      /\ ~message[s].places => sosRow[s].location # "geocoded"
      /\ sosRow[s].urgency = Unrated \/
            (task[s].step = "over" /\ sosRow[s].urgency = task[s].rating)

ReportOK(s) == RequestOK(s) /\ TaskOK(s) /\ RowOK(s)
SosInv == TypeInv /\ \A s \in Sos : ReportOK(s)

-----------------------------------------------------------------------------
\* A step about one report leaves the others as they were.
LEMMA OthersKeep ==
    ASSUME SosInv, NEW s \in Sos, NEW q \in Sos \ {s}, message' = message,
           request'[q] = request[q], sosRow'[q] = sosRow[q], task'[q] = task[q],
           q \in deleted' <=> q \in deleted, q \in sosAudited => q \in sosAudited'
    PROVE  ReportOK(q)'
BY DEF SosInv, ReportOK, RequestOK, TaskOK, RowOK

LEMMA TaskType ==
    ASSUME SosInv, NEW s \in Sos
    PROVE  /\ message[s].located \in BOOLEAN /\ message[s].places \in BOOLEAN
           /\ task[s] \in Tasks
           /\ task[s].step = "queued" => task[s].hasLocation \in BOOLEAN
           /\ task[s].step = "geocoded" =>
                 task[s].hasLocation \in BOOLEAN /\ task[s].found \in BOOLEAN
           /\ task[s].step = "rated" =>
                 /\ task[s].hasLocation \in BOOLEAN /\ task[s].found \in BOOLEAN
                 /\ task[s].rating \in Ratings
<1>1. task[s] \in Tasks
  BY DEF SosInv, TypeInv
<1>2. message[s] \in Messages
  BY DEF SosInv, TypeInv, SosTypeOK
<1>3. message[s].located \in BOOLEAN /\ message[s].places \in BOOLEAN
  BY <1>2, SosAssumption
<1>4. /\ task[s].step = "queued" => task[s].hasLocation \in BOOLEAN
      /\ task[s].step = "geocoded" =>
            task[s].hasLocation \in BOOLEAN /\ task[s].found \in BOOLEAN
      /\ task[s].step = "rated" =>
            /\ task[s].hasLocation \in BOOLEAN /\ task[s].found \in BOOLEAN
            /\ task[s].rating \in Ratings
  BY <1>1 DEF Tasks, NoTask
<1>5. QED
  BY <1>1, <1>3, <1>4

\* A stored row is not NoRow.
LEMMA StoredType ==
    ASSUME SosInv, NEW s \in Sos, sosRow[s].stored
    PROVE  sosRow[s] \in [stored : {TRUE}, urgency : Ratings \ {Garbled}, triaged : BOOLEAN,
                          location : {"none", "user", "geocoded"}]
<1>1. sosRow[s] \in Rows
  BY DEF SosInv, TypeInv, SosTypeOK, Rows
<1>2. NoRow.stored = FALSE
  BY DEF NoRow
<1>3. sosRow[s] # NoRow
  BY <1>2
<1>4. QED
  BY <1>1, <1>3 DEF Rows

-----------------------------------------------------------------------------
(***************************************************************************)
(* The request.                                                            *)
(***************************************************************************)
LEMMA SubmitSosKeeps ==
    ASSUME SosInv, NEW s \in Sos, SubmitSos(s)
    PROVE  SosInv'
<1> DEFINE new == [stored |-> TRUE, urgency |-> Unrated, triaged |-> FALSE,
                   location |-> IF message[s].located THEN "user" ELSE "none"]
<1>1. /\ request[s] = "none" /\ request' = [request EXCEPT ![s] = "inserted"]
      /\ sosRow' = [sosRow EXCEPT ![s] = new]
      /\ UNCHANGED <<message, sosAudited, task, deleted, restarts>>
  BY DEF SubmitSos
<1>2. new \in Rows /\ new.stored /\ new.urgency = Unrated
      /\ new.location = IF message[s].located THEN "user" ELSE "none"
  BY DEF Rows, Ratings, Unrated, Garbled
<1> HIDE DEF new
<1>3. request \in [Sos -> {"none", "inserted", "answered", "failed"}]
      /\ sosRow \in [Sos -> Rows]
  BY DEF SosInv, TypeInv, SosTypeOK, Rows
<1>4. /\ request' \in [Sos -> {"none", "inserted", "answered", "failed"}]
      /\ sosRow' \in [Sos -> Rows]
      /\ request'[s] = "inserted" /\ sosRow'[s] = new
      /\ \A q \in Sos \ {s} : request'[q] = request[q] /\ sosRow'[q] = sosRow[q]
  BY <1>1, <1>2, <1>3
<1>5. TypeInv'
  BY <1>1, <1>4 DEF SosInv, TypeInv, SosTypeOK, Rows
<1>6. s \notin deleted /\ task[s].step = "none"
  BY <1>1 DEF SosInv, ReportOK, RequestOK, TaskOK
<1>7. ReportOK(s)'
  BY <1>1, <1>2, <1>4, <1>6 DEF ReportOK, RequestOK, TaskOK, RowOK
<1>8. \A q \in Sos \ {s} : ReportOK(q)'
  BY <1>1, <1>4, OthersKeep
<1>9. QED
  BY <1>5, <1>7, <1>8 DEF SosInv

LEMMA AuditSosKeeps ==
    ASSUME SosInv, NEW s \in Sos, AuditSos(s)
    PROVE  SosInv'
<1> DEFINE new == [step |-> "queued", hasLocation |-> message[s].located]
<1>1. /\ request[s] = "inserted" /\ request' = [request EXCEPT ![s] = "answered"]
      /\ sosAudited' = sosAudited \cup {s}
      /\ task' = [task EXCEPT ![s] = new]
      /\ UNCHANGED <<message, sosRow, deleted, restarts>>
  BY DEF AuditSos
<1>2. new \in Tasks /\ new.step = "queued" /\ new.hasLocation = message[s].located
  BY TaskType DEF Tasks
<1> HIDE DEF new
<1>3. request \in [Sos -> {"none", "inserted", "answered", "failed"}] /\ task \in [Sos -> Tasks]
  BY DEF SosInv, TypeInv, SosTypeOK
<1>4. /\ request' \in [Sos -> {"none", "inserted", "answered", "failed"}]
      /\ task' \in [Sos -> Tasks]
      /\ request'[s] = "answered" /\ task'[s] = new
      /\ \A q \in Sos \ {s} : request'[q] = request[q] /\ task'[q] = task[q]
  BY <1>1, <1>2, <1>3
<1>5. TypeInv'
  BY <1>1, <1>4 DEF SosInv, TypeInv, SosTypeOK
<1>6. RequestOK(s) /\ RowOK(s) /\ task[s].step = "none"
  BY <1>1 DEF SosInv, ReportOK, TaskOK
<1>7. RequestOK(s)' /\ TaskOK(s)' /\ RowOK(s)'
  BY <1>1, <1>2, <1>4, <1>6 DEF RequestOK, TaskOK, RowOK
<1>8. \A q \in Sos \ {s} : ReportOK(q)'
  BY <1>1, <1>4, OthersKeep
<1>9. QED
  BY <1>5, <1>7, <1>8 DEF SosInv, ReportOK

LEMMA RequestSosFailsKeeps ==
    ASSUME SosInv, NEW s \in Sos, RequestSosFails(s)
    PROVE  SosInv'
<1>1. /\ request[s] \in {"none", "inserted"} /\ request' = [request EXCEPT ![s] = "failed"]
      /\ UNCHANGED <<message, sosRow, sosAudited, task, deleted, restarts>>
  BY DEF RequestSosFails
<1>2. request \in [Sos -> {"none", "inserted", "answered", "failed"}]
  BY DEF SosInv, TypeInv, SosTypeOK
<1>3. /\ request' \in [Sos -> {"none", "inserted", "answered", "failed"}]
      /\ request'[s] = "failed"
      /\ \A q \in Sos \ {s} : request'[q] = request[q]
  BY <1>1, <1>2
<1>4. TypeInv'
  BY <1>1, <1>3 DEF SosInv, TypeInv, SosTypeOK
<1>5. ReportOK(s)'
  BY <1>1, <1>3 DEF SosInv, ReportOK, RequestOK, TaskOK, RowOK
<1>6. \A q \in Sos \ {s} : ReportOK(q)'
  BY <1>1, <1>3, OthersKeep
<1>7. QED
  BY <1>4, <1>5, <1>6 DEF SosInv

LEMMA DeleteMySosKeeps ==
    ASSUME SosInv, NEW s \in Sos, DeleteMySos(s)
    PROVE  SosInv'
<1>1. /\ sosRow[s].stored /\ sosRow' = [sosRow EXCEPT ![s] = NoRow]
      /\ deleted' = deleted \cup {s}
      /\ UNCHANGED <<message, request, sosAudited, task, restarts>>
  BY DEF DeleteMySos
<1>2. NoRow \in Rows /\ ~NoRow.stored
  BY DEF Rows, NoRow
<1>3. sosRow \in [Sos -> Rows]
  BY DEF SosInv, TypeInv, SosTypeOK, Rows
<1>4. /\ sosRow' \in [Sos -> Rows] /\ sosRow'[s] = NoRow
      /\ \A q \in Sos \ {s} : sosRow'[q] = sosRow[q]
  BY <1>1, <1>2, <1>3
<1>5. TypeInv'
  BY <1>1, <1>4 DEF SosInv, TypeInv, SosTypeOK, Rows
<1>6. RequestOK(s) /\ TaskOK(s) /\ request[s] # "none"
  BY <1>1 DEF SosInv, ReportOK, RequestOK
<1>7. RequestOK(s)' /\ TaskOK(s)' /\ RowOK(s)'
  BY <1>1, <1>2, <1>4, <1>6 DEF RequestOK, TaskOK, RowOK
<1>8. \A q \in Sos \ {s} : ReportOK(q)'
  BY <1>1, <1>4, OthersKeep
<1>9. QED
  BY <1>5, <1>7, <1>8 DEF SosInv, ReportOK

-----------------------------------------------------------------------------
(***************************************************************************)
(* The task.                                                               *)
(***************************************************************************)
\* A step of the task that leaves the row alone.
LEMMA TaskFrame ==
    ASSUME SosInv, NEW s \in Sos, NEW new \in Tasks,
           task[s].step \in {"queued", "geocoded", "rated"},
           new.step \in {"geocoded", "rated", "over"},
           new.step \in {"geocoded", "rated"} =>
              /\ new.hasLocation = message[s].located
              /\ new.found => message[s].places,
           task' = [task EXCEPT ![s] = new],
           UNCHANGED <<message, request, sosRow, sosAudited, deleted, restarts>>
    PROVE  SosInv'
<1>1. task \in [Sos -> Tasks]
  BY DEF SosInv, TypeInv
<1>2. /\ task' \in [Sos -> Tasks] /\ task'[s] = new
      /\ \A q \in Sos \ {s} : task'[q] = task[q]
  BY <1>1
<1>3. TypeInv'
  BY <1>2 DEF SosInv, TypeInv, SosTypeOK
<1>4. RequestOK(s) /\ TaskOK(s) /\ RowOK(s)
  BY DEF SosInv, ReportOK
<1>5. RequestOK(s)' /\ TaskOK(s)' /\ RowOK(s)'
  BY <1>2, <1>4 DEF RequestOK, TaskOK, RowOK
<1>6. \A q \in Sos \ {s} : ReportOK(q)'
  BY <1>2, OthersKeep
<1>7. QED
  BY <1>3, <1>5, <1>6 DEF SosInv, ReportOK

LEMMA GeocodeSosKeeps ==
    ASSUME SosInv, NEW s \in Sos, GeocodeSos(s)
    PROVE  SosInv'
<1>1. PICK up \in BOOLEAN, found \in BOOLEAN :
         /\ found => Readable(message[s], up)
         /\ task' = [task EXCEPT ![s] =
               [step |-> "geocoded", hasLocation |-> task[s].hasLocation, found |-> found]]
  BY DEF GeocodeSos
<1> DEFINE new == [step |-> "geocoded", hasLocation |-> task[s].hasLocation, found |-> found]
<1>2. task[s].step = "queued" /\ UNCHANGED <<message, request, sosRow, sosAudited, deleted, restarts>>
  BY DEF GeocodeSos
<1>3. task[s].hasLocation \in BOOLEAN /\ task[s].hasLocation = message[s].located
  BY <1>2, TaskType DEF SosInv, ReportOK, TaskOK
<1>4. found => message[s].places
  BY <1>1 DEF Readable
<1>5. new \in Tasks /\ new.step = "geocoded" /\ new.hasLocation = message[s].located
      /\ new.found = found
  BY <1>3 DEF Tasks
<1>6. task' = [task EXCEPT ![s] = new]
  BY <1>1
<1> HIDE DEF new
<1>7. QED
  BY <1>2, <1>4, <1>5, <1>6, TaskFrame

LEMMA TriageSosKeeps ==
    ASSUME SosInv, NEW s \in Sos, TriageSos(s)
    PROVE  SosInv'
<1>1. PICK rating \in Ratings :
         task' = [task EXCEPT ![s] = [step |-> "rated", hasLocation |-> task[s].hasLocation,
                                      found |-> task[s].found, rating |-> rating]]
  BY DEF TriageSos
<1> DEFINE new == [step |-> "rated", hasLocation |-> task[s].hasLocation,
                   found |-> task[s].found, rating |-> rating]
<1>2. task[s].step = "geocoded" /\ UNCHANGED <<message, request, sosRow, sosAudited, deleted, restarts>>
  BY DEF TriageSos
<1>3. /\ task[s].hasLocation \in BOOLEAN /\ task[s].hasLocation = message[s].located
      /\ task[s].found \in BOOLEAN /\ (task[s].found => message[s].places)
  BY <1>2, TaskType DEF SosInv, ReportOK, TaskOK
<1>4. /\ new \in Tasks /\ new.step = "rated" /\ new.hasLocation = message[s].located
      /\ new.found = task[s].found
  BY <1>3 DEF Tasks
<1>5. task' = [task EXCEPT ![s] = new]
  BY <1>1
<1> HIDE DEF new
<1>6. QED
  BY <1>2, <1>3, <1>4, <1>5, TaskFrame

\* The task ends without a trace in the row.
LEMMA TaskEnds ==
    ASSUME SosInv, NEW s \in Sos, task[s].step \in {"queued", "geocoded", "rated"},
           NEW result \in {"done", "refused", "lost"}, NEW rating \in Ratings,
           task' = [task EXCEPT ![s] = Over(result, rating)],
           UNCHANGED <<message, request, sosRow, sosAudited, deleted, restarts>>
    PROVE  SosInv'
<1>1. Over(result, rating) \in Tasks /\ Over(result, rating).step = "over"
  BY DEF Over, Tasks
<1>2. QED
  BY <1>1, TaskFrame

\* What the UPDATE makes of a row that was as it was inserted.
LEMMA EnrichedRow ==
    ASSUME SosInv, NEW s \in Sos, task[s].step = "rated", task[s].rating # Garbled,
           sosRow[s].stored
    PROVE  LET new == Enriched(sosRow[s], task[s])
           IN  /\ new \in Rows /\ new.stored
               /\ new.urgency \in {Unrated, task[s].rating}
               /\ message[s].located => new.location = "user"
               /\ ~message[s].places => new.location # "geocoded"
<1> DEFINE row == sosRow[s]
           t == task[s]
           new == Enriched(row, t)
<1>1. row \in [stored : {TRUE}, urgency : Ratings \ {Garbled}, triaged : BOOLEAN,
               location : {"none", "user", "geocoded"}]
  BY StoredType
<1>2. /\ t.hasLocation = message[s].located /\ (t.found => message[s].places)
      /\ t.rating \in Ratings \ {Garbled}
      /\ row.urgency = Unrated
      /\ message[s].located => row.location = "user"
      /\ ~message[s].places => row.location # "geocoded"
  BY TaskType DEF SosInv, ReportOK, TaskOK, RowOK
<1> HIDE DEF row, t
<1>3. /\ new \in [stored : {TRUE}, urgency : Ratings \ {Garbled}, triaged : BOOLEAN,
                  location : {"none", "user", "geocoded"}]
      /\ new.urgency = IF t.rating = Unrated THEN row.urgency ELSE t.rating
      /\ new.location = IF ~t.hasLocation /\ t.found THEN "geocoded" ELSE row.location
  BY <1>1, <1>2 DEF Enriched
<1> HIDE DEF new
<1>4. /\ new \in Rows /\ new.stored /\ new.urgency \in {Unrated, t.rating}
      /\ message[s].located => new.location = "user"
      /\ ~message[s].places => new.location # "geocoded"
  BY <1>2, <1>3 DEF Rows
<1>5. QED
  BY <1>4 DEF new, row, t

LEMMA WriteBackSosKeeps ==
    ASSUME SosInv, NEW s \in Sos, WriteBackSos(s)
    PROVE  SosInv'
<1>1. task[s].step = "rated" /\ task[s].rating \in Ratings
      /\ UNCHANGED <<message, request, sosAudited, deleted, restarts>>
  BY TaskType DEF WriteBackSos
<1>2. CASE task[s].rating = Garbled
  <2>1. task' = [task EXCEPT ![s] = Over("refused", task[s].rating)] /\ UNCHANGED sosRow
    BY <1>2 DEF WriteBackSos
  <2>2. QED
    BY <1>1, <2>1, TaskEnds
<1>3. CASE task[s].rating # Garbled /\ ~sosRow[s].stored
  <2>1. task' = [task EXCEPT ![s] = Over("done", task[s].rating)] /\ sosRow' = sosRow
    BY <1>3 DEF WriteBackSos
  <2>2. QED
    BY <1>1, <2>1, TaskEnds
<1>4. CASE task[s].rating # Garbled /\ sosRow[s].stored
  <2> DEFINE new == Enriched(sosRow[s], task[s])
             end == Over("done", task[s].rating)
  <2>1. task' = [task EXCEPT ![s] = end] /\ sosRow' = [sosRow EXCEPT ![s] = new]
    BY <1>4 DEF WriteBackSos
  <2>2. /\ new \in Rows /\ new.stored /\ new.urgency \in {Unrated, task[s].rating}
        /\ message[s].located => new.location = "user"
        /\ ~message[s].places => new.location # "geocoded"
    BY <1>1, <1>4, EnrichedRow
  <2>3. end \in Tasks /\ end.step = "over" /\ end.rating = task[s].rating
    BY <1>1 DEF Over, Tasks
  <2> HIDE DEF new, end
  <2>4. task \in [Sos -> Tasks] /\ sosRow \in [Sos -> Rows]
    BY DEF SosInv, TypeInv, SosTypeOK, Rows
  <2>5. /\ task' \in [Sos -> Tasks] /\ sosRow' \in [Sos -> Rows]
        /\ task'[s] = end /\ sosRow'[s] = new
        /\ \A q \in Sos \ {s} : task'[q] = task[q] /\ sosRow'[q] = sosRow[q]
    BY <2>1, <2>2, <2>3, <2>4
  <2>6. TypeInv'
    BY <1>1, <2>5 DEF SosInv, TypeInv, SosTypeOK, Rows
  <2>7. RequestOK(s) /\ TaskOK(s)
    BY DEF SosInv, ReportOK
  <2>8. RequestOK(s)' /\ TaskOK(s)'
    BY <1>1, <1>4, <2>2, <2>3, <2>5, <2>7 DEF RequestOK, TaskOK
  <2>9. RowOK(s)'
    BY <1>1, <2>2, <2>3, <2>5 DEF RowOK
  <2>10. \A q \in Sos \ {s} : ReportOK(q)'
    BY <1>1, <2>5, OthersKeep
  <2>11. QED
    BY <2>6, <2>8, <2>9, <2>10 DEF SosInv, ReportOK
<1>5. QED
  BY <1>2, <1>3, <1>4

LEMMA WriteBackSosFailsKeeps ==
    ASSUME SosInv, NEW s \in Sos, WriteBackSosFails(s)
    PROVE  SosInv'
<1>1. /\ task[s].step = "rated"
      /\ task' = [task EXCEPT ![s] = Over("refused", task[s].rating)]
      /\ UNCHANGED <<message, request, sosRow, sosAudited, deleted, restarts>>
  BY DEF WriteBackSosFails
<1>2. QED
  BY <1>1, TaskType, TaskEnds

LEMMA RestartSosKeeps ==
    ASSUME SosInv, RestartSos
    PROVE  SosInv'
<1>1. /\ restarts < MaxRestarts /\ restarts' = restarts + 1
      /\ request' = [s \in Sos |-> IF request[s] = "inserted" THEN "failed" ELSE request[s]]
      /\ task' = [s \in Sos |-> IF task[s].step \in {"none", "over"} THEN task[s]
                                ELSE Over("lost", Unrated)]
      /\ UNCHANGED <<message, sosRow, sosAudited, deleted>>
  BY DEF RestartSos
<1>2. Over("lost", Unrated) \in Tasks /\ Over("lost", Unrated).step = "over"
  BY DEF Over, Tasks, Ratings
<1>3. task' \in [Sos -> Tasks]
  BY <1>1, <1>2 DEF SosInv, TypeInv
<1>4. request' \in [Sos -> {"none", "inserted", "answered", "failed"}]
  BY <1>1 DEF SosInv, TypeInv, SosTypeOK
<1>5. restarts' \in 0..MaxRestarts
  BY <1>1, SosAssumption DEF SosInv, TypeInv, SosTypeOK
<1>6. TypeInv'
  BY <1>1, <1>3, <1>4, <1>5 DEF SosInv, TypeInv, SosTypeOK
<1>7. ASSUME NEW s \in Sos PROVE ReportOK(s)'
  <2>1. RequestOK(s) /\ TaskOK(s) /\ RowOK(s)
    BY DEF SosInv, ReportOK
  <2>2. /\ request'[s] = IF request[s] = "inserted" THEN "failed" ELSE request[s]
        /\ \/ task'[s] = task[s] /\ task[s].step \in {"none", "over"}
           \/ task'[s].step = "over" /\ task[s].step \notin {"none", "over"}
    BY <1>1, <1>2
  <2>3. RequestOK(s)' /\ TaskOK(s)'
    BY <1>1, <2>1, <2>2 DEF RequestOK, TaskOK
  <2>4. RowOK(s)'
    BY <1>1, <2>1, <2>2 DEF RowOK
  <2>5. QED
    BY <2>3, <2>4 DEF ReportOK
<1>8. QED
  BY <1>6, <1>7 DEF SosInv

-----------------------------------------------------------------------------
LEMMA InitSosInv == SosInit => SosInv
<1>1. SUFFICES ASSUME SosInit PROVE SosInv
  OBVIOUS
<1>2. \A s \in Sos : /\ request[s] = "none" /\ sosRow[s] = NoRow /\ task[s] = NoTask
                     /\ s \notin deleted
  BY <1>1 DEF SosInit
<1>3. TypeInv
  BY <1>1, SosAssumption DEF SosInit, TypeInv, SosTypeOK, Tasks
<1>4. \A s \in Sos : ReportOK(s)
  BY <1>2 DEF ReportOK, RequestOK, TaskOK, RowOK, NoRow, NoTask
<1>5. QED
  BY <1>3, <1>4 DEF SosInv

LEMMA StutterSosInv == SosInv /\ UNCHANGED sosVars => SosInv'
<1>1. SUFFICES ASSUME SosInv, UNCHANGED sosVars PROVE SosInv'
  OBVIOUS
<1>2. TypeInv'
  BY <1>1 DEF SosInv, TypeInv, SosTypeOK, sosVars
<1>3. ASSUME NEW s \in Sos PROVE ReportOK(s)'
  BY <1>1 DEF SosInv, ReportOK, RequestOK, TaskOK, RowOK, sosVars
<1>4. QED
  BY <1>2, <1>3 DEF SosInv

LEMMA NextSosInv == SosInv /\ [SosNext]_sosVars => SosInv'
<1>1. SUFFICES ASSUME SosInv, [SosNext]_sosVars PROVE SosInv'
  OBVIOUS
<1>2. ASSUME NEW s \in Sos,
             \/ SubmitSos(s) \/ AuditSos(s) \/ RequestSosFails(s) \/ DeleteMySos(s)
             \/ TaskStep(s) \/ WriteBackSosFails(s)
      PROVE  SosInv'
  BY <1>1, <1>2, SubmitSosKeeps, AuditSosKeeps, RequestSosFailsKeeps, DeleteMySosKeeps,
     GeocodeSosKeeps, TriageSosKeeps, WriteBackSosKeeps, WriteBackSosFailsKeeps DEF TaskStep
<1>3. CASE UNCHANGED sosVars
  BY <1>1, <1>3, StutterSosInv
<1>4. QED
  BY <1>1, <1>2, <1>3, RestartSosKeeps DEF SosNext

LEMMA SosInvariance == SosSpec => []SosInv
BY InitSosInv, NextSosInv, PTL DEF SosSpec

\* Rows, requests and tasks keep the shapes that submit_sos and
\* _enrich_sos_background give them.
THEOREM SosTypeCorrect == SosSpec => []SosTypeOK
<1>1. SosInv => SosTypeOK
  BY DEF SosInv, TypeInv
<1>2. QED
  BY <1>1, SosInvariance, PTL

\* The enrichment brings no deleted report back, moves none away from where its
\* author is, and places none on a text without places: its UPDATE finds only
\* rows that are there, and whether the author gave coordinates is known to it
\* from the request (_enrich_sos_background, delete_sos).
THEOREM AuthorIsRespected == SosSpec => []AuthorHasTheLastWord
<1>1. SosInv => AuthorHasTheLastWord
  BY DEF SosInv, ReportOK, RequestOK, RowOK, AuthorHasTheLastWord
<1>2. QED
  BY <1>1, SosInvariance, PTL

\* An answered report is audited, and only its author or a low score takes it
\* from the officials' feed, not a failed triage or a restart.
THEOREM AnsweredStaysSeen == SosSpec => []AnsweredIsSeen
<1>1. SosInv => AnsweredIsSeen
  <2>1. SUFFICES ASSUME SosInv, NEW s \in Sos, request[s] = "answered"
                 PROVE  /\ s \in sosAudited
                        /\ \/ s \in Feed \/ s \in deleted
                           \/ /\ task[s].step = "over"
                              /\ task[s].rating \in 0..(MinUrgency - 1)
    BY DEF AnsweredIsSeen
  <2>2. s \in sosAudited /\ (sosRow[s].stored \/ s \in deleted)
    BY <2>1 DEF SosInv, ReportOK, RequestOK
  <2>3. CASE sosRow[s].stored /\ sosRow[s].urgency # Unrated
    <3>1. task[s].step = "over" /\ sosRow[s].urgency = task[s].rating
      BY <2>1, <2>3 DEF SosInv, ReportOK, RowOK
    <3>2. sosRow[s].urgency \in Ratings \ {Garbled}
      BY <2>1, <2>3, StoredType
    <3>3. sosRow[s].urgency \in Nat
      BY <2>3, <3>2 DEF Ratings, Unrated, Garbled
    <3>4. sosRow[s].urgency >= MinUrgency \/ sosRow[s].urgency \in 0..(MinUrgency - 1)
      BY <3>3, SosAssumption
    <3>5. QED
      BY <2>2, <2>3, <3>1, <3>4 DEF Feed
  <2>4. CASE sosRow[s].stored /\ sosRow[s].urgency = Unrated
    BY <2>2, <2>4 DEF Feed
  <2>5. QED
    BY <2>2, <2>3, <2>4
<1>2. QED
  BY <1>1, SosInvariance, PTL

-----------------------------------------------------------------------------
(***************************************************************************)
(* Wrong passwords are bounded, for every number of requests at once.      *)
(***************************************************************************)

USE DEF accountVars

\* Requests at a step, and those whose failure will lock the account.
At(step) == {l \in Logins : login[l] = step}
High == {l \in Logins : login[l] \in {"expire", "lock"} /\ counted[l] >= MaxFailures}

Requests == Cardinality(Logins)
Looking == Cardinality(At("look"))
Counting == Cardinality(At("count"))
Deleting == Cardinality(At("delete"))
Locking == Cardinality(High)

\* What the counter may hold without anybody being about to lock the account.
Low == IF attempts < MaxFailures THEN attempts ELSE MaxFailures - 1

\* While the lockout stands, whoever has passed its check may guess once more.
LockedBound == guesses + Looking <= MaxFailures * Requests + authFaults

\* While it does not, the guesses since the keys were last cleared are one round
\* below the limit for each request but one that is not about to delete the
\* counter, the round that is counted, and those that are not judged yet.
OpenBound ==
    /\ Deleting < Requests
    /\ guesses <= (MaxFailures - 1) * (Requests - 1 - Deleting)
                    + Low + Counting + Locking + authFaults

\* A request that is about to lock the account has counted too many failures.
LockingIsHigh == \A l \in Logins : login[l] = "lock" => counted[l] >= MaxFailures

GuessInv ==
    /\ LockingIsHigh
    /\ lockout => LockedBound
    /\ ~lockout /\ guesses > 0 => OpenBound

-----------------------------------------------------------------------------
LEMMA BoundsAreNatural ==
  MaxFailures \in Nat \ {0} /\ MaxGuesses \in Nat /\ MaxAuthFaults \in Nat
  BY AccountsAssumption

LEMMA TruthValues == \A b : b = TRUE \/ b = FALSE => b \in BOOLEAN
  OBVIOUS

LEMMA AccountsInitType == AccountsInit => AccountsTypeOK
  <1> SUFFICES ASSUME AccountsInit PROVE AccountsTypeOK
    OBVIOUS
  <1>1. account \in BOOLEAN /\ expires \in BOOLEAN /\ lockout \in BOOLEAN
    BY TruthValues DEF AccountsInit
  <1> QED
    BY <1>1, BoundsAreNatural DEF AccountsInit, AccountsTypeOK

LEMMA AccountsNextType == AccountsTypeOK /\ [AccountsNext]_accountVars => AccountsTypeOK'
  <1> SUFFICES ASSUME AccountsTypeOK, [AccountsNext]_accountVars
               PROVE  AccountsTypeOK'
    OBVIOUS
  <1> USE BoundsAreNatural DEF AccountsTypeOK
  <1>1. ASSUME NEW l \in Logins, NEW from, NEW to \in {"none", "signup", "look", "count",
                   "expire", "lock", "delete", "clear", "unlock"}, Goes(l, from, to)
        PROVE  login' \in [Logins -> {"none", "signup", "look", "count", "expire", "lock",
                                      "delete", "clear", "unlock"}]
    BY <1>1 DEF Goes
  <1>2. ASSUME NEW l \in Logins,
               \/ BeginSignup(l) \/ InsertProfile(l) \/ CheckLockout(l) \/ RightPassword(l)
        PROVE  AccountsTypeOK'
    BY <1>1, <1>2 DEF BeginSignup, InsertProfile, CheckLockout, RightPassword
  <1>3. ASSUME NEW l \in Logins, WrongPassword(l) PROVE AccountsTypeOK'
    BY <1>1, <1>3 DEF WrongPassword
  <1>4. ASSUME NEW l \in Logins, CountFailure(l) PROVE AccountsTypeOK'
    BY <1>1, <1>4 DEF CountFailure
  <1>5. ASSUME NEW l \in Logins, JudgeFailure(l) PROVE AccountsTypeOK'
    BY <1>1, <1>5 DEF JudgeFailure
  <1>6. ASSUME NEW l \in Logins, LockAccount(l) \/ DeleteCounter(l) PROVE AccountsTypeOK'
    <2>1. expires' \in BOOLEAN /\ lockout' \in BOOLEAN
      BY <1>6, TruthValues DEF LockAccount, DeleteCounter
    <2> QED
      BY <1>1, <1>6, <2>1 DEF LockAccount, DeleteCounter
  <1>7. ASSUME NEW l \in Logins, ClearCounter(l) \/ ClearLockout(l) PROVE AccountsTypeOK'
    <2>1. expires' \in BOOLEAN /\ lockout' \in BOOLEAN
      BY <1>7, TruthValues DEF ClearCounter, ClearLockout
    <2> QED
      BY <1>1, <1>7, <2>1 DEF ClearCounter, ClearLockout
  <1>8. ASSUME NEW l \in Logins, RequestIsLost(l) PROVE AccountsTypeOK'
    BY <1>8 DEF RequestIsLost
  <1>9. CASE CounterExpires \/ LockoutExpires
    <2>1. expires' \in BOOLEAN /\ lockout' \in BOOLEAN
      BY <1>9, TruthValues DEF CounterExpires, LockoutExpires
    <2> QED
      BY <1>9, <2>1 DEF CounterExpires, LockoutExpires
  <1>10. CASE UNCHANGED accountVars
    BY <1>10
  <1> QED
    BY <1>2, <1>3, <1>4, <1>5, <1>6, <1>7, <1>8, <1>9, <1>10 DEF AccountsNext

\* Every variable of Accounts keeps the shape its declaration describes.
THEOREM AccountsTypeCorrect == AccountsSpec => []AccountsTypeOK
  BY AccountsInitType, AccountsNextType, PTL DEF AccountsSpec

-----------------------------------------------------------------------------
(***************************************************************************)
(* Counting requests.                                                      *)
(***************************************************************************)
LEMMA CountsAreNatural ==
  /\ Requests \in Nat /\ Looking \in Nat /\ Counting \in Nat /\ Deleting \in Nat
  /\ Locking \in Nat /\ \A step : IsFiniteSet(At(step)) /\ Cardinality(At(step)) \in Nat
  /\ IsFiniteSet(High)
  <1>1. High \in SUBSET Logins /\ \A step : At(step) \in SUBSET Logins
    BY DEF High, At
  <1>2. IsFiniteSet(High) /\ \A step : IsFiniteSet(At(step))
    BY <1>1, AccountsAssumption, FS_Subset
  <1> QED
    BY <1>2, AccountsAssumption, FS_CardinalityType
    DEF Requests, Looking, Counting, Deleting, Locking

\* A request counts once, wherever it is.
LEMMA CountsFit ==
  /\ Looking + Counting + Locking <= Requests
  /\ Looking <= Requests
  /\ Deleting <= Requests
  /\ \A l \in Logins : login[l] # "delete" => Deleting < Requests
  <1>1. /\ High \in SUBSET Logins /\ At("look") \in SUBSET Logins
        /\ At("count") \in SUBSET Logins /\ At("delete") \in SUBSET Logins
    BY DEF High, At
  <1>2. Looking <= Requests /\ Deleting <= Requests
    BY <1>1, AccountsAssumption, FS_Subset DEF Looking, Deleting, Requests
  <1>3. ASSUME NEW l \in Logins, login[l] # "delete" PROVE Deleting < Requests
    <2>1. At("delete") # Logins
      BY <1>3 DEF At
    <2>2. Cardinality(At("delete")) # Cardinality(Logins)
      BY <1>1, <2>1, AccountsAssumption, FS_Subset
    <2> QED
      BY <1>2, <2>2, CountsAreNatural DEF Deleting, Requests
  <1>4. Looking + Counting + Locking <= Requests
    <2> DEFINE waiting == At("look") \cup At("count")
    <2>1. At("look") \cap At("count") = {} /\ waiting \cap High = {}
      BY DEF At, High
    <2>2. IsFiniteSet(waiting) /\ Cardinality(waiting) = Looking + Counting
      BY <2>1, CountsAreNatural, FS_Union, FS_EmptySet DEF Looking, Counting
    <2> HIDE DEF waiting
    <2>3. Cardinality(waiting \cup High) = Looking + Counting + Locking
      <3>1. Cardinality(waiting \cap High) = 0
        BY <2>1, FS_EmptySet
      <3>2. Cardinality(waiting \cup High)
              = Cardinality(waiting) + Cardinality(High) - Cardinality(waiting \cap High)
        BY <2>2, CountsAreNatural, FS_Union
      <3> QED
        BY <2>2, <3>1, <3>2, CountsAreNatural DEF Locking
    <2>4. Cardinality(waiting \cup High) <= Requests
      BY <1>1, AccountsAssumption, FS_Subset DEF Requests, waiting
    <2> QED
      BY <2>3, <2>4
  <1> QED
    BY <1>2, <1>3, <1>4

\* A request that goes from one step to another leaves the first count and joins
\* the second.
LEMMA GoingCounts ==
  ASSUME AccountsTypeOK, NEW l \in Logins, NEW from, NEW to, from # to, Goes(l, from, to)
  PROVE  /\ Cardinality(At(to))' = Cardinality(At(to)) + 1
         /\ Cardinality(At(from))' = Cardinality(At(from)) - 1
         /\ \A s : s # to /\ s # from => At(s)' = At(s)
  <1>1. \A k \in Logins : login'[k] = IF k = l THEN to ELSE login[k]
    BY DEF AccountsTypeOK, Goes
  <1>2. At(to)' = At(to) \cup {l} /\ l \notin At(to)
    BY <1>1 DEF At, Goes
  <1>3. At(from)' = At(from) \ {l} /\ l \in At(from)
    BY <1>1 DEF At, Goes
  <1>4. ASSUME NEW s, s # to, s # from PROVE At(s)' = At(s)
    BY <1>1, <1>4 DEF At, Goes
  <1>5. Cardinality(At(to) \cup {l}) = Cardinality(At(to)) + 1
    BY <1>2, CountsAreNatural, FS_AddElement
  <1>6. Cardinality(At(from) \ {l}) = Cardinality(At(from)) - 1
    BY <1>3, CountsAreNatural, FS_RemoveElement
  <1> QED
    BY <1>2, <1>3, <1>4, <1>5, <1>6

\* The products of the bound.
LEMMA Products ==
  ASSUME NEW m \in Nat \ {0}, NEW n \in Nat, NEW d \in Nat, d <= n
  PROVE  /\ n <= m * n /\ m * n \in Nat
         /\ d < n => (m - 1) * (n - 1 - d) \in Nat
         /\ (m - 1) * (n - 1 - (d - 1)) = (m - 1) * (n - 1 - d) + (m - 1)
         /\ (m - 1) * (n - 1 - d) \in Int
         /\ (m - 1) * (n - 1 - d) + (m - 1) + n <= m * n
  <1> DEFINE k == m - 1
  <1>1. k \in Nat /\ m = k + 1
    OBVIOUS
  <1> HIDE DEF k
  <1>2. m * n = k * n + n /\ k * n \in Nat
    BY <1>1
  <1>3. k * (n - 1 - (d - 1)) = k * (n - 1 - d) + k
    BY <1>1
  <1>4. k * (n - 1 - d) + k = k * n - k * d /\ k * d \in Nat
    BY <1>1
  <1>5. d < n => k * (n - 1 - d) \in Nat
    BY <1>1
  <1>6. k * (n - 1 - d) \in Int
    BY <1>1
  <1> QED
    BY <1>1, <1>2, <1>3, <1>4, <1>5, <1>6

LEMMA LowIsBounded ==
  ASSUME AccountsTypeOK PROVE Low \in 0..(MaxFailures - 1)
  BY AccountsAssumption DEF Low, AccountsTypeOK

LEMMA RequestsStay == Requests' = Requests /\ Requests \in Nat
  BY CountsAreNatural DEF Requests

\* The counts of the steps a request does not leave or reach stay.
LEMMA OtherCounts ==
  ASSUME AccountsTypeOK, NEW l \in Logins, NEW from, NEW to, from # to, Goes(l, from, to)
  PROVE  /\ Looking' = IF to = "look" THEN Looking + 1
                       ELSE IF from = "look" THEN Looking - 1 ELSE Looking
         /\ Counting' = IF to = "count" THEN Counting + 1
                        ELSE IF from = "count" THEN Counting - 1 ELSE Counting
         /\ Deleting' = IF to = "delete" THEN Deleting + 1
                        ELSE IF from = "delete" THEN Deleting - 1 ELSE Deleting
  <1>1. Looking' = IF to = "look" THEN Looking + 1
                   ELSE IF from = "look" THEN Looking - 1 ELSE Looking
    BY GoingCounts DEF Looking
  <1>2. Counting' = IF to = "count" THEN Counting + 1
                    ELSE IF from = "count" THEN Counting - 1 ELSE Counting
    BY GoingCounts DEF Counting
  <1>3. Deleting' = IF to = "delete" THEN Deleting + 1
                    ELSE IF from = "delete" THEN Deleting - 1 ELSE Deleting
    BY GoingCounts DEF Deleting
  <1> QED
    BY <1>1, <1>2, <1>3

\* Only counting, locking and losing a request change who is about to lock.
LEMMA HighStays ==
  ASSUME AccountsTypeOK, NEW l \in Logins, NEW from, NEW to, Goes(l, from, to),
         UNCHANGED counted,
         \/ from \notin {"expire", "lock"} /\ to \notin {"expire", "lock"}
         \/ from \in {"expire", "lock"} /\ to \in {"expire", "lock"}
         \/ counted[l] < MaxFailures
  PROVE  High' = High /\ Locking' = Locking
  <1>1. \A k \in Logins : login'[k] = IF k = l THEN to ELSE login[k]
    BY DEF AccountsTypeOK, Goes
  <1>2. ~ (counted[l] < MaxFailures /\ counted[l] >= MaxFailures)
    BY BoundsAreNatural DEF AccountsTypeOK
  <1>3. High' = High
    BY <1>1, <1>2 DEF High, Goes
  <1> QED
    BY <1>3 DEF Locking

LEMMA HighLeaves ==
  ASSUME AccountsTypeOK, NEW l \in High, NEW to, login' = [login EXCEPT ![l] = to],
         to \notin {"expire", "lock"}, UNCHANGED counted
  PROVE  Locking' = Locking - 1
  <1>1. \A k \in Logins : login'[k] = IF k = l THEN to ELSE login[k]
    BY DEF AccountsTypeOK
  <1>2. High' = High \ {l}
    BY <1>1 DEF High
  <1> QED
    BY <1>2, CountsAreNatural, FS_RemoveElement DEF Locking

LEMMA HighGrows ==
  ASSUME AccountsTypeOK, NEW l \in Logins, CountFailure(l)
  PROVE  Locking' = IF attempts + 1 >= MaxFailures THEN Locking + 1 ELSE Locking
  <1>1. /\ \A k \in Logins : login'[k] = IF k = l THEN "expire" ELSE login[k]
        /\ \A k \in Logins : counted'[k] = IF k = l THEN attempts + 1 ELSE counted[k]
        /\ l \notin High
    BY DEF AccountsTypeOK, CountFailure, Goes, High
  <1>2. High' = IF attempts + 1 >= MaxFailures THEN High \cup {l} ELSE High
    BY <1>1 DEF High
  <1> QED
    BY <1>1, <1>2, CountsAreNatural, FS_AddElement DEF Locking

\* What the bounds of a state need of numbers.
LEMMA Numbers ==
  ASSUME AccountsTypeOK
  PROVE  /\ MaxFailures \in Nat \ {0} /\ guesses \in Nat /\ authFaults \in Nat
         /\ Requests \in Nat /\ Looking \in Nat /\ Counting \in Nat
         /\ Deleting \in Nat /\ Locking \in Nat
         /\ Low \in Nat /\ Low <= MaxFailures - 1
         /\ Looking + Counting + Locking <= Requests /\ Looking <= Requests
         /\ Deleting <= Requests /\ Requests <= MaxFailures * Requests
         /\ MaxFailures * Requests \in Nat
  <1>1. guesses \in Nat /\ authFaults \in Nat
    BY BoundsAreNatural DEF AccountsTypeOK
  <1>2. Low \in Nat /\ Low <= MaxFailures - 1
    BY LowIsBounded, BoundsAreNatural
  <1>3. Requests <= MaxFailures * Requests /\ MaxFailures * Requests \in Nat
    BY Products, BoundsAreNatural, CountsAreNatural
  <1> QED
    BY <1>1, <1>2, <1>3, BoundsAreNatural, CountsAreNatural, CountsFit

\* The rounds that requests other than the one that counts have won.
Won == (MaxFailures - 1) * (Requests - 1 - Deleting)

LEMMA WonFits ==
  ASSUME AccountsTypeOK
  PROVE  /\ Won \in Int /\ (Deleting < Requests => Won \in Nat)
         /\ Won + (MaxFailures - 1) + Requests <= MaxFailures * Requests
         /\ Deleting' = Deleting => Won' = Won
         /\ Deleting' = Deleting - 1 => Won' = Won + (MaxFailures - 1)
  <1>1. \A d \in Nat : d <= Requests =>
           /\ (MaxFailures - 1) * (Requests - 1 - d) \in Int
           /\ d < Requests => (MaxFailures - 1) * (Requests - 1 - d) \in Nat
           /\ (MaxFailures - 1) * (Requests - 1 - d) + (MaxFailures - 1) + Requests
                <= MaxFailures * Requests
           /\ (MaxFailures - 1) * (Requests - 1 - (d - 1))
                = (MaxFailures - 1) * (Requests - 1 - d) + (MaxFailures - 1)
    BY Products, BoundsAreNatural, CountsAreNatural
  <1>2. Won' = (MaxFailures - 1) * (Requests - 1 - Deleting')
    BY RequestsStay DEF Won
  <1> QED
    BY <1>1, <1>2, Numbers DEF Won

LEMMA OpenIs ==
  OpenBound <=> /\ Deleting < Requests
                /\ guesses <= Won + Low + Counting + Locking + authFaults
  BY DEF OpenBound, Won

LEMMA OpenIsNext ==
  OpenBound' <=> /\ Deleting' < Requests
                 /\ guesses' <= Won' + Low' + Counting' + Locking' + authFaults'
  BY RequestsStay DEF OpenBound, Won

LEMMA LockedIsNext ==
  LockedBound' <=> guesses' + Looking' <= MaxFailures * Requests + authFaults'
  BY RequestsStay DEF LockedBound

-----------------------------------------------------------------------------
(***************************************************************************)
(* The steps.                                                              *)
(***************************************************************************)
LEMMA LookingIsNatural == Looking \in Nat
  BY CountsAreNatural

LEMMA LookingIsNaturalNext == (Looking \in Nat)'
  BY LookingIsNatural, PTL

\* Once nothing is guessed, the bounds hold whoever is where.
LEMMA NothingGuessed ==
  ASSUME AccountsTypeOK, AccountsTypeOK', guesses' = 0, Looking' <= Looking
  PROVE  (lockout => LockedBound)' /\ (~lockout /\ guesses > 0 => OpenBound)'
  <1>1. guesses' + Looking' <= MaxFailures * Requests + authFaults'
    <2>1. Looking' \in Nat /\ authFaults' \in Nat
      BY LookingIsNaturalNext, BoundsAreNatural DEF AccountsTypeOK
    <2> QED
      BY <2>1, Numbers
  <1> QED
    BY <1>1, LockedIsNext

LEMMA WrongPasswordStep ==
  ASSUME AccountsTypeOK, GuessInv, NEW l \in Logins, WrongPassword(l)
  PROVE  (lockout => LockedBound)' /\ (~lockout /\ guesses > 0 => OpenBound)'
  <1>1. /\ Looking' = Looking - 1 /\ Counting' = Counting + 1 /\ Deleting' = Deleting
        /\ Locking' = Locking /\ Low' = Low /\ Deleting < Requests
        /\ guesses' = guesses + 1 /\ lockout' = lockout /\ authFaults' = authFaults
    <2>1. Goes(l, "look", "count") /\ UNCHANGED <<counted, attempts, lockout, authFaults>>
      BY DEF WrongPassword
    <2>2. login[l] # "delete"
      BY <2>1 DEF Goes
    <2> QED
      BY <2>1, <2>2, OtherCounts, HighStays, CountsFit DEF WrongPassword, Low
  <1>2. CASE lockout
    BY <1>1, <1>2, LockedIsNext, Numbers DEF GuessInv, LockedBound
  <1>3. CASE ~lockout
    <2>1. Won' = Won /\ Won \in Nat
      BY <1>1, WonFits
    <2>2. guesses <= Won + Low + Counting + Locking + authFaults
      BY <1>3, <2>1, OpenIs, Numbers DEF GuessInv
    <2>3. OpenBound'
      BY <1>1, <2>1, <2>2, OpenIsNext, Numbers
    <2> QED
      BY <1>1, <1>3, <2>3
  <1> QED
    BY <1>2, <1>3

LEMMA CountFailureStep ==
  ASSUME AccountsTypeOK, GuessInv, NEW l \in Logins, CountFailure(l)
  PROVE  (lockout => LockedBound)' /\ (~lockout /\ guesses > 0 => OpenBound)'
  <1>1. /\ Looking' = Looking /\ Counting' = Counting - 1 /\ Deleting' = Deleting
        /\ guesses' = guesses /\ lockout' = lockout /\ authFaults' = authFaults
    BY OtherCounts DEF CountFailure
  <1>2. Low' + Locking' >= Low + Locking + 1 /\ Low' \in Nat /\ Locking' \in Nat
    <2>1. attempts \in Nat /\ attempts' = attempts + 1
      BY DEF AccountsTypeOK, CountFailure
    <2> QED
      BY <2>1, HighGrows, Numbers DEF Low
  <1>3. CASE lockout
    BY <1>1, <1>3, LockedIsNext, Numbers DEF GuessInv, LockedBound
  <1>4. CASE ~lockout /\ guesses > 0
    <2>1. Won' = Won /\ Won \in Int
      BY <1>1, WonFits
    <2>2. OpenBound'
      BY <1>1, <1>2, <1>4, <2>1, OpenIs, OpenIsNext, Numbers DEF GuessInv
    <2> QED
      BY <1>1, <1>4, <2>2
  <1> QED
    BY <1>1, <1>3, <1>4

LEMMA LockAccountStep ==
  ASSUME AccountsTypeOK, GuessInv, NEW l \in Logins, LockAccount(l)
  PROVE  (lockout => LockedBound)' /\ (~lockout /\ guesses > 0 => OpenBound)'
  <1>1. /\ Looking' = Looking /\ guesses' = guesses /\ authFaults' = authFaults /\ lockout'
    BY OtherCounts DEF LockAccount
  <1>2. guesses + Looking <= MaxFailures * Requests + authFaults
    <2>1. CASE lockout
      BY <2>1 DEF GuessInv, LockedBound
    <2>2. CASE guesses = 0
      BY <2>2, Numbers
    <2>3. CASE ~lockout /\ guesses > 0
      BY <2>3, OpenIs, WonFits, Numbers DEF GuessInv
    <2> QED
      BY <2>1, <2>2, <2>3, Numbers
  <1> QED
    BY <1>1, <1>2, LockedIsNext

LEMMA DeleteCounterStep ==
  ASSUME AccountsTypeOK, GuessInv, NEW l \in Logins, DeleteCounter(l)
  PROVE  (lockout => LockedBound)' /\ (~lockout /\ guesses > 0 => OpenBound)'
  <1>1. /\ Looking' = Looking /\ Counting' = Counting /\ Deleting' = Deleting - 1
        /\ Locking' = Locking
        /\ guesses' = guesses /\ lockout' = lockout /\ authFaults' = authFaults
    BY OtherCounts, HighStays DEF DeleteCounter
  <1>2. Low' = 0
    BY BoundsAreNatural DEF DeleteCounter, Low
  <1>3. CASE lockout
    BY <1>1, <1>3, LockedIsNext, Numbers DEF GuessInv, LockedBound
  <1>4. CASE ~lockout /\ guesses > 0
    <2>1. Won' = Won + (MaxFailures - 1) /\ Won \in Int
      BY <1>1, WonFits
    <2>2. OpenBound'
      BY <1>1, <1>2, <1>4, <2>1, OpenIs, OpenIsNext, Numbers DEF GuessInv
    <2> QED
      BY <1>1, <1>4, <2>2
  <1> QED
    BY <1>1, <1>3, <1>4

LEMMA RequestIsLostStep ==
  ASSUME AccountsTypeOK, GuessInv, NEW l \in Logins, RequestIsLost(l)
  PROVE  (lockout => LockedBound)' /\ (~lockout /\ guesses > 0 => OpenBound)'
  <1>1. PICK from : from # "none" /\ Goes(l, from, "none")
    BY DEF RequestIsLost, Goes
  <1>2. /\ guesses' = guesses /\ lockout' = lockout /\ authFaults' = authFaults + 1
        /\ UNCHANGED <<counted, attempts>>
    BY DEF RequestIsLost
  <1>3. /\ Looking' <= Looking /\ Looking' \in Nat
        /\ Deleting' = Deleting \/ Deleting' = Deleting - 1
    BY <1>1, OtherCounts, Numbers, LookingIsNaturalNext
  <1>4. Counting' + Locking' >= Counting + Locking - 1 /\ Counting' \in Int /\ Locking' \in Int
    <2>1. CASE l \in High
      <3>1. Locking' = Locking - 1
        BY <1>1, <1>2, <2>1, HighLeaves DEF Goes
      <3>2. Counting' = Counting
        <4>1. from \in {"expire", "lock"}
          BY <1>1, <2>1 DEF Goes, High
        <4> QED
          BY <1>1, <4>1, OtherCounts
      <3> QED
        BY <3>1, <3>2, Numbers
    <2>2. CASE l \notin High
      <3>1. Locking' = Locking
        <4>1. from \notin {"expire", "lock"} \/ counted[l] < MaxFailures
          BY <1>1, <2>2, BoundsAreNatural DEF High, Goes, AccountsTypeOK
        <4> QED
          BY <1>1, <1>2, <4>1, HighStays
      <3>2. Counting' \in {Counting, Counting - 1}
        BY <1>1, OtherCounts
      <3> QED
        BY <3>1, <3>2, Numbers
    <2> QED
      BY <2>1, <2>2
  <1>5. CASE lockout
    BY <1>2, <1>3, <1>5, LockedIsNext, Numbers DEF GuessInv, LockedBound
  <1>6. CASE ~lockout /\ guesses > 0
    <2>1. Won' >= Won /\ Won \in Int /\ Won' \in Int
      BY <1>3, WonFits, Numbers
    <2>2. Low' = Low
      BY <1>2 DEF Low
    <2>3. OpenBound'
      BY <1>2, <1>3, <1>4, <1>6, <2>1, <2>2, OpenIs, OpenIsNext, Numbers DEF GuessInv
    <2> QED
      BY <1>2, <1>6, <2>3
  <1> QED
    BY <1>2, <1>5, <1>6

\* The other steps of a request neither guess nor count.
LEMMA QuietRequestStep ==
  ASSUME AccountsTypeOK, GuessInv, NEW l \in Logins,
         \/ BeginSignup(l) \/ InsertProfile(l) \/ CheckLockout(l) \/ RightPassword(l)
         \/ JudgeFailure(l)
  PROVE  (lockout => LockedBound)' /\ (~lockout /\ guesses > 0 => OpenBound)'
  <1>1. PICK from, to :
           /\ from # to /\ Goes(l, from, to) /\ {from, to} \cap {"count", "delete"} = {}
           /\ \/ from \notin {"expire", "lock"} /\ to \notin {"expire", "lock"}
              \/ from \in {"expire", "lock"} /\ to \in {"expire", "lock"}
              \/ counted[l] < MaxFailures
           /\ to = "look" => ~lockout
    <2>1. CASE JudgeFailure(l)
      <3>1. CASE counted[l] >= MaxFailures
        BY <2>1, <3>1 DEF JudgeFailure
      <3>2. CASE counted[l] < MaxFailures
        BY <2>1, <3>2, BoundsAreNatural DEF JudgeFailure, AccountsTypeOK
      <3> QED
        BY <3>1, <3>2, BoundsAreNatural DEF AccountsTypeOK
    <2>2. CASE BeginSignup(l)
      BY <2>2 DEF BeginSignup
    <2>3. CASE InsertProfile(l)
      BY <2>3 DEF InsertProfile
    <2>4. CASE CheckLockout(l)
      BY <2>4 DEF CheckLockout
    <2>5. CASE RightPassword(l)
      BY <2>5 DEF RightPassword
    <2> QED
      BY <2>1, <2>2, <2>3, <2>4, <2>5
  <1>2. UNCHANGED <<guesses, lockout, authFaults, counted, attempts>>
    BY DEF BeginSignup, InsertProfile, CheckLockout, RightPassword, JudgeFailure
  <1>3. /\ Counting' = Counting /\ Deleting' = Deleting /\ Locking' = Locking
        /\ lockout => Looking' \in {Looking, Looking - 1}
    BY <1>1, <1>2, OtherCounts, HighStays
  <1>4. CASE lockout
    BY <1>2, <1>3, <1>4, LockedIsNext, Numbers DEF GuessInv, LockedBound
  <1>5. CASE ~lockout
    BY <1>2, <1>3, <1>5, OpenIs, OpenIsNext, WonFits DEF GuessInv, Low
  <1> QED
    BY <1>4, <1>5

LEMMA LockingIsHighStep ==
  ASSUME AccountsTypeOK, LockingIsHigh, [AccountsNext]_accountVars
  PROVE  LockingIsHigh'
  <1> USE DEF LockingIsHigh
  <1>1. ASSUME NEW l \in Logins, CountFailure(l) PROVE LockingIsHigh'
    BY <1>1 DEF CountFailure, Goes, AccountsTypeOK
  <1>2. ASSUME NEW l \in Logins, JudgeFailure(l) PROVE LockingIsHigh'
    BY <1>2 DEF JudgeFailure, Goes, AccountsTypeOK
  <1>3. ASSUME NEW l \in Logins, NEW from, NEW to, to # "lock", UNCHANGED counted,
               Goes(l, from, to)
        PROVE  LockingIsHigh'
    BY <1>3 DEF Goes, AccountsTypeOK
  <1>4. ASSUME NEW l \in Logins,
               \/ BeginSignup(l) \/ InsertProfile(l) \/ CheckLockout(l)
               \/ RightPassword(l) \/ WrongPassword(l)
        PROVE  LockingIsHigh'
    BY <1>3, <1>4 DEF BeginSignup, InsertProfile, CheckLockout, RightPassword, WrongPassword
  <1>5. ASSUME NEW l \in Logins,
               LockAccount(l) \/ DeleteCounter(l) \/ ClearCounter(l) \/ ClearLockout(l)
        PROVE  LockingIsHigh'
    BY <1>3, <1>5 DEF LockAccount, DeleteCounter, ClearCounter, ClearLockout
  <1>6. ASSUME NEW l \in Logins, RequestIsLost(l) PROVE LockingIsHigh'
    BY <1>6 DEF RequestIsLost, AccountsTypeOK
  <1>7. CASE CounterExpires \/ LockoutExpires \/ UNCHANGED accountVars
    BY <1>7 DEF CounterExpires, LockoutExpires
  <1> QED
    BY <1>1, <1>2, <1>4, <1>5, <1>6, <1>7 DEF AccountsNext

LEMMA GuessStep ==
  GuessInv /\ AccountsTypeOK /\ AccountsTypeOK' /\ [AccountsNext]_accountVars => GuessInv'
  <1> SUFFICES ASSUME GuessInv, AccountsTypeOK, AccountsTypeOK', [AccountsNext]_accountVars
               PROVE  GuessInv'
    OBVIOUS
  <1> DEFINE Bounds == (lockout => LockedBound) /\ (~lockout /\ guesses > 0 => OpenBound)
  <1>1. LockingIsHigh'
    BY LockingIsHighStep DEF GuessInv
  <1>2. ASSUME NEW l \in Logins, ClearCounter(l) \/ ClearLockout(l) PROVE Bounds'
    <2>1. guesses' = 0 /\ Looking' = Looking
      BY <1>2, OtherCounts DEF ClearCounter, ClearLockout
    <2> QED
      BY <2>1, NothingGuessed, Numbers
  <1>3. ASSUME CounterExpires \/ LockoutExpires PROVE Bounds'
    <2>1. guesses' = 0
      BY <1>3 DEF CounterExpires, LockoutExpires
    <2>2. Looking' = Looking
      BY <1>3 DEF CounterExpires, LockoutExpires, Looking, At
    <2> HIDE <1>3
    <2> QED
      BY <2>1, <2>2, NothingGuessed, Numbers
  <1>4. ASSUME UNCHANGED accountVars PROVE Bounds'
    <2>1. /\ UNCHANGED <<lockout, guesses, authFaults>> /\ Low' = Low
          /\ Looking' = Looking /\ Counting' = Counting /\ Deleting' = Deleting
      BY <1>4 DEF Looking, Counting, Deleting, Low, At
    <2>2. Locking' = Locking
      BY <1>4 DEF Locking, High
    <2>3. LockedBound' = LockedBound /\ OpenBound' = OpenBound
      BY <2>1, <2>2, LockedIsNext, OpenIs, OpenIsNext, WonFits DEF LockedBound
    <2> QED
      BY <2>1, <2>3 DEF GuessInv
  <1>5. Bounds'
    <2>1. CASE \E l \in Logins :
                 \/ BeginSignup(l) \/ InsertProfile(l)
                 \/ CheckLockout(l) \/ RightPassword(l) \/ JudgeFailure(l)
      BY <2>1, QuietRequestStep
    <2>2. CASE \E l \in Logins :
                 WrongPassword(l) \/ CountFailure(l) \/ LockAccount(l) \/ DeleteCounter(l)
      BY <2>2, WrongPasswordStep, CountFailureStep, LockAccountStep, DeleteCounterStep
    <2>3. CASE \E l \in Logins : ClearCounter(l) \/ ClearLockout(l) \/ RequestIsLost(l)
      BY <2>3, <1>2, RequestIsLostStep
    <2> HIDE DEF Bounds
    <2> QED
      BY <1>3, <1>4, <2>1, <2>2, <2>3 DEF AccountsNext
  <1> QED
    BY <1>1, <1>5 DEF GuessInv

LEMMA InvBoundsGuesses == GuessInv /\ AccountsTypeOK => GuessesAreBounded
  <1> SUFFICES ASSUME GuessInv, AccountsTypeOK
               PROVE  guesses <= MaxFailures * Requests + authFaults
    BY DEF GuessesAreBounded, Requests
  <1>1. CASE lockout
    BY <1>1, Numbers DEF GuessInv, LockedBound
  <1>2. CASE ~lockout /\ guesses > 0
    BY <1>2, OpenIs, WonFits, Numbers DEF GuessInv
  <1>3. CASE guesses = 0
    BY <1>3, Numbers
  <1> QED
    BY <1>1, <1>2, <1>3, Numbers

\* However requests interleave at Redis, and whatever fails, wrong passwords run
\* into the lockout: no more of them are looked up in a row than a full round of
\* attempts for each request at work, and one for each lost request.
THEOREM WrongPasswordsAreBounded == AccountsSpec => []GuessesAreBounded
  <1>1. AccountsInit => GuessInv
    BY DEF AccountsInit, GuessInv, LockingIsHigh
  <1> QED
    BY <1>1, AccountsTypeCorrect, GuessStep, InvBoundsGuesses, PTL DEF AccountsSpec
=============================================================================
