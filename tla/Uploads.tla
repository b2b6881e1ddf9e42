------------------------------ MODULE Uploads ------------------------------
(***************************************************************************)
(* Uploaded images: their storage by content hash and the assessments made *)
(* from them (backend/app/storage.py, backend/app/api/damage.py).          *)
(*                                                                         *)
(* A request is one transaction of PostgreSQL, but the object it writes to *)
(* the disk or the bucket stays whatever becomes of the transaction.  No   *)
(* foreign key ties an assessment to its upload.                           *)
(***************************************************************************)
EXTENDS Integers, FiniteSets

CONSTANTS Assessments, \* names for the requests to come
          Contents,    \* contents of files; equal contents have equal hashes
          Images,      \* contents that are images
          Suffixes,    \* suffixes of file names
          Backend      \* "local", "r2" with a public URL, or "s3" without one

\* Of a content without a row.
NoPath == "none"

ASSUME UploadsAssumption ==
    /\ Images \subseteq Contents
    /\ Backend \in {"local", "r2", "s3"}
    /\ NoPath \notin Suffixes

VARIABLES
    segment,    \* POST /api/damage/segment
    objects,    \* objects of the storage backend
    uploads,    \* uploads: the path of each content's row
    results     \* damage_results: requests whose assessment is stored

uploadVars == <<segment, objects, uploads, results>>

Object(c, suffix) == [content |-> c, suffix |-> suffix]
Objects == [content : Contents, suffix : Suffixes]

UploadsInit ==
    /\ segment = [r \in Assessments |-> [step |-> "none"]]
    /\ objects = {}
    /\ uploads = [c \in Contents |-> NoPath]
    /\ results = {}

\* Go on to a step of request r, or answer it.
Go(r, step) == segment' = [segment EXCEPT ![r].step = step]
Answered == {"processed", "invalid", "unavailable", "failed"}
UnderWay(r) == segment[r].step \notin {"none"} \cup Answered
ContentOf(r) == segment[r].object.content

-----------------------------------------------------------------------------
(***************************************************************************)
(* UploadStorage.store                                                     *)
(***************************************************************************)

\* SELECT ... WHERE sha256: a row saves the object.
LookUp(r, c, suffix) ==
    /\ segment[r].step = "none"
    /\ segment' = [segment EXCEPT ![r] =
          [step |-> IF uploads[c] = NoPath THEN "write" ELSE "stored",
           object |-> Object(c, suffix), inserted |-> FALSE]]
    /\ UNCHANGED <<objects, uploads, results>>

\* Variant: an object that another request has written for the content is kept.
WriteObject_Once(r) ==
    /\ segment[r].step = "write"
    /\ objects' = IF \E o \in objects : o.content = ContentOf(r) THEN objects
                  ELSE objects \cup {segment[r].object}
    /\ Go(r, "insert")
    /\ UNCHANGED <<uploads, results>>

\* _write: the object's name is the hash and the suffix of this file's name.
WriteObject(r) ==
    /\ segment[r].step = "write"
    /\ objects' = objects \cup {segment[r].object}
    /\ Go(r, "insert")
    /\ UNCHANGED <<uploads, results>>

\* INSERT ... ON CONFLICT DO NOTHING waits for a transaction that has inserted
\* the same hash, and is then decided by its outcome.
InsertUpload(r) ==
    /\ segment[r].step = "insert"
    /\ \A q \in Assessments :
          ~(UnderWay(q) /\ segment[q].inserted /\ ContentOf(q) = ContentOf(r))
    /\ segment' = [segment EXCEPT ![r].step = "stored",
                                  ![r].inserted = uploads[ContentOf(r)] = NoPath]
    /\ UNCHANGED <<objects, uploads, results>>

-----------------------------------------------------------------------------
(***************************************************************************)
(* segment_damage                                                          *)
(***************************************************************************)
CommitUpload(r) ==
    uploads' = IF segment[r].inserted
               THEN [uploads EXCEPT ![ContentOf(r)] = segment[r].object.suffix] ELSE uploads

\* What was stored is no image: 400, and the transaction is rolled back.
RejectImage(r) ==
    /\ segment[r].step = "stored" /\ ContentOf(r) \notin Images
    /\ Go(r, "invalid")
    /\ UNCHANGED <<objects, uploads, results>>

\* Gemini or the CNN classifies the image.
Classify(r) ==
    /\ segment[r].step = "stored" /\ ContentOf(r) \in Images
    /\ Go(r, "classified")
    /\ UNCHANGED <<objects, uploads, results>>

\* Neither does: 503, which says that the upload was stored.
NoModel(r) ==
    /\ segment[r].step = "stored" /\ ContentOf(r) \in Images
    /\ CommitUpload(r)
    /\ Go(r, "unavailable")
    /\ UNCHANGED <<objects, results>>

\* The assessment is inserted and everything is committed.
InsertResult(r) ==
    /\ segment[r].step = "classified"
    /\ CommitUpload(r)
    /\ results' = results \cup {r}
    /\ Go(r, "processed")
    /\ UNCHANGED objects

\* A write or a statement fails, or the process restarts.
SegmentFails(r) ==
    /\ UnderWay(r)
    /\ Go(r, "failed")
    /\ UNCHANGED <<objects, uploads, results>>

UploadsNext ==
    \E r \in Assessments :
       \/ \E c \in Contents, suffix \in Suffixes : LookUp(r, c, suffix)
       \/ WriteObject(r) \/ InsertUpload(r)
       \/ RejectImage(r) \/ Classify(r) \/ NoModel(r) \/ InsertResult(r)
       \/ SegmentFails(r)

UploadsSpec == UploadsInit /\ [][UploadsNext]_uploadVars

-----------------------------------------------------------------------------
\* get_damage_image: the join of the assessment with its upload finds a row for
\* the assessment's owner and for officials; then a URL is a redirect, and any
\* other path is a file of the local disk.
Readers == {"owner", "official", "other"}
ImageAnswer(r, reader) ==
    LET c == ContentOf(r)
        found == r \in results /\ reader # "other" /\ uploads[c] # NoPath
    IN  CASE ~found -> 404
          [] found /\ Backend = "r2" -> 302
          [] found /\ Backend = "local" /\ Object(c, uploads[c]) \in objects -> 200
          [] OTHER -> 410

UploadsTypeOK ==
    /\ segment \in [Assessments ->
          {[step |-> "none"]} \cup
          [step : {"write", "insert", "stored", "classified"} \cup Answered,
           object : Objects, inserted : BOOLEAN]]
    /\ objects \subseteq Objects
    /\ uploads \in [Contents -> Suffixes \cup {NoPath}]
    /\ results \subseteq Assessments

\* Every row's path leads to bytes that were written, whichever of several
\* uploads of one content wrote which object, inserted the row or failed.  Who
\* got an assessment has its image, which officials have, too, although no key
\* ties the assessment to the row of the upload (of a bucket without a public
\* URL the endpoint says that the bytes are gone); who was told that no model
\* was there has no assessment, but the upload that the answer speaks of.
StoredHasBytes ==
    /\ \A c \in Contents : uploads[c] # NoPath => Object(c, uploads[c]) \in objects
    /\ \A r \in Assessments : segment[r].step = "processed" =>
          \A reader \in {"owner", "official"} :
             ImageAnswer(r, reader) \in (IF Backend = "s3" THEN {410} ELSE {200, 302})
    /\ \A r \in Assessments : segment[r].step = "unavailable" =>
          r \notin results /\ uploads[ContentOf(r)] # NoPath
    /\ \A r \in results : segment[r].step = "processed"
=============================================================================
