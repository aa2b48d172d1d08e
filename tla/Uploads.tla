------------------------------ MODULE Uploads ------------------------------
(***************************************************************************)
(* How uploaded bytes become documents, and how they go away.              *)
(*                                                                         *)
(* Four kinds of process act on one object store (the documents/ prefix)   *)
(* and one documents table:                                                *)
(*   - clients, through presigned URLs and the API's /notify and DELETE;   *)
(*   - commit_upload, the first task of every process-upload run, on any   *)
(*     of several ingest workers (src/ingestion/ingestion_flow.py);        *)
(*   - delete_document, one database transaction that removes objects      *)
(*     before it commits (src/store/service.py, repository.py);            *)
(*   - the hourly sweep of abandoned uploads (src/ingestion/sweep_flow.py) *)
(*                                                                         *)
(* One action is one request to the object store or one SQL statement: the *)
(* steps of different processes interleave between them.  A filename, a    *)
(* content type, a size and an object key tell nothing apart here (a       *)
(* candidate has one key), and the signed URL refuses an empty file (size  *)
(* gt 0 in src/api.py), so bytes are just their content.                   *)
(***************************************************************************)
EXTENDS Integers

CONSTANTS
    Candidate,        \* document ids create_upload hands out (uuid4)
    Content,          \* contents, one for each SHA-256
    Run,              \* process-upload task runs, one for each /notify
    None,             \* no content, no document, no candidate
    PutTTL,           \* UPLOAD_TTL_SECONDS (15 minutes)
    CommitWindow,     \* UPLOAD_COMMIT_WINDOW (12 hours)
    AbandonedAfter,   \* ABANDONED_AFTER (twice the commit window)
    MaxCommit,        \* longest time one attempt of commit_upload takes
    MaxRetries,       \* retries of one run: of the task and of the flow
    MaxTime,          \* bound: where the clock of a finite instance stops
    Deletion,         \* "never", "whole" or "partial": see DeleteRollback
    Renotify,         \* may /notify be called again for the same candidate
    Rewrite           \* may a URL be used again once its bytes are gone

\* The sweep's age is at least the commit window and the longest commit
\* together, which is what the comment at src/ingestion/sweep_flow.py:10-12
\* asks for; an upload URL has expired long before that.
ASSUME TimeAssumption ==
    /\ {PutTTL, CommitWindow, AbandonedAfter, MaxCommit, MaxRetries, MaxTime}
           \subseteq Nat
    /\ CommitWindow + MaxCommit <= AbandonedAfter
    /\ PutTTL <= AbandonedAfter

ASSUME ModeAssumption ==
    /\ None \notin Candidate \cup Content
    /\ Deletion \in {"never", "whole", "partial"}
    /\ {Renotify, Rewrite} \subseteq BOOLEAN

VARIABLES
    now,         \* the clock
    expires,     \* candidate -> when its upload URL expires, -1 before it exists
    bytes,       \* candidate -> content of the object under its key, or None
    written,     \* candidate -> LastModified of that object, -1 before the first
    recorded,    \* candidate -> content_id of the documents row with its id, or None
    deletion,    \* candidate -> where the transaction deleting its row is
    pc,          \* run -> the next step of its commit_upload
    cand,        \* run -> the candidate it was notified for, or None
    hashed,      \* run -> the content it hashed, or None
    checked,     \* run -> when it passed check_upload
    resolved,    \* run -> the document commit_upload last returned, or None
    retries,     \* run -> retries used
    sweep,       \* where the sweep is
    sweepStart,  \* when it started: its cutoff is AbandonedAfter before that
    stale        \* the candidates it means to remove

stores == <<expires, bytes, written, recorded, deletion>>
runs == <<pc, cand, hashed, checked, resolved, retries>>
sweeper == <<sweep, sweepStart, stale>>
vars == <<now, stores, runs, sweeper>>

-----------------------------------------------------------------------------

\* Steps of commit_upload after the age check: they must end in time.
Committing == {"open", "describe", "insert", "readback", "discard"}
\* Steps at which a run of process-upload is still going.
Running == {"ref", "check"} \cup Committing
RunStep == {"idle", "done", "invalid", "failed"} \cup Running

IsDocument(d) == recorded[d] # None
Locked(d) == deletion[d] # "none"

\* check_upload, given that something is there: young enough to commit.
Fresh(c) == now - written[c] <= CommitWindow

Init ==
    /\ now = 0
    /\ expires = [c \in Candidate |-> -1]
    /\ bytes = [c \in Candidate |-> None]
    /\ written = [c \in Candidate |-> -1]
    /\ recorded = [c \in Candidate |-> None]
    /\ deletion = [c \in Candidate |-> "none"]
    /\ pc = [r \in Run |-> "idle"]
    /\ cand = [r \in Run |-> None]
    /\ hashed = [r \in Run |-> None]
    /\ checked = [r \in Run |-> 0]
    /\ resolved = [r \in Run |-> None]
    /\ retries = [r \in Run |-> 0]
    /\ sweep = "idle"
    /\ sweepStart = 0
    /\ stale = {}

-----------------------------------------------------------------------------
(* The clock.  An attempt of commit_upload never outlasts MaxCommit.       *)

Tick ==
    /\ now < MaxTime
    /\ \A r \in Run : pc[r] \in Committing => now < checked[r] + MaxCommit
    /\ now' = now + 1
    /\ UNCHANGED <<stores, runs, sweeper>>

-----------------------------------------------------------------------------
(* Clients.                                                                *)

\* create_upload signs a URL and records nothing.  Bound: URLs are signed
\* early enough for the sweep to reach their bytes before the clock stops.
CreateUpload(c) ==
    /\ expires[c] = -1
    /\ now + PutTTL + AbandonedAfter < MaxTime
    /\ expires' = [expires EXCEPT ![c] = now + PutTTL]
    /\ UNCHANGED <<now, bytes, written, recorded, deletion, runs, sweeper>>

\* The signed PUT: If-None-Match refuses it while an object is there.
PutUpload(c, k) ==
    /\ now <= expires[c]
    /\ bytes[c] = None
    /\ Rewrite \/ written[c] = -1
    /\ bytes' = [bytes EXCEPT ![c] = k]
    /\ written' = [written EXCEPT ![c] = now]
    /\ UNCHANGED <<now, expires, recorded, deletion, runs, sweeper>>

\* POST /notify: a document is queued again as it is, a candidate after the
\* cheap checks.
Notify(r, c) ==
    /\ pc[r] = "idle"
    /\ Renotify \/ \A q \in Run : cand[q] # c
    /\ IsDocument(c) \/ (bytes[c] # None /\ Fresh(c))
    /\ pc' = [pc EXCEPT ![r] = "ref"]
    /\ cand' = [cand EXCEPT ![r] = c]
    /\ UNCHANGED <<now, stores, hashed, checked, resolved, retries, sweeper>>

-----------------------------------------------------------------------------
(* commit_upload.                                                          *)

Go(r, step) == pc' = [pc EXCEPT ![r] = step]

\* It returns document d, or its caller keeps what it returned before.
Return(r, d) ==
    /\ Go(r, "done")
    /\ resolved' = [resolved EXCEPT ![r] = d]

\* A candidate that is a document already is returned as it is.
DocumentRef(r) ==
    /\ pc[r] = "ref"
    /\ IF IsDocument(cand[r])
       THEN Return(r, cand[r])
       ELSE Go(r, "check") /\ UNCHANGED resolved
    /\ UNCHANGED <<now, stores, cand, hashed, checked, retries, sweeper>>

\* describe_upload and check_upload.  Nothing there, or too old: InvalidUpload,
\* which is never retried.
CheckUpload(r) ==
    /\ pc[r] = "check"
    /\ IF bytes[cand[r]] # None /\ Fresh(cand[r])
       THEN Go(r, "open") /\ checked' = [checked EXCEPT ![r] = now]
       ELSE Go(r, "invalid") /\ UNCHANGED checked
    /\ UNCHANGED <<now, stores, cand, hashed, resolved, retries, sweeper>>

\* open_upload, and the hash of the stream it returns.
OpenUpload(r) ==
    /\ pc[r] = "open"
    /\ IF bytes[cand[r]] # None
       THEN Go(r, "describe") /\ hashed' = [hashed EXCEPT ![r] = bytes[cand[r]]]
       ELSE Go(r, "invalid") /\ UNCHANGED hashed
    /\ UNCHANGED <<now, stores, cand, checked, resolved, retries, sweeper>>

\* The describe_upload of add_document.  Bytes that have gone since they were
\* hashed raise UploadNotWritten here, which is an ordinary failure: see Retry.
DescribeUpload(r) ==
    /\ pc[r] = "describe"
    /\ bytes[cand[r]] # None
    /\ Go(r, "insert")
    /\ UNCHANGED <<now, stores, cand, hashed, checked, resolved, retries, sweeper>>

\* Mutant: the insert looks for the content first, without a unique key, and
\* does not see rows that a transaction is deleting.
InsertUnlessFound(r) ==
    LET c == cand[r]
        conflicts == {d \in Candidate : recorded[d] = hashed[r] /\ ~Locked(d)}
    IN  /\ pc[r] = "insert"
        /\ ~Locked(c)
        /\ \/ /\ conflicts # {}
              /\ Go(r, "readback")
              /\ UNCHANGED <<recorded, resolved>>
           \/ /\ conflicts = {}
              /\ ~IsDocument(c)
              /\ recorded' = [recorded EXCEPT ![c] = hashed[r]]
              /\ Return(r, c)
        /\ UNCHANGED <<now, expires, bytes, written, deletion, cand, hashed, checked,
                       retries, sweeper>>

\* INSERT ... ON CONFLICT (content_id) DO NOTHING.  It waits for a transaction
\* that is deleting a row it conflicts with.  A row with the candidate's own id
\* but another content is a primary key violation, not a conflict: see Retry.
InsertDocument(r) ==
    LET c == cand[r]
        conflicts == {d \in Candidate : recorded[d] = hashed[r]}
    IN  /\ pc[r] = "insert"
        /\ \A d \in conflicts \cup {c} : ~Locked(d)
        /\ \/ /\ conflicts # {}
              /\ Go(r, "readback")
              /\ UNCHANGED <<recorded, resolved>>
           \/ /\ conflicts = {}
              /\ ~IsDocument(c)
              /\ recorded' = [recorded EXCEPT ![c] = hashed[r]]
              /\ Return(r, c)
        /\ UNCHANGED <<now, expires, bytes, written, deletion, cand, hashed, checked,
                       retries, sweeper>>

\* Mutant: the loser also discards when the winner is its own row.
ReadBackAlwaysDiscards(r) ==
    /\ pc[r] = "readback"
    /\ \E d \in Candidate :
           /\ recorded[d] = hashed[r]
           /\ resolved' = [resolved EXCEPT ![r] = d]
           /\ Go(r, "discard")
    /\ UNCHANGED <<now, stores, cand, hashed, checked, retries, sweeper>>

\* Mutant: the loser keeps its own id as the document.
ReadBackOwnId(r) ==
    /\ pc[r] = "readback"
    /\ resolved' = [resolved EXCEPT ![r] = cand[r]]
    /\ Go(r, "done")
    /\ UNCHANGED <<now, stores, cand, hashed, checked, retries, sweeper>>

\* The insert lost: read the winner back.  A candidate that resolved to another
\* document discards its bytes.  A winner deleted in the meantime makes .one()
\* raise: see Retry.
ReadBack(r) ==
    /\ pc[r] = "readback"
    /\ \E d \in Candidate :
           /\ recorded[d] = hashed[r]
           /\ resolved' = [resolved EXCEPT ![r] = d]
           /\ Go(r, IF d = cand[r] THEN "done" ELSE "discard")
    /\ UNCHANGED <<now, stores, cand, hashed, checked, retries, sweeper>>

\* _discard_upload: best effort, a failure leaves the bytes to the sweep.
DiscardUpload(r) ==
    /\ pc[r] = "discard"
    /\ bytes' = [bytes EXCEPT ![cand[r]] = None] \/ UNCHANGED bytes
    /\ Go(r, "done")
    /\ UNCHANGED <<now, expires, written, recorded, deletion, cand, hashed, checked,
                   resolved, retries, sweeper>>

\* Mutant: no limit on retries.
RetryForEver(r) ==
    /\ pc[r] \in Running \cup {"done"}
    /\ Go(r, "ref")
    /\ retries' = [retries EXCEPT ![r] = @ + 1]
    /\ hashed' = [hashed EXCEPT ![r] = None]
    /\ UNCHANGED <<now, stores, cand, checked, resolved, sweeper>>

\* Any step can fail on the network, and so can every later stage of the run
\* ("done"): Prefect runs commit_upload, or process-upload as a whole, again
\* from the start.  Bound: MaxRetries.
Retry(r) ==
    /\ pc[r] \in Running \cup {"done"}
    /\ retries[r] < MaxRetries
    /\ Go(r, "ref")
    /\ retries' = [retries EXCEPT ![r] = @ + 1]
    /\ hashed' = [hashed EXCEPT ![r] = None]
    /\ UNCHANGED <<now, stores, cand, checked, resolved, sweeper>>

\* The last retry failed, or the worker died and the run with it.
Fail(r) ==
    /\ pc[r] \in Running
    /\ Go(r, "failed")
    /\ UNCHANGED <<now, stores, cand, hashed, checked, resolved, retries, sweeper>>

CommitStep(r) ==
    \/ DocumentRef(r)
    \/ CheckUpload(r)
    \/ OpenUpload(r)
    \/ DescribeUpload(r)
    \/ InsertDocument(r)
    \/ ReadBack(r)
    \/ DiscardUpload(r)

-----------------------------------------------------------------------------
(* DELETE /documents/{id}: one transaction, with the objects removed in it. *)

\* SELECT ... FOR UPDATE and the DELETE: others still see the row, and
\* whoever needs its lock waits.
DeleteLock(d) ==
    /\ Deletion # "never"
    /\ IsDocument(d)
    /\ ~Locked(d)
    /\ deletion' = [deletion EXCEPT ![d] = "locked"]
    /\ UNCHANGED <<now, expires, bytes, written, recorded, runs, sweeper>>

\* remove_objects.
DeleteObjects(d) ==
    /\ deletion[d] = "locked"
    /\ bytes' = [bytes EXCEPT ![d] = None]
    /\ deletion' = [deletion EXCEPT ![d] = "emptied"]
    /\ UNCHANGED <<now, expires, written, recorded, runs, sweeper>>

DeleteCommit(d) ==
    /\ deletion[d] = "emptied"
    /\ recorded' = [recorded EXCEPT ![d] = None]
    /\ deletion' = [deletion EXCEPT ![d] = "none"]
    /\ UNCHANGED <<now, expires, bytes, written, runs, sweeper>>

\* The transaction rolls back: the object store refused, or, when a delete may
\* be "partial", a later batch of keys, the process or the commit itself failed
\* after the source object was removed.
DeleteRollback(d) ==
    /\ \/ deletion[d] = "locked"
       \/ deletion[d] = "emptied" /\ Deletion = "partial"
    /\ deletion' = [deletion EXCEPT ![d] = "none"]
    /\ UNCHANGED <<now, expires, bytes, written, recorded, runs, sweeper>>

DeleteStep(d) == DeleteObjects(d) \/ DeleteCommit(d)

-----------------------------------------------------------------------------
(* discard_abandoned_uploads: list, ask which are documents, delete.       *)

SweepBegin ==
    /\ sweep = "idle"
    /\ sweep' = "list"
    /\ sweepStart' = now
    /\ UNCHANGED <<now, stores, runs, stale>>

\* Mutant: the cutoff is the commit window, not twice as far back.
ListStaleTooSoon ==
    /\ sweep = "list"
    /\ stale' = {c \in Candidate : bytes[c] # None /\ sweepStart - written[c] > CommitWindow}
    /\ sweep' = "query"
    /\ UNCHANGED <<now, stores, runs, sweepStart>>

\* Candidates whose bytes were written before the cutoff.
ListStale ==
    /\ sweep = "list"
    /\ stale' = {c \in Candidate : bytes[c] # None /\ sweepStart - written[c] > AbandonedAfter}
    /\ sweep' = "query"
    /\ UNCHANGED <<now, stores, runs, sweepStart>>

\* Mutant: what is old is abandoned, document or not.
ExcludeNothing ==
    /\ sweep = "query"
    /\ sweep' = "delete"
    /\ UNCHANGED <<now, stores, runs, sweepStart, stale>>

\* Mutant: candidates some run was notified for are left to that run.
ExcludeNotified ==
    /\ sweep = "query"
    /\ stale' = {c \in stale : ~IsDocument(c) /\ \A r \in Run : cand[r] # c}
    /\ sweep' = "delete"
    /\ UNCHANGED <<now, stores, runs, sweepStart>>

\* existing_document_ids: those that are documents stay.
ExcludeDocuments ==
    /\ sweep = "query"
    /\ stale' = {c \in stale : ~IsDocument(c)}
    /\ sweep' = "delete"
    /\ UNCHANGED <<now, stores, runs, sweepStart>>

Removed(gone) == [c \in Candidate |-> IF c \in gone THEN None ELSE bytes[c]]

DeleteStale ==
    /\ sweep = "delete"
    /\ bytes' = Removed(stale)
    /\ sweep' = "idle"
    /\ stale' = {}
    /\ UNCHANGED <<now, expires, written, recorded, deletion, runs, sweepStart>>

\* A step of the sweep fails, perhaps with some batches removed: the flow's
\* retry and the next hour's run start over with a new cutoff.
SweepFail ==
    /\ sweep # "idle"
    /\ \E gone \in SUBSET stale :
           /\ gone # {} => sweep = "delete"
           /\ bytes' = Removed(gone)
    /\ sweep' = "idle"
    /\ stale' = {}
    /\ UNCHANGED <<now, expires, written, recorded, deletion, runs, sweepStart>>

-----------------------------------------------------------------------------

Next ==
    \/ Tick
    \/ \E c \in Candidate : CreateUpload(c)
    \/ \E c \in Candidate, k \in Content : PutUpload(c, k)
    \/ \E r \in Run, c \in Candidate : Notify(r, c)
    \/ \E r \in Run : CommitStep(r) \/ Retry(r) \/ Fail(r)
    \/ \E d \in Candidate : DeleteLock(d) \/ DeleteStep(d) \/ DeleteRollback(d)
    \/ SweepBegin \/ ListStale \/ ExcludeDocuments \/ DeleteStale \/ SweepFail

Spec == Init /\ [][Next]_vars

\* Time passes; workers run what they were given and transactions end; the
\* sweep is scheduled for ever and does not fail every time.
Fairness ==
    /\ WF_vars(Tick)
    /\ \A r \in Run : WF_vars(CommitStep(r) \/ Fail(r))
    /\ \A d \in Candidate : WF_vars(DeleteStep(d))
    /\ WF_vars(SweepBegin)
    /\ SF_vars(ListStale) /\ SF_vars(ExcludeDocuments) /\ SF_vars(DeleteStale)

FairSpec == Spec /\ Fairness

-----------------------------------------------------------------------------
(* Properties.                                                             *)

\* The rows, the objects, the runs and the sweep keep their types.
TypeOK ==
    /\ now \in 0..MaxTime
    /\ expires \in [Candidate -> -1..MaxTime]
    /\ bytes \in [Candidate -> Content \cup {None}]
    /\ written \in [Candidate -> -1..MaxTime]
    /\ recorded \in [Candidate -> Content \cup {None}]
    /\ deletion \in [Candidate -> {"none", "locked", "emptied"}]
    /\ pc \in [Run -> RunStep]
    /\ cand \in [Run -> Candidate \cup {None}]
    /\ \A r \in Run : pc[r] = "idle" <=> cand[r] = None
    /\ hashed \in [Run -> Content \cup {None}]
    /\ checked \in [Run -> 0..MaxTime]
    /\ resolved \in [Run -> Candidate \cup {None}]
    /\ retries \in [Run -> 0..MaxRetries]
    /\ sweep \in {"idle", "list", "query", "delete"}
    /\ sweepStart \in 0..MaxTime
    /\ stale \subseteq Candidate

\* The same bytes never become two documents, however many commits race
\* (repository.add_document).
OneDocumentPerContent ==
    \A c, d \in Candidate : IsDocument(c) /\ recorded[c] = recorded[d] => c = d

\* A document has the bytes it was recorded with, until its deletion removes
\* them: "immutably, for as long as it is retained" (src/store/objects.py:16).
DocumentsKeepTheirBytes ==
    \A d \in Candidate :
        IsDocument(d) /\ deletion[d] # "emptied" => bytes[d] = recorded[d]

\* What the sweep is about to delete is not a document, and no commit is on its
\* way to record it: list, query and delete are three requests, and this holds
\* only because of how long a commit may take (src/ingestion/sweep_flow.py:10).
SweepSparesCommits ==
    sweep = "delete" =>
        \A c \in stale :
            /\ ~IsDocument(c)
            /\ \A r \in Run : cand[r] = c => pc[r] \notin Committing

\* Without deletions, the bytes of an upload only go once their content is a
\* document or they are old enough to be abandoned (_discard_upload).
UploadsNotLost ==
    [][\A c \in Candidate :
           bytes[c] # None /\ bytes'[c] = None =>
               \/ \E d \in Candidate : recorded[d] = bytes[c]
               \/ now - written[c] > AbandonedAfter]_vars

\* Without deletions, commit_upload returns a document with the content it
\* hashed: racing uploads of the same bytes all get the one document.
CommitReturnsContent ==
    \A r \in Run :
        pc[r] = "done" =>
            /\ resolved[r] \in Candidate
            /\ IsDocument(resolved[r])
            /\ hashed[r] # None => recorded[resolved[r]] = hashed[r]

\* A run whose upload was committed can always be retried: "the next attempt
\* does the work again" (README.md:340-341).
CommittedRunsCanRetry ==
    \A r \in Run : pc[r] = "invalid" => resolved[r] = None

\* Bytes that are not a document do not stay: they become one or are removed.
UploadsSettle ==
    \A c \in Candidate :
        (bytes[c] # None /\ ~IsDocument(c)) ~> (bytes[c] = None \/ IsDocument(c))

\* The store's promise: a document is gone, for the registry, as soon as its
\* deletion has removed its bytes.
Documents == [d \in Candidate |-> IF deletion[d] = "emptied" THEN None ELSE recorded[d]]

Registry == INSTANCE DocumentRegistry WITH documents <- Documents, objects <- bytes

\* Every step of the store is a step of DocumentRegistry, or none.
ImplementsRegistry == Registry!Spec
=============================================================================
