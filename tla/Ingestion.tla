----------------------------- MODULE Ingestion -----------------------------
(***************************************************************************)
(* What the pipeline makes of one committed document, and how its status   *)
(* and `published` follow.  Documents do not interact after commit_upload  *)
(* (module Uploads), so one document is enough; what does interact is      *)
(*   - process_upload runs for it, on several ingest workers: one for each *)
(*     notified upload of these bytes, retried as a whole by Prefect       *)
(*     (src/ingestion/ingestion_flow.py, chunking_flow.py, publish.py);    *)
(*   - embed_release runs, submitted by them (embedding_flow.py);          *)
(*   - the transaction that deletes the document (src/store/service.py).   *)
(*                                                                         *)
(* One action is one request to the object store or one transaction of the *)
(* database; parsing, splitting and encoding are what they store.  A read  *)
(* that only decides whether the write after it happens is one step with   *)
(* that write.  A task that Prefect retries in place is a step that takes  *)
(* longer, unless what it did first stays: see RetryTask.                  *)
(*                                                                         *)
(* The row is there from the start: the first commit_upload has inserted   *)
(* it, and which run that was no longer matters.                           *)
(***************************************************************************)
EXTENDS Naturals

CONSTANTS
    Event,           \* notified uploads of this document's bytes, by event_id
    Duplicate,       \* the events whose candidate is not the document itself
    EmbedRun,        \* embed_release task runs
    TextId,          \* extraction ids (uuid4)
    None,            \* no extraction
    Release,         \* releases the configuration has named
    Extractor,       \* extractor of each release
    Chunker,         \* chunker of each release
    Embedders,       \* embedders of each release
    IngestReleases,  \* releases active on an ingest worker (cached per process)
    EmbedReleases,   \* releases active on an embedding worker
    MaxRetries,      \* bound: retries of one run, wherever they happen
    Faults,          \* what may fail: "task", "outside", "crash"
    Deletion         \* "never", "whole" or "partial", as in Uploads

ASSUME IngestionAssumption ==
    /\ Duplicate \subseteq Event
    /\ None \notin TextId
    /\ IngestReleases \subseteq Release
    /\ EmbedReleases \subseteq Release
    /\ MaxRetries \in Nat
    /\ Faults \subseteq {"task", "outside", "crash"}
    /\ Deletion \in {"never", "whole", "partial"}

VARIABLES
    kind,        \* what the bytes are: "text", "blank" (no text) or "sheet"
    row,         \* is the documents row there
    source,      \* are the document's bytes there
    deletion,    \* where the deleting transaction is
    status,      \* documents.status
    published,   \* documents.published
    extracted,   \* extractor -> extraction_id of its extractions row, or None
    texts,       \* extraction ids whose text object is there
    chunked,     \* <<extraction id, chunker>> whose chunk rows are there
    embedded,    \* <<extraction id, chunker, embedder>> whose embedding rows are
    artifacts,   \* events whose bundle has its artifacts
    manifests,   \* events whose bundle has its manifest
    step,        \* event -> the next step of its process_upload run
    committed,   \* events whose commit_upload has once returned the document
    release,     \* event -> active_release() of its run
    text,        \* event -> the extraction its run works with, or None
    spare,       \* event -> the extraction id whose text its run must discard
    outcome,     \* event -> what status.json says
    retries,     \* event -> retries used
    estep,       \* embed run -> its next step
    erelease,    \* embed run -> active_release() of its run
    todo,        \* embed run -> embedders it has yet to run
    pending,     \* embed run -> <<extraction id, chunker, embedder>> to embed
    eretries     \* embed run -> retries used

rows == <<row, extracted, chunked, embedded>>
objects == <<source, texts, artifacts, manifests>>
shown == <<status, published>>
run == <<step, committed, release, text, spare, outcome, retries>>
embed == <<estep, erelease, todo, pending, eretries>>
vars == <<kind, deletion, rows, objects, shown, run, embed>>

-----------------------------------------------------------------------------

\* Steps of ingest_document_flow inside its try, and those outside of it.
Guarded == {"find", "store", "insert", "discard", "route", "split", "chunk", "stage",
            "upload", "manifest", "outcome"}
Unguarded == {"commit", "begin", "submit"}
RunStep == Guarded \cup Unguarded \cup {"done", "away", "failed", "crashed"}

\* Steps of embed_release inside its try ("embed" and "write"), and the others.
EmbedStep == {"idle", "start", "embed", "write", "publish", "done", "failed", "crashed"}

Status == {"uploaded", "ingesting", "embedding", "ok", "needs_intervention", "failed"}

AllExtractors == {Extractor[w] : w \in Release}
ExtractorOf(e) == Extractor[release[e]]
NoTriple == <<None, None, None>>

\* A deleting transaction holds the row: writers of it and of its children wait.
Locked == deletion # "none"

\* set_status and mark_published: a document that is gone has nowhere to record it.
SetStatus(s) ==
    /\ ~Locked
    /\ status' = IF row THEN s ELSE status
    /\ UNCHANGED published
MarkPublished ==
    /\ ~Locked
    /\ status' = IF row THEN "ok" ELSE status
    /\ published' = (row \/ published)

Init ==
    /\ kind \in {"text", "blank", "sheet"}
    /\ row = TRUE /\ source = TRUE /\ deletion = "none"
    /\ status = "uploaded" /\ published = FALSE
    /\ extracted = [x \in AllExtractors |-> None]
    /\ texts = {} /\ chunked = {} /\ embedded = {} /\ artifacts = {} /\ manifests = {}
    /\ step = [e \in Event |-> "commit"]
    /\ committed = {}
    /\ release \in [Event -> IngestReleases]
    /\ text = [e \in Event |-> None]
    /\ spare = [e \in Event |-> None]
    /\ outcome = [e \in Event |-> "ok"]
    /\ retries = [e \in Event |-> 0]
    /\ estep = [g \in EmbedRun |-> "idle"]
    /\ erelease \in [EmbedRun -> EmbedReleases]
    /\ todo = [g \in EmbedRun |-> {}]
    /\ pending = [g \in EmbedRun |-> NoTriple]
    /\ eretries = [g \in EmbedRun |-> 0]

-----------------------------------------------------------------------------
(* process_upload.                                                         *)

Go(e, s) == step' = [step EXCEPT ![e] = s]

\* Mutant: one attempt too many.
RaiseOnceMore(e) ==
    /\ IF retries[e] <= MaxRetries THEN Go(e, "commit") ELSE Go(e, "failed")
    /\ retries' = [retries EXCEPT ![e] = IF @ <= MaxRetries THEN @ + 1 ELSE @]
    /\ UNCHANGED <<committed, release, text, spare, outcome>>

\* Mutant: it never gives up.
RaiseForEver(e) ==
    /\ Go(e, "commit")
    /\ UNCHANGED <<retries, committed, release, text, spare, outcome>>

\* Prefect runs process_upload again from the start, until it gives up.
Raise(e) ==
    /\ IF retries[e] < MaxRetries THEN Go(e, "commit") ELSE Go(e, "failed")
    /\ retries' = [retries EXCEPT ![e] = IF @ < MaxRetries THEN @ + 1 ELSE @]
    /\ UNCHANGED <<committed, release, text, spare, outcome>>

\* commit_upload returns the document.  A duplicate that once resolved to it
\* has normally lost its bytes, and its retry is an InvalidUpload; a document
\* that is gone has no bytes, and another upload of them becomes a document of
\* its own: both are out of this document's way.
Commit(e) ==
    /\ step[e] = "commit"
    /\ \/ /\ row
          /\ Go(e, "begin")
          /\ committed' = committed \cup {e}
       \/ /\ ~row \/ e \in Duplicate \cap committed
          /\ Go(e, "away")
          /\ UNCHANGED committed
    /\ UNCHANGED <<kind, deletion, rows, objects, shown, release, text, spare, outcome,
                   retries, embed>>

\* describe, which raises for a document that is gone, and INGESTING.
Begin(e) ==
    /\ step[e] = "begin"
    /\ SetStatus("ingesting")
    /\ IF row
       THEN Go(e, "find") /\ UNCHANGED <<committed, release, text, spare, outcome, retries>>
       ELSE Raise(e)
    /\ UNCHANGED <<kind, deletion, rows, objects, embed>>

\* download, and find_extraction: the same bytes and extractor are reused.
FindExtraction(e) ==
    /\ step[e] = "find"
    /\ row /\ source
    /\ text' = [text EXCEPT ![e] = extracted[ExtractorOf(e)]]
    /\ Go(e, IF extracted[ExtractorOf(e)] # None THEN "route" ELSE "store")
    /\ UNCHANGED <<kind, deletion, rows, objects, shown, committed, release, spare, outcome,
                   retries, embed>>

\* Ids nobody has used or holds.
FreshTexts ==
    {i \in TextId : /\ i \notin texts
                    /\ \A x \in AllExtractors : extracted[x] # i
                    /\ \A e \in Event : text[e] # i /\ spare[e] # i
                    /\ \A g \in EmbedRun : pending[g][1] # i}

\* add_extraction: the text first, under a new id ...
StoreText(e) ==
    /\ step[e] = "store"
    /\ row
    /\ \E i \in FreshTexts :
           /\ texts' = texts \cup {i}
           /\ text' = [text EXCEPT ![e] = i]
    /\ Go(e, "insert")
    /\ UNCHANGED <<kind, deletion, rows, source, artifacts, manifests, shown, committed,
                   release, spare, outcome, retries, embed>>

\* Mutant: the loser of the race goes on with its own extraction.
InsertExtractionKeepsOwn(e) ==
    /\ step[e] = "insert"
    /\ row /\ ~Locked
    /\ extracted' = [extracted EXCEPT ![ExtractorOf(e)] = IF @ = None THEN text[e] ELSE @]
    /\ Go(e, "route")
    /\ UNCHANGED <<kind, deletion, row, chunked, embedded, objects, shown, committed,
                   release, text, spare, outcome, retries, embed>>

\* ... and the row last, INSERT ... ON CONFLICT DO NOTHING.  A run whose insert
\* lost goes on with the winner's extraction and discards its own text.
InsertExtraction(e) ==
    LET winner == extracted[ExtractorOf(e)]
    IN  /\ step[e] = "insert"
        /\ row /\ ~Locked
        /\ \/ /\ winner = None
              /\ extracted' = [extracted EXCEPT ![ExtractorOf(e)] = text[e]]
              /\ Go(e, "route")
              /\ UNCHANGED <<text, spare>>
           \/ /\ winner # None
              /\ text' = [text EXCEPT ![e] = winner]
              /\ spare' = [spare EXCEPT ![e] = text[e]]
              /\ Go(e, "discard")
              /\ UNCHANGED extracted
        /\ UNCHANGED <<kind, deletion, row, chunked, embedded, objects, shown, committed,
                       release, outcome, retries, embed>>

\* Mutant: the loser discards the text of the extraction it goes on with.
DiscardWinnersText(e) ==
    /\ step[e] = "discard"
    /\ texts' = texts \ {text[e]}
    /\ spare' = [spare EXCEPT ![e] = None]
    /\ Go(e, "route")
    /\ UNCHANGED <<kind, deletion, rows, source, artifacts, manifests, shown, committed,
                   release, text, outcome, retries, embed>>

\* _discard_extraction_text: best effort.
DiscardText(e) ==
    /\ step[e] = "discard"
    /\ texts' = texts \ {spare[e]} \/ UNCHANGED texts
    /\ spare' = [spare EXCEPT ![e] = None]
    /\ Go(e, "route")
    /\ UNCHANGED <<kind, deletion, rows, source, artifacts, manifests, shown, committed,
                   release, text, outcome, retries, embed>>

Cut(e) == <<text[e], Chunker[release[e]]>>
HasRow(e) == row /\ extracted[ExtractorOf(e)] = text[e]

\* route_document: a spreadsheet becomes a database, whose outcome may be any of
\* the three ("failed" before its extraction's metadata is read); other documents
\* become chunks, reused when they are there.
Route(e) ==
    /\ step[e] = "route"
    /\ \/ /\ kind = "sheet"
          /\ \E o \in {"failed"} \cup IF HasRow(e) THEN {"ok", "needs_intervention"} ELSE {} :
                 outcome' = [outcome EXCEPT ![e] = o]
          /\ Go(e, "upload")
       \/ /\ kind # "sheet"
          /\ outcome' = [outcome EXCEPT ![e] = "ok"]
          /\ Go(e, IF Cut(e) \in chunked THEN "stage" ELSE "split")
    /\ UNCHANGED <<kind, deletion, rows, objects, shown, committed, release, text, spare,
                   retries, embed>>

\* split_text reads the text back; no pieces is an outcome.
Split(e) ==
    /\ step[e] = "split"
    /\ row /\ text[e] \in texts
    /\ \/ /\ kind = "blank"
          /\ outcome' = [outcome EXCEPT ![e] = "needs_intervention"]
          /\ Go(e, "stage")
       \/ /\ kind = "text"
          /\ Go(e, "chunk")
          /\ UNCHANGED outcome
    /\ UNCHANGED <<kind, deletion, rows, objects, shown, committed, release, text, spare,
                   retries, embed>>

\* add_chunks: all of them in one transaction, unless they are there already.
StoreChunks(e) ==
    /\ step[e] = "chunk"
    /\ HasRow(e) /\ ~Locked
    /\ chunked' = chunked \cup {Cut(e)}
    /\ Go(e, "stage")
    /\ UNCHANGED <<kind, deletion, row, extracted, embedded, objects, shown, committed,
                   release, text, spare, outcome, retries, embed>>

\* stage_bundle reads the extraction's metadata and builds the bundle locally.
Stage(e) ==
    /\ step[e] = "stage"
    /\ HasRow(e)
    /\ Go(e, "upload")
    /\ UNCHANGED <<kind, deletion, rows, objects, shown, committed, release, text, spare,
                   outcome, retries, embed>>

\* publish_bundle: every artifact ...
UploadArtifacts(e) ==
    /\ step[e] = "upload"
    /\ artifacts' = artifacts \cup {e}
    /\ Go(e, "manifest")
    /\ UNCHANGED <<kind, deletion, rows, source, texts, manifests, shown, committed,
                   release, text, spare, outcome, retries, embed>>

\* ... then the manifest, as the completion marker.
PutManifest(e) ==
    /\ step[e] = "manifest"
    /\ manifests' = manifests \cup {e}
    /\ Go(e, "outcome")
    /\ UNCHANGED <<kind, deletion, rows, source, texts, artifacts, shown, committed,
                   release, text, spare, outcome, retries, embed>>

Embeds(e) == outcome[e] = "ok" /\ kind # "sheet"

\* Mutant: a document with chunks to embed is published with its bundle.
RecordOutcomePublishes(e) ==
    /\ step[e] = "outcome"
    /\ IF outcome[e] # "ok" THEN SetStatus(outcome[e]) ELSE MarkPublished
    /\ Go(e, IF Embeds(e) THEN "submit" ELSE "done")
    /\ UNCHANGED <<kind, deletion, rows, objects, committed, release, text, spare, outcome,
                   retries, embed>>

\* record_outcome: a document with nothing to embed is published here.
RecordOutcome(e) ==
    /\ step[e] = "outcome"
    /\ IF outcome[e] # "ok" THEN SetStatus(outcome[e])
       ELSE IF Embeds(e) THEN SetStatus("embedding") ELSE MarkPublished
    /\ Go(e, IF Embeds(e) THEN "submit" ELSE "done")
    /\ UNCHANGED <<kind, deletion, rows, objects, committed, release, text, spare, outcome,
                   retries, embed>>

\* embed_release.delay, after the flow and outside its try.
Submit(e) ==
    /\ step[e] = "submit"
    /\ \E g \in EmbedRun :
           /\ estep[g] = "idle"
           /\ estep' = [estep EXCEPT ![g] = "start"]
    /\ Go(e, "done")
    /\ UNCHANGED <<kind, deletion, rows, objects, shown, committed, release, text, spare,
                   outcome, retries, erelease, todo, pending, eretries>>

\* What a step inside the try reads is gone: it raises.
Missing(e) ==
    \/ step[e] = "find" /\ ~(row /\ source)
    \/ step[e] \in {"store", "insert"} /\ ~row
    \/ step[e] = "route" /\ kind = "sheet" /\ ~HasRow(e)
    \/ step[e] = "split" /\ ~(row /\ text[e] \in texts)
    \/ step[e] \in {"chunk", "stage"} /\ ~HasRow(e)
\* Mutant: the handler re-raises before it records.
CaughtSilently(e) ==
    /\ step[e] \in Guarded
    /\ Missing(e) \/ "task" \in Faults
    /\ Raise(e)
    /\ UNCHANGED <<kind, deletion, rows, objects, shown, embed>>

\* An exception inside the try, from that or from a failing task: FAILED is
\* recorded and the exception goes on to Prefect.
Caught(e) ==
    /\ step[e] \in Guarded
    /\ Missing(e) \/ "task" \in Faults
    /\ SetStatus("failed")
    /\ Raise(e)
    /\ UNCHANGED <<kind, deletion, rows, objects, embed>>

\* A task that Prefect retries after its first half: store-extraction writes
\* another text, publish-bundle writes its objects again.
RetryTask(e) ==
    /\ "task" \in Faults
    /\ retries[e] < MaxRetries
    /\ \/ step[e] \in {"insert", "discard"} /\ Go(e, "store")
       \/ step[e] = "manifest" /\ Go(e, "upload")
    /\ retries' = [retries EXCEPT ![e] = @ + 1]
    /\ UNCHANGED <<kind, deletion, rows, objects, shown, committed, release, text, spare,
                   outcome, embed>>

\* A failure outside the try: nothing is recorded.
Uncaught(e) ==
    /\ "outside" \in Faults
    /\ step[e] \in Unguarded
    /\ Raise(e)
    /\ UNCHANGED <<kind, deletion, rows, objects, shown, embed>>

\* The flow crashes: its hook records FAILED on the candidate's id, which is
\* the document only for its own upload; a worker killed outright records nothing.
Crash(e) ==
    /\ "crash" \in Faults
    /\ step[e] \in Guarded \cup Unguarded
    /\ \/ e \notin Duplicate /\ step[e] # "submit" /\ SetStatus("failed")
       \/ UNCHANGED shown
    /\ Go(e, "crashed")
    /\ UNCHANGED <<kind, deletion, rows, objects, committed, release, text, spare, outcome,
                   retries, embed>>

-----------------------------------------------------------------------------
(* embed_release, and the embed_document flow for each embedder.            *)

EGo(g, s) == estep' = [estep EXCEPT ![g] = s]

ERaise(g) ==
    /\ IF eretries[g] < MaxRetries THEN EGo(g, "start") ELSE EGo(g, "failed")
    /\ eretries' = [eretries EXCEPT ![g] = IF @ < MaxRetries THEN @ + 1 ELSE @]
    /\ UNCHANGED <<erelease, todo, pending>>

EmbedStart(g) ==
    /\ estep[g] = "start"
    /\ SetStatus("embedding")
    /\ todo' = [todo EXCEPT ![g] = Embedders[erelease[g]]]
    /\ EGo(g, "embed")
    /\ UNCHANGED <<kind, deletion, rows, objects, run, erelease, pending, eretries>>

\* find_pending_chunks: the chunks of the release's own extractor and chunker
\* that this embedder has not embedded; none when there is no such extraction.
FindPending(g) ==
    LET w == erelease[g]
        x == extracted[Extractor[w]]
    IN  /\ estep[g] = "embed"
        /\ \E m \in todo[g] :
               /\ todo' = [todo EXCEPT ![g] = @ \ {m}]
               /\ IF /\ <<x, Chunker[w]>> \in chunked
                     /\ <<x, Chunker[w], m>> \notin embedded
                  THEN EGo(g, "write") /\ pending' = [pending EXCEPT ![g] = <<x, Chunker[w], m>>]
                  ELSE UNCHANGED <<estep, pending>>
        /\ UNCHANGED <<kind, deletion, rows, objects, shown, run, erelease, eretries>>

\* add_embeddings: the batch in one transaction; an embedding that is there
\* already stays.
StoreEmbeddings(g) ==
    /\ estep[g] = "write"
    /\ ~Locked
    /\ <<pending[g][1], pending[g][2]>> \in chunked
    /\ embedded' = embedded \cup {pending[g]}
    /\ EGo(g, "embed")
    /\ UNCHANGED <<kind, deletion, row, extracted, chunked, objects, shown, run, erelease,
                   todo, pending, eretries>>

\* Mutant: the update is conditional on the status the run itself recorded.
PublishIfEmbedding(g) ==
    /\ estep[g] = "embed"
    /\ todo[g] = {}
    /\ IF status = "embedding" THEN MarkPublished ELSE ~Locked /\ UNCHANGED shown
    /\ EGo(g, "done")
    /\ UNCHANGED <<kind, deletion, rows, objects, run, erelease, todo, pending, eretries>>

\* mark_published, once every embedder has run, outside the try.
Publish(g) ==
    /\ estep[g] = "embed"
    /\ todo[g] = {}
    /\ MarkPublished
    /\ EGo(g, "done")
    /\ UNCHANGED <<kind, deletion, rows, objects, run, erelease, todo, pending, eretries>>

ECaught(g) ==
    /\ \/ estep[g] = "write" /\ <<pending[g][1], pending[g][2]>> \notin chunked
       \/ estep[g] \in {"embed", "write"} /\ "task" \in Faults
    /\ SetStatus("failed")
    /\ ERaise(g)
    /\ UNCHANGED <<kind, deletion, rows, objects, run>>

EUncaught(g) ==
    /\ "outside" \in Faults
    /\ estep[g] = "start" \/ (estep[g] = "embed" /\ todo[g] = {})
    /\ ERaise(g)
    /\ UNCHANGED <<kind, deletion, rows, objects, shown, run>>

ECrash(g) ==
    /\ "crash" \in Faults
    /\ estep[g] \in {"embed", "write"}
    /\ SetStatus("failed") \/ UNCHANGED shown
    /\ EGo(g, "crashed")
    /\ UNCHANGED <<kind, deletion, rows, objects, run, erelease, todo, pending, eretries>>

-----------------------------------------------------------------------------
(* delete_document: one transaction, with the objects removed in it.       *)

DeleteLock ==
    /\ Deletion # "never"
    /\ row /\ ~Locked
    /\ deletion' = "locked"
    /\ UNCHANGED <<kind, rows, objects, shown, run, embed>>

\* remove_objects: the source and everything under the document's prefixes.
DeleteObjects ==
    /\ deletion = "locked"
    /\ source' = FALSE
    /\ texts' = {} /\ artifacts' = {} /\ manifests' = {}
    /\ deletion' = "emptied"
    /\ UNCHANGED <<kind, rows, shown, run, embed>>

\* The delete cascades to extractions, chunks and embeddings.
DeleteCommit ==
    /\ deletion = "emptied"
    /\ row' = FALSE
    /\ extracted' = [x \in AllExtractors |-> None]
    /\ chunked' = {} /\ embedded' = {}
    /\ deletion' = "none"
    /\ UNCHANGED <<kind, objects, shown, run, embed>>

\* It rolls back: before any object went or, when "partial", after.
DeleteRollback ==
    /\ \/ deletion = "locked"
       \/ deletion = "emptied" /\ Deletion = "partial"
    /\ deletion' = "none"
    /\ UNCHANGED <<kind, rows, objects, shown, run, embed>>

-----------------------------------------------------------------------------

RunAct(e) ==
    \/ Commit(e) \/ Begin(e) \/ FindExtraction(e) \/ StoreText(e) \/ InsertExtraction(e)
    \/ DiscardText(e) \/ Route(e) \/ Split(e) \/ StoreChunks(e) \/ Stage(e)
    \/ UploadArtifacts(e) \/ PutManifest(e) \/ RecordOutcome(e) \/ Submit(e)
    \/ Caught(e)

EmbedAct(g) ==
    EmbedStart(g) \/ FindPending(g) \/ StoreEmbeddings(g) \/ Publish(g) \/ ECaught(g)

DeleteAct == DeleteObjects \/ DeleteCommit

RunOver(e) == step[e] \in {"done", "away", "failed", "crashed"}
EmbedOver(g) == estep[g] \in {"idle", "done", "failed", "crashed"}

\* Every run has ended and no deletion is going on.
AtRest ==
    /\ \A e \in Event : RunOver(e)
    /\ \A g \in EmbedRun : EmbedOver(g)
    /\ ~Locked

Next ==
    \/ \E e \in Event : RunAct(e) \/ RetryTask(e) \/ Uncaught(e) \/ Crash(e)
    \/ \E g \in EmbedRun : EmbedAct(g) \/ EUncaught(g) \/ ECrash(g)
    \/ DeleteLock \/ DeleteAct \/ DeleteRollback
    \/ AtRest /\ UNCHANGED vars

Spec == Init /\ [][Next]_vars

\* Workers take the next step of what they run and a transaction ends.  Fairness
\* of the runs is strong because deletions that roll back may lock the row again
\* and again, and PostgreSQL serves whoever waits for a lock in turn.
Fairness ==
    /\ \A e \in Event : SF_vars(RunAct(e))
    /\ \A g \in EmbedRun : SF_vars(EmbedAct(g))
    /\ WF_vars(DeleteAct)

FairSpec == Spec /\ Fairness

-----------------------------------------------------------------------------
(* Properties.                                                             *)

Triples == TextId \X {Chunker[w] : w \in Release} \X UNION {Embedders[w] : w \in Release}

\* Rows, objects and runs keep their types.
TypeOK ==
    /\ kind \in {"text", "blank", "sheet"}
    /\ {row, source, published} \subseteq BOOLEAN
    /\ deletion \in {"none", "locked", "emptied"}
    /\ status \in Status
    /\ extracted \in [AllExtractors -> TextId \cup {None}]
    /\ texts \subseteq TextId
    /\ chunked \subseteq TextId \X {Chunker[w] : w \in Release}
    /\ embedded \subseteq Triples
    /\ artifacts \subseteq Event /\ manifests \subseteq Event /\ committed \subseteq Event
    /\ step \in [Event -> RunStep]
    /\ release \in [Event -> IngestReleases]
    /\ text \in [Event -> TextId \cup {None}]
    /\ spare \in [Event -> TextId \cup {None}]
    /\ outcome \in [Event -> {"ok", "needs_intervention", "failed"}]
    /\ retries \in [Event -> 0..MaxRetries]
    /\ estep \in [EmbedRun -> EmbedStep]
    /\ erelease \in [EmbedRun -> EmbedReleases]
    /\ todo \in [EmbedRun -> SUBSET UNION {Embedders[w] : w \in Release}]
    /\ pending \in [EmbedRun -> Triples \cup {NoTriple}]
    /\ eretries \in [EmbedRun -> 0..MaxRetries]

\* "A row is only there once its text is" (src/store/models.py:84): an
\* extraction that can be found has its text until a deletion removes it.
ExtractionHasText ==
    row /\ deletion # "emptied" =>
        \A x \in AllExtractors : extracted[x] # None => extracted[x] \in texts

\* Racing runs with the same extractor go on with one extraction, the row's.
RunsConverge ==
    \A e \in Event :
        row /\ step[e] \in {"discard", "route", "split", "chunk", "stage"} => HasRow(e)

\* Some release finds all of the document in its embedders.
Searchable ==
    \E w \in Release :
        \A m \in Embedders[w] : <<extracted[Extractor[w]], Chunker[w], m>> \in embedded

\* "true once the document is completely ingested and searchable" (README.md:350):
\* a published document has a complete bundle and, if it has chunks, is embedded.
PublishedIsComplete ==
    published /\ row /\ deletion # "emptied" =>
        /\ \E e \in Event : e \in artifacts /\ e \in manifests
        /\ kind = "text" => Searchable

\* When everything that was queued has ended, and some of it got past the
\* commit, the status says how it ended: it is not left at a stage nobody is
\* working on ("If an exception escapes the flow after the commit, it records
\* status='failed'", docs/ingestion-flow.md:150).
StatusSettles ==
    AtRest /\ row /\ committed # {} => status \in {"ok", "needs_intervention", "failed"}

\* Nothing is lost between the stages: when a run has ended with an ok bundle and
\* no embedding run has failed, the document is published, whoever did the work
\* and however it was divided (embed_release.delay, mark_published).
DoneIsPublished ==
    /\ AtRest /\ row
    /\ \E e \in Event : step[e] = "done" /\ outcome[e] = "ok"
    /\ \A g \in EmbedRun : estep[g] \in {"idle", "done"}
    => published

\* Once everything has ended, a deleted document has left no object behind:
\* "every object it owns" (src/api.py:234).
DeletedLeavesNothing ==
    AtRest /\ ~row => ~source /\ texts = {} /\ artifacts = {} /\ manifests = {}

\* Every run ends: no retry, race or deletion leaves one waiting for ever.
EverythingEnds == <>AtRest
=============================================================================
