# A TLA+ model of smart-ingestion

smart-ingestion takes files through presigned URLs, decides by their SHA-256 which
document they are, extracts and chunks their text, embeds the chunks, and publishes the
document for search. Its state lives in PostgreSQL and in an object store; Prefect runs and
retries the work on several ingest and embedding workers. There is no queue table, lease or
in-flight row: what makes concurrent and repeated work safe is the order of writes, the
unique "reuse keys" and one age threshold. That is what these modules state and check.

Paths below are relative to the repository (`src/store/service.py` is the file of that name
in it).

## Inventory

| Component | State | Operations | Interacts with | Hard because |
|---|---|---|---|---|
| Upload commit (`src/api.py`, `ingestion_flow.py:commit_upload`, `store/service.py`, `store/repository.py`) | objects under `documents/<candidate>/`, the `documents` table | sign a URL, PUT, `/notify`, describe, hash, insert or read back, discard | the sweep, deletions, other commits | five requests without a lock between them; retried at two levels; two uploads of the same bytes |
| Sweep (`sweep_flow.py`, `discard_abandoned_uploads`) | none of its own | list, ask which are documents, delete | commits | acts on a listing that is old when it deletes |
| Deletion (`delete_document`) | a transaction | lock, remove objects, commit or roll back | every writer of the document | an object store inside a transaction |
| Ingest pipeline (`ingestion_flow.py`, `chunking_flow.py`, `publish.py`) | `extractions` and its text objects, `chunks`, bundles | find or extract, store, chunk, stage, publish a bundle, record the outcome | other runs of the same document, deletion | runs race and are retried as a whole from the commit |
| Embedding pipeline (`embedding_flow.py`) | `embeddings` | find pending, encode, store, publish | the run that submitted it, the release each process has cached | the two stages run in different processes, at different times |
| Status and publication (`common.py`, `set_status`, `mark_published`) | `documents.status`, `documents.published` | overwrite, publish | every flow | last write wins; failure handlers and crash hooks write it too |
| Bundles (`publish.py`, `assets.py`, `llm_test.py:download_bundle`) | `ingested/<document>/<event>/` | artifacts, then the manifest | retries, readers, deletion | the prefix is the event's, which a retry keeps and fills with files built anew |
| Releases (`releases.py`) | configuration cached by each process | select operators | both pipelines | processes may differ |
| HTTP API (`api.py`) | none | presign, lookup, notify, delete, query, list | the store and Prefect | — |
| Search (`vectors.py`, `api.py:search_release`) | none | rank twice, fuse, merge | `published` | numeric edges |
| Spreadsheets (`xlsx.py`, `xlsx_flow.py`) | a DuckDB file | open, name columns, infer types, load, describe | DuckDB, GDAL | column names that collide; cells that are no text; one bad sheet fails all |
| Operators (`operators/`, `tika.py`, `routing.py`) | none | extract, split, embed | — | sparse index arithmetic |
| Tools (`load_test.py`, `clean_runs.py`, `llm_test.py`) | none | poll until done | Prefect | termination |
| Schema and migrations (`store/schema.py`, `store/migrations/`, `models.py`, `service_init.py`) | the `smart_files` schema, `alembic_version` | upgrade, downgrade | initialisers, the command line, rows of every release | statements that fail only for the rows they find; up and down again; declared twice |
| Pages | — | — | — | — |

What makes them correct:

- *Upload commit and sweep*: one document for each content; a document has its bytes from
  its row to its deletion; racing commits agree on the document; bytes are removed only when
  their content is a document or they are abandoned, and then they are removed.
- *Deletion*: it removes the row and every object, or nothing.
- *Pipelines*: a row is there only once its text is; racing runs go on with one extraction;
  published means complete; every run ends, whatever fails.
- *Status*: when nothing is running any more it says how the work ended.
- *Bundles*: a manifest names files that are there unless a deletion took them; when a run
  completes, the bundle is that run's; who reads it then gets the files of one run or an error.
- *Schema*: no migration fails on the rows it finds; the schema is a function of the revision,
  and at the head it is what the models declare; nothing stays published that a migration emptied.

`PROJECT.json` lists the hazards at the lines where they bite, each with the property that
covers it, or why none does yet.

## Modules

```
DocumentRegistry            what the store promises about source bytes (abstract)
   ^ implemented by
Uploads                     commits, sweep and deletions over one bucket and one table
   MCUploads                its instances for TLC
   UploadsProofs            types, sweep safety, unique content, bytes kept (one run each),
                            the refinement
   UploadsRaceProofs        bytes kept and agreement (any number of runs each)
Ingestion                   what happens to one committed document
   MCIngestion              its instances for TLC
   IngestionProofs          types, racing runs converge, extractions have their texts
   PublicationProofs        published is complete, done is published, statuses settle
Ranks                       sorting by rank, for the next two
Search                      one query: two rankings for each embedder, fused and merged
SparseVectors               from the model's token hashes to the database's sparse vector
   SearchProofs             the answer of a query, and the literal of a sparse vector
Workbook                    a spreadsheet's sheets as tables, and its outcome
CleanRuns                   the passes in which clean-runs deletes flow runs
LoadTest                    how load-test waits for the runs it started
Bundles                     a bundle's files and manifest through retries, and its reader
   BundlesProofs            manifests are true, completed bundles and downloads are whole
Migrations                  the Alembic chain over a small PostgreSQL, and who runs it
   MigrationsProofs         the chain up and down over any rows, and the initialisers' lock
   WorkloadsProofs          clean-runs, load-test, workbooks
   MCWorkloads              small instances of these seven, side by side
```

### Uploads

One action is one object-store request or one SQL statement. Processes and their state:

| Process | Code | State | Actions |
|---|---|---|---|
| client | `create_upload`, the signed PUT, `/notify` | `expires`, `bytes`, `written` | `CreateUpload`, `PutUpload`, `Notify` |
| run `r` of commit_upload | `ingestion_flow.py:100-131`, `add_document` | `pc`, `cand`, `hashed`, `checked`, `resolved`, `retries` | `DocumentRef`, `CheckUpload`, `OpenUpload`, `DescribeUpload`, `InsertDocument`, `ReadBack`, `DiscardUpload`, `Retry`, `Fail` |
| deletion of `d` | `repository.py:153-171`, `service.py:300-316` | `deletion` | `DeleteLock`, `DeleteObjects`, `DeleteCommit`, `DeleteRollback` |
| sweep | `sweep_flow.py`, `service.py:211-241` | `sweep`, `sweepStart`, `stale` | `SweepBegin`, `ListStale`, `ExcludeDocuments`, `DeleteStale`, `SweepFail` |

`recorded` is the `documents` table: a candidate's `content_id`, or `None`. The unique key on
`content_id` is the `conflicts` set of `InsertDocument`; PostgreSQL's waiting for a row that is
being deleted is its `Locked` guard. A step whose failure is an ordinary exception has no
"exception" action: the run stops there and `Retry` or `Fail` is what Prefect does with it.
The steps that raise `InvalidUpload`, which is never retried, go to `"invalid"`.

Time is a counter. A commit that has passed `check_upload` ends within `MaxCommit`: that is
the assumption the code makes at `sweep_flow.py:10-12` ("unless one commit outlasts the whole
window"), and `Tick` is where it enters the model.

Three constants switch behaviours on and off, so that a run or a theorem says exactly under
which of them a property holds: `Deletion` (`"never"`, `"whole"`: rolls back only before an
object is removed, `"partial"`: also after), `Renotify` (may `/notify` be repeated for one
candidate) and `Rewrite` (may a URL be used again once its bytes are gone; `If-None-Match`
refuses only while an object is there).

### DocumentRegistry

Write, Record, Discard, Delete: each of them one step. Uploads implements it with
`objects <- bytes` and `documents` the recorded contents, where a document whose deletion has
removed the bytes already counts as gone.

### Ingestion

Documents do not interact once they are committed, so one is enough. `Event` are the notified
uploads of its bytes, each a process_upload run; those in `Duplicate` came with another
candidate id. Embedding runs are submitted by them. The step names follow the tasks:
`commit, find, store, insert, discard, route, split, chunk, stage, upload, manifest, outcome,
submit`; `begin` is what happens between the commit and the try. `Guarded` are the steps inside
the try of `ingest_document_flow`, whose failures record FAILED (`Caught`), `Unguarded` those
outside of it (`Uncaught`). `Faults` says which failures may happen: `"task"` (a task inside
a try fails or is retried in place), `"outside"` (outside a try), `"crash"` (the flow crashes
and its hook runs or the worker is killed and it does not). Independently of `Faults` a step
fails when what it reads is gone (`Missing`), which only a deletion brings about.

The bytes are of one of three kinds: `"text"`, `"blank"` (nothing to chunk) and `"sheet"`.
Operators are a release's names for them, because all that matters of an extractor or chunker
is whether two runs have the same. Each worker's release is chosen at the start, since
`active_release` is cached per process.

### Search, SparseVectors, Workbook, CleanRuns and LoadTest

These are computations on data of their own, each a small state machine whose initial states are
its inputs. `Search` asks the database once for each embedder (`SearchEmbedder`, one statement)
and then merges (`Answer`); between two statements documents are published and deleted.
Distances appear as the order they put the chunks in, and scores are exact: `1/(k + rank)` times
`Unit`, a number every denominator divides. What the statement and Python sort is given by the
places it puts things in (`Ranks`): the place of a row is one more than the rows before it, which
is what `row_number()` counts. `SparseVectors` sums the model's entries into a dictionary, one
turn of the loop at a time (`MergeEntry`), makes the vector of it (`Normalise`) and writes it
(`WriteLiteral`). `Workbook` is `load_workbook`:
what comes before its loop (`OpenWorkbook`), a turn of it (`LoadSheet`: header, column names, data
rows, types, casts, comments, what DuckDB refuses, sheets of text), then the description of the
tables (`DescribeTables`) and the outcome (`WriteStatus`). Its cells are a few texts, told apart by
the name `slugify` makes of them and by what they parse as, and values that are no text, which
GDAL makes of a column of numbers or dates; a name is the sequence of what its underscores join,
so that `a_1` as a header and `a` with the suffix 1 are the same name. The whole workbook fails
for any exception: by what is in a sheet (`MayRaise`: `strip()`, `slugify()` and `join()` on what is
no text, a column name twice, an integer beyond BIGINT, a sheet of text whose field is not called
Field1), or because a call fails for a reason of its own (`CallFails`: INSTALL and LOAD, the
layers, reading a sheet, writing or describing a table), at any point. `erred` keeps the two
apart, since only of the first can one say which sheets are spared: `FailsOnlyFor`. An integer
beyond BIGINT among other numbers becomes a DOUBLE parameter or an error, depending on its size
(`MayBeRefused`). `CleanRuns` is the loop of
`clean_runs.py` (`DeleteRun`, `EndPass`) against a Prefect that refuses to delete a run with
subflows left, fails now and then, and has other clients (`DeletedElsewhere`). Two such
accidents make the command stop while a run could still be deleted: a failure in a pass that
deleted nothing else, and a child that somebody else deletes after its parent was tried. `LoadTest` is the loop of
`wait_for_completions` (`ReadTaskRun`, `EndPoll`), whose runs end while it reads them one after
the other. It asks `is_failed`, so a crashed run counts as completed, and it looks at the
deadline before it looks whether all have completed, so a wait whose last run ended in the last
poll times out "with 0 ingestion(s) unfinished".

### Bundles

One upload event, whose prefix every retry of its process_upload run writes again. A run stages a
directory (`StageFiles`: one of `Stagings[n]`, since a DuckDB file is never built twice alike and
the outcome may differ), uploads it in the order of `sorted()` (`UploadFile`) and puts the
manifest (`PutBundleManifest`). `PublishFails` is a request of publish-bundle that fails, also
one that took effect, and the next try from the first file; `RunFails` is any other end of the
run, and `RetryProcessUpload` the next run over the same prefix. The reader is `download_bundle`
of `llm_test.py`: the manifest (`ReadManifest`), then file after file (`DownloadFile`).
The deletion of the document is a transaction around the removal of
what it lists: `ListObjects`, under the row's lock, `RemoveObjects` for each request of
`_delete_keys`, or the part of one that succeeds, and `CommitDeletion`, or `RollBackDeletion`
after any of these, which brings the row back and none of the objects. So a bundle may lose its
manifest or any file while its document stays; `lost` is the history of what was removed and not
put again, and the three properties allow for nothing else to be missing. A manifest is modelled as
the files it names, content included, as its hashes do.

`publish.py:1` and `README.md:68` of the repository call the bundle immutable; a retry rewrites it,
as the open observations of `docs/ingestion-flow.md` note, and the properties say what holds instead. While a later run writes over a bundle, and
for good if that run never gets to its manifest, the old manifest names hashes of files that were
replaced (the `manifest.by < attempt` of `ManifestNamesWhatIsThere`); but that run then has
failed. Files only an earlier run built stay under the prefix, named by no manifest.

### Migrations

A database is its tables, with their columns, indexes and constraints, and their rows; a statement
is a record, `TablesAllow` and `RowsAllow` say whether PostgreSQL takes it (names are free, columns
are there, the rows satisfy what is added or what an UPDATE makes of them) and `Execute` what it
does. `Upgrade01` to `Downgrade09` are the revisions, statement by statement: `tx \bullet s` is a
transaction with its next statement, and the first one that is refused fails it. Only columns that a key, an index, a check or a statement
names are kept. A run reads the revision (`EnsureSchema` under the advisory lock, `RunAlembic`
without one), and commits everything or nothing (`Migrate`), since PostgreSQL's DDL is
transactional; it may die (`AbortMigration`). Between revisions, services of the release that
goes with the schema insert rows (`InsertRow`), publish documents and delete them
(`DeleteDocumentRow`), so that every statement meets the rows that could make it fail.
`PublishRow` is `mark_published`, which asks nothing: a workbook is published without chunks, and
so is a document whose embedding worker found nothing to embed (`ingestion_releases`). What a
document had to search at that moment (`Searchable`: the embeddings that search's joins lead to)
is kept in `backing`, a history, and `PublishedStaysSearchable` is that a migration never takes it
from under the flag, which is what `mark_published` says of it ("what the earlier run built is
still there to search").

A foreign key added `NOT VALID` (03) and one that was checked (the downgrade of 06) count as the
same, since they differ only for rows older than the key.

The chain does what the properties say; five details a reader of it may not expect:

- 06 publishes a document whose ingestion completed with its embeddings in `chunk_embeddings`,
  the table no later code reads (its rows have no chunks in `chunks`); 09 clears that.
- 06 takes the latest ingestion of a document: one whose last ingestion failed is not published,
  although an earlier one completed.
- The downgrade of 08 deletes chunks of other extractors and leaves `published` alone, so below
  08 a document may be published that has lost what it had. `PublishedStaysSearchable` is about
  the head of the chain, where the upgrade of 09 has deleted every chunk and cleared every flag.
- The downgrade of 09 clears `published` and leaves `status` as it was.
- `chunk_embeddings` stays, without a model. `HeadIsTheModels` sets it aside.

## Runs

| Run | Instance | Checks |
|---|---|---|
| `uploads_delete` | 2 candidates, 2 contents, 2 runs, 1 retry, clock to 4, URLs reusable, deletions whole | `TypeOK`, `DocumentsKeepTheirBytes`, `ImplementsRegistry` |
| `uploads_renotify` | 2 candidates, 2 contents, 3 runs, repeated `/notify`, no deletions | `DocumentsKeepTheirBytes`, `CommitReturnsContent`, `UploadsNotLost` |
| `uploads_settle` | 2 candidates, 1 content, 2 runs, everything allowed, fair | `OneDocumentPerContent`, `SweepSparesCommits`, `UploadsSettle` |
| `ingestion_faults` | 2 runs (1 a duplicate), 2 embedding runs, 2 embedders, tasks fail, 1 retry | `TypeOK`, `ExtractionHasText`, `PublishedIsComplete`, `StatusSettles`, `DoneIsPublished` |
| `ingestion_delete` | 2 runs, 2 embedding runs, crashes, failures outside the try, partial deletions, fair | `RunsConverge`, `EverythingEnds` |
| `workloads` | 3 chunks of 2 documents, 2 embedders, every pair of rankings, limits 1 and 2; vectors of up to 3 entries; every sheet of up to 3 rows of 2 cells, of texts or with a column of numbers, every header of 3 cells, sheets of text; every forest of 4 flow runs; 3 runs to wait for; a bundle of up to 2 files and its manifest, 3 runs of 2 tries, one reader, and deletions that may roll back at any point; a database left at any revision, 1 document, 2 ingestions, 2 extractor versions, 2 initialisers and 1 command line | `BestScores`, `NearerComesFirst`, `LimitIsFilled`, `LiteralIsTheVector`, `OkKeepsTheData`, `MetadataIsTrue`, `FailsOnlyFor`, `ClearsWhatItCan`, `ReturnsWhenAllEnded`, `ManifestNamesWhatIsThere`, `CompletedBundleIsWhole`, `DownloadIsOneBundle`, `MigrationsApply`, `SchemaFollowsRevision`, `HeadIsTheModels`, `PublishedStaysSearchable`, `InitialisersTakeTurns` |

Five further things the documentation says are not so in the code, and one that holds only when
workers agree on the release. Each is a run that TLC must find violated:

| Run | The disagreement |
|---|---|
| `uploads_partial_delete` | A deletion that fails after its first batch of keys leaves a document without bytes, still listed and still what the same bytes resolve to. |
| `uploads_renotify_delete` | Two commits of one candidate with a deletion between their inserts: the second records a document whose bytes are gone. |
| `uploads_retry` | A run that resolved to an existing document has discarded its bytes; its retry is an InvalidUpload. |
| `ingestion_orphans` | A run in flight writes a text under a deleted document, which nothing removes. |
| `ingestion_outside` | An exception between the commit and the try leaves the status where it was. |
| `ingestion_releases` | An embedding worker on another release finds no chunks and publishes the document. |

### Why the bounds are enough

Every race in Uploads is between two commits of the same bytes (from two candidates or from
one), or a commit and the sweep or a deletion. Two candidates and two runs give all pairs; the
third run of `uploads_renotify` adds a second notification beside a racing duplicate. Two
contents let a candidate have two in turn. Times are the smallest that keep the order of the
code's (`UPLOAD_TTL` < commit window, abandonment at least the window and the longest commit):
0, 1, 2 and 1, with a clock that lets the sweep reach what was written at 0 and 1. The clock
stops at `MaxTime`, and `CreateUpload` signs URLs only while their bytes can still grow old
enough: without that bound `UploadsSettle` would fail at the end of time for a reason that is
not the code's. The theorems below have no such bounds.

In Ingestion two runs give every race on the reuse keys and two embedding runs every race on
embeddings. Each run uses at most two texts, so four text ids are never exhausted with one
retry; a run that could not find one would be a deadlock, which is checked. Symmetry permutes
candidates, contents, runs and ids only in runs without liveness.

In `workloads` the candidates of a ranking are as many as the limit (multiplier 1, minimum 1; the
code has 5 and 50), so that with three chunks a ranking is cut short, as it is with more than
fifty. `FusionK` is the code's 60. A dimension of 3 with hashes up to 5 makes every pair of
residues collide or not. Three columns are the fewest with a name that collides with a suffixed
one. The two rankings of the second embedder agree
or are opposite, and those of an embedder that is not asked are fixed (`MCOrders`).

In Bundles a third run is what it takes for one to write over a manifest and another over the
files of two others, and two tries for one to start over. The stagings of a run are a database with
its status, or the status alone, of a workbook that failed: with two files a try stops between
them, a later run leaves one of an earlier bundle behind, and a deletion removes any part of files
and manifest. In Migrations every revision
may be the one an older deployment left. A unique key needs two rows to fail: two ingestions,
and the same chunk cut from the extractions of two versions. Nothing in the chain relates two
documents. Two initialisers and a command line give all pairs of runs with and without the lock.

The seven parts have no state in common: a behaviour runs one of them.

### Fairness

`uploads_settle` assumes that time passes, that workers run what they were given or give up,
that transactions end, that the sweep is started again and again (Prefect's hourly schedule),
and, as strong fairness of its three steps, that it does not fail every time (its flow has two
retries, and the next hour's run starts over). `ingestion_delete` assumes that runs which can
go on infinitely often do (PostgreSQL serves lock waiters in turn, so deletions that roll back
for ever cannot starve a writer) and that a deletion ends. No fairness is assumed of clients,
of `DeleteLock`, of failures or of crashes.

## Proofs

All of them hold for any sets of candidates, contents, runs and releases, any number of retries
and any times that satisfy `TimeAssumption`; those about bundles for any files and stagings;
those about a query for any chunks, embedders, orders and limits; those about workbooks for
sheets of any size with any texts and values; those about the tools for any runs; and those about the
migrations for any contents, rows, initialisers and command lines (no process is both). The constants are only taken to
have what the modules' named assumptions say, which TLC evaluates in the runs:
`SearchAssumption` (chunk ids are numbers, finitely many, and `Unit` is a multiple of every
`k + rank`), `SparseAssumption`, `WorkbookAssumption` (a workbook is sheets of rows of cells, a
column has texts or values of another type, not both; what is an integer parses), `CleanRunsAssumption` (no flow run is its own ancestor),
`MigratorAssumption` and `ArrivalsAssumption` (services insert documents unpublished, as
`add_document` does by naming no such column; how many rows there are, and what is in them, is
not assumed).

| Theorem | States | Under |
|---|---|---|
| `TypeCorrect` | `TypeOK` | — |
| `SweepIsSafe` | `SweepSparesCommits` | — |
| `ContentIsUnique` | `OneDocumentPerContent` | — |
| `BytesAreKept` | `DocumentsKeepTheirBytes` | one `/notify` each, no partial deletion |
| `BytesSurviveRaces` | `DocumentsKeepTheirBytes` | no deletion, no URL used twice |
| `RacingCommitsAgree` | `CommitReturnsContent` | the same |
| `NoUploadIsLost` | `UploadsNotLost` | the same |
| `UploadsImplementRegistry` | `ImplementsRegistry` | one `/notify` each, no partial deletion |
| `IngestionProofs!TypeCorrect` | `TypeOK` of Ingestion | — |
| `RacersConverge` | `RunsConverge` | — |
| `ExtractionsHaveTexts` | `ExtractionHasText` | no partial deletion |
| `PublishedDocumentsAreComplete` | `PublishedIsComplete` | workers cut alike (`OneChunking`), no partial deletion |
| `DoneGetsPublished` | `DoneIsPublished` | — |
| `StatusesSettle` | `StatusSettles` | no failure outside the try, no crash |
| `AnswersAreTheBest` | `BestScores` | — |
| `AnswersKeepTheOrder` | `NearerComesFirst` | — |
| `AnswersAreFull` | `LimitIsFilled` | — |
| `LiteralsHoldTheVector` | `LiteralIsTheVector` | — |
| `OkWorkbooksKeepTheData` | `OkKeepsTheData` | — |
| `MetadataTellsTheTruth` | `MetadataIsTrue` | — |
| `WorkbooksFailOnlyFor` | `FailsOnlyFor` | — |
| `CleaningClearsAll` | `ClearsWhatItCan` | — |
| `WaitsForAll` | `ReturnsWhenAllEnded` | — |
| `ManifestsAreTrue` | `ManifestNamesWhatIsThere` | — |
| `CompletionIsWhole` | `CompletedBundleIsWhole` | — |
| `DownloadsAreWhole` | `DownloadIsOneBundle` | — |
| `InitialisersAlternate` | `InitialisersTakeTurns` | — |
| `RevisionsAlwaysApply` | `MigrationsApply` | — |
| `SchemaIsOfItsRevision` | `SchemaFollowsRevision` | — |
| `HeadHasTheModels` | `HeadIsTheModels` | — |
| `PublishedDocumentsStaySearchable` | `PublishedStaysSearchable` | — |

*Sweep.* `SweepSparesCommits` is not inductive: nothing in it says how old a stale candidate
is. `SweepInv` adds three facts: a commit is within `MaxCommit` of a check that found its bytes
within the window (`CommitTimes`), what the sweep holds was older than `AbandonedAfter` when it
began (`StaleTimes`), and nothing it holds after its query is a document. Given
`CommitWindow + MaxCommit <= AbandonedAfter` no commit of a stale candidate can be going on.

*Bytes, one run each.* `OneRunInv`: a candidate has one run; while that run is past
document_ref the candidate is no document; from the hash to the insert the bytes are what was
hashed. So no step of another process can take a document's bytes, its own deletion apart. The
two runs that violate the property show that both conditions of the theorem are needed.

*Bytes, racing runs.* `RaceInv` records what a run knows at each step: its insert finds the
bytes it hashed, or their content in another candidate's row; a run that discards knows such a
row. With unique content the bytes it discards are no document's.

*Refinement.* Each step maps to a Write, Record, Discard, Delete or to none, given `OneRunInv`.

*Extractions.* `RunsConverge` needs `HoldsText`: the extractions row changes from nothing to an
id, and a run that is past the insert holds an id, so the row it holds cannot be the one that
changes. `TextInv` is about `_discard_extraction_text`: a text about to be inserted is stored and
named by no row, no other run's insert and no run's discard (`StoredApart`), and a text about to
be discarded is in no row (`SpareIsNobodys`). A deletion empties the prefixes before it commits,
and only one that may then roll back ("partial") breaks the invariant.

*Publication.* `PublishedIsComplete` says nothing of how a run came to publish. `PublishedInv` adds
what each stage hands to the next (`Handed`): a run past its manifest has a bundle with one
(`RunsBuildBundles`), a run past chunking has chunks (`RunsHaveChunks`), a submitted embedding run
finds both (`SubmittedHaveWork`), and what it has ticked off is embedded or being written
(`TickedIsEmbedded`). What is there stays until a deletion empties it, and then `Alive` is false for
good unless the deletion rolls back: hence no partial deletion. `OneChunking` is what
`ingestion_releases` shows to be needed: an embedding worker that cuts otherwise finds no chunks.
The embedders of the two may differ; then the release that embedded is the one `Searchable` finds.
`DoneInv` needs no condition: a run that ends well has published or has submitted an embedding run.

*Status.* `StageHasAWorker`: a status that names a stage was written by a run that is at that stage,
or was handed on to one that is. Failures outside a try and crashes break exactly this
(`ingestion_outside`).

*Query.* `SearchInv`: each result so far is the first `limit` of what its statement ranked on what
it saw, which nothing that happens later changes. The rest is about the operators. A sort by rank
returns each element once, in order (`RankedSorts`), since the places in a strict total order are
taken one by one (`PlacesAreTaken`, by counting). `IsBestOf` says what a search, or the merge,
returns of the hits it has; the first `limit` of the sorted hits are that (`FirstAreBest`,
`MergeIsBest`). That every search may be cut at the limit before the merge
(`CuttingLosesNothing`) is a pigeonhole: a hit that was cut has `limit` better ones in its own
search, which are all in the answer or are beaten by all of it. `NearerComesFirst` follows as a
smaller rank has a larger share (`SharesFall`), and `LimitIsFilled` as the candidates are at least
the limit (`UnrankedIsBehind`).

*Sparse vectors.* `SparseInv`: the vector has each index once and, index by index, the sum of the raw
entries merged so far (`VectorIsTheSum`). A sum is the size of a set of units, so that adding an
entry is a disjoint union (`SumOfMore`). Indexes are remainders, so none is outside the dimension.

*Workbooks.* `WorkbookInv`: each table is that of a sheet that loads, and each numbered sheet looked
at has one or has failed (`SheetsAreAccountedFor`). The data survive because a column becomes
numeric only if all its values parse (`ParsingKeepsTheValue`). The description pairs columns with
headers through their names, so it needs the names to differ: they do unless one header spells
another one with its suffix (`NamesCollide`), and then DuckDB has refused the table. That every
failure has one of the reasons of `FailsOnlyFor` is `FailedAtASheet` and, sheet by sheet,
`ReasonsToRaise`.

*clean-runs, load-test.* `PassesAreExact`: undisturbed, the runs that are left are those a pass has not
tried and those it was refused, each refused for another run that is left; no forest is like
that, so a pass that deletes nothing has nothing to delete. `LoadInv`: what was counted as
completed had ended.

*Bundles.* `BInv`: what a try has sent is stored as the run built it, or a deletion took it
(`SentIsStored`), a manifest is put only when everything was sent (`PublishedIsSent`), and one that
bears the number of the run at work names that run's files (`ManifestIsOfARun`), so an upload that
changes a named file changes one of an earlier run's manifest. Whatever a deletion removes is in
`lost`, so it disturbs none of this, and its end changes nothing more, committed or rolled back
(`RemovalKeeps`, `TransactionKeeps`). Once the run has completed nothing writes any more, and a
reader that began then holds the staged files (`DownloadIsStaged`).

*Lock.* `LockInv`: at most one initialiser has a run (`OneInitialiser`), so the one that commits
overtakes none.

*Migrations.* None of the four properties is inductive: whether a statement goes through depends on
rows that were written revisions ago. The proof goes up in four stages.

1. *Statements.* A database is `Sound` if each row has the columns of its table and satisfies its
   keys and checks (foreign keys aside: `NOT VALID` adds one over any rows). Whatever a
   statement does, it keeps that (`StatementKeepsSound`), a cascading deletion too as it only removes
   (`DeletionOnlyRemoves`). For each kind of statement a lemma says when it is accepted and which
   tables it leaves (`IndexMade`, `ColumnAdded`, `ConstraintAdded`, ..., `RowsUpdated`). Names of
   indexes are shared by all tables; `Named` (each table uses names of its own only) is why one is free.
2. *Revisions.* `Schema(r)` is what the tables are at revision r. From any `Good` transaction at r - 1
   the upgrade reaches `Schema(r)`, and its downgrade leads back (`Revision01` to `Revision08`,
   `Upgrade09Goes`, `Downgrade09Goes`). Most statements need nothing of the rows. Those that do are
   where the chain could fail: 06 adds a check over the default it has just filled in
   (`StatusAdded`) and carries statuses over that must pass it (`StatusesCarriedOver`); the wider
   key of 08 holds because the narrower did, and its downgrade needs all chunks that remain to be of
   one extractor; 09 and its downgrade add columns without a default, for which `chunks` must be
   empty (`ChunksForgotten`).
3. *Runs.* So any run gets from its revision to its target (`PerformGoes`; the recursive function
   in `Perform` exists as there are only nine revisions, `UpgradesCompose`), a fresh database
   included (`FreshDatabase`); and one that passes revision 09 on its way up leaves no document
   published.
4. *Steps.* `ChainInv`: the tables are `Schema(revision)`, the rows are sound, a run is planned from
   the revision it read to the head or one down (`RunInv`), and the properties. A run whose revision
   has moved is refused, so only one that finds what it read commits (`MigrateKeeps`). An inserted
   row satisfies the constraints of its table (`InsertKeeps`). A deletion at the head takes the
   extractions of its document, their chunks, their embeddings and no more (`CascadeStaysWithin`),
   and as ids are unique these are not what another document has to search
   (`OthersStaySearchable`, `DeleteKeeps`); rows that are added take nothing away
   (`SearchableStays`).

In Uploads, the proof of a step has one case for each kind of change, not for each conjunct and action:
`BytesChange`, `RecordedChange`, `DeletionChange`, `RunChange` say which steps move a
variable, and the invariants follow from those.

Only model-checked: liveness (`UploadsSettle`, `EverythingEnds`: fairness and ENABLED are beyond the
provers), and the violations. Every safety invariant and action property of a passing run is a
theorem. The provers cannot unfold a fold, nor do induction: so in Search and SparseVectors sorting and
summing are defined by counting, and in Migrations a revision is a chain of statements. (A run
recurses over the revisions, of which there are nine.)

## Not modelled

- Error details, filenames, page rendering: no property here tells them apart. The listings
  page by offset, but no client of the repository asks for a second page.
- The upload page asks `/lookup` and skips the upload of a file that is known
  (`static/index.html:104`); a deletion right after makes that answer stale, which only the user can see.
- Ties between distances are any order, but the same for the rank and for the cut of one ranking.
- Titles, background texts, and minima, averages and examples of values of spreadsheets. GDAL
  gives a column one type, texts or values of another kind. What a call of DuckDB, GDAL or the
  network may fail for, of its own, is not told apart (`CallFails`); and an exception after
  `extract_metadata`, outside the try of `xlsx_ingest_flow`, is a failed step of Ingestion.
- Parsing by Tika, splitting, and model inference: what they return is data to the pipeline.
- Concurrency slots (`tika-ingest`, `xlsx-ingest`) only delay tasks, and Prefect's own storage
  is taken to run each submitted task until it ends or gives up.
- Of the migrations: the statements' locks (a run is one step, so no row is
  inserted between two of its statements), columns that nothing names, offline
  SQL and autogeneration. Of initialisation: the limits it configures in Prefect.
- `describe` and `download` outside of what their absence makes a run do; a parse held in memory.

## Plan

1. *(done)* Uploads with its sweep and deletions, the registry it implements, their proofs.
2. *(done)* Ingestion: the two pipelines, failures, deletion, releases.
3. *(done)* Search, SparseVectors, Workbook, CleanRuns, LoadTest.
4. *(done)* Bundles: retries over one prefix, the reader of a manifest, their proofs.
5. *(done)* Migrations: the chain both ways, the rows it finds, the lock.
6. *(done)* Proofs about Ingestion: types, `RunsConverge`, `ExtractionHasText`,
   `PublishedIsComplete`, `DoneIsPublished`, `StatusSettles`.
7. *(done)* Proofs about the workloads, for data of any size.
8. *(done)* Proofs about Migrations: the lock, and the chain for any rows.
9. *(left)* The conditions of `PublishedDocumentsAreComplete` and `BytesAreKept` are sufficient; the
   violating runs show that most of them are needed, but a deletion that rolls back harms
   publication only if it removed something, which a finer invariant could say.
