----------------------------- MODULE Migrations -----------------------------
(* The Alembic chain of the store's schema (store/migrations/versions), run   *)
(* by the initialisers that start every deployment (ensure_schema, under an   *)
(* advisory lock) and by hand with the alembic command line (which takes no   *)
(* lock), while the services write rows to whatever schema is there.          *)
(*                                                                            *)
(* A database is its tables, with their columns, indexes and constraints, and *)
(* their rows; a revision executes statements one after the other, and a      *)
(* statement that PostgreSQL would refuse, for a name or for the rows there   *)
(* are, fails the whole run. Columns no key, index, check or statement names  *)
(* are left out, and so is CREATE ... IF NOT EXISTS for the schema and the    *)
(* vector extension.                                                          *)
EXTENDS Naturals

CONSTANTS
    Initialiser,        \* Runs of service_init
    Cli,                \* The alembic command line, run by hand
    Sha,                \* Contents of documents, by their hash
    Arrivals            \* Arrivals[t]: rows the services may write to table t

ASSUME MigratorAssumption == Initialiser \cap Cli = {}

\* A document is inserted unpublished: add_document names no such column.
ASSUME ArrivalsAssumption ==
    \A t \in DOMAIN Arrivals \cap {"documents"} : \A r \in Arrivals[t] : r.published = FALSE

VARIABLES
    db,                 \* The smart_files schema and its rows
    revision,           \* alembic_version: how many revisions are applied
    migrating,          \* migrating[m]: the run of m that has read the revision
    broken,             \* A run failed at the revision it had read
    overtaken,          \* Initialisers another one overtook since they read it
    backing             \* History: a document's rows to search when it was last published

migrationVars == <<db, revision, migrating, broken, overtaken, backing>>

Null == "null"
NoRun == [from |-> 0, to |-> 0]
HeadRevision == 9

-----------------------------------------------------------------------------
(* PostgreSQL: what the statements of the revisions do.                       *)

Without(f, S) == [x \in DOMAIN f \ S |-> f[x]]
With(f, g) == [x \in DOMAIN f \cup DOMAIN g |-> IF x \in DOMAIN g THEN g[x] ELSE f[x]]

\* What a table is like, whatever its rows.
Shape(cols, idx, cons) == [columns |-> cols, indexes |-> idx, constraints |-> cons]
Index(n, cols) == [name |-> n, columns |-> cols]
Unique(n, cols) == [name |-> n, kind |-> "unique", columns |-> cols, refs |-> "none", values |-> {}]
Check(n, c, vals) == [name |-> n, kind |-> "check", columns |-> {c}, refs |-> "none", values |-> vals]
Foreign(n, c, other) == [name |-> n, kind |-> "foreign", columns |-> {c}, refs |-> other, values |-> {}]

EmptyDb == [tables |-> Without(<<>>, {}), rows |-> Without(<<>>, {})]

\* A row r satisfies a constraint of table t; a NULL satisfies a check or a key.
Satisfies(d, t, k, r) ==
    \/ k.kind = "unique" /\ \A q \in d.rows[t] : (\A c \in k.columns : q[c] = r[c]) => q = r
    \/ k.kind = "check" /\ \A c \in k.columns : r[c] \in k.values \cup {Null}
    \/ k.kind = "foreign" /\ \A c \in k.columns :
            r[c] = Null \/ \E q \in d.rows[k.refs] : q[c] = r[c]

\* Rows that go with the rows of gone they refer to: ON DELETE CASCADE, one level.
Spread(d, gone) ==
    [t \in DOMAIN d.rows |-> gone[t] \cup {r \in d.rows[t] :
        \E k \in d.tables[t].constraints : k.kind = "foreign" /\
            \E q \in gone[k.refs] : \A c \in k.columns : q[c] = r[c]}]

\* DELETE: the tree documents, extractions, chunks, embeddings has four levels.
Delete(d, t, gone) ==
    LET all == Spread(d, Spread(d, Spread(d, [u \in DOMAIN d.rows |-> IF u = t THEN gone ELSE {}])))
    IN  [u \in DOMAIN d.rows |-> d.rows[u] \ all[u]]

CreateTable(t, cols, cons) == [op |-> "create_table", table |-> t, columns |-> cols, constraints |-> cons]
DropTable(t) == [op |-> "drop_table", table |-> t]
AddColumn(t, c, value) == [op |-> "add_column", table |-> t, column |-> c, value |-> value]
AddRequired(t, c) == [op |-> "add_required", table |-> t, column |-> c]
DropColumn(t, c) == [op |-> "drop_column", table |-> t, column |-> c]
CreateIndex(n, t, cols) == [op |-> "create_index", table |-> t, index |-> Index(n, cols)]
DropIndex(n, t) == [op |-> "drop_index", table |-> t, name |-> n]
AddConstraint(t, k) == [op |-> "add_constraint", table |-> t, constraint |-> k]

\* The rows there are stay as they are; the key is like any other from then on.
AddNotValid(t, k) == [op |-> "add_not_valid", table |-> t, constraint |-> k]
DropConstraint(n, t) == [op |-> "drop_constraint", table |-> t, name |-> n]
DeleteAll(t) == [op |-> "delete", table |-> t, except |-> {}]
DeleteExcept(t, pattern) == [op |-> "delete", table |-> t, except |-> {pattern}]
UpdateAll(t, values) == [op |-> "update", table |-> t, values |-> values]
CarryOver == [op |-> "carry_over", table |-> "documents"]

\* Names in use by tables, indexes and the indexes of unique constraints.
NamesOf(shape) ==
    {i.name : i \in shape.indexes} \cup {k.name : k \in {c \in shape.constraints : c.kind = "unique"}}
Relations(S) == DOMAIN S \cup UNION {NamesOf(S[t]) : t \in DOMAIN S}

\* The name is free, the columns are there, and so is the table a foreign key refers to.
MayHold(S, shape, k) ==
    /\ \A other \in shape.constraints : other.name # k.name
    /\ k.kind = "unique" => k.name \notin Relations(S)
    /\ k.columns \subseteq shape.columns
    /\ k.kind = "foreign" => k.refs \in DOMAIN S

\* The statement is one PostgreSQL accepts with these tables.
TablesAllow(S, s) ==
    /\ (s.op = "create_table") = (s.table \notin DOMAIN S)
    /\ CASE s.op = "create_table" ->
              /\ s.table \notin Relations(S)
              /\ \A k \in s.constraints : MayHold(S, Shape(s.columns, {}, {}), k)
         [] s.op = "drop_table" ->
              \A t \in DOMAIN S \ {s.table} : \A k \in S[t].constraints : k.refs # s.table
         [] s.op \in {"add_column", "add_required"} -> s.column \notin S[s.table].columns
         [] s.op = "drop_column" -> s.column \in S[s.table].columns
         [] s.op = "create_index" ->
              s.index.name \notin Relations(S) /\ s.index.columns \subseteq S[s.table].columns
         [] s.op = "drop_index" -> \E i \in S[s.table].indexes : i.name = s.name
         [] s.op \in {"add_constraint", "add_not_valid"} -> MayHold(S, S[s.table], s.constraint)
         [] s.op = "drop_constraint" -> \E k \in S[s.table].constraints : k.name = s.name
         [] s.op = "delete" -> \A pattern \in s.except : DOMAIN pattern \subseteq S[s.table].columns
         [] s.op = "update" -> DOMAIN s.values \subseteq S[s.table].columns
         [] s.op = "carry_over" ->
              "ingestions" \in DOMAIN S /\ {"status", "error", "published"} \subseteq S[s.table].columns

\* What a statement makes of a table: an index or a constraint goes with any column it is on.
Altered(shape, s) ==
    CASE s.op \in {"add_column", "add_required"} ->
            Shape(shape.columns \cup {s.column}, shape.indexes, shape.constraints)
      [] s.op = "drop_column" ->
            Shape(shape.columns \ {s.column}, {i \in shape.indexes : s.column \notin i.columns},
                  {k \in shape.constraints : s.column \notin k.columns})
      [] s.op = "create_index" -> Shape(shape.columns, shape.indexes \cup {s.index}, shape.constraints)
      [] s.op = "drop_index" ->
            Shape(shape.columns, {i \in shape.indexes : i.name # s.name}, shape.constraints)
      [] s.op \in {"add_constraint", "add_not_valid"} ->
            Shape(shape.columns, shape.indexes, shape.constraints \cup {s.constraint})
      [] s.op = "drop_constraint" ->
            Shape(shape.columns, shape.indexes, {k \in shape.constraints : k.name # s.name})
      [] OTHER -> shape

Reshaped(S, s) ==
    CASE s.op = "create_table" ->
            [t \in DOMAIN S \cup {s.table} |->
                IF t = s.table THEN Shape(s.columns, {}, s.constraints) ELSE S[t]]
      [] s.op = "drop_table" -> Without(S, {s.table})
      [] OTHER -> [S EXCEPT ![s.table] = Altered(@, s)]

\* The ingestion of each document that was updated last, as the upgrade to 06 reads it.
Latest(d, doc) ==
    CHOOSE i \in d.rows["ingestions"] : i.document_id = doc /\
        \A j \in d.rows["ingestions"] : j.document_id = doc => j.updated_at <= i.updated_at

\* The status an ingestion leaves its document with; outputs is its bundle's outcome.
StatusFrom(i) ==
    CASE i.status \in {"failed", "embedding"} -> i.status
      [] i.status \in {"processing", "published"} -> "ingesting"
      [] i.status = "completed" /\ i.outputs \in {"needs_intervention", "failed"} -> i.outputs
      [] OTHER -> "ok"

Carried(d, r) ==
    IF \A i \in d.rows["ingestions"] : i.document_id # r.document_id THEN r
    ELSE LET i == Latest(d, r.document_id)
         IN  [r EXCEPT !.status = StatusFrom(i), !.error = i.error,
                       !.published = i.status = "completed" /\ i.outputs \in {Null, "ok"}]

NewRows(d, s) ==
    CASE s.op = "create_table" ->
            [t \in DOMAIN d.rows \cup {s.table} |-> IF t = s.table THEN {} ELSE d.rows[t]]
      [] s.op = "drop_table" -> Without(d.rows, {s.table})
      [] s.op = "add_column" ->
            [d.rows EXCEPT ![s.table] = {With(r, [c \in {s.column} |-> s.value]) : r \in @}]
      [] s.op = "drop_column" -> [d.rows EXCEPT ![s.table] = {Without(r, {s.column}) : r \in @}]
      [] s.op = "delete" ->
            Delete(d, s.table, {r \in d.rows[s.table] :
                \A pattern \in s.except : \E c \in DOMAIN pattern : r[c] # pattern[c]})
      [] s.op = "update" -> [d.rows EXCEPT ![s.table] = {With(r, s.values) : r \in @}]
      [] s.op = "carry_over" -> [d.rows EXCEPT ![s.table] = {Carried(d, r) : r \in @}]
      [] OTHER -> d.rows

Execute(d, s) == [tables |-> Reshaped(d.tables, s), rows |-> NewRows(d, s)]

\* The statement is one PostgreSQL accepts with these rows.
RowsAllow(d, s) ==
    CASE s.op = "add_required" -> d.rows[s.table] = {}
      [] s.op = "add_constraint" -> \A r \in d.rows[s.table] : Satisfies(d, s.table, s.constraint, r)
      [] s.op \in {"update", "carry_over"} ->
            \A k \in d.tables[s.table].constraints : \A r \in NewRows(d, s)[s.table] :
                Satisfies(Execute(d, s), s.table, k, r)
      [] OTHER -> TRUE

\* A transaction and its next statement: the first one refused fails them all.
Executed(tx, s) ==
    IF tx.ok /\ TablesAllow(tx.db.tables, s) /\ RowsAllow(tx.db, s)
    THEN [ok |-> TRUE, db |-> Execute(tx.db, s)]
    ELSE [ok |-> FALSE, db |-> tx.db]
tx \bullet s == Executed(tx, s)

Begin(d) == [ok |-> TRUE, db |-> d]

-----------------------------------------------------------------------------
(* The revisions, each with its upgrade and its downgrade.                    *)

IngestionStatus == {"processing", "published", "embedding", "completed", "failed"}
DocumentStatus == {"uploaded", "ingesting", "embedding", "ok", "needs_intervention", "failed"}

IngestionOfDocument == Foreign("ingestions_document_id_fkey", "document_id", "documents")

CreateIngestions(tx, foreign) ==
    tx \bullet CreateTable("ingestions",
            {"ingestion_id", "document_id", "source_sha256", "pipeline_version", "status",
             "outputs", "error", "updated_at"},
            foreign \cup
            {Unique("ingestions_pkey", {"ingestion_id"}),
             Unique("ingestions_source_pipeline_key", {"source_sha256", "pipeline_version"}),
             Check("ingestions_sha256_check", "source_sha256", Sha),
             Check("ingestions_status_check", "status", IngestionStatus)})
       \bullet CreateIndex("ingestions_status_idx", "ingestions", {"status", "updated_at"})

DropIngestions(tx) ==
    tx \bullet DropIndex("ingestions_status_idx", "ingestions") \bullet DropTable("ingestions")

Upgrade01(tx) == CreateIngestions(tx, {})
Downgrade01(tx) == DropIngestions(tx)

Upgrade02(tx) ==
    tx \bullet CreateTable("chunk_embeddings",
            {"ingestion_id", "document_id", "chunk_index", "dense_model", "sparse_model"},
            {Unique("chunk_embeddings_pkey",
                {"ingestion_id", "chunk_index", "dense_model", "sparse_model"})})
       \bullet CreateIndex("chunk_embeddings_document_idx", "chunk_embeddings",
                          {"document_id", "ingestion_id"})
Downgrade02(tx) ==
    tx \bullet DropIndex("chunk_embeddings_document_idx", "chunk_embeddings")
       \bullet DropTable("chunk_embeddings")

CreateUploads(tx) ==
    tx \bullet CreateTable("uploads", {"upload_id", "status", "document_id", "expires_at"},
            {Unique("uploads_pkey", {"upload_id"}),
             Check("uploads_status_check", "status", {"pending", "committed"}),
             Foreign("uploads_document_id_fkey", "document_id", "documents")})
       \bullet CreateIndex("uploads_status_idx", "uploads", {"status", "expires_at"})

DropUploads(tx) == tx \bullet DropIndex("uploads_status_idx", "uploads") \bullet DropTable("uploads")

CreateDocuments(tx) ==
    tx \bullet CreateTable("documents", {"document_id", "content_id", "created_at"},
            {Unique("documents_pkey", {"document_id"}),
             Check("documents_content_check", "content_id", Sha),
             Unique("documents_content_key", {"content_id"})})
       \bullet CreateIndex("documents_created_idx", "documents", {"created_at"})

Upgrade03(tx) == CreateUploads(CreateDocuments(tx)) \bullet AddNotValid("ingestions", IngestionOfDocument)
Downgrade03(tx) ==
    DropUploads(tx \bullet DropConstraint("ingestions_document_id_fkey", "ingestions"))
       \bullet DropIndex("documents_created_idx", "documents")
       \bullet DropTable("documents")

ReuseByChunker ==
    Unique("chunks_reuse_key", {"document_id", "chunker_name", "chunker_version", "chunk_index"})
ChunkerIndex == CreateIndex("chunks_chunker_idx", "chunks", {"chunker_name", "chunker_version"})
ChunksOfDocument == Foreign("chunks_document_id_fkey", "document_id", "documents")

Upgrade04(tx) ==
    tx \bullet CreateTable("chunks",
            {"chunk_id", "document_id", "chunker_name", "chunker_version", "chunk_index"},
            {Unique("chunks_pkey", {"chunk_id"}), ChunksOfDocument, ReuseByChunker})
       \bullet ChunkerIndex
Downgrade04(tx) == tx \bullet DropIndex("chunks_chunker_idx", "chunks") \bullet DropTable("chunks")

Upgrade05(tx) ==
    tx \bullet CreateTable("embeddings", {"chunk_id", "embedder_name", "embedder_version"},
            {Unique("embeddings_pkey", {"chunk_id", "embedder_name", "embedder_version"}),
             Foreign("embeddings_chunk_id_fkey", "chunk_id", "chunks")})
       \bullet CreateIndex("embeddings_embedder_idx", "embeddings", {"embedder_name", "embedder_version"})
Downgrade05(tx) ==
    tx \bullet DropIndex("embeddings_embedder_idx", "embeddings") \bullet DropTable("embeddings")

Upgrade06(tx) ==
    DropIngestions(
        tx \bullet AddColumn("documents", "status", "uploaded")
           \bullet AddColumn("documents", "error", Null)
           \bullet AddColumn("documents", "published", FALSE)
           \bullet AddConstraint("documents", Check("documents_status_check", "status", DocumentStatus))
           \bullet CarryOver)
Downgrade06(tx) ==
    CreateIngestions(tx, {IngestionOfDocument})
       \bullet DropConstraint("documents_status_check", "documents")
       \bullet DropColumn("documents", "published")
       \bullet DropColumn("documents", "error")
       \bullet DropColumn("documents", "status")

Upgrade07(tx) == DropUploads(tx)
Downgrade07(tx) == CreateUploads(tx)

ChunkOperators == {"extractor_name", "extractor_version", "chunker_name", "chunker_version"}
ReuseByOperators == Unique("chunks_reuse_key", {"document_id", "chunk_index"} \cup ChunkOperators)
OperatorsIndex == CreateIndex("chunks_operators_idx", "chunks", ChunkOperators)

\* Mutant: what tika@2 extracted is kept as well.
KeepTika(tx) == tx \bullet DeleteExcept("chunks", [extractor_name |-> "tika"])
KeepTika1(tx) == tx \bullet DeleteExcept("chunks", [extractor_name |-> "tika", extractor_version |-> "1"])

Upgrade08(tx) ==
    tx \bullet AddColumn("chunks", "extractor_name", "tika")
       \bullet AddColumn("chunks", "extractor_version", "1")
       \bullet DropConstraint("chunks_reuse_key", "chunks")
       \bullet AddConstraint("chunks", ReuseByOperators)
       \bullet DropIndex("chunks_chunker_idx", "chunks")
       \bullet OperatorsIndex
Downgrade08(tx) ==
    KeepTika1(tx \bullet DropIndex("chunks_operators_idx", "chunks") \bullet ChunkerIndex)
       \bullet DropConstraint("chunks_reuse_key", "chunks")
       \bullet AddConstraint("chunks", ReuseByChunker)
       \bullet DropColumn("chunks", "extractor_version")
       \bullet DropColumn("chunks", "extractor_name")

\* Mutant: the documents stay published.
ForgetChunksOnly(tx) == tx \bullet DeleteAll("chunks")
ForgetChunks(tx) ==
    tx \bullet DeleteAll("chunks")
       \bullet UpdateAll("documents", [published |-> FALSE, status |-> "uploaded", error |-> Null])

\* Mutant: the version of the chunker is left out of the key.
UnversionedKey == {"extraction_id", "chunker_name", "chunk_index"}
KeyOfExtraction == {"extraction_id", "chunker_name", "chunker_version", "chunk_index"}

\* Mutant: the column comes back without its foreign key.
ToDocumentUnchecked(tx) == tx \bullet AddRequired("chunks", "document_id")
ToDocument(tx) ==
    tx \bullet AddRequired("chunks", "document_id") \bullet AddConstraint("chunks", ChunksOfDocument)

Upgrade09(tx) ==
    ForgetChunks(
        tx \bullet CreateTable("extractions",
            {"extraction_id", "document_id", "extractor_name", "extractor_version"},
            {Unique("extractions_pkey", {"extraction_id"}),
             Foreign("extractions_document_id_fkey", "document_id", "documents"),
             Unique("extractions_reuse_key", {"document_id", "extractor_name", "extractor_version"})}))
       \bullet DropIndex("chunks_operators_idx", "chunks")
       \bullet DropConstraint("chunks_reuse_key", "chunks")
       \bullet DropColumn("chunks", "extractor_version")
       \bullet DropColumn("chunks", "extractor_name")
       \bullet DropColumn("chunks", "document_id")
       \bullet AddRequired("chunks", "extraction_id")
       \bullet AddConstraint("chunks", Foreign("chunks_extraction_id_fkey", "extraction_id", "extractions"))
       \bullet AddConstraint("chunks", Unique("chunks_reuse_key", KeyOfExtraction))
       \bullet ChunkerIndex
Downgrade09(tx) ==
    ToDocument(
        tx \bullet DeleteAll("chunks")
           \bullet UpdateAll("documents", [published |-> FALSE])
           \bullet DropIndex("chunks_chunker_idx", "chunks")
           \bullet DropConstraint("chunks_reuse_key", "chunks")
           \bullet DropConstraint("chunks_extraction_id_fkey", "chunks")
           \bullet DropColumn("chunks", "extraction_id"))
       \bullet AddRequired("chunks", "extractor_name")
       \bullet AddRequired("chunks", "extractor_version")
       \bullet AddConstraint("chunks", ReuseByOperators)
       \bullet OperatorsIndex
       \bullet DropTable("extractions")

\* down_revision orders the files into a chain.
Upgrade(tx, r) ==
    CASE r = 1 -> Upgrade01(tx) [] r = 2 -> Upgrade02(tx) [] r = 3 -> Upgrade03(tx)
      [] r = 4 -> Upgrade04(tx) [] r = 5 -> Upgrade05(tx) [] r = 6 -> Upgrade06(tx)
      [] r = 7 -> Upgrade07(tx) [] r = 8 -> Upgrade08(tx) [] r = 9 -> Upgrade09(tx)
Downgrade(tx, r) ==
    CASE r = 1 -> Downgrade01(tx) [] r = 2 -> Downgrade02(tx) [] r = 3 -> Downgrade03(tx)
      [] r = 4 -> Downgrade04(tx) [] r = 5 -> Downgrade05(tx) [] r = 6 -> Downgrade06(tx)
      [] r = 7 -> Downgrade07(tx) [] r = 8 -> Downgrade08(tx) [] r = 9 -> Downgrade09(tx)

\* What a run executes, in one transaction: the upgrades to the revisions above from and
\* up to to, or the downgrade of the one it is at.
Perform(d, from, to) ==
    LET reached[r \in 0..to] == IF r <= from THEN Begin(d) ELSE Upgrade(reached[r - 1], r)
    IN  IF to < from THEN Downgrade(Begin(d), from) ELSE reached[to]

-----------------------------------------------------------------------------
(* Runs of the chain and the writes of the services.                          *)

Idle(m) == migrating[m] = NoRun

\* Mutant: the lock is not taken.
Unlocked == TRUE
LockIsFree == \A i \in Initialiser : Idle(i)

\* ensure_schema: holds the advisory lock until it ends, and only then reads the revision.
EnsureSchema(m) ==
    /\ m \in Initialiser /\ Idle(m)
    /\ LockIsFree
    /\ revision # HeadRevision
    /\ migrating' = [migrating EXCEPT ![m] = [from |-> revision, to |-> HeadRevision]]
    /\ overtaken' = overtaken \ {m}
    /\ UNCHANGED <<db, revision, broken, backing>>

\* `alembic upgrade head` and `alembic downgrade -1`: no lock.
RunAlembic(m) ==
    /\ m \in Cli /\ Idle(m)
    /\ \E to \in {HeadRevision, revision - 1} \cap 0..HeadRevision :
        /\ to # revision
        /\ migrating' = [migrating EXCEPT ![m] = [from |-> revision, to |-> to]]
    /\ UNCHANGED <<db, revision, broken, overtaken, backing>>

\* All statements and the new alembic_version, or none: Alembic fails a run whose
\* old alembic_version is no longer there.
Migrate(m) ==
    /\ ~Idle(m)
    /\ LET run == migrating[m]
           done == Perform(db, run.from, run.to)
       IN  IF revision = run.from /\ done.ok
           THEN /\ db' = done.db
                /\ revision' = run.to
                /\ overtaken' = IF m \in Initialiser
                                THEN overtaken \cup {i \in Initialiser \ {m} : ~Idle(i)} ELSE overtaken
                /\ UNCHANGED broken
           ELSE /\ broken' = (broken \/ revision = run.from)
                /\ UNCHANGED <<db, revision, overtaken>>
    /\ migrating' = [migrating EXCEPT ![m] = NoRun]
    /\ UNCHANGED backing

\* The process dies before it commits: nothing of the run is kept, and the lock is free.
AbortMigration(m) ==
    /\ ~Idle(m)
    /\ migrating' = [migrating EXCEPT ![m] = NoRun]
    /\ UNCHANGED <<db, revision, broken, overtaken, backing>>

\* A service inserts a row, in the columns its table has and as its constraints allow.
InsertRow(t) ==
    /\ \E full \in Arrivals[t] :
        LET r == [c \in db.tables[t].columns |-> full[c]]
            d == [db EXCEPT !.rows[t] = @ \cup {r}]
        IN  /\ \A k \in db.tables[t].constraints : Satisfies(d, t, k, r)
            /\ db' = d
    /\ UNCHANGED <<revision, migrating, broken, overtaken, backing>>

\* The embeddings a query finds of a document that is published: those of its chunks,
\* which hang on its extractions or, up to 08, on itself.
Searchable(doc) ==
    {e \in db.rows["embeddings"] : \E c \in db.rows["chunks"] :
        /\ e.chunk_id = c.chunk_id
        /\ IF "document_id" \in DOMAIN c THEN c.document_id = doc
           ELSE \E x \in db.rows["extractions"] : x.extraction_id = c.extraction_id /\ x.document_id = doc}

Completed == [status |-> "ok", error |-> Null, published |-> TRUE]

\* mark_published: of any document, built or not. A workbook has nothing to search, and
\* another run may have been left with no chunks to embed.
PublishRow ==
    /\ revision >= 6
    /\ \E r \in db.rows["documents"] :
        /\ db' = [db EXCEPT !.rows["documents"] = (@ \ {r}) \cup {With(r, Completed)}]
        /\ backing' = With(backing, [doc \in {r.document_id} |-> Searchable(doc)])
    /\ UNCHANGED <<revision, migrating, broken, overtaken>>

DeleteDocumentRow ==
    /\ revision >= 3
    /\ \E r \in db.rows["documents"] : db' = [db EXCEPT !.rows = Delete(db, "documents", {r})]
    /\ UNCHANGED <<revision, migrating, broken, overtaken, backing>>

\* A database as an older deployment has left it.
MigrationsInit ==
    /\ revision \in 0..(HeadRevision - 1)
    /\ db = Perform(EmptyDb, 0, revision).db
    /\ migrating = [m \in Initialiser \cup Cli |-> NoRun]
    /\ broken = FALSE /\ overtaken = {} /\ backing = Without(<<>>, {})

MigrationsNext ==
    \/ \E m \in DOMAIN migrating :
        EnsureSchema(m) \/ RunAlembic(m) \/ Migrate(m) \/ AbortMigration(m)
    \/ \E t \in DOMAIN db.tables \cap DOMAIN Arrivals : InsertRow(t)
    \/ PublishRow
    \/ DeleteDocumentRow

-----------------------------------------------------------------------------
(* Properties.                                                                *)

SchemaAt == [r \in 0..HeadRevision |-> Perform(EmptyDb, 0, r).db.tables]

\* The tables models.py declares. chunk_embeddings is kept by the chain without a model.
Models ==
  [documents |->
      Shape({"document_id", "content_id", "created_at", "status", "error", "published"},
            {Index("documents_created_idx", {"created_at"})},
            {Unique("documents_pkey", {"document_id"}),
             Check("documents_content_check", "content_id", Sha),
             Check("documents_status_check", "status", DocumentStatus),
             Unique("documents_content_key", {"content_id"})}),
   extractions |->
      Shape({"extraction_id", "document_id", "extractor_name", "extractor_version"}, {},
            {Unique("extractions_pkey", {"extraction_id"}),
             Unique("extractions_reuse_key", {"document_id", "extractor_name", "extractor_version"}),
             Foreign("extractions_document_id_fkey", "document_id", "documents")}),
   chunks |->
      Shape({"chunk_id", "extraction_id", "chunker_name", "chunker_version", "chunk_index"},
            {Index("chunks_chunker_idx", {"chunker_name", "chunker_version"})},
            {Unique("chunks_pkey", {"chunk_id"}),
             Foreign("chunks_extraction_id_fkey", "extraction_id", "extractions"),
             Unique("chunks_reuse_key",
                 {"extraction_id", "chunker_name", "chunker_version", "chunk_index"})}),
   embeddings |->
      Shape({"chunk_id", "embedder_name", "embedder_version"},
            {Index("embeddings_embedder_idx", {"embedder_name", "embedder_version"})},
            {Unique("embeddings_pkey", {"chunk_id", "embedder_name", "embedder_version"}),
             Foreign("embeddings_chunk_id_fkey", "chunk_id", "chunks")})]

\* No revision ever fails on the schema and the rows it finds: whatever was written,
\* upgraded, downgraded and written before, a run that still finds the revision it
\* read goes through (every upgrade and downgrade of store/migrations/versions). A run
\* is one step: rows are written before it and after it, not between its statements.
MigrationsApply == ~broken

\* The schema is a function of the revision: every path of upgrades and downgrades to
\* a revision leaves the tables, indexes and constraints a fresh database gets there.
SchemaFollowsRevision == db.tables = SchemaAt[revision]

\* At the head of the chain the schema is the one models.py declares, with the columns,
\* indexes and constraints of chunk_embeddings, which only the chain knows, set aside.
HeadIsTheModels ==
    revision = HeadRevision => Without(db.tables, {"chunk_embeddings"}) = Models

\* A document stays published because "what the earlier run built is still there to
\* search" (DocumentStore.mark_published). At the head of the chain it is: all a document
\* had to search when it was last marked, at this revision or an earlier one, is there
\* as long as it is published, so a migration that removes chunks takes the mark away.
PublishedStaysSearchable ==
    revision = HeadRevision =>
        \A r \in db.rows["documents"] : r.published =>
            /\ r.document_id \in DOMAIN backing
            /\ backing[r.document_id] \subseteq Searchable(r.document_id)

\* No initialiser works from a revision that another initialiser has moved since: only
\* the command line, which takes no lock, can make one fail (ensure_schema).
InitialisersTakeTurns == overtaken = {}
=============================================================================
