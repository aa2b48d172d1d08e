----------------------------- MODULE MCWorkloads -----------------------------
(* Small instances of the parts that work on data of their own, for TLC: a    *)
(* query (Search), a sparse vector (SparseVectors), a workbook (Workbook),    *)
(* the deletion of flow runs (CleanRuns), the wait of load-test (LoadTest), a *)
(* bundle (Bundles) and the schema (Migrations). They share nothing, so one   *)
(* of them works and the others have no input.                                *)
EXTENDS Search, SparseVectors, Workbook, CleanRuns, LoadTest, Bundles, Migrations

CONSTANTS zero, num     \* Values that are no text, of which Python takes zero for false

\* Two documents; "dense@1" joined the release after the first was embedded.
MCDocumentOf == [c \in {1, 2, 3} |-> IF c = 3 THEN "new" ELSE "old"]
MCReleaseEmbedders == <<"hybrid@1", "dense@1">>
MCIndexings == {[m \in {"hybrid@1", "dense@1"} |-> IF m = "hybrid@1" THEN {1, 2, 3} ELSE S] :
                    S \in {{3}, {1, 2, 3}}}

\* Any two orders of the first embedder; the second's agree or are opposite. Those of an
\* embedder the query does not ask are one like another.
MCOrders ==
    /\ LET order == nearest["dense@1"].dense
       IN  nearest["dense@1"].sparse \in {order, [c \in Chunk |-> 4 - order[c]]}
    /\ \A m \in Embedder \ ToSet(scope) : nearest[m] = [dense |-> <<1, 2, 3>>, sparse |-> <<1, 2, 3>>]

\* Cells: headers that may collide, an empty text, numbers and one beyond BIGINT.
MCSlug == [x \in {"a", "a 1", "", "12", "1.5", "big"} |->
               CASE x = "a" -> <<"a">> [] x = "a 1" -> <<"a", 1>> [] x = "" -> <<"col">>
                 [] x = "12" -> <<"_12">> [] x = "1.5" -> <<"_1", 5>> [] OTHER -> <<"_big">>]

Sheet(rows) == [kind |-> "numbered", named |-> FALSE, rows |-> rows]
Plain == Sheet(<<<<"a", "a 1">>, <<"12", "">>>>)
Chart == [kind |-> "other", named |-> FALSE, rows |-> <<>>]

\* Sheets with any three rows of two cells, and with any header of three cells.
AnyRows == {Sheet(rows) : rows \in BoundedSeq([1..2 -> {None, "a", "12", "1.5", "big"}], 3)}
AnyHeader == {Sheet(<<header, <<"12", None, "a">>>>) :
                  header \in [1..3 -> {None, "a", "a 1", "", "12"}]}

\* Sheets with any three rows of which one column is read as numbers, and sheets of text.
AnyNumbers == {Sheet(rows) : rows \in BoundedSeq({None, zero, num} \X {None, "a"}, 3)}
AnyText == [kind : {"contents", "background"}, named : BOOLEAN,
            rows : {<<<<"a">>, <<None>>>>, <<<<zero>>>>, <<<<zero>>, <<num>>>>}]

\* One of them between a sheet of another name and one that loads, or after one that loads.
MCWorkbooks ==
    {<<Chart, s, Plain>> : s \in AnyRows \cup AnyHeader \cup AnyNumbers}
        \cup {<<Plain, s>> : s \in AnyText}

\* Flow runs whose parents have larger numbers: every forest of them.
MCParents == {f \in [FlowRun -> FlowRun] : \A r \in FlowRun : f[r] >= r}

\* What a run builds of a spreadsheet: a database and a status, or only the status.
MCPlace == [f \in {"a.duckdb", "status.json"} |-> IF f = "a.duckdb" THEN 1 ELSE 2]
Staging(n, names, outcome) == [f \in names |-> IF f = "a.duckdb" THEN n ELSE outcome]
MCStagings ==
    [n \in 1..3 |-> {Staging(n, DOMAIN MCPlace, "ok"), Staging(n, {"status.json"}, "failed")}]

\* One document, ingested at most twice and extracted by two versions of tika.
MCIngestionRows ==
    {[ingestion_id |-> n, document_id |-> "d1", source_sha256 |-> "s1", pipeline_version |-> n,
      status |-> ended[1], outputs |-> ended[2], error |-> Null, updated_at |-> n] :
        n \in {1, 2},
        ended \in {<<"failed", Null>>, <<"embedding", Null>>, <<"completed", Null>>,
                   <<"completed", "needs_intervention">>}}
MCChunkRows ==
    {[chunk_id |-> v, document_id |-> "d1", extraction_id |-> v, extractor_name |-> "tika",
      extractor_version |-> v, chunker_name |-> "chunker", chunker_version |-> "2", chunk_index |-> 0] :
        v \in {"1", "2"}}
MCArrivals ==
    [ingestions |-> MCIngestionRows,
     documents |-> {[document_id |-> "d1", content_id |-> "s1", created_at |-> 1, status |-> "uploaded",
                     error |-> Null, published |-> FALSE]},
     extractions |-> {[extraction_id |-> v, document_id |-> "d1", extractor_name |-> "tika",
                       extractor_version |-> v] : v \in {"1", "2"}},
     chunks |-> MCChunkRows,
     embeddings |-> {[chunk_id |-> v, embedder_name |-> "hybrid", embedder_version |-> "1"] :
                        v \in {"1", "2"}}]

NoQuery ==
    /\ nearest = <<>> /\ indexed = <<>> /\ published = {} /\ limit = 0 /\ scope = <<>>
    /\ named = FALSE /\ results = <<>> /\ seen = <<>> /\ answer = <<<<>>>>
NoVector == raw = <<>> /\ merged = 0 /\ stage = "literal" /\ vector = <<>> /\ literal = <<>>
NoWorkbook ==
    layers = <<>> /\ loaded = 0 /\ tables = <<>> /\ described = <<>> /\ failed = {} /\ verdict = "ok"
    /\ erred = FALSE
NoCleaning ==
    /\ parent = <<>> /\ runs = {} /\ elsewhere = {} /\ flaky = FALSE /\ remaining = {}
    /\ untried = {} /\ refused = {} /\ cleaning = "done"
NoLoad ==
    /\ taskState = [t \in Task |-> "completed"] /\ late = FALSE /\ completed = Task
    /\ unread = {} /\ waiting = "done"
NoBundle ==
    /\ attempt = 0 /\ at = "none" /\ staged = <<>> /\ try = 1 /\ sent = {} /\ stored = <<>>
    /\ manifest = <<>> /\ deletion = "committed" /\ listed = {} /\ lost = {}
    /\ download = NoDownload
NoMigration ==
    /\ db = EmptyDb /\ revision = 0 /\ migrating = <<>> /\ broken = FALSE /\ overtaken = {}
    /\ backing = <<>>

Init ==
    \/ SearchInit /\ MCOrders /\ NoVector /\ NoWorkbook /\ NoCleaning /\ NoLoad /\ NoBundle
        /\ NoMigration
    \/ SparseInit /\ NoQuery /\ NoWorkbook /\ NoCleaning /\ NoLoad /\ NoBundle /\ NoMigration
    \/ WorkbookInit /\ NoQuery /\ NoVector /\ NoCleaning /\ NoLoad /\ NoBundle /\ NoMigration
    \/ CleanInit /\ NoQuery /\ NoVector /\ NoWorkbook /\ NoLoad /\ NoBundle /\ NoMigration
    \/ LoadInit /\ NoQuery /\ NoVector /\ NoWorkbook /\ NoCleaning /\ NoBundle /\ NoMigration
    \/ BundleInit /\ NoQuery /\ NoVector /\ NoWorkbook /\ NoCleaning /\ NoLoad /\ NoMigration
    \/ MigrationsInit /\ NoQuery /\ NoVector /\ NoWorkbook /\ NoCleaning /\ NoLoad /\ NoBundle

storeVars == <<bundleVars, migrationVars>>
toolVars == <<cleanVars, loadVars>>

Next ==
    \/ SearchNext /\ UNCHANGED <<sparseVars, workbookVars, toolVars, storeVars>>
    \/ SparseNext /\ UNCHANGED <<searchVars, workbookVars, toolVars, storeVars>>
    \/ WorkbookNext /\ UNCHANGED <<searchVars, sparseVars, toolVars, storeVars>>
    \/ CleanNext /\ UNCHANGED <<searchVars, sparseVars, workbookVars, loadVars, storeVars>>
    \/ LoadNext /\ UNCHANGED <<searchVars, sparseVars, workbookVars, cleanVars, storeVars>>
    \/ BundleNext /\ UNCHANGED <<searchVars, sparseVars, workbookVars, toolVars, migrationVars>>
    \/ MigrationsNext /\ UNCHANGED <<searchVars, sparseVars, workbookVars, toolVars, bundleVars>>

Spec == Init /\ [][Next]_<<searchVars, sparseVars, workbookVars, toolVars, storeVars>>
=============================================================================
