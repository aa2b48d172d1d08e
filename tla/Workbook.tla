------------------------------ MODULE Workbook ------------------------------
(***************************************************************************)
(* The spreadsheet path (src/ingestion/xlsx.py, xlsx_flow.py): one table   *)
(* of the document's DuckDB file for each numbered sheet, and the outcome  *)
(* that status.json gets.  metadata.json describes each table: of its      *)
(* summary queries the counts are kept; titles, background texts and       *)
(* figures on the values are left out.                                     *)
(*                                                                         *)
(* A cell is None, a value of another type (GDAL reads a column as numbers *)
(* or dates when all of it is), or one of a few texts, of which only this  *)
(* matters: the name slugify makes of it, and what it parses as.  A name   *)
(* is the sequence of what its underscores join: "a_1" is <<"a", 1>>.      *)
(* Calls of DuckDB and GDAL may fail at any time, and erred keeps whether  *)
(* it was such a call that failed the workbook, and not a sheet.           *)
(***************************************************************************)
EXTENDS Integers, SequencesExt

CONSTANTS
    None,       \* an empty cell
    Slug,       \* text -> its name (slugify; an empty text is "col")
    Integral,   \* texts that are an optional sign and digits
    Huge,       \* those of them that BIGINT cannot hold
    Parses,     \* texts that int() or float() accepts
    Typed,      \* values that are no text
    Zeros,      \* those of them that Python takes for false
    Workbooks   \* the workbooks: sequences of sheets

\* A sheet as st_read gives it: the rows, and whether its first row was taken for the
\* names of the fields.
Cell == {None} \cup DOMAIN Slug \cup Typed
SheetKind == {"numbered", "contents", "background", "other"}
SheetType == [kind : SheetKind, named : BOOLEAN, rows : Seq(Seq(Cell))]

\* A name is a sequence, a sheet is rows of cells, and a column is of one type.
ASSUME WorkbookAssumption ==
    /\ Huge \subseteq Integral /\ Integral \subseteq Parses /\ None \notin Parses
    /\ Zeros \subseteq Typed /\ Typed \cap ({None} \cup DOMAIN Slug \cup Parses) = {}
    /\ \A x \in DOMAIN Slug :
           Len(Slug[x]) \in Nat /\ Slug[x] = [i \in 1..Len(Slug[x]) |-> Slug[x][i]]
    /\ \A b \in Workbooks : b \in Seq(SheetType)
    /\ \A b \in Workbooks : \A i \in DOMAIN b : \A p, q \in ToSet(b[i].rows) :
           \A c \in DOMAIN p \cap DOMAIN q : p[c] \in Typed => q[c] \in Typed \cup {None}

VARIABLES
    layers,    \* the workbook's sheets
    loaded,    \* how many of them have been looked at
    tables,    \* sheet -> its table: [columns, types, comments, rows]
    described, \* the tables as metadata.json describes them
    failed,    \* numbered sheets that gave no table
    verdict,   \* "opening", "loading", "described", "ok", "needs_intervention" or "failed"
    erred      \* history: a call failed, whatever the sheets are like

workbookVars == <<layers, loaded, tables, described, failed, verdict, erred>>

-----------------------------------------------------------------------------
(* One sheet.                                                              *)

Filled(row) == {c \in DOMAIN row : row[c] # None}
Least(S) == CHOOSE i \in S : \A j \in S : i <= j

\* Rows that may be the header: at least two cells are filled.
HeaderRows(rows) == {i \in DOMAIN rows : Cardinality(Filled(rows[i])) >= 2}
HeaderRow(rows) == rows[Least(HeaderRows(rows))]

\* The header ends at its first empty cell.
Width(header) == Least({c \in 1..(Len(header) + 1) : c > Len(header) \/ header[c] = None}) - 1

\* What Python takes for true: an empty text or a zero is no name and no comment.
Worded(h) == h \notin {""} \cup Zeros
Base(h) == IF Worded(h) THEN Slug[h] ELSE <<"col">>

\* Mutant: names are used as they come.
PlainNames(header) == [c \in 1..Width(header) |-> Base(header[c])]

\* A name that was seen n times before gets the suffix n.
ColumnNames(header) ==
    [c \in 1..Width(header) |->
        LET before == {b \in 1..(c - 1) : Base(header[b]) = Base(header[c])}
        IN  IF before = {} THEN Base(header[c])
            ELSE Append(Base(header[c]), Cardinality(before))]

\* The rows below the header, cut to its width, up to the first empty one.
DataRows(rows) ==
    LET first == Least(HeaderRows(rows)) + 1
        width == Width(HeaderRow(rows))
        cut == [i \in 1..(Len(rows) - first + 1) |-> SubSeq(rows[first + i - 1], 1, width)]
        end == Least({i \in 1..(Len(cut) + 1) : i > Len(cut) \/ Filled(cut[i]) = {}})
    IN  SubSeq(cut, 1, end - 1)

\* Mutant: one number makes a column numeric.
LooseType(data, c) ==
    LET values == {data[i][c] : i \in DOMAIN data} \ {None}
    IN  IF values = {} THEN "VARCHAR"
        ELSE IF values \subseteq Integral THEN "BIGINT"
        ELSE IF values \cap Parses # {} THEN "DOUBLE" ELSE "VARCHAR"

\* infer_column_types.
ColumnType(data, c) ==
    LET values == {data[i][c] : i \in DOMAIN data} \ {None}
    IN  IF values = {} THEN "VARCHAR"
        ELSE IF values \subseteq Integral THEN "BIGINT"
        ELSE IF values \subseteq Parses THEN "DOUBLE" ELSE "VARCHAR"

\* try_parse_number for a numeric column: NULL for what does not parse.
Cast(value, type) == IF type # "VARCHAR" /\ value \notin Parses THEN None ELSE value

\* Mutant: the texts of the headers that have one go to the first columns.
CommentsInARow(header, columns) ==
    LET texts == SelectSeq(SubSeq(header, 1, Len(columns)), Worded)
    IN  [n \in {columns[c] : c \in DOMAIN texts} |->
            texts[CHOOSE c \in DOMAIN texts : columns[c] = n]]

\* COMMENT ON COLUMN: the text of the header, under the name of its column.
Comments(header, columns) ==
    LET worded == {c \in DOMAIN columns : Worded(header[c])}
    IN  [n \in {columns[c] : c \in worded} |-> header[CHOOSE c \in worded : columns[c] = n]]

Table(rows) ==
    LET header == HeaderRow(rows)
        data == DataRows(rows)
        types == [c \in 1..Width(header) |-> ColumnType(data, c)]
    IN  [columns |-> ColumnNames(header), types |-> types,
         comments |-> Comments(header, ColumnNames(header)),
         rows |-> [i \in DOMAIN data |-> [c \in DOMAIN types |-> Cast(data[i][c], types[c])]]]

\* ingest_sheet returns False: no header, one of fewer than two columns, or no rows.
NoTable(rows) ==
    HeaderRows(rows) # {} => Width(HeaderRow(rows)) < 2 \/ DataRows(rows) = <<>>

\* slugify takes texts only, and so does strip() in infer_column_types.
OddHeader(rows) ==
    /\ HeaderRows(rows) # {} /\ Width(HeaderRow(rows)) >= 2
    /\ \E c \in 1..Width(HeaderRow(rows)) : HeaderRow(rows)[c] \in Typed \ Zeros
OddData(rows) == \E i \in DOMAIN DataRows(rows) : ToSet(DataRows(rows)[i]) \cap Typed # {}
Tabular(rows) == ~OddHeader(rows) /\ ~NoTable(rows) /\ ~OddData(rows)

\* What DuckDB refuses: a table with two columns of one name, and a value that its
\* column cannot hold; as a DOUBLE it may take an integer beyond BIGINT, or not.
Beyond(table, type) ==
    \E i \in DOMAIN table.rows, c \in DOMAIN table.types :
        table.types[c] = type /\ table.rows[i][c] \in Huge
Refused(table) == ~IsInjective(table.columns) \/ Beyond(table, "BIGINT")
MayBeRefused(table) == Refused(table) \/ Beyond(table, "DOUBLE")

\* read_sheet_text and parse_contents_titles read a Field1, of texts.
OddText(rows) == \E i \in DOMAIN rows : rows[i] # <<>> /\ rows[i][1] \in Typed \ Zeros
IsText(sheet) == sheet.kind \in {"contents", "background"}
Readable(sheet) == ~sheet.named /\ ~OddText(sheet.rows)

\* Sheets that may raise an exception by what is in them.
MayRaise(sheet) ==
    \/ IsText(sheet) /\ ~Readable(sheet)
    \/ /\ sheet.kind = "numbered"
       /\ \/ OddHeader(sheet.rows)
          \/ ~OddHeader(sheet.rows) /\ ~NoTable(sheet.rows) /\ OddData(sheet.rows)
          \/ Tabular(sheet.rows) /\ MayBeRefused(Table(sheet.rows))

\* compute_column_stats and compute_table_metadata, which have only the table to go by.
ColumnStats(table, c) ==
    LET name == table.columns[c]
    IN  [name |-> name, type |-> table.types[c],
         original_name |-> IF name \in DOMAIN table.comments THEN table.comments[name] ELSE None,
         null_count |-> Cardinality({r \in DOMAIN table.rows : table.rows[r][c] = None})]

TableMetadata(table) ==
    [row_count |-> Len(table.rows),
     columns |-> [c \in DOMAIN table.columns |-> ColumnStats(table, c)]]

-----------------------------------------------------------------------------
(* The workbook.                                                           *)

WorkbookInit ==
    /\ layers \in Workbooks
    /\ loaded = 0 /\ tables = <<>> /\ described = <<>> /\ failed = {} /\ verdict = "opening"
    /\ erred = FALSE

\* An exception ends the path: xlsx_ingest_flow catches it.
CallFails == verdict' = "failed" /\ erred' = TRUE

\* load_workbook before its loop: the extension, the layers and the titles. A Contents
\* sheet that DuckDB cannot read gives no titles.
OpenWorkbook ==
    /\ verdict = "opening"
    /\ \/ verdict' = "loading" /\ UNCHANGED erred
       \/ /\ \E i \in DOMAIN layers :
                layers[i].kind = "contents" /\ ~layers[i].named /\ OddText(layers[i].rows)
          /\ verdict' = "failed" /\ UNCHANGED erred
       \/ CallFails
    /\ UNCHANGED <<layers, loaded, tables, described, failed>>

\* One turn of load_workbook's loop: a sheet of another name is passed over, one of text
\* is read, and one with a number is to give a table (ingest_sheet).
LoadSheet ==
    LET i == loaded + 1
        sheet == layers[i]
    IN  /\ verdict = "loading" /\ loaded < Len(layers)
        /\ loaded' = i
        /\ \/ /\ sheet.kind = "other" \/ (IsText(sheet) /\ Readable(sheet))
              /\ UNCHANGED <<tables, failed, verdict, erred>>
           \/ /\ sheet.kind = "numbered" /\ ~OddHeader(sheet.rows) /\ NoTable(sheet.rows)
              /\ failed' = failed \cup {i}
              /\ UNCHANGED <<tables, verdict, erred>>
           \/ /\ sheet.kind = "numbered" /\ Tabular(sheet.rows) /\ ~Refused(Table(sheet.rows))
              /\ tables' = Append(tables, [sheet |-> i, table |-> Table(sheet.rows)])
              /\ UNCHANGED <<failed, verdict, erred>>
           \/ /\ MayRaise(sheet)
              /\ verdict' = "failed"
              /\ UNCHANGED <<tables, failed, erred>>
           \/ /\ sheet.kind # "other" /\ CallFails
              /\ UNCHANGED <<tables, failed>>
        /\ UNCHANGED <<layers, described>>

\* extract_metadata, once every sheet was looked at.
DescribeTables ==
    /\ verdict = "loading" /\ loaded = Len(layers)
    /\ \/ /\ described' = [t \in DOMAIN tables |-> TableMetadata(tables[t].table)]
          /\ verdict' = "described"
          /\ UNCHANGED erred
       \/ CallFails /\ UNCHANGED described
    /\ UNCHANGED <<layers, loaded, tables, failed>>

\* xlsx_ingest_flow writes the status.
WriteStatus ==
    /\ verdict = "described"
    /\ verdict' = IF tables = <<>> \/ failed # {} THEN "needs_intervention" ELSE "ok"
    /\ UNCHANGED <<layers, loaded, tables, described, failed, erred>>

WorkbookNext ==
    \/ OpenWorkbook \/ LoadSheet \/ DescribeTables \/ WriteStatus
    \/ verdict \notin {"opening", "loading", "described"} /\ UNCHANGED workbookVars

-----------------------------------------------------------------------------
(* Properties.                                                             *)

\* A workbook that is "ok" can be queried for its data: every numbered sheet is a
\* table, with each row down to the first empty one, and no filled cell under the
\* header has become NULL on the way through type inference and parsing.
OkKeepsTheData ==
    verdict = "ok" =>
        \A i \in DOMAIN layers : layers[i].kind = "numbered" =>
            \E t \in DOMAIN tables :
                LET table == tables[t].table
                    data == DataRows(layers[i].rows)
                IN  /\ tables[t].sheet = i
                    /\ Len(table.rows) = Len(data)
                    /\ \A r \in DOMAIN data, c \in DOMAIN table.columns :
                           data[r][c] # None => table.rows[r][c] # None

\* metadata.json, from which a model writes its SQL, tells the truth about the sheets:
\* each column goes with the text of its own header and counts the empty cells below
\* that, although its name was made from the text and its values were parsed anew.
MetadataIsTrue ==
    \A t \in DOMAIN described :
        LET rows == layers[tables[t].sheet].rows
            header == HeaderRow(rows)
            data == DataRows(rows)
            told == described[t]
        IN  /\ told.row_count = Len(data)
            /\ \A c \in DOMAIN told.columns :
                   /\ told.columns[c].original_name = IF Worded(header[c]) THEN header[c] ELSE None
                   /\ told.columns[c].null_count = Cardinality({r \in DOMAIN data : data[r][c] = None})

\* Repeated headers are no reason to fail. Unless a call of DuckDB or GDAL fails for a
\* reason of its own, the whole workbook fails only for the sheet that was looked at last
\* (or for Contents, which is read before): for a numbered one with a header that spells
\* the name another one gets by its suffix ("a", "a", "a 1"), with an integer beyond
\* BIGINT, or with a header or a value that is no text; and for one of text with no Field1
\* or with one that is no text. Cells beside or below the table never fail it.
FailsOnlyFor ==
    verdict = "failed" /\ ~erred =>
        \E s \in DOMAIN layers : (s = loaded \/ layers[s].kind = "contents") /\
            LET rows == layers[s].rows
                header == HeaderRow(rows)
                names == {Base(header[c]) : c \in 1..Width(header)}
            IN  \/ IsText(layers[s]) /\ ~Readable(layers[s])
                \/ /\ layers[s].kind = "numbered" /\ HeaderRows(rows) # {}
                   /\ \/ \E c \in 1..Width(header) : header[c] \in Typed
                      \/ \E i \in DOMAIN DataRows(rows) :
                             ToSet(DataRows(rows)[i]) \cap (Huge \cup Typed) # {}
                      \/ \E n \in names, k \in 1..Width(header) : Append(n, k) \in names
=============================================================================
