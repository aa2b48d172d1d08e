--------------------------- MODULE WorkloadsProofs ---------------------------
(***************************************************************************)
(* Proofs about the parts that work on data of their own, for data of any  *)
(* size: the deletion of flow runs (CleanRuns), the wait of load-test      *)
(* (LoadTest) and the tables made of a workbook (Workbook).                 *)
(***************************************************************************)
EXTENDS Workbook, CleanRuns, LoadTest, TLAPS, WellFoundedInduction,
        FiniteSetTheorems, SequenceTheorems

-----------------------------------------------------------------------------
(* clean-runs.                                                             *)

CleanSpec == CleanInit /\ [][CleanNext]_cleanVars

\* What is left is what the pass has not tried or could not delete.
LeftIsOnTheList == cleaning = "deleting" => runs \subseteq untried \cup refused

\* As long as nobody interferes, what a pass has yet to try, what it could not delete
\* and what is left are the same runs; and in a pass that has deleted nothing so far
\* each refusal had a reason that still holds.
PassesAreExact ==
    cleaning = "deleting" /\ ~flaky /\ elsewhere = {} =>
        /\ runs = untried \cup refused /\ untried \cap refused = {}
        /\ runs \subseteq remaining /\ remaining \subseteq FlowRun /\ remaining # {}
        /\ runs = remaining => \A r \in refused : \E s \in runs \ {r} : parent[s] = r

CleanInv ==
    /\ parent \in Parents /\ flaky \in BOOLEAN
    /\ LeftIsOnTheList /\ PassesAreExact /\ ClearsWhatItCan

\* Before the first pass nothing is on a list.
LEMMA CleanInitially == CleanInit => CleanInv
  BY DEF CleanInit, CleanInv, LeftIsOnTheList, PassesAreExact, ClearsWhatItCan

\* The heart of it: a pass that deleted nothing was refused every run that is left, each
\* for another one that is left, and no forest is like that.
LEMMA PassesClear ==
  ASSUME CleanInv, EndPass
  PROVE  CleanInv'
<1> USE DEF EndPass
<1>1. parent' \in Parents /\ flaky' \in BOOLEAN /\ LeftIsOnTheList'
  BY DEF CleanInv, LeftIsOnTheList
<1>2. PassesAreExact'
  BY DEF CleanInv, PassesAreExact
<1>3. cleaning' = "done" => runs' = {}
  BY DEF CleanInv, LeftIsOnTheList
<1>4. cleaning' = "stopped" => flaky' \/ elsewhere' # {}
  <2> SUFFICES ASSUME cleaning' = "stopped", ~flaky, elsewhere = {}
               PROVE  FALSE
    OBVIOUS
  <2>1. refused = remaining
    OBVIOUS
  <2>2. runs = remaining /\ runs \in SUBSET FlowRun /\ runs # {}
    BY <2>1 DEF CleanInv, PassesAreExact
  <2>3. \A r \in runs : \E s \in runs \ {r} : parent[s] = r
    BY <2>1, <2>2 DEF CleanInv, PassesAreExact
  <2>4. \E r \in runs : \A s \in runs \ {r} : parent[s] # r
    BY <2>2, CleanRunsAssumption DEF CleanInv
  <2>5. QED
    BY <2>3, <2>4
<1>5. QED
  BY <1>1, <1>2, <1>3, <1>4 DEF CleanInv, ClearsWhatItCan

\* Within a pass a run leaves the list deleted or refused.
LEMMA CleanKept == CleanInv /\ [CleanNext]_cleanVars => CleanInv'
<1> SUFFICES ASSUME CleanInv, [CleanNext]_cleanVars PROVE CleanInv'
  OBVIOUS
<1> USE DEF CleanInv, LeftIsOnTheList, PassesAreExact, ClearsWhatItCan
<1>1. CASE DeleteRun
  <2>1. PICK r \in untried :
            /\ untried' = untried \ {r}
            /\ \/ Deletable(r) /\ runs' = runs \ {r} /\ UNCHANGED <<refused, flaky>>
               \/ /\ refused' = refused \cup {r}
                  /\ flaky' = (flaky \/ Deletable(r))
                  /\ UNCHANGED runs
    BY <1>1 DEF DeleteRun
  <2>2. cleaning = "deleting" /\ UNCHANGED <<parent, elsewhere, remaining, cleaning>>
    BY <1>1 DEF DeleteRun
  <2>3. CASE Deletable(r) /\ runs' = runs \ {r} /\ UNCHANGED <<refused, flaky>>
    BY <2>1, <2>2, <2>3
  <2>4. CASE refused' = refused \cup {r} /\ flaky' = (flaky \/ Deletable(r)) /\ UNCHANGED runs
    <3>1. parent' = parent /\ elsewhere' = elsewhere /\ remaining' = remaining /\ runs' = runs
          /\ cleaning' = "deleting" /\ (flaky' \in BOOLEAN) /\ (~flaky' => ~flaky /\ ~Deletable(r))
      BY <2>1, <2>2, <2>4
    <3>2. (untried' \cup refused' = untried \cup refused)
          /\ (untried \cap refused = {} => untried' \cap refused' = {})
      BY <2>1, <2>4
    <3>3. ASSUME ~flaky, elsewhere = {}, ~Deletable(r), runs = remaining, NEW q \in refused'
          PROVE  \E s \in runs \ {q} : parent[s] = q
      <4>1. r \in runs
        BY <2>1, <2>2, <3>3
      <4>2. CASE q = r
        BY <4>1, <4>2, <3>3 DEF Deletable
      <4>3. CASE q # r
        BY <4>3, <2>2, <2>4, <3>3
      <4>4. QED
        BY <4>2, <4>3
    <3>4. LeftIsOnTheList'
      BY <2>2, <3>1, <3>2
    <3>5. PassesAreExact'
      <4>1. SUFFICES ASSUME ~flaky', elsewhere' = {}
                     PROVE  PassesAreExact!2'
        OBVIOUS
      <4>2. ~flaky /\ elsewhere = {} /\ ~Deletable(r)
        BY <3>1, <4>1
      <4>3. runs' = untried' \cup refused' /\ untried' \cap refused' = {}
        BY <2>2, <3>1, <3>2, <4>2
      <4>4. runs' = remaining' => \A q \in refused' : \E s \in runs' \ {q} : parent'[s] = q
        BY <3>1, <3>3, <4>2
      <4>5. QED
        BY <2>2, <3>1, <4>2, <4>3, <4>4
    <3>6. QED
      BY <3>1, <3>4, <3>5
  <2>5. QED
    BY <2>1, <2>3, <2>4
<1>2. CASE EndPass
  BY <1>2, PassesClear
<1>3. CASE DeletedElsewhere
  BY <1>3 DEF DeletedElsewhere
<1>4. CASE UNCHANGED cleanVars
  BY <1>4 DEF cleanVars
<1>5. QED
  BY <1>1, <1>2, <1>3, <1>4 DEF CleanNext

\* "each pass clears whatever it can and retries the rest until nothing more can be
\* removed" (src/clean_runs.py:6), for any runs, nested in any way, and any order of tries.
THEOREM CleaningClearsAll == CleanSpec => []ClearsWhatItCan
<1>1. CleanInv => ClearsWhatItCan
  BY DEF CleanInv
<1>2. QED
  BY <1>1, CleanInitially, CleanKept, PTL DEF CleanSpec

-----------------------------------------------------------------------------
(* load-test.                                                              *)

LoadSpec == LoadInit /\ [][LoadNext]_loadVars

\* What it has counted had ended without failing, and what it reads it has not counted.
CountedHaveEnded ==
    /\ completed \subseteq Task /\ unread \subseteq Task
    /\ \A t \in completed : taskState[t] \in Final \ {"failed"}

\* The wait ended for the reason it gives.
LoadInv ==
    /\ taskState \in [Task -> Final \cup {"running"}]
    /\ late \in BOOLEAN
    /\ CountedHaveEnded
    /\ waiting = "done" => completed = Task
    /\ waiting = "failed" => \E t \in Task : taskState[t] = "failed"
    /\ waiting = "timed out" => late

\* Nothing is counted at first.
LEMMA LoadInitially == LoadInit => LoadInv
  BY DEF LoadInit, LoadInv, CountedHaveEnded

\* A task is counted only after it ended.
LEMMA LoadKept == LoadInv /\ [LoadNext]_loadVars => LoadInv'
<1> SUFFICES ASSUME LoadInv, [LoadNext]_loadVars PROVE LoadInv'
  OBVIOUS
<1> USE DEF LoadInv, CountedHaveEnded, Final
<1>1. CASE TaskEnds
  BY <1>1 DEF TaskEnds
<1>2. CASE DeadlinePasses
  BY <1>2 DEF DeadlinePasses
<1>3. CASE ReadTaskRun
  BY <1>3 DEF ReadTaskRun
<1>4. CASE EndPoll
  BY <1>4 DEF EndPoll
<1>5. CASE UNCHANGED loadVars
  BY <1>5 DEF loadVars
<1>6. QED
  BY <1>1, <1>2, <1>3, <1>4, <1>5 DEF LoadNext

\* wait_for_completions returns only when every run has ended and none has failed, and
\* raises for a run that failed or a deadline that passed, for any number of runs.
THEOREM WaitsForAll == LoadSpec => []ReturnsWhenAllEnded
<1>1. LoadInv => ReturnsWhenAllEnded
  BY DEF LoadInv, CountedHaveEnded, ReturnsWhenAllEnded
<1>2. QED
  BY <1>1, LoadInitially, LoadKept, PTL DEF LoadSpec
-----------------------------------------------------------------------------
(* Workbooks.                                                              *)

WorkbookSpec == WorkbookInit /\ [][WorkbookNext]_workbookVars

\* Any set of numbers has a least one, so Least returns it.
LEMMA LeastIsLeast ==
  ASSUME NEW T, T \subseteq Nat, T # {}
  PROVE  Least(T) \in T /\ \A j \in T : Least(T) <= j
<1> DEFINE R == {p \in Nat \X Nat : p[1] < p[2]}
<1>1. IsWellFoundedOn(R, Nat)
  BY NatLessThanWellFounded, Zenon DEF OpToRel
<1>2. \A i, j \in Nat : <<j, i>> \in R <=> j < i
  OBVIOUS
<1> HIDE DEF R
<1>3. PICK i \in T : \A j \in T : ~ (<<j, i>> \in R)
  BY <1>1, WFMin
<1>4. \A j \in T : ~ (j < i)
  BY <1>2, <1>3, Zenon
<1>5. \A j \in T : i <= j
  BY <1>4
<1>6. QED
  BY <1>5 DEF Least

\* The header of a sheet is one of its rows, wide as its filled cells at the front.
LEMMA HeaderIsARow ==
  ASSUME NEW rows \in Seq(Seq(Cell)), HeaderRows(rows) # {}
  PROVE  /\ Least(HeaderRows(rows)) \in DOMAIN rows
         /\ HeaderRow(rows) \in Seq(Cell)
<1>1. HeaderRows(rows) \subseteq DOMAIN rows /\ DOMAIN rows \subseteq Nat
  BY DEF HeaderRows
<1>2. Least(HeaderRows(rows)) \in HeaderRows(rows)
  BY <1>1, LeastIsLeast
<1>3. QED
  BY <1>1, <1>2 DEF HeaderRow

\* A header is as wide as it has filled cells at its front.
LEMMA WidthIsFilled ==
  ASSUME NEW header \in Seq(Cell)
  PROVE  /\ Width(header) \in 0..Len(header)
         /\ \A c \in 1..Width(header) : header[c] \in Cell \ {None}
<1> DEFINE Ends == {c \in 1..(Len(header) + 1) : c > Len(header) \/ header[c] = None}
<1>1. Len(header) \in Nat /\ Len(header) + 1 \in Ends /\ Ends \subseteq Nat
  OBVIOUS
<1>2. Least(Ends) \in Ends /\ \A j \in Ends : Least(Ends) <= j
  BY <1>1, LeastIsLeast
<1>3. Width(header) = Least(Ends) - 1
  BY DEF Width
<1> HIDE DEF Ends
<1>4. Width(header) \in 0..Len(header)
  BY <1>1, <1>2, <1>3 DEF Ends
<1>5. ASSUME NEW c \in 1..Width(header)
      PROVE  header[c] \in Cell \ {None}
  <2>1. c \in 1..Len(header) /\ c < Least(Ends)
    BY <1>1, <1>2, <1>3, <1>4 DEF Ends
  <2>2. c \notin Ends
    <3> SUFFICES ASSUME c \in Ends PROVE FALSE
      OBVIOUS
    <3>1. Least(Ends) <= c
      BY <1>2, Zenon
    <3>2. Least(Ends) \in Nat
      BY <1>1, <1>2
    <3>3. QED
      BY <2>1, <3>1, <3>2
  <2>3. header[c] # None /\ header[c] \in Cell
    BY <2>1, <2>2 DEF Ends
  <2>4. QED
    BY <2>3
<1>6. QED
  BY <1>4, <1>5

\* The data are a sequence of rows that are as wide as the header.
LEMMA DataAreRows ==
  ASSUME NEW rows \in Seq(Seq(Cell)), HeaderRows(rows) # {}
  PROVE  /\ Len(DataRows(rows)) \in Nat /\ DOMAIN DataRows(rows) = 1..Len(DataRows(rows))
         /\ \A i \in DOMAIN DataRows(rows) :
                DOMAIN DataRows(rows)[i] = 1..Width(HeaderRow(rows))
<1> DEFINE first == Least(HeaderRows(rows)) + 1
           width == Width(HeaderRow(rows))
           height == Len(rows) - first + 1
           cut == [i \in 1..height |-> SubSeq(rows[first + i - 1], 1, width)]
           Ends == {i \in 1..(Len(cut) + 1) : i > Len(cut) \/ Filled(cut[i]) = {}}
           end == Least(Ends)
<1>1. height \in Nat
  BY HeaderIsARow
<1>2. width \in Nat
  BY HeaderIsARow, WidthIsFilled
<1> HIDE DEF first, width, height
<1>3. Len(cut) = height /\ DOMAIN cut = 1..height
  BY <1>1
<1>4. \A i \in 1..height : DOMAIN cut[i] = 1..width
  BY <1>1, <1>2
<1> HIDE DEF cut
<1>5. end \in Ends
  <2>1. height + 1 \in Ends /\ Ends \subseteq Nat
    BY <1>1, <1>3
  <2>2. QED
    BY <2>1, LeastIsLeast
<1>6. end \in 1..(height + 1)
  BY <1>3, <1>5
<1>7. DataRows(rows) = SubSeq(cut, 1, end - 1)
  BY DEF DataRows, cut, first, width, height
<1> HIDE DEF end
<1>8. DataRows(rows) = [i \in 1..(end - 1) |-> cut[i]]
  BY <1>6, <1>7
<1>9. QED
  BY <1>1, <1>4, <1>6, <1>8 DEF width

\* Type inference and parsing lose nothing: a column becomes numeric only when each of
\* its values parses.
LEMMA ParsingKeepsTheValue ==
  ASSUME NEW data, NEW c, NEW i \in DOMAIN data
  PROVE  Cast(data[i][c], ColumnType(data, c)) = data[i][c]
<1> DEFINE values == {data[j][c] : j \in DOMAIN data} \ {None}
<1>1. ColumnType(data, c) # "VARCHAR" => values \subseteq Parses
  BY WorkbookAssumption DEF ColumnType
<1>2. data[i][c] # None => data[i][c] \in values
  OBVIOUS
<1>3. QED
  BY <1>1, <1>2 DEF Cast

\* So the rows of a table are those of the sheet.
LEMMA TableHasTheData ==
  ASSUME NEW rows \in Seq(Seq(Cell)), ~NoTable(rows)
  PROVE  LET table == Table(rows)  header == HeaderRow(rows)  data == DataRows(rows)
         IN  /\ HeaderRows(rows) # {} /\ Width(header) \in Nat
             /\ table.columns = ColumnNames(header) /\ DOMAIN table.columns = 1..Width(header)
             /\ DOMAIN table.types = 1..Width(header)
             /\ table.comments = Comments(header, table.columns)
             /\ Len(data) \in Nat /\ DOMAIN data = 1..Len(data) /\ DOMAIN table.rows = DOMAIN data
             /\ Len(table.rows) = Len(data)
             /\ \A i \in DOMAIN data, c \in 1..Width(header) : table.rows[i][c] = data[i][c]
<1> DEFINE header == HeaderRow(rows)
           data == DataRows(rows)
           types == [c \in 1..Width(header) |-> ColumnType(data, c)]
           cast == [i \in DOMAIN data |-> [c \in DOMAIN types |-> Cast(data[i][c], types[c])]]
<1>1. HeaderRows(rows) # {}
  BY DEF NoTable
<1>2. Width(header) \in Nat /\ Len(data) \in Nat /\ DOMAIN data = 1..Len(data)
  BY <1>1, HeaderIsARow, WidthIsFilled, DataAreRows
<1>3. Table(rows) = [columns |-> ColumnNames(header), types |-> types,
                     comments |-> Comments(header, ColumnNames(header)), rows |-> cast]
  BY DEF Table
<1> HIDE DEF header, data
<1>4. DOMAIN ColumnNames(header) = 1..Width(header)
  BY DEF ColumnNames
<1>5. DOMAIN cast = 1..Len(data) /\ Len(cast) = Len(data)
  BY <1>2
<1>6. ASSUME NEW i \in DOMAIN data, NEW c \in 1..Width(header)
      PROVE  cast[i][c] = data[i][c]
  BY ParsingKeepsTheValue
<1>7. QED
  BY <1>1, <1>2, <1>3, <1>4, <1>5, <1>6 DEF header, data

\* Names with suffixes are the same only if both the names and the suffixes are.
LEMMA SuffixesTell ==
  ASSUME NEW s, NEW t, NEW k, NEW l, Len(s) \in Nat, Len(t) \in Nat,
         s = [i \in 1..Len(s) |-> s[i]], t = [i \in 1..Len(t) |-> t[i]],
         Append(s, k) = Append(t, l)
  PROVE  s = t /\ k = l
<1> DEFINE S == {s[i] : i \in 1..Len(s)} \cup {t[i] : i \in 1..Len(t)} \cup {k, l}
<1>1. s \in Seq(S) /\ t \in Seq(S) /\ k \in S /\ l \in S
  OBVIOUS
<1> HIDE DEF S
<1>2. Len(s) = Len(t) /\ k = l
  <2>1. Len(Append(s, k)) = Len(s) + 1 /\ Len(Append(t, l)) = Len(t) + 1
    BY <1>1
  <2>2. Len(s) = Len(t)
    <3>1. Len(Append(s, k)) = Len(Append(t, l))
      BY Zenon
    <3>2. QED
      BY ONLY <2>1, <3>1, Len(s) \in Nat, Len(t) \in Nat
  <2>3. Append(s, k)[Len(s) + 1] = k /\ Append(t, l)[Len(t) + 1] = l
    BY <1>1
  <2>4. QED
    BY <2>2, <2>3
<1>3. \A i \in 1..Len(s) : s[i] = t[i]
  <2>1. \A i \in 1..Len(s) : Append(s, k)[i] = s[i] /\ Append(t, l)[i] = t[i]
    BY <1>1, <1>2
  <2>2. QED
    BY <2>1
<1>4. QED
  BY <1>2, <1>3

\* A header that slugify takes, or that needs no slugify, gives a name.
LEMMA BaseIsAName ==
  ASSUME NEW h \in Cell \ {None}, h \notin Typed \ Zeros
  PROVE  Len(Base(h)) \in Nat /\ Base(h) = [i \in 1..Len(Base(h)) |-> Base(h)[i]]
<1>1. CASE Worded(h)
  <2>1. h \in DOMAIN Slug
    BY <1>1 DEF Worded, Cell
  <2>2. Base(h) = Slug[h]
    BY <1>1 DEF Base
  <2>3. QED
    BY <2>1, <2>2, WorkbookAssumption
<1>2. CASE ~Worded(h)
  <2>1. Base(h) = <<"col">>
    BY <1>2 DEF Base
  <2>2. QED
    BY <2>1
<1>3. QED
  BY <1>1, <1>2

\* Two columns have one name only if a header spells out another one with its suffix.
LEMMA NamesCollide ==
  ASSUME NEW header \in Seq(Cell), ~IsInjective(ColumnNames(header)),
         \A c \in 1..Width(header) : header[c] \notin Typed \ Zeros
  PROVE  LET names == {Base(header[c]) : c \in 1..Width(header)}
         IN  \E n \in names, k \in 1..Width(header) : Append(n, k) \in names
<1> DEFINE Name(c) == Base(header[c])
           Before(c) == {b \in 1..(c - 1) : Name(b) = Name(c)}
           Column(c) == IF Before(c) = {} THEN Name(c) ELSE Append(Name(c), Cardinality(Before(c)))
           width == Width(header)
<1>1. width \in Nat /\ \A c \in 1..width : header[c] \in Cell \ {None}
  BY WidthIsFilled
<1>2. ColumnNames(header) = [c \in 1..width |-> Column(c)]
  BY DEF ColumnNames
<1> HIDE DEF Column, width
<1>3. PICK c, d \in 1..width : c < d /\ Column(c) = Column(d)
  <2>1. PICK c, d \in 1..width : c # d /\ Column(c) = Column(d)
    BY <1>2 DEF IsInjective
  <2>2. CASE c < d
    BY <2>1, <2>2
  <2>3. CASE d < c
    BY <2>1, <2>3
  <2>4. QED
    BY <1>1, <2>1, <2>2, <2>3
<1>4. ASSUME NEW e \in 1..width
      PROVE  /\ IsFiniteSet(Before(e)) /\ Cardinality(Before(e)) \in 0..width
             /\ Before(e) # {} => Cardinality(Before(e)) \in 1..width
  <2>1. Before(e) \subseteq 1..(e - 1) /\ e - 1 \in Nat
    BY <1>1
  <2>2. IsFiniteSet(1..(e - 1)) /\ Cardinality(1..(e - 1)) = e - 1
    BY <2>1, FS_Interval
  <2>3. IsFiniteSet(Before(e)) /\ Cardinality(Before(e)) <= e - 1 /\ Cardinality(Before(e)) \in Nat
    BY <2>1, <2>2, FS_Subset, FS_CardinalityType
  <2>4. Before(e) # {} => Cardinality(Before(e)) # 0
    BY <2>3, FS_EmptySet
  <2>5. QED
    BY <1>1, <2>1, <2>3, <2>4
<1>5. CASE Before(c) = {} /\ Before(d) = {}
  <2>1. Name(c) = Name(d)
    BY <1>3, <1>5 DEF Column
  <2>2. c \in Before(d)
    BY <1>1, <1>3, <2>1
  <2>3. QED
    BY <1>5, <2>2
<1>6. CASE Before(c) # {} /\ Before(d) = {}
  <2>1. Append(Name(c), Cardinality(Before(c))) = Name(d)
    BY <1>3, <1>6 DEF Column
  <2>2. QED
    BY <1>4, <1>6, <2>1 DEF width
<1>7. CASE Before(c) = {} /\ Before(d) # {}
  <2>1. Append(Name(d), Cardinality(Before(d))) = Name(c)
    BY <1>3, <1>7 DEF Column
  <2>2. QED
    BY <1>4, <1>7, <2>1 DEF width
<1>8. CASE Before(c) # {} /\ Before(d) # {}
  <2>1. Append(Name(c), Cardinality(Before(c))) = Append(Name(d), Cardinality(Before(d)))
    BY <1>3, <1>8 DEF Column
  <2>2. Name(c) = Name(d) /\ Cardinality(Before(c)) = Cardinality(Before(d))
    <3>1. \A e \in 1..width :
              Len(Name(e)) \in Nat /\ Name(e) = [i \in 1..Len(Name(e)) |-> Name(e)[i]]
      BY <1>1, BaseIsAName DEF width
    <3>2. /\ Len(Name(c)) \in Nat /\ Name(c) = [i \in 1..Len(Name(c)) |-> Name(c)[i]]
          /\ Len(Name(d)) \in Nat /\ Name(d) = [i \in 1..Len(Name(d)) |-> Name(d)[i]]
      BY <3>1, Zenon
    <3> HIDE DEF Name, Before
    <3>3. QED
      BY <2>1, <3>2, SuffixesTell, Zenon
  <2>3. Before(c) \subseteq Before(d) /\ c \in Before(d) /\ c \notin Before(c)
    BY <1>1, <1>3, <2>2
  <2>4. QED
    BY <1>4, <2>2, <2>3, FS_Subset
<1>9. QED
  BY <1>5, <1>6, <1>7, <1>8
\* What metadata.json says of a table is true of the sheet: told is MetadataIsTrue's.
TrueOf(told, rows) ==
    LET header == HeaderRow(rows)
        data == DataRows(rows)
    IN  /\ told.row_count = Len(data)
        /\ \A c \in DOMAIN told.columns :
               /\ told.columns[c].original_name = IF Worded(header[c]) THEN header[c] ELSE None
               /\ told.columns[c].null_count = Cardinality({r \in DOMAIN data : data[r][c] = None})

\* The description of a table that DuckDB took is true, since the names of its columns
\* differ and parsing keeps the values.
LEMMA DescriptionIsTrue ==
  ASSUME NEW rows \in Seq(Seq(Cell)), ~NoTable(rows), ~Refused(Table(rows))
  PROVE  TrueOf(TableMetadata(Table(rows)), rows)
<1> DEFINE table == Table(rows)
           header == HeaderRow(rows)
           data == DataRows(rows)
           width == Width(header)
           worded == {c \in DOMAIN table.columns : Worded(header[c])}
           Text(n) == header[CHOOSE c \in worded : table.columns[c] = n]
<1>1. /\ DOMAIN table.columns = 1..width
      /\ table.comments = Comments(header, table.columns)
      /\ DOMAIN table.rows = DOMAIN data /\ Len(table.rows) = Len(data)
      /\ \A i \in DOMAIN data, c \in 1..width : table.rows[i][c] = data[i][c]
  BY TableHasTheData
<1>2. \A c, d \in DOMAIN table.columns : table.columns[c] = table.columns[d] => c = d
  BY DEF Refused, IsInjective
<1>3. TableMetadata(table) = [row_count |-> Len(table.rows),
          columns |-> [c \in DOMAIN table.columns |-> ColumnStats(table, c)]]
  BY DEF TableMetadata
<1> HIDE DEF table, header, data, width
<1>4. table.comments = [n \in {table.columns[c] : c \in worded} |-> Text(n)]
  BY <1>1 DEF Comments
<1>5. ASSUME NEW c \in 1..width
      PROVE  /\ ColumnStats(table, c).original_name = IF Worded(header[c]) THEN header[c] ELSE None
             /\ ColumnStats(table, c).null_count = Cardinality({r \in DOMAIN data : data[r][c] = None})
  <2> DEFINE name == table.columns[c]
  <2>1. {r \in DOMAIN table.rows : table.rows[r][c] = None} = {r \in DOMAIN data : data[r][c] = None}
    BY <1>1
  <2>2. ColumnStats(table, c).null_count = Cardinality({r \in DOMAIN data : data[r][c] = None})
    BY <2>1 DEF ColumnStats
  <2>3. ColumnStats(table, c).original_name =
            IF name \in DOMAIN table.comments THEN table.comments[name] ELSE None
    BY DEF ColumnStats
  <2>4. CASE ~Worded(header[c])
    <3>1. name \notin DOMAIN table.comments
      BY <1>1, <1>2, <1>4, <2>4
    <3>2. QED
      BY <2>3, <2>2, <2>4, <3>1
  <2>5. CASE Worded(header[c])
    <3>1. c \in worded
      BY <1>1, <2>5
    <3>2. (CHOOSE d \in worded : table.columns[d] = name) = c
      BY <1>2, <3>1
    <3>3. Text(name) = header[c]
      BY <3>2
    <3> HIDE DEF Text
    <3>4. name \in DOMAIN table.comments /\ table.comments[name] = header[c]
      BY <1>4, <3>1, <3>3
    <3>5. QED
      BY <2>3, <2>2, <2>5, <3>4
  <2>6. QED
    BY <2>4, <2>5
<1> DEFINE told == TableMetadata(table)
<1>6. told.row_count = Len(data) /\ DOMAIN told.columns = 1..width
  BY <1>1, <1>3
<1>7. \A c \in 1..width : told.columns[c] = ColumnStats(table, c)
  BY <1>1, <1>3
<1> HIDE DEF told
<1>8. ASSUME NEW c \in DOMAIN told.columns
      PROVE  /\ told.columns[c].original_name = IF Worded(header[c]) THEN header[c] ELSE None
             /\ told.columns[c].null_count = Cardinality({r \in DOMAIN data : data[r][c] = None})
  BY <1>5, <1>6, <1>7
<1>9. QED
  BY <1>6, <1>8 DEF TrueOf, told, table, header, data

\* Sheets that give a table, one by one.
Loadable ==
    {i \in DOMAIN layers : Tabular(layers[i].rows) /\ ~Refused(Table(layers[i].rows))}

\* A numbered sheet that was looked at either failed or is in the tables.
SheetsAreAccountedFor ==
    verdict # "failed" =>
        \A i \in 1..loaded : layers[i].kind = "numbered" =>
            i \in failed \/ \E t \in DOMAIN tables : tables[t].sheet = i

\* The reason for which a workbook failed, unless a call did.
FailedAtASheet ==
    verdict = "failed" /\ ~erred =>
        \E i \in DOMAIN layers :
            \/ i = loaded /\ MayRaise(layers[i])
            \/ layers[i].kind = "contents" /\ ~Readable(layers[i])

\* The tables are those of sheets that load, and the description is theirs.
WorkbookInv ==
    /\ layers \in Workbooks
    /\ loaded \in 0..Len(layers)
    /\ verdict \in {"opening", "loading", "described", "ok", "needs_intervention", "failed"}
    /\ tables \in Seq({[sheet |-> i, table |-> Table(layers[i].rows)] : i \in Loadable})
    /\ described \in {<<>>, [t \in DOMAIN tables |-> TableMetadata(tables[t].table)]}
    /\ verdict \in {"opening", "loading"} => described = <<>>
    /\ verdict \in {"described", "ok"} => loaded = Len(layers)
    /\ verdict = "ok" => failed = {}
    /\ SheetsAreAccountedFor /\ FailedAtASheet

\* A workbook is a sequence of sheets.
LEMMA WorkbookIsSheets ==
  ASSUME layers \in Workbooks
  PROVE  /\ layers \in Seq(SheetType)
         /\ Len(layers) \in Nat /\ DOMAIN layers = 1..Len(layers)
         /\ \A i \in DOMAIN layers : layers[i].rows \in Seq(Seq(Cell))
<1>1. layers \in Seq(SheetType)
  BY WorkbookAssumption
<1>2. Len(layers) \in Nat /\ DOMAIN layers = 1..Len(layers)
  BY <1>1
<1>3. ASSUME NEW i \in DOMAIN layers
      PROVE  layers[i].rows \in Seq(Seq(Cell))
  <2>1. layers[i] \in SheetType
    BY <1>1
  <2>2. QED
    BY <2>1 DEF SheetType
<1>4. QED
  BY <1>1, <1>2, <1>3

\* No sheet has been loaded or has failed.
LEMMA WorkbookInitially == WorkbookInit => WorkbookInv
<1> SUFFICES ASSUME WorkbookInit PROVE WorkbookInv
  OBVIOUS
<1>1. layers \in Workbooks
  BY DEF WorkbookInit
<1>2. QED
  BY <1>1, WorkbookIsSheets DEF WorkbookInit, WorkbookInv, SheetsAreAccountedFor, FailedAtASheet

\* Each sheet that is loaded adds its table and its description, or the reason it failed.
LEMMA WorkbookKept == WorkbookInv /\ [WorkbookNext]_workbookVars => WorkbookInv'
<1> SUFFICES ASSUME WorkbookInv, [WorkbookNext]_workbookVars PROVE WorkbookInv'
  OBVIOUS
<1>1. /\ Len(layers) \in Nat /\ DOMAIN layers = 1..Len(layers)
  BY WorkbookIsSheets DEF WorkbookInv
<1>2. layers' = layers
  BY DEF WorkbookNext, OpenWorkbook, LoadSheet, DescribeTables, WriteStatus, workbookVars
<1>3. Loadable' = Loadable
  BY <1>2 DEF Loadable
<1> DEFINE Entries == {[sheet |-> i, table |-> Table(layers[i].rows)] : i \in Loadable}
<1>4. tables \in Seq(Entries)
  BY DEF WorkbookInv
<1>5. Entries' = Entries
  BY <1>2, <1>3
<1> USE DEF WorkbookInv, SheetsAreAccountedFor, FailedAtASheet
<1>6. CASE OpenWorkbook
  <2>1. verdict = "opening" /\ UNCHANGED <<loaded, tables, described, failed>>
    BY <1>6 DEF OpenWorkbook
  <2>2. CASE verdict' = "loading" /\ UNCHANGED erred
    BY <1>2, <1>3, <2>1, <2>2
  <2>3. CASE /\ \E i \in DOMAIN layers :
                   layers[i].kind = "contents" /\ ~layers[i].named /\ OddText(layers[i].rows)
             /\ verdict' = "failed" /\ UNCHANGED erred
    <3>1. \E i \in DOMAIN layers : layers[i].kind = "contents" /\ ~Readable(layers[i])
      BY <2>3 DEF Readable
    <3>2. QED
      BY <1>2, <1>3, <2>1, <2>3, <3>1
  <2>4. CASE CallFails
    BY <1>2, <1>3, <2>1, <2>4 DEF CallFails
  <2>5. QED
    BY <1>6, <2>2, <2>3, <2>4 DEF OpenWorkbook
<1>7. CASE LoadSheet
  <2> DEFINE i == loaded + 1
             sheet == layers[i]
             rows == sheet.rows
  <2>1. /\ verdict = "loading" /\ loaded < Len(layers) /\ loaded' = i
        /\ described' = <<>>
        /\ i \in DOMAIN layers /\ loaded \in Nat
    BY <1>7, <1>1 DEF LoadSheet
  <2>2. CASE /\ sheet.kind = "other" \/ (IsText(sheet) /\ Readable(sheet))
             /\ UNCHANGED <<tables, failed, verdict, erred>>
    <3>1. sheet.kind # "numbered"
      BY <2>2 DEF IsText
    <3>2. QED
      BY <1>1, <1>2, <1>3, <2>1, <2>2, <3>1
  <2>3. CASE /\ sheet.kind = "numbered" /\ ~OddHeader(rows) /\ NoTable(rows)
             /\ failed' = failed \cup {i} /\ UNCHANGED <<tables, verdict, erred>>
    BY <1>1, <1>2, <1>3, <2>1, <2>3
  <2>4. CASE /\ sheet.kind = "numbered" /\ Tabular(rows) /\ ~Refused(Table(rows))
             /\ tables' = Append(tables, [sheet |-> i, table |-> Table(rows)])
             /\ UNCHANGED <<failed, verdict, erred>>
    <3> DEFINE entry == [sheet |-> i, table |-> Table(rows)]
    <3>1. entry \in Entries
      BY <2>1, <2>4 DEF Loadable
    <3>2. tables' \in Seq(Entries)
      BY <1>4, <2>4, <3>1
    <3>3. /\ DOMAIN tables' = 1..(Len(tables) + 1) /\ Len(tables) \in Nat
          /\ DOMAIN tables = 1..Len(tables)
          /\ \A t \in DOMAIN tables : tables'[t] = tables[t]
          /\ tables'[Len(tables) + 1].sheet = i
      <4> HIDE DEF Entries
      <4>1. tables'[Len(tables) + 1] = entry
        BY <1>4, <2>4, <3>1
      <4>2. entry.sheet = i
        OBVIOUS
      <4> HIDE DEF entry
      <4>3. QED
        BY <1>4, <2>4, <3>1, <4>1, <4>2
    <3>4. SheetsAreAccountedFor'
      <4> SUFFICES ASSUME NEW j \in 1..i, layers[j].kind = "numbered"
                   PROVE  j \in failed \/ \E t \in DOMAIN tables' : tables'[t].sheet = j
        BY <1>2, <2>1, <2>4
      <4>1. CASE j = i
        BY <3>3, <4>1
      <4>2. CASE j \in 1..loaded
        <5>1. j \in failed \/ \E t \in DOMAIN tables : tables[t].sheet = j
          BY <2>1, <4>2
        <5>2. QED
          BY <3>3, <5>1
      <4>3. QED
        BY <2>1, <4>1, <4>2
    <3>5. QED
      BY <1>1, <1>2, <1>3, <2>1, <2>4, <3>2, <3>4
  <2>5. CASE /\ MayRaise(sheet)
             /\ verdict' = "failed" /\ UNCHANGED <<tables, failed, erred>>
    BY <1>1, <1>2, <1>3, <2>1, <2>5
  <2>6. CASE CallFails /\ UNCHANGED <<tables, failed>>
    BY <1>1, <1>2, <1>3, <2>1, <2>6 DEF CallFails
  <2>7. QED
    BY <1>7, <2>2, <2>3, <2>4, <2>5, <2>6 DEF LoadSheet
<1>8. CASE DescribeTables
  BY <1>8, <1>2, <1>3 DEF DescribeTables, CallFails
<1>9. CASE WriteStatus
  BY <1>9, <1>2, <1>3 DEF WriteStatus
<1>10. CASE UNCHANGED workbookVars
  BY <1>10, <1>3 DEF workbookVars
<1>11. QED
  BY <1>6, <1>7, <1>8, <1>9, <1>10 DEF WorkbookNext

\* Each table is that of a sheet that can be loaded.
LEMMA TablesAreOfSheets ==
  ASSUME WorkbookInv, NEW t \in DOMAIN tables
  PROVE  \E i \in Loadable : tables[t] = [sheet |-> i, table |-> Table(layers[i].rows)]
<1> DEFINE Entries == {[sheet |-> i, table |-> Table(layers[i].rows)] : i \in Loadable}
<1>1. tables[t] \in Entries
  <2>1. tables \in Seq(Entries)
    BY DEF WorkbookInv
  <2> HIDE DEF Entries
  <2>2. QED
    BY <2>1
<1>2. QED
  BY <1>1

\* A workbook that is "ok" can be queried for the data of each numbered sheet: every row
\* down to the first empty one, and every filled cell of it (load_workbook, ingest_sheet,
\* xlsx_ingest_flow), for workbooks of any size and any names the headers give.
THEOREM OkWorkbooksKeepTheData == WorkbookSpec => []OkKeepsTheData
<1>1. ASSUME WorkbookInv PROVE OkKeepsTheData
  <2> SUFFICES ASSUME verdict = "ok", NEW i \in DOMAIN layers, layers[i].kind = "numbered"
               PROVE  \E t \in DOMAIN tables :
                          LET table == tables[t].table
                              data == DataRows(layers[i].rows)
                          IN  /\ tables[t].sheet = i
                              /\ Len(table.rows) = Len(data)
                              /\ \A r \in DOMAIN data, c \in DOMAIN table.columns :
                                     data[r][c] # None => table.rows[r][c] # None
    BY DEF OkKeepsTheData
  <2>1. i \in 1..loaded /\ failed = {}
    BY <1>1, WorkbookIsSheets DEF WorkbookInv
  <2>2. PICK t \in DOMAIN tables : tables[t].sheet = i
    BY <1>1, <2>1 DEF WorkbookInv, SheetsAreAccountedFor
  <2>3. tables[t].table = Table(layers[i].rows) /\ i \in Loadable
    BY <1>1, <2>2, TablesAreOfSheets
  <2>4. layers[i].rows \in Seq(Seq(Cell)) /\ ~NoTable(layers[i].rows)
    BY <1>1, <2>3, WorkbookIsSheets DEF WorkbookInv, Loadable, Tabular
  <2>5. /\ Len(tables[t].table.rows) = Len(DataRows(layers[i].rows))
        /\ \A r \in DOMAIN DataRows(layers[i].rows), c \in DOMAIN tables[t].table.columns :
               tables[t].table.rows[r][c] = DataRows(layers[i].rows)[r][c]
    BY <2>3, <2>4, TableHasTheData
  <2>6. QED
    BY <2>2, <2>5
<1>2. QED
  BY <1>1, WorkbookInitially, WorkbookKept, PTL DEF WorkbookSpec

\* metadata.json counts the rows and the empty cells of the sheets themselves and gives
\* each column the text of its own header (extract_metadata), for any workbook.
THEOREM MetadataTellsTheTruth == WorkbookSpec => []MetadataIsTrue
<1>1. ASSUME WorkbookInv PROVE MetadataIsTrue
  <2> SUFFICES ASSUME NEW t \in DOMAIN described
               PROVE  TrueOf(described[t], layers[tables[t].sheet].rows)
    BY DEF MetadataIsTrue, TrueOf
  <2>1. t \in DOMAIN tables /\ described[t] = TableMetadata(tables[t].table)
    BY <1>1 DEF WorkbookInv
  <2>2. PICK i \in Loadable : tables[t] = [sheet |-> i, table |-> Table(layers[i].rows)]
    BY <1>1, <2>1, TablesAreOfSheets
  <2>3. /\ layers[i].rows \in Seq(Seq(Cell))
        /\ ~NoTable(layers[i].rows) /\ ~Refused(Table(layers[i].rows))
    BY <1>1, WorkbookIsSheets DEF WorkbookInv, Loadable, Tabular
  <2>4. TrueOf(TableMetadata(Table(layers[i].rows)), layers[i].rows)
    BY <2>3, DescriptionIsTrue
  <2>5. QED
    BY <2>1, <2>2, <2>4
<1>2. QED
  BY <1>1, WorkbookInitially, WorkbookKept, PTL DEF WorkbookSpec

\* The sheets that load_workbook and ingest_sheet raise an exception for, one by one; the
\* terms are those of FailsOnlyFor.
LEMMA ReasonsToRaise ==
  ASSUME NEW sheet \in SheetType, MayRaise(sheet)
  PROVE  LET header == HeaderRow(sheet.rows)
             names == {Base(header[c]) : c \in 1..Width(header)}
         IN  \/ IsText(sheet) /\ ~Readable(sheet)
             \/ /\ sheet.kind = "numbered" /\ HeaderRows(sheet.rows) # {}
                /\ \/ \E c \in 1..Width(header) : header[c] \in Typed
                   \/ \E i \in DOMAIN DataRows(sheet.rows) :
                          ToSet(DataRows(sheet.rows)[i]) \cap (Huge \cup Typed) # {}
                   \/ \E n \in names, k \in 1..Width(header) : Append(n, k) \in names
<1> DEFINE rows == sheet.rows
           header == HeaderRow(rows)
           data == DataRows(rows)
           table == Table(rows)
           names == {Base(header[c]) : c \in 1..Width(header)}
<1>1. rows \in Seq(Seq(Cell))
  BY DEF SheetType
<1>2. CASE IsText(sheet) /\ ~Readable(sheet)
  BY <1>2
<1>3. CASE sheet.kind = "numbered" /\ OddHeader(rows)
  BY <1>3 DEF OddHeader
<1>4. CASE sheet.kind = "numbered" /\ ~NoTable(rows) /\ OddData(rows)
  <2>1. HeaderRows(rows) # {}
    BY <1>4 DEF NoTable
  <2>2. \E i \in DOMAIN data : ToSet(data[i]) \cap (Huge \cup Typed) # {}
    BY <1>4 DEF OddData
  <2>3. QED
    BY <1>4, <2>1, <2>2
<1>5. CASE sheet.kind = "numbered" /\ Tabular(rows) /\ MayBeRefused(table)
  <2>1. ~NoTable(rows) /\ ~OddHeader(rows)
    BY <1>5 DEF Tabular
  <2>2. /\ HeaderRows(rows) # {} /\ Width(header) \in Nat
        /\ table.columns = ColumnNames(header)
        /\ DOMAIN table.types = 1..Width(header) /\ DOMAIN table.rows = DOMAIN data
        /\ \A i \in DOMAIN data, c \in 1..Width(header) : table.rows[i][c] = data[i][c]
    BY <1>1, <2>1, TableHasTheData
  <2>3. CASE ~IsInjective(table.columns)
    <3>1. header \in Seq(Cell)
      BY <1>1, <2>2, HeaderIsARow
    <3>2. Width(header) >= 2
      BY <2>1, <2>2 DEF NoTable
    <3>3. \A c \in 1..Width(header) : header[c] \notin Typed \ Zeros
      BY <2>1, <2>2, <3>2 DEF OddHeader
    <3>4. \E n \in names, k \in 1..Width(header) : Append(n, k) \in names
      BY <2>2, <2>3, <3>1, <3>3, NamesCollide
    <3>5. QED
      BY <1>5, <2>2, <3>4
  <2>4. CASE \E i \in DOMAIN table.rows, c \in DOMAIN table.types : table.rows[i][c] \in Huge
    <3>1. PICK i \in DOMAIN data, c \in 1..Width(header) : data[i][c] \in Huge
      BY <2>2, <2>4
    <3>2. DOMAIN data[i] = 1..Width(header)
      BY <1>1, <2>2, DataAreRows
    <3>3. ToSet(data[i]) \cap (Huge \cup Typed) # {}
      BY <3>1, <3>2 DEF ToSet
    <3>4. QED
      BY <1>5, <2>2, <3>3
  <2>5. QED
    BY <1>5, <2>3, <2>4 DEF MayBeRefused, Refused, Beyond
<1>6. QED
  BY <1>2, <1>3, <1>4, <1>5 DEF MayRaise

\* Unless one of DuckDB's or GDAL's calls fails for a reason of its own, a workbook fails
\* at the sheet that was looked at last, or at Contents, and only for what is in it: a
\* header that spells out another one's suffix, an integer beyond BIGINT, a header or a
\* value that is no text, or a sheet of text with no Field1 or one that is no text
\* (load_workbook, ingest_sheet). Repeated headers never fail one, whatever their number.
THEOREM WorkbooksFailOnlyFor == WorkbookSpec => []FailsOnlyFor
<1>1. ASSUME WorkbookInv PROVE FailsOnlyFor
  <2> SUFFICES ASSUME verdict = "failed", ~erred PROVE FailsOnlyFor
    BY DEF FailsOnlyFor
  <2>1. PICK s \in DOMAIN layers :
            \/ s = loaded /\ MayRaise(layers[s])
            \/ layers[s].kind = "contents" /\ ~Readable(layers[s])
    BY <1>1 DEF WorkbookInv, FailedAtASheet
  <2>2. layers[s] \in SheetType
    BY <1>1, WorkbookIsSheets DEF WorkbookInv
  <2>3. CASE s = loaded /\ MayRaise(layers[s])
    BY <2>2, <2>3, ReasonsToRaise DEF FailsOnlyFor
  <2>4. CASE layers[s].kind = "contents" /\ ~Readable(layers[s])
    BY <2>4 DEF FailsOnlyFor, IsText
  <2>5. QED
    BY <2>1, <2>3, <2>4
<1>2. QED
  BY <1>1, WorkbookInitially, WorkbookKept, PTL DEF WorkbookSpec
=============================================================================
