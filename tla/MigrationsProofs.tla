--------------------------- MODULE MigrationsProofs ---------------------------
(* Proofs about the Alembic chain, for any documents, rows, initialisers and  *)
(* command lines. A statement that PostgreSQL accepts leaves a sound database *)
(* (rows have the columns of their table and satisfy its keys and checks),    *)
(* with the tables the statement describes. Revision by revision that gives   *)
(* the tables of a revision as a function of it alone, and that every upgrade *)
(* and every downgrade goes through; the invariant of the runs and the writes *)
(* follows.                                                                   *)
EXTENDS Migrations, TLAPS

-----------------------------------------------------------------------------
(* Statements.                                                                *)

\* A key or a check of a table holds of its rows.
Holds(k, rows) ==
    /\ k.kind = "unique" => \A q, r \in rows : (\A c \in k.columns : q[c] = r[c]) => q = r
    /\ k.kind = "check" => \A r \in rows : \A c \in k.columns : r[c] \in k.values \cup {Null}

\* A table as PostgreSQL keeps it: rows have its columns and satisfy its keys and checks.
\* (A foreign key may have been added without a look at the rows.)
Fits(shape, rows) ==
    /\ \A k \in shape.constraints : k.columns \subseteq shape.columns /\ Holds(k, rows)
    /\ \A r \in rows : DOMAIN r = shape.columns

Sound(d) ==
    /\ DOMAIN d.rows = DOMAIN d.tables
    /\ \A t \in DOMAIN d.tables : Fits(d.tables[t], d.rows[t])

\* Only a foreign key may be added without a look at the rows.
Careful(s) == s.op = "add_not_valid" => s.constraint.kind = "foreign"

\* What a deletion leaves: no more than there was, and nothing of what was to go.
LEMMA DeletionOnlyRemoves ==
    ASSUME NEW d, NEW t \in DOMAIN d.rows, NEW gone
    PROVE  /\ DOMAIN Delete(d, t, gone) = DOMAIN d.rows
           /\ \A u \in DOMAIN d.rows : Delete(d, t, gone)[u] \subseteq d.rows[u]
           /\ Delete(d, t, gone)[t] \cap gone = {}
<1> DEFINE first == [u \in DOMAIN d.rows |-> IF u = t THEN gone ELSE {}]
<1>1. ASSUME NEW f PROVE /\ DOMAIN Spread(d, f) = DOMAIN d.rows
                         /\ \A u \in DOMAIN d.rows : f[u] \subseteq Spread(d, f)[u]
  BY DEF Spread
<1>2. gone \subseteq Spread(d, Spread(d, Spread(d, first)))[t]
  <2>1. gone = first[t]
    OBVIOUS
  <2> HIDE DEF first
  <2>2. QED
    BY <1>1, <2>1
<1>3. QED
  BY <1>2 DEF Delete

\* Rows may be exchanged for others with the same values in the columns of the keys.
LEMMA RowsMayChange ==
    ASSUME NEW shape, NEW rows, Fits(shape, rows), NEW f, NEW after,
           after.constraints \subseteq shape.constraints,
           \A k \in after.constraints : k.columns \subseteq after.columns,
           \A r \in rows : /\ DOMAIN f[r] = after.columns
                           /\ \A c \in shape.columns \cap after.columns : f[r][c] = r[c]
    PROVE  Fits(after, {f[r] : r \in rows})
<1>1. ASSUME NEW k \in after.constraints PROVE Holds(k, {f[r] : r \in rows})
  <2>1. /\ Holds(k, rows)
        /\ \A r \in rows : \A c \in k.columns : f[r][c] = r[c]
    BY DEF Fits
  <2>2. QED
    BY <2>1 DEF Holds
<1>2. QED
  BY <1>1 DEF Fits

\* Whatever a statement does, the rows it leaves fit their tables.
LEMMA StatementKeepsSound ==
    ASSUME NEW d, NEW s, Sound(d), Careful(s), TablesAllow(d.tables, s), RowsAllow(d, s),
           s.op # "create_table" => s.table \in DOMAIN d.tables
    PROVE  Sound(Execute(d, s))
<1> DEFINE e == Execute(d, s)
<1>0. e.tables = Reshaped(d.tables, s) /\ e.rows = NewRows(d, s)
  BY DEF Execute
<1> HIDE DEF e
<1> SUFFICES Sound(e)
  BY DEF e
<1>1. CASE s.op = "create_table"
  <2>1. e.tables = [t \in DOMAIN d.tables \cup {s.table} |->
                     IF t = s.table THEN Shape(s.columns, {}, s.constraints) ELSE d.tables[t]]
    BY <1>0, <1>1 DEF Reshaped
  <2>2. e.rows = [t \in DOMAIN d.rows \cup {s.table} |-> IF t = s.table THEN {} ELSE d.rows[t]]
    BY <1>0, <1>1 DEF NewRows
  <2>3. \A k \in s.constraints : k.columns \subseteq s.columns
    BY <1>1 DEF TablesAllow, MayHold, Shape
  <2>4. Fits(Shape(s.columns, {}, s.constraints), {})
    BY <2>3 DEF Fits, Shape, Holds
  <2>5. QED
    BY <2>1, <2>2, <2>4 DEF Sound
<1>2. CASE s.op = "drop_table"
  <2>1. e.tables = [t \in DOMAIN d.tables \ {s.table} |-> d.tables[t]]
    BY <1>0, <1>2 DEF Reshaped, Without
  <2>2. e.rows = [t \in DOMAIN d.rows \ {s.table} |-> d.rows[t]]
    BY <1>0, <1>2 DEF NewRows, Without
  <2>3. QED
    BY <2>1, <2>2 DEF Sound
<1>3. CASE s.op = "delete"
  <2>1. PICK gone : e.rows = Delete(d, s.table, gone)
    BY <1>0, <1>3 DEF NewRows
  <2>2. s.table \in DOMAIN d.rows /\ s.table \in DOMAIN d.tables
    BY <1>3 DEF Sound
  <2>3. /\ DOMAIN e.rows = DOMAIN d.rows
        /\ \A u \in DOMAIN d.rows : e.rows[u] \subseteq d.rows[u]
    BY <2>1, <2>2, DeletionOnlyRemoves
  <2>4. DOMAIN e.tables = DOMAIN d.tables /\ \A u \in DOMAIN d.tables : e.tables[u] = d.tables[u]
    BY <1>0, <1>3, <2>2 DEF Reshaped, Altered
  <2>5. \A u \in DOMAIN d.tables : Fits(d.tables[u], e.rows[u])
    BY <2>3 DEF Sound, Fits, Holds
  <2>6. QED
    BY <2>3, <2>4, <2>5 DEF Sound
<1>4. CASE s.op \notin {"create_table", "drop_table", "delete"}
  <2> DEFINE t == s.table
             shape == d.tables[t]
             rows == d.rows[t]
  <2>1. t \in DOMAIN d.tables /\ e.tables = [d.tables EXCEPT ![t] = Altered(shape, s)]
    BY <1>0, <1>4 DEF Reshaped
  <2>2. Fits(shape, rows)
    BY <2>1 DEF Sound
  <2> HIDE DEF shape, rows, t
  <2>3. SUFFICES /\ DOMAIN e.rows = DOMAIN d.rows
                 /\ \A u \in DOMAIN d.rows : u # t => e.rows[u] = d.rows[u]
                 /\ Fits(Altered(shape, s), e.rows[t])
    BY <2>1 DEF Sound
  <2>4. CASE s.op = "add_column"
    <3> DEFINE f == [r \in rows |-> With(r, [c \in {s.column} |-> s.value])]
    <3>1. e.rows = [d.rows EXCEPT ![t] = {f[r] : r \in rows}]
      <4>1. e.rows = [d.rows EXCEPT ![t] = {With(r, [c \in {s.column} |-> s.value]) : r \in rows}]
        BY <1>0, <2>4 DEF NewRows, t, rows
      <4>2. QED
        BY <4>1
    <3>2. Altered(shape, s) = Shape(shape.columns \cup {s.column}, shape.indexes, shape.constraints)
      BY <2>4 DEF Altered
    <3>3. \A r \in rows : /\ DOMAIN f[r] = shape.columns \cup {s.column}
                          /\ \A c \in shape.columns : f[r][c] = r[c]
      BY <1>4, <2>2, <2>4 DEF Fits, With, TablesAllow, t, shape
    <3> HIDE DEF f
    <3>4. Fits(Altered(shape, s), {f[r] : r \in rows})
      <4> DEFINE after == Altered(shape, s)
      <4>1. /\ after.constraints \subseteq shape.constraints
            /\ \A k \in after.constraints : k.columns \subseteq after.columns
        BY <2>2, <3>2 DEF Shape, Fits
      <4>2. \A r \in rows : /\ DOMAIN f[r] = after.columns
                            /\ \A c \in shape.columns \cap after.columns : f[r][c] = r[c]
        BY <3>2, <3>3 DEF Shape
      <4> HIDE DEF after
      <4>3. Fits(after, {f[r] : r \in rows})
        BY <2>2, <4>1, <4>2, RowsMayChange
      <4>4. QED
        BY <4>3 DEF after
    <3>5. QED
      BY <3>1, <3>4, <2>1 DEF Sound
  <2>5. CASE s.op = "drop_column"
    <3> DEFINE f == [r \in rows |-> Without(r, {s.column})]
    <3>1. e.rows = [d.rows EXCEPT ![t] = {f[r] : r \in rows}]
      <4>1. e.rows = [d.rows EXCEPT ![t] = {Without(r, {s.column}) : r \in rows}]
        BY <1>0, <2>5 DEF NewRows, t, rows
      <4>2. QED
        BY <4>1
    <3>2. Altered(shape, s) = Shape(shape.columns \ {s.column},
                                    {i \in shape.indexes : s.column \notin i.columns},
                                    {k \in shape.constraints : s.column \notin k.columns})
      BY <2>5 DEF Altered
    <3>3. \A r \in rows : /\ DOMAIN f[r] = shape.columns \ {s.column}
                          /\ \A c \in shape.columns \ {s.column} : f[r][c] = r[c]
      BY <2>2 DEF Fits, Without
    <3> HIDE DEF f
    <3>4. Fits(Altered(shape, s), {f[r] : r \in rows})
      <4> DEFINE after == Altered(shape, s)
      <4>1. /\ after.constraints \subseteq shape.constraints
            /\ \A k \in after.constraints : k.columns \subseteq after.columns
        BY <2>2, <3>2 DEF Shape, Fits
      <4>2. \A r \in rows : /\ DOMAIN f[r] = after.columns
                            /\ \A c \in shape.columns \cap after.columns : f[r][c] = r[c]
        BY <3>2, <3>3 DEF Shape
      <4> HIDE DEF after
      <4>3. Fits(after, {f[r] : r \in rows})
        BY <2>2, <4>1, <4>2, RowsMayChange
      <4>4. QED
        BY <4>3 DEF after
    <3>5. QED
      BY <3>1, <3>4, <2>1 DEF Sound
  <2>6. CASE s.op \in {"update", "carry_over"}
    <3>1. Altered(shape, s) = shape
      BY <2>6 DEF Altered
    <3>2. /\ DOMAIN e.rows = DOMAIN d.rows
          /\ \A u \in DOMAIN d.rows : u # t => e.rows[u] = d.rows[u]
      BY <1>0, <2>6 DEF NewRows, t
    <3>3. \A k \in shape.constraints : \A r \in e.rows[t] : Satisfies(e, t, k, r)
      BY <1>0, <2>6 DEF RowsAllow, e, t, shape
    <3>4. \A k \in shape.constraints : Holds(k, e.rows[t])
      BY <3>3 DEF Holds, Satisfies
    <3>5. \A r \in e.rows[t] : DOMAIN r = shape.columns
      <4>1. CASE s.op = "update"
        <5>1. e.rows[t] = {With(r, s.values) : r \in rows}
          BY <1>0, <2>1, <4>1 DEF NewRows, t, rows, Sound
        <5>2. DOMAIN s.values \subseteq shape.columns
          BY <4>1 DEF TablesAllow, t, shape
        <5>3. QED
          BY <5>1, <5>2, <2>2 DEF Fits, With
      <4>2. CASE s.op = "carry_over"
        <5>1. e.rows[t] = {Carried(d, r) : r \in rows}
          BY <1>0, <2>1, <4>2 DEF NewRows, t, rows, Sound
        <5>2. QED
          BY <5>1, <2>2 DEF Fits, Carried
      <4>3. QED
        BY <2>6, <4>1, <4>2
    <3>6. QED
      BY <3>1, <3>2, <3>4, <3>5, <2>2 DEF Fits
  <2>7. CASE s.op \notin {"add_column", "drop_column", "update", "carry_over"}
    <3>1. e.rows = d.rows
      BY <1>0, <1>4, <2>7 DEF NewRows
    <3>2. s.op \in {"add_constraint", "add_not_valid"} =>
            s.constraint.columns \subseteq shape.columns /\ Holds(s.constraint, rows)
      <4>1. s.op \in {"add_constraint", "add_not_valid"} => s.constraint.columns \subseteq shape.columns
        BY <1>4 DEF TablesAllow, MayHold, t, shape
      <4>2. s.op = "add_constraint" => \A r \in rows : Satisfies(d, t, s.constraint, r)
        BY DEF RowsAllow, t, rows
      <4>3. QED
        BY <4>1, <4>2 DEF Careful, Holds, Satisfies, rows
    <3>3. /\ Altered(shape, s).constraints \subseteq
                shape.constraints \cup (IF s.op \in {"add_constraint", "add_not_valid"}
                                       THEN {s.constraint} ELSE {})
          /\ shape.columns \subseteq Altered(shape, s).columns
          /\ s.op # "add_required" => Altered(shape, s).columns = shape.columns
      BY <1>4, <2>7 DEF Altered, Shape
    <3>4. s.op = "add_required" => rows = {}
      BY DEF RowsAllow, rows, t
    <3>5. Fits(Altered(shape, s), rows)
      BY <2>2, <3>2, <3>3, <3>4 DEF Fits
    <3>6. QED
      BY <3>1, <3>5, <2>1 DEF rows
  <2>8. QED
    BY <2>4, <2>5, <2>6, <2>7
<1>5. QED
  BY <1>1, <1>2, <1>3, <1>4

-----------------------------------------------------------------------------
(* Transactions.                                                              *)

\* S with a table t of that shape, which may have been another one before.
Put(S, t, shape) == [u \in DOMAIN S \cup {t} |-> IF u = t THEN shape ELSE S[u]]

\* The names the chain gives to indexes and unique constraints: each table has its own.
OwnNames ==
    [ingestions |-> {"ingestions_pkey", "ingestions_source_pipeline_key", "ingestions_status_idx"},
     chunk_embeddings |-> {"chunk_embeddings_pkey", "chunk_embeddings_document_idx"},
     documents |-> {"documents_pkey", "documents_content_key", "documents_created_idx"},
     uploads |-> {"uploads_pkey", "uploads_status_idx"},
     chunks |-> {"chunks_pkey", "chunks_reuse_key", "chunks_chunker_idx", "chunks_operators_idx"},
     embeddings |-> {"embeddings_pkey", "embeddings_embedder_idx"},
     extractions |-> {"extractions_pkey", "extractions_reuse_key"}]

Named(S) ==
    /\ DOMAIN S \subseteq DOMAIN OwnNames
    /\ \A t \in DOMAIN S : NamesOf(S[t]) \subseteq OwnNames[t]

\* A transaction no statement of which was refused, and the tables it would commit.
Whole(d) == d = [tables |-> d.tables, rows |-> d.rows]
Good(tx, S) == tx.ok = TRUE /\ tx.db.tables = S /\ Whole(tx.db) /\ Sound(tx.db) /\ Named(S)

\* No name is one of two tables, or one of a table and a table.
LEMMA NamesDiffer ==
    \A t \in DOMAIN OwnNames : \A n \in OwnNames[t] :
        n \notin DOMAIN OwnNames /\ \A u \in DOMAIN OwnNames \ {t} : n \notin OwnNames[u]
  BY DEF OwnNames

\* So a name of a table is free if the table itself does not use it yet.
LEMMA NameIsFree ==
    ASSUME NEW S, Named(S), NEW t \in DOMAIN OwnNames, NEW n \in OwnNames[t],
           t \in DOMAIN S => n \notin NamesOf(S[t])
    PROVE  n \notin Relations(S)
<1>1. n \notin DOMAIN S
  BY NamesDiffer DEF Named
<1>2. \A u \in DOMAIN S : n \notin NamesOf(S[u])
  BY NamesDiffer DEF Named
<1>3. QED
  BY <1>1, <1>2 DEF Relations

\* A statement PostgreSQL accepts goes through.
LEMMA StatementGoes ==
    ASSUME NEW tx, NEW S, Good(tx, S), NEW s, Careful(s), TablesAllow(S, s), RowsAllow(tx.db, s),
           s.op # "create_table" => s.table \in DOMAIN S, Named(Reshaped(S, s))
    PROVE  /\ Good(tx \bullet s, Reshaped(S, s))
           /\ (tx \bullet s).db.rows = NewRows(tx.db, s)
<1>1. tx \bullet s = [ok |-> TRUE, db |-> Execute(tx.db, s)]
  <2>1. Executed(tx, s) = [ok |-> TRUE, db |-> Execute(tx.db, s)]
    BY DEF Good, Executed
  <2>2. QED
    BY <2>1 DEF \bullet
<1>2. Sound(Execute(tx.db, s))
  BY StatementKeepsSound DEF Good
<1>3. Execute(tx.db, s).tables = Reshaped(S, s) /\ Execute(tx.db, s).rows = NewRows(tx.db, s)
  BY DEF Execute, Good
<1>4. Whole(Execute(tx.db, s))
  BY DEF Whole, Execute
<1>5. QED
  BY <1>1, <1>2, <1>3, <1>4 DEF Good

\* A statement that alters a table goes through if its own demands are met.
LEMMA AlterationGoes ==
    ASSUME NEW tx, NEW S, NEW t, NEW shape, Good(tx, Put(S, t, shape)), NEW s, s.table = t,
           s.op \notin {"create_table", "drop_table"}, Careful(s),
           TablesAllow(Put(S, t, shape), s), RowsAllow(tx.db, s),
           NamesOf(Altered(shape, s)) \subseteq OwnNames[t]
    PROVE  /\ Good(tx \bullet s, Put(S, t, Altered(shape, s)))
           /\ (tx \bullet s).db.rows = NewRows(tx.db, s)
<1>1. Reshaped(Put(S, t, shape), s) = Put(S, t, Altered(shape, s))
  BY DEF Reshaped, Put
<1>2. Named(Put(S, t, Altered(shape, s)))
  BY DEF Good, Named, Put
<1>3. t \in DOMAIN Put(S, t, shape)
  BY DEF Put
<1>4. QED
  BY <1>1, <1>2, <1>3, StatementGoes

-----------------------------------------------------------------------------
(* The statements of the chain, each on a table t of known shape.             *)

\* What the shape of a table says of the names in use.
LEMMA NamesOfShape ==
    ASSUME NEW C, NEW I, NEW K
    PROVE  NamesOf(Shape(C, I, K)) =
               {i.name : i \in I} \cup {k.name : k \in {c \in K : c.kind = "unique"}}
  BY DEF NamesOf, Shape

\* CREATE INDEX on a table that has none.
LEMMA IndexMade ==
    ASSUME NEW tx, NEW S, NEW t, NEW C, NEW K, NEW n, NEW cols,
           Good(tx, Put(S, t, Shape(C, {}, K))), cols \subseteq C,
           n \in OwnNames[t], \A k \in K : k.name # n
    PROVE  /\ Good(tx \bullet CreateIndex(n, t, cols), Put(S, t, Shape(C, {Index(n, cols)}, K)))
           /\ (tx \bullet CreateIndex(n, t, cols)).db.rows = tx.db.rows
<1> DEFINE s == CreateIndex(n, t, cols)
           T == Put(S, t, Shape(C, {}, K))
<1>1. /\ s.op = "create_index" /\ s.table = t
      /\ s.index.name = n /\ s.index.columns = cols /\ s.index = Index(n, cols)
  BY DEF CreateIndex, Index
<1>2. t \in DOMAIN T /\ T[t] = Shape(C, {}, K) /\ t \in DOMAIN OwnNames /\ Named(T)
  BY DEF Put, Good, Named
<1> HIDE DEF s, T
<1>3. n \notin NamesOf(T[t])
  BY <1>2, NamesOfShape
<1>4. n \notin Relations(T)
  BY <1>2, <1>3, NameIsFree
<1>5. Altered(Shape(C, {}, K), s) = Shape(C, {Index(n, cols)}, K)
  BY <1>1 DEF Altered, Shape
<1>6. NamesOf(Altered(Shape(C, {}, K), s)) \subseteq OwnNames[t]
  <2>1. NamesOf(T[t]) \subseteq OwnNames[t]
    BY <1>2 DEF Named
  <2>2. QED
    BY <1>1, <1>2, <1>5, <2>1, NamesOfShape
<1>7. TablesAllow(T, s)
  BY <1>1, <1>2, <1>4 DEF TablesAllow, Shape
<1>8. RowsAllow(tx.db, s) /\ NewRows(tx.db, s) = tx.db.rows /\ Careful(s)
  BY <1>1 DEF RowsAllow, NewRows, Careful
<1>9. /\ Good(tx \bullet s, Put(S, t, Altered(Shape(C, {}, K), s)))
      /\ (tx \bullet s).db.rows = NewRows(tx.db, s)
  BY <1>1, <1>6, <1>7, <1>8, AlterationGoes DEF T
<1>10. QED
  BY <1>5, <1>8, <1>9 DEF s

\* DROP INDEX.
LEMMA IndexDropped ==
    ASSUME NEW tx, NEW S, NEW t, NEW C, NEW K, NEW n, NEW cols,
           Good(tx, Put(S, t, Shape(C, {Index(n, cols)}, K)))
    PROVE  /\ Good(tx \bullet DropIndex(n, t), Put(S, t, Shape(C, {}, K)))
           /\ (tx \bullet DropIndex(n, t)).db.rows = tx.db.rows
<1> DEFINE s == DropIndex(n, t)
           T == Put(S, t, Shape(C, {Index(n, cols)}, K))
<1>1. s.op = "drop_index" /\ s.table = t /\ s.name = n
  BY DEF DropIndex
<1>2. t \in DOMAIN T /\ T[t] = Shape(C, {Index(n, cols)}, K) /\ Named(T)
  BY DEF Put, Good
<1> HIDE DEF s, T
<1>3. Index(n, cols).name = n
  BY DEF Index
<1>4. Altered(Shape(C, {Index(n, cols)}, K), s) = Shape(C, {}, K)
  BY <1>1, <1>3 DEF Altered, Shape
<1>5. NamesOf(Altered(Shape(C, {Index(n, cols)}, K), s)) \subseteq OwnNames[t]
  <2>1. NamesOf(T[t]) \subseteq OwnNames[t]
    BY <1>2 DEF Named
  <2>2. QED
    BY <1>2, <1>4, <2>1, NamesOfShape
<1>6. TablesAllow(T, s)
  BY <1>1, <1>2, <1>3 DEF TablesAllow, Shape
<1>7. RowsAllow(tx.db, s) /\ NewRows(tx.db, s) = tx.db.rows /\ Careful(s)
  BY <1>1 DEF RowsAllow, NewRows, Careful
<1>8. /\ Good(tx \bullet s, Put(S, t, Altered(Shape(C, {Index(n, cols)}, K), s)))
      /\ (tx \bullet s).db.rows = NewRows(tx.db, s)
  BY <1>1, <1>5, <1>6, <1>7, AlterationGoes DEF T
<1>9. QED
  BY <1>4, <1>7, <1>8 DEF s

\* ADD CONSTRAINT, when the rows there are satisfy it.
LEMMA ConstraintAdded ==
    ASSUME NEW tx, NEW S, NEW t, NEW C, NEW I, NEW K, NEW k,
           Good(tx, Put(S, t, Shape(C, I, K))), k.columns \subseteq C,
           \A other \in K : other.name # k.name,
           k.kind = "unique" => k.name \in OwnNames[t] /\ \A i \in I : i.name # k.name,
           k.kind = "foreign" => k.refs \in DOMAIN Put(S, t, Shape(C, I, K)),
           \A r \in tx.db.rows[t] : Satisfies(tx.db, t, k, r)
    PROVE  /\ Good(tx \bullet AddConstraint(t, k), Put(S, t, Shape(C, I, K \cup {k})))
           /\ (tx \bullet AddConstraint(t, k)).db.rows = tx.db.rows
<1> DEFINE s == AddConstraint(t, k)
           T == Put(S, t, Shape(C, I, K))
<1>1. s.op = "add_constraint" /\ s.table = t /\ s.constraint = k
  BY DEF AddConstraint
<1>2. t \in DOMAIN T /\ T[t] = Shape(C, I, K) /\ t \in DOMAIN OwnNames /\ Named(T)
  BY DEF Put, Good, Named
<1>0. k.kind = "foreign" => k.refs \in DOMAIN T
  OBVIOUS
<1> HIDE DEF s, T
<1>3. k.kind = "unique" => k.name \notin Relations(T)
  <2>1. k.kind = "unique" => k.name \notin NamesOf(T[t])
    BY <1>2, NamesOfShape
  <2>2. QED
    BY <1>2, <2>1, NameIsFree
<1>4. Altered(Shape(C, I, K), s) = Shape(C, I, K \cup {k})
  BY <1>1 DEF Altered, Shape
<1>5. NamesOf(Altered(Shape(C, I, K), s)) \subseteq OwnNames[t]
  <2>1. NamesOf(T[t]) \subseteq OwnNames[t]
    BY <1>2 DEF Named
  <2>2. QED
    BY <1>2, <1>4, <2>1, NamesOfShape
<1>6. TablesAllow(T, s)
  BY <1>0, <1>1, <1>2, <1>3 DEF TablesAllow, MayHold, Shape
<1>7. RowsAllow(tx.db, s) /\ NewRows(tx.db, s) = tx.db.rows /\ Careful(s)
  BY <1>1 DEF RowsAllow, NewRows, Careful
<1>8. /\ Good(tx \bullet s, Put(S, t, Altered(Shape(C, I, K), s)))
      /\ (tx \bullet s).db.rows = NewRows(tx.db, s)
  BY <1>1, <1>5, <1>6, <1>7, AlterationGoes DEF T
<1>9. QED
  BY <1>4, <1>7, <1>8 DEF s

\* ADD CONSTRAINT ... NOT VALID, of a foreign key.
LEMMA ForeignKeyDeclared ==
    ASSUME NEW tx, NEW S, NEW t, NEW C, NEW I, NEW K, NEW k,
           Good(tx, Put(S, t, Shape(C, I, K))), k.columns \subseteq C, k.kind = "foreign",
           \A other \in K : other.name # k.name,
           k.refs \in DOMAIN Put(S, t, Shape(C, I, K))
    PROVE  /\ Good(tx \bullet AddNotValid(t, k), Put(S, t, Shape(C, I, K \cup {k})))
           /\ (tx \bullet AddNotValid(t, k)).db.rows = tx.db.rows
<1> DEFINE s == AddNotValid(t, k)
           T == Put(S, t, Shape(C, I, K))
<1>1. s.op = "add_not_valid" /\ s.table = t /\ s.constraint = k
  BY DEF AddNotValid
<1>2. t \in DOMAIN T /\ T[t] = Shape(C, I, K) /\ Named(T) /\ k.refs \in DOMAIN T
  BY DEF Put, Good
<1> HIDE DEF s, T
<1>4. Altered(Shape(C, I, K), s) = Shape(C, I, K \cup {k})
  BY <1>1 DEF Altered, Shape
<1>5. NamesOf(Altered(Shape(C, I, K), s)) \subseteq OwnNames[t]
  <2>1. NamesOf(T[t]) \subseteq OwnNames[t]
    BY <1>2 DEF Named
  <2>2. QED
    BY <1>2, <1>4, <2>1, NamesOfShape
<1>6. TablesAllow(T, s)
  BY <1>1, <1>2 DEF TablesAllow, MayHold, Shape
<1>7. RowsAllow(tx.db, s) /\ NewRows(tx.db, s) = tx.db.rows /\ Careful(s)
  BY <1>1 DEF RowsAllow, NewRows, Careful
<1>8. /\ Good(tx \bullet s, Put(S, t, Altered(Shape(C, I, K), s)))
      /\ (tx \bullet s).db.rows = NewRows(tx.db, s)
  BY <1>1, <1>5, <1>6, <1>7, AlterationGoes DEF T
<1>9. QED
  BY <1>4, <1>7, <1>8 DEF s

\* DROP CONSTRAINT.
LEMMA ConstraintDropped ==
    ASSUME NEW tx, NEW S, NEW t, NEW C, NEW I, NEW K, NEW k, NEW n, k.name = n,
           Good(tx, Put(S, t, Shape(C, I, K \cup {k}))), \A other \in K : other.name # n
    PROVE  Good(tx \bullet DropConstraint(n, t), Put(S, t, Shape(C, I, K)))
<1> DEFINE s == DropConstraint(n, t)
           T == Put(S, t, Shape(C, I, K \cup {k}))
<1>1. s.op = "drop_constraint" /\ s.table = t /\ s.name = n
  BY DEF DropConstraint
<1>2. t \in DOMAIN T /\ T[t] = Shape(C, I, K \cup {k}) /\ Named(T)
  BY DEF Put, Good
<1> HIDE DEF s, T
<1>4. Altered(Shape(C, I, K \cup {k}), s) = Shape(C, I, K)
  BY <1>1 DEF Altered, Shape
<1>5. NamesOf(Altered(Shape(C, I, K \cup {k}), s)) \subseteq OwnNames[t]
  <2>1. NamesOf(T[t]) \subseteq OwnNames[t]
    BY <1>2 DEF Named
  <2>2. QED
    BY <1>2, <1>4, <2>1, NamesOfShape
<1>6. TablesAllow(T, s)
  BY <1>1, <1>2 DEF TablesAllow, Shape
<1>7. RowsAllow(tx.db, s) /\ Careful(s)
  BY <1>1 DEF RowsAllow, Careful
<1>8. Good(tx \bullet s, Put(S, t, Altered(Shape(C, I, K \cup {k}), s)))
  BY <1>1, <1>5, <1>6, <1>7, AlterationGoes DEF T
<1>9. QED
  BY <1>4, <1>8 DEF s

\* None of these touches a row.
LEMMA RowsStay ==
    ASSUME NEW tx, NEW t, NEW k
    PROVE  /\ (tx \bullet DropConstraint(k, t)).db.rows = tx.db.rows
           /\ (tx \bullet AddConstraint(t, k)).db.rows = tx.db.rows
           /\ (tx \bullet AddRequired(t, k)).db.rows = tx.db.rows
<1>1. ASSUME NEW s, s.op \in {"drop_constraint", "add_constraint", "add_required"}
      PROVE  (tx \bullet s).db.rows = tx.db.rows
  <2>1. Execute(tx.db, s).rows = tx.db.rows
    BY <1>1 DEF Execute, NewRows
  <2>2. Executed(tx, s).db.rows = tx.db.rows
    BY <2>1 DEF Executed
  <2>3. QED
    BY <2>2 DEF \bullet
<1>2. /\ DropConstraint(k, t).op = "drop_constraint" /\ AddConstraint(t, k).op = "add_constraint"
      /\ AddRequired(t, k).op = "add_required"
  BY DEF DropConstraint, AddConstraint, AddRequired
<1>3. QED
  BY <1>1, <1>2

\* ADD COLUMN, with the value it gives to the rows there are.
LEMMA ColumnAdded ==
    ASSUME NEW tx, NEW S, NEW t, NEW C, NEW I, NEW K, NEW c, NEW value,
           Good(tx, Put(S, t, Shape(C, I, K))), c \notin C
    PROVE  LET after == tx \bullet AddColumn(t, c, value)
           IN  /\ Good(after, Put(S, t, Shape(C \cup {c}, I, K)))
               /\ \A u \in DOMAIN tx.db.rows \ {t} : after.db.rows[u] = tx.db.rows[u]
               /\ \A q \in after.db.rows[t] :
                    q[c] = value /\ \E r \in tx.db.rows[t] : \A x \in C : q[x] = r[x]
<1> DEFINE s == AddColumn(t, c, value)
           T == Put(S, t, Shape(C, I, K))
<1>1. s.op = "add_column" /\ s.table = t /\ s.column = c /\ s.value = value
  BY DEF AddColumn
<1>2. t \in DOMAIN T /\ T[t] = Shape(C, I, K) /\ Named(T) /\ tx.db.tables = T /\ Sound(tx.db)
  BY DEF Put, Good
<1> HIDE DEF s, T
<1>3. Altered(Shape(C, I, K), s) = Shape(C \cup {c}, I, K)
  BY <1>1 DEF Altered, Shape
<1>4. NamesOf(Altered(Shape(C, I, K), s)) \subseteq OwnNames[t]
  BY <1>2, <1>3, NamesOfShape DEF Named
<1>5. TablesAllow(T, s)
  BY <1>1, <1>2 DEF TablesAllow, Shape
<1>6. RowsAllow(tx.db, s) /\ Careful(s)
  BY <1>1 DEF RowsAllow, Careful
<1>7. NewRows(tx.db, s) = [tx.db.rows EXCEPT ![t] = {With(r, [x \in {c} |-> value]) : r \in @}]
  BY <1>1 DEF NewRows
<1>8. /\ Good(tx \bullet s, Put(S, t, Altered(Shape(C, I, K), s)))
      /\ (tx \bullet s).db.rows = NewRows(tx.db, s)
  BY <1>1, <1>4, <1>5, <1>6, AlterationGoes DEF T
<1>9. t \in DOMAIN tx.db.rows /\ \A r \in tx.db.rows[t] : DOMAIN r = C
  BY <1>2 DEF Sound, Fits, Shape
<1>10. /\ \A u \in DOMAIN tx.db.rows \ {t} : (tx \bullet s).db.rows[u] = tx.db.rows[u]
       /\ (tx \bullet s).db.rows[t] = {With(r, [x \in {c} |-> value]) : r \in tx.db.rows[t]}
  BY <1>7, <1>8, <1>9
<1>11. \A r \in tx.db.rows[t] :
          /\ With(r, [x \in {c} |-> value])[c] = value
          /\ \A x \in C : With(r, [y \in {c} |-> value])[x] = r[x]
  BY <1>9 DEF With
<1>12. QED
  BY <1>3, <1>8, <1>10, <1>11 DEF s

\* ADD COLUMN ... NOT NULL without a value, on a table with no rows.
LEMMA RequiredAdded ==
    ASSUME NEW tx, NEW S, NEW t, NEW C, NEW I, NEW K, NEW c,
           Good(tx, Put(S, t, Shape(C, I, K))), c \notin C, tx.db.rows[t] = {}
    PROVE  /\ Good(tx \bullet AddRequired(t, c), Put(S, t, Shape(C \cup {c}, I, K)))
           /\ (tx \bullet AddRequired(t, c)).db.rows = tx.db.rows
<1> DEFINE s == AddRequired(t, c)
           T == Put(S, t, Shape(C, I, K))
<1>1. s.op = "add_required" /\ s.table = t /\ s.column = c
  BY DEF AddRequired
<1>2. t \in DOMAIN T /\ T[t] = Shape(C, I, K) /\ Named(T)
  BY DEF Put, Good
<1> HIDE DEF s, T
<1>3. Altered(Shape(C, I, K), s) = Shape(C \cup {c}, I, K)
  BY <1>1 DEF Altered, Shape
<1>4. NamesOf(Altered(Shape(C, I, K), s)) \subseteq OwnNames[t]
  BY <1>2, <1>3, NamesOfShape DEF Named
<1>5. TablesAllow(T, s)
  BY <1>1, <1>2 DEF TablesAllow, Shape
<1>6. RowsAllow(tx.db, s) /\ NewRows(tx.db, s) = tx.db.rows /\ Careful(s)
  BY <1>1 DEF RowsAllow, NewRows, Careful
<1>7. /\ Good(tx \bullet s, Put(S, t, Altered(Shape(C, I, K), s)))
      /\ (tx \bullet s).db.rows = NewRows(tx.db, s)
  BY <1>1, <1>4, <1>5, <1>6, AlterationGoes DEF T
<1>8. QED
  BY <1>3, <1>6, <1>7 DEF s

\* DROP COLUMN: the indexes and constraints that stay are those not on the column.
LEMMA ColumnDropped ==
    ASSUME NEW tx, NEW S, NEW t, NEW C, NEW I, NEW K, NEW c, NEW L,
           Good(tx, Put(S, t, Shape(C \cup {c}, I, K))), c \notin C,
           \A i \in I : c \notin i.columns, L = {k \in K : c \notin k.columns}
    PROVE  LET after == tx \bullet DropColumn(t, c)
           IN  /\ Good(after, Put(S, t, Shape(C, I, L)))
               /\ \A u \in DOMAIN tx.db.rows \ {t} : after.db.rows[u] = tx.db.rows[u]
               /\ tx.db.rows[t] = {} => after.db.rows[t] = {}
<1> DEFINE s == DropColumn(t, c)
           T == Put(S, t, Shape(C \cup {c}, I, K))
<1>1. s.op = "drop_column" /\ s.table = t /\ s.column = c
  BY DEF DropColumn
<1>2. /\ t \in DOMAIN T /\ T[t] = Shape(C \cup {c}, I, K) /\ Named(T)
      /\ tx.db.tables = T /\ Sound(tx.db)
  BY DEF Put, Good
<1> HIDE DEF s, T
<1>3. Altered(Shape(C \cup {c}, I, K), s) = Shape(C, I, L)
  BY <1>1 DEF Altered, Shape
<1>4. NamesOf(Altered(Shape(C \cup {c}, I, K), s)) \subseteq OwnNames[t]
  <2>1. NamesOf(T[t]) \subseteq OwnNames[t]
    BY <1>2 DEF Named
  <2>2. QED
    BY <1>2, <1>3, <2>1, NamesOfShape
<1>5. TablesAllow(T, s)
  BY <1>1, <1>2 DEF TablesAllow, Shape
<1>6. RowsAllow(tx.db, s) /\ Careful(s)
  BY <1>1 DEF RowsAllow, Careful
<1>7. NewRows(tx.db, s) = [tx.db.rows EXCEPT ![t] = {Without(r, {c}) : r \in @}]
  BY <1>1 DEF NewRows
<1>8. /\ Good(tx \bullet s, Put(S, t, Altered(Shape(C \cup {c}, I, K), s)))
      /\ (tx \bullet s).db.rows = NewRows(tx.db, s)
  BY <1>1, <1>4, <1>5, <1>6, AlterationGoes DEF T
<1>9. t \in DOMAIN tx.db.rows
  BY <1>2 DEF Sound
<1>10. QED
  BY <1>3, <1>7, <1>8, <1>9 DEF s

\* DELETE: of all rows but those with the values of a pattern, if one is given.
LEMMA RowsDeleted ==
    ASSUME NEW tx, NEW S, NEW t, NEW shape, NEW except,
           Good(tx, Put(S, t, shape)), \A p \in except : DOMAIN p \subseteq shape.columns
    PROVE  LET after == tx \bullet [op |-> "delete", table |-> t, except |-> except]
           IN  /\ Good(after, Put(S, t, shape))
               /\ \A u \in DOMAIN tx.db.rows : after.db.rows[u] \subseteq tx.db.rows[u]
               /\ \A r \in after.db.rows[t] : \E p \in except : \A c \in DOMAIN p : r[c] = p[c]
<1> DEFINE s == [op |-> "delete", table |-> t, except |-> except]
           T == Put(S, t, shape)
           gone == {r \in tx.db.rows[t] : \A p \in except : \E c \in DOMAIN p : r[c] # p[c]}
<1>1. s.op = "delete" /\ s.table = t /\ s.except = except
  OBVIOUS
<1>2. /\ t \in DOMAIN T /\ T[t] = shape /\ Named(T)
      /\ tx.db.tables = T /\ Sound(tx.db)
  BY DEF Put, Good
<1> HIDE DEF s, T, gone
<1>3. Altered(shape, s) = shape
  BY <1>1 DEF Altered
<1>4. NamesOf(Altered(shape, s)) \subseteq OwnNames[t]
  BY <1>2, <1>3 DEF Named
<1>5. TablesAllow(T, s)
  BY <1>1, <1>2 DEF TablesAllow
<1>6. RowsAllow(tx.db, s) /\ Careful(s)
  BY <1>1 DEF RowsAllow, Careful
<1>7. NewRows(tx.db, s) = Delete(tx.db, t, gone)
  <2>1. NewRows(tx.db, s) = Delete(tx.db, s.table, {r \in tx.db.rows[s.table] :
                \A pattern \in s.except : \E c \in DOMAIN pattern : r[c] # pattern[c]})
    BY <1>1 DEF NewRows
  <2>2. QED
    BY <1>1, <2>1 DEF gone
<1>8. /\ Good(tx \bullet s, Put(S, t, Altered(shape, s)))
      /\ (tx \bullet s).db.rows = NewRows(tx.db, s)
  BY <1>1, <1>4, <1>5, <1>6, AlterationGoes DEF T
<1>9. t \in DOMAIN tx.db.rows
  BY <1>2 DEF Sound
<1>10. /\ \A u \in DOMAIN tx.db.rows : (tx \bullet s).db.rows[u] \subseteq tx.db.rows[u]
       /\ (tx \bullet s).db.rows[t] \cap gone = {}
  BY <1>7, <1>8, <1>9, DeletionOnlyRemoves
<1>11. \A r \in (tx \bullet s).db.rows[t] : \E p \in except : \A c \in DOMAIN p : r[c] = p[c]
  BY <1>9, <1>10 DEF gone
<1>12. QED
  BY <1>3, <1>8, <1>10, <1>11 DEF s

\* UPDATE of every row, of columns in no key and to values the checks allow.
LEMMA RowsUpdated ==
    ASSUME NEW tx, NEW S, NEW t, NEW shape, NEW values,
           Good(tx, Put(S, t, shape)), DOMAIN values \subseteq shape.columns,
           \A k \in shape.constraints :
               \/ k.kind \in {"unique", "check"} /\ k.columns \cap DOMAIN values = {}
               \/ k.kind = "check" /\ \A c \in k.columns :
                    c \in DOMAIN values /\ values[c] \in k.values
    PROVE  LET after == tx \bullet UpdateAll(t, values)
           IN  /\ Good(after, Put(S, t, shape))
               /\ \A u \in DOMAIN tx.db.rows \ {t} : after.db.rows[u] = tx.db.rows[u]
               /\ \A r \in after.db.rows[t] : \A c \in DOMAIN values : r[c] = values[c]
<1> DEFINE s == UpdateAll(t, values)
           T == Put(S, t, shape)
           updated == {With(r, values) : r \in tx.db.rows[t]}
<1>1. s.op = "update" /\ s.table = t /\ s.values = values
  BY DEF UpdateAll
<1>2. /\ t \in DOMAIN T /\ T[t] = shape /\ Named(T)
      /\ tx.db.tables = T /\ Sound(tx.db)
  BY DEF Put, Good
<1> HIDE DEF s, T
<1>3. Altered(shape, s) = shape
  BY <1>1 DEF Altered
<1>4. NamesOf(Altered(shape, s)) \subseteq OwnNames[t]
  BY <1>2, <1>3 DEF Named
<1>5. TablesAllow(T, s)
  BY <1>1, <1>2 DEF TablesAllow
<1>6. /\ t \in DOMAIN tx.db.rows /\ Fits(shape, tx.db.rows[t])
      /\ NewRows(tx.db, s) = [tx.db.rows EXCEPT ![t] = {With(r, values) : r \in @}]
  BY <1>1, <1>2 DEF NewRows, Sound
<1>7. NewRows(tx.db, s)[t] = updated /\ Execute(tx.db, s).rows[t] = updated
  BY <1>6 DEF Execute
<1>8. \A r \in tx.db.rows[t] : \A c :
          /\ c \in DOMAIN values => With(r, values)[c] = values[c]
          /\ c \in shape.columns \ DOMAIN values => With(r, values)[c] = r[c]
  BY <1>6 DEF With, Fits
<1>9. \A k \in shape.constraints : \A r \in updated : Satisfies(Execute(tx.db, s), t, k, r)
  <2> SUFFICES ASSUME NEW k \in shape.constraints, NEW r \in tx.db.rows[t]
               PROVE  Satisfies(Execute(tx.db, s), t, k, With(r, values))
    OBVIOUS
  <2>1. k.columns \subseteq shape.columns /\ Holds(k, tx.db.rows[t])
    BY <1>6 DEF Fits
  <2>2. CASE k.columns \cap DOMAIN values = {} /\ k.kind = "unique"
    <3>1. \A q \in tx.db.rows[t] : (\A c \in k.columns : q[c] = r[c]) => q = r
      BY <2>1, <2>2 DEF Holds
    <3>2. \A q \in tx.db.rows[t] : \A c \in k.columns : With(q, values)[c] = q[c]
      BY <1>8, <2>1, <2>2
    <3>3. \A q \in tx.db.rows[t] :
            (\A c \in k.columns : With(q, values)[c] = With(r, values)[c]) => q = r
      BY <3>1, <3>2
    <3>4. QED
      BY <1>7, <2>2, <3>3 DEF Satisfies
  <2>3. CASE k.columns \cap DOMAIN values = {} /\ k.kind = "check"
    <3>1. \A c \in k.columns : r[c] \in k.values \cup {Null}
      BY <2>1, <2>3 DEF Holds
    <3>2. QED
      BY <1>8, <2>1, <2>3, <3>1 DEF Satisfies
  <2>4. CASE k.kind = "check" /\ \A c \in k.columns : c \in DOMAIN values /\ values[c] \in k.values
    BY <1>8, <2>4 DEF Satisfies
  <2>5. QED
    BY <2>2, <2>3, <2>4
<1>10. RowsAllow(tx.db, s) /\ Careful(s)
  <2>1. tx.db.tables[t] = shape
    BY <1>2
  <2>2. QED
    BY <1>1, <1>7, <1>9, <2>1 DEF RowsAllow, Careful
<1>11. /\ Good(tx \bullet s, Put(S, t, Altered(shape, s)))
       /\ (tx \bullet s).db.rows = NewRows(tx.db, s)
  BY <1>1, <1>4, <1>5, <1>10, AlterationGoes DEF T
<1>12. \A u \in DOMAIN tx.db.rows \ {t} : (tx \bullet s).db.rows[u] = tx.db.rows[u]
  BY <1>6, <1>11
<1>13. \A r \in (tx \bullet s).db.rows[t] : \A c \in DOMAIN values : r[c] = values[c]
  BY <1>7, <1>8, <1>11
<1>14. QED
  BY <1>3, <1>11, <1>12, <1>13 DEF s

\* CREATE TABLE.
LEMMA TableCreated ==
    ASSUME NEW tx, NEW S, Good(tx, S), NEW t \in DOMAIN OwnNames \ DOMAIN S, NEW C, NEW K,
           \A k \in K : /\ k.columns \subseteq C
                        /\ k.kind = "unique" => k.name \in OwnNames[t]
                        /\ k.kind = "foreign" => k.refs \in DOMAIN S
    PROVE  LET after == tx \bullet CreateTable(t, C, K)
           IN  /\ Good(after, Put(S, t, Shape(C, {}, K)))
               /\ after.db.rows = [u \in DOMAIN S \cup {t} |-> IF u = t THEN {} ELSE tx.db.rows[u]]
<1> DEFINE s == CreateTable(t, C, K)
<1>1. s.op = "create_table" /\ s.table = t /\ s.columns = C /\ s.constraints = K
  BY DEF CreateTable
<1> HIDE DEF s
<1>2. Reshaped(S, s) = Put(S, t, Shape(C, {}, K))
  BY <1>1 DEF Reshaped, Put
<1>3. NamesOf(Shape(C, {}, K)) \subseteq OwnNames[t] /\ Named(S)
  BY NamesOfShape DEF Good
<1>4. Named(Reshaped(S, s))
  BY <1>2, <1>3 DEF Named, Put
<1>5. \A n \in OwnNames[t] : n \notin Relations(S)
  BY <1>3, NameIsFree
<1>6. t \notin Relations(S)
  <2>1. \A u \in DOMAIN S : t \notin NamesOf(S[u])
    BY <1>3, NamesDiffer DEF Named
  <2>2. QED
    BY <2>1 DEF Relations
<1>7. \A k \in K : MayHold(S, Shape(C, {}, {}), k)
  BY <1>5 DEF MayHold, Shape
<1>8. TablesAllow(S, s)
  BY <1>1, <1>6, <1>7 DEF TablesAllow
<1>9. RowsAllow(tx.db, s) /\ Careful(s)
  BY <1>1 DEF RowsAllow, Careful
<1>10. Good(tx \bullet s, Reshaped(S, s)) /\ (tx \bullet s).db.rows = NewRows(tx.db, s)
  BY <1>1, <1>4, <1>8, <1>9, StatementGoes
<1>11. NewRows(tx.db, s) = [u \in DOMAIN tx.db.rows \cup {t} |-> IF u = t THEN {} ELSE tx.db.rows[u]]
  BY <1>1 DEF NewRows
<1>12. DOMAIN tx.db.rows = DOMAIN S
  BY DEF Good, Sound
<1>13. QED
  BY <1>2, <1>10, <1>11, <1>12 DEF s

\* DROP TABLE of a table nothing refers to.
LEMMA TableDropped ==
    ASSUME NEW tx, NEW S, NEW t, NEW shape, Good(tx, Put(S, t, shape)), t \notin DOMAIN S,
           S = [u \in DOMAIN S |-> S[u]],
           \A u \in DOMAIN S : \A k \in S[u].constraints : k.refs # t
    PROVE  LET after == tx \bullet DropTable(t)
           IN  Good(after, S) /\ \A u \in DOMAIN S : after.db.rows[u] = tx.db.rows[u]
<1> DEFINE s == DropTable(t)
           T == Put(S, t, shape)
<1>1. s.op = "drop_table" /\ s.table = t
  BY DEF DropTable
<1>2. /\ DOMAIN T = DOMAIN S \cup {t} /\ \A u \in DOMAIN S : T[u] = S[u]
      /\ Named(T) /\ Sound(tx.db) /\ tx.db.tables = T
  BY DEF Put, Good
<1>3. Without(T, {t}) = S
  <2>1. Without(T, {t}) = [u \in DOMAIN S |-> S[u]]
    BY <1>2 DEF Without
  <2>2. QED
    BY <2>1
<1> HIDE DEF s, T
<1>4. Reshaped(T, s) = S
  BY <1>1, <1>3 DEF Reshaped
<1>5. Named(S)
  BY <1>2 DEF Named
<1>6. TablesAllow(T, s)
  BY <1>1, <1>2 DEF TablesAllow
<1>7. RowsAllow(tx.db, s) /\ Careful(s) /\ NewRows(tx.db, s) = Without(tx.db.rows, {t})
  BY <1>1 DEF RowsAllow, Careful, NewRows
<1>8. Good(tx, T) /\ s.table \in DOMAIN T
  BY <1>1, <1>2 DEF T
<1>9. Good(tx \bullet s, S) /\ (tx \bullet s).db.rows = NewRows(tx.db, s)
  BY <1>4, <1>5, <1>6, <1>7, <1>8, StatementGoes
<1>10. DOMAIN tx.db.rows = DOMAIN S \cup {t}
  BY <1>2 DEF Sound
<1>11. QED
  BY <1>7, <1>9, <1>10 DEF Without, s

\* The carry over of 06 touches no key, and gives each document a status that exists.
LEMMA StatusesCarriedOver ==
    ASSUME NEW tx, NEW S, NEW shape, Good(tx, Put(S, "documents", shape)),
           "ingestions" \in DOMAIN S, {"status", "error", "published"} \subseteq shape.columns,
           \A k \in shape.constraints :
               \/ k.kind \in {"unique", "check"} /\ k.columns \cap {"status", "error", "published"} = {}
               \/ k.kind = "check" /\ k.columns = {"status"} /\ DocumentStatus \subseteq k.values
    PROVE  LET after == tx \bullet CarryOver
           IN  /\ Good(after, Put(S, "documents", shape))
               /\ \A u \in DOMAIN tx.db.rows \ {"documents"} : after.db.rows[u] = tx.db.rows[u]
<1> DEFINE t == "documents"
           s == CarryOver
           T == Put(S, t, shape)
           carried == {Carried(tx.db, r) : r \in tx.db.rows[t]}
<1>1. s.op = "carry_over" /\ s.table = t
  BY DEF CarryOver
<1>2. /\ t \in DOMAIN T /\ T[t] = shape /\ Named(T) /\ "ingestions" \in DOMAIN T
      /\ tx.db.tables = T /\ Sound(tx.db)
  BY DEF Put, Good
<1> HIDE DEF s, T
<1>3. Altered(shape, s) = shape
  BY <1>1 DEF Altered
<1>4. NamesOf(Altered(shape, s)) \subseteq OwnNames[t]
  BY <1>2, <1>3 DEF Named
<1>5. TablesAllow(T, s)
  BY <1>1, <1>2 DEF TablesAllow
<1>6. /\ t \in DOMAIN tx.db.rows /\ Fits(shape, tx.db.rows[t])
      /\ NewRows(tx.db, s) = [tx.db.rows EXCEPT ![t] = {Carried(tx.db, r) : r \in @}]
  BY <1>1, <1>2 DEF NewRows, Sound
<1>7. NewRows(tx.db, s)[t] = carried /\ Execute(tx.db, s).rows[t] = carried
  BY <1>6 DEF Execute
<1>8. \A i : StatusFrom(i) \in DocumentStatus
  BY DEF StatusFrom, DocumentStatus
<1>9. \A r \in tx.db.rows[t] :
        /\ \A c \in shape.columns \ {"status", "error", "published"} : Carried(tx.db, r)[c] = r[c]
        /\ Carried(tx.db, r)["status"] \in DocumentStatus \cup {r["status"]}
  BY <1>6, <1>8 DEF Carried, Fits
<1>10. \A k \in shape.constraints : \A r \in carried : Satisfies(Execute(tx.db, s), t, k, r)
  <2> SUFFICES ASSUME NEW k \in shape.constraints, NEW r \in tx.db.rows[t]
               PROVE  Satisfies(Execute(tx.db, s), t, k, Carried(tx.db, r))
    OBVIOUS
  <2>1. k.columns \subseteq shape.columns /\ Holds(k, tx.db.rows[t])
    BY <1>6 DEF Fits
  <2>2. CASE k.columns \cap {"status", "error", "published"} = {} /\ k.kind = "unique"
    <3>1. \A q \in tx.db.rows[t] : (\A c \in k.columns : q[c] = r[c]) => q = r
      BY <2>1, <2>2 DEF Holds
    <3>2. \A q \in tx.db.rows[t] : \A c \in k.columns : Carried(tx.db, q)[c] = q[c]
      BY <1>9, <2>1, <2>2
    <3>3. \A q \in tx.db.rows[t] :
            (\A c \in k.columns : Carried(tx.db, q)[c] = Carried(tx.db, r)[c]) => q = r
      BY <3>1, <3>2
    <3>4. QED
      BY <1>7, <2>2, <3>3 DEF Satisfies
  <2>3. CASE k.columns \cap {"status", "error", "published"} = {} /\ k.kind = "check"
    <3>1. \A c \in k.columns : r[c] \in k.values \cup {Null}
      BY <2>1, <2>3 DEF Holds
    <3>2. QED
      BY <1>9, <2>1, <2>3, <3>1 DEF Satisfies
  <2>4. CASE k.kind = "check" /\ k.columns = {"status"} /\ DocumentStatus \subseteq k.values
    <3>1. r["status"] \in k.values \cup {Null}
      BY <2>1, <2>4 DEF Holds
    <3>2. QED
      BY <1>9, <2>4, <3>1 DEF Satisfies
  <2>5. QED
    BY <2>2, <2>3, <2>4
<1>11. RowsAllow(tx.db, s) /\ Careful(s)
  <2>1. tx.db.tables[t] = shape
    BY <1>2
  <2>2. QED
    BY <1>1, <1>7, <1>10, <2>1 DEF RowsAllow, Careful
<1>12. /\ Good(tx \bullet s, Put(S, t, Altered(shape, s)))
       /\ (tx \bullet s).db.rows = NewRows(tx.db, s)
  BY <1>1, <1>4, <1>5, <1>11, AlterationGoes DEF T
<1>13. \A u \in DOMAIN tx.db.rows \ {t} : (tx \bullet s).db.rows[u] = tx.db.rows[u]
  BY <1>6, <1>12
<1>14. QED
  BY <1>3, <1>12, <1>13 DEF s

\* A table and the index it comes with.
LEMMA IndexedTableCreated ==
    ASSUME NEW tx, NEW S, Good(tx, S), NEW t \in DOMAIN OwnNames \ DOMAIN S, NEW C, NEW K,
           \A k \in K : /\ k.columns \subseteq C
                        /\ k.kind = "unique" => k.name \in OwnNames[t]
                        /\ k.kind = "foreign" => k.refs \in DOMAIN S,
           NEW n \in OwnNames[t], NEW cols, cols \subseteq C, \A k \in K : k.name # n
    PROVE  LET after == tx \bullet CreateTable(t, C, K) \bullet CreateIndex(n, t, cols)
           IN  /\ Good(after, Put(S, t, Shape(C, {Index(n, cols)}, K)))
               /\ after.db.rows = [u \in DOMAIN S \cup {t} |-> IF u = t THEN {} ELSE tx.db.rows[u]]
<1> DEFINE made == tx \bullet CreateTable(t, C, K)
<1>1. /\ Good(made, Put(S, t, Shape(C, {}, K)))
      /\ made.db.rows = [u \in DOMAIN S \cup {t} |-> IF u = t THEN {} ELSE tx.db.rows[u]]
  BY TableCreated
<1> HIDE DEF made
<1>2. /\ Good(made \bullet CreateIndex(n, t, cols), Put(S, t, Shape(C, {Index(n, cols)}, K)))
      /\ (made \bullet CreateIndex(n, t, cols)).db.rows = made.db.rows
  BY <1>1, IndexMade
<1>3. QED
  BY <1>1, <1>2 DEF made

\* DROP TABLE after DROP INDEX undoes that.
LEMMA IndexedTableDropped ==
    ASSUME NEW tx, NEW S, NEW t, NEW C, NEW K, NEW n, NEW cols,
           Good(tx, Put(S, t, Shape(C, {Index(n, cols)}, K))),
           t \notin DOMAIN S, S = [u \in DOMAIN S |-> S[u]],
           \A u \in DOMAIN S : \A k \in S[u].constraints : k.refs # t
    PROVE  LET after == tx \bullet DropIndex(n, t) \bullet DropTable(t)
           IN  Good(after, S) /\ \A u \in DOMAIN S : after.db.rows[u] = tx.db.rows[u]
<1> DEFINE bare == tx \bullet DropIndex(n, t)
<1>1. Good(bare, Put(S, t, Shape(C, {}, K))) /\ bare.db.rows = tx.db.rows
  BY IndexDropped
<1> HIDE DEF bare
<1>2. /\ Good(bare \bullet DropTable(t), S)
      /\ \A u \in DOMAIN S : (bare \bullet DropTable(t)).db.rows[u] = bare.db.rows[u]
  BY <1>1, TableDropped
<1>3. QED
  BY <1>1, <1>2 DEF bare

-----------------------------------------------------------------------------
(* The tables of each revision.                                               *)

IngestionsTable(foreign) ==
    Shape({"ingestion_id", "document_id", "source_sha256", "pipeline_version", "status",
           "outputs", "error", "updated_at"},
          {Index("ingestions_status_idx", {"status", "updated_at"})},
          foreign \cup
          {Unique("ingestions_pkey", {"ingestion_id"}),
           Unique("ingestions_source_pipeline_key", {"source_sha256", "pipeline_version"}),
           Check("ingestions_sha256_check", "source_sha256", Sha),
           Check("ingestions_status_check", "status", IngestionStatus)})

ChunkEmbeddingsTable ==
    Shape({"ingestion_id", "document_id", "chunk_index", "dense_model", "sparse_model"},
          {Index("chunk_embeddings_document_idx", {"document_id", "ingestion_id"})},
          {Unique("chunk_embeddings_pkey",
              {"ingestion_id", "chunk_index", "dense_model", "sparse_model"})})

UploadsTable ==
    Shape({"upload_id", "status", "document_id", "expires_at"},
          {Index("uploads_status_idx", {"status", "expires_at"})},
          {Unique("uploads_pkey", {"upload_id"}),
           Check("uploads_status_check", "status", {"pending", "committed"}),
           Foreign("uploads_document_id_fkey", "document_id", "documents")})

DocumentColumns == {"document_id", "content_id", "created_at"}
DocumentKeys ==
    {Unique("documents_pkey", {"document_id"}),
     Check("documents_content_check", "content_id", Sha),
     Unique("documents_content_key", {"content_id"})}
CreatedIndex == Index("documents_created_idx", {"created_at"})
StatusCheck == Check("documents_status_check", "status", DocumentStatus)
DocumentsTable == Shape(DocumentColumns, {CreatedIndex}, DocumentKeys)
DocumentsWithStatus ==
    Shape(DocumentColumns \cup {"status"} \cup {"error"} \cup {"published"}, {CreatedIndex},
          DocumentKeys \cup {StatusCheck})

ChunkColumns == {"chunk_id", "chunker_name", "chunker_version", "chunk_index"}
ChunkId == Unique("chunks_pkey", {"chunk_id"})
ByChunker == Index("chunks_chunker_idx", {"chunker_name", "chunker_version"})
ByOperators == Index("chunks_operators_idx", ChunkOperators)
ChunksOfExtraction == Foreign("chunks_extraction_id_fkey", "extraction_id", "extractions")
ReuseByExtraction == Unique("chunks_reuse_key", KeyOfExtraction)
ChunksByChunker ==
    Shape(ChunkColumns \cup {"document_id"}, {ByChunker},
          {ChunkId} \cup {ChunksOfDocument} \cup {ReuseByChunker})
ChunksByOperators ==
    Shape(ChunkColumns \cup {"document_id"} \cup {"extractor_name"} \cup {"extractor_version"},
          {ByOperators}, {ChunkId} \cup {ChunksOfDocument} \cup {ReuseByOperators})
ChunksByExtraction ==
    Shape(ChunkColumns \cup {"extraction_id"}, {ByChunker},
          {ChunkId} \cup {ChunksOfExtraction} \cup {ReuseByExtraction})

EmbeddingsTable ==
    Shape({"chunk_id", "embedder_name", "embedder_version"},
          {Index("embeddings_embedder_idx", {"embedder_name", "embedder_version"})},
          {Unique("embeddings_pkey", {"chunk_id", "embedder_name", "embedder_version"}),
           Foreign("embeddings_chunk_id_fkey", "chunk_id", "chunks")})

ExtractionsTable ==
    Shape({"extraction_id", "document_id", "extractor_name", "extractor_version"}, {},
          {Unique("extractions_pkey", {"extraction_id"}),
           Foreign("extractions_document_id_fkey", "document_id", "documents"),
           Unique("extractions_reuse_key", {"document_id", "extractor_name", "extractor_version"})})

TablesAt(r) ==
    {t \in {"ingestions"} : r \in 1..5} \cup {t \in {"chunk_embeddings"} : r \in 2..9} \cup
    {t \in {"documents"} : r \in 3..9} \cup {t \in {"uploads"} : r \in 3..6} \cup
    {t \in {"chunks"} : r \in 4..9} \cup {t \in {"embeddings"} : r \in 5..9} \cup
    {t \in {"extractions"} : r = 9}

TableAt(t, r) ==
    CASE t = "ingestions" -> IngestionsTable(IF r < 3 THEN {} ELSE {IngestionOfDocument})
      [] t = "chunk_embeddings" -> ChunkEmbeddingsTable
      [] t = "documents" -> IF r < 6 THEN DocumentsTable ELSE DocumentsWithStatus
      [] t = "uploads" -> UploadsTable
      [] t = "chunks" -> IF r < 8 THEN ChunksByChunker
                         ELSE IF r = 8 THEN ChunksByOperators ELSE ChunksByExtraction
      [] t = "embeddings" -> EmbeddingsTable
      [] t = "extractions" -> ExtractionsTable

Schema(r) == [t \in TablesAt(r) |-> TableAt(t, r)]

\* Each revision in terms of the one below it.
LEMMA SchemaGrows ==
    /\ Schema(1) = Put(Schema(0), "ingestions", IngestionsTable({}))
    /\ Schema(2) = Put(Schema(1), "chunk_embeddings", ChunkEmbeddingsTable)
    /\ Schema(4) = Put(Schema(3), "chunks", ChunksByChunker)
    /\ Schema(5) = Put(Schema(4), "embeddings", EmbeddingsTable)
    /\ Schema(6) = Put(Schema(7), "uploads", UploadsTable)
    /\ Schema(8) = Put(Schema(7), "chunks", ChunksByOperators)
<1>1. Schema(1) = Put(Schema(0), "ingestions", IngestionsTable({}))
  BY DEF Schema, TablesAt, TableAt, Put
<1>2. Schema(2) = Put(Schema(1), "chunk_embeddings", ChunkEmbeddingsTable)
  BY DEF Schema, TablesAt, TableAt, Put
<1>3. Schema(4) = Put(Schema(3), "chunks", ChunksByChunker)
  BY DEF Schema, TablesAt, TableAt, Put
<1>4. Schema(5) = Put(Schema(4), "embeddings", EmbeddingsTable)
  BY DEF Schema, TablesAt, TableAt, Put
<1>5. Schema(6) = Put(Schema(7), "uploads", UploadsTable)
  BY DEF Schema, TablesAt, TableAt, Put
<1>6. Schema(8) = Put(Schema(7), "chunks", ChunksByOperators)
  BY DEF Schema, TablesAt, TableAt, Put
<1>7. QED
  BY <1>1, <1>2, <1>3, <1>4, <1>5, <1>6

\* What the tables refer to: a table that is dropped is referred to by none.
LEMMA References ==
    ASSUME NEW r \in 0..9, NEW t \in TablesAt(r), NEW k \in TableAt(t, r).constraints
    PROVE  \/ k.refs = "none"
           \/ k.refs = "documents" /\ r >= 3
           \/ k.refs = "chunks" /\ t = "embeddings"
           \/ k.refs = "extractions" /\ r = 9
<1>1. CASE t = "ingestions"
  BY <1>1 DEF TableAt, IngestionsTable, Shape, Unique, Check, IngestionOfDocument, Foreign
<1>2. CASE t = "chunk_embeddings"
  BY <1>2 DEF TableAt, ChunkEmbeddingsTable, Shape, Unique
<1>3. CASE t = "documents"
  BY <1>3 DEF TableAt, DocumentsTable, DocumentsWithStatus, DocumentKeys, StatusCheck, Shape, Unique, Check
<1>4. CASE t = "uploads"
  BY <1>4 DEF TableAt, UploadsTable, Shape, Unique, Check, Foreign, TablesAt
<1>5. CASE t = "chunks"
  BY <1>5 DEF TableAt, ChunksByChunker, ChunksByOperators, ChunksByExtraction, Shape, ChunkId, Unique,
              ChunksOfDocument, ChunksOfExtraction, Foreign, ReuseByChunker, ReuseByOperators,
              ReuseByExtraction, TablesAt
<1>6. CASE t = "embeddings"
  BY <1>6 DEF TableAt, EmbeddingsTable, Shape, Unique, Foreign
<1>7. CASE t = "extractions"
  BY <1>7 DEF TableAt, ExtractionsTable, Shape, Unique, Foreign, TablesAt
<1>8. QED
  BY <1>1, <1>2, <1>3, <1>4, <1>5, <1>6, <1>7 DEF TablesAt

-----------------------------------------------------------------------------
(* The revisions, one by one: an upgrade and its downgrade go through, and    *)
(* lead from the tables of a revision to those of the next and back.          *)

\* CreateIngestions, with or without its foreign key (revisions 01 up and 06 down).
LEMMA IngestionsCreated ==
    ASSUME NEW tx, NEW S, Good(tx, S), "ingestions" \notin DOMAIN S, NEW foreign,
           \/ foreign = {}
           \/ foreign = {IngestionOfDocument} /\ "documents" \in DOMAIN S
    PROVE  LET after == CreateIngestions(tx, foreign)
           IN  /\ Good(after, Put(S, "ingestions", IngestionsTable(foreign)))
               /\ \A u \in DOMAIN S : after.db.rows[u] = tx.db.rows[u]
<1> DEFINE C == {"ingestion_id", "document_id", "source_sha256", "pipeline_version", "status",
                 "outputs", "error", "updated_at"}
           K == foreign \cup
                {Unique("ingestions_pkey", {"ingestion_id"}),
                 Unique("ingestions_source_pipeline_key", {"source_sha256", "pipeline_version"}),
                 Check("ingestions_sha256_check", "source_sha256", Sha),
                 Check("ingestions_status_check", "status", IngestionStatus)}
           n == "ingestions_status_idx"
           cols == {"status", "updated_at"}
<1>1. \A k \in K : /\ k.columns \subseteq C
                   /\ k.kind = "unique" => k.name \in OwnNames["ingestions"]
                   /\ k.kind = "foreign" => k.refs \in DOMAIN S
                   /\ k.name # n
  BY DEF Unique, Check, IngestionOfDocument, Foreign, OwnNames
<1>2. cols \subseteq C /\ "ingestions" \in DOMAIN OwnNames /\ n \in OwnNames["ingestions"]
  BY DEF OwnNames
<1>3. IngestionsTable(foreign) = Shape(C, {Index(n, cols)}, K)
  BY DEF IngestionsTable
<1>4. CreateIngestions(tx, foreign) =
        tx \bullet CreateTable("ingestions", C, K) \bullet CreateIndex(n, "ingestions", cols)
  BY DEF CreateIngestions
<1> HIDE DEF C, K, n, cols
<1>5. LET after == tx \bullet CreateTable("ingestions", C, K) \bullet CreateIndex(n, "ingestions", cols)
      IN  /\ Good(after, Put(S, "ingestions", Shape(C, {Index(n, cols)}, K)))
          /\ after.db.rows = [u \in DOMAIN S \cup {"ingestions"} |->
                                IF u = "ingestions" THEN {} ELSE tx.db.rows[u]]
  BY <1>1, <1>2, IndexedTableCreated
<1>6. QED
  BY <1>3, <1>4, <1>5

\* DropIngestions, whatever other tables there are (revisions 01 down and 06 up).
LEMMA IngestionsDropped ==
    ASSUME NEW tx, NEW S, NEW foreign, Good(tx, Put(S, "ingestions", IngestionsTable(foreign))),
           "ingestions" \notin DOMAIN S, S = [u \in DOMAIN S |-> S[u]],
           \A u \in DOMAIN S : \A k \in S[u].constraints : k.refs # "ingestions"
    PROVE  LET after == DropIngestions(tx)
           IN  Good(after, S) /\ \A u \in DOMAIN S : after.db.rows[u] = tx.db.rows[u]
<1>1. PICK C, K : IngestionsTable(foreign) =
                    Shape(C, {Index("ingestions_status_idx", {"status", "updated_at"})}, K)
  BY DEF IngestionsTable
<1>2. QED
  BY <1>1, IndexedTableDropped DEF DropIngestions

\* CreateUploads, once there are documents (revisions 03 up and 07 down).
LEMMA UploadsCreated ==
    ASSUME NEW tx, NEW S, Good(tx, S), "uploads" \notin DOMAIN S, "documents" \in DOMAIN S
    PROVE  Good(CreateUploads(tx), Put(S, "uploads", UploadsTable))
<1> DEFINE C == {"upload_id", "status", "document_id", "expires_at"}
           K == {Unique("uploads_pkey", {"upload_id"}),
                 Check("uploads_status_check", "status", {"pending", "committed"}),
                 Foreign("uploads_document_id_fkey", "document_id", "documents")}
           n == "uploads_status_idx"
           cols == {"status", "expires_at"}
<1>1. \A k \in K : /\ k.columns \subseteq C
                   /\ k.kind = "unique" => k.name \in OwnNames["uploads"]
                   /\ k.kind = "foreign" => k.refs \in DOMAIN S
                   /\ k.name # n
  BY DEF Unique, Check, Foreign, OwnNames
<1>2. cols \subseteq C /\ "uploads" \in DOMAIN OwnNames /\ n \in OwnNames["uploads"]
  BY DEF OwnNames
<1>3. UploadsTable = Shape(C, {Index(n, cols)}, K)
  BY DEF UploadsTable
<1>4. CreateUploads(tx) =
        tx \bullet CreateTable("uploads", C, K) \bullet CreateIndex(n, "uploads", cols)
  BY DEF CreateUploads
<1> HIDE DEF C, K, n, cols
<1>5. Good(tx \bullet CreateTable("uploads", C, K) \bullet CreateIndex(n, "uploads", cols),
           Put(S, "uploads", Shape(C, {Index(n, cols)}, K)))
  BY <1>1, <1>2, IndexedTableCreated
<1>6. QED
  BY <1>3, <1>4, <1>5

\* DropUploads (revisions 03 down and 07 up).
LEMMA UploadsDropped ==
    ASSUME NEW tx, NEW S, Good(tx, Put(S, "uploads", UploadsTable)),
           "uploads" \notin DOMAIN S, S = [u \in DOMAIN S |-> S[u]],
           \A u \in DOMAIN S : \A k \in S[u].constraints : k.refs # "uploads"
    PROVE  Good(DropUploads(tx), S)
<1>1. PICK C, K : UploadsTable = Shape(C, {Index("uploads_status_idx", {"status", "expires_at"})}, K)
  BY DEF UploadsTable
<1>2. QED
  BY <1>1, IndexedTableDropped DEF DropUploads

\* ingestions
LEMMA Revision01 ==
    ASSUME NEW tx
    PROVE  /\ Good(tx, Schema(0)) => Good(Upgrade01(tx), Schema(1))
           /\ Good(tx, Schema(1)) => Good(Downgrade01(tx), Schema(0))
<1>1. Schema(1) = Put(Schema(0), "ingestions", IngestionsTable({}))
  BY SchemaGrows
<1>2. /\ "ingestions" \notin DOMAIN Schema(0) /\ Schema(0) = [u \in DOMAIN Schema(0) |-> Schema(0)[u]]
      /\ \A u \in DOMAIN Schema(0) : \A k \in Schema(0)[u].constraints : k.refs # "ingestions"
  BY DEF Schema, TablesAt
<1>3. Good(tx, Schema(0)) => Good(Upgrade01(tx), Schema(1))
  BY <1>1, <1>2, IngestionsCreated DEF Upgrade01
<1>4. Good(tx, Schema(1)) => Good(Downgrade01(tx), Schema(0))
  BY <1>1, <1>2, IngestionsDropped DEF Downgrade01
<1>5. QED
  BY <1>3, <1>4

\* chunk_embeddings
LEMMA Revision02 ==
    ASSUME NEW tx
    PROVE  /\ Good(tx, Schema(1)) => Good(Upgrade02(tx), Schema(2))
           /\ Good(tx, Schema(2)) => Good(Downgrade02(tx), Schema(1))
<1> DEFINE C == {"ingestion_id", "document_id", "chunk_index", "dense_model", "sparse_model"}
           K == {Unique("chunk_embeddings_pkey",
                    {"ingestion_id", "chunk_index", "dense_model", "sparse_model"})}
           t == "chunk_embeddings"
           n == "chunk_embeddings_document_idx"
           cols == {"document_id", "ingestion_id"}
<1>1. Schema(2) = Put(Schema(1), t, Shape(C, {Index(n, cols)}, K))
  BY SchemaGrows DEF ChunkEmbeddingsTable
<1>2. \A k \in K : /\ k.columns \subseteq C
                   /\ k.kind = "unique" => k.name \in OwnNames[t]
                   /\ k.kind = "foreign" => k.refs \in DOMAIN Schema(1)
                   /\ k.name # n
  BY DEF Unique, OwnNames
<1>3. cols \subseteq C /\ t \in DOMAIN OwnNames \ DOMAIN Schema(1) /\ n \in OwnNames[t]
  BY DEF OwnNames, Schema, TablesAt
<1>4. /\ Schema(1) = [u \in DOMAIN Schema(1) |-> Schema(1)[u]]
      /\ \A u \in DOMAIN Schema(1) : \A k \in Schema(1)[u].constraints : k.refs # t
  BY References DEF Schema
<1>5. /\ Upgrade02(tx) = tx \bullet CreateTable(t, C, K) \bullet CreateIndex(n, t, cols)
      /\ Downgrade02(tx) = tx \bullet DropIndex(n, t) \bullet DropTable(t)
  BY DEF Upgrade02, Downgrade02
<1> HIDE DEF C, K, t, n, cols
<1>6. Good(tx, Schema(1)) => Good(Upgrade02(tx), Schema(2))
  <2>1. HAVE Good(tx, Schema(1))
  <2>2. Good(tx \bullet CreateTable(t, C, K) \bullet CreateIndex(n, t, cols),
             Put(Schema(1), t, Shape(C, {Index(n, cols)}, K)))
    BY <1>2, <1>3, <2>1, IndexedTableCreated
  <2>3. QED
    BY <1>1, <1>5, <2>2
<1>7. Good(tx, Schema(2)) => Good(Downgrade02(tx), Schema(1))
  BY <1>1, <1>3, <1>4, <1>5, IndexedTableDropped
<1>8. QED
  BY <1>6, <1>7

\* documents and uploads; a foreign key for the ingestions there already are
LEMMA Revision03 ==
    ASSUME NEW tx
    PROVE  /\ Good(tx, Schema(2)) => Good(Upgrade03(tx), Schema(3))
           /\ Good(tx, Schema(3)) => Good(Downgrade03(tx), Schema(2))
<1> DEFINE D == Put(Schema(2), "documents", DocumentsTable)
           U == Put(D, "uploads", UploadsTable)
           C == {"ingestion_id", "document_id", "source_sha256", "pipeline_version", "status",
                 "outputs", "error", "updated_at"}
           I == {Index("ingestions_status_idx", {"status", "updated_at"})}
           K == {Unique("ingestions_pkey", {"ingestion_id"}),
                 Unique("ingestions_source_pipeline_key", {"source_sha256", "pipeline_version"}),
                 Check("ingestions_sha256_check", "source_sha256", Sha),
                 Check("ingestions_status_check", "status", IngestionStatus)}
           fk == IngestionOfDocument
           created == CreateDocuments(tx)
           dropped == tx \bullet DropConstraint(fk.name, "ingestions")
\* The shapes.
<1>1. /\ IngestionsTable({}) = Shape(C, I, K)
      /\ IngestionsTable({fk}) = Shape(C, I, K \cup {fk})
  <2>1. {} \cup K = K /\ {fk} \cup K = K \cup {fk}
    OBVIOUS
  <2>2. QED
    BY <2>1 DEF IngestionsTable
<1>2. /\ fk.columns \subseteq C /\ fk.kind = "foreign" /\ fk.refs = "documents"
      /\ fk.name = "ingestions_document_id_fkey" /\ \A other \in K : other.name # fk.name
  BY DEF IngestionOfDocument, Foreign, Unique, Check
<1> HIDE DEF C, I, K, fk
<1>3. U = Put(Schema(3), "ingestions", Shape(C, I, K))
  <2>1. U = Put(Schema(3), "ingestions", IngestionsTable({}))
    BY DEF Schema, TablesAt, TableAt, Put
  <2>2. QED
    BY <1>1, <2>1
<1>4. Schema(3) = Put(Schema(3), "ingestions", Shape(C, I, K \cup {fk}))
  <2>1. Schema(3) = Put(Schema(3), "ingestions", IngestionsTable({IngestionOfDocument}))
    BY DEF Schema, TablesAt, TableAt, Put
  <2>2. QED
    BY <1>1, <2>1 DEF fk
\* The schemas.
<1>5. /\ "documents" \notin DOMAIN Schema(2) /\ "documents" \in DOMAIN OwnNames
      /\ "uploads" \notin DOMAIN D /\ "documents" \in DOMAIN D
      /\ "documents" \in DOMAIN Put(Schema(3), "ingestions", Shape(C, I, K))
  BY DEF Schema, TablesAt, Put, OwnNames
<1>6. /\ Schema(2) = [u \in DOMAIN Schema(2) |-> Schema(2)[u]]
      /\ \A u \in DOMAIN Schema(2) : \A k \in Schema(2)[u].constraints : k.refs # "documents"
      /\ \A u \in DOMAIN Schema(2) : \A k \in Schema(2)[u].constraints : k.refs # "uploads"
  BY References DEF Schema
<1>7. /\ D = [u \in DOMAIN D |-> D[u]]
      /\ \A u \in DOMAIN D : \A k \in D[u].constraints : k.refs # "uploads"
  <2>1. \A k \in DocumentsTable.constraints : k.refs # "uploads"
    BY DEF DocumentsTable, DocumentKeys, Shape, Unique, Check
  <2>2. QED
    BY <1>6, <2>1 DEF Put
<1>8. Good(tx, Schema(2)) => Good(created, D)
  <2> DEFINE n == "documents_created_idx"
             cols == {"created_at"}
  <2>1. \A k \in DocumentKeys : /\ k.columns \subseteq DocumentColumns
                                /\ k.kind = "unique" => k.name \in OwnNames["documents"]
                                /\ k.kind = "foreign" => k.refs \in DOMAIN Schema(2)
                                /\ k.name # n
    BY DEF DocumentKeys, DocumentColumns, Unique, Check, OwnNames
  <2>2. cols \subseteq DocumentColumns /\ n \in OwnNames["documents"]
    BY DEF DocumentColumns, OwnNames
  <2>3. created = tx \bullet CreateTable("documents", DocumentColumns, DocumentKeys)
                     \bullet CreateIndex(n, "documents", cols)
    BY DEF CreateDocuments, DocumentColumns, DocumentKeys
  <2>4. DocumentsTable = Shape(DocumentColumns, {Index(n, cols)}, DocumentKeys)
    BY DEF DocumentsTable, CreatedIndex
  <2> HIDE DEF n, cols, created, D
  <2>5. HAVE Good(tx, Schema(2))
  <2>6. Good(tx \bullet CreateTable("documents", DocumentColumns, DocumentKeys)
                \bullet CreateIndex(n, "documents", cols),
             Put(Schema(2), "documents", Shape(DocumentColumns, {Index(n, cols)}, DocumentKeys)))
    BY <1>5, <2>1, <2>2, <2>5, IndexedTableCreated
  <2>7. QED
    BY <2>3, <2>4, <2>6 DEF D
<1> HIDE DEF created, D, U
<1>9. Good(tx, Schema(2)) => Good(Upgrade03(tx), Schema(3))
  <2>1. HAVE Good(tx, Schema(2))
  <2>2. Good(CreateUploads(created), U)
    BY <1>5, <1>8, <2>1, UploadsCreated DEF U
  <2>3. Good(CreateUploads(created) \bullet AddNotValid("ingestions", fk),
             Put(Schema(3), "ingestions", Shape(C, I, K \cup {fk})))
    BY <1>2, <1>3, <1>5, <2>2, ForeignKeyDeclared
  <2>4. QED
    BY <1>4, <2>3 DEF Upgrade03, created, fk
<1>10. Good(tx, Schema(3)) => Good(Downgrade03(tx), Schema(2))
  <2>1. HAVE Good(tx, Schema(3))
  <2>2. Good(dropped, Put(Schema(3), "ingestions", Shape(C, I, K)))
    BY <1>2, <1>4, <2>1, ConstraintDropped
  <2> HIDE DEF dropped
  <2>3. Good(DropUploads(dropped), D)
    BY <1>3, <1>5, <1>7, <2>2, UploadsDropped DEF U
  <2>4. D = Put(Schema(2), "documents",
                Shape(DocumentColumns, {Index("documents_created_idx", {"created_at"})}, DocumentKeys))
    BY DEF D, DocumentsTable, CreatedIndex
  <2>5. Good(DropUploads(dropped) \bullet DropIndex("documents_created_idx", "documents")
                                  \bullet DropTable("documents"), Schema(2))
    BY <1>5, <1>6, <2>3, <2>4, IndexedTableDropped
  <2>6. QED
    BY <1>2, <2>5 DEF Downgrade03, dropped
<1>11. QED
  BY <1>9, <1>10

\* chunks
LEMMA Revision04 ==
    ASSUME NEW tx
    PROVE  /\ Good(tx, Schema(3)) => Good(Upgrade04(tx), Schema(4))
           /\ Good(tx, Schema(4)) => Good(Downgrade04(tx), Schema(3))
<1> DEFINE C == {"chunk_id", "document_id", "chunker_name", "chunker_version", "chunk_index"}
           K == {ChunkId, ChunksOfDocument, ReuseByChunker}
           t == "chunks"
           n == "chunks_chunker_idx"
           cols == {"chunker_name", "chunker_version"}
<1>1. Schema(4) = Put(Schema(3), t, Shape(C, {Index(n, cols)}, K))
  <2>1. C = ChunkColumns \cup {"document_id"}
    BY DEF ChunkColumns
  <2>2. K = {ChunkId} \cup {ChunksOfDocument} \cup {ReuseByChunker}
    OBVIOUS
  <2> HIDE DEF C, K
  <2>3. ChunksByChunker = Shape(C, {Index(n, cols)}, K)
    BY <2>1, <2>2 DEF ChunksByChunker, ByChunker
  <2>4. QED
    BY <2>3, SchemaGrows
<1>2. \A k \in K : /\ k.columns \subseteq C
                   /\ k.kind = "unique" => k.name \in OwnNames[t]
                   /\ k.kind = "foreign" => k.refs \in DOMAIN Schema(3)
                   /\ k.name # n
  BY DEF ChunkId, ReuseByChunker, Unique, ChunksOfDocument, Foreign, OwnNames, Schema, TablesAt
<1>3. cols \subseteq C /\ t \in DOMAIN OwnNames \ DOMAIN Schema(3) /\ n \in OwnNames[t]
  BY DEF OwnNames, Schema, TablesAt
<1>4. /\ Schema(3) = [u \in DOMAIN Schema(3) |-> Schema(3)[u]]
      /\ \A u \in DOMAIN Schema(3) : \A k \in Schema(3)[u].constraints : k.refs # t
  BY References DEF Schema, TablesAt
<1>5. /\ Upgrade04(tx) = tx \bullet CreateTable(t, C, K) \bullet CreateIndex(n, t, cols)
      /\ Downgrade04(tx) = tx \bullet DropIndex(n, t) \bullet DropTable(t)
  BY DEF Upgrade04, Downgrade04, ChunkerIndex, ChunkId
<1> HIDE DEF C, K, t, n, cols
<1>6. Good(tx, Schema(3)) => Good(Upgrade04(tx), Schema(4))
  <2>1. HAVE Good(tx, Schema(3))
  <2>2. Good(tx \bullet CreateTable(t, C, K) \bullet CreateIndex(n, t, cols),
             Put(Schema(3), t, Shape(C, {Index(n, cols)}, K)))
    BY <1>2, <1>3, <2>1, IndexedTableCreated
  <2>3. QED
    BY <1>1, <1>5, <2>2
<1>7. Good(tx, Schema(4)) => Good(Downgrade04(tx), Schema(3))
  BY <1>1, <1>3, <1>4, <1>5, IndexedTableDropped
<1>8. QED
  BY <1>6, <1>7

\* embeddings
LEMMA Revision05 ==
    ASSUME NEW tx
    PROVE  /\ Good(tx, Schema(4)) => Good(Upgrade05(tx), Schema(5))
           /\ Good(tx, Schema(5)) => Good(Downgrade05(tx), Schema(4))
<1> DEFINE C == {"chunk_id", "embedder_name", "embedder_version"}
           K == {Unique("embeddings_pkey", {"chunk_id", "embedder_name", "embedder_version"}),
                 Foreign("embeddings_chunk_id_fkey", "chunk_id", "chunks")}
           t == "embeddings"
           n == "embeddings_embedder_idx"
           cols == {"embedder_name", "embedder_version"}
<1>1. Schema(5) = Put(Schema(4), t, Shape(C, {Index(n, cols)}, K))
  BY SchemaGrows DEF EmbeddingsTable
<1>2. \A k \in K : /\ k.columns \subseteq C
                   /\ k.kind = "unique" => k.name \in OwnNames[t]
                   /\ k.kind = "foreign" => k.refs \in DOMAIN Schema(4)
                   /\ k.name # n
  BY DEF Unique, Foreign, OwnNames, Schema, TablesAt
<1>3. cols \subseteq C /\ t \in DOMAIN OwnNames \ DOMAIN Schema(4) /\ n \in OwnNames[t]
  BY DEF OwnNames, Schema, TablesAt
<1>4. /\ Schema(4) = [u \in DOMAIN Schema(4) |-> Schema(4)[u]]
      /\ \A u \in DOMAIN Schema(4) : \A k \in Schema(4)[u].constraints : k.refs # t
  BY References DEF Schema, TablesAt
<1>5. /\ Upgrade05(tx) = tx \bullet CreateTable(t, C, K) \bullet CreateIndex(n, t, cols)
      /\ Downgrade05(tx) = tx \bullet DropIndex(n, t) \bullet DropTable(t)
  BY DEF Upgrade05, Downgrade05
<1> HIDE DEF C, K, t, n, cols
<1>6. Good(tx, Schema(4)) => Good(Upgrade05(tx), Schema(5))
  <2>1. HAVE Good(tx, Schema(4))
  <2>2. Good(tx \bullet CreateTable(t, C, K) \bullet CreateIndex(n, t, cols),
             Put(Schema(4), t, Shape(C, {Index(n, cols)}, K)))
    BY <1>2, <1>3, <2>1, IndexedTableCreated
  <2>3. QED
    BY <1>1, <1>5, <2>2
<1>7. Good(tx, Schema(5)) => Good(Downgrade05(tx), Schema(4))
  BY <1>1, <1>3, <1>4, <1>5, IndexedTableDropped
<1>8. QED
  BY <1>6, <1>7

\* The columns and the check that 06 adds to documents, and its downgrade drops.
LEMMA StatusAdded ==
    ASSUME NEW tx, NEW S, Good(tx, Put(S, "documents", DocumentsTable))
    PROVE  LET after == tx \bullet AddColumn("documents", "status", "uploaded")
                           \bullet AddColumn("documents", "error", Null)
                           \bullet AddColumn("documents", "published", FALSE)
                           \bullet AddConstraint("documents", StatusCheck)
           IN  Good(after, Put(S, "documents", DocumentsWithStatus))
<1> DEFINE t == "documents"
           I == {CreatedIndex}
           K == DocumentKeys
           C1 == DocumentColumns \cup {"status"}
           C2 == C1 \cup {"error"}
           C3 == C2 \cup {"published"}
           t1 == tx \bullet AddColumn(t, "status", "uploaded")
           t2 == t1 \bullet AddColumn(t, "error", Null)
           no == FALSE
           t3 == t2 \bullet AddColumn(t, "published", no)
           t4 == t3 \bullet AddConstraint(t, StatusCheck)
<1>1. /\ "status" \notin DocumentColumns /\ "error" \notin C1 /\ "published" \notin C2
      /\ "status" \in C1 /\ "status" \in C2 /\ "status" \in C3
  BY DEF DocumentColumns
<1>2. /\ StatusCheck.columns = {"status"} /\ StatusCheck.kind = "check"
      /\ StatusCheck.values = DocumentStatus
      /\ \A other \in K : other.name # StatusCheck.name
  BY DEF StatusCheck, Check, DocumentKeys, Unique
<1>3. DocumentsTable = Shape(DocumentColumns, I, K) /\ DocumentsWithStatus = Shape(C3, I, K \cup {StatusCheck})
  BY DEF DocumentsTable, DocumentsWithStatus
<1> HIDE DEF I, K, C1, C2, C3, t, no
<1>4. Good(t1, Put(S, t, Shape(C1, I, K))) /\ \A r \in t1.db.rows[t] : r["status"] = "uploaded"
  BY <1>1, <1>3, ColumnAdded DEF C1, t
<1> HIDE DEF t1
<1>5. Good(t2, Put(S, t, Shape(C2, I, K))) /\ \A r \in t2.db.rows[t] : r["status"] = "uploaded"
  BY <1>1, <1>4, ColumnAdded DEF C2
<1> HIDE DEF t2
<1>6. Good(t3, Put(S, t, Shape(C3, I, K))) /\ \A r \in t3.db.rows[t] : r["status"] = "uploaded"
  BY <1>1, <1>5, ColumnAdded DEF C3
<1> HIDE DEF t3
<1>7. \A r \in t3.db.rows[t] : Satisfies(t3.db, t, StatusCheck, r)
  BY <1>2, <1>6 DEF Satisfies, DocumentStatus
<1>8. Good(t4, Put(S, t, Shape(C3, I, K \cup {StatusCheck})))
  BY <1>1, <1>2, <1>6, <1>7, ConstraintAdded
<1>9. QED
  BY <1>3, <1>8 DEF t4, t3, t2, t1, t, no

\* The columns of the status go again (revision 06 down).
LEMMA StatusDropped ==
    ASSUME NEW tx, NEW S, Good(tx, Put(S, "documents", DocumentsWithStatus))
    PROVE  LET after == tx \bullet DropConstraint("documents_status_check", "documents")
                           \bullet DropColumn("documents", "published")
                           \bullet DropColumn("documents", "error")
                           \bullet DropColumn("documents", "status")
           IN  Good(after, Put(S, "documents", DocumentsTable))
<1> DEFINE t == "documents"
           I == {CreatedIndex}
           K == DocumentKeys
           C1 == DocumentColumns \cup {"status"}
           C2 == C1 \cup {"error"}
           C3 == C2 \cup {"published"}
           t1 == tx \bullet DropConstraint("documents_status_check", t)
           t2 == t1 \bullet DropColumn(t, "published")
           t3 == t2 \bullet DropColumn(t, "error")
           t4 == t3 \bullet DropColumn(t, "status")
<1>1. /\ "status" \notin DocumentColumns /\ "error" \notin C1 /\ "published" \notin C2
      /\ \A c \in {"status", "error", "published"} :
            (\A i \in I : c \notin i.columns) /\ K = {k \in K : c \notin k.columns}
  BY DEF DocumentColumns, CreatedIndex, Index, DocumentKeys, Unique, Check
<1>2. StatusCheck.name = "documents_status_check" /\ \A other \in K : other.name # StatusCheck.name
  BY DEF StatusCheck, Check, DocumentKeys, Unique
<1>3. DocumentsTable = Shape(DocumentColumns, I, K) /\ DocumentsWithStatus = Shape(C3, I, K \cup {StatusCheck})
  BY DEF DocumentsTable, DocumentsWithStatus
<1> HIDE DEF I, K, C1, C2, C3, t
<1>4. Good(t1, Put(S, t, Shape(C3, I, K)))
  BY <1>2, <1>3, ConstraintDropped DEF t
<1> HIDE DEF t1
<1>5. Good(t2, Put(S, t, Shape(C2, I, K)))
  BY <1>1, <1>4, ColumnDropped DEF C3
<1> HIDE DEF t2
<1>6. Good(t3, Put(S, t, Shape(C1, I, K)))
  BY <1>1, <1>5, ColumnDropped DEF C2
<1> HIDE DEF t3
<1>7. Good(t4, Put(S, t, Shape(DocumentColumns, I, K)))
  BY <1>1, <1>6, ColumnDropped DEF C1
<1>8. QED
  BY <1>3, <1>7 DEF t4, t3, t2, t1, t

\* documents take over the status of their ingestion, and ingestions goes
LEMMA Revision06 ==
    ASSUME NEW tx
    PROVE  /\ Good(tx, Schema(5)) => Good(Upgrade06(tx), Schema(6))
           /\ Good(tx, Schema(6)) => Good(Downgrade06(tx), Schema(5))
<1> DEFINE S == Put(Schema(6), "ingestions", IngestionsTable({IngestionOfDocument}))
           added == tx \bullet AddColumn("documents", "status", "uploaded")
                       \bullet AddColumn("documents", "error", Null)
                       \bullet AddColumn("documents", "published", FALSE)
                       \bullet AddConstraint("documents", StatusCheck)
           carried == added \bullet CarryOver
           created == CreateIngestions(tx, {IngestionOfDocument})
<1>1. /\ Schema(5) = Put(S, "documents", DocumentsTable)
      /\ S = Put(S, "documents", DocumentsWithStatus)
  <2>1. Schema(5) = Put(S, "documents", DocumentsTable)
    BY DEF Schema, TablesAt, TableAt, Put
  <2>2. S = Put(S, "documents", DocumentsWithStatus)
    BY DEF Schema, TablesAt, TableAt, Put
  <2>3. QED
    BY <2>1, <2>2
<1>2. "ingestions" \in DOMAIN S /\ "ingestions" \notin DOMAIN Schema(6) /\ "documents" \in DOMAIN Schema(6)
  BY DEF Schema, TablesAt, Put
<1>3. /\ Schema(6) = [u \in DOMAIN Schema(6) |-> Schema(6)[u]]
      /\ \A u \in DOMAIN Schema(6) : \A k \in Schema(6)[u].constraints : k.refs # "ingestions"
  BY References DEF Schema, TablesAt
<1> HIDE DEF S, added
<1>4. Good(tx, Schema(5)) => Good(added, S)
  <2>1. HAVE Good(tx, Schema(5))
  <2>2. Good(tx, Put(S, "documents", DocumentsTable))
    BY <1>1, <2>1
  <2>3. Good(added, Put(S, "documents", DocumentsWithStatus))
    BY <2>2, StatusAdded DEF added
  <2>4. QED
    BY <1>1, <2>3
<1>5. Good(tx, Schema(5)) => Good(carried, S)
  <2>1. HAVE Good(tx, Schema(5))
  <2>2. {"status", "error", "published"} \subseteq DocumentsWithStatus.columns
    BY DEF DocumentsWithStatus, Shape
  <2>3. \A k \in DocumentsWithStatus.constraints :
            \/ k.kind \in {"unique", "check"} /\ k.columns \cap {"status", "error", "published"} = {}
            \/ k.kind = "check" /\ k.columns = {"status"} /\ DocumentStatus \subseteq k.values
    BY DEF DocumentsWithStatus, Shape, DocumentKeys, StatusCheck, Unique, Check
  <2>4. Good(added, Put(S, "documents", DocumentsWithStatus))
    BY <1>1, <1>4, <2>1
  <2>5. Good(carried, Put(S, "documents", DocumentsWithStatus))
    BY <1>2, <2>2, <2>3, <2>4, StatusesCarriedOver
  <2>6. QED
    BY <1>1, <2>5
<1> HIDE DEF carried
<1>6. Good(tx, Schema(5)) => Good(Upgrade06(tx), Schema(6))
  <2>1. HAVE Good(tx, Schema(5))
  <2>2. Good(carried, Put(Schema(6), "ingestions", IngestionsTable({IngestionOfDocument})))
    BY <1>5, <2>1 DEF S
  <2>3. Good(DropIngestions(carried), Schema(6))
    BY <1>2, <1>3, <2>2, IngestionsDropped
  <2>4. QED
    BY <2>3 DEF Upgrade06, carried, added, StatusCheck
<1>7. Good(tx, Schema(6)) => Good(created, S)
  BY <1>2, IngestionsCreated DEF S
<1> HIDE DEF created
<1>8. Good(tx, Schema(6)) => Good(Downgrade06(tx), Schema(5))
  <2>1. HAVE Good(tx, Schema(6))
  <2>2. Good(created, Put(S, "documents", DocumentsWithStatus))
    BY <1>1, <1>7, <2>1
  <2>3. LET after == created \bullet DropConstraint("documents_status_check", "documents")
                             \bullet DropColumn("documents", "published")
                             \bullet DropColumn("documents", "error")
                             \bullet DropColumn("documents", "status")
        IN  Good(after, Put(S, "documents", DocumentsTable))
    BY <2>2, StatusDropped
  <2>4. QED
    BY <1>1, <2>3 DEF Downgrade06, created
<1>9. QED
  BY <1>6, <1>8

\* uploads goes
LEMMA Revision07 ==
    ASSUME NEW tx
    PROVE  /\ Good(tx, Schema(6)) => Good(Upgrade07(tx), Schema(7))
           /\ Good(tx, Schema(7)) => Good(Downgrade07(tx), Schema(6))
<1>1. Schema(6) = Put(Schema(7), "uploads", UploadsTable)
  BY SchemaGrows
<1>2. "uploads" \notin DOMAIN Schema(7) /\ "documents" \in DOMAIN Schema(7)
  BY DEF Schema, TablesAt
<1>3. /\ Schema(7) = [u \in DOMAIN Schema(7) |-> Schema(7)[u]]
      /\ \A u \in DOMAIN Schema(7) : \A k \in Schema(7)[u].constraints : k.refs # "uploads"
  BY References DEF Schema
<1>4. Good(tx, Schema(6)) => Good(Upgrade07(tx), Schema(7))
  BY <1>1, <1>2, <1>3, UploadsDropped DEF Upgrade07
<1>5. Good(tx, Schema(7)) => Good(Downgrade07(tx), Schema(6))
  BY <1>1, <1>2, UploadsCreated DEF Downgrade07
<1>6. QED
  BY <1>4, <1>5

\* The columns and the names of what 08 and 09 handle.
LEMMA ChunkFacts ==
    /\ ReuseByChunker.kind = "unique" /\ ReuseByChunker.name = "chunks_reuse_key"
    /\ ReuseByChunker.columns = {"document_id", "chunker_name", "chunker_version", "chunk_index"}
    /\ ReuseByOperators.kind = "unique" /\ ReuseByOperators.name = "chunks_reuse_key"
    /\ ReuseByOperators.columns = {"document_id", "chunker_name", "chunker_version", "chunk_index",
                                   "extractor_name", "extractor_version"}
    /\ ReuseByExtraction.kind = "unique" /\ ReuseByExtraction.name = "chunks_reuse_key"
    /\ ReuseByExtraction.columns = {"extraction_id", "chunker_name", "chunker_version", "chunk_index"}
    /\ ChunkId.columns = {"chunk_id"} /\ ChunkId.name = "chunks_pkey"
    /\ ChunksOfDocument.columns = {"document_id"} /\ ChunksOfDocument.name = "chunks_document_id_fkey"
    /\ ChunksOfDocument.kind = "foreign" /\ ChunksOfDocument.refs = "documents"
    /\ ChunksOfExtraction.columns = {"extraction_id"}
    /\ ChunksOfExtraction.name = "chunks_extraction_id_fkey"
    /\ ChunksOfExtraction.kind = "foreign" /\ ChunksOfExtraction.refs = "extractions"
    /\ ChunkColumns = {"chunk_id", "chunker_name", "chunker_version", "chunk_index"}
    /\ {"chunks_reuse_key", "chunks_chunker_idx", "chunks_operators_idx"} \subseteq OwnNames["chunks"]
<1>1. {"chunks_reuse_key", "chunks_chunker_idx", "chunks_operators_idx"} \subseteq OwnNames["chunks"]
  BY DEF OwnNames
<1>2. {"document_id", "chunk_index"} \cup ChunkOperators =
        {"document_id", "chunker_name", "chunker_version", "chunk_index",
         "extractor_name", "extractor_version"}
  BY DEF ChunkOperators
<1>3. /\ ReuseByOperators.kind = "unique" /\ ReuseByOperators.name = "chunks_reuse_key"
      /\ ReuseByOperators.columns = {"document_id", "chunk_index"} \cup ChunkOperators
  BY DEF ReuseByOperators, Unique
<1>4. QED
  BY <1>1, <1>2, <1>3
     DEF ReuseByChunker, ReuseByExtraction, KeyOfExtraction, ChunkId, Unique, ChunksOfDocument,
         ChunksOfExtraction, Foreign, ChunkColumns

\* chunks by the extractor as well
LEMMA Revision08 ==
    ASSUME NEW tx
    PROVE  /\ Good(tx, Schema(7)) => Good(Upgrade08(tx), Schema(8))
           /\ Good(tx, Schema(8)) => Good(Downgrade08(tx), Schema(7))
<1> DEFINE t == "chunks"
           S == Schema(7)
           K == {ChunkId} \cup {ChunksOfDocument}
           B == ChunkColumns \cup {"document_id"}
           B1 == B \cup {"extractor_name"}
           B2 == B1 \cup {"extractor_version"}
           oldIdx == {"chunker_name", "chunker_version"}
           old == Index("chunks_chunker_idx", oldIdx)
           newIdx == ChunkOperators
           new == Index("chunks_operators_idx", newIdx)
           olds == {old}
           news == {new}
\* The shapes.
<1>1. Schema(7) = Put(S, t, Shape(B, olds, K \cup {ReuseByChunker}))
  <2>1. Schema(7) = Put(Schema(7), "chunks", ChunksByChunker)
    BY DEF Schema, TablesAt, TableAt, Put
  <2>2. QED
    BY <2>1 DEF ChunksByChunker, ByChunker
<1>2. Schema(8) = Put(S, t, Shape(B2, news, K \cup {ReuseByOperators}))
  BY SchemaGrows DEF ChunksByOperators, ByOperators
<1>3. /\ "extractor_name" \notin B /\ "extractor_version" \notin B1
      /\ oldIdx \subseteq B2 /\ newIdx \subseteq B2
      /\ ReuseByChunker.columns \subseteq B2 /\ ReuseByOperators.columns \subseteq B2
  BY ChunkFacts DEF ChunkOperators
<1>4. /\ \A other \in K : other.name \notin {"chunks_reuse_key", "chunks_chunker_idx", "chunks_operators_idx"}
      /\ old.name = "chunks_chunker_idx" /\ new.name = "chunks_operators_idx"
      /\ old.columns = oldIdx /\ \A i \in olds : i.name = "chunks_chunker_idx"
  BY ChunkFacts DEF Index
<1>5. \A c \in {"extractor_name", "extractor_version"} :
         /\ \A i \in olds : c \notin i.columns
         /\ K \cup {ReuseByChunker} = {k \in K \cup {ReuseByChunker} : c \notin k.columns}
  BY ChunkFacts, <1>4
<1>6. t \in {"chunks"}
  OBVIOUS
<1> HIDE DEF S, K, B, B1, B2, oldIdx, newIdx, old, new, olds, news, t
<1>7. Good(tx, Schema(7)) => Good(Upgrade08(tx), Schema(8))
  <2> DEFINE t1 == tx \bullet AddColumn(t, "extractor_name", "tika")
             t2 == t1 \bullet AddColumn(t, "extractor_version", "1")
             t3 == t2 \bullet DropConstraint("chunks_reuse_key", t)
             t4 == t3 \bullet AddConstraint(t, ReuseByOperators)
             t5 == t4 \bullet DropIndex("chunks_chunker_idx", t)
             t6 == t5 \bullet CreateIndex("chunks_operators_idx", t, newIdx)
  <2>1. HAVE Good(tx, Schema(7))
  <2>2. Good(t1, Put(S, t, Shape(B1, olds, K \cup {ReuseByChunker})))
    BY <1>1, <1>3, <2>1, ColumnAdded DEF B1
  <2> HIDE DEF t1
  <2>3. Good(t2, Put(S, t, Shape(B2, olds, K \cup {ReuseByChunker})))
    BY <1>3, <2>2, ColumnAdded DEF B2
  <2> HIDE DEF t2
  <2>4. Good(t3, Put(S, t, Shape(B2, olds, K))) /\ t3.db.rows = t2.db.rows
    <3>1. /\ ReuseByChunker.name = "chunks_reuse_key"
          /\ \A other \in K : other.name # "chunks_reuse_key"
      BY <1>4, ChunkFacts
    <3>2. QED
      BY <2>3, <3>1, ConstraintDropped, RowsStay
  <2> HIDE DEF t3
  <2>5. Holds(ReuseByChunker, t2.db.rows[t])
    <3>1. Fits(Shape(B2, olds, K \cup {ReuseByChunker}), t2.db.rows[t])
      BY <2>3 DEF Good, Sound, Put
    <3>2. QED
      BY <3>1 DEF Fits, Shape
  <2>6. \A r \in t3.db.rows[t] : Satisfies(t3.db, t, ReuseByOperators, r)
    BY <2>4, <2>5, ChunkFacts DEF Holds, Satisfies
  <2>7. Good(t4, Put(S, t, Shape(B2, olds, K \cup {ReuseByOperators})))
    <3>1. /\ \A i \in olds : i.name # ReuseByOperators.name
          /\ ReuseByOperators.name \in OwnNames[t]
          /\ ReuseByOperators.kind = "unique"
          /\ \A other \in K : other.name # ReuseByOperators.name
      BY <1>4, <1>6, ChunkFacts
    <3>2. QED
      BY <1>3, <2>4, <2>6, <3>1, ConstraintAdded
  <2> HIDE DEF t4
  <2>8. Good(t5, Put(S, t, Shape(B2, {}, K \cup {ReuseByOperators})))
    BY <2>7, IndexDropped DEF olds, old
  <2> HIDE DEF t5
  <2>9. Good(t6, Put(S, t, Shape(B2, news, K \cup {ReuseByOperators})))
    <3>1. /\ "chunks_operators_idx" \in OwnNames[t]
          /\ \A k \in K \cup {ReuseByOperators} : k.name # "chunks_operators_idx"
      BY <1>4, <1>6, ChunkFacts
    <3>2. QED
      BY <1>3, <2>8, <3>1, IndexMade DEF news, new
  <2>10. QED
    BY <1>2, <2>9 DEF Upgrade08, OperatorsIndex, t6, t5, t4, t3, t2, t1, t, newIdx
<1>8. Good(tx, Schema(8)) => Good(Downgrade08(tx), Schema(7))
  <2> DEFINE pattern == [extractor_name |-> "tika", extractor_version |-> "1"]
             except == {pattern}
             t1 == tx \bullet DropIndex("chunks_operators_idx", t)
             t2 == t1 \bullet CreateIndex("chunks_chunker_idx", t, oldIdx)
             t3 == t2 \bullet [op |-> "delete", table |-> t, except |-> except]
             t4 == t3 \bullet DropConstraint("chunks_reuse_key", t)
             t5 == t4 \bullet AddConstraint(t, ReuseByChunker)
             t6 == t5 \bullet DropColumn(t, "extractor_version")
             t7 == t6 \bullet DropColumn(t, "extractor_name")
  <2>0. /\ \A p \in except : DOMAIN p = {"extractor_name", "extractor_version"}
        /\ \A p \in except : p["extractor_name"] = "tika" /\ p["extractor_version"] = "1"
    OBVIOUS
  <2> HIDE DEF pattern, except
  <2>1. HAVE Good(tx, Schema(8))
  <2>2. Good(t1, Put(S, t, Shape(B2, {}, K \cup {ReuseByOperators})))
    BY <1>2, <2>1, IndexDropped DEF news, new
  <2> HIDE DEF t1
  <2>3. Good(t2, Put(S, t, Shape(B2, olds, K \cup {ReuseByOperators})))
    <3>1. /\ "chunks_chunker_idx" \in OwnNames[t]
          /\ \A k \in K \cup {ReuseByOperators} : k.name # "chunks_chunker_idx"
      BY <1>4, <1>6, ChunkFacts
    <3>2. QED
      BY <1>3, <2>2, <3>1, IndexMade DEF olds, old
  <2> HIDE DEF t2
  <2>4. /\ Good(t3, Put(S, t, Shape(B2, olds, K \cup {ReuseByOperators})))
        /\ \A r \in t3.db.rows[t] : \E p \in except : \A c \in DOMAIN p : r[c] = p[c]
    <3>1. \A p \in except : DOMAIN p \subseteq Shape(B2, olds, K \cup {ReuseByOperators}).columns
      BY <2>0 DEF B2, B1, Shape
    <3>2. QED
      BY <2>3, <3>1, RowsDeleted
  <2> HIDE DEF t3
  <2>5. \A r \in t3.db.rows[t] : r["extractor_name"] = "tika" /\ r["extractor_version"] = "1"
    BY <2>0, <2>4
  <2>6. Good(t4, Put(S, t, Shape(B2, olds, K))) /\ t4.db.rows = t3.db.rows
    <3>1. /\ ReuseByOperators.name = "chunks_reuse_key"
          /\ \A other \in K : other.name # "chunks_reuse_key"
      BY <1>4, ChunkFacts
    <3>2. QED
      BY <2>4, <3>1, ConstraintDropped, RowsStay
  <2> HIDE DEF t4
  <2>7. Holds(ReuseByOperators, t3.db.rows[t])
    <3>1. Fits(Shape(B2, olds, K \cup {ReuseByOperators}), t3.db.rows[t])
      BY <2>4 DEF Good, Sound, Put
    <3>2. QED
      BY <3>1 DEF Fits, Shape
  <2>8. \A r \in t4.db.rows[t] : Satisfies(t4.db, t, ReuseByChunker, r)
    BY <2>5, <2>6, <2>7, ChunkFacts DEF Holds, Satisfies
  <2>9. Good(t5, Put(S, t, Shape(B2, olds, K \cup {ReuseByChunker})))
    <3>1. /\ \A i \in olds : i.name # ReuseByChunker.name
          /\ ReuseByChunker.name \in OwnNames[t]
          /\ ReuseByChunker.kind = "unique"
          /\ \A other \in K : other.name # ReuseByChunker.name
      BY <1>4, <1>6, ChunkFacts
    <3>2. QED
      BY <1>3, <2>6, <2>8, <3>1, ConstraintAdded
  <2> HIDE DEF t5
  <2>10. Good(t6, Put(S, t, Shape(B1, olds, K \cup {ReuseByChunker})))
    BY <1>3, <1>5, <2>9, ColumnDropped DEF B2
  <2> HIDE DEF t6
  <2>11. Good(t7, Put(S, t, Shape(B, olds, K \cup {ReuseByChunker})))
    BY <1>3, <1>5, <2>10, ColumnDropped DEF B1
  <2>12. QED
    BY <1>1, <2>11 DEF Downgrade08, KeepTika1, DeleteExcept, ChunkerIndex,
                       t7, t6, t5, t4, t3, t2, t1, t, oldIdx, except, pattern
<1>9. QED
  BY <1>7, <1>8

\* A transaction has rows for the tables it has.
LEMMA RowsOfTables ==
    ASSUME NEW tx, NEW S, NEW t, NEW shape, Good(tx, Put(S, t, shape))
    PROVE  DOMAIN tx.db.rows = DOMAIN S \cup {t}
  BY DEF Good, Sound, Put

\* What 09 does first in both directions: chunks is emptied, no document stays published.
LEMMA ChunksForgotten ==
    ASSUME NEW tx, NEW S, Good(tx, S), NEW chunks, S = Put(S, "chunks", chunks),
           S = Put(S, "documents", DocumentsWithStatus), NEW values,
           DOMAIN values \subseteq {"published", "status", "error"},
           "status" \in DOMAIN values => values["status"] \in DocumentStatus
    PROVE  LET after == tx \bullet DeleteAll("chunks") \bullet UpdateAll("documents", values)
           IN  /\ Good(after, S) /\ after.db.rows["chunks"] = {}
               /\ \A r \in after.db.rows["documents"] : \A c \in DOMAIN values : r[c] = values[c]
<1> DEFINE none == {}
           t1 == tx \bullet [op |-> "delete", table |-> "chunks", except |-> none]
           t2 == t1 \bullet UpdateAll("documents", values)
<1>1. \A p \in none : FALSE
  OBVIOUS
<1> HIDE DEF none
<1>2. Good(tx, Put(S, "chunks", chunks))
  OBVIOUS
<1>3. /\ Good(t1, Put(S, "chunks", chunks))
      /\ \A r \in t1.db.rows["chunks"] : \E p \in none : \A c \in DOMAIN p : r[c] = p[c]
  BY <1>1, <1>2, RowsDeleted
<1>4. t1.db.rows["chunks"] = {}
  BY <1>1, <1>3
<1> HIDE DEF t1
<1>5. DOMAIN values \subseteq DocumentsWithStatus.columns
  BY DEF DocumentsWithStatus, Shape
<1>6. \A k \in DocumentsWithStatus.constraints :
        \/ k.kind \in {"unique", "check"} /\ k.columns \cap DOMAIN values = {}
        \/ k.kind = "check" /\ \A c \in k.columns : c \in DOMAIN values /\ values[c] \in k.values
  <2>1. \A k \in DocumentKeys :
            k.kind \in {"unique", "check"} /\ k.columns \cap {"published", "status", "error"} = {}
    BY DEF DocumentKeys, Unique, Check
  <2>2. /\ StatusCheck.kind = "check" /\ StatusCheck.columns = {"status"}
        /\ StatusCheck.values = DocumentStatus
    BY DEF StatusCheck, Check
  <2>3. DocumentsWithStatus.constraints = DocumentKeys \cup {StatusCheck}
    BY DEF DocumentsWithStatus, Shape
  <2>4. QED
    BY <2>1, <2>2, <2>3
<1>7. Good(t1, Put(S, "documents", DocumentsWithStatus))
  BY <1>3
<1>8. /\ Good(t2, Put(S, "documents", DocumentsWithStatus))
      /\ \A u \in DOMAIN t1.db.rows \ {"documents"} : t2.db.rows[u] = t1.db.rows[u]
      /\ \A r \in t2.db.rows["documents"] : \A c \in DOMAIN values : r[c] = values[c]
  BY <1>5, <1>6, <1>7, RowsUpdated
<1>9. t2.db.rows["chunks"] = {}
  BY <1>3, <1>4, <1>8, RowsOfTables
<1>10. QED
  BY <1>8, <1>9 DEF t2, t1, none, DeleteAll

\* extractions, and chunks by their extraction
LEMMA Upgrade09Goes ==
    ASSUME NEW tx
    PROVE  Good(tx, Schema(8)) =>
               /\ Good(Upgrade09(tx), Schema(9))
               /\ \A r \in Upgrade09(tx).db.rows["documents"] : r.published = FALSE
<1> HAVE Good(tx, Schema(8))
<1> DEFINE t == "chunks"
           E == Put(Schema(8), "extractions", ExtractionsTable)
           B == ChunkColumns
           B1 == B \cup {"document_id"}
           B2 == B1 \cup {"extractor_name"}
           B3 == B2 \cup {"extractor_version"}
           B4 == B \cup {"extraction_id"}
           K == {ChunkId}
           Kd == K \cup {ChunksOfDocument}
           Ke == K \cup {ChunksOfExtraction}
           oldIdx == {ByOperators}
           newIdx == {ByChunker}
           newCols == {"chunker_name", "chunker_version"}
           none == {}
           values == [published |-> FALSE, status |-> "uploaded", error |-> Null]
           C == {"extraction_id", "document_id", "extractor_name", "extractor_version"}
           X == {Unique("extractions_pkey", {"extraction_id"}),
                 Foreign("extractions_document_id_fkey", "document_id", "documents"),
                 Unique("extractions_reuse_key", {"document_id", "extractor_name", "extractor_version"})}
           t0 == tx \bullet CreateTable("extractions", C, X)
           t1 == t0 \bullet DeleteAll("chunks") \bullet UpdateAll("documents", values)
           t2 == t1 \bullet DropIndex("chunks_operators_idx", t)
           t3 == t2 \bullet DropConstraint("chunks_reuse_key", t)
           t4 == t3 \bullet DropColumn(t, "extractor_version")
           t5 == t4 \bullet DropColumn(t, "extractor_name")
           t6 == t5 \bullet DropColumn(t, "document_id")
           t7 == t6 \bullet AddRequired(t, "extraction_id")
           t8 == t7 \bullet AddConstraint(t, ChunksOfExtraction)
           t9 == t8 \bullet AddConstraint(t, ReuseByExtraction)
           t10 == t9 \bullet CreateIndex("chunks_chunker_idx", t, newCols)
\* The shapes.
<1>1. /\ E = Put(E, "chunks", ChunksByOperators)
      /\ E = Put(E, "documents", DocumentsWithStatus)
      /\ Schema(9) = Put(E, "chunks", ChunksByExtraction)
  <2>1. E = Put(E, "chunks", ChunksByOperators)
    BY DEF Schema, TablesAt, TableAt, Put
  <2>2. E = Put(E, "documents", DocumentsWithStatus)
    BY DEF Schema, TablesAt, TableAt, Put
  <2>3. Schema(9) = Put(E, "chunks", ChunksByExtraction)
    BY DEF Schema, TablesAt, TableAt, Put
  <2>4. QED
    BY <2>1, <2>2, <2>3
<1>2. /\ ChunksByOperators = Shape(B3, oldIdx, Kd \cup {ReuseByOperators})
      /\ ChunksByExtraction = Shape(B4, newIdx, Ke \cup {ReuseByExtraction})
  BY DEF ChunksByOperators, ChunksByExtraction
<1>3. /\ "extractor_version" \notin B2 /\ "extractor_name" \notin B1
      /\ "document_id" \notin B /\ "extraction_id" \notin B
      /\ ChunksOfExtraction.columns \subseteq B4 /\ ReuseByExtraction.columns \subseteq B4
      /\ newCols \subseteq B4
  BY ChunkFacts
<1>4. /\ \A other \in Kd : other.name # "chunks_reuse_key"
      /\ \A other \in K : other.name # ChunksOfExtraction.name
      /\ \A other \in Ke : other.name # "chunks_reuse_key"
      /\ \A other \in Ke \cup {ReuseByExtraction} : other.name # "chunks_chunker_idx"
      /\ Kd = {k \in Kd : "extractor_version" \notin k.columns}
      /\ Kd = {k \in Kd : "extractor_name" \notin k.columns}
      /\ K = {k \in Kd : "document_id" \notin k.columns}
      /\ ReuseByExtraction.name = "chunks_reuse_key" /\ ReuseByOperators.name = "chunks_reuse_key"
      /\ "chunks_reuse_key" \in OwnNames[t] /\ "chunks_chunker_idx" \in OwnNames[t]
  BY ChunkFacts
<1>5. \A c : \A i \in none : c \notin i.columns /\ i.name # c
  OBVIOUS
<1>6. /\ oldIdx = {Index("chunks_operators_idx", ChunkOperators)}
      /\ newIdx = {Index("chunks_chunker_idx", newCols)}
  BY DEF ByOperators, ByChunker
<1>7. /\ DOMAIN values \subseteq {"published", "status", "error"} /\ "published" \in DOMAIN values
      /\ values["status"] \in DocumentStatus
  BY DEF DocumentStatus
<1>8. "extractions" \in DOMAIN E /\ "documents" \in DOMAIN E
  BY DEF Schema, TablesAt, Put
\* The statements.
<1>9. Good(t0, E)
  <2>1. \A k \in X : /\ k.columns \subseteq C
                     /\ k.kind = "unique" => k.name \in OwnNames["extractions"]
                     /\ k.kind = "foreign" => k.refs \in DOMAIN Schema(8)
    BY DEF Unique, Foreign, OwnNames, Schema, TablesAt
  <2>2. "extractions" \in DOMAIN OwnNames \ DOMAIN Schema(8)
    BY DEF OwnNames, Schema, TablesAt
  <2>3. ExtractionsTable = Shape(C, {}, X)
    BY DEF ExtractionsTable
  <2> HIDE DEF C, X
  <2>4. Good(tx \bullet CreateTable("extractions", C, X), Put(Schema(8), "extractions", Shape(C, {}, X)))
    BY <2>1, <2>2, TableCreated
  <2>5. QED
    BY <2>3, <2>4
<1> HIDE DEF t, E, B, B1, B2, B3, B4, K, Kd, Ke, oldIdx, newIdx, newCols, none, values, C, X, t0
<1>10. /\ Good(t1, E) /\ t1.db.rows["chunks"] = {}
       /\ \A r \in t1.db.rows["documents"] : r["published"] = FALSE
  <2>1. /\ Good(t1, E) /\ t1.db.rows["chunks"] = {}
        /\ \A r \in t1.db.rows["documents"] : \A c \in DOMAIN values : r[c] = values[c]
    BY <1>1, <1>7, <1>9, ChunksForgotten
  <2>2. values["published"] = FALSE
    BY DEF values
  <2>3. QED
    BY <1>7, <2>1, <2>2
<1> HIDE DEF t1
<1>11. Good(t2, Put(E, t, Shape(B3, none, Kd \cup {ReuseByOperators}))) /\ t2.db.rows = t1.db.rows
  <2>1. Good(t1, Put(E, t, Shape(B3, {Index("chunks_operators_idx", ChunkOperators)},
                                 Kd \cup {ReuseByOperators})))
    BY <1>1, <1>2, <1>6, <1>10 DEF t
  <2>2. QED
    BY <2>1, IndexDropped DEF none
<1> HIDE DEF t2
<1>12. Good(t3, Put(E, t, Shape(B3, none, Kd))) /\ t3.db.rows = t2.db.rows
  BY <1>4, <1>11, ConstraintDropped, RowsStay
<1> HIDE DEF t3
<1>13. /\ Good(t4, Put(E, t, Shape(B2, none, Kd))) /\ t4.db.rows["chunks"] = {}
       /\ t4.db.rows["documents"] = t1.db.rows["documents"]
  <2>1. /\ Good(t4, Put(E, t, Shape(B2, none, Kd)))
        /\ \A u \in DOMAIN t3.db.rows \ {t} : t4.db.rows[u] = t3.db.rows[u]
        /\ t3.db.rows[t] = {} => t4.db.rows[t] = {}
    <3>1. /\ "extractor_version" \notin B2 /\ Kd = {k \in Kd : "extractor_version" \notin k.columns}
          /\ \A i \in none : "extractor_version" \notin i.columns
      BY <1>3, <1>4, <1>5
    <3>2. Good(t3, Put(E, t, Shape(B2 \cup {"extractor_version"}, none, Kd)))
      BY <1>12 DEF B3
    <3>3. QED
      BY <3>1, <3>2, ColumnDropped
  <2>2. "documents" \in DOMAIN t3.db.rows \ {t}
    BY <1>8, <1>12, RowsOfTables DEF t
  <2>3. QED
    BY <1>10, <1>11, <1>12, <2>1, <2>2 DEF t
<1> HIDE DEF t4
<1>14. /\ Good(t5, Put(E, t, Shape(B1, none, Kd))) /\ t5.db.rows["chunks"] = {}
       /\ t5.db.rows["documents"] = t1.db.rows["documents"]
  <2>1. /\ Good(t5, Put(E, t, Shape(B1, none, Kd)))
        /\ \A u \in DOMAIN t4.db.rows \ {t} : t5.db.rows[u] = t4.db.rows[u]
        /\ t4.db.rows[t] = {} => t5.db.rows[t] = {}
    BY <1>3, <1>4, <1>5, <1>13, ColumnDropped DEF B2
  <2>2. "documents" \in DOMAIN t4.db.rows \ {t}
    BY <1>8, <1>13, RowsOfTables DEF t
  <2>3. QED
    BY <1>13, <2>1, <2>2 DEF t
<1> HIDE DEF t5
<1>15. /\ Good(t6, Put(E, t, Shape(B, none, K))) /\ t6.db.rows["chunks"] = {}
       /\ t6.db.rows["documents"] = t1.db.rows["documents"]
  <2>1. /\ Good(t6, Put(E, t, Shape(B, none, K)))
        /\ \A u \in DOMAIN t5.db.rows \ {t} : t6.db.rows[u] = t5.db.rows[u]
        /\ t5.db.rows[t] = {} => t6.db.rows[t] = {}
    BY <1>3, <1>4, <1>5, <1>14, ColumnDropped DEF B1
  <2>2. "documents" \in DOMAIN t5.db.rows \ {t}
    BY <1>8, <1>14, RowsOfTables DEF t
  <2>3. QED
    BY <1>14, <2>1, <2>2 DEF t
<1> HIDE DEF t6
<1>16. Good(t7, Put(E, t, Shape(B4, none, K))) /\ t7.db.rows = t6.db.rows
  BY <1>3, <1>15, RequiredAdded DEF B4, t
<1> HIDE DEF t7
<1>17. Good(t8, Put(E, t, Shape(B4, none, Ke))) /\ t8.db.rows = t7.db.rows
  <2>1. \A r \in t7.db.rows[t] : Satisfies(t7.db, t, ChunksOfExtraction, r)
    BY <1>15, <1>16 DEF t
  <2>2. /\ ChunksOfExtraction.kind # "unique"
        /\ ChunksOfExtraction.refs \in DOMAIN Put(E, t, Shape(B4, none, K))
    BY <1>8, ChunkFacts DEF Put
  <2>3. QED
    <3>1. Good(t8, Put(E, t, Shape(B4, none, Ke)))
      BY <1>3, <1>4, <1>16, <2>1, <2>2, ConstraintAdded DEF Ke
    <3>2. QED
      BY <3>1, RowsStay
<1> HIDE DEF t8
<1>18. Good(t9, Put(E, t, Shape(B4, none, Ke \cup {ReuseByExtraction}))) /\ t9.db.rows = t8.db.rows
  <2>1. \A r \in t8.db.rows[t] : Satisfies(t8.db, t, ReuseByExtraction, r)
    BY <1>15, <1>16, <1>17 DEF t
  <2>2. ReuseByExtraction.kind = "unique"
    BY ChunkFacts
  <2>3. QED
    <3>1. Good(t9, Put(E, t, Shape(B4, none, Ke \cup {ReuseByExtraction})))
      BY <1>3, <1>4, <1>5, <1>17, <2>1, <2>2, ConstraintAdded
    <3>2. QED
      BY <3>1, RowsStay
<1> HIDE DEF t9
<1>19. /\ Good(t10, Put(E, t, Shape(B4, newIdx, Ke \cup {ReuseByExtraction})))
       /\ t10.db.rows = t9.db.rows
  <2>1. Good(t9, Put(E, t, Shape(B4, {}, Ke \cup {ReuseByExtraction})))
    BY <1>18 DEF none
  <2>2. /\ Good(t10, Put(E, t, Shape(B4, {Index("chunks_chunker_idx", newCols)},
                                     Ke \cup {ReuseByExtraction})))
        /\ t10.db.rows = t9.db.rows
    BY <1>3, <1>4, <2>1, IndexMade
  <2>3. QED
    BY <1>6, <2>2
<1> HIDE DEF t10
<1>20. Upgrade09(tx) = t10
  BY DEF Upgrade09, ForgetChunks, ChunkerIndex, ReuseByExtraction, ChunksOfExtraction,
         t10, t9, t8, t7, t6, t5, t4, t3, t2, t1, t0, t, C, X, values, newCols
<1>21. t10.db.rows["documents"] = t1.db.rows["documents"]
  BY <1>15, <1>16, <1>17, <1>18, <1>19
<1>22. QED
  BY <1>1, <1>2, <1>10, <1>19, <1>20, <1>21 DEF t

\* chunks by their document again, and no extractions
LEMMA Downgrade09Goes ==
    ASSUME NEW tx
    PROVE  Good(tx, Schema(9)) => Good(Downgrade09(tx), Schema(8))
<1> HAVE Good(tx, Schema(9))
<1> DEFINE t == "chunks"
           S == Schema(9)
           B == ChunkColumns
           B1 == B \cup {"document_id"}
           B2 == B1 \cup {"extractor_name"}
           B3 == B2 \cup {"extractor_version"}
           B4 == B \cup {"extraction_id"}
           K == {ChunkId}
           Kd == K \cup {ChunksOfDocument}
           Ke == K \cup {ChunksOfExtraction}
           oldIdx == {ByChunker}
           newIdx == {ByOperators}
           newCols == ChunkOperators
           none == {}
           values == [published |-> FALSE]
           t1 == tx \bullet DeleteAll("chunks") \bullet UpdateAll("documents", values)
           t2 == t1 \bullet DropIndex("chunks_chunker_idx", t)
           t3 == t2 \bullet DropConstraint("chunks_reuse_key", t)
           t4 == t3 \bullet DropConstraint("chunks_extraction_id_fkey", t)
           t5 == t4 \bullet DropColumn(t, "extraction_id")
           t6 == t5 \bullet AddRequired(t, "document_id")
           t7 == t6 \bullet AddConstraint(t, ChunksOfDocument)
           t8 == t7 \bullet AddRequired(t, "extractor_name")
           t9 == t8 \bullet AddRequired(t, "extractor_version")
           t10 == t9 \bullet AddConstraint(t, ReuseByOperators)
           t11 == t10 \bullet CreateIndex("chunks_operators_idx", t, newCols)
           t12 == t11 \bullet DropTable("extractions")
\* The shapes.
<1>1. /\ S = Put(S, "chunks", ChunksByExtraction)
      /\ S = Put(S, "documents", DocumentsWithStatus)
      /\ Put(Schema(8), "extractions", ExtractionsTable) = Put(S, "chunks", ChunksByOperators)
  <2>1. S = Put(S, "chunks", ChunksByExtraction)
    BY DEF Schema, TablesAt, TableAt, Put
  <2>2. S = Put(S, "documents", DocumentsWithStatus)
    BY DEF Schema, TablesAt, TableAt, Put
  <2>3. Put(Schema(8), "extractions", ExtractionsTable) = Put(S, "chunks", ChunksByOperators)
    BY DEF Schema, TablesAt, TableAt, Put
  <2>4. QED
    BY <2>1, <2>2, <2>3
<1>2. /\ ChunksByOperators = Shape(B3, newIdx, Kd \cup {ReuseByOperators})
      /\ ChunksByExtraction = Shape(B4, oldIdx, Ke \cup {ReuseByExtraction})
  BY DEF ChunksByOperators, ChunksByExtraction
<1>3. /\ "extraction_id" \notin B /\ "document_id" \notin B
      /\ "extractor_name" \notin B1 /\ "extractor_version" \notin B2
      /\ ChunksOfDocument.columns \subseteq B1 /\ ReuseByOperators.columns \subseteq B3
      /\ newCols \subseteq B3
  BY ChunkFacts DEF ChunkOperators
<1>4. /\ \A other \in Ke : other.name # "chunks_reuse_key"
      /\ \A other \in K : other.name # "chunks_extraction_id_fkey"
      /\ \A other \in K : other.name # ChunksOfDocument.name
      /\ \A other \in Kd : other.name # ReuseByOperators.name
      /\ \A other \in Kd \cup {ReuseByOperators} : other.name # "chunks_operators_idx"
      /\ K = {k \in K : "extraction_id" \notin k.columns}
      /\ ReuseByExtraction.name = "chunks_reuse_key"
      /\ ChunksOfExtraction.name = "chunks_extraction_id_fkey"
      /\ ReuseByOperators.name \in OwnNames[t] /\ "chunks_operators_idx" \in OwnNames[t]
  BY ChunkFacts
<1>5. \A c : \A i \in none : c \notin i.columns /\ i.name # c
  OBVIOUS
<1>6. /\ oldIdx = {Index("chunks_chunker_idx", {"chunker_name", "chunker_version"})}
      /\ newIdx = {Index("chunks_operators_idx", newCols)}
  BY DEF ByOperators, ByChunker
<1>7. DOMAIN values \subseteq {"published", "status", "error"} /\ "status" \notin DOMAIN values
  OBVIOUS
<1>8. "documents" \in DOMAIN S
  BY DEF Schema, TablesAt
\* The statements.
<1> HIDE DEF t, S, B, B1, B2, B3, B4, K, Kd, Ke, oldIdx, newIdx, newCols, none, values
<1>9. Good(tx, S)
  BY DEF S
<1>10. Good(t1, S) /\ t1.db.rows["chunks"] = {}
  BY <1>1, <1>7, <1>9, ChunksForgotten
<1> HIDE DEF t1
<1>11. Good(t2, Put(S, t, Shape(B4, none, Ke \cup {ReuseByExtraction}))) /\ t2.db.rows[t] = {}
  <2>1. Good(t1, Put(S, t, Shape(B4, {Index("chunks_chunker_idx", {"chunker_name", "chunker_version"})},
                                 Ke \cup {ReuseByExtraction})))
    BY <1>1, <1>2, <1>6, <1>10 DEF t
  <2>2. /\ Good(t2, Put(S, t, Shape(B4, none, Ke \cup {ReuseByExtraction})))
        /\ t2.db.rows = t1.db.rows
    BY <2>1, IndexDropped DEF none
  <2>3. QED
    BY <1>10, <2>2 DEF t
<1> HIDE DEF t2
<1>12. Good(t3, Put(S, t, Shape(B4, none, Ke))) /\ t3.db.rows[t] = {}
  BY <1>4, <1>11, ConstraintDropped, RowsStay
<1> HIDE DEF t3
<1>13. Good(t4, Put(S, t, Shape(B4, none, K))) /\ t4.db.rows[t] = {}
  BY <1>4, <1>12, ConstraintDropped, RowsStay DEF Ke
<1> HIDE DEF t4
<1>14. Good(t5, Put(S, t, Shape(B, none, K))) /\ t5.db.rows[t] = {}
  <2>1. /\ "extraction_id" \notin B /\ K = {k \in K : "extraction_id" \notin k.columns}
        /\ \A i \in none : "extraction_id" \notin i.columns
    BY <1>3, <1>4, <1>5
  <2>2. Good(t4, Put(S, t, Shape(B \cup {"extraction_id"}, none, K))) /\ t4.db.rows[t] = {}
    BY <1>13 DEF B4
  <2>3. QED
    BY <2>1, <2>2, ColumnDropped
<1> HIDE DEF t5
<1>15. Good(t6, Put(S, t, Shape(B1, none, K))) /\ t6.db.rows[t] = {}
  <2>1. Good(t6, Put(S, t, Shape(B1, none, K)))
    BY <1>3, <1>14, RequiredAdded DEF B1
  <2>2. QED
    BY <1>14, <2>1, RowsStay
<1> HIDE DEF t6
<1>16. Good(t7, Put(S, t, Shape(B1, none, Kd))) /\ t7.db.rows[t] = {}
  <2>1. \A r \in t6.db.rows[t] : Satisfies(t6.db, t, ChunksOfDocument, r)
    BY <1>15
  <2>2. /\ ChunksOfDocument.kind # "unique"
        /\ ChunksOfDocument.refs \in DOMAIN Put(S, t, Shape(B1, none, K))
    BY <1>8, ChunkFacts DEF Put
  <2>3. Good(t7, Put(S, t, Shape(B1, none, Kd)))
    BY <1>3, <1>4, <1>15, <2>1, <2>2, ConstraintAdded DEF Kd
  <2>4. QED
    BY <1>15, <2>3, RowsStay
<1> HIDE DEF t7
<1>17. Good(t8, Put(S, t, Shape(B2, none, Kd))) /\ t8.db.rows[t] = {}
  <2>1. Good(t8, Put(S, t, Shape(B2, none, Kd)))
    BY <1>3, <1>16, RequiredAdded DEF B2
  <2>2. QED
    BY <1>16, <2>1, RowsStay
<1> HIDE DEF t8
<1>18. Good(t9, Put(S, t, Shape(B3, none, Kd))) /\ t9.db.rows[t] = {}
  <2>1. Good(t9, Put(S, t, Shape(B3, none, Kd)))
    BY <1>3, <1>17, RequiredAdded DEF B3
  <2>2. QED
    BY <1>17, <2>1, RowsStay
<1> HIDE DEF t9
<1>19. Good(t10, Put(S, t, Shape(B3, none, Kd \cup {ReuseByOperators})))
  <2>1. \A r \in t9.db.rows[t] : Satisfies(t9.db, t, ReuseByOperators, r)
    BY <1>18
  <2>2. ReuseByOperators.kind = "unique"
    BY ChunkFacts
  <2>3. QED
    BY <1>3, <1>4, <1>5, <1>18, <2>1, <2>2, ConstraintAdded
<1> HIDE DEF t10
<1>20. Good(t11, Put(S, t, Shape(B3, newIdx, Kd \cup {ReuseByOperators})))
  <2>1. Good(t10, Put(S, t, Shape(B3, {}, Kd \cup {ReuseByOperators})))
    BY <1>19 DEF none
  <2>2. Good(t11, Put(S, t, Shape(B3, {Index("chunks_operators_idx", newCols)},
                                  Kd \cup {ReuseByOperators})))
    BY <1>3, <1>4, <2>1, IndexMade
  <2>3. QED
    BY <1>6, <2>2
<1> HIDE DEF t11
<1>21. Good(t12, Schema(8))
  <2>1. Good(t11, Put(Schema(8), "extractions", ExtractionsTable))
    BY <1>1, <1>2, <1>20 DEF t
  <2>2. /\ "extractions" \notin DOMAIN Schema(8)
        /\ Schema(8) = [u \in DOMAIN Schema(8) |-> Schema(8)[u]]
        /\ \A u \in DOMAIN Schema(8) : \A k \in Schema(8)[u].constraints : k.refs # "extractions"
    BY References DEF Schema, TablesAt
  <2>3. QED
    BY <2>1, <2>2, TableDropped
<1>22. Downgrade09(tx) = t12
  BY DEF Downgrade09, ToDocument, OperatorsIndex, t12, t11, t10, t9, t8, t7, t6, t5, t4, t3, t2, t1,
         t, values, newCols
<1>23. QED
  BY <1>21, <1>22

-----------------------------------------------------------------------------
(* Runs of the chain.                                                         *)

\* Every revision goes up and down between the tables of its two ends.
LEMMA RevisionsGo ==
    ASSUME NEW tx, NEW r \in 1..9
    PROVE  /\ Good(tx, Schema(r - 1)) => Good(Upgrade(tx, r), Schema(r))
           /\ Good(tx, Schema(r)) => Good(Downgrade(tx, r), Schema(r - 1))
<1>1. CASE r = 1
  BY <1>1, Revision01 DEF Upgrade, Downgrade
<1>2. CASE r = 2
  BY <1>2, Revision02 DEF Upgrade, Downgrade
<1>3. CASE r = 3
  BY <1>3, Revision03 DEF Upgrade, Downgrade
<1>4. CASE r = 4
  BY <1>4, Revision04 DEF Upgrade, Downgrade
<1>5. CASE r = 5
  BY <1>5, Revision05 DEF Upgrade, Downgrade
<1>6. CASE r = 6
  BY <1>6, Revision06 DEF Upgrade, Downgrade
<1>7. CASE r = 7
  BY <1>7, Revision07 DEF Upgrade, Downgrade
<1>8. CASE r = 8
  BY <1>8, Revision08 DEF Upgrade, Downgrade
<1>9. CASE r = 9
  <2>1. Upgrade(tx, r) = Upgrade09(tx) /\ Downgrade(tx, r) = Downgrade09(tx)
    BY <1>9 DEF Upgrade, Downgrade
  <2>2. r = 9 /\ r - 1 = 8
    BY <1>9
  <2>3. Good(tx, Schema(8)) => Good(Upgrade09(tx), Schema(9))
    BY Upgrade09Goes
  <2>4. QED
    BY <2>1, <2>2, <2>3, Downgrade09Goes
<1>10. QED
  BY <1>1, <1>2, <1>3, <1>4, <1>5, <1>6, <1>7, <1>8, <1>9

\* The transaction after each revision of a run, given that after the one below.
Rising(f, d, from, to) == [r \in 0..to |-> IF r <= from THEN Begin(d) ELSE Upgrade(f[r - 1], r)]

\* The function that Perform defines by itself exists, since there are nine revisions.
LEMMA UpgradesCompose ==
    ASSUME NEW d, NEW from \in 0..9, NEW to \in 0..9
    PROVE  \E f : f = Rising(f, d, from, to)
<1> DEFINE E(n) == \E f : f = [r \in 0..n |-> IF r <= from THEN Begin(d) ELSE Upgrade(f[r - 1], r)]
<1>1. E(0)
  <2> DEFINE f == [r \in 0..0 |-> Begin(d)]
  <2>1. f = [r \in 0..0 |-> IF r <= from THEN Begin(d) ELSE Upgrade(f[r - 1], r)]
    OBVIOUS
  <2>2. QED
    BY <2>1
<1>2. ASSUME NEW n \in 0..8, E(n) PROVE E(n + 1)
  <2>1. PICK f : f = [r \in 0..n |-> IF r <= from THEN Begin(d) ELSE Upgrade(f[r - 1], r)]
    BY <1>2
  <2> DEFINE last == IF n + 1 <= from THEN Begin(d) ELSE Upgrade(f[n], n + 1)
             g == [r \in 0..(n + 1) |-> IF r = n + 1 THEN last ELSE f[r]]
  <2>2. \A r \in 0..n : g[r] = f[r]
    OBVIOUS
  <2>3. g[n + 1] = IF n + 1 <= from THEN Begin(d) ELSE Upgrade(g[n + 1 - 1], n + 1)
    <3>1. g[n + 1] = last /\ g[n + 1 - 1] = f[n]
      BY <2>2
    <3>2. QED
      BY <3>1
  <2>4. \A r \in 0..n : f[r] = IF r <= from THEN Begin(d) ELSE Upgrade(f[r - 1], r)
    BY <2>1
  <2>5. \A r \in 0..n : g[r] = IF r <= from THEN Begin(d) ELSE Upgrade(g[r - 1], r)
    <3>1. TAKE r \in 0..n
    <3>2. r <= from \/ (r - 1 \in 0..n /\ g[r - 1] = f[r - 1])
      BY <2>2
    <3>3. QED
      BY <2>2, <2>4, <3>2
  <2>6. DOMAIN g = 0..(n + 1) /\ g = [r \in 0..(n + 1) |-> g[r]]
    OBVIOUS
  <2> HIDE DEF g
  <2>7. \A r \in 0..(n + 1) : g[r] = IF r <= from THEN Begin(d) ELSE Upgrade(g[r - 1], r)
    BY <2>3, <2>5
  <2>8. g = [r \in 0..(n + 1) |-> IF r <= from THEN Begin(d) ELSE Upgrade(g[r - 1], r)]
    BY <2>6, <2>7
  <2>9. QED
    BY <2>8
<1> HIDE DEF E
<1>3. E(1) /\ E(2) /\ E(3) /\ E(4)
  BY <1>1, <1>2
<1>4. E(5) /\ E(6) /\ E(7) /\ E(8) /\ E(9)
  BY <1>2, <1>3
<1>5. E(to)
  BY <1>1, <1>3, <1>4
<1>6. QED
  BY <1>5 DEF E, Rising

\* A run goes through on any rows that fit the tables of its revision, and leads to the
\* tables of the other; one that gets to the head leaves no document published.
LEMMA PerformGoes ==
    ASSUME NEW d, NEW from \in 0..9, NEW to \in 0..9, from <= to \/ to = from - 1,
           Good(Begin(d), Schema(from))
    PROVE  LET done == Perform(d, from, to)
           IN  /\ Good(done, Schema(to))
               /\ from < 9 /\ to = 9 => \A r \in done.db.rows["documents"] : r.published = FALSE
<1>1. CASE from <= to
  <2> DEFINE reached == CHOOSE f :
                 f = [r \in 0..to |-> IF r <= from THEN Begin(d) ELSE Upgrade(f[r - 1], r)]
  <2>1. Perform(d, from, to) = reached[to]
    BY <1>1 DEF Perform
  <2>2. reached = [r \in 0..to |-> IF r <= from THEN Begin(d) ELSE Upgrade(reached[r - 1], r)]
    <3>1. \E f : f = Rising(f, d, from, to)
      BY UpgradesCompose
    <3>2. reached = CHOOSE f : f = Rising(f, d, from, to)
      BY DEF Rising
    <3> HIDE DEF reached
    <3>3. reached = Rising(reached, d, from, to)
      BY <3>1, <3>2, Zenon
    <3>4. QED
      BY <3>3 DEF Rising
  <2> HIDE DEF reached
  <2>3. \A r \in 0..to : reached[r] = IF r <= from THEN Begin(d) ELSE Upgrade(reached[r - 1], r)
    BY <2>2
  <2> DEFINE G(r) == r <= to => Good(reached[r], Schema(IF r <= from THEN from ELSE r))
  <2>4. G(0)
    BY <2>3
  <2>5. ASSUME NEW r \in 0..8, G(r) PROVE G(r + 1)
    <3>1. SUFFICES ASSUME r + 1 <= to PROVE Good(reached[r + 1], Schema(IF r + 1 <= from THEN from ELSE r + 1))
      OBVIOUS
    <3>2. CASE r + 1 <= from
      BY <2>3, <3>1, <3>2
    <3>3. CASE ~(r + 1 <= from)
      <4>1. reached[r + 1] = Upgrade(reached[r], r + 1)
        BY <2>3, <3>1, <3>3
      <4>2. Good(reached[r], Schema(r + 1 - 1))
        <5>1. (IF r <= from THEN from ELSE r) = r /\ r + 1 - 1 = r
          BY <3>3
        <5>2. QED
          BY <2>5, <3>1, <5>1
      <4>3. r + 1 \in 1..9 /\ (IF r + 1 <= from THEN from ELSE r + 1) = r + 1
        BY <3>3
      <4>4. QED
        BY <4>1, <4>2, <4>3, RevisionsGo
    <3>4. QED
      BY <3>2, <3>3
  <2> HIDE DEF G
  <2>6. G(1) /\ G(2) /\ G(3) /\ G(4)
    BY <2>4, <2>5
  <2>7. G(5) /\ G(6) /\ G(7) /\ G(8) /\ G(9)
    BY <2>5, <2>6
  <2>8. G(to)
    BY <2>4, <2>6, <2>7
  <2>9. Good(reached[to], Schema(to))
    <3>1. (IF to <= from THEN from ELSE to) = to
      BY <1>1
    <3>2. QED
      BY <2>8, <3>1 DEF G
  <2>10. from < 9 /\ to = 9 => \A r \in reached[to].db.rows["documents"] : r.published = FALSE
    <3>1. HAVE from < 9 /\ to = 9
    <3>2. reached[9] = Upgrade09(reached[8])
      <4>1. reached[9] = Upgrade(reached[9 - 1], 9) /\ 9 - 1 = 8
        BY <2>3, <3>1
      <4>2. Upgrade(reached[8], 9) = Upgrade09(reached[8])
        BY DEF Upgrade
      <4>3. QED
        BY <4>1, <4>2
    <3>3. Good(reached[8], Schema(8))
      <4>1. (IF 8 <= from THEN from ELSE 8) = 8
        BY <3>1
      <4>2. QED
        BY <2>7, <3>1, <4>1 DEF G
    <3>4. QED
      BY <3>1, <3>2, <3>3, Upgrade09Goes
  <2>11. QED
    BY <2>1, <2>9, <2>10
<1>2. CASE to = from - 1
  <2>1. Perform(d, from, to) = Downgrade(Begin(d), from) /\ from \in 1..9 /\ ~(from < 9 /\ to = 9)
    BY <1>2 DEF Perform
  <2>2. Good(Downgrade(Begin(d), from), Schema(to))
    BY <1>2, <2>1, RevisionsGo
  <2>3. QED
    BY <2>1, <2>2
<1>3. QED
  BY <1>1, <1>2

\* A fresh database at a revision.
LEMMA FreshDatabase ==
    ASSUME NEW r \in 0..9
    PROVE  Good(Perform(EmptyDb, 0, r), Schema(r))
<1>1. Good(Begin(EmptyDb), Schema(0))
  <2>1. EmptyDb.tables = Schema(0) /\ EmptyDb.rows = Schema(0) /\ DOMAIN Schema(0) = {}
    BY DEF EmptyDb, Without, Schema, TablesAt
  <2>2. Whole(EmptyDb)
    BY DEF Whole, EmptyDb
  <2>3. Sound(EmptyDb) /\ Named(Schema(0))
    BY <2>1 DEF Sound, Named
  <2>4. QED
    BY <2>1, <2>2, <2>3 DEF Good, Begin
<1>2. 0 \in 0..9 /\ 0 <= r
  OBVIOUS
<1>3. QED
  BY <1>1, <1>2, PerformGoes

\* What a fresh database gets is what the revisions were shown to leave.
LEMMA SchemaAtIsSchema == \A r \in 0..9 : SchemaAt[r] = Schema(r)
  BY FreshDatabase DEF SchemaAt, HeadRevision, Good

\* What a run is given to start with.
LEMMA RunBegins ==
    ASSUME NEW d, NEW r \in 0..9, d.tables = Schema(r), Whole(d), Sound(d)
    PROVE  Good(Begin(d), Schema(r))
<1>1. Named(Schema(r))
  BY FreshDatabase DEF Good
<1>2. QED
  BY <1>1 DEF Good, Begin

-----------------------------------------------------------------------------
(* The advisory lock of ensure_schema, for any number of initialisers and of  *)
(* command lines that take no lock.                                           *)

MigrationsSpec == MigrationsInit /\ [][MigrationsNext]_migrationVars

\* The lock is held by one initialiser at a time, and each reads the revision under it.
OneInitialiser == \A i, j \in Initialiser : ~Idle(i) /\ ~Idle(j) => i = j

LockInv ==
    /\ migrating = [m \in Initialiser \cup Cli |-> migrating[m]]
    /\ OneInitialiser
    /\ InitialisersTakeTurns

\* A deployment starts with no run.
LEMMA LockInitially == MigrationsInit => LockInv
  BY DEF MigrationsInit, LockInv, OneInitialiser, InitialisersTakeTurns, Idle

\* A run begins: an initialiser when no other has, a command line at any time.
LEMMA BeginKeepsLock ==
    ASSUME NEW m \in DOMAIN migrating, LockInv, EnsureSchema(m) \/ RunAlembic(m)
    PROVE  LockInv'
  <1>1. \/ m \in Initialiser /\ LockIsFree
        \/ m \in Cli /\ m \notin Initialiser
    BY MigratorAssumption DEF EnsureSchema, RunAlembic
  <1>2. PICK run : migrating' = [migrating EXCEPT ![m] = run]
    BY DEF EnsureSchema, RunAlembic
  <1>3. \A i \in Initialiser : i # m => Idle(i)' = Idle(i)
    BY <1>2 DEF LockInv, Idle
  <1>4. OneInitialiser'
    BY <1>1, <1>3 DEF LockInv, OneInitialiser, LockIsFree
  <1>5. InitialisersTakeTurns'
    BY DEF LockInv, InitialisersTakeTurns, EnsureSchema, RunAlembic
  <1>6. migrating' = [n \in Initialiser \cup Cli |-> migrating'[n]]
    BY <1>2 DEF LockInv
  <1> QED BY <1>4, <1>5, <1>6 DEF LockInv

\* A run ends, whether it commits, is refused or dies.
LEMMA EndKeepsLock ==
    ASSUME NEW m \in DOMAIN migrating, LockInv, Migrate(m) \/ AbortMigration(m)
    PROVE  LockInv'
  <1>1. ~Idle(m) /\ migrating' = [migrating EXCEPT ![m] = NoRun]
    BY DEF Migrate, AbortMigration
  <1>2. \A i \in Initialiser : Idle(i)' = (Idle(i) \/ i = m)
    BY <1>1 DEF LockInv, Idle
  <1>3. OneInitialiser'
    BY <1>2 DEF LockInv, OneInitialiser
  <1>4. m \in Initialiser => {i \in Initialiser \ {m} : ~Idle(i)} = {}
    BY <1>1 DEF LockInv, OneInitialiser
  <1>5. \/ overtaken' = overtaken
        \/ m \in Initialiser /\ overtaken' = overtaken \cup {i \in Initialiser \ {m} : ~Idle(i)}
    BY DEF Migrate, AbortMigration
  <1>6. InitialisersTakeTurns'
    BY <1>4, <1>5 DEF LockInv, InitialisersTakeTurns
  <1>7. migrating' = [n \in Initialiser \cup Cli |-> migrating'[n]]
    BY <1>1 DEF LockInv
  <1> QED BY <1>3, <1>6, <1>7 DEF LockInv

\* The writes of the services hold no lock.
LEMMA LockKept == LockInv /\ [MigrationsNext]_migrationVars => LockInv'
  <1> SUFFICES ASSUME LockInv, [MigrationsNext]_migrationVars PROVE LockInv'
    OBVIOUS
  <1>1. CASE \E m \in DOMAIN migrating :
                EnsureSchema(m) \/ RunAlembic(m) \/ Migrate(m) \/ AbortMigration(m)
    BY <1>1, BeginKeepsLock, EndKeepsLock
  <1>2. CASE UNCHANGED <<migrating, overtaken>>
    BY <1>2 DEF LockInv, OneInitialiser, InitialisersTakeTurns, Idle
  <1>3. (\/ \E t \in DOMAIN db.tables \cap DOMAIN Arrivals : InsertRow(t)
         \/ PublishRow \/ DeleteDocumentRow) => UNCHANGED <<migrating, overtaken>>
    BY DEF InsertRow, PublishRow, DeleteDocumentRow
  <1> QED BY <1>1, <1>2, <1>3 DEF MigrationsNext, migrationVars

\* No initialiser works from a revision another initialiser has moved since, whatever
\* command lines run beside them (ensure_schema reads the revision under the lock).
THEOREM InitialisersAlternate == MigrationsSpec => []InitialisersTakeTurns
  <1>1. LockInv => InitialisersTakeTurns
    BY DEF LockInv
  <1> QED BY <1>1, LockInitially, LockKept, PTL DEF MigrationsSpec

-----------------------------------------------------------------------------
(* Runs and writes, in any order.                                             *)

\* What a run has read and is to do: to the head from below it, or one revision down.
Planned(run) ==
    /\ run.from \in 0..9 /\ run.to \in 0..9
    /\ (run.from < 9 /\ run.to = 9) \/ run.to = run.from - 1
RunInv == \A m \in DOMAIN migrating : Idle(m) \/ Planned(migrating[m])

\* The database: the tables of its revision, and rows as they are to be.
DatabaseInv ==
    /\ revision \in 0..9
    /\ db.tables = Schema(revision) /\ Whole(db) /\ Sound(db)

ChainInv == LockInv /\ RunInv /\ DatabaseInv /\ MigrationsApply /\ PublishedStaysSearchable

\* A deployment may be at any revision, and has no rows yet.
LEMMA ChainInitially == MigrationsInit => ChainInv
<1> SUFFICES ASSUME MigrationsInit PROVE ChainInv
  OBVIOUS
<1>1. revision \in 0..9 /\ revision # 9 /\ db = Perform(EmptyDb, 0, revision).db
  BY DEF MigrationsInit, HeadRevision
<1>2. DatabaseInv
  BY <1>1, FreshDatabase DEF DatabaseInv, Good
<1>3. RunInv /\ MigrationsApply /\ PublishedStaysSearchable
  BY <1>1 DEF RunInv, MigrationsApply, PublishedStaysSearchable, MigrationsInit, Idle, HeadRevision
<1>4. QED
  BY <1>2, <1>3, LockInitially DEF ChainInv

\* What can be searched stays so for as long as its rows are there.
LEMMA SearchableStays ==
    ASSUME NEW doc,
           \A t \in {"chunks", "embeddings", "extractions"} : db.rows[t] \subseteq db.rows[t]'
    PROVE  Searchable(doc) \subseteq Searchable(doc)'
<1>1. SUFFICES ASSUME NEW e \in Searchable(doc) PROVE e \in Searchable(doc)'
  OBVIOUS
<1>2. e \in db.rows["embeddings"]
  BY DEF Searchable
<1>3. PICK c \in db.rows["chunks"] :
        /\ e.chunk_id = c.chunk_id
        /\ IF "document_id" \in DOMAIN c THEN c.document_id = doc
           ELSE \E x \in db.rows["extractions"] : x.extraction_id = c.extraction_id /\ x.document_id = doc
  BY DEF Searchable
<1>4. c \in db.rows["chunks"]' /\ e \in db.rows["embeddings"]'
  BY <1>2
<1>5. \A x \in db.rows["extractions"] : x \in db.rows["extractions"]'
  OBVIOUS
<1>6. QED
  BY <1>3, <1>4, <1>5 DEF Searchable

\* A run begins or dies: the database is left alone.
LEMMA RunsLeaveDatabase ==
    ASSUME NEW m \in DOMAIN migrating, ChainInv, EnsureSchema(m) \/ RunAlembic(m) \/ AbortMigration(m)
    PROVE  RunInv' /\ DatabaseInv' /\ MigrationsApply' /\ PublishedStaysSearchable'
<1>1. UNCHANGED <<db, revision, broken, backing>>
  BY DEF EnsureSchema, RunAlembic, AbortMigration
<1>2. DatabaseInv' /\ MigrationsApply' /\ PublishedStaysSearchable'
  BY <1>1 DEF ChainInv, DatabaseInv, MigrationsApply, PublishedStaysSearchable, Searchable
<1>3. PICK run : migrating' = [migrating EXCEPT ![m] = run] /\ (run = NoRun \/ Planned(run))
  <2>1. revision \in 0..9
    BY DEF ChainInv, DatabaseInv
  <2>2. CASE EnsureSchema(m)
    <3>1. migrating' = [migrating EXCEPT ![m] = [from |-> revision, to |-> 9]] /\ revision # 9
      BY <2>2 DEF EnsureSchema, HeadRevision
    <3>2. Planned([from |-> revision, to |-> 9])
      BY <2>1, <3>1 DEF Planned
    <3>3. QED
      BY <3>1, <3>2
  <2>3. CASE RunAlembic(m)
    <3>1. PICK to \in {9, revision - 1} \cap 0..9 :
            to # revision /\ migrating' = [migrating EXCEPT ![m] = [from |-> revision, to |-> to]]
      BY <2>3 DEF RunAlembic, HeadRevision
    <3>2. Planned([from |-> revision, to |-> to])
      BY <2>1, <3>1 DEF Planned
    <3>3. QED
      BY <3>1, <3>2
  <2>4. CASE AbortMigration(m)
    BY <2>4 DEF AbortMigration
  <2>5. QED
    BY <2>2, <2>3, <2>4
<1>4. RunInv'
  BY <1>3 DEF ChainInv, RunInv, Idle
<1>5. QED
  BY <1>2, <1>4

\* A run that still finds the revision it has read commits.
LEMMA MigrateKeeps ==
    ASSUME NEW m \in DOMAIN migrating, ChainInv, Migrate(m)
    PROVE  RunInv' /\ DatabaseInv' /\ MigrationsApply' /\ PublishedStaysSearchable'
<1> DEFINE run == migrating[m]
           done == Perform(db, run.from, run.to)
<1>1. migrating' = [migrating EXCEPT ![m] = NoRun] /\ ~Idle(m)
  BY DEF Migrate
<1>2. RunInv'
  BY <1>1 DEF ChainInv, RunInv, Idle
<1>3. /\ run.from \in 0..9 /\ run.to \in 0..9
      /\ (run.from < 9 /\ run.to = 9) \/ run.to = run.from - 1
      /\ run.from <= run.to \/ run.to = run.from - 1
  BY <1>1 DEF ChainInv, RunInv, Planned
<1>4. CASE revision = run.from
  <2>1. Good(Begin(db), Schema(run.from))
    BY <1>3, <1>4, RunBegins DEF ChainInv, DatabaseInv
  <2>2. /\ Good(done, Schema(run.to))
        /\ run.from < 9 /\ run.to = 9 => \A r \in done.db.rows["documents"] : r.published = FALSE
    <3> DEFINE from == run.from
               to == run.to
    <3>1. from \in 0..9 /\ to \in 0..9 /\ (from <= to \/ to = from - 1) /\ Good(Begin(db), Schema(from))
      BY <1>3, <2>1
    <3> HIDE DEF from, to
    <3>2. /\ Good(Perform(db, from, to), Schema(to))
          /\ from < 9 /\ to = 9 =>
                \A r \in Perform(db, from, to).db.rows["documents"] : r.published = FALSE
      BY <3>1, PerformGoes
    <3>3. QED
      BY <3>2 DEF from, to
  <2> HIDE DEF done
  <2>3. done.ok = TRUE
    BY <2>2 DEF Good
  <2>4. db' = done.db /\ revision' = run.to /\ broken' = broken
    BY <1>4, <2>3 DEF Migrate, done
  <2>5. DatabaseInv' /\ MigrationsApply'
    BY <1>3, <2>2, <2>4 DEF Good, DatabaseInv, ChainInv, MigrationsApply
  <2>6. PublishedStaysSearchable'
    BY <1>3, <2>2, <2>4 DEF PublishedStaysSearchable, HeadRevision
  <2>7. QED
    BY <1>2, <2>5, <2>6
<1>5. CASE revision # run.from
  <2>1. UNCHANGED <<db, revision, backing>> /\ broken' = (broken \/ FALSE)
    BY <1>5 DEF Migrate
  <2>2. DatabaseInv' /\ MigrationsApply'
    BY <2>1 DEF ChainInv, DatabaseInv, MigrationsApply
  <2>3. PublishedStaysSearchable'
    BY <2>1 DEF ChainInv, PublishedStaysSearchable, Searchable
  <2>4. QED
    BY <1>2, <2>2, <2>3
<1>6. QED
  BY <1>4, <1>5

\* A row that satisfies the constraints of its table can be added.
LEMMA InsertKeeps ==
    ASSUME NEW t \in DOMAIN db.tables \cap DOMAIN Arrivals, ChainInv, InsertRow(t)
    PROVE  DatabaseInv' /\ PublishedStaysSearchable'
<1> DEFINE shape == db.tables[t]
<1>1. PICK full \in Arrivals[t] :
        LET r == [c \in shape.columns |-> full[c]]
            d == [db EXCEPT !.rows[t] = @ \cup {r}]
        IN  db' = d /\ \A k \in shape.constraints : Satisfies(d, t, k, r)
  BY DEF InsertRow
<1> DEFINE r == [c \in shape.columns |-> full[c]]
<1>2. /\ revision \in 0..9 /\ db.tables = Schema(revision) /\ Whole(db) /\ Sound(db)
      /\ revision' = revision /\ backing' = backing /\ t \in DOMAIN db.rows
  BY DEF ChainInv, DatabaseInv, InsertRow, Sound
<1>3. /\ db' = [db EXCEPT !.rows[t] = @ \cup {r}]
      /\ \A k \in shape.constraints : Satisfies(db', t, k, r)
  BY <1>1
<1>4. /\ db'.tables = db.tables /\ Whole(db') /\ DOMAIN db'.rows = DOMAIN db.rows
      /\ db'.rows[t] = db.rows[t] \cup {r}
      /\ \A u \in DOMAIN db.rows \ {t} : db'.rows[u] = db.rows[u]
  BY <1>2, <1>3 DEF Whole
<1>5. Fits(shape, db.rows[t])
  BY <1>2 DEF Sound
<1> HIDE DEF shape
<1>6. DOMAIN r = shape.columns /\ \A c \in shape.columns : r[c] = full[c]
  OBVIOUS
<1> HIDE DEF r
<1>7. Fits(shape, db'.rows[t])
  <2>1. \A k \in shape.constraints : Holds(k, db'.rows[t])
    BY <1>3, <1>4, <1>5 DEF Fits, Holds, Satisfies
  <2>2. QED
    BY <1>4, <1>5, <1>6, <2>1 DEF Fits
<1>8. Sound(db')
  BY <1>2, <1>4, <1>7 DEF Sound, shape
<1>9. PublishedStaysSearchable'
  <2>1. SUFFICES ASSUME revision = 9, NEW q \in db'.rows["documents"], q.published
                 PROVE  /\ q.document_id \in DOMAIN backing
                        /\ backing[q.document_id] \subseteq Searchable(q.document_id)'
    BY <1>2 DEF PublishedStaysSearchable, HeadRevision
  <2>2. /\ {"documents", "chunks", "embeddings", "extractions"} \subseteq DOMAIN db.rows
        /\ db.tables["documents"] = DocumentsWithStatus
    BY <1>2, <2>1 DEF Schema, TablesAt, TableAt, Sound
  <2>3. t = "documents" => r.published = FALSE
    <3>1. t = "documents" => full.published = FALSE
      BY ArrivalsAssumption
    <3>2. "published" \in DocumentsWithStatus.columns
      BY DEF DocumentsWithStatus, Shape
    <3>3. QED
      BY <1>6, <2>2, <3>1, <3>2 DEF shape
  <2>4. q \in db.rows["documents"]
    BY <1>4, <2>1, <2>2, <2>3
  <2>5. /\ q.document_id \in DOMAIN backing
        /\ backing[q.document_id] \subseteq Searchable(q.document_id)
    BY <2>1, <2>4 DEF ChainInv, PublishedStaysSearchable, HeadRevision
  <2>6. \A u \in {"chunks", "embeddings", "extractions"} : db.rows[u] \subseteq db'.rows[u]
    BY <1>4, <2>2
  <2>7. QED
    BY <2>5, <2>6, SearchableStays
<1>10. QED
  BY <1>2, <1>4, <1>8, <1>9 DEF DatabaseInv

\* A document that is published goes on record with what it has to search.
LEMMA PublishKeeps ==
    ASSUME ChainInv, PublishRow
    PROVE  DatabaseInv' /\ PublishedStaysSearchable'
<1> DEFINE t == "documents"
<1>1. PICK r \in db.rows[t] :
        /\ db' = [db EXCEPT !.rows[t] = (@ \ {r}) \cup {With(r, Completed)}]
        /\ backing' = With(backing, [doc \in {r.document_id} |-> Searchable(doc)])
  BY DEF PublishRow
<1> DEFINE new == With(r, Completed)
<1>2. /\ revision \in 6..9 /\ db.tables = Schema(revision) /\ Whole(db) /\ Sound(db)
      /\ revision' = revision
  BY DEF ChainInv, DatabaseInv, PublishRow
<1>3. t \in DOMAIN db.rows /\ t \in DOMAIN db.tables /\ db.tables[t] = DocumentsWithStatus
  BY <1>2 DEF Schema, TablesAt, TableAt, Sound
<1>4. /\ db'.tables = db.tables /\ Whole(db') /\ DOMAIN db'.rows = DOMAIN db.rows
      /\ db'.rows[t] = (db.rows[t] \ {r}) \cup {new}
      /\ \A u \in DOMAIN db.rows \ {t} : db'.rows[u] = db.rows[u]
  BY <1>1, <1>2, <1>3 DEF Whole
<1>5. Fits(DocumentsWithStatus, db.rows[t])
  BY <1>2, <1>3 DEF Sound
<1>6. DOMAIN r = DocumentsWithStatus.columns
  BY <1>5 DEF Fits
<1>7. /\ DOMAIN new = DOMAIN r /\ new["status"] = "ok"
      /\ \A c \in DOMAIN r : c \notin {"status", "error", "published"} => new[c] = r[c]
  <2>1. {"status", "error", "published"} \subseteq DOMAIN r
    BY <1>6 DEF DocumentsWithStatus, Shape
  <2>2. DOMAIN Completed = {"status", "error", "published"} /\ Completed["status"] = "ok"
    BY DEF Completed
  <2> HIDE DEF Completed
  <2>3. DOMAIN new = DOMAIN r \cup DOMAIN Completed
    BY DEF With
  <2>4. \A c \in DOMAIN new : new[c] = IF c \in DOMAIN Completed THEN Completed[c] ELSE r[c]
    BY DEF With
  <2> HIDE DEF new
  <2>5. QED
    BY <2>1, <2>2, <2>3, <2>4
<1> HIDE DEF new
<1>8. Fits(DocumentsWithStatus, db'.rows[t])
  <2>1. ASSUME NEW k \in DocumentsWithStatus.constraints PROVE Holds(k, db'.rows[t])
    <3>1. k.columns \subseteq DOMAIN r /\ Holds(k, db.rows[t])
      BY <1>5, <1>6 DEF Fits
    <3>2. \/ k.kind \in {"unique", "check"} /\ k.columns \cap {"status", "error", "published"} = {}
          \/ k.kind = "check" /\ k.columns = {"status"} /\ k.values = DocumentStatus
      BY DEF DocumentsWithStatus, Shape, DocumentKeys, StatusCheck, Unique, Check
    <3>3. CASE k.columns \cap {"status", "error", "published"} = {}
      <4>1. \A c \in k.columns : new[c] = r[c]
        BY <1>7, <3>1, <3>3
      <4>2. k.kind = "unique" =>
                \A q, p \in db'.rows[t] : (\A c \in k.columns : q[c] = p[c]) => q = p
        BY <1>4, <3>1, <4>1 DEF Holds
      <4>3. k.kind = "check" => \A q \in db'.rows[t] : \A c \in k.columns : q[c] \in k.values \cup {Null}
        BY <1>4, <3>1, <4>1 DEF Holds
      <4>4. QED
        BY <4>2, <4>3 DEF Holds
    <3>4. CASE k.kind = "check" /\ k.columns = {"status"} /\ k.values = DocumentStatus
      <4>1. \A q \in db.rows[t] : q["status"] \in DocumentStatus \cup {Null}
        BY <3>1, <3>4 DEF Holds
      <4>2. "ok" \in DocumentStatus
        BY DEF DocumentStatus
      <4>3. \A q \in db'.rows[t] : q["status"] \in DocumentStatus \cup {Null}
        BY <1>4, <1>7, <3>1, <3>4, <4>1, <4>2
      <4>4. QED
        BY <3>4, <4>3 DEF Holds
    <3>5. QED
      BY <3>2, <3>3, <3>4
  <2>2. QED
    BY <1>4, <1>5, <1>7, <1>6, <2>1 DEF Fits
<1>9. Sound(db')
  BY <1>2, <1>3, <1>4, <1>8 DEF Sound
<1>10. PublishedStaysSearchable'
  <2>1. SUFFICES ASSUME revision = 9, NEW q \in db'.rows[t], q.published
                 PROVE  /\ q.document_id \in DOMAIN backing'
                        /\ backing'[q.document_id] \subseteq Searchable(q.document_id)'
    BY <1>2 DEF PublishedStaysSearchable, HeadRevision
  <2>2. {"documents", "chunks", "embeddings", "extractions"} \subseteq DOMAIN db.rows
    BY <1>2, <2>1 DEF Schema, TablesAt, Sound
  <2>3. \A u \in {"chunks", "embeddings", "extractions"} : db.rows[u] \subseteq db'.rows[u]
    BY <1>4, <2>2
  <2>4. new.document_id = r.document_id
    <3>1. "document_id" \in DocumentsWithStatus.columns
      BY DEF DocumentsWithStatus, DocumentColumns, Shape
    <3>2. QED
      BY <1>7, <1>6, <3>1
  <2>5. /\ DOMAIN backing' = DOMAIN backing \cup {r.document_id}
        /\ \A doc \in DOMAIN backing' :
            backing'[doc] = IF doc = r.document_id THEN Searchable(doc) ELSE backing[doc]
    BY <1>1 DEF With
  <2>6. /\ q.document_id \in DOMAIN backing'
        /\ backing'[q.document_id] \subseteq Searchable(q.document_id)
    <3>1. CASE q.document_id = r.document_id
      BY <2>5, <3>1
    <3>2. CASE q.document_id # r.document_id
      <4>1. q \in db.rows[t]
        BY <1>4, <2>1, <2>4, <3>2
      <4>2. /\ q.document_id \in DOMAIN backing
            /\ backing[q.document_id] \subseteq Searchable(q.document_id)
        BY <2>1, <4>1 DEF ChainInv, PublishedStaysSearchable, HeadRevision
      <4>3. QED
        BY <2>5, <3>2, <4>2
    <3>3. QED
      BY <3>1, <3>2
  <2>7. Searchable(q.document_id) \subseteq Searchable(q.document_id)'
    BY <2>3, SearchableStays
  <2>8. QED
    BY <2>6, <2>7
<1>11. QED
  BY <1>2, <1>4, <1>9, <1>10 DEF DatabaseInv

\* The rows of a document at the head: its extractions, their chunks, their embeddings.
ExtractionsOf(d, doc) == {x \in d.rows["extractions"] : x.document_id = doc}
ChunksOf(d, doc) ==
    {c \in d.rows["chunks"] : \E x \in ExtractionsOf(d, doc) : x.extraction_id = c.extraction_id}
EmbeddingsOf(d, doc) ==
    {e \in d.rows["embeddings"] : \E c \in ChunksOf(d, doc) : c.chunk_id = e.chunk_id}

Within(d, r, gone) ==
    /\ gone["documents"] \subseteq {r}
    /\ gone["extractions"] \subseteq ExtractionsOf(d, r.document_id)
    /\ gone["chunks"] \subseteq ChunksOf(d, r.document_id)
    /\ gone["embeddings"] \subseteq EmbeddingsOf(d, r.document_id)

\* A cascade at the head takes the rows of the document only.
LEMMA CascadeStaysWithin ==
    ASSUME NEW d, d.tables = Schema(9), DOMAIN d.rows = DOMAIN d.tables,
           NEW r, NEW gone, Within(d, r, gone)
    PROVE  Within(d, r, Spread(d, gone))
<1> DEFINE kept == {"documents", "extractions", "chunks", "embeddings"}
<1>1. /\ kept \subseteq DOMAIN d.rows
      /\ d.tables["documents"] = DocumentsWithStatus /\ d.tables["extractions"] = ExtractionsTable
      /\ d.tables["chunks"] = ChunksByExtraction /\ d.tables["embeddings"] = EmbeddingsTable
  BY DEF Schema, TablesAt, TableAt
<1>2. \A t \in kept : Spread(d, gone)[t] =
        gone[t] \cup {q \in d.rows[t] :
            \E k \in d.tables[t].constraints : k.kind = "foreign" /\
                \E p \in gone[k.refs] : \A c \in k.columns : p[c] = q[c]}
  BY <1>1 DEF Spread
<1>3. Spread(d, gone)["documents"] \subseteq {r}
  <2>1. \A k \in DocumentsWithStatus.constraints : k.kind # "foreign"
    BY DEF DocumentsWithStatus, Shape, DocumentKeys, StatusCheck, Unique, Check
  <2>2. QED
    BY <1>1, <1>2, <2>1 DEF Within
<1>4. Spread(d, gone)["extractions"] \subseteq ExtractionsOf(d, r.document_id)
  <2>1. \A k \in ExtractionsTable.constraints :
            k.kind = "foreign" => k.columns = {"document_id"} /\ k.refs = "documents"
    BY DEF ExtractionsTable, Shape, Unique, Foreign
  <2>2. ASSUME NEW q \in Spread(d, gone)["extractions"], q \notin gone["extractions"]
        PROVE  q \in d.rows["extractions"] /\ \E p \in gone["documents"] : p.document_id = q.document_id
    BY <1>1, <1>2, <2>1, <2>2
  <2>3. QED
    BY <2>2 DEF Within, ExtractionsOf
<1>5. Spread(d, gone)["chunks"] \subseteq ChunksOf(d, r.document_id)
  <2>1. \A k \in ChunksByExtraction.constraints :
            k.kind = "foreign" => k.columns = {"extraction_id"} /\ k.refs = "extractions"
    BY DEF ChunksByExtraction, Shape, Unique, Foreign, ChunkId, ChunksOfExtraction, ReuseByExtraction
  <2>2. ASSUME NEW q \in Spread(d, gone)["chunks"], q \notin gone["chunks"]
        PROVE  q \in d.rows["chunks"] /\ \E p \in gone["extractions"] : p.extraction_id = q.extraction_id
    BY <1>1, <1>2, <2>1, <2>2
  <2>3. QED
    BY <2>2 DEF Within, ChunksOf
<1>6. Spread(d, gone)["embeddings"] \subseteq EmbeddingsOf(d, r.document_id)
  <2>1. \A k \in EmbeddingsTable.constraints :
            k.kind = "foreign" => k.columns = {"chunk_id"} /\ k.refs = "chunks"
    BY DEF EmbeddingsTable, Shape, Unique, Foreign
  <2>2. ASSUME NEW q \in Spread(d, gone)["embeddings"], q \notin gone["embeddings"]
        PROVE  q \in d.rows["embeddings"] /\ \E p \in gone["chunks"] : p.chunk_id = q.chunk_id
    BY <1>1, <1>2, <2>1, <2>2
  <2>3. QED
    BY <2>2 DEF Within, EmbeddingsOf
<1>7. QED
  BY <1>3, <1>4, <1>5, <1>6 DEF Within

\* What another document has to search is not among the rows of this one.
LEMMA OthersStaySearchable ==
    ASSUME revision = 9, db.tables = Schema(9), Sound(db),
           NEW r \in db.rows["documents"], NEW q \in db.rows["documents"], q # r,
           \A u \in {"chunks", "embeddings", "extractions"} : \E gone :
                Within(db, r, gone) /\ db'.rows[u] = db.rows[u] \ gone[u]
    PROVE  Searchable(q.document_id) \subseteq Searchable(q.document_id)'
<1>1. /\ {"documents", "extractions", "chunks", "embeddings"} \subseteq DOMAIN db.tables
      /\ db.tables["documents"] = DocumentsWithStatus /\ db.tables["extractions"] = ExtractionsTable
      /\ db.tables["chunks"] = ChunksByExtraction
  BY DEF Schema, TablesAt, TableAt
<1>2. \A p \in db.rows["documents"] : p.document_id = r.document_id => p = r
  <2>1. Unique("documents_pkey", {"document_id"}) \in DocumentsWithStatus.constraints
    BY DEF DocumentsWithStatus, Shape, DocumentKeys
  <2>2. Holds(Unique("documents_pkey", {"document_id"}), db.rows["documents"])
    BY <1>1, <2>1 DEF Sound, Fits
  <2>3. QED
    BY <2>2 DEF Holds, Unique
<1>3. \A x, y \in db.rows["extractions"] : x.extraction_id = y.extraction_id => x = y
  <2>1. Unique("extractions_pkey", {"extraction_id"}) \in ExtractionsTable.constraints
    BY DEF ExtractionsTable, Shape
  <2>2. Holds(Unique("extractions_pkey", {"extraction_id"}), db.rows["extractions"])
    BY <1>1, <2>1 DEF Sound, Fits
  <2>3. QED
    BY <2>2 DEF Holds, Unique
<1>4. \A c, k \in db.rows["chunks"] : c.chunk_id = k.chunk_id => c = k
  <2>1. ChunkId \in ChunksByExtraction.constraints
    BY DEF ChunksByExtraction, Shape
  <2>2. Holds(ChunkId, db.rows["chunks"])
    BY <1>1, <2>1 DEF Sound, Fits
  <2>3. QED
    BY <2>2 DEF Holds, Unique, ChunkId
<1>5. \A c \in db.rows["chunks"] : "document_id" \notin DOMAIN c
  <2>1. "document_id" \notin ChunksByExtraction.columns
    BY DEF ChunksByExtraction, Shape, ChunkColumns
  <2>2. \A c \in db.rows["chunks"] : DOMAIN c = ChunksByExtraction.columns
    BY <1>1 DEF Sound, Fits
  <2>3. QED
    BY <2>1, <2>2
<1> SUFFICES ASSUME NEW e \in Searchable(q.document_id) PROVE e \in Searchable(q.document_id)'
  OBVIOUS
<1>6. e \in db.rows["embeddings"]
  BY DEF Searchable
<1>7. PICK c \in db.rows["chunks"], x \in db.rows["extractions"] :
        e.chunk_id = c.chunk_id /\ x.extraction_id = c.extraction_id /\ x.document_id = q.document_id
  BY <1>5 DEF Searchable
<1>8. x \notin ExtractionsOf(db, r.document_id)
  BY <1>2, <1>7 DEF ExtractionsOf
<1>9. c \notin ChunksOf(db, r.document_id)
  BY <1>3, <1>7, <1>8 DEF ChunksOf, ExtractionsOf
<1>10. e \notin EmbeddingsOf(db, r.document_id)
  BY <1>4, <1>7, <1>9 DEF EmbeddingsOf, ChunksOf
<1>11. c \in db'.rows["chunks"] /\ e \in db'.rows["embeddings"] /\ x \in db'.rows["extractions"]
  BY <1>8, <1>9, <1>10, <1>6 DEF Within
<1>12. QED
  BY <1>5, <1>7, <1>11 DEF Searchable

\* A document is deleted, with all that hangs off it.
LEMMA DeleteKeeps ==
    ASSUME ChainInv, DeleteDocumentRow
    PROVE  DatabaseInv' /\ PublishedStaysSearchable'
<1> DEFINE t == "documents"
<1>1. PICK r \in db.rows[t] : db' = [db EXCEPT !.rows = Delete(db, t, {r})]
  BY DEF DeleteDocumentRow
<1>2. /\ revision \in 3..9 /\ db.tables = Schema(revision) /\ Whole(db) /\ Sound(db)
      /\ revision' = revision /\ backing' = backing
  BY DEF ChainInv, DatabaseInv, DeleteDocumentRow
<1>3. t \in DOMAIN db.rows
  BY <1>2 DEF Schema, TablesAt, Sound
<1>4. db'.tables = db.tables /\ Whole(db') /\ db'.rows = Delete(db, t, {r})
  BY <1>1, <1>2 DEF Whole
<1> HIDE DEF t
<1>5. /\ DOMAIN db'.rows = DOMAIN db.rows
      /\ \A u \in DOMAIN db.rows : db'.rows[u] \subseteq db.rows[u]
      /\ db'.rows[t] \cap {r} = {}
  BY <1>3, <1>4, DeletionOnlyRemoves
<1>6. Sound(db')
  <2>1. \A u \in DOMAIN db.tables : Fits(db.tables[u], db.rows[u])
    BY <1>2 DEF Sound
  <2>2. \A u \in DOMAIN db.tables : Fits(db.tables[u], db'.rows[u])
    BY <1>2, <1>5, <2>1 DEF Sound, Fits, Holds
  <2>3. QED
    BY <1>2, <1>4, <1>5, <2>2 DEF Sound
<1>7. PublishedStaysSearchable'
  <2>1. SUFFICES ASSUME revision = 9, NEW q \in db'.rows["documents"], q.published
                 PROVE  /\ q.document_id \in DOMAIN backing
                        /\ backing[q.document_id] \subseteq Searchable(q.document_id)'
    BY <1>2 DEF PublishedStaysSearchable, HeadRevision
  <2>2. /\ q \in db.rows["documents"] /\ q # r
    BY <1>3, <1>5, <2>1 DEF t
  <2>3. /\ q.document_id \in DOMAIN backing
        /\ backing[q.document_id] \subseteq Searchable(q.document_id)
    BY <2>1, <2>2 DEF ChainInv, PublishedStaysSearchable, HeadRevision
  <2> DEFINE first == [u \in DOMAIN db.rows |-> IF u = t THEN {r} ELSE {}]
             all == Spread(db, Spread(db, Spread(db, first)))
  <2>4. DOMAIN db.rows = DOMAIN db.tables /\ db.tables = Schema(9)
    BY <1>2, <2>1 DEF Sound
  <2>5. {"documents", "extractions", "chunks", "embeddings"} \subseteq DOMAIN db.rows
    BY <2>4 DEF Schema, TablesAt
  <2>6. Within(db, r, first)
    BY <2>5 DEF Within, t
  <2>7. \A u \in DOMAIN db.rows : db'.rows[u] = db.rows[u] \ all[u]
    BY <1>4 DEF Delete
  <2> HIDE DEF first
  <2>8. Within(db, r, all)
    BY <2>4, <2>6, CascadeStaysWithin
  <2> HIDE DEF all
  <2>9. QED
    <3>1. Searchable(q.document_id) \subseteq Searchable(q.document_id)'
      BY <1>2, <2>1, <2>2, <2>4, <2>5, <2>7, <2>8, OthersStaySearchable DEF t
    <3>2. QED
      BY <2>3, <3>1
<1>8. QED
  BY <1>2, <1>4, <1>6, <1>7 DEF DatabaseInv

\* Every step keeps the chain as it is to be.
LEMMA ChainKept == ChainInv /\ [MigrationsNext]_migrationVars => ChainInv'
<1> SUFFICES ASSUME ChainInv, [MigrationsNext]_migrationVars PROVE ChainInv'
  OBVIOUS
<1>1. LockInv'
  BY LockKept DEF ChainInv
<1>2. ASSUME UNCHANGED <<migrating, broken>> PROVE RunInv' /\ MigrationsApply'
  BY <1>2 DEF ChainInv, RunInv, Planned, Idle, MigrationsApply
<1>3. ASSUME NEW m \in DOMAIN migrating, EnsureSchema(m) \/ RunAlembic(m) \/ AbortMigration(m)
      PROVE  ChainInv'
  BY <1>1, <1>3, RunsLeaveDatabase DEF ChainInv
<1>4. ASSUME NEW m \in DOMAIN migrating, Migrate(m) PROVE ChainInv'
  BY <1>1, <1>4, MigrateKeeps DEF ChainInv
<1>5. ASSUME NEW t \in DOMAIN db.tables \cap DOMAIN Arrivals, InsertRow(t) PROVE ChainInv'
  BY <1>1, <1>2, <1>5, InsertKeeps DEF ChainInv, InsertRow
<1>6. CASE PublishRow
  BY <1>1, <1>2, <1>6, PublishKeeps DEF ChainInv, PublishRow
<1>7. CASE DeleteDocumentRow
  BY <1>1, <1>2, <1>7, DeleteKeeps DEF ChainInv, DeleteDocumentRow
<1>8. CASE UNCHANGED migrationVars
  <2>1. UNCHANGED <<db, revision, backing>>
    BY <1>8 DEF migrationVars
  <2>2. DatabaseInv' /\ PublishedStaysSearchable'
    BY <2>1 DEF ChainInv, DatabaseInv, PublishedStaysSearchable, Searchable
  <2>3. QED
    BY <1>1, <1>2, <1>8, <2>2 DEF ChainInv, migrationVars
<1>9. QED
  BY <1>3, <1>4, <1>5, <1>6, <1>7, <1>8 DEF MigrationsNext

\* The chain is as it is to be, whatever runs of it and writes there were.
THEOREM ChainHolds == MigrationsSpec => []ChainInv
  BY ChainInitially, ChainKept, PTL DEF MigrationsSpec

\* No upgrade and no downgrade ever fails on the tables and the rows it finds, however
\* often the chain went up and down and whatever the services wrote in between
\* (store/migrations/versions).
THEOREM RevisionsAlwaysApply == MigrationsSpec => []MigrationsApply
<1>1. ChainInv => MigrationsApply
  BY DEF ChainInv
<1>2. QED
  BY <1>1, ChainHolds, PTL

\* Every path through the chain to a revision leaves the tables, indexes and constraints
\* that a fresh database gets there: each downgrade undoes its upgrade.
THEOREM SchemaIsOfItsRevision == MigrationsSpec => []SchemaFollowsRevision
<1>1. ChainInv => SchemaFollowsRevision
  BY SchemaAtIsSchema DEF ChainInv, DatabaseInv, SchemaFollowsRevision
<1>2. QED
  BY <1>1, ChainHolds, PTL

\* The tables of the head are those of the models, chunk_embeddings set aside.
LEMMA ModelsAtHead == Without(Schema(9), {"chunk_embeddings"}) = Models
<1> DEFINE bare == Without(Schema(9), {"chunk_embeddings"})
           names == {"documents", "extractions", "chunks", "embeddings"}
<1>1. bare = [t \in names |-> TableAt(t, 9)]
  BY DEF Schema, TablesAt, Without
<1>2. TableAt("documents", 9) = Models.documents
  <2>1. DocumentColumns \cup {"status"} \cup {"error"} \cup {"published"} =
            {"document_id", "content_id", "created_at", "status", "error", "published"}
    BY DEF DocumentColumns
  <2>2. DocumentKeys \cup {StatusCheck} =
            {Unique("documents_pkey", {"document_id"}),
             Check("documents_content_check", "content_id", Sha),
             Check("documents_status_check", "status", DocumentStatus),
             Unique("documents_content_key", {"content_id"})}
    BY DEF DocumentKeys, StatusCheck
  <2>3. QED
    BY <2>1, <2>2 DEF TableAt, DocumentsWithStatus, CreatedIndex, Models
<1>3. TableAt("extractions", 9) = Models.extractions
  <2>1. ExtractionsTable.constraints =
            {Unique("extractions_pkey", {"extraction_id"}),
             Unique("extractions_reuse_key", {"document_id", "extractor_name", "extractor_version"}),
             Foreign("extractions_document_id_fkey", "document_id", "documents")}
    BY DEF ExtractionsTable, Shape
  <2>2. QED
    BY <2>1 DEF TableAt, ExtractionsTable, Shape, Models
<1>4. TableAt("chunks", 9) = Models.chunks
  <2>1. ChunkColumns \cup {"extraction_id"} =
            {"chunk_id", "extraction_id", "chunker_name", "chunker_version", "chunk_index"}
    BY DEF ChunkColumns
  <2>2. {ChunkId} \cup {ChunksOfExtraction} \cup {ReuseByExtraction} =
            {Unique("chunks_pkey", {"chunk_id"}),
             Foreign("chunks_extraction_id_fkey", "extraction_id", "extractions"),
             Unique("chunks_reuse_key",
                 {"extraction_id", "chunker_name", "chunker_version", "chunk_index"})}
    BY DEF ChunkId, ChunksOfExtraction, ReuseByExtraction, KeyOfExtraction
  <2>3. QED
    BY <2>1, <2>2 DEF TableAt, ChunksByExtraction, ByChunker, Models
<1>5. TableAt("embeddings", 9) = Models.embeddings
  BY DEF TableAt, EmbeddingsTable, Models
<1>6. Models = [t \in names |-> Models[t]]
  BY DEF Models
<1>7. \A t \in names : TableAt(t, 9) = Models[t]
  BY <1>2, <1>3, <1>4, <1>5
<1>8. QED
  BY <1>1, <1>6, <1>7

\* At the head of the chain the schema is the one models.py declares.
THEOREM HeadHasTheModels == MigrationsSpec => []HeadIsTheModels
<1>1. ChainInv => HeadIsTheModels
  BY ModelsAtHead DEF ChainInv, DatabaseInv, HeadIsTheModels, HeadRevision
<1>2. QED
  BY <1>1, ChainHolds, PTL

\* At the head of the chain all that a document had to search when mark_published last
\* marked it is there as long as it is published: no path of upgrades and downgrades
\* removes chunks and leaves the mark, and other documents take only their own rows.
THEOREM PublishedDocumentsStaySearchable == MigrationsSpec => []PublishedStaysSearchable
<1>1. ChainInv => PublishedStaysSearchable
  BY DEF ChainInv
<1>2. QED
  BY <1>1, ChainHolds, PTL
=============================================================================
