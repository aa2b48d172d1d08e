---------------------------- MODULE SearchProofs ----------------------------
(***************************************************************************)
(* Proofs about the query and about the sparse vectors it compares, for    *)
(* any chunks, embedders, limits and hashes.  Both sort; what a sort does  *)
(* is proved first.                                                        *)
(***************************************************************************)
EXTENDS Search, SparseVectors, TLAPS, WellFoundedInduction, FiniteSetTheorems, SequenceTheorems

-----------------------------------------------------------------------------
(* Sorting.                                                                *)

\* before is a strict total order on S.
IsOrder(S, before) ==
    /\ \A x \in S : <<x, x>> \notin before
    /\ \A x, y \in S : x # y => <<x, y>> \in before \/ <<y, x>> \in before
    /\ \A x, y, z \in S : <<x, y>> \in before /\ <<y, z>> \in before => <<x, z>> \in before

\* What is before something else has a smaller place.
LEMMA PlacesAscend ==
  ASSUME NEW S, IsFiniteSet(S), NEW before, IsOrder(S, before)
  PROVE  /\ \A x \in S : PlaceIn(S, before, x) \in 1..Cardinality(S)
         /\ \A x, y \in S :
                <<x, y>> \in before => PlaceIn(S, before, x) < PlaceIn(S, before, y)
<1> DEFINE Earlier(x) == {y \in S : <<y, x>> \in before}
<1>1. Cardinality(S) \in Nat
  BY FS_CardinalityType
<1>2. ASSUME NEW x \in S
      PROVE  /\ IsFiniteSet(Earlier(x)) /\ Cardinality(Earlier(x)) \in Nat
             /\ Cardinality(Earlier(x)) < Cardinality(S)
  <2>1. Earlier(x) \in SUBSET S /\ Earlier(x) # S
    BY DEF IsOrder
  <2>2. IsFiniteSet(Earlier(x)) /\ Cardinality(Earlier(x)) <= Cardinality(S)
        /\ Cardinality(Earlier(x)) # Cardinality(S)
    BY <2>1, FS_Subset
  <2>3. QED
    BY <1>1, <2>2, FS_CardinalityType
<1>3. ASSUME NEW x \in S, NEW y \in S, <<x, y>> \in before
      PROVE  Cardinality(Earlier(x)) < Cardinality(Earlier(y))
  <2>1. Earlier(x) \in SUBSET Earlier(y) /\ x \in Earlier(y) /\ x \notin Earlier(x)
    BY <1>3 DEF IsOrder
  <2>2. Cardinality(Earlier(x)) <= Cardinality(Earlier(y))
        /\ Cardinality(Earlier(x)) # Cardinality(Earlier(y))
    BY <1>2, <2>1, FS_Subset
  <2>3. Cardinality(Earlier(x)) \in Nat /\ Cardinality(Earlier(y)) \in Nat
    BY <1>2
  <2>4. QED
    BY <2>2, <2>3
<1>4. \A x \in S : PlaceIn(S, before, x) = Cardinality(Earlier(x)) + 1
  BY DEF PlaceIn
<1> HIDE DEF Earlier
<1>5. QED
  BY <1>1, <1>2, <1>3, <1>4

\* Each place is taken by one element.
LEMMA PlacesAreTaken ==
  ASSUME NEW S, IsFiniteSet(S), NEW before, IsOrder(S, before)
  PROVE  /\ \A x, y \in S : PlaceIn(S, before, x) = PlaceIn(S, before, y) => x = y
         /\ \A k \in 1..Cardinality(S) : \E x \in S : PlaceIn(S, before, x) = k
<1> DEFINE place == [x \in S |-> PlaceIn(S, before, x)]
<1>1. \A x, y \in S : PlaceIn(S, before, x) = PlaceIn(S, before, y) => x = y
  <2> SUFFICES ASSUME NEW x \in S, NEW y \in S, x # y
               PROVE  PlaceIn(S, before, x) # PlaceIn(S, before, y)
    OBVIOUS
  <2>1. <<x, y>> \in before \/ <<y, x>> \in before
    BY DEF IsOrder
  <2>2. PlaceIn(S, before, x) \in Nat /\ PlaceIn(S, before, y) \in Nat
    BY PlacesAscend
  <2>3. QED
    BY <2>1, <2>2, PlacesAscend
<1>2. Cardinality(S) \in Nat
  BY FS_CardinalityType
<1>3. place \in Injection(S, 1..Cardinality(S))
  BY <1>1, PlacesAscend DEF Injection, IsInjective
<1>4. IsFiniteSet(1..Cardinality(S)) /\ Cardinality(1..Cardinality(S)) = Cardinality(S)
  BY <1>2, FS_Interval
<1>5. place \in Surjection(S, 1..Cardinality(S))
  BY <1>3, <1>4, FS_Injection
<1>6. \A k \in 1..Cardinality(S) : \E x \in S : place[x] = k
  BY <1>5 DEF Surjection
<1>7. QED
  BY <1>1, <1>6

\* A sort returns each element once, in order.
LEMMA RankedSorts ==
  ASSUME NEW S, IsFiniteSet(S), NEW before, IsOrder(S, before)
  PROVE  /\ Ranked(S, before) \in Seq(S) /\ Len(Ranked(S, before)) = Cardinality(S)
         /\ DOMAIN Ranked(S, before) = 1..Cardinality(S)
         /\ \A i, j \in DOMAIN Ranked(S, before) :
                i < j => <<Ranked(S, before)[i], Ranked(S, before)[j]>> \in before
         /\ \A x \in S : \E i \in DOMAIN Ranked(S, before) : Ranked(S, before)[i] = x
<1> DEFINE r == Ranked(S, before)
<1>1. Cardinality(S) \in Nat
  BY FS_CardinalityType
<1>2. r = [k \in 1..Cardinality(S) |-> CHOOSE x \in S : PlaceIn(S, before, x) = k]
  BY DEF Ranked
<1> HIDE DEF r
<1>3. \A k \in 1..Cardinality(S) : r[k] \in S /\ PlaceIn(S, before, r[k]) = k
  BY <1>2, PlacesAreTaken
<1>4. r \in Seq(S) /\ Len(r) = Cardinality(S) /\ DOMAIN r = 1..Cardinality(S)
  BY <1>1, <1>2, <1>3
<1>5. ASSUME NEW i \in DOMAIN r, NEW j \in DOMAIN r, i < j
      PROVE  <<r[i], r[j]>> \in before
  <2>1. r[i] \in S /\ r[j] \in S /\ r[i] # r[j] /\ i \in Nat /\ j \in Nat
    BY <1>1, <1>3, <1>4, <1>5
  <2>2. CASE <<r[j], r[i]>> \in before
    <3>1. PlaceIn(S, before, r[j]) < PlaceIn(S, before, r[i])
      BY <2>1, <2>2, PlacesAscend
    <3>2. j < i
      BY <1>3, <1>4, <3>1
    <3>3. QED
      BY <1>5, <2>1, <3>2
  <2>3. QED
    BY <2>1, <2>2 DEF IsOrder
<1>6. ASSUME NEW x \in S
      PROVE  \E i \in DOMAIN r : r[i] = x
  <2>1. PlaceIn(S, before, x) \in 1..Cardinality(S)
    BY PlacesAscend
  <2>2. r[PlaceIn(S, before, x)] = x
    BY <1>3, <2>1, PlacesAreTaken
  <2>3. QED
    BY <1>4, <2>1, <2>2
<1>7. QED
  BY <1>4, <1>5, <1>6 DEF r

\* Keys that differ order what they are the keys of.
LEMMA KeysOrder ==
  ASSUME NEW S, NEW key, \A x \in S : key[x] \in Nat, \A x, y \in S : key[x] = key[y] => x = y
  PROVE  IsOrder(S, ByKey(S, key)) /\ \A x, y \in S : <<x, y>> \in ByKey(S, key) <=> key[x] < key[y]
<1>1. \A x, y \in S : <<x, y>> \in ByKey(S, key) <=> key[x] < key[y]
  BY DEF ByKey
<1>2. QED
  BY <1>1 DEF IsOrder
-----------------------------------------------------------------------------
(* Sums.                                                                   *)

\* Nothing sums to 0, and one entry to its value.
LEMMA SumOfOne ==
  ASSUME NEW entries, NEW i, entries[i][2] \in Nat
  PROVE  /\ SumAt(entries, {}) = 0
         /\ IsFiniteSet(Units(entries, {i})) /\ SumAt(entries, {i}) = entries[i][2]
<1> DEFINE w == entries[i][2]
<1>1. Units(entries, {}) = {}
  BY DEF Units
<1>2. Units(entries, {i}) = {i} \X (1..w)
  BY DEF Units
<1>3. IsFiniteSet({i}) /\ Cardinality({i}) = 1
  BY FS_Singleton
<1>4. w \in Nat
  OBVIOUS
<1> HIDE DEF w
<1>5. IsFiniteSet(1..w) /\ Cardinality(1..w) = w
  BY <1>4, FS_Interval
<1>6. IsFiniteSet({i} \X (1..w)) /\ Cardinality({i} \X (1..w)) = 1 * w
  <2>1. /\ IsFiniteSet({i} \X (1..w))
        /\ Cardinality({i} \X (1..w)) = Cardinality({i}) * Cardinality(1..w)
    BY <1>3, <1>5, FS_Product
  <2>2. QED
    BY <1>3, <1>5, <2>1
<1>7. Cardinality(Units(entries, {i})) = w /\ IsFiniteSet(Units(entries, {i}))
  BY <1>2, <1>4, <1>6
<1>8. Cardinality(Units(entries, {})) = 0
  BY <1>1, FS_EmptySet
<1>9. QED
  BY <1>7, <1>8 DEF SumAt, w

\* One more entry adds its value.
LEMMA SumOfMore ==
  ASSUME NEW entries, NEW I, NEW i, i \notin I, entries[i][2] \in Nat,
         IsFiniteSet(Units(entries, I))
  PROVE  /\ IsFiniteSet(Units(entries, I \cup {i}))
         /\ SumAt(entries, I \cup {i}) = SumAt(entries, I) + entries[i][2]
<1>1. Units(entries, I \cup {i}) = Units(entries, I) \cup Units(entries, {i})
  BY DEF Units
<1>2. Units(entries, I) \cap Units(entries, {i}) = {}
  BY DEF Units
<1>3. IsFiniteSet(Units(entries, {i})) /\ SumAt(entries, {i}) = entries[i][2]
  BY SumOfOne
<1>4. SumAt(entries, I) \in Nat
  BY FS_CardinalityType DEF SumAt
<1> DEFINE U == Units(entries, I)
           V == Units(entries, {i})
<1>5. Cardinality(U \cap V) = 0
  BY <1>2, FS_EmptySet
<1> HIDE DEF U, V
<1>6. IsFiniteSet(U) /\ IsFiniteSet(V) /\ Cardinality(U) \in Nat /\ Cardinality(V) = entries[i][2]
  BY <1>3, <1>4 DEF SumAt, U, V
<1>7. IsFiniteSet(U \cup V) /\ Cardinality(U \cup V) = Cardinality(U) + entries[i][2]
  <2>1. /\ IsFiniteSet(U \cup V)
        /\ Cardinality(U \cup V) = Cardinality(U) + Cardinality(V) - Cardinality(U \cap V)
    BY <1>6, FS_Union
  <2>2. QED
    BY <1>5, <1>6, <2>1
<1>8. QED
  BY <1>1, <1>7 DEF SumAt, U, V

\* A sum depends on the values it adds up only.
LEMMA SumAgrees ==
  ASSUME NEW e, NEW f, NEW I, \A i \in I : e[i][2] = f[i][2]
  PROVE  Units(e, I) = Units(f, I) /\ SumAt(e, I) = SumAt(f, I)
<1>1. {{i} \X (1..e[i][2]) : i \in I} = {{i} \X (1..f[i][2]) : i \in I}
  OBVIOUS
<1>2. QED
  BY <1>1 DEF Units, SumAt

-----------------------------------------------------------------------------
(* The sparse vector.                                                      *)

SparseSpec == SparseInit /\ [][SparseNext]_sparseVars

\* Entries of the raw vector, and of the one that fits the database.
RawEntry == Nat \X Nat
Entry == (0..(Dimension - 1)) \X Nat

\* What the first n raw entries put at index x, and what the vector has there.
RawAt(n, x) == {i \in 1..n : raw[i][1] % Dimension = x}
IndexAt(x) == {i \in DOMAIN vector : vector[i][1] = x}

\* Each index is in the vector once, with the sum of what the merged entries put there.
VectorIsTheSum ==
    /\ \A i, j \in DOMAIN vector : vector[i][1] = vector[j][1] => i = j
    /\ \A x \in 0..(Dimension - 1) :
           /\ IsFiniteSet(Units(raw, RawAt(merged, x)))
           /\ SumAt(vector, IndexAt(x)) = SumAt(raw, RawAt(merged, x))

SparseInv ==
    /\ raw \in Seq(RawEntry) /\ vector \in Seq(Entry)
    /\ merged \in 0..Len(raw)
    /\ stage \in {"raw", "embedding", "literal"}
    /\ stage # "raw" => merged = Len(raw)
    /\ VectorIsTheSum
    /\ LiteralIsTheVector

\* The vector begins empty, and so does its sum.
LEMMA SparseInitially == SparseInit => SparseInv
<1> SUFFICES ASSUME SparseInit PROVE SparseInv
  OBVIOUS
<1>1. raw \in Seq(RawEntry) /\ vector = <<>> /\ merged = 0 /\ stage = "raw"
  <2>1. PICK n \in Nat : raw \in [1..n -> RawIndex \X Weight]
    BY SparseAssumption DEF SparseInit, BoundedSeq, SeqOf
  <2>2. \A i \in 1..n : raw[i] \in RawEntry
    BY <2>1, SparseAssumption DEF RawEntry
  <2>3. raw \in Seq(RawEntry)
    <3> HIDE DEF RawEntry
    <3>1. QED
      BY <2>1, <2>2
  <2>4. QED
    BY <2>3 DEF SparseInit
<1>2. \A x \in 0..(Dimension - 1) : RawAt(merged, x) = {} /\ IndexAt(x) = {}
  BY <1>1 DEF RawAt, IndexAt
<1>3. Units(raw, {}) = {} /\ Units(vector, {}) = {}
  BY DEF Units
<1>4. ASSUME NEW x \in 0..(Dimension - 1)
      PROVE  /\ IsFiniteSet(Units(raw, RawAt(merged, x)))
             /\ SumAt(vector, IndexAt(x)) = SumAt(raw, RawAt(merged, x))
  BY <1>2, <1>3, FS_EmptySet DEF SumAt
<1>5. VectorIsTheSum
  BY <1>1, <1>4 DEF VectorIsTheSum
<1>6. QED
  BY <1>1, <1>5 DEF SparseInv, LiteralIsTheVector

\* Merging an entry adds its value at its index, and nowhere else.
LEMMA MergeKeepsSums ==
  ASSUME SparseInv, MergeEntry
  PROVE  SparseInv'
<1> DEFINE n == merged + 1
           x == raw[n][1] % Dimension
           w == raw[n][2]
<1>1. /\ stage = "raw" /\ raw' = raw /\ stage' = "raw" /\ merged' = n
      /\ n \in 1..Len(raw) /\ merged \in Nat
      /\ vector' = AddTo(vector, x, w)
  BY DEF MergeEntry, SparseInv
<1>2. raw[n] \in RawEntry
  BY <1>1 DEF SparseInv
<1>3. x \in 0..(Dimension - 1) /\ w \in Nat
  BY <1>2, SparseAssumption DEF RawEntry
<1> HIDE DEF n, x, w
<1>4. /\ \A y \in 0..(Dimension - 1) : y # x => RawAt(n, y) = RawAt(merged, y)
      /\ RawAt(n, x) = RawAt(merged, x) \cup {n} /\ n \notin RawAt(merged, x)
  BY <1>1 DEF RawAt, n, x
<1>5. \A y \in 0..(Dimension - 1) :
          /\ IsFiniteSet(Units(raw, RawAt(n, y)))
          /\ SumAt(raw, RawAt(n, y)) = SumAt(raw, RawAt(merged, y)) + (IF y = x THEN w ELSE 0)
          /\ SumAt(raw, RawAt(merged, y)) \in Nat
  <2> SUFFICES ASSUME NEW y \in 0..(Dimension - 1)
               PROVE  /\ IsFiniteSet(Units(raw, RawAt(n, y)))
                      /\ SumAt(raw, RawAt(n, y)) = SumAt(raw, RawAt(merged, y)) + (IF y = x THEN w ELSE 0)
                      /\ SumAt(raw, RawAt(merged, y)) \in Nat
    OBVIOUS
  <2>1. IsFiniteSet(Units(raw, RawAt(merged, y))) /\ SumAt(raw, RawAt(merged, y)) \in Nat
    BY FS_CardinalityType DEF SparseInv, VectorIsTheSum, SumAt
  <2>2. CASE y = x
    <3>1. raw[n][2] \in Nat
      BY <1>3 DEF w
    <3>2. /\ IsFiniteSet(Units(raw, RawAt(merged, x) \cup {n}))
          /\ SumAt(raw, RawAt(merged, x) \cup {n}) = SumAt(raw, RawAt(merged, x)) + w
      BY <1>4, <2>1, <2>2, <3>1, SumOfMore DEF w
    <3>3. QED
      BY <1>4, <2>1, <2>2, <3>2
  <2>3. CASE y # x
    BY <1>4, <2>1, <2>3
  <2>4. QED
    BY <2>2, <2>3
<1>6. vector \in Seq(Entry) /\ \A i \in DOMAIN vector : vector[i] \in Entry
  BY DEF SparseInv
<1>7. CASE \E i \in DOMAIN vector : vector[i][1] = x
  <2>1. PICK k \in DOMAIN vector : vector[k][1] = x
    BY <1>7
  <2>2. \A i \in DOMAIN vector : vector[i][1] = x <=> i = k
    BY <2>1 DEF SparseInv, VectorIsTheSum
  <2>3. vector' = [i \in DOMAIN vector |-> IF i = k THEN <<x, vector[k][2] + w>> ELSE vector[i]]
    BY <1>1, <2>1, <2>2 DEF AddTo
  <2>4. vector[k][2] \in Nat
    BY <1>6, <2>1 DEF Entry
  <2>5. <<x, vector[k][2] + w>> \in Entry
    BY <1>3, <2>4 DEF Entry
  <2>6. vector' \in Seq(Entry) /\ DOMAIN vector' = DOMAIN vector
    <3> HIDE DEF Entry
    <3>1. DOMAIN vector = 1..Len(vector) /\ Len(vector) \in Nat
      BY <1>6
    <3>2. QED
      BY <1>6, <2>3, <2>5, <3>1
  <2>7. /\ \A i \in DOMAIN vector : vector'[i][1] = vector[i][1]
        /\ \A i \in DOMAIN vector : i # k => vector'[i][2] = vector[i][2]
        /\ vector'[k][2] = vector[k][2] + w
    BY <2>1, <2>2, <2>3
  <2>8. \A y : IndexAt(y)' = IndexAt(y)
    BY <2>6, <2>7 DEF IndexAt
  <2>9. IndexAt(x) = {k}
    BY <2>1, <2>2 DEF IndexAt
  <2>10. SumAt(vector', {k}) = SumAt(vector, {k}) + w
    <3>1. SumAt(vector, {k}) = vector[k][2]
      BY <2>4, SumOfOne
    <3>2. vector'[k][2] \in Nat
      BY <1>3, <2>4, <2>7
    <3>3. SumAt(vector', {k}) = vector'[k][2]
      BY <3>2, SumOfOne
    <3>4. QED
      BY <2>7, <3>1, <3>3
  <2>11. ASSUME NEW y \in 0..(Dimension - 1), y # x
         PROVE  SumAt(vector', IndexAt(y)) = SumAt(vector, IndexAt(y))
    <3>1. k \notin IndexAt(y) /\ IndexAt(y) \subseteq DOMAIN vector
      BY <2>1, <2>11 DEF IndexAt
    <3>2. \A i \in IndexAt(y) : vector'[i][2] = vector[i][2]
      BY <2>7, <3>1
    <3>3. QED
      BY <3>2, SumAgrees
  <2>12. VectorIsTheSum'
    <3>1. \A i, j \in DOMAIN vector' : vector'[i][1] = vector'[j][1] => i = j
      BY <2>6, <2>7 DEF SparseInv, VectorIsTheSum
    <3>2. ASSUME NEW y \in 0..(Dimension - 1)
          PROVE  SumAt(vector', IndexAt(y)) = SumAt(raw, RawAt(n, y))
      <4>1. SumAt(vector, IndexAt(y)) = SumAt(raw, RawAt(merged, y))
        BY DEF SparseInv, VectorIsTheSum
      <4>2. QED
        BY <1>5, <2>9, <2>10, <2>11, <4>1
    <3>3. \A y : RawAt(merged, y)' = RawAt(n, y)
      BY <1>1 DEF RawAt
    <3>4. QED
      BY <1>1, <1>5, <2>8, <3>1, <3>2, <3>3 DEF VectorIsTheSum
  <2>13. QED
    BY <1>1, <2>6, <2>12 DEF SparseInv, LiteralIsTheVector
<1>8. CASE ~ \E i \in DOMAIN vector : vector[i][1] = x
  <2> DEFINE k == Len(vector) + 1
  <2>1. vector' = Append(vector, <<x, w>>) /\ <<x, w>> \in Entry
    BY <1>1, <1>3, <1>8 DEF AddTo, Entry
  <2>2. /\ vector' \in Seq(Entry) /\ DOMAIN vector = 1..Len(vector) /\ Len(vector) \in Nat
        /\ DOMAIN vector' = 1..k /\ vector'[k] = <<x, w>>
        /\ \A i \in DOMAIN vector : vector'[i] = vector[i]
    <3> HIDE DEF Entry
    <3>1. QED
      BY <1>6, <2>1
  <2>3. vector'[k][1] = x /\ vector'[k][2] = w /\ k \notin DOMAIN vector
        /\ DOMAIN vector' = DOMAIN vector \cup {k}
    BY <2>2
  <2> HIDE DEF k
  <2>4. \A y : IndexAt(y)' = IF y = x THEN {k} ELSE IndexAt(y)
    BY <1>8, <2>2, <2>3 DEF IndexAt
  <2>5. SumAt(vector, IndexAt(x)) = 0
    <3>1. IndexAt(x) = {}
      BY <1>8 DEF IndexAt
    <3>2. Units(vector, {}) = {}
      BY DEF Units
    <3>3. QED
      BY <3>1, <3>2, FS_EmptySet DEF SumAt
  <2>6. SumAt(vector', {k}) = w
    BY <1>3, <2>3, SumOfOne
  <2>7. \A y : SumAt(vector', IndexAt(y)) = SumAt(vector, IndexAt(y))
    BY <2>2, SumAgrees DEF IndexAt
  <2>8. VectorIsTheSum'
    <3>1. \A i, j \in DOMAIN vector' : vector'[i][1] = vector'[j][1] => i = j
      BY <1>8, <2>2, <2>3 DEF SparseInv, VectorIsTheSum
    <3>2. ASSUME NEW y \in 0..(Dimension - 1)
          PROVE  SumAt(vector', IF y = x THEN {k} ELSE IndexAt(y)) = SumAt(raw, RawAt(n, y))
      <4>1. SumAt(vector, IndexAt(y)) = SumAt(raw, RawAt(merged, y))
        BY DEF SparseInv, VectorIsTheSum
      <4>2. QED
        BY <1>3, <1>5, <2>5, <2>6, <2>7, <4>1
    <3>3. \A y : RawAt(merged, y)' = RawAt(n, y)
      BY <1>1 DEF RawAt
    <3>4. QED
      BY <1>1, <1>5, <2>4, <3>1, <3>2, <3>3 DEF VectorIsTheSum
  <2>9. QED
    BY <1>1, <2>2, <2>8 DEF SparseInv, LiteralIsTheVector
<1>9. QED
  BY <1>7, <1>8
\* The literal is the vector in order, shifted by one.
LEMMA LiteralIsSorted ==
  ASSUME SparseInv, WriteLiteral
  PROVE  SparseInv'
<1> DEFINE D == DOMAIN vector
           key == [i \in D |-> vector[i][1]]
           sorted == ByIndex(vector)
<1>1. /\ stage = "embedding" /\ stage' = "literal" /\ raw' = raw /\ vector' = vector
      /\ merged' = merged /\ merged = Len(raw)
      /\ literal' = [i \in D |-> <<vector[sorted[i]][1] + 1, vector[sorted[i]][2]>>]
  BY DEF WriteLiteral, SparseInv
<1>2. D = 1..Len(vector) /\ Len(vector) \in Nat
  BY DEF SparseInv
<1>3. \A i \in D : vector[i][1] \in 0..(Dimension - 1) /\ vector[i][2] \in Nat
  <2>1. \A i \in D : vector[i] \in Entry
    BY DEF SparseInv
  <2>2. QED
    BY <2>1 DEF Entry
<1>4. \A i, j \in D : vector[i][1] = vector[j][1] => i = j
  BY DEF SparseInv, VectorIsTheSum
<1>5. IsFiniteSet(D) /\ Cardinality(D) = Len(vector)
  <2>1. \A n \in Nat : IsFiniteSet(1..n) /\ Cardinality(1..n) = n
    BY FS_Interval
  <2>2. QED
    BY <1>2, <2>1
<1>6. IsOrder(D, ByKey(D, key)) /\ \A i, j \in D : <<i, j>> \in ByKey(D, key) <=> key[i] < key[j]
  <2>1. (\A i \in D : key[i] \in Nat) /\ \A i, j \in D : key[i] = key[j] => i = j
    BY <1>3, <1>4, SparseAssumption
  <2> HIDE DEF D, key
  <2>2. QED
    BY <2>1, KeysOrder
<1>7. sorted = Ranked(D, ByKey(D, key))
  BY DEF ByIndex
<1> HIDE DEF sorted
<1>8. /\ DOMAIN sorted = D /\ \A i \in D : sorted[i] \in D
      /\ \A i, j \in D : i < j => vector[sorted[i]][1] < vector[sorted[j]][1]
      /\ \A k \in D : \E i \in D : sorted[i] = k
  <2>1. /\ sorted \in Seq(D) /\ DOMAIN sorted = 1..Len(vector)
        /\ \A i, j \in 1..Len(vector) : i < j => <<sorted[i], sorted[j]>> \in ByKey(D, key)
        /\ \A k \in D : \E i \in 1..Len(vector) : sorted[i] = k
    <3> HIDE DEF D, key
    <3> DEFINE before == ByKey(D, key)
    <3>1. IsOrder(D, before)
      BY <1>6
    <3> HIDE DEF before
    <3>2. LET r == Ranked(D, before)
          IN  /\ r \in Seq(D) /\ DOMAIN r = 1..Cardinality(D)
              /\ \A i, j \in DOMAIN r : i < j => <<r[i], r[j]>> \in before
              /\ \A x \in D : \E i \in DOMAIN r : r[i] = x
      BY <1>5, <3>1, RankedSorts
    <3>3. sorted = Ranked(D, before)
      BY <1>7 DEF before
    <3>4. QED
      BY <1>5, <3>2, <3>3 DEF before
  <2>2. \A i \in D : sorted[i] \in D
    BY <1>2, <2>1
  <2>3. QED
    BY <1>2, <1>6, <2>1, <2>2
<1>9. DOMAIN literal' = D /\ \A i \in D : /\ literal'[i][1] = vector[sorted[i]][1] + 1
                                          /\ literal'[i][2] = vector[sorted[i]][2]
  BY <1>1
<1>10. \A i \in D : literal'[i][1] \in 1..Dimension
  BY <1>3, <1>8, <1>9, SparseAssumption
<1>11. \A i, j \in D : i < j => literal'[i][1] < literal'[j][1]
  BY <1>3, <1>8, <1>9, SparseAssumption
<1>12. \A i \in D, p \in 1..Dimension : literal'[i][1] = p <=> vector[sorted[i]][1] = p - 1
  <2>1. \A i \in D : vector[sorted[i]][1] \in Int
    BY <1>3, <1>8
  <2>2. QED
    BY <1>9, <2>1
<1>13. ASSUME NEW p \in 1..Dimension
       PROVE  SumAt(literal', {i \in D : literal'[i][1] = p})
                = SumAt(raw, {i \in DOMAIN raw : raw[i][1] % Dimension = p - 1})
  <2>1. p - 1 \in 0..(Dimension - 1)
    BY SparseAssumption
  <2>2. RawAt(merged, p - 1) = {i \in DOMAIN raw : raw[i][1] % Dimension = p - 1}
    BY <1>1 DEF RawAt, SparseInv
  <2>3. SumAt(vector, IndexAt(p - 1)) = SumAt(raw, RawAt(merged, p - 1))
    BY <2>1 DEF SparseInv, VectorIsTheSum
  <2>4. SumAt(literal', {i \in D : literal'[i][1] = p}) = SumAt(vector, IndexAt(p - 1))
    <3>1. CASE IndexAt(p - 1) = {}
      <4>1. {i \in D : literal'[i][1] = p} = {}
        <5>1. \A i \in D : vector[sorted[i]][1] # p - 1
          BY <1>8, <3>1 DEF IndexAt
        <5>2. QED
          BY <1>12, <5>1
      <4>2. Units(literal', {}) = Units(vector, {})
        BY DEF Units
      <4>3. QED
        BY <3>1, <4>1, <4>2 DEF SumAt
    <3>2. CASE IndexAt(p - 1) # {}
      <4>1. PICK k \in D : IndexAt(p - 1) = {k} /\ vector[k][1] = p - 1
        BY <1>4, <3>2 DEF IndexAt
      <4>2. PICK n \in D : sorted[n] = k
        BY <1>8
      <4>3. {i \in D : literal'[i][1] = p} = {n}
        <5>1. \A i \in D : literal'[i][1] = p => sorted[i] = k
          BY <1>4, <1>8, <1>12, <4>1
        <5>2. \A i, j \in D : sorted[i] = sorted[j] => ~ (i < j)
          BY <1>3, <1>8, SparseAssumption
        <5>3. \A i \in D : sorted[i] = k => i = n
          BY <1>2, <4>2, <5>2
        <5>4. literal'[n][1] = p
          BY <1>9, <4>1, <4>2
        <5>5. QED
          BY <5>1, <5>3, <5>4
      <4>4. literal'[n][2] = vector[k][2] /\ vector[k][2] \in Nat
        BY <1>3, <1>9, <4>2
      <4>5. SumAt(literal', {n}) = literal'[n][2]
        <5>1. literal'[n][2] \in Nat
          BY <4>4
        <5>2. QED
          BY <5>1, SumOfOne
      <4>6. SumAt(vector, {k}) = vector[k][2]
        BY <4>4, SumOfOne
      <4>7. QED
        BY <4>1, <4>3, <4>4, <4>5, <4>6
    <3>3. QED
      BY <3>1, <3>2
  <2>5. QED
    BY <2>2, <2>3, <2>4
<1>14. LiteralIsTheVector'
  BY <1>1, <1>9, <1>10, <1>11, <1>13 DEF LiteralIsTheVector
<1>15. VectorIsTheSum'
  <2>1. \A y : IndexAt(y)' = IndexAt(y) /\ RawAt(merged, y)' = RawAt(merged, y)
    BY <1>1 DEF IndexAt, RawAt
  <2>2. QED
    BY <1>1, <2>1 DEF SparseInv, VectorIsTheSum
<1>16. QED
  BY <1>1, <1>14, <1>15 DEF SparseInv

\* No index of the vector is outside the dimension.
LEMMA SparseKept == SparseInv /\ [SparseNext]_sparseVars => SparseInv'
<1> SUFFICES ASSUME SparseInv, [SparseNext]_sparseVars PROVE SparseInv'
  OBVIOUS
<1>1. CASE MergeEntry
  BY <1>1, MergeKeepsSums
<1>2. CASE Normalise
  <2>1. Fits(vector)
    <3>1. \A i \in DOMAIN vector : vector[i] \in Entry
      BY DEF SparseInv
    <3>2. QED
      BY <3>1, SparseAssumption DEF Entry, Fits
  <2>2. stage' = "embedding" /\ merged = Len(raw) /\ UNCHANGED <<raw, merged, vector, literal>>
    BY <1>2, <2>1 DEF Normalise
  <2>3. \A y : IndexAt(y)' = IndexAt(y) /\ RawAt(merged, y)' = RawAt(merged, y)
    BY <2>2 DEF IndexAt, RawAt
  <2>4. QED
    BY <2>2, <2>3 DEF SparseInv, VectorIsTheSum, LiteralIsTheVector
<1>3. CASE WriteLiteral
  BY <1>3, LiteralIsSorted
<1>4. CASE UNCHANGED sparseVars
  <2>1. UNCHANGED <<raw, merged, stage, vector, literal>>
    BY <1>4 DEF sparseVars
  <2>2. \A y : IndexAt(y)' = IndexAt(y) /\ RawAt(merged, y)' = RawAt(merged, y)
    BY <2>1 DEF IndexAt, RawAt
  <2>3. QED
    BY <2>1, <2>2 DEF SparseInv, VectorIsTheSum, LiteralIsTheVector
<1>5. QED
  BY <1>1, <1>2, <1>3, <1>4 DEF SparseNext

\* The literal that is stored is one pgvector accepts and holds every weight of the model's
\* vector, once, for any hashes and any dimension (normalise_sparse_vector, _fits,
\* sparse_vector_literal).
THEOREM LiteralsHoldTheVector == SparseSpec => []LiteralIsTheVector
<1>1. SparseInv => LiteralIsTheVector
  BY DEF SparseInv
<1>2. QED
  BY <1>1, SparseInitially, SparseKept, PTL DEF SparseSpec
-----------------------------------------------------------------------------
(* One embedder's hits.                                                    *)

Hit == [chunk : Chunk, score : Nat]

\* Hits as a search returns them: each chunk once, the best scores first.
InOrder(hits) ==
    \A i, j \in DOMAIN hits :
        i < j => hits[i].chunk # hits[j].chunk /\ hits[i].score >= hits[j].score

\* The distances of the embedders, the query's limit and the candidates that follow.
QueryIsTyped ==
    /\ nearest \in [Embedder -> [dense : Orders, sparse : Orders]]
    /\ limit \in Nat \ {0}

\* The candidates are never fewer than the limit.
LEMMA CandidatesReachLimit ==
  ASSUME QueryIsTyped
  PROVE  Candidates \in Nat /\ limit <= Candidates
<1>1. limit \in Nat /\ CandidateMultiplier \in Nat \ {0} /\ CandidateMinimum \in Nat
  BY SearchAssumption DEF QueryIsTyped
<1>2. limit * CandidateMultiplier \in Nat /\ limit * CandidateMultiplier >= limit
  BY <1>1
<1>3. QED
  BY <1>1, <1>2 DEF Candidates, Larger

\* The ranks of what is visible are 1, 2, 3 and so on; what is nearer has a smaller one.
LEMMA RanksCount ==
  ASSUME NEW order \in Orders, NEW V \in SUBSET Chunk
  PROVE  /\ IsFiniteSet(V)
         /\ \A c \in V : Rank(order, V, c) \in 1..Cardinality(V)
         /\ \A c \in V : Rank(order, V, c) \in 1..Cardinality(Chunk)
         /\ \A c, d \in V : order[c] < order[d] => Rank(order, V, c) < Rank(order, V, d)
         /\ \A c, d \in V : Rank(order, V, c) = Rank(order, V, d) => c = d
         /\ \A k \in 1..Cardinality(V) : \E c \in V : Rank(order, V, c) = k
<1>1. /\ IsFiniteSet(V) /\ Cardinality(V) <= Cardinality(Chunk)
      /\ Cardinality(V) \in Nat /\ Cardinality(Chunk) \in Nat
  BY SearchAssumption, FS_Subset, FS_CardinalityType
<1>2. /\ \A c \in V : order[c] \in Nat
      /\ \A c, d \in V : order[c] = order[d] => c = d
  <2>1. order \in [Chunk -> 1..Cardinality(Chunk)] /\ IsInjective(order)
    BY DEF Orders, Bijection, Injection
  <2>2. QED
    BY <1>1, <2>1 DEF IsInjective
<1> DEFINE before == ByKey(V, order)
<1>3. IsOrder(V, before) /\ \A c, d \in V : <<c, d>> \in before <=> order[c] < order[d]
  BY <1>2, KeysOrder
<1>4. \A c : Rank(order, V, c) = PlaceIn(V, before, c)
  BY DEF Rank
<1> HIDE DEF before
<1>5. /\ \A c \in V : PlaceIn(V, before, c) \in 1..Cardinality(V)
      /\ \A c, d \in V : <<c, d>> \in before => PlaceIn(V, before, c) < PlaceIn(V, before, d)
  BY <1>1, <1>3, PlacesAscend
<1>6. /\ \A c, d \in V : PlaceIn(V, before, c) = PlaceIn(V, before, d) => c = d
      /\ \A k \in 1..Cardinality(V) : \E c \in V : PlaceIn(V, before, c) = k
  BY <1>1, <1>3, PlacesAreTaken
<1>7. \A c \in V : PlaceIn(V, before, c) \in 1..Cardinality(Chunk)
  <2>1. 1..Cardinality(V) \subseteq 1..Cardinality(Chunk)
    BY <1>1
  <2>2. QED
    BY <1>5, <2>1, Zenon
<1>8. \A c, d \in V : order[c] < order[d] => PlaceIn(V, before, c) < PlaceIn(V, before, d)
  BY <1>3, <1>5
<1> HIDE DEF before
<1>9. QED
  BY <1>1, <1>4, <1>5, <1>6, <1>7, <1>8

\* A smaller rank has a larger share, since Unit is a multiple of every k + rank.
LEMMA SharesFall ==
  ASSUME NEW a \in 1..Cardinality(Chunk), NEW b \in 1..Cardinality(Chunk), a < b
  PROVE  Unit \div (FusionK + a) > Unit \div (FusionK + b)
<1> DEFINE x == FusionK + a  y == FusionK + b
<1>1. Cardinality(Chunk) \in Nat /\ FusionK \in Nat \ {0} /\ Unit \in Nat \ {0}
  BY SearchAssumption, FS_CardinalityType
<1>2. x \in Nat \ {0} /\ y \in Nat \ {0} /\ x < y
  BY <1>1
<1>3. Unit % x = 0 /\ Unit % y = 0
  BY SearchAssumption
<1> HIDE DEF x, y
<1> DEFINE p == Unit \div x  q == Unit \div y
<1>4. Unit = x * p + (Unit % x) /\ p \in Int
  BY <1>1, <1>2
<1>5. Unit = y * q + (Unit % y) /\ q \in Int
  BY <1>1, <1>2
<1>6. Unit = x * p /\ Unit = y * q
  BY <1>2, <1>3, <1>4, <1>5
<1> HIDE DEF p, q
<1>7. q > 0
  BY <1>1, <1>2, <1>5, <1>6
<1>8. ASSUME p <= q
      PROVE  FALSE
  <2>1. x * p <= x * q
    BY <1>2, <1>4, <1>5, <1>8
  <2>2. x * q < y * q
    BY <1>2, <1>5, <1>7
  <2>3. x * p \in Int /\ x * q \in Int /\ y * q \in Int
    BY <1>2, <1>4, <1>5
  <2>4. QED
    BY <1>6, <2>1, <2>2, <2>3
<1>9. QED
  BY <1>4, <1>5, <1>8 DEF p, q, x, y

\* A share is a number; it is positive in the ranking and 0 outside.
LEMMA SharesAreNumbers ==
  ASSUME QueryIsTyped, NEW order \in Orders, NEW V \in SUBSET Chunk, NEW c
  PROVE  /\ Share(order, V, c) \in Nat
         /\ c \in Ranking(order, V) => Share(order, V, c) > 0
<1>1. CASE c \notin Ranking(order, V)
  BY <1>1 DEF Share
<1>2. CASE c \in Ranking(order, V)
  <2> DEFINE x == FusionK + Rank(order, V, c)
             p == Unit \div x
  <2>1. Rank(order, V, c) \in 1..Cardinality(Chunk)
    BY <1>2, RanksCount DEF Ranking
  <2>2. Cardinality(Chunk) \in Nat /\ FusionK \in Nat \ {0} /\ Unit \in Nat \ {0}
    BY SearchAssumption, FS_CardinalityType
  <2>3. x \in Nat \ {0} /\ Unit % x = 0
    <3> DEFINE r == Rank(order, V, c)
    <3> HIDE DEF r
    <3>1. Unit % (FusionK + r) = 0
      BY <2>1, SearchAssumption DEF r
    <3>2. FusionK + r \in Nat \ {0}
      BY <2>1, <2>2 DEF r
    <3>3. QED
      BY <3>1, <3>2 DEF r
  <2> HIDE DEF x
  <2>4. Unit = x * p + (Unit % x) /\ p \in Int
    BY <2>2, <2>3
  <2> HIDE DEF p
  <2>5. Unit = x * p
    BY <2>3, <2>4
  <2>6. p > 0
    BY <2>2, <2>3, <2>4, <2>5
  <2>7. QED
    BY <1>2, <2>4, <2>6 DEF Share, p, x
<1>3. QED
  BY <1>1, <1>2

\* The ORDER BY of the statement.
ByScore(S) ==
    {p \in S \X S : \/ p[1].score > p[2].score
                    \/ p[1].score = p[2].score /\ p[1].chunk < p[2].chunk}

\* What one statement ranks is in order, and it is the whole join.
LEMMA FusedIsOrdered ==
  ASSUME QueryIsTyped, NEW m \in Embedder, NEW V \in SUBSET Chunk
  PROVE  /\ Fused(m, V) \in Seq(Hit) /\ InOrder(Fused(m, V))
         /\ ToSet(Fused(m, V)) = Joined(m, V) /\ Joined(m, V) \subseteq Hit
<1> DEFINE S == Joined(m, V)
           dense == nearest[m].dense
           sparse == nearest[m].sparse
           Score(c) == Share(dense, V, c) + Share(sparse, V, c)
           C == Ranking(dense, V) \cup Ranking(sparse, V)
           f == [c \in C |-> [chunk |-> c, score |-> Score(c)]]
<1>1. dense \in Orders /\ sparse \in Orders
  BY DEF QueryIsTyped
<1>2. C \subseteq V /\ \A c \in C : c \in Chunk /\ Score(c) \in Nat
  BY <1>1, SharesAreNumbers DEF Ranking
<1>3. S = {[chunk |-> c, score |-> Score(c)] : c \in C}
  BY DEF Joined
<1> HIDE DEF S, Score, C
<1>4. S \subseteq Hit /\ \A g, h \in S : g.chunk = h.chunk => g = h
  BY <1>2, <1>3 DEF Hit
<1>5. IsFiniteSet(S)
  <2>1. IsFiniteSet(C)
    BY <1>2, SearchAssumption, FS_Subset
  <2>2. f \in Surjection(C, S)
    BY <1>3 DEF Surjection
  <2>3. QED
    BY <2>1, <2>2, FS_Surjection
<1>6. \A g \in S : g.chunk \in Nat /\ g.score \in Nat
  BY <1>4, SearchAssumption DEF Hit
<1>7. \A g, h \in S : <<g, h>> \in ByScore(S) <=>
          g.score > h.score \/ (g.score = h.score /\ g.chunk < h.chunk)
  BY DEF ByScore
<1>8. IsOrder(S, ByScore(S))
  <2>1. \A g \in S : <<g, g>> \notin ByScore(S)
    BY <1>6, <1>7
  <2>2. \A g, h \in S : g # h => <<g, h>> \in ByScore(S) \/ <<h, g>> \in ByScore(S)
    BY <1>4, <1>6, <1>7
  <2>3. \A g, h, k \in S :
            <<g, h>> \in ByScore(S) /\ <<h, k>> \in ByScore(S) => <<g, k>> \in ByScore(S)
    BY <1>6, <1>7
  <2>4. QED
    BY <2>1, <2>2, <2>3 DEF IsOrder
<1> DEFINE before == ByScore(S)
           F == Ranked(S, before)
<1>9. Fused(m, V) = F
  BY DEF Fused, S, ByScore
<1> HIDE DEF before
<1>10. /\ F \in Seq(S)
       /\ \A i, j \in DOMAIN F : i < j => <<F[i], F[j]>> \in before
       /\ \A g \in S : \E i \in DOMAIN F : F[i] = g
  BY <1>5, <1>8, RankedSorts DEF before
<1> HIDE DEF F
<1>11. \A i \in DOMAIN F : F[i] \in S
  BY <1>10
<1>12. F \in Seq(Hit)
  BY <1>4, <1>10
<1>13. ToSet(F) = S
  BY <1>10, <1>11 DEF ToSet
<1>14. InOrder(F)
  <2> SUFFICES ASSUME NEW i \in DOMAIN F, NEW j \in DOMAIN F, i < j
               PROVE  F[i].chunk # F[j].chunk /\ F[i].score >= F[j].score
    BY DEF InOrder
  <2>1. <<F[i], F[j]>> \in before /\ F[i] \in S /\ F[j] \in S
    BY <1>10, <1>11
  <2>2. F[i] # F[j]
    BY <1>8, <2>1 DEF IsOrder, before
  <2>3. F[i].score >= F[j].score
    BY <1>6, <1>7, <2>1 DEF before
  <2>4. QED
    BY <1>4, <2>1, <2>2, <2>3
<1>15. QED
  BY <1>4, <1>9, <1>12, <1>13, <1>14 DEF S
-----------------------------------------------------------------------------
(* The merge.                                                              *)

\* What a search, or the merge, returns of the hits in found: the best of each chunk, in
\* order, and what is left out is no better than any of a full list.
IsBestOf(hits, found) ==
    /\ hits \in Seq(Hit) /\ InOrder(hits) /\ Len(hits) <= limit
    /\ \A i \in DOMAIN hits :
           /\ hits[i] \in found
           /\ \A g \in found : g.chunk = hits[i].chunk => g.score <= hits[i].score
    /\ \A g \in found :
           \/ \E i \in DOMAIN hits : hits[i].chunk = g.chunk
           \/ Len(hits) = limit /\ \A i \in DOMAIN hits : hits[i].score >= g.score

\* LIMIT, and Python's [:limit].
LEMMA FirstCuts ==
  ASSUME QueryIsTyped, NEW hits \in Seq(Hit)
  PROVE  /\ First(hits, limit) \in Seq(Hit) /\ Len(First(hits, limit)) <= limit
         /\ DOMAIN First(hits, limit) \subseteq DOMAIN hits
         /\ \A i \in DOMAIN First(hits, limit) : First(hits, limit)[i] = hits[i]
         /\ \A i \in DOMAIN hits : i \notin DOMAIN First(hits, limit) =>
                /\ Len(First(hits, limit)) = limit
                /\ \A k \in DOMAIN First(hits, limit) : k < i
<1> DEFINE n == Smaller(limit, Len(hits))
           cut == First(hits, limit)
<1>1. limit \in Nat /\ Len(hits) \in Nat /\ DOMAIN hits = 1..Len(hits)
  BY DEF QueryIsTyped
<1>2. n \in 0..Len(hits) /\ n <= limit /\ (n < Len(hits) => n = limit)
  <2>1. CASE limit < Len(hits)
    BY <1>1, <2>1 DEF Smaller
  <2>2. CASE ~ (limit < Len(hits))
    <3>1. n = Len(hits)
      BY <2>2 DEF Smaller
    <3>2. Len(hits) <= limit
      BY <1>1, <2>2
    <3>3. Len(hits) \in 0..Len(hits) /\ ~ (Len(hits) < Len(hits))
      BY <1>1
    <3> HIDE DEF n
    <3>4. QED
      BY <3>1, <3>2, <3>3, Zenon
  <2>3. QED
    BY <2>1, <2>2
<1>3. cut = SubSeq(hits, 1, n)
  BY DEF First
<1> HIDE DEF n, cut
<1>4. cut \in Seq(Hit) /\ Len(cut) = n /\ \A i \in 1..n : cut[i] = hits[i]
  <2>1. cut = [i \in 1..n |-> hits[i]]
    BY <1>1, <1>2, <1>3
  <2>2. \A i \in 1..n : hits[i] \in Hit
    BY <1>1, <1>2
  <2>3. QED
    BY <1>2, <2>1, <2>2
<1>5. DOMAIN cut = 1..n
  BY <1>4
<1>6. QED
  BY <1>1, <1>2, <1>4, <1>5 DEF cut

\* The first of hits in order are the best of them.
LEMMA FirstAreBest ==
  ASSUME QueryIsTyped, NEW hits \in Seq(Hit),
         \A i, j \in DOMAIN hits : i < j => hits[i].score >= hits[j].score,
         \A i, j \in DOMAIN hits : i < j => hits[i].chunk # hits[j].chunk
  PROVE  IsBestOf(First(hits, limit), ToSet(hits))
<1> DEFINE cut == First(hits, limit)
<1>1. /\ cut \in Seq(Hit) /\ Len(cut) <= limit /\ DOMAIN cut \subseteq DOMAIN hits
      /\ \A i \in DOMAIN cut : cut[i] = hits[i]
      /\ \A i \in DOMAIN hits : i \notin DOMAIN cut =>
             Len(cut) = limit /\ \A k \in DOMAIN cut : k < i
  BY FirstCuts
<1> HIDE DEF cut
<1>2. DOMAIN hits = 1..Len(hits) /\ Len(hits) \in Nat /\ \A i \in DOMAIN hits : hits[i].score \in Nat
  <2>1. \A i \in DOMAIN hits : hits[i] \in Hit
    OBVIOUS
  <2>2. QED
    BY <2>1 DEF Hit
<1>3. InOrder(cut)
  BY <1>1 DEF InOrder
<1>4. ASSUME NEW i \in DOMAIN cut
      PROVE  /\ cut[i] \in ToSet(hits)
             /\ \A g \in ToSet(hits) : g.chunk = cut[i].chunk => g.score <= cut[i].score
  <2>1. cut[i] = hits[i] /\ i \in DOMAIN hits
    BY <1>1
  <2>2. ASSUME NEW j \in DOMAIN hits, hits[j].chunk = hits[i].chunk
        PROVE  hits[j].score <= hits[i].score
    <3>1. j = i
      BY <1>2, <2>1, <2>2
    <3>2. QED
      BY <1>2, <2>1, <3>1
  <2>3. QED
    BY <2>1, <2>2 DEF ToSet
<1>5. ASSUME NEW j \in DOMAIN hits
      PROVE  \/ \E i \in DOMAIN cut : cut[i].chunk = hits[j].chunk
             \/ Len(cut) = limit /\ \A i \in DOMAIN cut : cut[i].score >= hits[j].score
  BY <1>1
<1>6. ASSUME NEW g \in ToSet(hits)
      PROVE  \/ \E i \in DOMAIN cut : cut[i].chunk = g.chunk
             \/ Len(cut) = limit /\ \A i \in DOMAIN cut : cut[i].score >= g.score
  <2>1. PICK j \in DOMAIN hits : g = hits[j]
    BY DEF ToSet
  <2>2. QED
    BY <1>5, <2>1
<1>7. QED
  BY <1>1, <1>3, <1>4, <1>6 DEF IsBestOf, cut

\* The order of the stable sort.
ByScoreStably(found, at) ==
    {pair \in at \X at :
         LET p == pair[1]  q == pair[2]
         IN  \/ found[p[1]][p[2]].score > found[q[1]][q[2]].score
             \/ found[p[1]][p[2]].score = found[q[1]][q[2]].score
                    /\ (p[1] < q[1] \/ (p[1] = q[1] /\ p[2] < q[2]))}

\* The hits of some searches together.
AllOf(found) == UNION {ToSet(found[i]) : i \in DOMAIN found}

\* A descending score, then two ascending numbers: such a comparison is transitive.
LEMMA LexicallyTransitive ==
  ASSUME NEW a \in Nat, NEW b \in Nat, NEW c \in Nat,
         NEW a1 \in Nat, NEW b1 \in Nat, NEW c1 \in Nat,
         NEW a2 \in Nat, NEW b2 \in Nat, NEW c2 \in Nat,
         a > b \/ (a = b /\ (a1 < b1 \/ (a1 = b1 /\ a2 < b2))),
         b > c \/ (b = c /\ (b1 < c1 \/ (b1 = c1 /\ b2 < c2)))
  PROVE  a > c \/ (a = c /\ (a1 < c1 \/ (a1 = c1 /\ a2 < c2)))
OBVIOUS

\* hits.sort returns all the hits, the best scores first.
LEMMA SortedSorts ==
  ASSUME NEW found \in Seq(Seq(Hit))
  PROVE  /\ Sorted(found) \in Seq(Hit) /\ ToSet(Sorted(found)) = AllOf(found)
         /\ \A i, j \in DOMAIN Sorted(found) :
                i < j => Sorted(found)[i].score >= Sorted(found)[j].score
<1> DEFINE at == UNION {{i} \X DOMAIN found[i] : i \in DOMAIN found}
           h == [p \in at |-> found[p[1]][p[2]]]
           before == ByScoreStably(found, at)
           order == Ranked(at, before)
<1>1. DOMAIN found = 1..Len(found) /\ Len(found) \in Nat
      /\ \A i \in DOMAIN found : found[i] \in Seq(Hit)
  OBVIOUS
<1>2. \A i \in DOMAIN found : /\ DOMAIN found[i] = 1..Len(found[i]) /\ Len(found[i]) \in Nat
                              /\ \A k \in DOMAIN found[i] : found[i][k] \in Hit
  <2> SUFFICES ASSUME NEW i \in DOMAIN found
               PROVE  /\ DOMAIN found[i] = 1..Len(found[i]) /\ Len(found[i]) \in Nat
                      /\ \A k \in DOMAIN found[i] : found[i][k] \in Hit
    OBVIOUS
  <2>1. found[i] \in Seq(Hit)
    BY <1>1
  <2>2. QED
    BY <2>1
<1>3. \A p \in at : /\ p = <<p[1], p[2]>> /\ p[1] \in Nat /\ p[2] \in Nat
                    /\ h[p] \in Hit /\ p[1] \in DOMAIN found /\ p[2] \in DOMAIN found[p[1]]
  BY <1>1, <1>2
<1>4. \A p \in at : h[p].score \in Nat
  BY <1>3 DEF Hit
<1>5. IsFiniteSet(at)
  <2> DEFINE Parts == {{i} \X DOMAIN found[i] : i \in DOMAIN found}
             part == [i \in DOMAIN found |-> {i} \X DOMAIN found[i]]
  <2>1. IsFiniteSet(DOMAIN found)
    <3>1. \A n \in Nat : IsFiniteSet(1..n)
      BY FS_Interval
    <3>2. QED
      BY <1>1, <3>1
  <2>2. part \in Surjection(DOMAIN found, Parts)
    BY DEF Surjection
  <2>3. IsFiniteSet(Parts)
    BY <2>1, <2>2, FS_Surjection
  <2>4. ASSUME NEW i \in DOMAIN found
        PROVE  IsFiniteSet({i} \X DOMAIN found[i])
    <3>1. \A n \in Nat : IsFiniteSet(1..n)
      BY FS_Interval
    <3>2. IsFiniteSet(DOMAIN found[i]) /\ IsFiniteSet({i})
      BY <1>2, <3>1, FS_Singleton
    <3>3. QED
      BY <3>2, FS_Product
  <2>5. \A T \in Parts : IsFiniteSet(T)
    BY <2>4
  <2>6. QED
    BY <2>3, <2>5, FS_UNION
<1>6. \A p, q \in at : <<p, q>> \in before <=>
          \/ h[p].score > h[q].score
          \/ h[p].score = h[q].score /\ (p[1] < q[1] \/ (p[1] = q[1] /\ p[2] < q[2]))
  BY DEF ByScoreStably
<1>7. Sorted(found) = [k \in DOMAIN order |-> found[order[k][1]][order[k][2]]]
  BY DEF Sorted, ByScoreStably
<1>8. AllOf(found) = {h[p] : p \in at}
  <2>1. \A i \in DOMAIN found : \A k \in DOMAIN found[i] : <<i, k>> \in at /\ h[<<i, k>>] = found[i][k]
    OBVIOUS
  <2>2. \A p \in at : h[p] \in AllOf(found)
    BY <1>3 DEF AllOf, ToSet
  <2>3. ASSUME NEW g \in AllOf(found)
        PROVE  \E p \in at : g = h[p]
    <3>1. PICK i \in DOMAIN found : g \in ToSet(found[i])
      BY DEF AllOf
    <3>2. PICK k \in DOMAIN found[i] : g = found[i][k]
      BY <3>1 DEF ToSet
    <3>3. QED
      BY <2>1, <3>2
  <2> HIDE DEF h, at
  <2>4. QED
    BY <2>2, <2>3
<1> HIDE DEF before, at, h
<1>9. IsOrder(at, before)
  <2>1. \A p \in at : p[1] \in Nat /\ p[2] \in Nat
    BY <1>3
  <2>2. \A p, q \in at : p # q => p[1] # q[1] \/ p[2] # q[2]
    BY <1>3
  <2>3. ASSUME NEW p \in at PROVE <<p, p>> \notin before
    BY <1>4, <1>6, <2>1
  <2>4. ASSUME NEW p \in at, NEW q \in at, p # q
        PROVE  <<p, q>> \in before \/ <<q, p>> \in before
    <3>1. /\ h[p].score \in Nat /\ h[q].score \in Nat
          /\ p[1] \in Nat /\ p[2] \in Nat /\ q[1] \in Nat /\ q[2] \in Nat
          /\ p[1] # q[1] \/ p[2] # q[2]
      BY <1>4, <2>1, <2>2, <2>4
    <3>2. QED
      BY <1>6, <3>1
  <2>5. ASSUME NEW p \in at, NEW q \in at, NEW r \in at,
               <<p, q>> \in before, <<q, r>> \in before
        PROVE  <<p, r>> \in before
    <3>1. /\ h[p].score \in Nat /\ h[q].score \in Nat /\ h[r].score \in Nat
          /\ p[1] \in Nat /\ p[2] \in Nat /\ q[1] \in Nat /\ q[2] \in Nat
          /\ r[1] \in Nat /\ r[2] \in Nat
      BY <1>4, <2>1
    <3>2. /\ \/ h[p].score > h[q].score
             \/ h[p].score = h[q].score /\ (p[1] < q[1] \/ (p[1] = q[1] /\ p[2] < q[2]))
          /\ \/ h[q].score > h[r].score
             \/ h[q].score = h[r].score /\ (q[1] < r[1] \/ (q[1] = r[1] /\ q[2] < r[2]))
      BY <1>6, <2>5
    <3>3. \A a, b, c, a1, b1, c1, a2, b2, c2 \in Nat :
             /\ a > b \/ (a = b /\ (a1 < b1 \/ (a1 = b1 /\ a2 < b2)))
             /\ b > c \/ (b = c /\ (b1 < c1 \/ (b1 = c1 /\ b2 < c2)))
             => a > c \/ (a = c /\ (a1 < c1 \/ (a1 = c1 /\ a2 < c2)))
      BY LexicallyTransitive
    <3>4. \/ h[p].score > h[r].score
          \/ h[p].score = h[r].score /\ (p[1] < r[1] \/ (p[1] = r[1] /\ p[2] < r[2]))
      BY <3>1, <3>2, <3>3
    <3>5. QED
      BY <1>6, <2>5, <3>4
  <2>6. QED
    BY <2>3, <2>4, <2>5 DEF IsOrder
<1>10. /\ order \in Seq(at)
       /\ \A i, j \in DOMAIN order : i < j => <<order[i], order[j]>> \in before
       /\ \A p \in at : \E i \in DOMAIN order : order[i] = p
  BY <1>5, <1>9, RankedSorts
<1> HIDE DEF order
<1>11. DOMAIN order = 1..Len(order) /\ Len(order) \in Nat /\ \A k \in DOMAIN order : order[k] \in at
  BY <1>10
<1>12. Sorted(found) = [k \in DOMAIN order |-> h[order[k]]] /\ Sorted(found) \in Seq(Hit)
  <2>1. \A k \in DOMAIN order : found[order[k][1]][order[k][2]] = h[order[k]]
    BY <1>11 DEF h
  <2>2. Sorted(found) = [k \in DOMAIN order |-> h[order[k]]]
    BY <1>7, <2>1
  <2>3. QED
    BY <1>3, <1>11, <2>2
<1>13. ToSet(Sorted(found)) = AllOf(found)
  <2>1. ToSet(Sorted(found)) = {h[order[k]] : k \in DOMAIN order}
    BY <1>12 DEF ToSet
  <2>2. QED
    BY <1>8, <1>10, <1>11, <2>1
<1>14. \A i, j \in DOMAIN order : i < j => h[order[i]].score >= h[order[j]].score
  <2> SUFFICES ASSUME NEW i \in DOMAIN order, NEW j \in DOMAIN order, i < j
               PROVE  h[order[i]].score >= h[order[j]].score
    OBVIOUS
  <2>1. order[i] \in at /\ order[j] \in at /\ <<order[i], order[j]>> \in before
    BY <1>10, <1>11
  <2>2. h[order[i]].score \in Nat /\ h[order[j]].score \in Nat
    BY <1>4, <2>1
  <2>3. QED
    BY <1>6, <2>1, <2>2
<1>15. QED
  BY <1>12, <1>13, <1>14

\* A set of numbers that is not empty has a least one.
LEMMA LeastExists ==
  ASSUME NEW T, T \subseteq Nat, T # {}
  PROVE  \E i \in T : \A j \in T : i <= j
<1> DEFINE R == {p \in Nat \X Nat : p[1] < p[2]}
<1>1. IsWellFoundedOn(R, Nat)
  BY NatLessThanWellFounded, Zenon DEF OpToRel
<1>2. \A i, j \in Nat : <<j, i>> \in R <=> j < i
  OBVIOUS
<1> HIDE DEF R
<1>3. PICK i \in T : \A j \in T : ~ (<<j, i>> \in R)
  BY <1>1, WFMin
<1>4. \A j \in T : ~ (j < i)
  BY <1>2, <1>3, Zenon
<1>5. QED
  BY <1>4

\* The indices of the hits that are the first of their chunk.
Firsts(hits) == {i \in DOMAIN hits : \A j \in 1..(i - 1) : hits[j].chunk # hits[i].chunk}

\* best.setdefault keeps the order of the hits and of each chunk the best one.
LEMMA FirstOfEachKeepsBest ==
  ASSUME NEW hits \in Seq(Hit),
         \A i, j \in DOMAIN hits : i < j => hits[i].score >= hits[j].score
  PROVE  /\ FirstOfEach(hits) \in Seq(Hit) /\ InOrder(FirstOfEach(hits))
         /\ ToSet(FirstOfEach(hits)) \subseteq ToSet(hits)
         /\ \A g \in ToSet(hits) : \E h \in ToSet(FirstOfEach(hits)) :
                h.chunk = g.chunk /\ h.score >= g.score
<1> DEFINE T == Firsts(hits)
           key == [i \in T |-> i]
           before == ByKey(T, key)
           order == Ranked(T, before)
           F == FirstOfEach(hits)
<1>1. DOMAIN hits = 1..Len(hits) /\ Len(hits) \in Nat /\ \A i \in DOMAIN hits : hits[i] \in Hit
  OBVIOUS
<1>2. \A i \in DOMAIN hits : hits[i].score \in Nat
  BY <1>1 DEF Hit
<1>3. T \subseteq DOMAIN hits /\ T \subseteq Nat /\ \A i \in T : key[i] = i
  BY <1>1 DEF Firsts
<1>4. IsFiniteSet(T)
  <2>1. \A n \in Nat : IsFiniteSet(1..n)
    BY FS_Interval
  <2>2. IsFiniteSet(DOMAIN hits)
    BY <1>1, <2>1
  <2>3. QED
    BY <1>3, <2>2, FS_Subset
<1>5. F = [k \in DOMAIN order |-> hits[order[k]]]
  BY DEF FirstOfEach, Firsts
<1> HIDE DEF T, key, F
<1>6. IsOrder(T, before) /\ \A i, j \in T : <<i, j>> \in before <=> i < j
  <2>1. \A i \in T : key[i] \in Nat
    BY <1>3
  <2>2. \A i, j \in T : key[i] = key[j] => i = j
    BY <1>3
  <2>3. IsOrder(T, before) /\ \A i, j \in T : <<i, j>> \in before <=> key[i] < key[j]
    BY <2>1, <2>2, KeysOrder
  <2>4. QED
    BY <1>3, <2>3
<1> HIDE DEF before
<1>7. /\ order \in Seq(T)
      /\ \A i, j \in DOMAIN order : i < j => <<order[i], order[j]>> \in before
      /\ \A i \in T : \E k \in DOMAIN order : order[k] = i
  BY <1>4, <1>6, RankedSorts
<1> HIDE DEF order
<1>8. DOMAIN order = 1..Len(order) /\ Len(order) \in Nat /\ \A k \in DOMAIN order : order[k] \in T
  BY <1>7
<1>9. F \in Seq(Hit) /\ DOMAIN F = DOMAIN order /\ \A k \in DOMAIN F : F[k] = hits[order[k]]
  <2>1. \A k \in 1..Len(order) : hits[order[k]] \in Hit
    BY <1>1, <1>3, <1>8
  <2>2. F = [k \in 1..Len(order) |-> hits[order[k]]]
    BY <1>5, <1>8
  <2>3. F \in Seq(Hit)
    BY <1>8, <2>1, <2>2
  <2>4. QED
    BY <1>8, <2>2, <2>3
<1>10. InOrder(F)
  <2> SUFFICES ASSUME NEW k \in DOMAIN F, NEW l \in DOMAIN F, k < l
               PROVE  F[k].chunk # F[l].chunk /\ F[k].score >= F[l].score
    BY DEF InOrder
  <2>1. /\ order[k] \in T /\ order[l] \in T /\ order[k] < order[l]
        /\ F[k] = hits[order[k]] /\ F[l] = hits[order[l]]
    BY <1>6, <1>7, <1>8, <1>9
  <2>2. order[k] \in 1..(order[l] - 1)
    BY <1>1, <1>3, <2>1
  <2>3. hits[order[k]].chunk # hits[order[l]].chunk
    BY <2>1, <2>2 DEF T, Firsts
  <2>4. hits[order[k]].score >= hits[order[l]].score
    BY <1>3, <2>1
  <2>5. QED
    BY <2>1, <2>3, <2>4
<1>11. ToSet(F) \subseteq ToSet(hits)
  <2>1. \A k \in DOMAIN F : F[k] \in ToSet(hits)
    BY <1>3, <1>8, <1>9 DEF ToSet
  <2>2. QED
    BY <2>1 DEF ToSet
<1>12. ASSUME NEW j \in DOMAIN hits
       PROVE  \E k \in DOMAIN F : F[k].chunk = hits[j].chunk /\ F[k].score >= hits[j].score
  <2> DEFINE Same == {i \in DOMAIN hits : hits[i].chunk = hits[j].chunk}
  <2>1. Same \subseteq Nat /\ j \in Same
    BY <1>1
  <2>2. PICK i \in Same : \A l \in Same : i <= l
    BY <2>1, LeastExists
  <2>3. i \in DOMAIN hits /\ hits[i].chunk = hits[j].chunk /\ i <= j /\ i \in Nat
    BY <2>1, <2>2
  <2>4. i \in T
    <3>1. ASSUME NEW l \in 1..(i - 1), hits[l].chunk = hits[i].chunk
          PROVE  FALSE
      <4>1. l \in DOMAIN hits /\ l < i /\ l \in Nat
        BY <1>1, <2>3
      <4>2. l \in Same
        BY <2>3, <3>1, <4>1
      <4>3. i <= l
        BY <2>2, <4>2
      <4>4. QED
        BY <2>3, <4>1, <4>3
    <3>2. QED
      BY <2>3, <3>1 DEF T, Firsts
  <2>5. PICK k \in DOMAIN order : order[k] = i
    BY <1>7, <2>4
  <2>6. F[k] = hits[i] /\ k \in DOMAIN F
    BY <1>9, <2>5
  <2>7. hits[i].score >= hits[j].score
    <3>1. CASE i = j
      BY <1>2, <3>1
    <3>2. CASE i # j
      <4>1. i < j
        BY <1>1, <2>3, <3>2
      <4>2. QED
        BY <2>3, <4>1
    <3>3. QED
      BY <3>1, <3>2
  <2>8. QED
    BY <2>3, <2>6, <2>7
<1>13. \A g \in ToSet(hits) : \E h \in ToSet(F) : h.chunk = g.chunk /\ h.score >= g.score
  BY <1>12 DEF ToSet
<1>14. QED
  BY <1>9, <1>10, <1>11, <1>13 DEF F

\* What search_release returns is the best of what the searches returned.
LEMMA MergeIsBest ==
  ASSUME QueryIsTyped, NEW found \in Seq(Seq(Hit))
  PROVE  IsBestOf(Merge(found), AllOf(found))
<1> DEFINE sorted == Sorted(found)
           each == FirstOfEach(sorted)
           short == First(each, limit)
           all == AllOf(found)
<1>1. /\ sorted \in Seq(Hit) /\ ToSet(sorted) = all
      /\ \A i, j \in DOMAIN sorted : i < j => sorted[i].score >= sorted[j].score
  BY SortedSorts
<1>2. Merge(found) = short
  BY DEF Merge
<1> HIDE DEF sorted
<1>3. /\ each \in Seq(Hit) /\ InOrder(each) /\ ToSet(each) \subseteq all
      /\ \A g \in all : \E h \in ToSet(each) : h.chunk = g.chunk /\ h.score >= g.score
  BY <1>1, FirstOfEachKeepsBest
<1> HIDE DEF each, all
<1>4. IsBestOf(short, ToSet(each))
  BY <1>3, FirstAreBest DEF InOrder
<1> HIDE DEF short
<1>5. /\ short \in Seq(Hit) /\ InOrder(short) /\ Len(short) <= limit
      /\ \A i \in DOMAIN short :
             /\ short[i] \in ToSet(each)
             /\ \A g \in ToSet(each) : g.chunk = short[i].chunk => g.score <= short[i].score
      /\ \A g \in ToSet(each) :
             \/ \E i \in DOMAIN short : short[i].chunk = g.chunk
             \/ Len(short) = limit /\ \A i \in DOMAIN short : short[i].score >= g.score
  BY <1>4 DEF IsBestOf
<1>6. \A g \in all : g \in Hit /\ g.score \in Nat
  <2>1. \A i \in DOMAIN sorted : sorted[i] \in Hit
    BY <1>1
  <2>2. QED
    BY <1>1, <2>1 DEF ToSet, Hit
<1>7. \A i \in DOMAIN short : short[i] \in all /\ short[i].score \in Nat
  BY <1>3, <1>5, <1>6
<1>8. ASSUME NEW g \in all, NEW i \in DOMAIN short, g.chunk = short[i].chunk
      PROVE  g.score <= short[i].score
  <2>1. PICK h \in ToSet(each) : h.chunk = g.chunk /\ h.score >= g.score
    BY <1>3
  <2>2. h.score <= short[i].score
    BY <1>5, <1>8, <2>1
  <2>3. h.score \in Nat /\ g.score \in Nat /\ short[i].score \in Nat
    BY <1>3, <1>6, <1>7
  <2>4. QED
    BY <2>1, <2>2, <2>3
<1>9. ASSUME NEW g \in all
      PROVE  \/ \E i \in DOMAIN short : short[i].chunk = g.chunk
             \/ Len(short) = limit /\ \A i \in DOMAIN short : short[i].score >= g.score
  <2>1. PICK h \in ToSet(each) : h.chunk = g.chunk /\ h.score >= g.score
    BY <1>3
  <2>2. h.score \in Nat /\ g.score \in Nat
    BY <1>3, <1>6
  <2>3. CASE \E i \in DOMAIN short : short[i].chunk = h.chunk
    BY <2>1, <2>3
  <2>4. CASE Len(short) = limit /\ \A i \in DOMAIN short : short[i].score >= h.score
    <3>1. ASSUME NEW i \in DOMAIN short
          PROVE  short[i].score >= g.score
      <4>1. short[i].score >= h.score /\ short[i].score \in Nat
        BY <1>7, <2>4
      <4>2. QED
        BY <2>1, <2>2, <4>1
    <3>2. QED
      BY <2>4, <3>1
  <2>5. QED
    BY <1>5, <2>3, <2>4
<1>10. QED
  BY <1>2, <1>5, <1>7, <1>8, <1>9 DEF IsBestOf, all

\* There are n numbers from 1 to n.
LEMMA CountOfInterval ==
  ASSUME NEW n \in Nat
  PROVE  IsFiniteSet(1..n) /\ Cardinality(1..n) = n
BY FS_Interval

\* As many chunks as a query may return leave no place for another one.
LEMMA AllPlacesTaken ==
  ASSUME QueryIsTyped, NEW hits \in Seq(Hit), Len(hits) <= limit,
         NEW G \in Seq(Hit), InOrder(G), Len(G) = limit,
         \A k \in DOMAIN G : \E i \in DOMAIN hits : hits[i].chunk = G[k].chunk
  PROVE  /\ Len(hits) = limit
         /\ \A i \in DOMAIN hits : \E k \in DOMAIN G : G[k].chunk = hits[i].chunk
<1> DEFINE at == [k \in DOMAIN G |-> CHOOSE i \in DOMAIN hits : hits[i].chunk = G[k].chunk]
<1>1. /\ DOMAIN hits = 1..Len(hits) /\ Len(hits) \in Nat
      /\ DOMAIN G = 1..limit /\ limit \in Nat
  BY DEF QueryIsTyped
<1>2. \A k \in DOMAIN G : at[k] \in DOMAIN hits /\ hits[at[k]].chunk = G[k].chunk
  OBVIOUS
<1>3. at \in [DOMAIN G -> DOMAIN hits]
  BY <1>2
<1> HIDE DEF at
<1>4. \A k, l \in DOMAIN G : at[k] = at[l] => k = l
  <2> SUFFICES ASSUME NEW k \in DOMAIN G, NEW l \in DOMAIN G, at[k] = at[l], k # l
               PROVE  FALSE
    OBVIOUS
  <2>1. G[k].chunk = G[l].chunk
    BY <1>2
  <2>2. k < l \/ l < k
    BY <1>1
  <2>3. QED
    BY <2>1, <2>2 DEF InOrder
<1>5. at \in Injection(DOMAIN G, DOMAIN hits)
  BY <1>3, <1>4 DEF Injection, IsInjective
<1>6. /\ IsFiniteSet(DOMAIN G) /\ Cardinality(DOMAIN G) = limit
      /\ IsFiniteSet(DOMAIN hits) /\ Cardinality(DOMAIN hits) = Len(hits)
  <2>1. \A n \in Nat : IsFiniteSet(1..n) /\ Cardinality(1..n) = n
    BY CountOfInterval
  <2>2. QED
    BY <1>1, <2>1
<1>7. limit <= Len(hits)
  BY <1>5, <1>6, FS_Injection
<1>8. Len(hits) = limit
  <2>1. \A a, b \in Nat : a <= b /\ b <= a => a = b
    OBVIOUS
  <2>2. QED
    BY <1>1, <1>7, <2>1, Zenon
<1>9. at \in Surjection(DOMAIN G, DOMAIN hits)
  BY <1>5, <1>6, <1>8, FS_Injection
<1>10. \A i \in DOMAIN hits : \E k \in DOMAIN G : at[k] = i
  BY <1>9 DEF Surjection
<1>11. \A i \in DOMAIN hits : \E k \in DOMAIN G : G[k].chunk = hits[i].chunk
  <2> SUFFICES ASSUME NEW i \in DOMAIN hits
               PROVE  \E k \in DOMAIN G : G[k].chunk = hits[i].chunk
    OBVIOUS
  <2>1. PICK k \in DOMAIN G : at[k] = i
    BY <1>10
  <2>2. hits[at[k]].chunk = G[k].chunk
    BY <1>2
  <2>3. QED
    BY <2>1, <2>2
<1>12. QED
  BY <1>8, <1>11, Zenon

\* A search's best limit hits hold all that the merge may need of it: what is the best of
\* the searches' hits, each cut at the limit, is the best of all the hits.
LEMMA CuttingLosesNothing ==
  ASSUME QueryIsTyped, NEW hits, NEW found \in Seq(Seq(Hit)), NEW full \in Seq(Seq(Hit)),
         DOMAIN found = DOMAIN full, IsBestOf(hits, AllOf(found)),
         \A s \in DOMAIN full : InOrder(full[s]) /\ found[s] = First(full[s], limit)
  PROVE  IsBestOf(hits, AllOf(full))
<1>1. /\ hits \in Seq(Hit) /\ InOrder(hits) /\ Len(hits) <= limit
      /\ \A i \in DOMAIN hits : hits[i] \in AllOf(found)
      /\ \A i \in DOMAIN hits : \A g \in AllOf(found) :
             g.chunk = hits[i].chunk => g.score <= hits[i].score
      /\ \A g \in AllOf(found) :
             \/ \E i \in DOMAIN hits : hits[i].chunk = g.chunk
             \/ Len(hits) = limit /\ \A i \in DOMAIN hits : hits[i].score >= g.score
  BY DEF IsBestOf
<1>2. \A s \in DOMAIN full : full[s] \in Seq(Hit) /\ found[s] \in Seq(Hit)
  OBVIOUS
<1>3. ASSUME NEW s \in DOMAIN full
      PROVE  /\ InOrder(found[s]) /\ ToSet(found[s]) \subseteq AllOf(found)
             /\ ToSet(found[s]) \subseteq ToSet(full[s])
             /\ \A h \in ToSet(found[s]) : h \in Hit /\ h.score \in Nat
             /\ \A h \in ToSet(full[s]) : h \in Hit /\ h.score \in Nat
             /\ \A g \in ToSet(full[s]) : g \notin ToSet(found[s]) =>
                    /\ Len(found[s]) = limit
                    /\ \A k \in DOMAIN found[s] :
                           found[s][k].chunk # g.chunk /\ found[s][k].score >= g.score
  <2>1. /\ found[s] = First(full[s], limit) /\ InOrder(full[s])
        /\ full[s] \in Seq(Hit) /\ found[s] \in Seq(Hit)
    BY <1>2
  <2>2. /\ DOMAIN found[s] \subseteq DOMAIN full[s]
        /\ \A k \in DOMAIN found[s] : found[s][k] = full[s][k]
        /\ \A k \in DOMAIN full[s] : k \notin DOMAIN found[s] =>
               Len(found[s]) = limit /\ \A l \in DOMAIN found[s] : l < k
    BY <2>1, FirstCuts
  <2>3. \A k \in DOMAIN full[s] : full[s][k] \in Hit /\ full[s][k].score \in Nat
    <3>1. \A k \in DOMAIN full[s] : full[s][k] \in Hit
      BY <2>1
    <3>2. QED
      BY <3>1 DEF Hit
  <2>4. InOrder(found[s])
    BY <2>1, <2>2 DEF InOrder
  <2>5. ASSUME NEW g \in ToSet(full[s]), g \notin ToSet(found[s])
        PROVE  /\ Len(found[s]) = limit
               /\ \A k \in DOMAIN found[s] :
                      found[s][k].chunk # g.chunk /\ found[s][k].score >= g.score
    <3>1. PICK k \in DOMAIN full[s] : g = full[s][k]
      BY DEF ToSet
    <3>2. k \notin DOMAIN found[s]
      BY <2>2, <2>5, <3>1 DEF ToSet
    <3>3. QED
      BY <2>1, <2>2, <3>1, <3>2 DEF InOrder
  <2>6. ToSet(found[s]) \subseteq AllOf(found)
    BY DEF AllOf
  <2>7. ToSet(found[s]) \subseteq ToSet(full[s])
    BY <2>2 DEF ToSet
  <2>8. QED
    BY <2>3, <2>4, <2>5, <2>6, <2>7 DEF ToSet
<1>4. AllOf(found) \subseteq AllOf(full)
  BY <1>3 DEF AllOf
<1>5. \A i \in DOMAIN hits : hits[i] \in Hit /\ hits[i].score \in Nat
  <2>1. \A i \in DOMAIN hits : hits[i] \in Hit
    BY <1>1
  <2>2. QED
    BY <2>1 DEF Hit
<1>6. ASSUME NEW s \in DOMAIN full, Len(found[s]) = limit,
             \A k \in DOMAIN found[s] : \E i \in DOMAIN hits : hits[i].chunk = found[s][k].chunk
      PROVE  /\ Len(hits) = limit
             /\ \A i \in DOMAIN hits : \E k \in DOMAIN found[s] : found[s][k].chunk = hits[i].chunk
  BY <1>1, <1>2, <1>3, <1>6, AllPlacesTaken
<1>7. ASSUME NEW s \in DOMAIN full, NEW g \in ToSet(full[s]),
             NEW i \in DOMAIN hits, g.chunk = hits[i].chunk
      PROVE  g.score <= hits[i].score
  <2> SUFFICES ASSUME g.score > hits[i].score PROVE FALSE
    BY <1>3, <1>5
  <2>1. g \notin ToSet(found[s])
    <3>1. g \in ToSet(found[s]) => g.score <= hits[i].score
      BY <1>1, <1>3, <1>7
    <3>2. QED
      BY <1>3, <1>5, <3>1
  <2>2. /\ Len(found[s]) = limit
        /\ \A k \in DOMAIN found[s] :
               found[s][k].chunk # g.chunk /\ found[s][k].score >= g.score
    BY <1>3, <2>1
  <2>3. ASSUME NEW k \in DOMAIN found[s]
        PROVE  \E l \in DOMAIN hits : hits[l].chunk = found[s][k].chunk
    <3>1. found[s][k] \in ToSet(found[s])
      BY DEF ToSet
    <3>2. found[s][k] \in AllOf(found) /\ found[s][k].score \in Nat /\ g.score \in Nat
      BY <1>3, <3>1
    <3>3. ~ (hits[i].score >= found[s][k].score)
      BY <1>5, <2>2, <3>2
    <3>4. QED
      BY <1>1, <3>2, <3>3
  <2>4. \E k \in DOMAIN found[s] : found[s][k].chunk = hits[i].chunk
    BY <1>6, <2>2, <2>3
  <2>5. QED
    BY <1>7, <2>2, <2>4
<1>8. ASSUME NEW s \in DOMAIN full, NEW g \in ToSet(full[s]),
             ~ \E i \in DOMAIN hits : hits[i].chunk = g.chunk
      PROVE  Len(hits) = limit /\ \A i \in DOMAIN hits : hits[i].score >= g.score
  <2>1. CASE g \in ToSet(found[s])
    BY <1>1, <1>3, <1>8, <2>1
  <2>2. CASE g \notin ToSet(found[s])
    <3>1. /\ Len(found[s]) = limit /\ g.score \in Nat
          /\ \A k \in DOMAIN found[s] : found[s][k].score >= g.score
      BY <1>3, <2>2
    <3>2. \A k \in DOMAIN found[s] :
             found[s][k] \in AllOf(found) /\ found[s][k].score \in Nat
      BY <1>3 DEF ToSet
    <3>3. CASE \A k \in DOMAIN found[s] : \E i \in DOMAIN hits : hits[i].chunk = found[s][k].chunk
      <4>1. /\ Len(hits) = limit
            /\ \A i \in DOMAIN hits : \E k \in DOMAIN found[s] : found[s][k].chunk = hits[i].chunk
        BY <1>6, <3>1, <3>3
      <4>2. ASSUME NEW i \in DOMAIN hits PROVE hits[i].score >= g.score
        <5>1. PICK k \in DOMAIN found[s] : found[s][k].chunk = hits[i].chunk
          BY <4>1
        <5>2. found[s][k].score <= hits[i].score
          BY <1>1, <3>2, <5>1
        <5>3. QED
          BY <1>5, <3>1, <3>2, <5>2
      <4>3. QED
        BY <4>1, <4>2
    <3>4. CASE ~ \A k \in DOMAIN found[s] : \E i \in DOMAIN hits : hits[i].chunk = found[s][k].chunk
      <4>1. PICK k \in DOMAIN found[s] : ~ \E i \in DOMAIN hits : hits[i].chunk = found[s][k].chunk
        BY <3>4
      <4>2. Len(hits) = limit /\ \A i \in DOMAIN hits : hits[i].score >= found[s][k].score
        BY <1>1, <3>2, <4>1
      <4>3. ASSUME NEW i \in DOMAIN hits PROVE hits[i].score >= g.score
        <5>1. /\ hits[i].score >= found[s][k].score /\ found[s][k].score >= g.score
              /\ hits[i].score \in Nat /\ found[s][k].score \in Nat /\ g.score \in Nat
          BY <1>5, <3>1, <3>2, <4>2
        <5>2. QED
          BY <5>1
      <4>4. QED
        BY <4>2, <4>3
    <3>5. QED
      BY <3>3, <3>4
  <2>3. QED
    BY <2>1, <2>2
<1>9. \A g \in AllOf(full) : \E s \in DOMAIN full : g \in ToSet(full[s])
  BY DEF AllOf
<1>10. QED
  BY <1>1, <1>4, <1>7, <1>8, <1>9 DEF IsBestOf
-----------------------------------------------------------------------------
(* What a hit says of the rankings.                                        *)

\* The join holds each ranked chunk, with its score.
LEMMA JoinedScores ==
  ASSUME NEW m, NEW V
  PROVE  /\ \A g \in Joined(m, V) :
                /\ g.chunk \in Ranking(nearest[m].dense, V) \cup Ranking(nearest[m].sparse, V)
                /\ g.score = Share(nearest[m].dense, V, g.chunk)
                                 + Share(nearest[m].sparse, V, g.chunk)
         /\ \A c \in Ranking(nearest[m].dense, V) \cup Ranking(nearest[m].sparse, V) :
                \E g \in Joined(m, V) : g.chunk = c
<1> DEFINE C == Ranking(nearest[m].dense, V) \cup Ranking(nearest[m].sparse, V)
           Score(c) == Share(nearest[m].dense, V, c) + Share(nearest[m].sparse, V, c)
<1>1. Joined(m, V) = {[chunk |-> c, score |-> Score(c)] : c \in C}
  BY DEF Joined
<1>2. ASSUME NEW g \in Joined(m, V)
      PROVE  g.chunk \in C /\ g.score = Score(g.chunk)
  <2> HIDE DEF C, Score
  <2>1. PICK c \in C : g = [chunk |-> c, score |-> Score(c)]
    BY <1>1
  <2>2. g.chunk = c /\ g.score = Score(c)
    BY <2>1
  <2>3. QED
    BY <2>2
<1>3. ASSUME NEW c \in C
      PROVE  \E g \in Joined(m, V) : g.chunk = c
  <2> HIDE DEF C, Score
  <2>1. [chunk |-> c, score |-> Score(c)] \in Joined(m, V)
    BY <1>1
  <2>2. QED
    BY <2>1
<1>4. QED
  BY <1>2, <1>3

\* What is nearer is ranked when the other is, and has the larger share.
LEMMA NearerHasMore ==
  ASSUME QueryIsTyped, NEW order \in Orders, NEW V \in SUBSET Chunk,
         NEW c \in V, NEW d \in V, order[c] < order[d]
  PROVE  /\ d \in Ranking(order, V) =>
                c \in Ranking(order, V) /\ Share(order, V, c) > Share(order, V, d)
         /\ Share(order, V, c) >= Share(order, V, d)
<1>1. /\ Rank(order, V, c) < Rank(order, V, d)
      /\ Rank(order, V, c) \in 1..Cardinality(Chunk)
      /\ Rank(order, V, d) \in 1..Cardinality(Chunk)
  BY RanksCount
<1>2. Candidates \in Nat
  BY CandidatesReachLimit
<1>3. Share(order, V, c) \in Nat /\ Share(order, V, d) \in Nat
  BY SharesAreNumbers
<1>4. CASE d \in Ranking(order, V)
  <2>1. Rank(order, V, d) <= Candidates
    BY <1>4 DEF Ranking
  <2>2. Rank(order, V, c) <= Candidates
    BY <1>1, <1>2, <2>1
  <2>3. c \in Ranking(order, V)
    BY <2>2 DEF Ranking
  <2>4. Unit \div (FusionK + Rank(order, V, c)) > Unit \div (FusionK + Rank(order, V, d))
    BY <1>1, SharesFall
  <2>5. Share(order, V, c) > Share(order, V, d)
    BY <1>4, <2>3, <2>4 DEF Share
  <2>6. QED
    BY <1>3, <2>3, <2>5
<1>5. CASE d \notin Ranking(order, V)
  <2>1. Share(order, V, d) = 0
    BY <1>5 DEF Share
  <2>2. QED
    BY <1>3, <1>5, <2>1
<1>6. QED
  BY <1>4, <1>5

\* What is nearer both ways than a hit of a statement is a better hit of it.
LEMMA NearerScoresMore ==
  ASSUME QueryIsTyped, NEW m \in Embedder, NEW V \in SUBSET Chunk,
         NEW c \in V, NEW g \in Joined(m, V),
         Ahead(nearest[m].dense, c, g.chunk), Ahead(nearest[m].sparse, c, g.chunk)
  PROVE  \E h \in Joined(m, V) : h.chunk = c /\ h.score > g.score
<1> DEFINE dense == nearest[m].dense
           sparse == nearest[m].sparse
           d == g.chunk
<1>1. dense \in Orders /\ sparse \in Orders
  BY DEF QueryIsTyped
<1>2. /\ d \in Ranking(dense, V) \cup Ranking(sparse, V)
      /\ g.score = Share(dense, V, d) + Share(sparse, V, d)
  BY JoinedScores
<1>3. d \in V /\ dense[c] < dense[d] /\ sparse[c] < sparse[d]
  BY <1>2 DEF Ranking, Ahead
<1> HIDE DEF dense, sparse, d
<1>4. /\ d \in Ranking(dense, V) =>
             c \in Ranking(dense, V) /\ Share(dense, V, c) > Share(dense, V, d)
      /\ Share(dense, V, c) >= Share(dense, V, d)
  BY <1>1, <1>3, NearerHasMore
<1>5. /\ d \in Ranking(sparse, V) =>
             c \in Ranking(sparse, V) /\ Share(sparse, V, c) > Share(sparse, V, d)
      /\ Share(sparse, V, c) >= Share(sparse, V, d)
  BY <1>1, <1>3, NearerHasMore
<1>6. c \in Ranking(dense, V) \cup Ranking(sparse, V)
  BY <1>2, <1>4, <1>5
<1>7. PICK h \in Joined(m, V) : h.chunk = c
  BY <1>6, JoinedScores DEF dense, sparse
<1>8. h.score = Share(dense, V, c) + Share(sparse, V, c)
  BY <1>7, JoinedScores DEF dense, sparse
<1>9. /\ Share(dense, V, c) \in Nat /\ Share(dense, V, d) \in Nat
      /\ Share(sparse, V, c) \in Nat /\ Share(sparse, V, d) \in Nat
  BY <1>1, SharesAreNumbers
<1>10. Share(dense, V, c) + Share(sparse, V, c) > Share(dense, V, d) + Share(sparse, V, d)
  <2>1. CASE Share(dense, V, c) > Share(dense, V, d)
    BY <1>5, <1>9, <2>1
  <2>2. CASE Share(sparse, V, c) > Share(sparse, V, d)
    BY <1>4, <1>9, <2>2
  <2>3. QED
    BY <1>2, <1>4, <1>5, <2>1, <2>2
<1>11. QED
  BY <1>2, <1>7, <1>8, <1>10

\* A visible chunk that is in neither ranking is behind as many hits as the limit.
LEMMA UnrankedIsBehind ==
  ASSUME QueryIsTyped, NEW m \in Embedder, NEW V \in SUBSET Chunk, NEW c \in V,
         ~ \E g \in Joined(m, V) : g.chunk = c
  PROVE  \A k \in 1..limit : \E g \in Joined(m, V) :
             g.chunk \in V /\ Rank(nearest[m].dense, V, g.chunk) = k
<1> DEFINE dense == nearest[m].dense
<1>1. dense \in Orders
  BY DEF QueryIsTyped
<1>2. /\ \A d \in Ranking(dense, V) : \E g \in Joined(m, V) : g.chunk = d
      /\ c \notin Ranking(dense, V)
  <2>1. \A d \in Ranking(dense, V) \cup Ranking(nearest[m].sparse, V) :
           \E g \in Joined(m, V) : g.chunk = d
    BY JoinedScores
  <2>2. QED
    BY <2>1
<1>3. /\ Rank(dense, V, c) \in 1..Cardinality(V) /\ Cardinality(V) \in Nat
      /\ \A k \in 1..Cardinality(V) : \E d \in V : Rank(dense, V, d) = k
  BY <1>1, RanksCount, FS_CardinalityType
<1>4. Candidates \in Nat /\ limit <= Candidates /\ limit \in Nat
  BY CandidatesReachLimit DEF QueryIsTyped
<1>5. Rank(dense, V, c) > Candidates
  BY <1>2, <1>3, <1>4 DEF Ranking
<1>6. limit <= Cardinality(V)
  BY <1>3, <1>4, <1>5
<1>7. ASSUME NEW k \in 1..limit
      PROVE  \E g \in Joined(m, V) : g.chunk \in V /\ Rank(dense, V, g.chunk) = k
  <2>1. k \in 1..Cardinality(V) /\ k <= Candidates
    BY <1>3, <1>4, <1>6
  <2>2. PICK d \in V : Rank(dense, V, d) = k
    BY <1>3, <2>1
  <2>3. d \in Ranking(dense, V)
    BY <2>1, <2>2 DEF Ranking
  <2>4. QED
    BY <1>2, <2>2, <2>3
<1>8. QED
  BY <1>7
-----------------------------------------------------------------------------
(* The query.                                                              *)

SearchSpec == SearchInit /\ [][SearchNext]_searchVars

\* The number of the statements, and what each returned and saw.
SearchInv ==
    /\ QueryIsTyped
    /\ indexed \in [Embedder -> SUBSET Chunk]
    /\ named \in BOOLEAN /\ scope \in Seq(Embedder) /\ (named => Len(scope) = 1)
    /\ results \in Seq(Seq(Hit)) /\ seen \in Seq(SUBSET Chunk)
    /\ Len(results) = Len(seen) /\ Len(seen) <= Len(scope)
    /\ \A i \in DOMAIN seen : results[i] = First(Fused(scope[i], seen[i]), limit)
    /\ Answered => /\ Len(results) = Len(scope)
                   /\ answer = <<IF named THEN results[1] ELSE Merge(results)>>

\* A query begins with no search done.
LEMMA SearchInitially == SearchInit => SearchInv
<1> SUFFICES ASSUME SearchInit PROVE SearchInv
  OBVIOUS
<1>1. limit \in Nat \ {0} /\ indexed \in [Embedder -> SUBSET Chunk]
  BY SearchAssumption DEF SearchInit
<1>2. QueryIsTyped
  BY <1>1 DEF SearchInit, QueryIsTyped
<1>3. results = <<>> /\ seen = <<>> /\ ~ Answered
  BY DEF SearchInit, Answered
<1>4. /\ results \in Seq(Seq(Hit)) /\ seen \in Seq(SUBSET Chunk)
      /\ Len(results) = 0 /\ Len(seen) = 0 /\ DOMAIN seen = {}
  BY <1>3
<1>5. named \in BOOLEAN /\ scope \in Seq(Embedder) /\ (named => Len(scope) = 1)
  <2>1. CASE named = FALSE /\ scope = ReleaseEmbedders
    BY <2>1, SearchAssumption
  <2>2. CASE named = TRUE /\ scope \in {<<m>> : m \in Embedder}
    <3>1. PICK m \in Embedder : scope = <<m>>
      BY <2>2
    <3>2. <<m>> \in Seq(Embedder) /\ Len(<<m>>) = 1
      OBVIOUS
    <3>3. QED
      BY <2>2, <3>1, <3>2
  <2>3. QED
    BY <2>1, <2>2 DEF SearchInit
<1>6. Len(scope) \in Nat
  BY <1>5
<1>7. QED
  BY <1>1, <1>2, <1>3, <1>4, <1>5, <1>6 DEF SearchInv

\* What a statement ranks depends on the distances and the limit alone.
LEMMA FusedStays ==
  ASSUME UNCHANGED <<nearest, limit>>
  PROVE  \A m, V : Fused(m, V)' = Fused(m, V)
BY DEF Fused, Joined, Share, Ranking, Rank, Candidates, Larger

\* A query in progress: what its steps must keep while nothing else of it changes.
LEMMA SearchGoesOn ==
  ASSUME SearchInv, UNCHANGED <<nearest, limit, scope, named, results, seen, answer>>,
         indexed' \in [Embedder -> SUBSET Chunk]
  PROVE  SearchInv'
<1>1. \A m, V : Fused(m, V)' = Fused(m, V)
  BY FusedStays
<1>2. \A f : Merge(f)' = Merge(f)
  BY DEF Merge
<1>3. QueryIsTyped' /\ (Answered' <=> Answered)
  BY DEF SearchInv, QueryIsTyped, Answered
<1>4. QED
  BY <1>1, <1>2, <1>3 DEF SearchInv

\* One more statement is answered, on what it sees.
LEMMA OneSearchMore == SearchInv /\ SearchEmbedder => SearchInv'
<1> SUFFICES ASSUME SearchInv, SearchEmbedder PROVE SearchInv'
  OBVIOUS
<1> DEFINE m == scope[Len(results) + 1]
           visible == {c \in indexed[m] : DocumentOf[c] \in published}
           hits == First(Fused(m, visible), limit)
<1>1. /\ UNCHANGED <<nearest, indexed, published, limit, scope, named, answer>>
      /\ results' = Append(results, hits) /\ seen' = Append(seen, visible)
      /\ Len(results) < Len(scope)
  BY DEF SearchEmbedder
<1>2. /\ QueryIsTyped /\ results \in Seq(Seq(Hit)) /\ seen \in Seq(SUBSET Chunk)
      /\ scope \in Seq(Embedder) /\ Len(results) = Len(seen)
      /\ indexed \in [Embedder -> SUBSET Chunk]
      /\ \A i \in DOMAIN seen : results[i] = First(Fused(scope[i], seen[i]), limit)
  BY DEF SearchInv
<1>3. Len(results) \in Nat /\ Len(scope) \in Nat /\ DOMAIN scope = 1..Len(scope)
  BY <1>2
<1>4. m \in Embedder
  <2>1. Len(results) + 1 \in DOMAIN scope
    BY <1>1, <1>3
  <2>2. QED
    BY <1>2, <2>1
<1>5. visible \in SUBSET Chunk
  BY <1>2, <1>4
<1> HIDE DEF visible
<1>6. Fused(m, visible) \in Seq(Hit)
  BY <1>2, <1>4, <1>5, FusedIsOrdered
<1>7. hits \in Seq(Hit)
  BY <1>2, <1>6, FirstCuts
<1>8. hits = First(Fused(scope[Len(seen) + 1], visible), limit)
  BY <1>2
<1> HIDE DEF hits, m
<1>9. /\ results' \in Seq(Seq(Hit)) /\ Len(results') = Len(results) + 1
      /\ \A i \in 1..Len(results) : results'[i] = results[i]
      /\ results'[Len(results) + 1] = hits
  <2> DEFINE H == Seq(Hit)
  <2>1. hits \in H /\ results \in Seq(H)
    BY <1>2, <1>7
  <2> HIDE DEF H
  <2>2. QED
    BY <1>1, <2>1 DEF H
<1>10. /\ seen' \in Seq(SUBSET Chunk) /\ Len(seen') = Len(seen) + 1
       /\ \A i \in 1..Len(seen) : seen'[i] = seen[i]
       /\ seen'[Len(seen) + 1] = visible
  <2> DEFINE C == SUBSET Chunk
  <2>1. visible \in C /\ seen \in Seq(C)
    BY <1>2, <1>5
  <2> HIDE DEF C
  <2>2. QED
    BY <1>1, <2>1 DEF C
<1>11. \A e, V : Fused(e, V)' = Fused(e, V)
  BY <1>1, FusedStays
<1>12. /\ DOMAIN seen' = 1..(Len(seen) + 1) /\ DOMAIN seen = 1..Len(seen)
       /\ Len(seen') = Len(results') /\ Len(seen') <= Len(scope')
  <2>1. DOMAIN seen' = 1..Len(seen') /\ DOMAIN seen = 1..Len(seen)
    BY <1>2, <1>10
  <2>2. Len(results') = Len(seen') /\ Len(results') <= Len(scope)
    BY <1>1, <1>2, <1>3, <1>9, <1>10
  <2>3. QED
    BY <1>1, <1>10, <2>1, <2>2
<1>13. ASSUME NEW i \in DOMAIN seen'
       PROVE  (results[i] = First(Fused(scope[i], seen[i]), limit))'
  <2>1. Fused(scope[i], seen[i])' = Fused(scope[i], seen'[i])
    BY <1>1, <1>11
  <2>2. CASE i \in 1..Len(seen)
    <3>1. results'[i] = results[i] /\ seen'[i] = seen[i]
      BY <1>2, <1>9, <1>10, <2>2
    <3>2. QED
      BY <1>1, <1>2, <1>12, <2>1, <2>2, <3>1
  <2>3. CASE i = Len(seen) + 1
    <3>1. results'[i] = hits /\ seen'[i] = visible
      BY <1>2, <1>9, <1>10, <2>3
    <3>2. QED
      BY <1>1, <1>8, <2>1, <2>3, <3>1
  <2>4. QED
    BY <1>2, <1>3, <1>12, <2>2, <2>3
<1>14. ~ Answered'
  <2>1. ~ Answered
    BY <1>1, <1>3 DEF SearchInv
  <2>2. QED
    BY <1>1, <2>1 DEF Answered
<1>15. QueryIsTyped'
  BY <1>1, <1>2 DEF QueryIsTyped
<1>16. QED
  BY <1>1, <1>9, <1>10, <1>12, <1>13, <1>14, <1>15 DEF SearchInv

\* Documents may come and go meanwhile: what was seen and returned stays.
LEMMA SearchKept == SearchInv /\ [SearchNext]_searchVars => SearchInv'
<1> SUFFICES ASSUME SearchInv, [SearchNext]_searchVars PROVE SearchInv'
  OBVIOUS
<1>1. CASE SearchEmbedder
  BY <1>1, OneSearchMore
<1>2. CASE Answer
  <2>1. /\ UNCHANGED <<nearest, indexed, published, limit, scope, named, results, seen>>
        /\ answer' = <<IF named THEN results[1] ELSE Merge(results)>>
        /\ Len(results) = Len(scope)
    BY <1>2 DEF Answer
  <2>2. \A m, V : Fused(m, V)' = Fused(m, V)
    BY <2>1, FusedStays
  <2>3. \A f : Merge(f)' = Merge(f)
    BY <2>1 DEF Merge
  <2>4. QueryIsTyped'
    BY <2>1 DEF SearchInv, QueryIsTyped
  <2>5. QED
    BY <2>1, <2>2, <2>3, <2>4 DEF SearchInv
<1>3. CASE PublishDocument
  BY <1>3, SearchGoesOn DEF PublishDocument, SearchInv
<1>4. CASE DeleteDocument
  <2>1. /\ UNCHANGED <<nearest, limit, scope, named, results, seen, answer>>
        /\ \E d : indexed' = [m \in Embedder |-> indexed[m] \ ChunksOf(d)]
    BY <1>4 DEF DeleteDocument
  <2>2. indexed' \in [Embedder -> SUBSET Chunk]
    BY <2>1 DEF SearchInv
  <2>3. QED
    BY <2>1, <2>2, SearchGoesOn
<1>5. CASE UNCHANGED searchVars
  BY <1>5, SearchGoesOn DEF searchVars, SearchInv
<1>6. QED
  BY <1>1, <1>2, <1>3, <1>4, <1>5 DEF SearchNext

\* The hits of every search of the query, each as its statement ranks them.
Scored == UNION {ToSet(Fused(scope[i], seen[i])) : i \in DOMAIN seen}

\* The query returns the best of all that its searches rank.
LEMMA AnswerIsBest ==
  ASSUME SearchInv, Answered
  PROVE  IsBestOf(Hits, Scored)
<1> DEFINE full == [i \in DOMAIN seen |-> Fused(scope[i], seen[i])]
<1>1. /\ QueryIsTyped /\ results \in Seq(Seq(Hit)) /\ seen \in Seq(SUBSET Chunk)
      /\ scope \in Seq(Embedder) /\ Len(results) = Len(seen) /\ Len(results) = Len(scope)
      /\ \A i \in DOMAIN seen : results[i] = First(Fused(scope[i], seen[i]), limit)
      /\ answer = <<IF named THEN results[1] ELSE Merge(results)>>
      /\ named => Len(scope) = 1
  BY DEF SearchInv
<1>2. /\ DOMAIN seen = 1..Len(seen) /\ DOMAIN results = DOMAIN seen /\ DOMAIN scope = DOMAIN seen
      /\ Len(seen) \in Nat
  <2>1. /\ DOMAIN seen = 1..Len(seen) /\ DOMAIN results = 1..Len(results)
        /\ DOMAIN scope = 1..Len(scope) /\ Len(seen) \in Nat
    <3>1. \A S : \A s \in Seq(S) : DOMAIN s = 1..Len(s) /\ Len(s) \in Nat
      OBVIOUS
    <3>2. QED
      BY <1>1, <3>1, Zenon
  <2>2. QED
    BY <1>1, <2>1, Zenon
<1>3. \A i \in DOMAIN seen :
         /\ Fused(scope[i], seen[i]) \in Seq(Hit) /\ InOrder(Fused(scope[i], seen[i]))
         /\ results[i] = First(Fused(scope[i], seen[i]), limit)
  <2> SUFFICES ASSUME NEW i \in DOMAIN seen
               PROVE  /\ Fused(scope[i], seen[i]) \in Seq(Hit)
                      /\ InOrder(Fused(scope[i], seen[i]))
    BY <1>1
  <2>1. scope[i] \in Embedder /\ seen[i] \in SUBSET Chunk
    BY <1>1, <1>2
  <2>2. QED
    BY <1>1, <2>1, FusedIsOrdered
<1>4. Scored = AllOf(full) /\ DOMAIN full = DOMAIN seen
  BY DEF Scored, AllOf
<1>5. /\ \A i \in DOMAIN seen : /\ full[i] \in Seq(Hit) /\ InOrder(full[i])
                                /\ results[i] = First(full[i], limit)
      /\ full = [i \in 1..Len(seen) |-> full[i]]
  BY <1>2, <1>3
<1> HIDE DEF full
<1>6. full \in Seq(Seq(Hit))
  <2> DEFINE H == Seq(Hit)
  <2>1. \A i \in 1..Len(seen) : full[i] \in H
    BY <1>2, <1>5
  <2> HIDE DEF H
  <2>2. full \in Seq(H)
    BY <1>2, <1>5, <2>1
  <2>3. QED
    BY <2>2 DEF H
<1>7. CASE named
  <2>1. DOMAIN seen = {1}
    BY <1>1, <1>2, <1>7
  <2>2. Hits = First(full[1], limit) /\ AllOf(full) = ToSet(full[1])
    BY <1>1, <1>4, <1>5, <1>7, <2>1 DEF Hits, AllOf
  <2>3. full[1] \in Seq(Hit) /\ InOrder(full[1])
    BY <1>5, <2>1
  <2>4. IsBestOf(First(full[1], limit), ToSet(full[1]))
    BY <1>1, <2>3, FirstAreBest DEF InOrder
  <2>5. QED
    BY <1>4, <2>2, <2>4
<1>8. CASE ~ named
  <2>1. Hits = Merge(results)
    BY <1>1, <1>8 DEF Hits
  <2>2. IsBestOf(Hits, AllOf(results))
    BY <1>1, <2>1, MergeIsBest
  <2>3. QED
    BY <1>1, <1>2, <1>4, <1>5, <1>6, <2>2, CuttingLosesNothing
<1>9. QED
  BY <1>7, <1>8

\* BestScores, from the best of what is scored.
LEMMA BestAreBest ==
  ASSUME Answered, IsBestOf(Hits, Scored), Scored \subseteq Hit
  PROVE  BestScores
<1> DEFINE best(c) == CHOOSE h \in Scored :
                          h.chunk = c /\ \A g \in Scored : g.chunk = c => g.score <= h.score
<1>1. /\ \A i, j \in DOMAIN Hits :
             i < j => Hits[i].chunk # Hits[j].chunk /\ Hits[i].score >= Hits[j].score
      /\ \A i \in DOMAIN Hits :
             /\ Hits[i] \in Scored
             /\ \A g \in Scored : g.chunk = Hits[i].chunk => g.score <= Hits[i].score
      /\ \A g \in Scored :
             \/ \E i \in DOMAIN Hits : Hits[i].chunk = g.chunk
             \/ Len(Hits) = limit /\ \A i \in DOMAIN Hits : Hits[i].score >= g.score
  BY DEF IsBestOf, InOrder
<1>2. \A g \in Scored : g.score \in Nat /\ g = [chunk |-> g.chunk, score |-> g.score]
  BY DEF Hit
<1>3. ASSUME NEW i \in DOMAIN Hits
      PROVE  Hits[i] = best(Hits[i].chunk)
  <2> DEFINE b == best(Hits[i].chunk)
  <2>1. /\ b \in Scored /\ b.chunk = Hits[i].chunk
        /\ \A g \in Scored : g.chunk = Hits[i].chunk => g.score <= b.score
    BY <1>1
  <2> HIDE DEF b
  <2>2. b.score <= Hits[i].score /\ Hits[i].score <= b.score
    BY <1>1, <2>1
  <2>3. b.score \in Nat /\ Hits[i].score \in Nat
    BY <1>1, <1>2, <2>1
  <2>4. b.score = Hits[i].score
    BY <2>2, <2>3
  <2>5. b = Hits[i]
    BY <1>1, <1>2, <2>1, <2>4
  <2>6. QED
    BY <2>5 DEF b
<1>4. QED
  BY <1>1, <1>3 DEF BestScores, Scored

\* NearerComesFirst, from the same: the nearer chunk has a better hit.
LEMMA NearerIsReturned ==
  ASSUME SearchInv, Answered, IsBestOf(Hits, Scored), Scored \subseteq Hit
  PROVE  NearerComesFirst
<1> SUFFICES ASSUME NEW c \in Chunk, NEW j \in DOMAIN Hits,
                    \A i \in DOMAIN seen : Hits[j].chunk \in seen[i] =>
                        /\ c \in seen[i]
                        /\ Ahead(nearest[scope[i]].dense, c, Hits[j].chunk)
                        /\ Ahead(nearest[scope[i]].sparse, c, Hits[j].chunk)
             PROVE  \E k \in 1..(j - 1) : Hits[k].chunk = c
  BY DEF NearerComesFirst
<1>1. /\ Hits \in Seq(Hit)
      /\ \A i, k \in DOMAIN Hits :
             i < k => Hits[i].chunk # Hits[k].chunk /\ Hits[i].score >= Hits[k].score
      /\ \A i \in DOMAIN Hits :
             /\ Hits[i] \in Scored
             /\ \A g \in Scored : g.chunk = Hits[i].chunk => g.score <= Hits[i].score
      /\ \A g \in Scored :
             \/ \E i \in DOMAIN Hits : Hits[i].chunk = g.chunk
             \/ Len(Hits) = limit /\ \A i \in DOMAIN Hits : Hits[i].score >= g.score
  BY DEF IsBestOf, InOrder
<1>2. \A g \in Scored : g.score \in Nat
  BY DEF Hit
<1>3. PICK i \in DOMAIN seen : Hits[j] \in ToSet(Fused(scope[i], seen[i]))
  BY <1>1 DEF Scored
<1>4. QueryIsTyped /\ scope[i] \in Embedder /\ seen[i] \in SUBSET Chunk
  <2>1. /\ seen \in Seq(SUBSET Chunk) /\ scope \in Seq(Embedder) /\ Len(seen) <= Len(scope)
    BY DEF SearchInv
  <2>2. i \in DOMAIN scope
    BY <2>1
  <2>3. QED
    BY <2>1, <2>2 DEF SearchInv
<1>5. ToSet(Fused(scope[i], seen[i])) = Joined(scope[i], seen[i])
  BY <1>4, FusedIsOrdered
<1>6. Hits[j] \in Joined(scope[i], seen[i]) /\ Hits[j].chunk \in seen[i]
  <2>1. Hits[j] \in Joined(scope[i], seen[i])
    BY <1>3, <1>5
  <2>2. Hits[j].chunk \in Ranking(nearest[scope[i]].dense, seen[i])
                              \cup Ranking(nearest[scope[i]].sparse, seen[i])
    BY <2>1, JoinedScores
  <2>3. QED
    BY <2>1, <2>2 DEF Ranking
<1>7. PICK h \in Joined(scope[i], seen[i]) : h.chunk = c /\ h.score > Hits[j].score
  BY <1>4, <1>6, NearerScoresMore
<1>8. h \in Scored
  BY <1>5, <1>7 DEF Scored
<1>9. PICK k \in DOMAIN Hits : Hits[k].chunk = c
  <2>1. ~ (Hits[j].score >= h.score)
    BY <1>1, <1>2, <1>7, <1>8
  <2>2. QED
    BY <1>1, <1>7, <1>8, <2>1
<1>10. Hits[k].score > Hits[j].score
  <2>1. h.score <= Hits[k].score
    BY <1>1, <1>7, <1>8, <1>9
  <2>2. h.score \in Nat /\ Hits[k].score \in Nat /\ Hits[j].score \in Nat
    BY <1>1, <1>2, <1>8
  <2>3. QED
    BY <1>7, <2>1, <2>2
<1>11. k \in Nat /\ j \in Nat /\ 1 <= k
  BY <1>1
<1>12. k < j
  <2>1. ~ (j < k)
    <3>1. ASSUME j < k PROVE FALSE
      <4>1. Hits[j].score >= Hits[k].score
        BY <1>1, <3>1
      <4>2. QED
        BY <1>1, <1>2, <1>10, <4>1
    <3>2. QED
      BY <3>1
  <2>2. j # k
    BY <1>1, <1>2, <1>10
  <2>3. QED
    BY <1>11, <2>1, <2>2
<1>13. QED
  BY <1>9, <1>11, <1>12

\* All the hits of a query that returns fewer than its limit are in its answer, and then
\* every chunk it saw.
LEMMA ShortAnswersHaveAll ==
  ASSUME SearchInv, Answered, IsBestOf(Hits, Scored), Len(Hits) < limit
  PROVE  \A c \in UNION ToSet(seen) : \E i \in DOMAIN Hits : Hits[i].chunk = c
<1>1. /\ Hits \in Seq(Hit) /\ Len(Hits) \in Nat /\ DOMAIN Hits = 1..Len(Hits)
      /\ QueryIsTyped /\ limit \in Nat
  BY DEF IsBestOf, SearchInv, QueryIsTyped
<1>2. \A g \in Scored : \E i \in DOMAIN Hits : Hits[i].chunk = g.chunk
  <2>1. Len(Hits) # limit
    <3>1. \A a, b \in Nat : a < b => a # b
      OBVIOUS
    <3>2. QED
      BY <1>1, <3>1, Zenon
  <2>2. \A g \in Scored :
            \/ \E i \in DOMAIN Hits : Hits[i].chunk = g.chunk
            \/ Len(Hits) = limit
    BY DEF IsBestOf
  <2>3. QED
    BY <2>1, <2>2, Zenon
<1> SUFFICES ASSUME NEW s \in DOMAIN seen, NEW c \in seen[s]
             PROVE  \E i \in DOMAIN Hits : Hits[i].chunk = c
  BY DEF ToSet
<1> DEFINE m == scope[s]  V == seen[s]
<1>3. m \in Embedder /\ V \in SUBSET Chunk
  <2>1. /\ seen \in Seq(SUBSET Chunk) /\ scope \in Seq(Embedder) /\ Len(seen) <= Len(scope)
    BY DEF SearchInv
  <2>2. s \in DOMAIN scope
    BY <2>1
  <2>3. QED
    BY <2>1, <2>2
<1>4. Joined(m, V) \subseteq Scored
  <2>1. ToSet(Fused(m, V)) = Joined(m, V)
    BY <1>1, <1>3, FusedIsOrdered
  <2>2. QED
    BY <2>1 DEF Scored
<1> HIDE DEF m
<1>5. CASE \E g \in Joined(m, V) : g.chunk = c
  BY <1>2, <1>4, <1>5
<1>6. CASE ~ \E g \in Joined(m, V) : g.chunk = c
  <2> DEFINE R(d) == Rank(nearest[m].dense, V, d)
             at == [k \in 1..limit |-> CHOOSE i \in DOMAIN Hits : R(Hits[i].chunk) = k]
  <2>1. \A k \in 1..limit : \E g \in Joined(m, V) : R(g.chunk) = k
    BY <1>1, <1>3, <1>6, UnrankedIsBehind
  <2> HIDE DEF R
  <2>2. ASSUME NEW k \in 1..limit
        PROVE  \E i \in DOMAIN Hits : R(Hits[i].chunk) = k
    <3>1. PICK g \in Joined(m, V) : R(g.chunk) = k
      BY <2>1
    <3>2. PICK i \in DOMAIN Hits : Hits[i].chunk = g.chunk
      BY <1>2, <1>4, <3>1
    <3>3. QED
      BY <3>1, <3>2
  <2>3. \A k \in 1..limit : at[k] \in DOMAIN Hits /\ R(Hits[at[k]].chunk) = k
    BY <2>2
  <2>4. at \in [1..limit -> DOMAIN Hits]
    BY <2>3
  <2> HIDE DEF at
  <2>5. \A k, l \in 1..limit : at[k] = at[l] => k = l
    BY <2>3
  <2>6. at \in Injection(1..limit, DOMAIN Hits)
    BY <2>4, <2>5 DEF Injection, IsInjective
  <2>7. /\ IsFiniteSet(DOMAIN Hits) /\ Cardinality(DOMAIN Hits) = Len(Hits)
        /\ Cardinality(1..limit) = limit
    BY <1>1, CountOfInterval
  <2>8. limit <= Len(Hits)
    BY <2>6, <2>7, FS_Injection
  <2>9. QED
    BY <1>1, <2>8
<1>7. QED
  BY <1>5, <1>6

\* LimitIsFilled: no chunk takes two places, and none is missing while there is a place.
LEMMA AnswerIsFull ==
  ASSUME SearchInv, Answered, IsBestOf(Hits, Scored)
  PROVE  LimitIsFilled
<1> DEFINE U == UNION ToSet(seen)
           chunkAt == [i \in DOMAIN Hits |-> Hits[i].chunk]
<1>1. /\ Hits \in Seq(Hit) /\ InOrder(Hits) /\ Len(Hits) <= limit
      /\ Len(Hits) \in Nat /\ DOMAIN Hits = 1..Len(Hits)
      /\ QueryIsTyped /\ limit \in Nat
      /\ \A i \in DOMAIN Hits : Hits[i] \in Scored
  BY DEF IsBestOf, SearchInv, QueryIsTyped
<1>2. \A s \in DOMAIN seen : scope[s] \in Embedder /\ seen[s] \in SUBSET Chunk
  <2>1. /\ seen \in Seq(SUBSET Chunk) /\ scope \in Seq(Embedder) /\ Len(seen) <= Len(scope)
    BY DEF SearchInv
  <2>2. \A s \in DOMAIN seen : s \in DOMAIN scope
    BY <2>1
  <2>3. QED
    BY <2>1, <2>2
<1>3. \A i \in DOMAIN Hits : Hits[i].chunk \in U
  <2> SUFFICES ASSUME NEW i \in DOMAIN Hits PROVE Hits[i].chunk \in U
    OBVIOUS
  <2>1. PICK s \in DOMAIN seen : Hits[i] \in ToSet(Fused(scope[s], seen[s]))
    BY <1>1 DEF Scored
  <2>2. Hits[i] \in Joined(scope[s], seen[s])
    BY <1>1, <1>2, <2>1, FusedIsOrdered
  <2>3. Hits[i].chunk \in Ranking(nearest[scope[s]].dense, seen[s])
                              \cup Ranking(nearest[scope[s]].sparse, seen[s])
    BY <2>2, JoinedScores
  <2>4. Hits[i].chunk \in seen[s]
    BY <2>3 DEF Ranking
  <2>5. QED
    BY <2>4 DEF ToSet
<1>4. IsFiniteSet(U) /\ Cardinality(U) \in Nat
  <2>1. U \subseteq Chunk
    BY <1>2 DEF ToSet
  <2>2. IsFiniteSet(U)
    BY <2>1, SearchAssumption, FS_Subset
  <2>3. QED
    BY <2>2, FS_CardinalityType
<1>5. chunkAt \in Injection(DOMAIN Hits, U)
  <2>1. ASSUME NEW i \in DOMAIN Hits, NEW j \in DOMAIN Hits, i # j
        PROVE  Hits[i].chunk # Hits[j].chunk
    <3>1. i < j \/ j < i
      BY <1>1, <2>1
    <3>2. QED
      BY <1>1, <3>1 DEF InOrder
  <2> HIDE DEF U
  <2>2. chunkAt \in [DOMAIN Hits -> U]
    BY <1>3
  <2>3. \A i, j \in DOMAIN Hits : chunkAt[i] = chunkAt[j] => i = j
    BY <2>1
  <2>4. QED
    BY <2>2, <2>3 DEF Injection, IsInjective
<1>6. Cardinality(DOMAIN Hits) = Len(Hits)
  BY <1>1, CountOfInterval
<1>7. Len(Hits) <= Cardinality(U)
  BY <1>4, <1>5, <1>6, FS_Injection
<1>8. CASE Len(Hits) = limit
  BY <1>1, <1>4, <1>7, <1>8 DEF LimitIsFilled, Smaller
<1>9. CASE Len(Hits) # limit
  <2>1. Len(Hits) < limit
    <3>1. \A a, b \in Nat : a <= b /\ a # b => a < b
      OBVIOUS
    <3>2. QED
      BY <1>1, <1>9, <3>1, Zenon
  <2>2. \A c \in U : \E i \in DOMAIN Hits : chunkAt[i] = c
    BY <2>1, ShortAnswersHaveAll
  <2>3. chunkAt \in Surjection(DOMAIN Hits, U)
    BY <1>3, <2>2 DEF Surjection
  <2>4. Len(Hits) = Cardinality(U)
    BY <1>4, <1>5, <1>6, <2>3, FS_Injection
  <2>5. QED
    BY <1>1, <2>1, <2>4 DEF LimitIsFilled, Smaller
<1>10. QED
  BY <1>8, <1>9

\* What a search scores are hits.
LEMMA ScoredAreHits ==
  ASSUME SearchInv
  PROVE  Scored \subseteq Hit
<1>1. \A s \in DOMAIN seen : scope[s] \in Embedder /\ seen[s] \in SUBSET Chunk
  <2>1. /\ seen \in Seq(SUBSET Chunk) /\ scope \in Seq(Embedder) /\ Len(seen) <= Len(scope)
    BY DEF SearchInv
  <2>2. \A s \in DOMAIN seen : s \in DOMAIN scope
    BY <2>1
  <2>3. QED
    BY <2>1, <2>2
<1>2. ASSUME NEW s \in DOMAIN seen
      PROVE  ToSet(Fused(scope[s], seen[s])) \subseteq Hit
  BY <1>1, FusedIsOrdered DEF SearchInv
<1>3. QED
  BY <1>2 DEF Scored

\* The answer is the best of what is scored, whatever is published or deleted while the
\* query runs: each chunk once, at the best score any embedder gives it (search,
\* search_release).
THEOREM AnswersAreTheBest == SearchSpec => []BestScores
<1>1. SearchInv => BestScores
  <2> SUFFICES ASSUME SearchInv PROVE BestScores
    OBVIOUS
  <2>1. CASE Answered
    BY <2>1, AnswerIsBest, ScoredAreHits, BestAreBest
  <2>2. CASE ~ Answered
    BY <2>2 DEF BestScores
  <2>3. QED
    BY <2>1, <2>2
<1>2. QED
  BY <1>1, SearchInitially, SearchKept, PTL DEF SearchSpec

\* No chunk stands behind one it is nearer than both ways, and none is missing that is:
\* cutting the rankings at the candidates changes no order that they agree on
\* (search_options, search).
THEOREM AnswersKeepTheOrder == SearchSpec => []NearerComesFirst
<1>1. SearchInv => NearerComesFirst
  <2> SUFFICES ASSUME SearchInv PROVE NearerComesFirst
    OBVIOUS
  <2>1. CASE Answered
    BY <2>1, AnswerIsBest, ScoredAreHits, NearerIsReturned
  <2>2. CASE ~ Answered
    BY <2>2 DEF NearerComesFirst
  <2>3. QED
    BY <2>1, <2>2
<1>2. QED
  BY <1>1, SearchInitially, SearchKept, PTL DEF SearchSpec

\* A query returns as many chunks as it asked for, or all its searches saw (search_options:
\* the candidates are never fewer than the limit; search_release).
THEOREM AnswersAreFull == SearchSpec => []LimitIsFilled
<1>1. SearchInv => LimitIsFilled
  <2> SUFFICES ASSUME SearchInv PROVE LimitIsFilled
    OBVIOUS
  <2>1. CASE Answered
    BY <2>1, AnswerIsBest, AnswerIsFull
  <2>2. CASE ~ Answered
    BY <2>2 DEF LimitIsFilled
  <2>3. QED
    BY <2>1, <2>2
<1>2. QED
  BY <1>1, SearchInitially, SearchKept, PTL DEF SearchSpec
=============================================================================
