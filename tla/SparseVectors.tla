---------------------------- MODULE SparseVectors ----------------------------
(***************************************************************************)
(* How the sparse half of an embedding gets from the model's token hashes  *)
(* to the database's sparsevec (src/operators/embedders/hybrid_v1.py,      *)
(* src/contracts/embeddings.py, src/store/vectors.py).                     *)
(***************************************************************************)
EXTENDS Ranks, SequencesExt

CONSTANTS
    Dimension,  \* sparse_dimension of the model: the database's ceiling
    RawIndex,   \* the model's token hashes, which may reach beyond it
    Weight,     \* the values it gives them
    MaxEntries  \* bound: entries of one raw vector

ASSUME SparseAssumption ==
    Dimension \in Nat \ {0} /\ RawIndex \subseteq Nat /\ Weight \subseteq Nat /\ MaxEntries \in Nat

VARIABLES
    raw,      \* the model's <<index, value>> pairs
    merged,   \* how many of them are in the vector
    stage,    \* "raw", "embedding", "literal" or "rejected"
    vector,   \* the SparseVector's <<index, value>> pairs, in the order of its lists
    literal   \* the <<position, value>> pairs of the sparsevec literal

sparseVars == <<raw, merged, stage, vector, literal>>

SparseInit ==
    /\ raw \in BoundedSeq(RawIndex \X Weight, MaxEntries)
    /\ merged = 0 /\ stage = "raw" /\ vector = <<>> /\ literal = <<>>

\* Mutant: the last value of an index stays alone.
Overwrite(entries, index, value) ==
    IF \E i \in DOMAIN entries : entries[i][1] = index
    THEN [i \in DOMAIN entries |-> IF entries[i][1] = index THEN <<index, value>> ELSE entries[i]]
    ELSE Append(entries, <<index, value>>)

\* values_by_index[index] = values_by_index.get(index, 0.0) + value
AddTo(entries, index, value) ==
    IF \E i \in DOMAIN entries : entries[i][1] = index
    THEN [i \in DOMAIN entries |-> IF entries[i][1] = index
                                   THEN <<index, entries[i][2] + value>> ELSE entries[i]]
    ELSE Append(entries, <<index, value>>)

\* One turn of normalise_sparse_vector's loop: hashes go into the dimension, collisions
\* are summed.
MergeEntry ==
    /\ stage = "raw" /\ merged < Len(raw)
    /\ merged' = merged + 1
    /\ vector' = AddTo(vector, raw[merged'][1] % Dimension, raw[merged'][2])
    /\ UNCHANGED <<raw, stage, literal>>

\* SparseVector._fits, for pairs.
Fits(entries) == \A i \in DOMAIN entries : entries[i][1] < Dimension

Normalise ==
    /\ stage = "raw" /\ merged = Len(raw)
    /\ stage' = IF Fits(vector) THEN "embedding" ELSE "rejected"
    /\ UNCHANGED <<raw, merged, vector, literal>>

\* The positions of the entries, in the order of their indexes.
ByIndex(entries) == Ranked(DOMAIN entries, ByKey(DOMAIN entries, [i \in DOMAIN entries |-> entries[i][1]]))

\* sparse_vector_literal: sorted by index, which becomes a one-based position.
WriteLiteral ==
    /\ stage = "embedding"
    /\ LET sorted == ByIndex(vector)
       IN  literal' = [i \in DOMAIN vector |-> <<vector[sorted[i]][1] + 1, vector[sorted[i]][2]>>]
    /\ stage' = "literal"
    /\ UNCHANGED <<raw, merged, vector>>

SparseNext ==
    \/ MergeEntry \/ Normalise \/ WriteLiteral
    \/ stage \in {"literal", "rejected"} /\ UNCHANGED sparseVars

-----------------------------------------------------------------------------
(* Properties.                                                             *)

\* The sum of the values of the entries at the positions I: each value is as many units.
Units(entries, I) == UNION {{i} \X (1..entries[i][2]) : i \in I}
SumAt(entries, I) == Cardinality(Units(entries, I))

\* "Fit FastEmbed indices into pgvector and merge rare hash collisions"
\* (hybrid_v1.py:62): the literal is one pgvector accepts (one-based positions,
\* each once, in order) and is the raw vector folded into the dimension, with
\* no weight lost or counted twice; no vector of the model is rejected.
LiteralIsTheVector ==
    /\ stage # "rejected"
    /\ stage = "literal" =>
        /\ \A i \in DOMAIN literal : literal[i][1] \in 1..Dimension
        /\ \A i, j \in DOMAIN literal : i < j => literal[i][1] < literal[j][1]
        /\ \A p \in 1..Dimension :
               SumAt(literal, {i \in DOMAIN literal : literal[i][1] = p})
                 = SumAt(raw, {i \in DOMAIN raw : raw[i][1] % Dimension = p - 1})
=============================================================================
