------------------------------- MODULE Search -------------------------------
(***************************************************************************)
(* One query (src/api.py, POST /query) over the embeddings that runs store *)
(* and deletions remove while it is answered.  It asks the database once   *)
(* for each embedder in its scope; each answer is two rankings fused       *)
(* (src/store/vectors.py, search), and those of a release's embedders are  *)
(* merged (search_release).                                                *)
(*                                                                         *)
(* Distances appear as the order they put the chunks in, ties broken as    *)
(* the database happens to break them.  Scores are exact: Unit times       *)
(* 1/(k + rank), Unit being a number that every k + rank divides.          *)
(***************************************************************************)
EXTENDS Ranks, Functions, SequencesExt

CONSTANTS
    Chunk,                \* chunk ids: numbers, for ORDER BY chunk_id
    DocumentOf,           \* the document of each chunk
    ReleaseEmbedders,     \* the active release's embedders, a sequence
    Indexings,            \* what each embedder may have embedded when the query begins
    Limits,               \* limits a query may have
    CandidateMultiplier,  \* CONFIG["candidates"] of the embedder
    CandidateMinimum,
    FusionK,              \* CONFIG["fusion"]["k"]
    Unit                  \* scores are multiples of 1/Unit

Embedder == ToSet(ReleaseEmbedders)

ASSUME SearchAssumption ==
    /\ Chunk \subseteq Nat /\ IsFiniteSet(Chunk)
    /\ ReleaseEmbedders \in Seq(Embedder)
    /\ Indexings \subseteq [Embedder -> SUBSET Chunk]
    /\ Limits \subseteq Nat \ {0}
    /\ {CandidateMultiplier, CandidateMinimum, FusionK, Unit} \subseteq Nat \ {0}
    /\ \A n \in 1..Cardinality(Chunk) : Unit % (FusionK + n) = 0

VARIABLES
    nearest,    \* embedder -> its dense and sparse order of all chunks
    indexed,    \* embedder -> chunks it has embedded
    published,  \* published documents
    limit,      \* the query's limit
    scope,      \* embedders the query searches, in order
    named,      \* does the query name its embedder
    results,    \* what each search so far returned
    seen,       \* what each search so far ranked (history)
    answer      \* <<the query's results>>, once it has them

searchVars == <<nearest, indexed, published, limit, scope, named, results, seen, answer>>

-----------------------------------------------------------------------------

Documents == {DocumentOf[c] : c \in Chunk}
ChunksOf(d) == {c \in Chunk : DocumentOf[c] = d}
NoAnswer == <<>>

Smaller(a, b) == IF a < b THEN a ELSE b
Larger(a, b) == IF a > b THEN a ELSE b
First(s, n) == SubSeq(s, 1, Smaller(n, Len(s)))

\* Mutant: the minimum alone.
CandidatesFixed == CandidateMinimum

\* search_options: how many of each ranking are fused.
Candidates == Larger(limit * CandidateMultiplier, CandidateMinimum)

\* row_number() OVER (ORDER BY distance) among the visible chunks.
Rank(order, visible, c) == PlaceIn(visible, ByKey(visible, order), c)

\* One ranking: the candidates' LIMIT cuts it.
Ranking(order, visible) == {c \in visible : Rank(order, visible, c) <= Candidates}

\* Mutant: a chunk that is missing from a ranking has rank 0 in it.
ShareOfRankZero(order, visible, c) ==
    IF c \in Ranking(order, visible) THEN Unit \div (FusionK + Rank(order, visible, c))
    ELSE Unit \div FusionK

\* COALESCE(1.0 / (k + rank), 0).
Share(order, visible, c) ==
    IF c \in Ranking(order, visible) THEN Unit \div (FusionK + Rank(order, visible, c)) ELSE 0

\* The full outer join of the two rankings.
Joined(m, visible) ==
    {[chunk |-> c,
      score |-> Share(nearest[m].dense, visible, c) + Share(nearest[m].sparse, visible, c)] :
        c \in Ranking(nearest[m].dense, visible) \cup Ranking(nearest[m].sparse, visible)}

\* It, by score and then by chunk_id.
Fused(m, visible) ==
    LET joined == Joined(m, visible)
    IN  Ranked(joined, {p \in joined \X joined :
                            \/ p[1].score > p[2].score
                            \/ p[1].score = p[2].score /\ p[1].chunk < p[2].chunk})

\* The stable sort by score of all hits, found[i][k] being the k-th of the i-th search.
Sorted(found) ==
    LET at == UNION {{i} \X DOMAIN found[i] : i \in DOMAIN found}
        score(p) == found[p[1]][p[2]].score
        order == Ranked(at, {pair \in at \X at :
                     LET p == pair[1]  q == pair[2]
                     IN  \/ score(p) > score(q)
                         \/ score(p) = score(q) /\ (p[1] < q[1] \/ (p[1] = q[1] /\ p[2] < q[2]))})
    IN  [k \in DOMAIN order |-> found[order[k][1]][order[k][2]]]

\* best.setdefault: the first hit of each chunk.
FirstOfEach(hits) ==
    LET firsts == {i \in DOMAIN hits : \A j \in 1..(i - 1) : hits[j].chunk # hits[i].chunk}
        order == Ranked(firsts, ByKey(firsts, [i \in firsts |-> i]))
    IN  [k \in DOMAIN order |-> hits[order[k]]]

\* Mutant: the limit is applied while a chunk may still be there twice.
MergeCutFirst(found) == FirstOfEach(First(Sorted(found), limit))

\* search_release.
Merge(found) == First(FirstOfEach(Sorted(found)), limit)

-----------------------------------------------------------------------------

\* The order a query's distances put the chunks in.
Orders == Bijection(Chunk, 1..Cardinality(Chunk))

SearchInit ==
    /\ nearest \in [Embedder -> [dense : Orders, sparse : Orders]]
    /\ indexed \in Indexings
    /\ published = {}
    /\ limit \in Limits
    /\ \/ named = FALSE /\ scope = ReleaseEmbedders
       \/ named = TRUE /\ scope \in {<<m>> : m \in Embedder}
    /\ results = <<>> /\ seen = <<>> /\ answer = NoAnswer

\* One embedder is asked: a query of one statement, on one snapshot.
SearchEmbedder ==
    LET m == scope[Len(results) + 1]
        visible == {c \in indexed[m] : DocumentOf[c] \in published}
    IN  /\ Len(results) < Len(scope)
        /\ results' = Append(results, First(Fused(m, visible), limit))
        /\ seen' = Append(seen, visible)
        /\ UNCHANGED <<nearest, indexed, published, limit, scope, named, answer>>

\* The query returns its only search's hits, or the merge of the release's.
Answer ==
    /\ Len(results) = Len(scope)
    /\ answer = NoAnswer
    /\ answer' = <<IF named THEN results[1] ELSE Merge(results)>>
    /\ UNCHANGED <<nearest, indexed, published, limit, scope, named, results, seen>>

\* Meanwhile a document is published, or deleted with its embeddings.
PublishDocument ==
    /\ answer = NoAnswer
    /\ \E d \in Documents \ published : published' = published \cup {d}
    /\ UNCHANGED <<nearest, indexed, limit, scope, named, results, seen, answer>>

DeleteDocument ==
    /\ answer = NoAnswer
    /\ \E d \in published :
           /\ published' = published \ {d}
           /\ indexed' = [m \in Embedder |-> indexed[m] \ ChunksOf(d)]
    /\ UNCHANGED <<nearest, limit, scope, named, results, seen, answer>>

SearchNext ==
    \/ SearchEmbedder \/ Answer \/ PublishDocument \/ DeleteDocument
    \/ answer # NoAnswer /\ UNCHANGED searchVars

-----------------------------------------------------------------------------
(* Properties.                                                             *)

Answered == answer # NoAnswer
Hits == answer[1]
Ahead(order, c, d) == order[c] < order[d]

\* "Each embedder ranks and fuses over its own embeddings ... the merged list
\* keeps each chunk once, at its best score" (src/api.py:50): cutting every
\* search at the limit before they are merged loses nothing.
BestScores ==
    LET scored == UNION {ToSet(Fused(scope[i], seen[i])) : i \in DOMAIN seen}
        best(c) == CHOOSE h \in scored :
                       h.chunk = c /\ \A g \in scored : g.chunk = c => g.score <= h.score
    IN  Answered =>
        /\ \A i, j \in DOMAIN Hits :
               i < j => Hits[i].chunk # Hits[j].chunk /\ Hits[i].score >= Hits[j].score
        /\ \A i \in DOMAIN Hits : Hits[i] = best(Hits[i].chunk)
        /\ \A h \in scored :
               (\A i \in DOMAIN Hits : Hits[i].chunk # h.chunk) =>
                   /\ Len(Hits) = limit
                   /\ \A i \in DOMAIN Hits : Hits[i].score >= h.score

\* A chunk that is nearer both ways, to every embedder that sees the other, is
\* never missing behind it: cutting the rankings at the candidates is harmless.
NearerComesFirst ==
    Answered =>
        \A c \in Chunk, j \in DOMAIN Hits :
            LET d == Hits[j].chunk
                nearer(i) == /\ c \in seen[i]
                             /\ Ahead(nearest[scope[i]].dense, c, d)
                             /\ Ahead(nearest[scope[i]].sparse, c, d)
            IN  (\A i \in DOMAIN seen : d \in seen[i] => nearer(i)) =>
                    \E k \in 1..(j - 1) : Hits[k].chunk = c

\* A query has as many results as it asked for, or all there are: the candidates
\* are never fewer than the limit, and no chunk takes two places.
LimitIsFilled ==
    Answered => Len(Hits) = Smaller(limit, Cardinality(UNION ToSet(seen)))
=============================================================================
