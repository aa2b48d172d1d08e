----------------------------- MODULE MCIngestion -----------------------------
(* Small instances of Ingestion for TLC.                                    *)
EXTENDS Ingestion, TLC

CONSTANTS e1, e2

\* Two releases with operators of their own; a run with one release has old.
TwoExtractors == [w \in {"old", "new"} |-> IF w = "old" THEN "tika@1" ELSE "tika@2"]
TwoChunkers == [w \in {"old", "new"} |-> "chunker@2"]
TwoEmbedders == [w \in {"old", "new"} |-> {"hybrid@1"}]
OldExtractor == [w \in {"old"} |-> "tika@1"]
OldChunker == [w \in {"old"} |-> "chunker@2"]
OldEmbedders == [w \in {"old"} |-> {"hybrid@1", "dense@1"}]

OneEmbedder == [w \in {"old"} |-> {"hybrid@1"}]

Ids == Permutations(TextId) \cup Permutations(EmbedRun)
=============================================================================
