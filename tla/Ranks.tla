-------------------------------- MODULE Ranks --------------------------------
(***************************************************************************)
(* Sorting by rank: what ORDER BY, row_number() and Python's sorts do to   *)
(* the rows they are given, without the algorithm that does it.            *)
(***************************************************************************)
EXTENDS Naturals, FiniteSets

\* The order of S by ascending keys, as the set of its pairs.
ByKey(S, key) == {p \in S \X S : key[p[1]] < key[p[2]]}

\* The place of x among S in an order of S, a set of pairs; the first place is 1.
PlaceIn(S, before, x) == Cardinality({y \in S : <<y, x>> \in before}) + 1

\* S in that order.
Ranked(S, before) == [k \in 1..Cardinality(S) |-> CHOOSE x \in S : PlaceIn(S, before, x) = k]
=============================================================================
