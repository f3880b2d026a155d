----------------------------- MODULE Retrieval -----------------------------
(***************************************************************************)
(* The retrieval pipeline (src/orion/retrieval) in the mode the memories    *)
(* use, no_rerank without embeddings: metadata filter, recency, lexical     *)
(* ranking, reciprocal rank fusion, cut.  An entry is a record with its     *)
(* tags and the time of its last access; how well a text fits a query is a  *)
(* number the caller gives.                                                 *)
(***************************************************************************)
EXTENDS Naturals, Sequences, FiniteSets, Functions

CONSTANTS
  RrfK,          \* rrf_k
  AfterDense,    \* k_after_dense
  AfterRrf       \* k_after_rrf

ASSUME RetrievalAssumption == RrfK \in Nat \ {0} /\ AfterDense \in Nat /\ AfterRrf \in Nat

Most(a, b) == IF a > b THEN a ELSE b
Cut(seq, k) == SubSeq(seq, 1, IF k < Len(seq) THEN k ELSE Len(seq))

\* The k-th of S in an order.
Nth(order, S, k) == CHOOSE i \in S : Cardinality({j \in S : <<j, i>> \in order}) = k - 1

\* What seq holds at some of its positions, in the order of seq.
Picked(seq, at) ==
  [k \in 1..Cardinality(at) |-> seq[Nth({w \in at \X at : w[1] < w[2]}, at, k)]]

\* seq, without repetitions, sorted by a relation on its members: what is above
\* another comes first, the rest stays in its order.
Ahead(seq, above) ==
  {w \in (DOMAIN seq) \X (DOMAIN seq) :
     \/ <<seq[w[1]], seq[w[2]]>> \in above
     \/ <<seq[w[2]], seq[w[1]]>> \notin above /\ w[1] < w[2]}
Sorted(seq, above) == [k \in DOMAIN seq |-> seq[Nth(Ahead(seq, above), DOMAIN seq, k)]]

Pairs(seq) == Range(seq) \X Range(seq)
BestFirst(seq, score) == Sorted(seq, {w \in Pairs(seq) : score[w[1]] > score[w[2]]})

\* Every key of the filters must match, any of its values will do; an entry
\* without the key, or tagged "all", passes.
Matches(entry, filters) ==
  \A key \in DOMAIN filters \cap DOMAIN entry.tags :
    \E value \in entry.tags[key] : value = "all" \/ value \in filters[key]

\* No embeddings: every candidate, the last accessed first.
Dense(candidates) == BestFirst(candidates, [x \in Range(candidates) |-> x.last])

\* fit[x]: how well the text of x fits the query.
Lexical(dense, fit, k) == Cut(BestFirst(dense, fit), Most(AfterDense, k))

RankIn(ranking, x) == CHOOSE i \in DOMAIN ranking : ranking[i] = x

\* The sum of 1 / (RrfK + rank) over the two rankings, as a fraction; the second
\* may have been cut.
FusionScore(dense, lexical, x) ==
  LET a == RrfK + RankIn(dense, x)
  IN  IF x \in Range(lexical)
      THEN LET b == RrfK + RankIn(lexical, x) IN [num |-> a + b, den |-> a * b]
      ELSE [num |-> 1, den |-> a]

Fused(dense, lexical) ==
  LET score == [x \in Range(dense) |-> FusionScore(dense, lexical, x)]
  IN  Sorted(dense, {w \in Pairs(dense) :
        score[w[1]].num * score[w[2]].den > score[w[2]].num * score[w[1]].den})

\* retrieve: the k best, or fewer.
Retrieved(entries, filters, fit, k) ==
  LET dense == Dense(Picked(entries, {i \in DOMAIN entries : Matches(entries[i], filters)}))
      fused == Fused(dense, Lexical(dense, fit, k))
  IN  Cut(Cut(fused, Most(AfterRrf, k)), k)
=============================================================================
