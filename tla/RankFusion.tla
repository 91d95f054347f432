------------------------------ MODULE RankFusion ------------------------------
(***************************************************************************)
(* reciprocal_rank_fusion (src/src/knowledge_fabric/fusion/rrf.py) as a    *)
(* definition: what the fused list is, not how the loops build it.  The    *)
(* module Evaluation runs the loops and compares.                          *)
(*                                                                         *)
(* A leg is a sequence of hits, records with a chunk and a score, best     *)
(* first and without repetition.  A weighted rank w / (k + rank) is kept   *)
(* as a fraction <<numerator, denominator>>: exact where the code rounds.  *)
(***************************************************************************)
EXTENDS Naturals, Sequences, FiniteSets

CONSTANTS
  RrfK,           \* k, 60 by default
  LexicalWeight,
  VectorWeight

ASSUME FusionAssumption ==
  RrfK \in Nat /\ LexicalWeight \in Nat /\ VectorWeight \in Nat

ChunksIn(leg) == { leg[i].chunk : i \in DOMAIN leg }
RankIn(leg, c) == CHOOSE i \in DOMAIN leg : leg[i].chunk = c

Plus(p, q) == <<p[1] * q[2] + q[1] * p[2], p[2] * q[2]>>
Exceeds(p, q) == p[1] * q[2] > q[1] * p[2]

\* What a leg adds to the score of a chunk.
Term(leg, c, weight) ==
  IF c \in ChunksIn(leg) THEN <<weight, RrfK + RankIn(leg, c)>> ELSE <<0, 1>>

FusedScore(lexical, vector, c) ==
  Plus(Term(lexical, c, LexicalWeight), Term(vector, c, VectorWeight))

\* The hit that stands for a chunk, and its place in the dictionary, come from
\* the lexical leg when the chunk is in both.
HitScore(lexical, vector, c) ==
  IF c \in ChunksIn(lexical) THEN lexical[RankIn(lexical, c)].score
  ELSE vector[RankIn(vector, c)].score
Place(lexical, vector, c) ==
  IF c \in ChunksIn(lexical) THEN RankIn(lexical, c)
  ELSE Len(lexical) + RankIn(vector, c)

\* sorted(key=(fused_score, hit.score), reverse=True): stable, so that full
\* ties stay in the order of the dictionary.
Precedes(lexical, vector, c, d) ==
  LET fused(x) == FusedScore(lexical, vector, x)
      score(x) == HitScore(lexical, vector, x)
      place(x) == Place(lexical, vector, x)
  IN  \/ Exceeds(fused(c), fused(d))
      \/ /\ ~ Exceeds(fused(d), fused(c))
         /\ \/ score(c) > score(d)
            \/ score(c) = score(d) /\ place(c) < place(d)

\* The fused lists of two legs, as sequences of chunks: Precedes is a total
\* order, so there is exactly one.
Fusions(lexical, vector) ==
  LET all == ChunksIn(lexical) \union ChunksIn(vector)
  IN  { f \in [1 .. Cardinality(all) -> all] :
          \A i, j \in DOMAIN f : i < j => Precedes(lexical, vector, f[i], f[j]) }
===============================================================================
