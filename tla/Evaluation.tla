------------------------------- MODULE Evaluation -------------------------------
(***************************************************************************)
(* RetrievalEvaluationRunner (src/src/knowledge_fabric/evaluation/         *)
(* runner.py): a dataset of queries is retrieved in each mode from the     *)
(* InMemoryEvaluationStore through the pipeline, scored, averaged, also by *)
(* category, put to the quality gates of the command line, and printed and *)
(* written as it asks.  The loops of reciprocal_rank_fusion are run one    *)
(* hit at a time.                                                          *)
(*                                                                         *)
(* A metric is a fraction <<numerator, denominator>>.  The discount        *)
(* 1 / log2(rank + 1) of NDCG is a decreasing sequence of numbers on some  *)
(* scale: what is checked holds for any.  So are the gains 2^grade - 1,    *)
(* which are no integers when a grade is negative.                         *)
(***************************************************************************)
EXTENDS RankFusion, Integers, FiniteSetsExt, Functions

CONSTANTS
  Datasets,    \* what is evaluated: [corpus, queries]
  ModeLists,   \* sequences of modes
  Thresholds,  \* quality gates: [mrr, recall, ndcg], each a fraction or None
  OutputLists, \* what is printed and written at the end: sequences of outputs
  TopK,
  Discount,    \* [1 .. TopK -> Nat], decreasing
  Unit,        \* the gain of grade 1
  None

\* A query has a lexical score for each chunk of the corpus; its words that
\* overlap with none of a chunk's give 0.  Any chunk may be graded, also below 0.
IsQuery(q, size) ==
  /\ q.lexical \in Seq(Nat) /\ Len(q.lexical) = size
  /\ IsFiniteSet(q.relevant) /\ \A c \in DOMAIN q.graded : q.graded[c] \in Int

\* Every chunk has a positive vector score.  A mode of another name raises.
ASSUME EvaluationAssumption ==
  /\ \A d \in Datasets :
       /\ d.corpus \in Seq(Nat \ {0})
       /\ d.queries \in Seq(Range(d.queries))
       /\ \A i \in DOMAIN d.queries : IsQuery(d.queries[i], Len(d.corpus))
  /\ ModeLists \subseteq Seq({"lexical", "vector", "hybrid"})
  /\ \A o \in OutputLists : o \in Seq({"console", "json", "markdown"})
  /\ Unit \in Nat \ {0}
  /\ TopK \in Nat \ {0} /\ Discount \in [1 .. TopK -> Nat]
  /\ \A i \in 2 .. TopK : Discount[i] < Discount[i - 1]

VARIABLES
  dataset, modes, gates, outputs,  \* the inputs
  stage, turn, number,    \* where the loops are: mode, query
  lexical, vector,        \* the legs of the current retrieval
  combined, next,         \* the dictionary of the fusion, in order, and the next hit
  ranked,                 \* the chunk ids of the answer
  scored,                 \* the metrics of every query scored so far
  report,                 \* [mode -> overall and by category]
  written,                \* how many of the outputs were made
  exit

input == <<dataset, modes, gates, outputs>>
vars  == <<input, stage, turn, number, lexical, vector, combined, next, ranked, scored,
           report, written, exit>>

Query == dataset.queries[number]
CurrentMode == modes[turn]
AtMost(n, s) == SubSeq(s, 1, IF Len(s) < n THEN Len(s) ELSE n)

-------------------------------------------------------------------------------
(* The store and the fusion *)

\* hits.sort(key=score, reverse=True)[:top_k]: stable, in the order of the corpus.
Search(score) ==
  LET S == { i \in DOMAIN dataset.corpus : score[i] > 0 }
      ahead(i, j) == score[i] > score[j] \/ (score[i] = score[j] /\ i < j)
      order == CHOOSE f \in [1 .. Cardinality(S) -> S] :
                 \A i, j \in DOMAIN f : i < j => ahead(f[i], f[j])
  IN  AtMost(TopK, [i \in DOMAIN order |-> [chunk |-> order[i], score |-> score[order[i]]]])

\* Mutant: a chunk of both legs keeps the score of the second.
Increase_Replaces(entry, term) == [entry EXCEPT !.fused = term]
Increase(entry, term) == [entry EXCEPT !.fused = Plus(@, term)]

\* sorted(combined.values(), key=(fused_score, hit.score), reverse=True)
Sorted ==
  LET ahead(m, n) ==
        LET c == combined[m]
            d == combined[n]
        IN  \/ Exceeds(c.fused, d.fused)
            \/ /\ ~ Exceeds(d.fused, c.fused)
               /\ c.score > d.score \/ (c.score = d.score /\ m < n)
      order == CHOOSE f \in [DOMAIN combined -> DOMAIN combined] :
                 \A i, j \in DOMAIN f : i < j => ahead(f[i], f[j])
  IN  [i \in DOMAIN order |-> combined[order[i]].chunk]

-------------------------------------------------------------------------------
(* The metrics *)

Found(k, relevant) == Cardinality({ i \in DOMAIN AtMost(k, ranked) : ranked[i] \in relevant })

Recall(relevant) == <<Found(TopK, relevant), Cardinality(relevant)>>
Precision(relevant) ==
  LET k == IF TopK < 5 THEN TopK ELSE 5
  IN  <<Found(k, relevant), k>>

ReciprocalRank(relevant) ==
  LET hits == { i \in DOMAIN ranked : ranked[i] \in relevant }
  IN  IF hits = {} THEN <<0, 1>> ELSE <<1, Min(hits)>>

\* 2^grade - 1, in units of the gain of grade 1.
GainOf(grade) ==
  IF grade >= 0 THEN Unit * (2 ^ grade - 1) ELSE (Unit \div 2 ^ (-grade)) - Unit

\* Mutant: in the ideal list a relevant chunk without a grade gains nothing.
IdealGain_Graded(query, c) ==
  IF c \in DOMAIN query.graded THEN GainOf(query.graded[c]) ELSE 0

IdealGain(query, c) ==
  IF c \in DOMAIN query.graded THEN GainOf(query.graded[c]) ELSE Unit

\* Any graded chunk counts, one without a grade only when it is relevant.
Gain(query, c) ==
  IF c \in DOMAIN query.graded THEN GainOf(query.graded[c])
  ELSE IF c \in query.relevant THEN Unit ELSE 0

\* dcg over idcg: the ideal is the best order of the RELEVANT chunks.  An ideal
\* that gains nothing, or less, makes the metric 0.
Ndcg(query) ==
  LET top == AtMost(TopK, ranked)
      dcg == SumFunction([i \in DOMAIN top |-> Gain(query, top[i]) * Discount[i]])
      n == IF Cardinality(query.relevant) < TopK THEN Cardinality(query.relevant) ELSE TopK
      best == CHOOSE f \in [1 .. Cardinality(query.relevant) -> query.relevant] :
                /\ \A c \in query.relevant : \E i \in DOMAIN f : f[i] = c
                /\ \A i, j \in DOMAIN f :
                     i < j => IdealGain(query, f[i]) >= IdealGain(query, f[j])
      idcg == SumFunction([i \in 1 .. n |-> IdealGain(query, best[i]) * Discount[i]])
  IN  IF idcg <= 0 THEN <<0, 1>> ELSE <<dcg, idcg>>

Answerable(query) == query.relevant # {}

\* What is recorded of one query in one turn of the loop over the modes, whose
\* lists are new in each turn.
Entry ==
  [turn |-> turn, category |-> Query.category, answerable |-> Answerable(Query),
   metrics |-> IF Answerable(Query)
                 THEN [recall |-> Recall(Query.relevant), precision |-> Precision(Query.relevant),
                       mrr |-> ReciprocalRank(Query.relevant), ndcg |-> Ndcg(Query)]
                 ELSE [none |-> IF ranked = <<>> THEN <<1, 1>> ELSE <<0, 1>>]]

Sum(fractions) == FoldFunction(Plus, <<0, 1>>, fractions)

\* The mean of a metric over the entries at some places; 0 of none.
Mean(places, metric) ==
  LET sum == Sum([i \in places |-> scored[i].metrics[metric]])
  IN  IF places = {} THEN <<0, 1>> ELSE <<sum[1], sum[2] * Cardinality(places)>>

Means(places) ==
  LET answered == { i \in places : scored[i].answerable }
  IN  [recall |-> Mean(answered, "recall"), precision |-> Mean(answered, "precision"),
       mrr |-> Mean(answered, "mrr"), ndcg |-> Mean(answered, "ndcg"),
       none |-> Mean(places \ answered, "none"),
       count |-> Cardinality(places), answerable |-> Cardinality(answered)]

-------------------------------------------------------------------------------
\* The loop over the queries, or its end when there are none.
Queries == IF dataset.queries = <<>> THEN "summarize" ELSE "retrieve"

Init ==
  /\ dataset \in Datasets /\ modes \in ModeLists /\ gates \in Thresholds
  /\ outputs \in OutputLists
  /\ stage = (IF modes = <<>> THEN "gate" ELSE Queries) /\ turn = 1 /\ number = 1
  /\ lexical = <<>> /\ vector = <<>>
  /\ combined = <<>> /\ next = 1 /\ ranked = <<>>
  /\ scored = <<>> /\ report = << >> /\ written = 0 /\ exit = None

\* The legs of the mode, on a store that does not fail.
Retrieve ==
  /\ stage = "retrieve"
  /\ lexical' = IF CurrentMode = "vector" THEN <<>> ELSE Search(Query.lexical)
  /\ vector' = IF CurrentMode = "lexical" THEN <<>> ELSE Search(dataset.corpus)
  /\ combined' = <<>> /\ next' = 1
  /\ IF CurrentMode = "hybrid" THEN stage' = "fuse" /\ UNCHANGED ranked
     ELSE /\ stage' = "score"
          /\ ranked' = [i \in DOMAIN (lexical' \o vector') |-> (lexical' \o vector')[i].chunk]
  /\ UNCHANGED <<input, turn, number, scored, report, written, exit>>

\* _accumulate: one hit of the lexical leg, or then of the vector leg.
Accumulate ==
  LET first == next <= Len(lexical)
      rank  == IF first THEN next ELSE next - Len(lexical)
      hit   == IF first THEN lexical[rank] ELSE vector[rank]
      term  == <<IF first THEN LexicalWeight ELSE VectorWeight, RrfK + rank>>
      known == { n \in DOMAIN combined : combined[n].chunk = hit.chunk }
  IN  /\ stage = "fuse" /\ next <= Len(lexical) + Len(vector)
      /\ next' = next + 1
      /\ combined' =
           IF known = {} THEN Append(combined, [chunk |-> hit.chunk, score |-> hit.score, fused |-> term])
           ELSE [n \in DOMAIN combined |->
                   IF n \in known THEN Increase(combined[n], term) ELSE combined[n]]
      /\ UNCHANGED <<input, stage, turn, number, lexical, vector, ranked, scored, report, written, exit>>

Fuse ==
  /\ stage = "fuse" /\ next > Len(lexical) + Len(vector)
  /\ ranked' = AtMost(TopK, Sorted)
  /\ stage' = "score"
  /\ UNCHANGED <<input, turn, number, lexical, vector, combined, next, scored, report,
                 written, exit>>

\* One query is scored; the last one of a mode ends with the mode's summary.
Score ==
  /\ stage = "score"
  /\ scored' = Append(scored, Entry)
  /\ IF number < Len(dataset.queries)
       THEN stage' = "retrieve" /\ number' = number + 1
       ELSE stage' = "summarize" /\ UNCHANGED number
  /\ UNCHANGED <<input, turn, lexical, vector, combined, next, ranked, report, written, exit>>

\* Mutant: a category is summarized over all modes.
InCategory_AllModes(i, category) == scored[i].category = category
InCategory(i, category) ==
  scored[i].turn = turn /\ scored[i].category = category

\* A mode given twice is evaluated twice; the second report takes the place of
\* the first.
Summarize ==
  LET places == { i \in DOMAIN scored : scored[i].turn = turn }
      categories == { scored[i].category : i \in places }
  IN  /\ stage = "summarize"
      /\ report' = [m \in DOMAIN report \union {CurrentMode} |->
           IF m # CurrentMode THEN report[m]
           ELSE [overall |-> Means(places),
                 by_category |-> [c \in categories |->
                    Means({ i \in DOMAIN scored : InCategory(i, c) })]]]
      /\ IF turn < Len(modes)
           THEN stage' = Queries /\ turn' = turn + 1 /\ number' = 1
           ELSE stage' = "gate" /\ UNCHANGED <<turn, number>>
      /\ UNCHANGED <<input, lexical, vector, combined, next, ranked, scored, written, exit>>

\* Mutant: a mode that was not evaluated fails no gate.
GateFails_Absent(metric) ==
  /\ "hybrid" \in DOMAIN report
  /\ gates[metric] # None
  /\ Exceeds(gates[metric], report["hybrid"].overall[metric])

\* check_quality_gates: always of the hybrid mode.
GateFails(metric) ==
  \/ "hybrid" \notin DOMAIN report
  \/ /\ gates[metric] # None
     /\ Exceeds(gates[metric], report["hybrid"].overall[metric])

\* The end of main: the outputs are made one after the other, whatever the gates
\* say.  One that cannot be made raises, and the interpreter exits with 1 too.
Gate ==
  /\ stage = "gate"
  /\ written' \in 0 .. Len(outputs)
  /\ exit' = IF \/ written' < Len(outputs)
                 \/ \E metric \in {"mrr", "recall", "ndcg"} : GateFails(metric)
               THEN 1 ELSE 0
  /\ stage' = "done"
  /\ UNCHANGED <<input, turn, number, lexical, vector, combined, next, ranked, scored, report>>

Done == stage = "done" /\ UNCHANGED vars

Next == Retrieve \/ Accumulate \/ Fuse \/ Score \/ Summarize \/ Gate \/ Done

Spec == Init /\ [][Next]_vars

-------------------------------------------------------------------------------
(* Properties *)

\* The two loops and the sort of the fusion yield the list that RankFusion
\* defines: weighted reciprocal ranks, ties by the hit's own score and then by
\* the order in which the legs were added.
FusionIsReciprocalRank ==
  stage = "score" /\ CurrentMode = "hybrid" =>
    \E f \in Fusions(lexical, vector) : ranked = AtMost(TopK, f)

\* NDCG stays between 0 and 1 when only relevant chunks are graded, and none
\* below 0: ndcg_at_k against its normalization.  (A graded chunk outside the
\* relevant ones gains in the numerator alone, and the ideal may have to
\* take a chunk graded below 0 that the answer leaves out.)
NdcgIsProportion ==
  /\ stage = "score" /\ Answerable(Query)
  /\ DOMAIN Query.graded \subseteq Query.relevant
  /\ \A c \in DOMAIN Query.graded : Query.graded[c] >= 0
  => LET n == Ndcg(Query) IN 0 <= n[1] /\ n[1] <= n[2]

\* The categories of a mode's report partition it: their counts add up to the
\* mode's, and their means, weighted by the answerable queries that they are
\* means of, to the mode's mean.
CategoriesAddUp ==
  \A m \in DOMAIN report :
    LET all  == report[m].overall
        cats == report[m].by_category
        total(f) == SumFunction([c \in DOMAIN cats |-> cats[c][f]])
        weighted(f) ==
          Sum([c \in DOMAIN cats |-> <<cats[c][f][1] * cats[c].answerable, cats[c][f][2]>>])
    IN  /\ all.count = Len(dataset.queries)
        /\ total("count") = all.count /\ total("answerable") = all.answerable
        /\ \A f \in {"mrr", "recall"} :
             weighted(f)[1] * all[f][2] = all[f][1] * all.answerable * weighted(f)[2]

\* The command succeeds only if the hybrid mode was evaluated, each gate that was
\* set is met by the mean over its answerable queries and each output asked for
\* was made - and then always.
ExitCodeIsVerdict ==
  LET hybrid  == { t \in DOMAIN modes : modes[t] = "hybrid" }
      entries == { i \in DOMAIN scored : scored[i].turn = Max(hybrid) /\ scored[i].answerable }
  IN  exit # None =>
        (exit = 0 <=>
          /\ hybrid # {}
          /\ \A f \in {"mrr", "recall", "ndcg"} :
               gates[f] # None => ~ Exceeds(gates[f], Mean(entries, f))
          /\ written = Len(outputs))
===============================================================================
