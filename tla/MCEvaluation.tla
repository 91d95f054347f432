------------------------------ MODULE MCEvaluation ------------------------------
(***************************************************************************)
(* Datasets for TLC: a corpus of three chunks, given by their vector       *)
(* scores; two queries, the first with any lexical scores and any relevant *)
(* chunks, some of them graded, the second one of a few.                   *)
(***************************************************************************)
EXTENDS Evaluation, TLC

Id == 1 .. 3

FirstQuery ==
  { [category |-> "facts", lexical |-> l, relevant |-> r, graded |-> g] :
      l \in { <<0, 1, 2>>, <<2, 2, 1>>, <<0, 0, 1>>, <<0, 0, 0>> },
      r \in SUBSET Id,
      g \in { << >>, 2 :> 2, (1 :> 0) @@ (3 :> 1), (2 :> 1) @@ (3 :> -1) } }

SecondQuery ==
  { [category |-> c, lexical |-> <<1, 0, 1>>, relevant |-> r, graded |-> << >>] :
      c \in {"facts", "codes"}, r \in {{}, {2}, {1, 3}} }

MCDatasets ==
  { [corpus |-> v, queries |-> <<p, q>>] :
      v \in { <<1, 2, 3>>, <<2, 1, 2>> }, p \in FirstQuery, q \in SecondQuery }
  \union { [corpus |-> <<1, 2, 3>>, queries |-> <<>>] }

MCModeLists == { <<>>, <<"lexical", "hybrid">>, <<"vector">>, <<"hybrid", "hybrid">> }

NoGate == [mrr |-> None, recall |-> None, ndcg |-> None]
MCThresholds ==
  { NoGate, [NoGate EXCEPT !.mrr = <<1, 2>>],
    [NoGate EXCEPT !.recall = <<2, 3>>, !.ndcg = <<1, 2>>] }

MCOutputLists == { <<"console">>, <<"json", "markdown">> }

MCDiscount == <<1000, 631>>
===============================================================================
