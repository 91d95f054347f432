-------------------------- MODULE MCRetrievalPipeline --------------------------
(***************************************************************************)
(* Instances of RetrievalPipeline for TLC: one URI that two tenants write, *)
(* contents of one and of two chunks, of which the legs rank the second    *)
(* differently.                                                            *)
(***************************************************************************)
EXTENDS RetrievalPipeline, TLC

MCUri == {"a.md"}
MCSourceTypeOf == [u \in MCUri |-> "markdown"]
MCVersion == {"one", "two"}
MCChunkCount == ("one" :> 1) @@ ("two" :> 2)
MCLexicalScore == ("one" :> (0 :> 1)) @@ ("two" :> ((0 :> 1) @@ (1 :> 2)))
MCVectorScore == ("one" :> (0 :> 2)) @@ ("two" :> ((0 :> 2) @@ (1 :> 0)))

Args(mode, k, t, closed, explain) ==
  [mode |-> mode, top_k |-> k, tenant |-> t, source_type |-> None,
   fail_closed |-> closed, explain |-> explain]

MCArguments ==
  { Args("hybrid", 5, "acme", FALSE, FALSE),
    Args("hybrid", 2, None, TRUE, FALSE),
    [Args("lexical", 0, Blank, FALSE, FALSE) EXCEPT !.source_type = "markdown"],
    Args("vector", 3, "acme", TRUE, TRUE),
    Args("semantic", 3, "acme", FALSE, FALSE),
    Args("hybrid", 3, Malformed, FALSE, FALSE) }

MCSettings ==
  { [reranker |-> "none", row_security |-> FALSE],
    [reranker |-> "none", row_security |-> TRUE],
    [reranker |-> "cohere", row_security |-> FALSE] }
NeuralSettings == { [reranker |-> "cross_encoder", row_security |-> FALSE] }
===============================================================================
