------------------------- MODULE MCEmbeddingMigration -------------------------
(***************************************************************************)
(* Instances of EmbeddingMigration for TLC.  Two models share a dimension  *)
(* and a third has another; contents share a text at different indices,    *)
(* and one is empty.                                                       *)
(***************************************************************************)
EXTENDS EmbeddingMigration, TLC

MCModelDim == ("minilm" :> 384) @@ ("e5" :> 384) @@ ("nomic" :> 768)

\* Documents of two tenants are ingested again, by providers of both dimensions,
\* and with empty contents, while two operators re-embed, over all chunks and over
\* one tenant, and one of them searches; or while the schema is resized back and
\* forth, also to dimensions it cannot have, and a server's health is asked for.
OperatorSession == {"cli", "op", "cron"}
OperatorCalls ==
  [s \in OperatorSession |->
     CASE s = "cli" -> { Replace("a.md", c, "default", "minilm") :
                           c \in {<< >>, <<"x", "y">>, <<"y">>} }
                       \union {Replace("a.md", <<"x", "y">>, "default", "nomic"),
                               Replace("a.md", <<"x">>, "default", None)}
       [] s = "op"  -> {Reembed("default", "e5"), Reembed("default", "nomic"),
                        Replace("b.md", <<"x">>, "acme", None), Search("nomic"),
                        HealthCheck("nomic")}
       [] OTHER     -> {Reembed("acme", "minilm"), Reembed("default", "minilm"),
                        Replace("b.md", <<"x">>, "acme", "minilm"),
                        SetDimension(384), SetDimension(768),
                        SetDimension(3072), SetDimension(0)}]

\* An ingestion with one provider beside a re-embedding with another.
MigrationSession == {"cli", "op"}
MigrationCalls ==
  [s \in MigrationSession |->
     IF s = "cli" THEN {Replace("a.md", <<"x">>, "default", "minilm")}
     ELSE {Reembed("default", "nomic")}]
===============================================================================
