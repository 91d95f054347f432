--------------------------- MODULE MCKnowledgeStore ---------------------------
(***************************************************************************)
(* Instances of KnowledgeStore for TLC.  Two URIs of different source      *)
(* types, two tenants, and three contents: one that yields no chunk (an    *)
(* empty file), one that yields one chunk and one that yields two.         *)
(***************************************************************************)
EXTENDS KnowledgeStore, TLC

MCUri == {"a.md", "b.pdf"}
MCSourceTypeOf == ("a.md" :> "markdown") @@ ("b.pdf" :> "pdf")
MCVersion == {"empty", "one", "two"}
MCChunkCount == ("empty" :> 0) @@ ("one" :> 1) @@ ("two" :> 2)

\* Two processes ingest the same URI while an operator deletes it.
OverlapSession == {"cli", "cron", "admin"}
OverlapCalls ==
  [s \in OverlapSession |->
     CASE s = "cli"  -> {Ingest("a.md", "acme", "two"), Ingest("a.md", "acme", "empty")}
       [] s = "cron" -> {Ingest("a.md", "globex", "one"), Ingest("a.md", "acme", "two")}
       [] OTHER      -> {DeleteDocument("a.md", "acme"), DeleteDocument("a.md", None)}]

\* Two processes keep ingesting one URI, one of them with other contents for
\* another tenant and the other also a second URI, while the operator deletes
\* the document, or all of a tenant: each can wait for each other, on chunks, on
\* keys and on the document, and a purge for both of them.
ContentionCalls ==
  [s \in OverlapSession |->
     CASE s = "cli"  -> {Ingest("a.md", "acme", "two"), Ingest("a.md", "globex", "one")}
       [] s = "cron" -> {Ingest("a.md", "acme", "one"), Ingest("b.pdf", "acme", "one")}
       [] OTHER      -> {DeleteDocument("a.md", "acme"), PurgeTenant("acme")}]

\* Retrievals are logged, with and without a tenant, while tenants are purged and
\* documents deleted by their source.
PurgeSession == {"mcp", "cli", "admin"}
PurgeCalls ==
  [s \in PurgeSession |->
     CASE s = "mcp" -> {LogRetrieval("globex"), LogRetrieval("acme"), LogRetrieval(None)}
       [] s = "cli" -> {Ingest("a.md", "acme", "two"), Ingest("b.pdf", "acme", "one")}
       [] OTHER     -> {PurgeTenant("acme"), DeleteBySource("markdown", "acme")}]
===============================================================================
