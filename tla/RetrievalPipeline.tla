--------------------------- MODULE RetrievalPipeline ---------------------------
(***************************************************************************)
(* RetrievalPipeline (src/src/knowledge_fabric/retrieval/pipeline.py) over *)
(* PostgresRetrievalStore (retrieval/postgres.py), with its reranker and   *)
(* its audit log, beside processes that keep changing the corpus.          *)
(*                                                                         *)
(* Each leg is one SELECT on a connection of its own, so each reads a      *)
(* snapshot of its own; the corpus moves between them as AtomicCorpus      *)
(* says, which KnowledgeStore implements.  A chunk row stands for its own  *)
(* id: rows are inserted and deleted, never rewritten.                     *)
(*                                                                         *)
(* The lexical leg is exact.  The vector leg is not: its ORDER BY runs     *)
(* over an approximate index, whose candidates the filters thin out only   *)
(* afterwards, so it may miss any row.                                     *)
(*                                                                         *)
(* `seen` is history: the chunks that matched the request at some time     *)
(* since it was made; `steady` those that the exact leg matched all the    *)
(* time.                                                                   *)
(***************************************************************************)
EXTENDS RankFusion

CONSTANTS
  Uri, Tenant, Version, ChunkCount,
  SourceTypeOf,         \* [Uri -> source types]
  LexicalScore,         \* how well a chunk matches, by content and index;
  VectorScore,          \* 0: not at all (or it has no embedding)
  Arguments,            \* the arguments callers call the pipeline with
  Malformed, Blank,     \* a tenant argument that is refused; one of blanks
  MaxTopK,              \* KNOWLEDGE_MAX_TOP_K
  MaxRerankCandidates,  \* KNOWLEDGE_MAX_RERANK_CANDIDATES
  Settings,             \* what the server can be started with: RERANKER, and whether
                        \* its role is subject to row-level security
  MaxWrites,            \* bound: transactions that change the corpus
  MaxAsks,              \* bound: retrievals
  None

Mode == {"hybrid", "lexical", "vector"}

ASSUME PipelineAssumption ==
  /\ ChunkCount \in [Version -> Nat]
  /\ \A v \in Version : \A i \in 0 .. ChunkCount[v] - 1 :
       LexicalScore[v][i] \in Nat /\ VectorScore[v][i] \in Nat
  /\ MaxTopK \in Nat /\ MaxRerankCandidates \in Nat
  /\ MaxWrites \in Nat /\ MaxAsks \in Nat
  /\ Settings \subseteq [reranker : {"none", "cross_encoder", "cohere"},
                          row_security : BOOLEAN]
  /\ None \notin Tenant \union {"arguments", "leg", "reranker"}
  /\ Malformed \notin Tenant \union {None}

ASSUME ArgumentsAssumption ==
  \A a \in Arguments :
    /\ a.top_k \in Nat
    /\ a.tenant \in Tenant \union {None, Blank, Malformed}
    /\ a.explain \in BOOLEAN /\ a.fail_closed \in BOOLEAN

VARIABLES
  documents, chunks,  \* the committed corpus
  writes,             \* how many transactions have changed it
  settings,           \* what the server was started with
  asks,               \* how many retrievals have been made
  stage,              \* where the current one is
  request,            \* its arguments, cleaned; None before the first
  lexical, vector,    \* the hits of its legs
  status,             \* [leg -> "skipped", "ok" or "error"]
  package,            \* the evidence package it has built
  failure,            \* what it raised
  runs,               \* retrieval_runs (each with its audit event)
  seen, steady

corpus  == <<documents, chunks, writes>>
history == <<seen, steady>>
legs    == <<lexical, vector, status>>
vars    == <<documents, chunks, writes, settings, asks, stage, request, lexical,
             vector, status, package, failure, runs, seen, steady>>

Corpus == INSTANCE AtomicCorpus WITH
            documents <- documents, chunks <- chunks, CallId <- 1 .. MaxWrites,
            Uri <- Uri, Tenant <- Tenant, Version <- Version, ChunkCount <- ChunkCount

ChunkRow == { c \in [doc : 1 .. MaxWrites, index : Nat, version : Version,
                     tenant : Tenant, writer : 1 .. MaxWrites] :
                c.index < ChunkCount[c.version] }

-------------------------------------------------------------------------------
(* Arguments *)

Larger(a, b) == IF a > b THEN a ELSE b
Smaller(a, b) == IF a < b THEN a ELSE b

Valid(a) == a.mode \in Mode /\ a.tenant # Malformed

\* The arguments as the pipeline uses them; explain_retrieval passes no fail_closed.
Cleaned(a) ==
  [mode        |-> a.mode,
   top_k       |-> Larger(1, Smaller(a.top_k, MaxTopK)),
   tenant      |-> IF a.tenant \in Tenant THEN a.tenant ELSE None,
   source_type |-> a.source_type,
   fail_closed |-> a.fail_closed /\ ~ a.explain,
   audited     |-> ~ a.explain]

Request == { Cleaned(a) : a \in {x \in Arguments : Valid(x)} }
ASSUME NoneAssumption == None \notin Request

Limit == [r \in Request |-> Smaller(r.top_k, MaxRerankCandidates)]

-------------------------------------------------------------------------------
(* The two searches *)

\* Mutant: only documents have a policy.
Visible_DocumentPolicy(r, docs, chs) ==
  { c \in chs : \E d \in docs :
      /\ d.id = c.doc
      /\ r.source_type \in {None, SourceTypeOf[d.uri]}
      /\ r.tenant \in {None, d.tenant}
      /\ settings.row_security => d.tenant = r.tenant }

\* The rows of a search: the join, the application's filter, which looks at the
\* DOCUMENT's tenant, and the policies of both tables when they apply.
Visible(r, docs, chs) ==
  { c \in chs : \E d \in docs :
      /\ d.id = c.doc
      /\ r.source_type \in {None, SourceTypeOf[d.uri]}
      /\ r.tenant \in {None, d.tenant}
      /\ settings.row_security => d.tenant = r.tenant /\ c.tenant = r.tenant }

\* ts_rank_cd, or 1 - the cosine distance, of a row.
Score(leg, c) ==
  (IF leg = "lexical" THEN LexicalScore ELSE VectorScore)[c.version][c.index]

Matched(leg, S) == { c \in S : Score(leg, c) > 0 }

\* All chunks that match a request in a leg of its mode.
Matching(r, docs, chs) ==
  LET V == Visible(r, docs, chs)
  IN  (IF r.mode = "vector" THEN {} ELSE Matched("lexical", V)) \union
      (IF r.mode = "lexical" THEN {} ELSE Matched("vector", V))

\* Those of them that a search is bound to find: the ones of the exact leg.
Certain(r, docs, chs) ==
  IF r.mode = "vector" THEN {} ELSE Matched("lexical", Visible(r, docs, chs))

\* ORDER BY score DESC, c.id ASC: ids grow with the writing transactions.
Before(leg, c, d) ==
  \/ Score(leg, c) > Score(leg, d)
  \/ /\ Score(leg, c) = Score(leg, d)
     /\ c.writer < d.writer \/ (c.writer = d.writer /\ c.index < d.index)

\* The results an exact search can have (at most one: the order is total).
Best(leg, S, k) ==
  { [i \in DOMAIN s |-> [chunk |-> s[i], score |-> Score(leg, s[i])]] :
      s \in { t \in [1 .. Smaller(k, Cardinality(S)) -> S] :
                /\ \A i, j \in DOMAIN t : i < j => Before(leg, t[i], t[j])
                /\ \A c \in S : \/ \E i \in DOMAIN t : t[i] = c
                                \/ \A i \in DOMAIN t : Before(leg, t[i], c) } }

\* ORDER BY c.embedding <=> %s LIMIT %s over an IVFFlat or HNSW index: the best
\* of the rows that the scan comes by and the filters let through.
BestApproximately(leg, S, k) == UNION { Best(leg, R, k) : R \in SUBSET S }

-------------------------------------------------------------------------------
Init ==
  /\ Corpus!AInit
  /\ writes = 0
  /\ settings \in Settings
  /\ asks = 0
  /\ stage = "idle"
  /\ request = None
  /\ lexical = <<>> /\ vector = <<>>
  /\ status = [lexical |-> "skipped", vector |-> "skipped"]
  /\ package = None
  /\ failure = None
  /\ runs = {}
  /\ seen = {} /\ steady = {}

\* Another process commits a transaction.
Write ==
  /\ writes < MaxWrites
  /\ writes' = writes + 1
  /\ \/ \E t \in Tenant, v \in Version :
          \/ \E d \in documents : Corpus!UpdateDocument(d, t, v, writes')
          \/ \E u \in Uri : Corpus!RegisterDocument(u, t, v, writes')
          \/ \E d \in documents : Corpus!ReplaceChunksOf(d.id, v, t, writes')
     \/ \E d \in documents : Corpus!RemoveDocuments({d})
  /\ IF request = None THEN UNCHANGED history
     ELSE /\ seen' = seen \union Matching(request, documents', chunks')
          /\ steady' = steady \intersect Certain(request, documents', chunks')
  /\ UNCHANGED <<settings, asks, stage, request, legs, package, failure, runs>>

Over == stage \in {"idle", "answered", "failed"}

\* retrieve_with_trace is called, and cleans its arguments or refuses them.
Ask(a) ==
  /\ Over
  /\ asks < MaxAsks
  /\ asks' = asks + 1
  /\ lexical' = <<>> /\ vector' = <<>>
  /\ status' = [lexical |-> "skipped", vector |-> "skipped"]
  /\ package' = None
  /\ IF Valid(a)
       THEN /\ request' = Cleaned(a)
            /\ stage' = IF a.mode = "vector" THEN "vector" ELSE "lexical"
            /\ failure' = None
            /\ seen' = Matching(request', documents, chunks)
            /\ steady' = Certain(request', documents, chunks)
       ELSE /\ request' = None
            /\ stage' = "failed"
            /\ failure' = "arguments"
            /\ seen' = {} /\ steady' = {}
  /\ UNCHANGED <<corpus, settings, runs>>

Raise(what) == stage' = "failed" /\ failure' = what

AfterLexical == IF request.mode = "lexical" THEN "assemble" ELSE "vector"

SearchLexical ==
  /\ stage = "lexical"
  /\ lexical' \in Best("lexical",
                       Matched("lexical", Visible(request, documents, chunks)),
                       request.top_k)
  /\ status' = [status EXCEPT !.lexical = "ok"]
  /\ stage' = AfterLexical
  /\ UNCHANGED <<corpus, settings, asks, request, vector, package, failure, runs, history>>

\* The embedding of the query and the vector search, in one try block.
SearchVector ==
  /\ stage = "vector"
  /\ vector' \in BestApproximately("vector",
                      Matched("vector", Visible(request, documents, chunks)),
                      request.top_k)
  /\ status' = [status EXCEPT !.vector = "ok"]
  /\ stage' = "assemble"
  /\ UNCHANGED <<corpus, settings, asks, request, lexical, package, failure, runs, history>>

\* Mutant: a leg that fails with fail_closed is taken for one without results.
LegFails_Silently(leg, next) ==
  /\ stage = leg
  /\ status' = [status EXCEPT ![leg] = "ok"]
  /\ stage' = next
  /\ UNCHANGED <<corpus, settings, asks, request, lexical, vector, package,
                 failure, runs, history>>

\* A leg raises: the database, the provider, a vector of another dimension.
LegFails(leg, next) ==
  /\ stage = leg
  /\ status' = [status EXCEPT ![leg] = "error"]
  /\ IF request.fail_closed \/ request.mode = leg
       THEN Raise("leg")
       ELSE stage' = next /\ UNCHANGED failure
  /\ UNCHANGED <<corpus, settings, asks, request, lexical, vector, package, runs, history>>

-------------------------------------------------------------------------------
(* Fusion, reranking, packaging *)

Failed(leg) == status[leg] = "error"
Degraded == Failed("lexical") \/ Failed("vector")

Strategy ==
  CASE ~ Degraded -> request.mode
    [] Failed("vector") /\ ~ Failed("lexical") -> "degraded_lexical"
    [] Failed("lexical") /\ ~ Failed("vector") -> "degraded_vector"
    [] OTHER -> "failed"

\* A single leg is taken as it is; its order is that of its scores.
Listed(leg) == [i \in DOMAIN leg |-> leg[i].chunk]
Fused ==
  IF Strategy = "hybrid" THEN Fusions(lexical, vector)
  ELSE {Listed(lexical) \o Listed(vector)}

\* Mutant: the sources are the legs that were searched.
Sources_Searched(c) == { leg \in {"lexical", "vector"} : status[leg] = "ok" }

Sources(c) ==
  (IF c \in ChunksIn(lexical) THEN {"lexical"} ELSE {}) \union
  (IF c \in ChunksIn(vector) THEN {"vector"} ELSE {})

\* The rerankers that call a model read chunk_text, which the fused hits they
\* are given do not have; an empty list they return as it is.
RerankRaises(candidates) == settings.reranker # "none" /\ candidates # <<>>

FirstOf(s, n) == SubSeq(s, 1, Smaller(n, Len(s)))

\* build_evidence_package, of the hits the reranker keeps.
Package(fused) ==
  LET kept == FirstOf(FirstOf(fused, MaxRerankCandidates), request.top_k)
  IN  [items    |-> [i \in DOMAIN kept |->
                       [chunk |-> kept[i], sources |-> Sources(kept[i])]],
       strategy |-> Strategy,
       degraded |-> Degraded,
       warnings |-> {leg \in {"lexical", "vector"} : Failed(leg)} \union
                    (IF fused = <<>> /\ ~ Degraded THEN {"empty_results"} ELSE {})]

\* From the legs' hits to the package: all of it local to the process.
Assemble ==
  /\ stage = "assemble"
  /\ \E fused \in Fused :
       \/ /\ RerankRaises(FirstOf(fused, MaxRerankCandidates))
          /\ Raise("reranker")
          /\ UNCHANGED package
       \/ /\ ~ RerankRaises(FirstOf(fused, MaxRerankCandidates))
          /\ package' = Package(fused)
          /\ stage' = IF request.audited THEN "audit" ELSE "answered"
          /\ UNCHANGED failure
  /\ UNCHANGED <<corpus, settings, asks, request, legs, runs, history>>

\* log_retrieval's row of this retrieval.
Run == [retrieval |-> asks, strategy |-> package.strategy,
        count |-> Len(package.items), tenant |-> request.tenant]

Audit ==
  /\ stage = "audit"
  /\ runs' = runs \union {Run}
  /\ stage' = "answered"
  /\ UNCHANGED <<corpus, settings, asks, request, legs, package, failure, history>>

\* Mutant: a failure of the audit log is swallowed.
AuditFails_Swallowed ==
  /\ stage = "audit"
  /\ stage' = "answered"
  /\ UNCHANGED <<corpus, settings, asks, request, legs, package, failure, runs, history>>

\* log_retrieval raises and the retrieval with it: the package is lost.  The rows
\* are not there, unless it was the answer to the commit that got lost.
AuditFails ==
  /\ stage = "audit"
  /\ runs' \in {runs, runs \union {Run}}
  /\ Raise("audit")
  /\ UNCHANGED <<corpus, settings, asks, request, legs, package, history>>

Step ==
  \/ SearchLexical
  \/ SearchVector
  \/ LegFails("lexical", AfterLexical)
  \/ LegFails("vector", "assemble")
  \/ Assemble
  \/ Audit
  \/ AuditFails

\* No more retrievals and no more writers.
Terminated == Over /\ asks = MaxAsks /\ writes = MaxWrites /\ UNCHANGED vars

Next == Write \/ (\E a \in Arguments : Ask(a)) \/ Step \/ Terminated

Spec == Init /\ [][Next]_vars

-------------------------------------------------------------------------------
(* Properties *)

\* The retrieval as its caller sees it: where it is, and the set it is given.
Phase == IF stage \in {"lexical", "vector", "assemble", "audit"} THEN "asked" ELSE stage
MatchingNow == IF request = None THEN {} ELSE Matching(request, documents, chunks)
CertainNow == IF request = None THEN {} ELSE Certain(request, documents, chunks)
Given ==
  IF stage # "answered" THEN None
  ELSE [items    |-> { package.items[i].chunk : i \in DOMAIN package.items },
        degraded |-> package.degraded]

\* Two legs with snapshots of their own, a leg that fails and two caps leave the
\* promise of EvidenceRetrieval: an answer holds only chunks that matched the
\* tenant's request at some moment of the retrieval and, unless it says that it
\* is degraded, is full or has all chunks that matched its words throughout,
\* whatever the approximate leg misses (pipeline.py:150-215).
Promise == INSTANCE EvidenceRetrieval WITH
             Chunk <- ChunkRow, Request <- Request, Limit <- Limit, None <- None,
             phase <- Phase, request <- request, matching <- MatchingNow,
             certain <- CertainNow,
             seen <- seen, steady <- steady, answer <- Given
KeepsPromise == Promise!PSpec

\* When a package mixes two generations of a document - chunks of two ingestions
\* that were never in the corpus together - each leg has contributed one: the
\* evidence of one leg is of one generation (pipeline.py:158 and 175).
GenerationsSplitByLeg ==
  package # None =>
    \A i, j \in DOMAIN package.items :
      LET a == package.items[i]
          b == package.items[j]
      IN  a.chunk.doc = b.chunk.doc /\ a.chunk.writer # b.chunk.writer
          => a.sources \intersect b.sources = {}

\* Evidence that was to be audited is handed out only when its run is in the
\* log, once, with the strategy and the number of items of the package - and
\* explain_retrieval leaves no run, nor does one that fails before its package.
AnswersAreLogged ==
  LET mine == { r \in runs : r.retrieval = asks }
  IN  /\ stage = "answered" => mine = IF request.audited THEN {Run} ELSE {}
      /\ stage \in {"lexical", "vector", "assemble", "audit"} => mine = {}
      /\ failure \in {"arguments", "leg", "reranker"} => mine = {}

\* Between the upsert and the replacement of a re-ingestion for another tenant a
\* document has chunks of the old one, and the application's filter lets them
\* through.  With row-level security they stay out of every package, and a
\* retrieval without a tenant finds nothing.
PoliciesSeparateTenants ==
  settings.row_security /\ package # None =>
    \A i \in DOMAIN package.items : package.items[i].chunk.tenant = request.tenant

\* README.md:186 offers "RERANKER=cross_encoder" as a setting that reranks:
\* a retrieval fails for its arguments, its legs or its audit log only.
RerankersRerank == failure # "reranker"
===============================================================================
