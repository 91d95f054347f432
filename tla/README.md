# A verification of Knowledge Fabric

Knowledge Fabric (`src/src/knowledge_fabric`) ingests documents, splits them
into chunks, embeds the chunks, stores everything in PostgreSQL and answers
queries with signed packages of evidence.  This directory holds TLA+ models of
it, their model-checking configurations and machine-checked proofs.
Paths below are relative to `src/src/knowledge_fabric` unless they start with
`docs/`, `db/schema` or `examples/`.

## 1. Inventory

| Part | State it keeps | Operations | Correct when |
| --- | --- | --- | --- |
| Knowledge repository (`db/repository.py`), tables (`db/schema`) | `documents`, `chunks` | `upsert_document`, `replace_chunks`, `delete_document`, `delete_by_source`, `purge_tenant`, `reembed_chunks`; reads | the chunks of a document come from one call and are complete, no chunk is orphaned, a deletion takes all it names, every embedding is of its chunk's text and of the schema's dimension |
| Audit logging (`db/audit.py`) | `retrieval_runs`, `audit_events` | `log_retrieval` | an audit event never loses its run |
| Diagnostics (`check_consistency`, `get_index_status`) | none | counters, a verdict, an exit code | totals and breakdown agree when nothing is written meanwhile |
| Ingestion CLI and connector sync (`ingestion/`) | a run's summary | one upsert and one replacement per file | the corpus is that of the inputs read, whatever fails; the report is true; a removal was asked for |
| Configuration (`config.py`) | none | `load_settings` | each setting comes from the first source that has a say |
| Embedding providers (`embeddings/providers.py`) | none | `embed_texts` | vector i is that of text i |
| Chunking (`chunking/service.py`) | none | `chunk_document` | no text lost, size bound, numbering, heading paths, code fences whole where a chunk has room, page numbers, termination |
| Dimension guard (`db/dimension_guard.py`, schema 004) | `schema_metadata`, the column's type | `check_embedding_dimension` (asked by `health_check`), `set_embedding_dimension` | a comparison of the guard is right until it is reported |
| Retrieval pipeline (`retrieval/`) | none across calls | `retrieve_with_trace`, `explain_retrieval` | only the tenant's evidence, honest degradation, bounded and complete results, one audit record per answer |
| Fusion (`fusion/rrf.py`), reranking (`reranking/`) | none | `reciprocal_rank_fusion`, `rerank` | ranks combine as defined, ties are stable |
| Evidence (`evidence/models.py`) | none | digests, fingerprint, signature | a signature binds content and order |
| Tenant isolation (schema 003, 006; filters) | policies, `app.tenant_id` | `set_config`, the filters of the searches | nobody is handed another tenant's rows |
| MCP server and tools (`mcp/`) | its settings | the tools | every tool resolves a tenant and answers for it alone |
| Evaluation (`evaluation/runner.py`) | a report | metrics, aggregation, gates | the metrics are as defined, the exit code is the verdict |
| Governed retrieval example (`examples/governed-retrieval-cmcp`) | the loaded bundle, kept claims | `evaluate`, `call_tool`, the audit | rules in code decide as the Cedar bundle does; a claim is of its call |
| Qdrant store, UI demo, Helm chart, benchmarks | none | I/O | not candidates: see section 8 |

**How they interact.**  Everything meets in PostgreSQL.  Each repository, audit
or search call opens a connection of its own with `autocommit=False`
(`db/connection.py`), so each is one READ COMMITTED transaction, and ends with
an explicit `commit()` or, when anything raises, with a connection that is
dropped uncommitted.  Processes - several ingestion CLIs, connector syncs, MCP
servers, an operator's CLI - share nothing else.  Inside a process the calls
nest: CLI -> ingestion service -> chunker, provider, repository; MCP tool ->
pipeline -> two searches -> fusion -> reranker -> evidence -> audit log.

**What is hard.**  An ingestion is TWO transactions, and the second uses an id
the first returned.  `replace_chunks` locks no document: what keeps two of
them apart is a unique key and the order in which they meet it.  Deletions take
locks in the opposite order.  A purge is three statements with three snapshots.
A hybrid retrieval reads two snapshots while documents move between tenants;
each leg, the reranker and the audit log can fail separately.  Loops over text
advance by computed amounts.  Programs are killed and started again.
`PROJECT.json` lists the hazards at their lines, with the properties aimed at
them.

## 2. Plan

In the order of what matters most; all of it is done but what section 8 names.

1. **AtomicCorpus**, **KnowledgeStore**: the repository and the audit log as concurrent
   transactions, refining an atomic corpus; **KnowledgeStoreProofs**.
2. **EmbeddingMigration**: `reembed_chunks` in batches beside ingestion, the column's
   dimension and the guard; **EmbeddingMigrationProofs**.
3. **EvidenceRetrieval**, **RankFusion**, **RetrievalPipeline**: what a retrieval promises, and
   the pipeline that implements it over a corpus moving as `AtomicCorpus` does; **RetrievalPipelineProofs**.
4. **Chunking**: the loops of the chunker; **ChunkingProofs**.
5. **Configuration**, **EmbeddingProviders**, **IngestionRun**: programs that fill the store; **IngestionRunProofs**.
6. **EvidencePackages**, **ToolServer**: the tools, the tenant they answer for, the packages they sign; **ToolServerProofs**.
7. **PolicyGateway**, with **PolicyGatewayProofs**: the gateway in front of the tools.
8. **Evaluation**: metrics and gates over the same fusion; **EvaluationProofs**.

Which composes which: `KnowledgeStore` implements `AtomicCorpus`; the corpus under
`RetrievalPipeline` and `ToolServer` moves by the actions of `AtomicCorpus`;
`RetrievalPipeline` and `Evaluation` extend `RankFusion`; `RetrievalPipeline`
implements `EvidenceRetrieval`; `IngestionRun` extends `Configuration` and
`EmbeddingProviders`; `ToolServer` extends `EvidencePackages`.
`MC*` modules hold the instances for TLC.

## 3. Modules and code

### KnowledgeStore, AtomicCorpus

**State.**  `documents`, `chunks`, `logs` are the committed tables (`logs` holds
`retrieval_runs` and `audit_events`).  A session is a process; `pc`, `call` and `doc`
say where it is in which call and which document id it holds; `calls` counts
its calls.  `gone`, `docgone` and `fresh` are the private effects of its open
transaction - rows deleted, documents deleted, chunks inserted - and at the same
time its row locks; `scan` and `docscan` are the rows that its current DELETE
found in its snapshot and has yet to lock.

**Actions and code.**

| Action | Code |
| --- | --- |
| `Begin` | a call starts; for a deletion, its `DELETE FROM documents` takes its snapshot |
| `Upsert` | `upsert_document`: `INSERT ... ON CONFLICT (source_uri) DO UPDATE` and its commit, one step: the statement is the whole transaction |
| `DeleteChunks`, `LockRow` | `DELETE FROM chunks`: a snapshot, then row after row, in any order, waiting for locks and skipping rows that have gone |
| `InsertChunk`, `InsertRejected` | the `INSERT`s in order of `chunk_index`; an insert waits for or is refused by the unique key, and waits for or is refused by the foreign key |
| `CommitReplace` | the commit of `replace_chunks` |
| `LockDocument`, `Cascade` | the deletion of documents, row by row with the WHERE clause evaluated again after a wait; then the cascade to their chunks |
| `PurgeRuns`, `PurgeAudits` | the second and third statement of `purge_tenant`, each with a snapshot of its own |
| `CommitDelete`, `CommitLog` | the commits of the deletions and of `log_retrieval` |
| `DeadlockVictim` | PostgreSQL fails one transaction of a waiting cycle |
| `Fail` | the call ends without a commit: a crash, a lost connection, embeddings that do not fit the chunks, an empty vector |

**Abstractions.**  A content (`Version`) stands for a document's text and
metadata; all the model knows of it is how many chunks it yields, 0 included
(an empty file).  A call's name (`CallId`) stands for a document's BIGSERIAL id
and for the transaction that wrote a row; neither is ever used twice.
`delete_document` by id and by URI coincide, since a row's URI never changes.
The foreign key check and the unique key check of an insert are one step with
it.  PostgreSQL is modelled from how this code uses it (READ COMMITTED, row locks held to the
commit, `FOR KEY SHARE` of the foreign key check, a `DELETE` that evaluates its
WHERE clause again after a wait); the connecting role is the one that bypasses
row-level security, as in the default settings.

**Abstract specification.**  `AtomicCorpus` is what `docs/data-model.md` 3.1 - 3.4
promises: documents are registered or updated, have ALL their chunks replaced,
or are removed WITH all their chunks, each in one step.  `RefinesAtomicCorpus`
says that `KnowledgeStore`, seen through its committed tables, does only that.

### EmbeddingMigration

**State.**  `chunks` is the committed table, with the embedding (text and model it
was computed from) of each row; `nextId` the sequence of its ids; `column` the N
of `vector(N)`; `registry` the dimension in `schema_metadata`.  A session's `call`
is the call it is in.  A re-embedding keeps the rows as it read them: `found`
all of them, `todo` those not yet embedded, `batch` those with a vector to write,
`written` those updated (its private effect and its row locks), and `total` what it
will report.

| Action | Code |
| --- | --- |
| `Begin` | a call starts; a re-embedding reads ids and texts of its scope, which for `--tenant default` is everything (`cli.py:45`) |
| `EmbedBatch` | one slice of `batch_size` rows goes to the provider; a short answer makes `zip` drop the last rows |
| `UpdateRow`, `UpdateRefused` | one `UPDATE`: waits for the row's lock, counts the row even if it is gone, raises if the column has another dimension |
| `CommitReembed` | the commit |
| `ReplaceChunks`, `ReplaceRefused` | `replace_chunks` with embeddings computed before it, or without (no `--embed`); with no texts, also a deletion |
| `ResizeColumn`, `ResizeRefused` | `set_embedding_dimension`, a transaction that waits for all users of the table |
| `VectorSearch` | `vector_search` |
| `CheckDimension`, `CheckSkipped` | `check_embedding_dimension` in the transaction of `health_check`'s counts: its comparison, or the failure of its query that it swallows |
| `Reported`, `HealthReport` | what `health_check` returns as `dimension_check` |
| `Fail` | any failure: nothing is committed |

**Abstractions.**  `replace_chunks` is one step, which `CorpusRefinement` justifies
for its effect.  Its row locks are not: a replacement and a re-embedding can deadlock, and
PostgreSQL then fails one of them, which is `Fail` of the one or the other.  The provider's
vectors are in the order of its texts, have the dimension it declares, and too many
of them are cut by `zip` as the code does.  Whether the cast of a vector for a row that is gone
raises depends on the plan, so both are possible.  The registry is
seeded by its migration (004:21-23), so the guard's fallback to the catalogue does not
occur; any failure of its query does, and makes it pass silently (`CheckSkipped`).  The counts of a health
check hold the table against `ALTER` until the call is over, unless a statement has failed.  pgvector is modelled from how the code uses it: an
assignment, an `ALTER` and a comparison raise on another dimension, and IVFFlat
indexes up to `IndexLimit` (2000) dimensions while the function admits 4000.

### RetrievalPipeline, RankFusion, EvidenceRetrieval

**State.**  `documents`, `chunks` are the committed corpus, `writes` counts the transactions
that have changed it.  `stage` is where the current retrieval is, `request` its
cleaned arguments, `lexical`, `vector` and `status` the hits and outcome of its legs,
`package`, `failure` what it has built or raised, `runs` the audit log.
`seen` is history: the chunks that matched the request at some time since it was
made; `steady` those that matched its words, in the exact leg, all the time.

| Action | Code |
| --- | --- |
| `Write` | another process commits a transaction: one action of `AtomicCorpus` |
| `Ask` | the checks and clamps at the head of `retrieve_with_trace`; `explain_retrieval` calls it unaudited and without `fail_closed` |
| `SearchLexical`, `SearchVector` | one SELECT each, on a connection and a snapshot of its own: join, filters, policies, order, limit |
| `LegFails` | the `except` blocks: the error is kept, or raised again |
| `Assemble` | strategy, fusion, candidates, reranker, selection, warnings, package: local to the process, so one step |
| `Audit`, `AuditFails` | `log_retrieval`; a failure loses the package, and may or may not leave the rows |

`Fusions` of `RankFusion` is a definition (each chunk once, ordered by weighted reciprocal ranks,
ties by the hit's own score, then by order of appearance); `Evaluation` runs the code's two loops
and compares.  A score is an assignment of numbers to a content's chunks;
a chunk of score 0 does not match.  The check of tenant names is the strict one, as by default.  The lexical search is exact (`Best`).  The vector search
orders by distance over an IVFFlat or HNSW index (002:47, 005:44) and filters what the scan comes by, so
`BestApproximately` takes the best of ANY subset of the matching rows: how much it misses is left open.  Row-level security is a setting: the default role bypasses it.

**Abstract specification.**  `EvidenceRetrieval` knows no legs and no SQL.  An answer
holds only chunks that matched the request at some moment between question and answer; one that is
not called degraded has as many items as it may have, or all chunks that a search was bound to find
throughout.  For the pipeline these are the chunks of the exact leg (`Certain`): of what only
the vector leg can find nothing is promised, and in mode `vector` nothing but that every item matched.

### Chunking

A text is its positions, and all that is known of a character is whether it is
blank; a chunk is a sequence of pieces of the text, and joined blocks count their two newlines.
`stage` names the loop: `section`, `group` (paragraphs to blocks, with the fence parity),
`refine` (long blocks are split), `accumulate` (blocks to chunks), `page` and `emit`, `split` (the window loop,
which the three others call), `fallback`.  Each action is one turn of one loop, so the windows, the
stack of headings and the chunk index are followed as the code computes them.
A window takes `max` characters from its start and is stripped; the next begins `overlap` characters before its end
(`chunking/service.py:293-300`).  Regular expressions are abstracted to what they find: headings with a level,
paragraphs with an odd or even number of fences, page markers.  Headings are looked for everywhere, in code too
(`chunking/service.py:10,72`), and the parity of the fences starts afresh with each section, so both of what follows from that are in the model:
a comment that looks like a heading begins a section in the middle of a code block, and the fence that closes the block opens one.  `IsDocument` is what the chunker's own preparation makes of
any text: `strip()` leaves no blank at either end (`chunking/service.py:71,183,236`), paragraphs are what is between blank lines, so they begin with a
character and lie in order with blanks only between them, and page parts are disjoint, those with text stripped.

### Configuration, EmbeddingProviders, IngestionRun

`IngestionRun` is one program after another (`args` its command line, `pc` and `place` where it is), over
`documents` and `chunks` keyed by URI, with sources that change or vanish at any time (`Edit`).
`Look`, `Delete`, `Reembed` are the operations that `main` takes before an ingestion, `Refuse` the
checks at which it raises; `Ingest` starts the loop, and `Read`, `Unreadable`, `Embed`, `Upsert`,
`Replace`, `Raise`, `Finish` are one turn of it, for the CLI (which records a failed file and goes on) and for the
sync (which passes over what it cannot fetch and ends at any other failure).  `Kill` ends
a program anywhere.  Two sources may have one URI, as a file and a symbolic link to it do
(`service.py:49` resolves the path), or two resources of a connector.  `Configuration` computes the settings and the provider, with the dimension it declares: the setting's (`EMBEDDING_DIMENSION`, the file, the default) for the mock, the model's for the others, and for
OpenRouter with a model that its table does not list the setting's again, or its own fallback when that is 0 (`providers.py:398`).  A provider's name stands for all its spellings: case, blanks around it, and the aliases of
`sentence_transformers`.  `EmbeddingProviders` is what each provider makes of a service's items.  `Reembed` orders the rows, takes them in batches of `BatchSize` and pairs the
n-th row with the n-th vector of its batch, as `zip` does; which order the documents' ids give is left open.  Two programs at once are `KnowledgeStore`'s subject.

### EvidencePackages, ToolServer

A hash is the value it was computed of, a signature the signed record with its key, so that a property about
what hashes bind is one about what they are computed of.  In `ToolServer` each tool that is one SELECT is
one step; `get_index_status` makes three, and `Write` comes between.  `reply` is the last answer.  The
retrieval is any choice of chunks the filters let through.  A server is strict about tenant names or not; `Cleaned` is what a name becomes, or
none when it is refused.  `RequireTenant` takes the argument `or` the default: a missing argument and an empty one fall back to `KF_DEFAULT_TENANT`
(`mcp/server.py:56`), one of blanks does not and is refused.  `Genuine` is what a holder of the
key can compute again; the code itself only makes packages.

### PolicyGateway

`Applies` and `Order` are the tests of `evaluate` and the order in which the code tries them, `Evaluate` its verdict;
`CedarAllows` is the policy bundle, with forbid over permit and no order.  The bundle is a file that can be
edited (`Edit`) and is read when a gateway is made (`Restart`; a call in it is lost).

| Action | Code |
| --- | --- |
| `Intercept` | a caller fills an argument dict, a new one or that of an earlier call, and calls; a denied call is answered at once |
| `Execute` | the executor is called with the dict: it answers, raises, or there is none |
| `Sign` | evidence hashes, claim and signature; the claim keeps a REFERENCE to the dict |

`Audit` is `run.py`'s verification of a claim against chunks.

### Evaluation

One step per turn of its loops: a query is retrieved (`Retrieve`), its legs are fused hit
by hit as in `rrf.py` (`Accumulate`, `Fuse`), the metrics are computed as fractions (`Score`), averaged in total and
by category (`Summarize`) and put to the gates (`Gate`).  The discount of NDCG is any decreasing sequence, a grade any integer, also below 0 and
also of a chunk that is not relevant, as `load_dataset` takes them; the gain of an ungraded relevant chunk is `Unit`, so grades can be fractions of it.
After the gates come the outputs (console, JSON, Markdown): the first that cannot be written ends the command with exit code 1, those before it are written.
What is scored is kept by turn of the loop over the modes: a mode given twice is evaluated twice, and its second report
takes the place of the first.  Without queries a mode is summarized at once; without modes the gates come first, and fail.

## 4. Runs

| Run | States | Question |
| --- | --- | --- |
| `overlap` | 252,851 | do two ingestions of one URI and a deletion, with failures, leave the corpus as atomic operations would? (`NoOrphanChunks`, `WholeReplacement`, `RefinesAtomicCorpus`) |
| `purge` | 118,195 | what can a purge that overlaps with retrievals and ingestions tear apart? (`TypeOK`, `AuditHasRun`) |
| `contention` | 189,217 | where lock orders conflict and nothing else fails: does every call end, and what can make chunks of a session's OLDER content outlive its newer upsert? (`OwnIngestsAgree`, `EveryCallEnds`) |
| `embeddings` | 1,131,706 | what can overlapping re-embeddings, ingestions and resizings do to each other's vectors, counts and locks, and to what the guard has found? (`TypeOK`, `GuardIsRight`, `EmbeddingsFitText`, `WaitsAreOrdered`, `ReembedIsComplete`) |
| `retrieval` | 310,079 | does a retrieval keep its promise while the corpus moves and its parts fail? (`KeepsPromise`, `GenerationsSplitByLeg`, `AnswersAreLogged`, `PoliciesSeparateTenants`) |
| `chunking` | 422,203 | what do the loops lose, tear apart, misnumber; do they end? (`NothingLost`, `ChunksFit`, `ChunksInOrder`, `PathsAreAncestors`, `FencesStayTogether`, `PagesAreNumbered`, `ChunkingEnds`) |
| `ingestion` | 1,204,832 | is the corpus that of the inputs, and the report true, whatever fails, is killed and is started again? (`CorpusFollowsInputs`, `ReportIsTrue`, `VectorsOfTexts`, `SettingsHavePrecedence`, `RemovalsAreAskedFor`, `EveryRunEnds`) |
| `tools` | 1,290,768 | whose rows does a tool hand out, and what does a signature bind? (`RepliesStayInTenant`, `StatusAddsUp`, `SignaturesBind`) |
| `governance` | 1,050,540 | do code and bundle decide alike, and what do claims and audits prove? (`OnlyAllowedQueries`, `DecisionsAreCedar`, `ClaimsAreTrue`, `AuditsFindChanges`) |
| `evaluation` | 615,282 | do the loops compute what the metrics are defined as, and does the exit code tell? (`FusionIsReciprocalRank`, `NdcgIsProportion`, `CategoriesAddUp`, `ExitCodeIsVerdict`) |
| `model_migration`, `neural_reranker` | | statements of the documentation that the code does not keep (section 7) |

**Bounds.**  Each is chosen so that the case a property is about happens.

* `overlap`, `purge`, `contention`: three sessions with two calls each.  Two ingestions of a URI need
  two sessions; the interesting interference - an insert that waits for the
  deletion that waits for another replacement - needs a third.  Two calls per
  session give a document a past: a re-ingestion, a re-registration after
  a deletion, a second retrieval after a purge.  Contents of 0, 1 and 2 chunks:
  no key at all, one key, and a key whose insertion follows another's.  Two
  tenants and URIs of two source types let a deletion match some rows and not others.  In `contention` an ingestion, the
  re-ingestion of the same document, a deletion of it and a purge of two documents meet, so that a deletion that has failed an
  ingestion can fail in turn.
* `embeddings`: three sessions with two calls, contents that share a text at another index, two
  tenants, batches of two rows: a full batch, a partial one, scopes that
  overlap without being equal; a column that is filled, resized and filled again.
* `retrieval`: three transactions (register, move to another tenant, replace) and two
  retrievals: a document can change twice between the two legs of the second.  Contents of one and two chunks that the legs rank
  differently; `top_k` below, at and above the maximum, and a candidate limit below it.
* `chunking`: texts of up to 13 characters and windows of 3 to 5: three windows and more, with a blank in
  any place; all Markdown texts of three paragraphs (of three lengths, with and without heading and odd fence),
  all sequences of four headings of three levels, four paragraphs under a heading, three page parts; one configuration
  that the constructor would refuse.  `MaxPieces` (30) is what counts as endless: no text of the instance has as many windows otherwise.
* `ingestion`: batches of two texts, so a re-embedding has a full batch and a partial one; two programs and one change of the sources, so a second run repairs what a first left; three files of which one is not
  supported, a file beside a symbolic link to it, two resources with one path; 27 environments for the database settings and four for the provider, one of them with a model that no table lists.
* `tools`: three transactions - register, move, replace - with `get_index_status` reading before, between and after; packages of up to two items;
  tenant names missing, empty, of blanks, good, and good only for a server that is not strict.
* `governance`: two calls and one edit: a dict filled again for the second, a bundle changed in between; evidence of up to
  two chunks, one of them also forged.
* `evaluation`: three chunks, two queries in one or two categories, `TopK` 2: ties, a cut, unanswerable queries and empty legs; also no
  queries, no modes, modes without the hybrid one, and the hybrid one twice; grades of chunks
  that are not relevant and one below 0; outputs that can be written, and a list in which one cannot.

No symmetry is used: the sessions have different calls.  Deadlock is checked
everywhere; a state in which everybody has finished has an explicit stuttering
step (`Terminated`, `Finished`), so what TLC would report as a deadlock is a
process that waits for ever.

**Fairness.**  Only what the scheduler gives: weak fairness of the steps of a program, a loop or a
call that has begun (`FairSpec`, in `Chunking` `Spec`).  It does not make a process begin calls, and
not fail, nor a killed program start again.  In `KnowledgeStore` it contains `DeadlockVictim`: PostgreSQL's detector runs after
`deadlock_timeout` in a waiting backend.  `EveryCallEnds` is checked without `Fail`,
since a failure ends a call.

`OwnIngestsAgree` is an action property, about one session, for two reasons.  When two sessions' ingestions
of a URI overlap, the document row can be of one and the chunks of the other, at rest and without any
failure: upsert A, upsert B, replace B, replace A.  Nothing in the repository promises otherwise.  And of one
session's ingestions it is not true that the chunks are never older than the document, which the attempt to prove it
showed: a session re-ingests X; its `replace_chunks` is the victim of a deadlock with a purge that holds X; the purge is
then the victim of another cycle, because of another document, and is rolled back.  X keeps its old chunks under its new
row, and nothing but deadlocks has happened.  The property says that this, and a call that fails of itself, are the only
ways: with one document in a deletion, or none failing of itself, whoever costs the ingestion its call removes the chunks.
`GenerationsSplitByLeg` is the like for retrievals: a package can mix two generations of
a document, but each leg contributes one.

## 5. Proofs

`KnowledgeStoreProofs` holds for every set of sessions, URIs,
tenants and contents, every assignment of calls and every bound, from the
assumptions `StoreAssumption`, `CallAssumption` (arguments have their types; a
deletion by source and a purge have a tenant, `repository.py:145,169`) and
`NoneAssumption` (`None` is not an id).

* `TypeCorrect`: `Spec => []TypeOK`.  `TypeOK` needs `CallOK` (which kind of call
  is where) to be inductive.
* `ChunksComeFromOneCall`: `Spec => []WholeReplacement`, `ChunksHaveDocuments`:
  `Spec => []NoOrphanChunks`.  Neither is inductive.  `IInv` adds:
  - `Names`: names of future calls occur nowhere, and a call's own name occurs in
    no row before its commit;
  - `Local`: what a transaction can hold, by where it is; once it has inserted
    anything it has inserted index 0;
  - `AllOrNone`: the rows a replacement has found are all chunks the document
    has now, or none of them.  It may have found none because other chunks were
    committed after its snapshot;
  - `Exclusive`: a session that HAS inserted holds the document against
    deletion, is the only one inserting into it, and is deleting every other
    chunk of it;
  - `Deleting`: documents being deleted match the deletion, are held by it
    alone, and at the end exactly their chunks are held too;
  - `DocumentKeys`: ids and URIs are keys.

  The heart is `FirstInsert`: an insert of index 0 passes the unique key only when
  the committed index 0 is being deleted by the inserter itself; by `WholeReplacement`
  every content has an index 0, and by `AllOrNone` the inserter then holds all
  the others.  So `WholeReplacement` proves `Exclusive`, and `Exclusive` proves
  `WholeReplacement` across the commit.
* `CorpusRefinement`: `Spec => RefinesAtomicCorpus`.  `Upsert`, `CommitReplace` and
  `CommitDelete` map to the abstract actions (`UpsertSimulation`,
  `ReplaceSimulation`, `DeleteSimulation`), all else to stuttering.  A replacement
  by no chunks at all, whose snapshot missed what others committed since, maps to
  stuttering as well.
* `AuditEventsHaveRuns`: `Spec => []AuditHasRun`, from `AuditInv`: a retrieval's two
  rows have one tenant, and a purge that is deleting audit events has found the
  event of every run it has deleted, since it looked for events LATER.
* `OlderChunksGo`: `Spec => OwnIngestsAgree`, an action property.  `OwnInv` says, besides `IInv`, that a session at its
  `replace_chunks` finds its own row as it wrote it (`OwnRows`), that a locked row exists and has one holder (`Locks`), and
  that a deletion by id has one document (`OneDocument`).  A pair of a document and an older chunk can only become
  outlived when the last call that attends it lets go: at a commit the chunk is gone; a deadlock's victim waits for a
  holder, and for an ingestion that holder either deletes the document or its chunk, so attends the pair itself.  The
  property's exception is the case in which the victim is a deletion of several documents.

`EmbeddingMigrationProofs` holds for every set of sessions, documents, texts, tenants
and models, every batch size and every bounds of dimensions, from `DimensionAssumption`,
`AbsenceAssumption` and `MigrationCallAssumption` (types of the arguments).  Its `IInv` is:
`Idle` (only a re-embedding has rows in hand), `Keys` (ids are unique and never used
again), `Stale` (a row read long ago still has the text of the row of that id, if
there is one), `Ordered` (what is written, in the batch and to do follow each other in
order of ids), `Columns` (registry, column and vectors agree), `Writers` (what is about
to be committed fits the column - a resizing waits for it), `Checks` (only a health check has a verdict; one that it has by comparing
is what registry and column say, and a resizing waits for it).

* `EmbeddingsAreOfTheirText`: from `Keys` and `Stale`: an id names one text for ever.
* `GuardIsSound`: from `Columns` and `Checks`.  It is about a comparison: a check whose query fails has no verdict, and the health check then
  reports a match all the same (`CheckSkipped`, `Reported`; see section 7), so nothing is proved of that report.
* `ReembedsWaitInOrder`: from `Ordered`.  Along a circle of waits the ids would
  increase for ever.
* `ReembedsAreComplete`: from a second invariant, `Counted`: a re-embedding has counted
  at most as many rows as it is done with, and if it has counted all of them,
  each was updated or is gone.  A short answer makes the count fall behind
  for good.
* `TypeCorrect`.

The `IInv` of `KnowledgeStoreProofs`, `RetrievalPipelineProofs` and `IngestionRunProofs`, `AuditInv`, `OwnInv`, `RInv` and
`SInv`, and the seven of `EvaluationProofs` (`LoopsOK`, `Reported`, `Fusing`, `RankedOK`, `ScoredOK`, `Counted`, `Categorized`), were checked with TLC on the instances of `overlap`, `retrieval`, `ingestion`, `purge`, `contention`, `tools` and `evaluation`; the invariants of
`ChunkingProofs` on a part of the documents of `chunking`.

`PolicyGatewayProofs` holds for every set of roles, tenants, tools, queries, bundles, dicts and evidence,
from `GatewayAssumption`.  `EvaluateIsCedar` compares the ordered tests with the
bundle for every request: each case of the order is matched with the permits and forbids that apply to it.
The invariant `IInv` says of the call in the gateway that what was decided on is what its dict
held then (`CallOK`; the gateway runs one call at a time, so the dict cannot be filled again meanwhile),
and of every answer that its claim's signature is of the bundle, verdict and
arguments of its call and its hashes those of its evidence (`AnswersOK`).
`QueriesAreAllowed`, `DecisionsFollowTheBundle`, `ClaimsAreOfTheirCalls` and
`AuditsAcceptPrefixes` follow.

`RetrievalPipelineProofs` holds for every corpus, every assignment of scores, all arguments and settings and
every bound, from `PipelineAssumption`, `ArgumentsAssumption`, `NoneAssumption` (`None` is not a request) and
`FusionAssumption` (weights and the constant are numbers).  Its `IInv` is: `CorpusOK` (the chunks of a document come
from one writer), `HistoryOK` (what matches now has been seen, what is steady is certain now), `FlowOK`
(which leg has been tried where), `LegsOK` and `PackageOK`.  `LegOK` is the heart: the hits of a leg are of ONE
snapshot, so of one generation of each document and, with policies, of one tenant; and a lexical leg that is `ok` is full or has
every steady chunk.  It stays true while the corpus moves only because it speaks of
`seen` and `steady`, which the promise is about, and not of the corpus.  That an exact search leaves
nothing out is `BestFacts` (a strictly ordered list as long as a finite set has all of it); that fusion does not, `FusionFacts`;
the two cuts are `KeptFacts`.

* `PipelineKeepsPromise`: `Spec => KeepsPromise`, the refinement of `EvidenceRetrieval`: a write is `Change`, a call
  `Ask` or `Refuse`, the step that hands the package out is `Answer`, one that raises is `Fail`,
  all else is stuttering.
* `GenerationsSplit` and `TenantsStayApart`, from `LegsOK`.
* `AnswersHaveRuns`, from an invariant of its own, `Logged`: every run in the log has the number of a retrieval
  that has been made.

`IngestionRunProofs` holds for every set of sources, contents, command lines, environments and settings files,
from `IngestionAssumption`, `CommandAssumption` (a command has a tenant and a list of sources) and `VariableAssumption`
(an empty variable is not an unset one).

* `CorpusFollows`: its `IInv` is `LoopOK` (what has been taken is as long as the position says; between the two calls the
  document is that of the version in hand) and `Follows` for every URI, which names the last ingestion that came
  to its end.  The one step that makes `CorpusFollowsInputs` hard is `Upsert`: it makes the document newer than the
  chunks, which the property allows exactly while a later source of the URI has been reached.
* `VectorsStay`: from `VInv` (the vectors in hand are of the texts in hand) on top of `IInv`.  Its core is `ByIndexSorts`: a
  stable sort by index undoes any permutation of the items, since the items below the m-th are m - 1 by a
  bijection (`BelowCounted`).  `EmbeddingsFacts` says the same of all providers.
* `RemovalsAsked`: the first of the operations asked for is the one that runs (`OperationFacts`), only `Delete` removes
  (`OnlyDeletesRemove`), and what it selects is its tenant's.
* `SettingsAreRight`: `FirstSourceGives`, for each key.

* `ReportsAreTrue`, of both programs: the command line's report names each file it could not ingest, the sync's passes over in silence what it could not
  fetch, and only its two counts tell.  From `RInv`: what a program has counted so far is the number of places it has taken, and of pairs of such a place and a
  chunk (`Tallied`, with `OnePlaceMore` for each turn); by `CorpusFollows` these are the chunks the store has.
  The number of chunks is right when each URI is given once.  Without that it is false in the code: the second of two sources with one URI
  replaces the chunks of the first, and both are counted.  The number of documents, and the list of errors, need no such condition.

`ChunkingProofs` holds for every set of documents, every configuration and every `MaxPieces`, from
`ChunkingAssumption`: documents are such as `IsDocument` says, a maximum is at least 1, an overlap is any number: with one that the
constructor refuses the windows never end, but what has been made until then is as the theorems say.  The inductive invariant is built
in layers, each proved from those below it.

* `Base` is `TypeOK`, `LoopsOK` (where each loop is, and what the others have left), `BlocksOK` (blocks are runs of paragraphs, in
  order, that reach as far as the loop has come; an open fence block is not yet one) and `SplitOK`: the pieces of a text cover
  all of it up to the window, are short, in order, and none begins after what is to come.  `WindowSplit` is the
  arithmetic of one window: the next one starts no later than the
  first character not yet covered.
* `RefinedOK`, `AccumulatedOK`: the refined blocks cover the section; what is accumulated fits, joints included.
* `EveryChunkFits` from `AccumulatedOK`.  `Total` sums recursively, by a recursive function; what it is of one piece more (`TotalOfMore`) is
  proved by the least length that would be a counterexample, with the library's theorem that < on the naturals is well-founded:
  an induction whose predicate is a set, so that no operator has to be given to a theorem.
* `EveryChunkInOrder` from `OrderOK`: no chunk begins after what the loop has in hand.
* `NoTextIsLost` from `KeptOK`: all text before the section, or the page part, is in some chunk, and every refined block of it
  already passed is in one or pending.
* `EveryPathIsAncestors` from `StackOK`: the stack IS the path of the section's heading, the headings above it in
  order; popping the headings of its level or deeper leaves those above the next one (`NextPath`).
* `EveryFenceStaysTogether` from `OpenOK`, `WholeOK` and `FencesOK`.  When no heading is found in code a section holds each code block whole or not at all
  (`FencedFacts`); a block is being collected exactly while a fence is open, so the paragraph that closes the fence ends a block that begins with
  the fence (`FenceGroup`); a block with room in a chunk is one piece (`FenceRefine`), and by `KeptOK` it is in a chunk at the end of the section.
* `EveryPageIsNumbered` from `PagesOK`: `page_num` is the last marker's number plus the page parts with text since.

`ToolServerProofs` holds for every corpus and its writes, every set of servers and every size of packages, from
`ServerAssumption`.

* `RepliesStay`: its `IInv` is `RepliesStayInTenant` with `Ids` (an id names one document, so that the document
  a chunk is joined with is its own).  Without row-level security a reply may hold another tenant's chunk of the asker's document, and the
  other way round; with it both are the asker's.
* `SignaturesHold`: two packages with one signature have one content (`SignatureBinds`), since a hash is what it was computed of; each
  alteration that needs no key and is not refused leaves the content (`AlterationsFacts`).
* `StatusesAddUp`: from `SInv`: the corpus is finite and without orphans (`CorpusOK`), and what the first statements of a
  status have read is true of the corpus as it is, unless something was written since (`ReadingOK`).  `ClassesAddUp` is the
  mathematics: the sizes of the classes of a finite set add up to its own.

`EvaluationProofs` holds for every data set, list of modes, gates, `TopK` and discount, from `EvaluationAssumption` (scores are natural numbers, grades
integers, vector scores positive, modes are of the three names) and `FusionAssumption`.

* `ExitCodes`: from `LoopsOK` (where the loops are) and `Reported`: the report of a mode holds the means of the LAST
  turn that was of it, and no mode that was not evaluated has one.  So the gates read the means that the property is about (`GatesAreRight`).
  A success also says that every output has been written (`OutputsOK`).
* `FusionsAreReciprocalRank`: from `Fusing`: after n hits the dictionary is that of the first n hits of the two legs (`IsDict`): one
  entry for each chunk, with its fused score and the score of its first hit, in the order of
  `Place`.  `LexicalHit` and `VectorHit` say that one hit more keeps it so; `SortedIsFusion`, that
  sorting it yields the list that `RankFusion` defines.  That it can be sorted at all is `SortedExists`: a finite set with a strict total order is
  listed by the number of elements before each, distinct for distinct elements and so, by the pigeonhole principle, all of 1 to
  n.  That the sort's order is one is `ExceedsFacts`, the arithmetic of fractions.  So `Fusions` is never empty for the legs of a query.
* Sums.  The metrics and means are folds of functions, which the library defines by recursion with a `CHOOSE`; no theorem of it
  says what they yield.  `FoldExists`, `FoldRemoves` and `FoldUnites` prove it of any commutative and associative operation with a unit: there is a function
  of the subsets that gives each its fold, takes out any element, and adds up two sets that are apart.  In place of an induction each takes a least
  subset of which it fails (`LeastSubset`, by cardinality).  `NumberLaws` and `SumLaws` are the instances for numbers and for `Plus` on fractions.
* `NdcgStaysProportion`: from `RankedOK` (what is scored lists a chunk once: a leg does, the fusion's dictionary has one entry for each
  chunk, and a cut keeps it).  `BestExists`: the relevant chunks can be listed by falling gain, so that the ideal list is one.
  `BestIsBest`: no k chunks gain more than its first k, and k places of an answer hold k chunks or fewer (`ListGains`).  `WeightsKeepOrder`: numbers whose prefixes all add
  up to at most those of others do so too when both are weighted by one falling discount (summation by parts).  The answer may be shorter or longer
  than the ideal list, and chunks that are not relevant gain nothing when only relevant ones are graded.  That, and that no grade is below 0, the property assumes: then gains are natural numbers (`GainIsNumber`).
* `CategoriesDoAddUp`: from `RankedOK`, `Reported` and three more.  `ScoredOK`: entries are of turns so far, and recall and reciprocal rank of an answerable
  query are fractions with a denominator that is not 0.  `Counted`: each finished turn has one entry for each query, and the current one for each that was scored.  `Categorized`: a
  report has, for each category of the LAST turn of its mode, the means of that turn alone.  Of these `CountsAddUp` (a finite set is
  counted by the values of a function on it) and `PartsAddUp` (fractions added in parts have the same value, up to `Same`: neither is reduced) make up the mode's.
  It is about the counts, recall and reciprocal rank; precision and NDCG, which are averaged in the same way, are left out.

## 6. Model-checked only

* Liveness under fairness (`EveryCallEnds`, `ChunkingEnds`, `EveryRunEnds`) is out of the prover's reach.
* That the documentation and the code disagree in `model_migration` and `neural_reranker`: what shows them is a counterexample.

## 7. Where code and documentation disagree

With a run:

* `model_migration`: new settings and `--reembed` do not migrate to another dimension:
  the column refuses the first vector (`docs/operations-runbook.md:71-77`, `db/repository.py:411`).
* `neural_reranker`: the rerankers that call a model read `chunk_text` of hits (`reranking/__init__.py:99`); a
  `HybridHit` has the fields `hit`, `fused_score` and `sources`, and the text is in the inner hit's `snippet`; with the documented `RERANKER=cross_encoder`
  every retrieval that finds something raises.

Without a run, as read in the code the modules model:

* The dimension guard swallows any failure of its query, a lost connection among them, while its comment speaks of a missing table only
  (`db/dimension_guard.py:87-89`, docstring 42-45); `health_check` then reports "match" of what was never compared (`mcp/tools.py:64-72`).
* A line of code that begins with `#` and a blank is taken for a heading and ends the section in the middle of its code block
  (`chunking/service.py:10,72`; `service.py:182` has code blocks "intact", `docs/handoffs/2026-09-13-session-handoff.md:120` fenced blocks not split); a text without headings is cut into windows, fences or not.
* NDCG exceeds 1 when a chunk that is not relevant has a grade, and can be below 0 or above 1 with grades below 0: the ideal takes relevant chunks only
  (`evaluation/runner.py:416`, against the bound in `tests/test_evaluation_runner.py:54`).
* A chunk of joined blocks can have one character more than `--max-chunk-chars`, "Maximum chunk size in characters" (`ingestion/cli.py:164`; `ChunksFit`).
* The vector leg can miss what matches, or return too few hits after its filters, without calling the answer degraded (`docs/data-model.md:168` says approximate).
* The sync does not name the resources it could not fetch, and exits with 0 (`ingestion/sync_cli.py:106-107`).
* `get_index_status` reads its totals and its breakdown in three snapshots, so they can disagree while others write (`db/repository.py:270`).
* A document is stored under its tenant as typed, blanks included, while a deletion strips the name: one ingested for `" acme"` is out of reach of any deletion
  (`ingestion/cli.py:136`).
* An ingestion that fails between its two transactions leaves an empty document.  `check_consistency` counts
  it; `is_healthy` and the exit code ignore it (`db/repository.py:366`, `docs/operations-runbook.md:61,65`).
* After a re-ingestion for another tenant that fails between its two transactions, chunks and
  document disagree on the tenant (`db/repository.py:51`, `docs/data-model.md:187`), and a purge of the old
  tenant leaves those chunks (`db/repository.py:177`, `docs/operations-runbook.md:94-97`).
* A directory with a file and a symbolic link to it reports two documents and the chunks of both, and stores one (`ingestion/cli.py:186-196`,
  `ingestion/service.py:49`): the second ingestion replaces the first.
* A re-ingestion that a deadlock with a purge fails leaves its old chunks under the new row when the purge is then undone
  (`OwnIngestsAgree`, `db/repository.py:68`).
* A retrieval that is logged between two statements of a purge keeps its run and loses its audit
  event (`db/repository.py:183`, same lines).
* Only `health_check` calls the dimension guard; a search with a provider of another dimension meets the
  stored vectors unverified (`mcp/tools.py:67`, `docs/data-model.md:21`).
* `set_embedding_dimension` is refused while vectors of the old dimension are stored, and for 2001 to 4000
  dimensions by the index (`004_dimension_guard.sql:11-12,37`).
* The gateway compares `caller_tenant` with the argument; the tenant assigned to the agent is consulted nowhere, while the bundle's comment speaks
  of "their own assigned tenant" (`gateway.py:186`, `retrieval-policy.cedar:58-60`).
* The audit of `run.py` accepts evidence cut short at its end (see `AuditsFindChanges`), prints that the bundle's hash
  "matches loaded bundle" without comparing it (`run.py:230`), and reports three permitted scenarios of which one is the audit.

## 8. Not modelled

* The Qdrant adapter (the server never builds it, `mcp/server.py:22-29`), the UI demo (a static page and canned answers), the Helm chart,
  benchmarks and scripts.
* Of `check_consistency` its report and its four snapshots; its counters are formulas over `KnowledgeStore`'s tables.
* Of the chunker the character offsets in the metadata; text before the first heading and a page of digits only are not chunked by the code,
  which `NothingLost` takes as given.
* Of the rerankers the scores of a network; of the providers the numbers of a vector, retries of the HTTP library and timeouts (an exception, whatever its cause).
* The MCP transport, the tools' output formatting, and what the evaluation's reports look like.  Of `health_check` the guard is in `EmbeddingMigration`, the counts are in
  `ToolServer`, what else it returns is not modelled.
* How many of the nearest vectors an approximate index finds.
* Real time: latencies and timestamps, except that a package's time is signed.
