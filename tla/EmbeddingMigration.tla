-------------------------- MODULE EmbeddingMigration --------------------------
(***************************************************************************)
(* The embeddings of the chunks: who writes them (reembed_chunks and       *)
(* replace_chunks in src/src/knowledge_fabric/db/repository.py), which     *)
(* dimension the schema gives them (set_embedding_dimension in             *)
(* src/db/schema/004_dimension_guard.sql), and what the dimension guard    *)
(* (db/dimension_guard.py) says of it, asked by health_check               *)
(* (mcp/tools.py).                                                         *)
(*                                                                         *)
(* A re-embedding is one long transaction: it reads the ids and texts of   *)
(* all chunks in its scope, then asks the provider for the vectors of one  *)
(* batch after another and updates one row after another.  replace_chunks  *)
(* is one step here: KnowledgeStore is shown to refine AtomicCorpus, where *)
(* it is one step.                                                         *)
(***************************************************************************)
EXTENDS Naturals, Sequences, FiniteSets

CONSTANTS
  Session,          \* the processes that use the database
  Doc,              \* documents
  Text,             \* chunk texts
  Tenant,
  DefaultTenant,    \* the default of the CLI's --tenant
  Model,            \* embedding models
  ModelDim,         \* [Model -> dimensions]
  InitialDimension, \* what the schema starts with
  MaxDimension,     \* set_embedding_dimension accepts 1 .. MaxDimension
  IndexLimit,       \* ... and pgvector indexes up to IndexLimit
  BatchSize,        \* reembed_chunks: batch_size
  CallsOf,          \* [Session -> set of calls]: what each session may call
  MaxCalls,         \* bound: calls a session makes before it exits
  Faults,           \* whether calls may fail for reasons of their own
  None              \* Python's None: no embedding, no call

\* The calls, with the arguments that matter.  A replacement by no texts is
\* also what a deletion of the document does to its chunks; one by a model of
\* None is an ingestion without --embed.
Reembed(t, m)      == [op |-> "reembed", tenant |-> t, model |-> m]
Replace(d, x, t, m) == [op |-> "replace", doc |-> d, texts |-> x, tenant |-> t,
                        model |-> m]
SetDimension(n)    == [op |-> "set_dimension", dimension |-> n]
Search(m)          == [op |-> "search", model |-> m]
HealthCheck(m)     == [op |-> "health", model |-> m]

Call == UNION { CallsOf[s] : s \in Session }

ASSUME DimensionAssumption ==
  /\ ModelDim \in [Model -> Nat \ {0}]
  /\ InitialDimension \in Nat \ {0}
  /\ MaxDimension \in Nat /\ IndexLimit \in Nat
  /\ BatchSize \in Nat \ {0}
  /\ MaxCalls \in Nat
  /\ Faults \in BOOLEAN
  /\ DefaultTenant \in Tenant

ASSUME AbsenceAssumption ==
  /\ None \notin Model
  /\ None \notin [text : Text, model : Model]
  /\ None \notin {"match", "mismatch", "skipped"}

ASSUME MigrationCallAssumption ==
  \A s \in Session : \A c \in CallsOf[s] :
    /\ c # None
    /\ c.op \in {"reembed", "replace", "set_dimension", "search", "health"}
    /\ c.op = "reembed" => c.tenant \in Tenant /\ c.model \in Model
    /\ c.op = "replace" =>
         /\ c.doc \in Doc /\ c.texts \in Seq(Text)
         /\ c.tenant \in Tenant /\ c.model \in Model \union {None}
    /\ c.op = "set_dimension" => c.dimension \in Nat
    /\ c.op \in {"search", "health"} => c.model \in Model

VARIABLES
  chunks,    \* committed rows of table chunks
  nextId,    \* the next value of chunks.id (BIGSERIAL)
  column,    \* N in the type vector(N) of chunks.embedding
  registry,  \* schema_metadata: the value of embedding_dimension
  calls,     \* number of calls each session has made
  call,      \* the call each session is in
  found,     \* re-embedding: the rows it read at its start
  todo,      \* ... those of them not yet sent to the provider
  batch,     \* ... those whose vectors have come and are not yet written
  written,   \* ... those it has updated, not committed, and holds locked
  total,     \* ... the number it will report as chunks_reembedded
  verdict    \* health check: what the dimension guard has done, "match" (it has
             \* compared, and passed), "mismatch" or "skipped"

schema == <<nextId, column, registry>>
vars   == <<chunks, nextId, column, registry, calls, call,
            found, todo, batch, written, total, verdict>>

-------------------------------------------------------------------------------
Embedding(x, m) == [text |-> x, model |-> m]

\* A row.  A re-embedding keeps rows as they were when it read them.
ChunkRow == [id : Nat, doc : Doc, index : Nat, text : Text, tenant : Tenant,
             embedding : {None} \union [text : Text, model : Model]]

Doing(s, op) == call[s] # None /\ call[s].op = op

\* Mutant: a chunk is found again by its document and its index.
SameChunk_ByIndex(r, c) == r.doc = c.doc /\ r.index = c.index
\* UPDATE chunks ... WHERE id = %s
SameChunk(r, c) == r.id = c.id

\* The CLI takes the default tenant for "no tenant": every chunk.
InScope(c, r) == c.tenant \in {DefaultTenant, r.tenant}

\* Mutant: the SELECT has no ORDER BY id.
Prefixes_Unordered(S) == SUBSET S
\* The sets of rows a re-embedding has been through at some time, as it takes
\* the rows of S in the order of their ids.
Prefixes(S) == { b \in SUBSET S : \A r \in b, q \in S \ b : r.id < q.id }

\* The next batch_size rows.
Batches(S) ==
  { b \in Prefixes(S) :
      Cardinality(b) = IF Cardinality(S) < BatchSize THEN Cardinality(S)
                                                     ELSE BatchSize }

\* The row a re-embedding updates next, and whether another has it locked.
Current(s) == { r \in batch[s] : {r} \in Prefixes(batch[s]) }
Locked(s, r) == \E t \in Session \ {s} : \E w \in written[t] : w.id = r.id

\* The table as it is when s commits.
Updated(s) ==
  { IF \E w \in written[s] : SameChunk(w, c)
      THEN [c EXCEPT !.embedding =
              Embedding((CHOOSE w \in written[s] : SameChunk(w, c)).text,
                        call[s].model)]
      ELSE c : c \in chunks }

\* The rows of a replacement.
Pieces(c) ==
  { [id |-> nextId + i - 1, doc |-> c.doc, index |-> i - 1,
     text |-> c.texts[i], tenant |-> c.tenant,
     embedding |-> IF c.model = None THEN None
                                     ELSE Embedding(c.texts[i], c.model)] :
      i \in 1 .. Len(c.texts) }

\* The comparison of check_embedding_dimension passes a provider.
GuardPasses(m) == ModelDim[m] = registry

\* chunks.embedding takes the vectors of a model.
Fits(m) == ModelDim[m] = column

-------------------------------------------------------------------------------
Init ==
  /\ chunks = {} /\ nextId = 1
  /\ column = InitialDimension /\ registry = InitialDimension
  /\ calls = [s \in Session |-> 0]
  /\ call = [s \in Session |-> None]
  /\ found = [s \in Session |-> {}]
  /\ todo = [s \in Session |-> {}]
  /\ batch = [s \in Session |-> {}]
  /\ written = [s \in Session |-> {}]
  /\ total = [s \in Session |-> 0]
  /\ verdict = [s \in Session |-> None]

\* The call is over, its connection dropped: its locks are free.
EndCall(s) ==
  /\ call' = [call EXCEPT ![s] = None]
  /\ found' = [found EXCEPT ![s] = {}]
  /\ todo' = [todo EXCEPT ![s] = {}]
  /\ batch' = [batch EXCEPT ![s] = {}]
  /\ written' = [written EXCEPT ![s] = {}]
  /\ total' = [total EXCEPT ![s] = 0]
  /\ verdict' = [verdict EXCEPT ![s] = None]
  /\ UNCHANGED calls

Rollback(s) == EndCall(s) /\ UNCHANGED <<chunks, schema>>

\* A session makes its next call.  A re-embedding starts with its SELECT, a
\* health check with its counts, which lock the tables it counts against DDL.
Begin(s, c) ==
  /\ call[s] = None
  /\ calls[s] < MaxCalls
  /\ calls' = [calls EXCEPT ![s] = @ + 1]
  /\ call' = [call EXCEPT ![s] = c]
  /\ IF c.op = "reembed"
       THEN LET rows == { r \in chunks : InScope(c, r) }
            IN  /\ found' = [found EXCEPT ![s] = rows]
                /\ todo' = [todo EXCEPT ![s] = rows]
       ELSE UNCHANGED <<found, todo>>
  /\ UNCHANGED <<chunks, schema, batch, written, total, verdict>>

\* Mutant: the report counts the rows of the batch, not the vectors.
EmbedBatch_CountsRows(s) ==
  /\ Doing(s, "reembed")
  /\ batch[s] = {} /\ todo[s] # {}
  /\ \E b \in Batches(todo[s]) : \E answered \in Prefixes(b) :
       /\ todo' = [todo EXCEPT ![s] = @ \ b]
       /\ batch' = [batch EXCEPT ![s] = answered]
       /\ total' = [total EXCEPT ![s] = @ + Cardinality(b \ answered)]
  /\ UNCHANGED <<chunks, schema, calls, call, found, written, verdict>>

\* The provider embeds the texts of the next batch.  If it returns fewer vectors
\* than texts, zip() drops the last rows of the batch.
EmbedBatch(s) ==
  /\ Doing(s, "reembed")
  /\ batch[s] = {} /\ todo[s] # {}
  /\ \E b \in Batches(todo[s]) : \E answered \in Prefixes(b) :
       /\ todo' = [todo EXCEPT ![s] = @ \ b]
       /\ batch' = [batch EXCEPT ![s] = answered]
  /\ UNCHANGED <<chunks, schema, calls, call, found, written, total, verdict>>

\* UPDATE of the next row of the batch.  It waits for another re-embedding
\* that has updated the row; a row that is gone is counted all the same.
UpdateRow(s) ==
  /\ Doing(s, "reembed")
  /\ \E r \in Current(s) :
       /\ ~ Locked(s, r)
       /\ \/ /\ \E c \in chunks : SameChunk(r, c)
             /\ Fits(call[s].model)
             /\ written' = [written EXCEPT ![s] = @ \union {r}]
          \/ /\ \A c \in chunks : ~ SameChunk(r, c)
             /\ UNCHANGED written
       /\ batch' = [batch EXCEPT ![s] = @ \ {r}]
       /\ total' = [total EXCEPT ![s] = @ + 1]
  /\ UNCHANGED <<chunks, schema, calls, call, found, todo, verdict>>

\* The column does not take the vector: the whole re-embedding is rolled back.
\* Whether the cast of a vector for a row that is gone fails too depends on the
\* plan (constant folding), so both are possible.
UpdateRefused(s) ==
  /\ Doing(s, "reembed")
  /\ batch[s] # {}
  /\ ~ Fits(call[s].model)
  /\ Rollback(s)

CommitReembed(s) ==
  /\ Doing(s, "reembed")
  /\ todo[s] = {} /\ batch[s] = {}
  /\ chunks' = Updated(s)
  /\ EndCall(s)
  /\ UNCHANGED schema

\* The vectors of a replacement, if it brings any, are accepted.
Accepted(c) == c.model \in Model /\ c.texts # << >> => Fits(c.model)

\* replace_chunks, with embeddings computed before it.  It waits for
\* re-embeddings that have updated a chunk of the document.
ReplaceChunks(s) ==
  LET c == call[s]
      old == { r \in chunks : r.doc = c.doc }
  IN  /\ Doing(s, "replace")
      /\ \A r \in old : ~ Locked(s, r)
      /\ Accepted(c)
      /\ chunks' = (chunks \ old) \union Pieces(c)
      /\ nextId' = nextId + Len(c.texts)
      /\ EndCall(s)
      /\ UNCHANGED <<column, registry>>

\* The column does not take the vector of a new chunk.
ReplaceRefused(s) ==
  /\ Doing(s, "replace")
  /\ ~ Accepted(call[s])
  /\ Rollback(s)

\* ALTER TABLE waits for every transaction that uses the table.  One whose
\* statement has failed is aborted and holds no locks.
TableInUse ==
  \E s \in Session :
    Doing(s, "reembed") \/ (Doing(s, "health") /\ verdict[s] # "skipped")

\* Mutant: the dimension is not checked against its bounds.
Resizable_NoRange(n) ==
  \A c \in chunks : c.embedding # None => ModelDim[c.embedding.model] = n

\* pgvector resizes a column only if every vector in it has the new size, and
\* builds an IVFFlat index only up to its limit.
Resizable(n) ==
  /\ n \in 1 .. MaxDimension
  /\ \A c \in chunks : c.embedding # None => ModelDim[c.embedding.model] = n
  /\ n <= IndexLimit

\* Mutant: the registry is written although the column cannot be altered.
ResizeColumn_RegistryFirst(s) ==
  LET n == call[s].dimension
  IN  /\ Doing(s, "set_dimension")
      /\ ~ TableInUse
      /\ n \in 1 .. MaxDimension
      /\ column' = IF Resizable(n) THEN n ELSE column
      /\ registry' = n
      /\ EndCall(s)
      /\ UNCHANGED <<chunks, nextId>>

\* set_embedding_dimension: DROP INDEX, ALTER COLUMN, CREATE INDEX and the
\* registry, in one transaction.
ResizeColumn(s) ==
  LET n == call[s].dimension
  IN  /\ Doing(s, "set_dimension")
      /\ ~ TableInUse
      /\ Resizable(n)
      /\ column' = n
      /\ registry' = n
      /\ EndCall(s)
      /\ UNCHANGED <<chunks, nextId>>

\* The dimension is out of range, or PostgreSQL refuses it: nothing changes.
ResizeRefused(s) ==
  LET n == call[s].dimension
  IN  /\ Doing(s, "set_dimension")
      /\ n \notin 1 .. MaxDimension \/ (~ TableInUse /\ ~ Resizable(n))
      /\ Rollback(s)

\* vector_search: one SELECT, which raises when it compares vectors of different
\* dimensions (the pipeline then degrades or fails).
VectorSearch(s) ==
  /\ Doing(s, "search")
  /\ Rollback(s)

\* check_embedding_dimension, called in the transaction of the counts, compares
\* the provider's dimension with the registry.
CheckDimension(s) ==
  /\ Doing(s, "health") /\ verdict[s] = None
  /\ verdict' = [verdict EXCEPT ![s] =
                   IF GuardPasses(call[s].model) THEN "match" ELSE "mismatch"]
  /\ UNCHANGED <<chunks, schema, calls, call, found, todo, batch, written, total>>

\* Its query raises, for whatever reason: the guard passes silently.
CheckSkipped(s) ==
  /\ Faults
  /\ Doing(s, "health") /\ verdict[s] = None
  /\ verdict' = [verdict EXCEPT ![s] = "skipped"]
  /\ UNCHANGED <<chunks, schema, calls, call, found, todo, batch, written, total>>

\* What health_check reports as dimension_check.
Reported(s) == IF verdict[s] = "mismatch" THEN "mismatch" ELSE "match"

HealthReport(s) ==
  /\ Doing(s, "health") /\ verdict[s] # None
  /\ Rollback(s)

\* The call fails: the process dies, the connection is lost, the provider raises
\* or returns an empty vector, a deadlock with a replacement is resolved.
Fail(s) ==
  /\ Faults
  /\ call[s] # None
  /\ Rollback(s)

\* Every session has made its calls and exited.
Terminated ==
  /\ \A s \in Session : call[s] = None /\ calls[s] = MaxCalls
  /\ UNCHANGED vars

Next ==
  \/ \E s \in Session :
       \/ \E c \in CallsOf[s] : Begin(s, c)
       \/ EmbedBatch(s) \/ UpdateRow(s) \/ UpdateRefused(s) \/ CommitReembed(s)
       \/ ReplaceChunks(s) \/ ReplaceRefused(s)
       \/ ResizeColumn(s) \/ ResizeRefused(s)
       \/ VectorSearch(s)
       \/ CheckDimension(s) \/ CheckSkipped(s) \/ HealthReport(s)
       \/ Fail(s)
  \/ Terminated

Spec == Init /\ [][Next]_vars

-------------------------------------------------------------------------------
(* Properties *)

TypeOK ==
  /\ chunks \subseteq ChunkRow
  /\ nextId \in Nat \ {0}
  /\ column \in Nat \ {0} /\ registry \in Nat \ {0}
  /\ calls \in [Session -> 0 .. MaxCalls]
  /\ call \in [Session -> Call \union {None}]
  /\ found \in [Session -> SUBSET ChunkRow]
  /\ todo \in [Session -> SUBSET ChunkRow]
  /\ batch \in [Session -> SUBSET ChunkRow]
  /\ written \in [Session -> SUBSET ChunkRow]
  /\ total \in [Session -> Nat]
  /\ verdict \in [Session -> {None, "match", "mismatch", "skipped"}]

\* An embedding is that of its chunk's own text, although a re-embedding
\* writes what it computed from texts it read long before, and documents are
\* ingested again meanwhile (repository.py:399-414).
EmbeddingsFitText ==
  \A c \in chunks : c.embedding # None => c.embedding.text = c.text

\* A comparison of the dimension guard is right, and stays right until
\* health_check has reported it: after a match the column takes the provider's
\* vectors and every stored vector can be compared with them, after a mismatch
\* the column refuses them - whatever resizings, re-embeddings and ingestions
\* happen around and between (dimension_guard.py:47-64, tools.py:47-72).
GuardIsRight ==
  \A s \in Session :
    /\ verdict[s] = "match" =>
         /\ Fits(call[s].model)
         /\ \A c \in chunks : c.embedding # None =>
              ModelDim[c.embedding.model] = ModelDim[call[s].model]
    /\ verdict[s] = "mismatch" => ~ Fits(call[s].model)

\* A re-embedding that waits for a row another one holds is behind it in the
\* order of ids: so re-embeddings, of whatever scopes, never wait for one
\* another in a circle (ORDER BY id, repository.py:399).
WaitsAreOrdered ==
  \A s, t \in Session : \A r \in Current(s), q \in Current(t) :
    s # t /\ (\E w \in written[t] : w.id = r.id) => r.id < q.id

\* A re-embedding that reports as many chunks as it found has re-embedded all
\* of them that still exist - even if others re-embedded or replaced them
\* meanwhile (repository.py:414-421).
ReembedIsComplete ==
  [][\A s \in Session :
       CommitReembed(s) /\ total[s] = Cardinality(found[s]) =>
         \A r \in found[s] : \A c \in chunks' :
           c.id = r.id => c.embedding = Embedding(c.text, call[s].model)]_vars

\* docs/operations-runbook.md:71-77: models are migrated "from 384-dimension to
\* 768-dimension embeddings" by new settings and --reembed.
MigrationSucceeds == [][\A s \in Session : ~ UpdateRefused(s)]_vars
===============================================================================
