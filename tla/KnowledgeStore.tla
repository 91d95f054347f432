---------------------------- MODULE KnowledgeStore ----------------------------
(***************************************************************************)
(* KnowledgeRepository (src/src/knowledge_fabric/db/repository.py), the    *)
(* AuditLogger (db/audit.py) and the PostgreSQL tables they write          *)
(* (src/db/schema), as seen by several processes at once.                  *)
(*                                                                         *)
(* Every repository call opens its own connection with autocommit off      *)
(* (db/connection.py), so a call is one READ COMMITTED transaction -       *)
(* except an ingestion, which is two: upsert_document, then                *)
(* replace_chunks.  A session is a process (an ingestion CLI, a connector  *)
(* sync, an MCP server) that makes one call after another.                 *)
(*                                                                         *)
(* A transaction sees the committed tables; what it has done so far is     *)
(* private to it: `gone`, the chunk and log rows it has deleted, `docgone`,*)
(* the documents it has deleted, and `fresh`, the chunks it has inserted.  *)
(* These sets are also its row locks.  `scan` and `docscan` are the rows   *)
(* its current DELETE statement found in its snapshot and has still to     *)
(* lock.  At commit the private sets are applied to the tables.            *)
(***************************************************************************)
EXTENDS Naturals, FiniteSets, Relation

CONSTANTS
  Session,        \* the processes that use the database
  Uri,            \* source URIs
  Tenant,
  DefaultTenant,  \* the tenant a retrieval without one is logged under
  SourceTypeOf,   \* [Uri -> source types]: a URI's format follows its suffix
  Version,        \* the contents a source can have
  ChunkCount,     \* [Version -> Nat]: how many chunks chunk_document makes
  CallsOf,        \* [Session -> set of calls]: what each session may call
  MaxCalls,       \* bound: calls a session makes before it exits
  Faults,         \* whether calls may fail for reasons of their own
  None            \* Python's None: no tenant, no document, no call

Op == {"ingest", "delete_document", "delete_by_source", "purge_tenant",
       "log_retrieval"}

\* The calls, with the arguments that matter.
Ingest(u, t, v)      == [op |-> "ingest", uri |-> u, tenant |-> t, version |-> v]
DeleteDocument(u, t) == [op |-> "delete_document", uri |-> u, tenant |-> t]
DeleteBySource(f, t) == [op |-> "delete_by_source", source_type |-> f, tenant |-> t]
PurgeTenant(t)       == [op |-> "purge_tenant", tenant |-> t]
LogRetrieval(t)      == [op |-> "log_retrieval", tenant |-> t]

Call == UNION { CallsOf[s] : s \in Session }

ASSUME StoreAssumption ==
  /\ DefaultTenant \in Tenant
  /\ None \notin Tenant
  /\ ChunkCount \in [Version -> Nat]
  /\ MaxCalls \in Nat
  /\ Faults \in BOOLEAN

ASSUME CallAssumption ==
  \A s \in Session : \A c \in CallsOf[s] :
    /\ c # None
    /\ c.op \in Op
    /\ c.op = "ingest" =>
         c.uri \in Uri /\ c.tenant \in Tenant /\ c.version \in Version
    /\ c.op = "delete_document" =>
         c.uri \in Uri /\ c.tenant \in Tenant \union {None}
    /\ c.op \in {"delete_by_source", "purge_tenant"} => c.tenant \in Tenant
    /\ c.op = "log_retrieval" => c.tenant \in Tenant \union {None}

ASSUME NoneAssumption == None \notin Session \X (1 .. MaxCalls)

VARIABLES
  documents,  \* committed rows of table documents
  chunks,     \* committed rows of table chunks
  logs,       \* committed rows of retrieval_runs and audit_events
  calls,      \* number of calls each session has made
  pc,         \* where each session is in its call
  call,       \* the call it is in
  doc,        \* the id its upsert_document returned
  scan, gone, docscan, docgone, fresh

db     == <<documents, chunks, logs>>
client == <<calls, call, doc>>
vars   == <<documents, chunks, logs, calls, pc, call, doc,
            scan, gone, docscan, docgone, fresh>>

-------------------------------------------------------------------------------
(* Rows *)

\* A call's name.  It stands for the transaction that wrote a row, and for the
\* BIGSERIAL id of a document: both are never used twice.
CallId == Session \X (1 .. MaxCalls)
Me(s) == <<s, calls[s]>>

DocumentRow == [id : CallId, uri : Uri, tenant : Tenant, version : Version,
                writer : CallId]
ChunkRow == [doc : CallId, index : Nat, version : Version, tenant : Tenant,
             writer : CallId]
LogRow == [table : {"retrieval_runs", "audit_events"}, tenant : Tenant,
           writer : CallId]

\* The row replace_chunks inserts for chunk i, and the rows it inserts in all.
Piece(s, i) == [doc |-> doc[s], index |-> i, version |-> call[s].version,
                tenant |-> call[s].tenant, writer |-> Me(s)]
Pieces(s) == { Piece(s, i) : i \in 0 .. ChunkCount[call[s].version] - 1 }

ChunksOf(id) == { c \in chunks : c.doc = id }

\* Mutant: purge_tenant deletes the audit events first, the runs after.
LogsOf_Swapped(table, t) == { r \in logs : r.table # table /\ r.tenant = t }
LogsOf(table, t) == { r \in logs : r.table = table /\ r.tenant = t }

\* The WHERE clauses of the three deletions.  delete_document finds a row by
\* id or by URI: an id's URI never changes, so the two are the same.
Matches(c, d) ==
  \/ /\ c.op = "delete_document"
     /\ d.uri = c.uri
     /\ c.tenant \in {None, d.tenant}
  \/ /\ c.op = "delete_by_source"
     /\ SourceTypeOf[d.uri] = c.source_type
     /\ d.tenant = c.tenant
  \/ /\ c.op = "purge_tenant"
     /\ d.tenant = c.tenant

\* Mutant: log_retrieval does not fall back to the default tenant.
EffectiveTenant_NoDefault(c) == c.tenant

EffectiveTenant(c) == IF c.tenant = None THEN DefaultTenant ELSE c.tenant

-------------------------------------------------------------------------------
(* Row locks: who must end before s can go on *)

\* A deleted row stays locked by the transaction that deletes it.
RowHolders(s, r) == { t \in Session \ {s} : r \in gone[t] }

\* A deleted document row excludes every other use of it ...
Deleters(s, id) == { t \in Session \ {s} : id \in docgone[t] }

\* ... and the foreign key check of an inserted chunk locks its document
\* against deletion (FOR KEY SHARE).  Upserts do not disturb that lock.
KeySharers(s, id) == { t \in Session \ {s} : fresh[t] # {} /\ doc[t] = id }

\* UNIQUE (document_id, chunk_index) makes an insert wait for a transaction
\* that has inserted the key, or has deleted a row with the key.
KeyHolders(s, i) ==
  { t \in Session \ {s} :
      \E c \in fresh[t] \union (gone[t] \intersect chunks) :
        c.doc = doc[s] /\ c.index = i }

\* The index of the chunk s inserts next.
NextIndex(s) == Cardinality(fresh[s])

\* The key of that chunk belongs to a committed row nobody is deleting.
KeyTaken(s) ==
  \E c \in ChunksOf(doc[s]) :
    c.index = NextIndex(s) /\ \A t \in Session : c \notin gone[t]

Inserting(s) ==
  /\ pc[s] = "replace"
  /\ scan[s] = {}
  /\ fresh[s] # Pieces(s)

\* The sessions s is waiting for: none when s can take a step of its own.
Blockers(s) ==
  CASE pc[s] = "upsert" ->
         UNION { Deleters(s, d.id) : d \in {e \in documents : e.uri = call[s].uri} }
    [] pc[s] = "documents" /\ docscan[s] # {} ->
         LET holders(id) == Deleters(s, id) \union KeySharers(s, id)
         IN  IF \E id \in docscan[s] : holders(id) = {} THEN {}
             ELSE UNION { holders(id) : id \in docscan[s] }
    [] scan[s] # {} ->
         IF \E r \in scan[s] : RowHolders(s, r) = {} THEN {}
         ELSE UNION { RowHolders(s, r) : r \in scan[s] }
    [] Inserting(s) ->
         IF KeyTaken(s) THEN {}
         ELSE KeyHolders(s, NextIndex(s)) \union Deleters(s, doc[s])
    [] OTHER -> {}

WaitsFor == [p \in Session \X Session |-> p[2] \in Blockers(p[1])]

-------------------------------------------------------------------------------
Init ==
  /\ documents = {} /\ chunks = {} /\ logs = {}
  /\ calls = [s \in Session |-> 0]
  /\ pc = [s \in Session |-> "idle"]
  /\ call = [s \in Session |-> None]
  /\ doc = [s \in Session |-> None]
  /\ scan = [s \in Session |-> {}]
  /\ gone = [s \in Session |-> {}]
  /\ docscan = [s \in Session |-> {}]
  /\ docgone = [s \in Session |-> {}]
  /\ fresh = [s \in Session |-> {}]

\* The call is over and its connection is dropped: what it had not committed
\* is forgotten and its locks are free.
EndCall(s) ==
  /\ pc' = [pc EXCEPT ![s] = "idle"]
  /\ call' = [call EXCEPT ![s] = None]
  /\ doc' = [doc EXCEPT ![s] = None]
  /\ scan' = [scan EXCEPT ![s] = {}]
  /\ gone' = [gone EXCEPT ![s] = {}]
  /\ docscan' = [docscan EXCEPT ![s] = {}]
  /\ docgone' = [docgone EXCEPT ![s] = {}]
  /\ fresh' = [fresh EXCEPT ![s] = {}]
  /\ UNCHANGED calls

\* Mutant: the connection of a failed call stays open, and its locks with it.
Rollback_KeepsLocks(s) ==
  /\ pc' = [pc EXCEPT ![s] = "idle"]
  /\ call' = [call EXCEPT ![s] = None]
  /\ doc' = [doc EXCEPT ![s] = None]
  /\ UNCHANGED <<calls, scan, gone, docscan, docgone, fresh, db>>

Rollback(s) == EndCall(s) /\ UNCHANGED db

Commit(s) ==
  /\ documents' = { d \in documents : d.id \notin docgone[s] }
  /\ chunks' = (chunks \ gone[s]) \union fresh[s]
  /\ logs' = logs \ gone[s]
  /\ EndCall(s)

\* A session makes its next call.  A deletion starts with its DELETE FROM
\* documents: the rows of its snapshot that match.
Begin(s, c) ==
  /\ pc[s] = "idle"
  /\ calls[s] < MaxCalls
  /\ calls' = [calls EXCEPT ![s] = @ + 1]
  /\ call' = [call EXCEPT ![s] = c]
  /\ \/ /\ c.op = "ingest"
        /\ pc' = [pc EXCEPT ![s] = "upsert"]
        /\ UNCHANGED docscan
     \/ /\ c.op = "log_retrieval"
        /\ pc' = [pc EXCEPT ![s] = "log"]
        /\ UNCHANGED docscan
     \/ /\ c.op \in {"delete_document", "delete_by_source", "purge_tenant"}
        /\ pc' = [pc EXCEPT ![s] = "documents"]
        /\ docscan' = [docscan EXCEPT ![s] =
                         { d.id : d \in {e \in documents : Matches(c, e)} }]
  /\ UNCHANGED <<db, doc, scan, gone, docgone, fresh>>

\* Mutant: the row of a known URI is replaced by one with a new id.
Upsert_NewId(s) ==
  LET c == call[s]
  IN  /\ pc[s] = "upsert"
      /\ \A d \in documents : d.uri = c.uri => Deleters(s, d.id) = {}
      /\ documents' = {d \in documents : d.uri # c.uri} \union
                        { [id |-> Me(s), uri |-> c.uri, tenant |-> c.tenant,
                           version |-> c.version, writer |-> Me(s)] }
      /\ doc' = [doc EXCEPT ![s] = Me(s)]
      /\ pc' = [pc EXCEPT ![s] = "delete"]
      /\ UNCHANGED <<chunks, logs, calls, call, scan, gone, docscan, docgone, fresh>>

\* upsert_document: INSERT ... ON CONFLICT (source_uri) DO UPDATE, committed at
\* once.  It waits for a transaction that is deleting the row it conflicts with.
Upsert(s) ==
  LET c == call[s]
      row(id) == [id |-> id, uri |-> c.uri, tenant |-> c.tenant,
                  version |-> c.version, writer |-> Me(s)]
      put(id) == /\ documents' = {d \in documents : d.uri # c.uri} \union {row(id)}
                 /\ doc' = [doc EXCEPT ![s] = id]
  IN  /\ pc[s] = "upsert"
      /\ \/ \E d \in documents :
              d.uri = c.uri /\ Deleters(s, d.id) = {} /\ put(d.id)
         \/ (\A d \in documents : d.uri # c.uri) /\ put(Me(s))
      /\ pc' = [pc EXCEPT ![s] = "delete"]
      /\ UNCHANGED <<chunks, logs, calls, call, scan, gone, docscan, docgone, fresh>>

\* Mutant: replace_chunks deletes only the chunks of its own tenant.
DeleteChunks_OwnTenant(s) ==
  /\ pc[s] = "delete"
  /\ scan' = [scan EXCEPT ![s] =
                { c \in ChunksOf(doc[s]) : c.tenant = call[s].tenant }]
  /\ pc' = [pc EXCEPT ![s] = "replace"]
  /\ UNCHANGED <<db, client, gone, docscan, docgone, fresh>>

\* replace_chunks opens its transaction with DELETE FROM chunks: the rows of
\* the statement's snapshot.
DeleteChunks(s) ==
  /\ pc[s] = "delete"
  /\ scan' = [scan EXCEPT ![s] = ChunksOf(doc[s])]
  /\ pc' = [pc EXCEPT ![s] = "replace"]
  /\ UNCHANGED <<db, client, gone, docscan, docgone, fresh>>

\* A DELETE gets to one of its rows, in no particular order.  It waits while
\* another transaction is deleting the row, and skips it when it is gone.
LockRow(s) ==
  /\ \E r \in scan[s] :
       /\ RowHolders(s, r) = {}
       /\ scan' = [scan EXCEPT ![s] = @ \ {r}]
       /\ gone' = IF r \in chunks \union logs
                    THEN [gone EXCEPT ![s] = @ \union {r}]
                    ELSE gone
  /\ UNCHANGED <<db, client, pc, docscan, docgone, fresh>>

\* replace_chunks inserts its chunks one by one, in order of chunk_index.
InsertChunk(s) ==
  /\ Inserting(s)
  /\ ~ KeyTaken(s)
  /\ KeyHolders(s, NextIndex(s)) = {}
  /\ Deleters(s, doc[s]) = {}
  /\ \E d \in documents : d.id = doc[s]
  /\ fresh' = [fresh EXCEPT ![s] = @ \union {Piece(s, NextIndex(s))}]
  /\ UNCHANGED <<db, client, pc, scan, gone, docscan, docgone>>

\* The insert breaks the unique key, or the document has been deleted since its
\* upsert: the call raises, and the transaction is rolled back.
InsertRejected(s) ==
  /\ Inserting(s)
  /\ \/ KeyTaken(s)
     \/ /\ KeyHolders(s, NextIndex(s)) = {}
        /\ \A d \in documents : d.id # doc[s]
  /\ Rollback(s)

CommitReplace(s) ==
  /\ pc[s] = "replace"
  /\ scan[s] = {}
  /\ fresh[s] = Pieces(s)
  /\ Commit(s)

\* DELETE FROM documents gets to one of its rows.  After a wait the WHERE
\* clause is evaluated again on the row as it is now.
LockDocument(s) ==
  /\ pc[s] = "documents"
  /\ \E id \in docscan[s] :
       /\ Deleters(s, id) \union KeySharers(s, id) = {}
       /\ docscan' = [docscan EXCEPT ![s] = @ \ {id}]
       /\ docgone' = IF \E d \in documents : d.id = id /\ Matches(call[s], d)
                       THEN [docgone EXCEPT ![s] = @ \union {id}]
                       ELSE docgone
  /\ UNCHANGED <<db, client, pc, scan, gone, fresh>>

\* Mutant: the foreign key does not cascade.
Cascade_Nothing(s) ==
  /\ pc[s] = "documents"
  /\ docscan[s] = {}
  /\ pc' = [pc EXCEPT ![s] = "cascade"]
  /\ UNCHANGED <<db, client, scan, gone, docscan, docgone, fresh>>

\* ON DELETE CASCADE: the same statement deletes the chunks.
Cascade(s) ==
  /\ pc[s] = "documents"
  /\ docscan[s] = {}
  /\ scan' = [scan EXCEPT ![s] = UNION { ChunksOf(id) : id \in docgone[s] }]
  /\ pc' = [pc EXCEPT ![s] = "cascade"]
  /\ UNCHANGED <<db, client, gone, docscan, docgone, fresh>>

\* The second and the third statement of purge_tenant.
PurgeRuns(s) ==
  /\ pc[s] = "cascade"
  /\ scan[s] = {}
  /\ call[s].op = "purge_tenant"
  /\ scan' = [scan EXCEPT ![s] = LogsOf("retrieval_runs", call[s].tenant)]
  /\ pc' = [pc EXCEPT ![s] = "runs"]
  /\ UNCHANGED <<db, client, gone, docscan, docgone, fresh>>

PurgeAudits(s) ==
  /\ pc[s] = "runs"
  /\ scan[s] = {}
  /\ scan' = [scan EXCEPT ![s] = LogsOf("audit_events", call[s].tenant)]
  /\ pc' = [pc EXCEPT ![s] = "audits"]
  /\ UNCHANGED <<db, client, gone, docscan, docgone, fresh>>

CommitDelete(s) ==
  /\ scan[s] = {}
  /\ \/ pc[s] = "cascade" /\ call[s].op # "purge_tenant"
     \/ pc[s] = "audits"
  /\ Commit(s)

\* log_retrieval: two inserts that wait for nobody, in one transaction.
CommitLog(s) ==
  /\ pc[s] = "log"
  /\ logs' = logs \union
       { [table |-> table, tenant |-> EffectiveTenant(call[s]), writer |-> Me(s)] :
           table \in {"retrieval_runs", "audit_events"} }
  /\ EndCall(s)
  /\ UNCHANGED <<documents, chunks>>

\* PostgreSQL resolves a cycle of waiting transactions by failing one of them,
\* that is waiting.
DeadlockVictim(s) ==
  /\ Blockers(s) # {}
  /\ TransitiveClosure(WaitsFor, Session)[<<s, s>>]
  /\ Rollback(s)

\* Mutant: the connection is closed by a block that commits what there is.
Fail_Commits(s) ==
  /\ Faults
  /\ pc[s] # "idle"
  /\ Commit(s)

\* The call fails: the process dies, the connection is lost, the embeddings do
\* not fit the chunks, a vector is empty.
Fail(s) ==
  /\ Faults
  /\ pc[s] # "idle"
  /\ Rollback(s)

\* Every session has made its calls and exited.
Terminated ==
  /\ \A s \in Session : pc[s] = "idle" /\ calls[s] = MaxCalls
  /\ UNCHANGED vars

\* What a session and the database do for a call that has begun.
Step(s) ==
  \/ Upsert(s) \/ DeleteChunks(s) \/ LockRow(s) \/ InsertChunk(s)
  \/ InsertRejected(s) \/ CommitReplace(s) \/ LockDocument(s) \/ Cascade(s)
  \/ PurgeRuns(s) \/ PurgeAudits(s) \/ CommitDelete(s) \/ CommitLog(s)
  \/ DeadlockVictim(s)

Next ==
  \/ \E s \in Session :
       \/ \E c \in CallsOf[s] : Begin(s, c)
       \/ Step(s)
       \/ Fail(s)
  \/ Terminated

Spec == Init /\ [][Next]_vars

\* A process runs on until its call ends, and PostgreSQL serves it.
FairSpec == Spec /\ \A s \in Session : WF_vars(Step(s))

-------------------------------------------------------------------------------
(* Properties *)

TypeOK ==
  /\ documents \subseteq DocumentRow
  /\ chunks \subseteq ChunkRow
  /\ logs \subseteq LogRow
  /\ calls \in [Session -> 0 .. MaxCalls]
  /\ pc \in [Session -> {"idle", "upsert", "delete", "replace", "documents",
                         "cascade", "runs", "audits", "log"}]
  /\ call \in [Session -> Call \union {None}]
  /\ doc \in [Session -> CallId \union {None}]
  /\ scan \in [Session -> SUBSET (ChunkRow \union LogRow)]
  /\ gone \in [Session -> SUBSET (ChunkRow \union LogRow)]
  /\ docscan \in [Session -> SUBSET CallId]
  /\ docgone \in [Session -> SUBSET CallId]
  /\ fresh \in [Session -> SUBSET ChunkRow]

\* The corpus seen without its transactions: the committed documents and chunks.
\* Every upsert, every replacement of a document's chunks and every deletion
\* takes effect in one step, whatever the transactions of other sessions do
\* meanwhile and wherever a call fails (data-model.md 3.1 - 3.4).
Corpus == INSTANCE AtomicCorpus WITH documents <- documents, chunks <- chunks
RefinesAtomicCorpus == Corpus!ASpec

\* Every chunk's document exists: an ingestion whose document is deleted between
\* its two transactions, or during the second, leaves nothing behind.
NoOrphanChunks == \A c \in chunks : \E d \in documents : d.id = c.doc

\* All chunks of a document come from ONE call, and none of its chunks is
\* missing, although overlapping ingestions of a URI neither lock the document
\* nor see each other's chunks.
WholeReplacement ==
  \A c \in chunks :
    ChunksOf(c.doc) =
      { [c EXCEPT !.index = i] : i \in 0 .. ChunkCount[c.version] - 1 }

\* The call s is in deletes chunk c of document d, if it commits.
Attends(s, d, c) ==
  \/ pc[s] = "delete" /\ doc[s] = d.id
  \/ c \in scan[s] \union gone[s]
  \/ d.id \in docgone[s]

\* Documents with a chunk of another content, or another tenant, that the SAME
\* session ingested, and that no call is about to delete.
Outlived ==
  { p \in documents \X chunks : LET d == p[1]  c == p[2] IN
      /\ c.doc = d.id /\ c.writer[1] = d.writer[1]
      /\ c.version # d.version \/ c.tenant # d.tenant
      /\ \A s \in Session : ~ Attends(s, d, c) }

\* A session's older chunks do not outlive its newer upsert: an ingestion that a
\* deadlock or a key of another's chunk fails leaves them to a call that is about
\* to delete them, and that one, when it fails in turn, to the next.  Two things
\* alone leave them for good: a call that fails of itself, and a deletion of
\* several documents that is undone because of another of them, when it has
\* cost the ingestion its call.
OwnIngestsAgree ==
  [][\A p \in Outlived' :
       \/ p \in Outlived
       \/ \E s \in Session :
            \/ p[1].id \in docgone[s] /\ call[s].op # "delete_document"
            \/ Fail(s)]_vars

\* An audit event always has its retrieval run: a purge that overlaps with
\* logging can lose the event of a surviving run, never the other way round.
AuditHasRun ==
  \A a \in logs : a.table = "audit_events" =>
    \E r \in logs : r.table = "retrieval_runs" /\ r.writer = a.writer

\* Every call ends, although a replacement locks chunks before the document and
\* a deletion the document before the chunks.
EveryCallEnds == \A s \in Session : pc[s] # "idle" ~> pc[s] = "idle"
===============================================================================
