------------------------------ MODULE ToolServer ------------------------------
(***************************************************************************)
(* The tools of the MCP server (src/src/knowledge_fabric/mcp/server.py and *)
(* mcp/tools.py) over the tables they read, while other processes write.   *)
(* Every tool but health_check needs a tenant: its argument, or the        *)
(* server's default.  A tool is one SELECT, so one step, except            *)
(* get_index_status, which makes three, each with a snapshot of its own.   *)
(*                                                                         *)
(* The retrieval itself is RetrievalPipeline; here it is any choice of     *)
(* chunks that the application's filter and the policies let through, and  *)
(* the evidence package built of them.                                     *)
(***************************************************************************)
EXTENDS EvidencePackages, FiniteSets

CONSTANTS
  Uri, Tenant, Version, ChunkCount,
  SourceTypeOf,   \* [Uri -> source types]
  Servers,        \* what the server can be started with: its default tenant, its
                  \* signing key, whether tenant names are checked strictly, and
                  \* whether its role is subject to the policies
  Name,           \* what can be given as a tenant: NoTenant is nothing given,
  Empty,          \* this the empty string
  Cleaned,        \* [strict -> [name -> tenant]]: validate_tenant_id, NoTenant for
                  \* blanks and for a name that is refused
  MaxWrites,      \* bound: transactions of other processes
  MaxItems        \* bound: items of a package

ASSUME ServerAssumption ==
  /\ ChunkCount \in [Version -> Nat]
  /\ MaxWrites \in Nat /\ MaxItems \in Nat
  /\ NoTenant \notin Tenant /\ {NoTenant, Empty} \subseteq Name
  /\ Cleaned \in [BOOLEAN -> [Name -> Tenant \union {NoTenant}]]
  /\ \A strict \in BOOLEAN, n \in {NoTenant, Empty} : Cleaned[strict][n] = NoTenant
  /\ Servers \subseteq [tenant : Name, key : STRING, strict : BOOLEAN, row_security : BOOLEAN]

VARIABLES
  documents, chunks, writes,  \* the committed corpus, and how often it changed
  server,                     \* the server's settings
  reading,                    \* a get_index_status under way
  reply                       \* the last tool's answer

vars == <<documents, chunks, writes, server, reading, reply>>

Corpus == INSTANCE AtomicCorpus WITH CallId <- 1 .. MaxWrites

Nothing == [tool |-> "none"]

Init ==
  /\ Corpus!AInit
  /\ writes = 0
  /\ server \in Servers
  /\ reading = Nothing /\ reply = Nothing

\* Another process commits a transaction.
Write ==
  /\ writes < MaxWrites
  /\ writes' = writes + 1
  /\ \/ \E t \in Tenant, v \in Version :
          \/ \E d \in documents : Corpus!UpdateDocument(d, t, v, writes')
          \/ \E u \in Uri : Corpus!RegisterDocument(u, t, v, writes')
          \/ \E d \in documents : Corpus!ReplaceChunksOf(d.id, v, t, writes')
     \/ \E d \in documents : Corpus!RemoveDocuments({d})
  /\ UNCHANGED <<server, reading, reply>>

-------------------------------------------------------------------------------
(* Tenants and rows *)

\* Mutant: the server's default comes first.
RequireTenant_DefaultFirst(arg) ==
  Cleaned[server.strict][IF server.tenant \notin {NoTenant, Empty} THEN server.tenant ELSE arg]

\* _require_tenant: the default stands in for no argument and for an empty one,
\* but not for one of blanks, nor for one that is refused.
RequireTenant(arg) ==
  Cleaned[server.strict][IF arg \notin {NoTenant, Empty} THEN arg ELSE server.tenant]

\* The policies of one table, for a transaction that has set the tenant.
Policy(row, t) == server.row_security => row.tenant = t

Docs(t) == { d \in documents : d.tenant = t }
DocOf(c) == CHOOSE d \in documents : d.id = c.doc

\* FROM chunks c JOIN documents d, as the policies show them.
Joined(t) ==
  { c \in chunks : \E d \in documents :
      d.id = c.doc /\ Policy(c, t) /\ Policy(d, t) }

-------------------------------------------------------------------------------
(* The tools *)

Idle == reading = Nothing

Says(answer) == reply' = answer /\ UNCHANGED <<documents, chunks, writes, server, reading>>

\* A tool called without a tenant to be had answers with an error, no row read.
Refuse ==
  /\ Idle
  /\ \E arg \in Name :
       /\ RequireTenant(arg) \notin Tenant
       /\ Says([tool |-> "refused", arg |-> arg])

\* Without a tenant the policies show nothing; the database may be out of reach.
HealthCheck ==
  /\ Idle
  /\ \/ Says([tool |-> "health_check", db |-> "error", document_count |-> 0, chunk_count |-> 0])
     \/ Says([tool |-> "health_check", db |-> "connected",
              document_count |-> IF server.row_security THEN 0 ELSE Cardinality(documents),
              chunk_count |-> IF server.row_security THEN 0 ELSE Cardinality(chunks)])

\* The answer of a scoped tool: the rows it has read, with the tenant each
\* document had then, and what it makes of them.
Answer(tool, arg, docs, chs, content) ==
  [tool |-> tool, arg |-> arg, docs |-> docs, content |-> content,
   chunks |-> { [chunk |-> c, owner |-> DocOf(c).tenant] : c \in chs }]

\* A failing SELECT becomes an empty answer with an error text.
ListSources ==
  /\ Idle
  /\ \E arg \in Name :
       /\ RequireTenant(arg) \in Tenant
       /\ Says(Answer("list_sources", arg, Docs(RequireTenant(arg)), {},
                      [k \in { SourceTypeOf[d.uri] : d \in Docs(RequireTenant(arg)) } |->
                         Cardinality({ d \in Docs(RequireTenant(arg)) :
                                         SourceTypeOf[d.uri] = k })]))

GetDocument ==
  /\ Idle
  /\ \E arg \in Name, u \in Uri :
       /\ RequireTenant(arg) \in Tenant
       /\ Says(Answer("get_document", arg,
                      { d \in Docs(RequireTenant(arg)) : d.uri = u }, {}, "document"))

\* get_chunk: the row's own tenant or its document's.
GetEvidence ==
  /\ Idle
  /\ \E arg \in Name : LET t == RequireTenant(arg) IN
       /\ t \in Tenant
       /\ \E found \in SUBSET { c \in Joined(t) : c.tenant = t \/ DocOf(c).tenant = t } :
            /\ Cardinality(found) <= 1
            /\ Says(Answer("get_evidence", arg, {}, found, "chunk"))

Hit(c) == [chunk |-> <<c.writer, c.index>>, uri |-> DocOf(c).uri,
           snippet |-> <<c.version, c.index>>, score |-> 1]

PackageOf(hits, t) ==
  BuildEvidencePackage("q", [i \in DOMAIN hits |-> Hit(hits[i])], t, "hybrid", "id",
                       writes, server.key)

\* retrieve_evidence: the filter looks at the document's tenant.
RetrieveEvidence ==
  /\ Idle
  /\ \E arg \in Name : LET t == RequireTenant(arg) IN
       /\ t \in Tenant
       /\ \E n \in 0 .. MaxItems :
          \E hits \in [1 .. n -> { c \in Joined(t) : DocOf(c).tenant = t }] :
            /\ \A i, j \in 1 .. n : hits[i] = hits[j] => i = j
            /\ Says(Answer("retrieve_evidence", arg, {}, { hits[i] : i \in 1 .. n },
                           PackageOf(hits, t)))

\* get_index_status: the documents, then the chunks, then the breakdown.
CountDocuments ==
  /\ Idle
  /\ \E arg \in Name :
       /\ RequireTenant(arg) \in Tenant
       /\ reading' = [tool |-> "get_index_status", arg |-> arg, step |-> "chunks",
                      since |-> writes, chunks |-> 0,
                      documents |-> Cardinality(Docs(RequireTenant(arg)))]
  /\ UNCHANGED <<documents, chunks, writes, server, reply>>

CountChunks ==
  /\ ~ Idle /\ reading.step = "chunks"
  /\ reading' = [reading EXCEPT !.step = "sources",
                   !.chunks = Cardinality({ c \in chunks : c.tenant = RequireTenant(reading.arg) })]
  /\ UNCHANGED <<documents, chunks, writes, server, reply>>

\* Mutant: the breakdown is an inner join, documents without chunks drop out.
Breakdown_InnerJoin(t) ==
  LET joined == { d \in Docs(t) : \E c \in chunks : c.doc = d.id /\ Policy(c, t) }
  IN  [k \in { SourceTypeOf[d.uri] : d \in joined } |->
         [documents |-> Cardinality({ d \in joined : SourceTypeOf[d.uri] = k }),
          chunks    |-> Cardinality({ c \in chunks : \E d \in joined :
                          c.doc = d.id /\ SourceTypeOf[d.uri] = k /\ Policy(c, t) })]]

\* documents LEFT JOIN chunks, filtered and grouped by the document.
Breakdown(t) ==
  [k \in { SourceTypeOf[d.uri] : d \in Docs(t) } |->
     [documents |-> Cardinality({ d \in Docs(t) : SourceTypeOf[d.uri] = k }),
      chunks    |-> Cardinality({ c \in chunks : \E d \in Docs(t) :
                      c.doc = d.id /\ SourceTypeOf[d.uri] = k /\ Policy(c, t) })]]

BreakDown ==
  /\ ~ Idle /\ reading.step = "sources"
  /\ reading' = Nothing
  /\ reply' = [tool |-> "get_index_status", arg |-> reading.arg, since |-> reading.since,
               total_documents |-> reading.documents, total_chunks |-> reading.chunks,
               sources |-> Breakdown(RequireTenant(reading.arg))]
  /\ UNCHANGED <<documents, chunks, writes, server>>

Next ==
  \/ Write \/ Refuse \/ HealthCheck \/ ListSources \/ GetDocument \/ GetEvidence
  \/ RetrieveEvidence \/ CountDocuments \/ CountChunks \/ BreakDown

Spec == Init /\ [][Next]_vars

-------------------------------------------------------------------------------
(* Properties *)

\* Who may be answered: the tenant that was named, or the default if none was.
Asker ==
  LET named == reply.arg # NoTenant /\ reply.arg # Empty
  IN  IF named THEN Cleaned[server.strict][reply.arg] ELSE Cleaned[server.strict][server.tenant]

\* A tool hands out no row that is not the asker's: its documents are the
\* asker's, its chunks are the asker's or belong to the asker's documents (a
\* document moved to another tenant keeps its old chunks until they are
\* replaced) - and with the policies both.  Nothing is handed out to nobody.
RepliesStayInTenant ==
  reply.tool \in {"list_sources", "get_document", "get_evidence", "retrieve_evidence"} =>
    /\ Asker \in Tenant
    /\ \A d \in reply.docs : d.tenant = Asker
    /\ \A x \in reply.chunks :
         /\ Asker \in {x.chunk.tenant, x.owner}
         /\ server.row_security => x.chunk.tenant = Asker /\ x.owner = Asker

\* The totals of get_index_status are the sums of its breakdown, of documents
\* always and of chunks when each has its document's tenant - unless a
\* transaction of another process came between its three snapshots.
StatusAddsUp ==
  LET Sum(f) == Cardinality(UNION { {k} \X (1 .. f[k]) : k \in DOMAIN f })
  IN  reply.tool = "get_index_status" /\ reply.since = writes =>
        /\ reply.total_documents = Sum([k \in DOMAIN reply.sources |-> reply.sources[k].documents])
        /\ (\A c \in chunks, d \in documents : c.doc = d.id => c.tenant = d.tenant)
           => reply.total_chunks = Sum([k \in DOMAIN reply.sources |-> reply.sources[k].chunks])

\* What one may do to a package without the key: reorder, drop or repeat items,
\* put another text or another document under an item with its hash made
\* anew, and rename the tenant, the query or the time - with every hash made
\* anew that needs no key.
Rehashed(p) ==
  [p EXCEPT !.provenance_digest = PackageDigest(p.items),
            !.query_fingerprint = QueryFingerprint(p.query_text, p.tenant_id, p.mode)]
Resaid(item, s, u) ==
  [item EXCEPT !.snippet = s, !.uri = u, !.provenance_hash = ChunkHash(u, s)]
Reordered(p) ==
  LET n == Len(p.items)
  IN  { Rehashed([p EXCEPT !.items = [i \in 1 .. n |-> p.items[f[i]]]]) : f \in [1 .. n -> 1 .. n] }
Cut(p) == { Rehashed([p EXCEPT !.items = SubSeq(p.items, 1, m)]) : m \in 0 .. Len(p.items) }
Reworded(p) ==
  { Rehashed([p EXCEPT !.items[x[1]] = Resaid(p.items[x[1]], <<x[2], 0>>, x[3])]) :
      x \in (1 .. Len(p.items)) \X Version \X Uri }
Renamed(p) == { Rehashed([p EXCEPT !.tenant_id = t]) : t \in Tenant }
Redated(p) == [p EXCEPT !.generated_at = @ + 1]
Reasked(p) == Rehashed([p EXCEPT !.query_text = "r"])
Alterations(p) ==
  Reordered(p) \union Cut(p) \union Reworded(p) \union Renamed(p) \union {Redated(p), Reasked(p)}

Content(p) ==
  <<p.query_text, p.tenant_id, p.mode, p.retrieval_id, p.generated_at,
    [i \in DOMAIN p.items |-> <<p.items[i].uri, p.items[i].snippet>>]>>

\* Of a package that was signed only its own content passes for genuine, in its
\* own order; of one made without a key any of the alterations does.
SignaturesBind ==
  reply.tool = "retrieve_evidence" =>
    /\ Genuine(reply.content, server.key)
    /\ \A p \in Alterations(reply.content) :
         Genuine(p, server.key) <=> (server.key = "" \/ Content(p) = Content(reply.content))
===============================================================================
