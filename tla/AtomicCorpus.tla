----------------------------- MODULE AtomicCorpus -----------------------------
(***************************************************************************)
(* What the knowledge repository promises of its corpus, without any of    *)
(* the SQL: documents are registered, have all their chunks replaced, or   *)
(* are removed together with all their chunks, each in ONE step.           *)
(*                                                                         *)
(* src/docs/data-model.md states these promises in its sections 3.1        *)
(* (upsert and atomic chunk replacement), 3.2 (a deletion takes the        *)
(* document and its chunks "immediately and atomically") and 3.3/3.4       *)
(* (deletions of a source and of a tenant).  KnowledgeStore is shown to    *)
(* implement this module.                                                  *)
(***************************************************************************)
EXTENDS Naturals

CONSTANTS
  CallId,      \* names of calls: the writer of a row, and a document's id
  Uri, Tenant, Version,
  ChunkCount   \* [Version -> Nat]: how many chunks a content is split into

VARIABLES documents, chunks

avars == <<documents, chunks>>

AInit == documents = {} /\ chunks = {}

\* The complete set of chunks of one content, written by call w.
AllPieces(id, v, t, w) ==
  { [doc |-> id, index |-> i, version |-> v, tenant |-> t, writer |-> w] :
      i \in 0 .. ChunkCount[v] - 1 }

\* A known URI keeps its id; only its content, its tenant and its writer change.
UpdateDocument(d, t, v, w) ==
  /\ d \in documents
  /\ documents' = (documents \ {d}) \union
                    { [id |-> d.id, uri |-> d.uri, tenant |-> t,
                       version |-> v, writer |-> w] }
  /\ UNCHANGED chunks

\* A new URI gets an id that no row of either table mentions.
RegisterDocument(u, t, v, w) ==
  /\ \A d \in documents : d.uri # u /\ d.id # w
  /\ \A c \in chunks : c.doc # w
  /\ documents' = documents \union
                    { [id |-> w, uri |-> u, tenant |-> t,
                       version |-> v, writer |-> w] }
  /\ UNCHANGED chunks

\* All chunks of one document give way to all chunks of one content.
ReplaceChunksOf(id, v, t, w) ==
  /\ AllPieces(id, v, t, w) # {} => \E d \in documents : d.id = id
  /\ chunks' = { c \in chunks : c.doc # id } \union AllPieces(id, v, t, w)
  /\ UNCHANGED documents

\* Documents leave with all their chunks.  A removal of several documents
\* stays within one tenant.
RemoveDocuments(D) ==
  /\ \A d, e \in D : d.tenant = e.tenant
  /\ documents' = documents \ D
  /\ chunks' = { c \in chunks : \A d \in D : c.doc # d.id }

ANext ==
  \/ \E w \in CallId, t \in Tenant, v \in Version :
       \/ \E d \in documents : UpdateDocument(d, t, v, w)
       \/ \E u \in Uri : RegisterDocument(u, t, v, w)
       \/ \E id \in CallId : ReplaceChunksOf(id, v, t, w)
  \/ \E D \in SUBSET documents : RemoveDocuments(D)

ASpec == AInit /\ [][ANext]_avars
===============================================================================
