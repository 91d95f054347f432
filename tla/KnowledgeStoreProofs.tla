------------------------- MODULE KnowledgeStoreProofs -------------------------
(***************************************************************************)
(* Proofs about KnowledgeStore, for every set of sessions, URIs, tenants   *)
(* and contents, every assignment of calls to sessions and every bound.    *)
(***************************************************************************)
EXTENDS KnowledgeStore, FiniteSetTheorems, TLAPS

-------------------------------------------------------------------------------
(* Type correctness *)

\* A call of a session is one of the calls, and has the arguments its kind needs.
LEMMA CallArguments ==
  ASSUME NEW s \in Session, NEW c \in CallsOf[s]
  PROVE  /\ c \in Call
         /\ c # None
         /\ c.op \in Op
         /\ c.op = "ingest" =>
              c.uri \in Uri /\ c.tenant \in Tenant /\ c.version \in Version
         /\ c.op \in {"delete_by_source", "purge_tenant"} => c.tenant \in Tenant
         /\ c.op = "log_retrieval" => c.tenant \in Tenant \union {None}
BY CallAssumption DEF Call

\* The kind of call a session is in, by where it is: what TypeOK needs besides
\* itself to be inductive.
CallOK ==
  \A s \in Session :
    /\ pc[s] # "idle" => call[s] \in CallsOf[s] /\ calls[s] \in 1 .. MaxCalls
    /\ pc[s] \in {"upsert", "delete", "replace"} => call[s].op = "ingest"
    /\ pc[s] \in {"delete", "replace"} => doc[s] \in CallId
    /\ pc[s] = "log" => call[s].op = "log_retrieval"
    /\ pc[s] \in {"documents", "cascade"} =>
         call[s].op \in {"delete_document", "delete_by_source", "purge_tenant"}
    /\ pc[s] \in {"runs", "audits"} => call[s].op = "purge_tenant"
    /\ IsFiniteSet(fresh[s])
    /\ fresh[s] # {} => pc[s] = "replace"

LEMMA TypeInit == Init => TypeOK /\ CallOK
<1> SUFFICES ASSUME Init PROVE TypeOK /\ CallOK
  OBVIOUS
<1>1. TypeOK
  BY StoreAssumption DEF Init, TypeOK
<1>2. CallOK
  BY FS_EmptySet DEF Init, CallOK
<1> QED BY <1>1, <1>2

\* Ending a call keeps the types, whatever happens to the tables.
LEMMA TypeEndCall ==
  ASSUME TypeOK, CallOK, NEW s \in Session, EndCall(s),
         documents' \subseteq DocumentRow, chunks' \subseteq ChunkRow,
         logs' \subseteq LogRow
  PROVE  TypeOK' /\ CallOK'
<1>1. TypeOK'
  BY DEF TypeOK, EndCall
<1>2. CallOK'
  BY FS_EmptySet DEF TypeOK, CallOK, EndCall
<1> QED BY <1>1, <1>2

LEMMA TypeRollback ==
  ASSUME TypeOK, CallOK, NEW s \in Session, Rollback(s)
  PROVE  TypeOK' /\ CallOK'
BY TypeEndCall DEF Rollback, db, TypeOK

LEMMA TypeCommit ==
  ASSUME TypeOK, CallOK, NEW s \in Session, Commit(s)
  PROVE  TypeOK' /\ CallOK'
<1>1. /\ documents' \subseteq DocumentRow
      /\ chunks' \subseteq ChunkRow
      /\ logs' \subseteq LogRow
  BY DEF Commit, TypeOK
<1> QED BY <1>1, TypeEndCall DEF Commit

LEMMA TypeNext == TypeOK /\ CallOK /\ [Next]_vars => TypeOK' /\ CallOK'
<1> SUFFICES ASSUME TypeOK, CallOK, [Next]_vars
             PROVE  TypeOK' /\ CallOK'
  OBVIOUS
<1>1. ASSUME NEW s \in Session, NEW c \in CallsOf[s], Begin(s, c)
      PROVE  TypeOK' /\ CallOK'
  <2>1. c \in Call
    BY CallArguments
  <2>2. { d.id : d \in {e \in documents : Matches(c, e)} } \subseteq CallId
    BY DEF TypeOK, DocumentRow
  <2>3. calls[s] + 1 \in 1 .. MaxCalls
    BY <1>1, StoreAssumption DEF Begin, TypeOK
  <2>4. TypeOK'
    BY <1>1, <2>1, <2>2, <2>3 DEF Begin, TypeOK, db
  <2>5. CallOK'
    BY <1>1, <2>3 DEF Begin, TypeOK, CallOK, db
  <2> QED BY <2>4, <2>5
<1>2. ASSUME NEW s \in Session, Upsert(s)
      PROVE  TypeOK' /\ CallOK'
  <2> DEFINE row(id) == [id |-> id, uri |-> call[s].uri, tenant |-> call[s].tenant,
                         version |-> call[s].version, writer |-> Me(s)]
  <2>1. Me(s) \in CallId
    BY <1>2 DEF Upsert, CallOK, Me, CallId
  <2>2. call[s].uri \in Uri /\ call[s].tenant \in Tenant /\ call[s].version \in Version
    BY <1>2, CallArguments DEF Upsert, CallOK
  <2>3. PICK id \in CallId :
          /\ documents' = {d \in documents : d.uri # call[s].uri} \union {row(id)}
          /\ doc' = [doc EXCEPT ![s] = id]
    BY <1>2, <2>1 DEF Upsert, TypeOK, DocumentRow
  <2>4. row(id) \in DocumentRow
    BY <2>1, <2>2 DEF DocumentRow
  <2>5. documents' \subseteq DocumentRow
    BY <2>3, <2>4 DEF TypeOK
  <2>6. TypeOK'
    BY <1>2, <2>3, <2>5 DEF Upsert, TypeOK
  <2>7. CallOK'
    BY <1>2, <2>3 DEF Upsert, TypeOK, CallOK
  <2> QED BY <2>6, <2>7
<1>3. ASSUME NEW s \in Session, DeleteChunks(s)
      PROVE  TypeOK' /\ CallOK'
  <2>1. TypeOK'
    BY <1>3 DEF DeleteChunks, ChunksOf, TypeOK, db, client
  <2>2. CallOK'
    BY <1>3 DEF DeleteChunks, TypeOK, CallOK, db, client
  <2> QED BY <2>1, <2>2
<1>4. ASSUME NEW s \in Session, LockRow(s)
      PROVE  TypeOK' /\ CallOK'
  <2>1. TypeOK'
    BY <1>4 DEF LockRow, TypeOK, db, client
  <2>2. CallOK'
    BY <1>4 DEF LockRow, TypeOK, CallOK, db, client
  <2> QED BY <2>1, <2>2
<1>5. ASSUME NEW s \in Session, InsertChunk(s)
      PROVE  TypeOK' /\ CallOK'
  <2>1. NextIndex(s) \in Nat
    BY FS_CardinalityType DEF NextIndex, CallOK
  <2>2. Piece(s, NextIndex(s)) \in ChunkRow
    BY <1>5, <2>1, CallArguments
       DEF InsertChunk, Inserting, CallOK, Piece, ChunkRow, Me, CallId
  <2>3. TypeOK'
    BY <1>5, <2>2 DEF InsertChunk, TypeOK, db, client
  <2>4. IsFiniteSet(fresh[s] \union {Piece(s, NextIndex(s))})
    BY FS_AddElement DEF CallOK
  <2>5. CallOK'
    BY <1>5, <2>4 DEF InsertChunk, Inserting, TypeOK, CallOK, db, client
  <2> QED BY <2>3, <2>5
<1>6. ASSUME NEW s \in Session, LockDocument(s)
      PROVE  TypeOK' /\ CallOK'
  <2>1. TypeOK'
    BY <1>6 DEF LockDocument, TypeOK, db, client
  <2>2. CallOK'
    BY <1>6 DEF LockDocument, TypeOK, CallOK, db, client
  <2> QED BY <2>1, <2>2
<1>7. ASSUME NEW s \in Session, Cascade(s)
      PROVE  TypeOK' /\ CallOK'
  <2>1. UNION { ChunksOf(id) : id \in docgone[s] } \subseteq ChunkRow
    BY DEF ChunksOf, TypeOK
  <2>2. TypeOK'
    BY <1>7, <2>1 DEF Cascade, TypeOK, db, client
  <2>3. CallOK'
    BY <1>7 DEF Cascade, TypeOK, CallOK, db, client
  <2> QED BY <2>2, <2>3
<1>8. ASSUME NEW s \in Session, PurgeRuns(s) \/ PurgeAudits(s)
      PROVE  TypeOK' /\ CallOK'
  <2>1. \A table, t : LogsOf(table, t) \subseteq LogRow
    BY DEF LogsOf, TypeOK
  <2>2. TypeOK'
    BY <1>8, <2>1 DEF PurgeRuns, PurgeAudits, TypeOK, db, client
  <2>3. CallOK'
    BY <1>8 DEF PurgeRuns, PurgeAudits, TypeOK, CallOK, db, client
  <2> QED BY <2>2, <2>3
<1>9. ASSUME NEW s \in Session, CommitLog(s)
      PROVE  TypeOK' /\ CallOK'
  <2>1. Me(s) \in CallId
    BY <1>9 DEF CommitLog, CallOK, Me, CallId
  <2>2. EffectiveTenant(call[s]) \in Tenant
    BY <1>9, CallArguments, StoreAssumption DEF CommitLog, CallOK, EffectiveTenant
  <2>3. { [table |-> table, tenant |-> EffectiveTenant(call[s]), writer |-> Me(s)] :
           table \in {"retrieval_runs", "audit_events"} } \subseteq LogRow
    BY <2>1, <2>2 DEF LogRow
  <2>4. logs' \subseteq LogRow
    BY <1>9, <2>3 DEF CommitLog, TypeOK
  <2> QED BY <1>9, <2>4, TypeEndCall DEF CommitLog, TypeOK
<1>10. ASSUME NEW s \in Session, CommitReplace(s) \/ CommitDelete(s)
       PROVE  TypeOK' /\ CallOK'
  BY <1>10, TypeCommit DEF CommitReplace, CommitDelete
<1>11. ASSUME NEW s \in Session, InsertRejected(s) \/ DeadlockVictim(s) \/ Fail(s)
       PROVE  TypeOK' /\ CallOK'
  BY <1>11, TypeRollback DEF InsertRejected, DeadlockVictim, Fail
<1>12. CASE UNCHANGED vars
  BY <1>12 DEF vars, TypeOK, CallOK
<1> QED
  BY <1>1, <1>2, <1>3, <1>4, <1>5, <1>6, <1>7, <1>8, <1>9, <1>10, <1>11, <1>12
     DEF Next, Step, Terminated

\* The variables keep their types: in particular an id that upsert_document
\* returned names a row, and every written chunk and log row has a tenant.
THEOREM TypeCorrect == Spec => []TypeOK
<1>1. TypeOK /\ CallOK => TypeOK
  OBVIOUS
<1> QED BY TypeInit, TypeNext, <1>1, PTL DEF Spec
-------------------------------------------------------------------------------
(***************************************************************************)
(* The inductive invariant.  WholeReplacement is not inductive by itself:  *)
(* that no two ingestions mix their chunks follows from the order in which *)
(* a transaction meets the locks (it deletes the old chunks, then inserts  *)
(* index 0, then the others), from names that are never used twice, and    *)
(* from every deletion having found either all chunks of a document or     *)
(* none.                                                                   *)
(***************************************************************************)

\* w names no document, and wrote no chunk or log row anybody knows of.
NoDocument(w) ==
  /\ \A d \in documents : d.id # w
  /\ \A c \in chunks : c.doc # w
  /\ \A s \in Session : doc[s] # w
NoRowBy(w) ==
  /\ \A r \in chunks \union logs : r.writer # w
  /\ \A s \in Session : \A r \in scan[s] \union gone[s] : r.writer # w

\* The names of future calls are unused, and a call's own until its commit.
Names ==
  \A t \in Session, n \in 1 .. MaxCalls :
    /\ n > calls[t] \/ (n = calls[t] /\ pc[t] = "upsert") => NoDocument(<<t, n>>)
    /\ n > calls[t] \/ (n = calls[t] /\ pc[t] \in {"upsert", "delete", "replace", "log"})
         => NoRowBy(<<t, n>>)

\* What a transaction holds, by where it is.
Local ==
  \A s \in Session :
    /\ pc[s] \in {"idle", "upsert", "delete", "log", "documents"} =>
         scan[s] = {} /\ gone[s] = {}
    /\ pc[s] \in {"idle", "upsert", "delete", "log", "replace"} => docgone[s] = {}
    /\ fresh[s] # {} => scan[s] = {} /\ Piece(s, 0) \in fresh[s]

\* replace_chunks has found all chunks its document has now, or none of them.
AllOrNone ==
  \A s \in Session : pc[s] = "replace" =>
    /\ \A r \in scan[s] \union gone[s] : r.doc = doc[s]
    /\ \A c, e \in ChunksOf(doc[s]) :
         c \in scan[s] \union gone[s] => e \in scan[s] \union gone[s]

\* Once it has inserted a chunk, its document stays, nobody else inserts into
\* it, and it is deleting every other chunk of it.
Exclusive ==
  \A s \in Session : fresh[s] # {} =>
    /\ \E d \in documents : d.id = doc[s]
    /\ \A t \in Session : doc[s] \notin docgone[t]
    /\ \A t \in Session \ {s} : fresh[t] # {} => doc[t] # doc[s]
    /\ ChunksOf(doc[s]) \subseteq gone[s]

\* A deletion holds documents that match it, alone, and exactly their chunks.
Deleting ==
  \A s \in Session :
    /\ \A id \in docgone[s] : \E d \in documents : d.id = id /\ Matches(call[s], d)
    /\ \A t \in Session \ {s} : docgone[s] \intersect docgone[t] = {}
    /\ pc[s] \in {"cascade", "runs", "audits"} =>
         \A c \in chunks : c.doc \in docgone[s] <=> c \in scan[s] \union gone[s]

\* ids and URIs are keys of documents.
DocumentKeys ==
  \A d, e \in documents : d.id = e.id \/ d.uri = e.uri => d = e

Tables == DocumentKeys /\ NoOrphanChunks /\ WholeReplacement

IInv ==
  /\ TypeOK /\ CallOK
  /\ Names /\ Local /\ AllOrNone /\ Exclusive /\ Deleting /\ Tables

LEMMA InvInit == Init => IInv
<1> SUFFICES ASSUME Init PROVE IInv
  OBVIOUS
<1>1. TypeOK /\ CallOK
  BY TypeInit
<1>2. Names
  BY NoneAssumption DEF Init, Names, NoDocument, NoRowBy
<1>3. Local /\ AllOrNone /\ Exclusive /\ Deleting
  BY DEF Init, Local, AllOrNone, Exclusive, Deleting, ChunksOf
<1>4. Tables
  BY DEF Init, Tables, DocumentKeys, NoOrphanChunks, WholeReplacement
<1> QED BY <1>1, <1>2, <1>3, <1>4 DEF IInv

\* What replace_chunks inserts depends on nothing but its own call.
LEMMA PiecesStable ==
  ASSUME NEW t \in Session,
         call'[t] = call[t], calls'[t] = calls[t], doc'[t] = doc[t]
  PROVE  Pieces(t)' = Pieces(t) /\ Piece(t, 0)' = Piece(t, 0)
BY DEF Pieces, Piece, Me

LEMMA InvBegin ==
  ASSUME IInv, TypeOK', NEW s \in Session, NEW c \in CallsOf[s], Begin(s, c)
  PROVE  Names' /\ Local' /\ AllOrNone' /\ Exclusive' /\ Deleting' /\ Tables'
<1> USE DEF IInv, Begin, db
<1>1. Names'
  BY DEF TypeOK, Names, NoDocument, NoRowBy
<1>2. Local'
  <2>1. \A t \in Session : fresh[t] # {} => t # s
    BY DEF CallOK
  <2>2. \A t \in Session : t # s =>
          call'[t] = call[t] /\ calls'[t] = calls[t] /\ doc'[t] = doc[t]
    BY DEF TypeOK
  <2> QED BY <2>1, <2>2, PiecesStable DEF TypeOK, CallOK, Local
<1>3. AllOrNone'
  BY DEF TypeOK, AllOrNone, ChunksOf
<1>4. Exclusive'
  BY DEF TypeOK, Exclusive, ChunksOf
<1>5. Deleting'
  BY DEF TypeOK, Local, Deleting
<1>6. Tables'
  BY DEF Tables, DocumentKeys, NoOrphanChunks, WholeReplacement, ChunksOf
<1> QED BY <1>1, <1>2, <1>3, <1>4, <1>5, <1>6

LEMMA InvDeleteChunks ==
  ASSUME IInv, TypeOK', NEW s \in Session, DeleteChunks(s)
  PROVE  Names' /\ Local' /\ AllOrNone' /\ Exclusive' /\ Deleting' /\ Tables'
<1> USE DEF IInv, DeleteChunks, db, client
<1>1. Names'
  BY DEF TypeOK, Names, NoDocument, NoRowBy, ChunksOf
<1>2. Local'
  BY DEF TypeOK, CallOK, Local, Pieces, Piece, Me
<1>3. AllOrNone'
  BY DEF TypeOK, AllOrNone, Local, ChunksOf
<1>4. Exclusive'
  BY DEF TypeOK, Exclusive, ChunksOf
<1>5. Deleting'
  BY DEF TypeOK, Local, Deleting
<1>6. Tables'
  BY DEF Tables, DocumentKeys, NoOrphanChunks, WholeReplacement, ChunksOf
<1> QED BY <1>1, <1>2, <1>3, <1>4, <1>5, <1>6

LEMMA InvLockRow ==
  ASSUME IInv, TypeOK', NEW s \in Session, LockRow(s)
  PROVE  Names' /\ Local' /\ AllOrNone' /\ Exclusive' /\ Deleting' /\ Tables'
<1> USE DEF IInv, LockRow, db, client
<1>1. Names'
  BY DEF TypeOK, Names, NoDocument, NoRowBy, ChunksOf
<1>2. Local'
  BY DEF TypeOK, CallOK, Local, Pieces, Piece, Me
<1>3. AllOrNone'
  BY DEF TypeOK, AllOrNone, Local, ChunksOf
<1>4. Exclusive'
  BY DEF TypeOK, Exclusive, ChunksOf
<1>5. Deleting'
  BY DEF TypeOK, Local, Deleting
<1>6. Tables'
  BY DEF Tables, DocumentKeys, NoOrphanChunks, WholeReplacement, ChunksOf
<1> QED BY <1>1, <1>2, <1>3, <1>4, <1>5, <1>6

LEMMA InvLockDocument ==
  ASSUME IInv, TypeOK', NEW s \in Session, LockDocument(s)
  PROVE  Names' /\ Local' /\ AllOrNone' /\ Exclusive' /\ Deleting' /\ Tables'
<1> USE DEF IInv, LockDocument, db, client
<1>1. Names'
  BY DEF TypeOK, Names, NoDocument, NoRowBy, ChunksOf
<1>2. Local'
  BY DEF TypeOK, CallOK, Local, Pieces, Piece, Me
<1>3. AllOrNone'
  BY DEF TypeOK, AllOrNone, Local, ChunksOf
<1>4. Exclusive'
  BY DEF TypeOK, CallOK, Exclusive, ChunksOf, KeySharers
<1>5. Deleting'
  BY DEF TypeOK, Local, Deleting, Deleters
<1>6. Tables'
  BY DEF Tables, DocumentKeys, NoOrphanChunks, WholeReplacement, ChunksOf
<1> QED BY <1>1, <1>2, <1>3, <1>4, <1>5, <1>6

\* Chunk rows and log rows differ.
LEMMA RowsDiffer == ChunkRow \intersect LogRow = {}
BY DEF ChunkRow, LogRow

LEMMA InvScan ==
  ASSUME IInv, TypeOK', NEW s \in Session,
         Cascade(s) \/ PurgeRuns(s) \/ PurgeAudits(s)
  PROVE  Names' /\ Local' /\ AllOrNone' /\ Exclusive' /\ Deleting' /\ Tables'
<1> USE DEF IInv, Cascade, PurgeRuns, PurgeAudits, db, client
<1>1. Names'
  <2>1. scan'[s] \subseteq chunks \union logs
    BY DEF TypeOK, ChunksOf, LogsOf
  <2>2. \A t \in Session : t # s => scan'[t] = scan[t] /\ pc'[t] = pc[t]
    BY DEF TypeOK
  <2>3. UNCHANGED <<documents, chunks, logs, calls, doc, gone>>
    OBVIOUS
  <2>4. pc'[s] \in {"cascade", "runs", "audits"}
    BY DEF TypeOK
  <2> HIDE DEF Cascade, PurgeRuns, PurgeAudits
  <2>5. \A w : (NoDocument(w) => NoDocument(w)') /\ (NoRowBy(w) => NoRowBy(w)')
    BY <2>1, <2>2, <2>3 DEF NoDocument, NoRowBy
  <2> QED BY <2>2, <2>3, <2>4, <2>5 DEF Names
<1>2. Local'
  BY DEF TypeOK, CallOK, Local, Pieces, Piece, Me
<1>3. AllOrNone'
  BY DEF TypeOK, AllOrNone, Local, ChunksOf
<1>4. Exclusive'
  BY DEF TypeOK, CallOK, Exclusive, ChunksOf
<1>5. Deleting'
  BY RowsDiffer DEF TypeOK, Local, Deleting, ChunksOf, LogsOf
<1>6. Tables'
  BY DEF Tables, DocumentKeys, NoOrphanChunks, WholeReplacement, ChunksOf
<1> QED BY <1>1, <1>2, <1>3, <1>4, <1>5, <1>6

\* An upsert keeps every id: the row it replaces, if any, is the only one with
\* its URI, and nobody is deleting it.
LEMMA UpsertEffect ==
  ASSUME IInv, NEW s \in Session, Upsert(s)
  PROVE  \E row \in DocumentRow :
           /\ documents' = {d \in documents : d.uri # row.uri} \union {row}
           /\ row.uri = call[s].uri /\ row.writer = Me(s)
           /\ row.tenant = call[s].tenant /\ row.version = call[s].version
           /\ doc' = [doc EXCEPT ![s] = row.id]
           /\ \/ \E d \in documents :
                    /\ d.uri = row.uri /\ d.id = row.id
                    /\ \A t \in Session : row.id \notin docgone[t]
              \/ /\ row.id = Me(s)
                 /\ \A d \in documents : d.uri # row.uri
<1> DEFINE row(id) == [id |-> id, uri |-> call[s].uri, tenant |-> call[s].tenant,
                       version |-> call[s].version, writer |-> Me(s)]
<1>1. Me(s) \in CallId
  BY DEF IInv, Upsert, CallOK, Me, CallId
<1>2. call[s].uri \in Uri /\ call[s].tenant \in Tenant /\ call[s].version \in Version
  BY CallArguments DEF IInv, Upsert, CallOK
<1>3. \A id \in CallId : row(id) \in DocumentRow
  BY <1>1, <1>2 DEF DocumentRow
<1>4. docgone[s] = {}
  BY DEF IInv, Local, Upsert
<1>5. CASE \A d \in documents : d.uri # call[s].uri
  <2>1. /\ documents' = {d \in documents : d.uri # row(Me(s)).uri} \union {row(Me(s))}
        /\ doc' = [doc EXCEPT ![s] = row(Me(s)).id]
    BY <1>5 DEF Upsert
  <2> QED BY <1>1, <1>3, <1>5, <2>1
<1>6. CASE \E d \in documents : d.uri = call[s].uri
  <2>1. PICK d \in documents :
          /\ d.uri = call[s].uri
          /\ Deleters(s, d.id) = {}
          /\ documents' = {e \in documents : e.uri # call[s].uri} \union {row(d.id)}
          /\ doc' = [doc EXCEPT ![s] = d.id]
    BY <1>6 DEF Upsert
  <2>2. \A t \in Session : d.id \notin docgone[t]
    BY <1>4, <2>1 DEF Deleters
  <2>3. d.id \in CallId
    BY DEF IInv, TypeOK, DocumentRow
  <2> QED BY <1>3, <2>1, <2>2, <2>3
<1> QED BY <1>5, <1>6

LEMMA InvUpsert ==
  ASSUME IInv, TypeOK', NEW s \in Session, Upsert(s)
  PROVE  Names' /\ Local' /\ AllOrNone' /\ Exclusive' /\ Deleting' /\ Tables'
<1> USE DEF IInv
<1>0. PICK row \in DocumentRow :
        /\ documents' = {d \in documents : d.uri # row.uri} \union {row}
        /\ row.uri = call[s].uri /\ row.writer = Me(s)
        /\ row.tenant = call[s].tenant /\ row.version = call[s].version
        /\ doc' = [doc EXCEPT ![s] = row.id]
        /\ \/ \E d \in documents :
                 /\ d.uri = row.uri /\ d.id = row.id
                 /\ \A t \in Session : row.id \notin docgone[t]
           \/ /\ row.id = Me(s)
              /\ \A d \in documents : d.uri # row.uri
  BY UpsertEffect
<1>1. /\ pc[s] = "upsert" /\ pc' = [pc EXCEPT ![s] = "delete"]
      /\ UNCHANGED <<chunks, logs, calls, call, scan, gone, docscan, docgone, fresh>>
  BY DEF Upsert
<1>2. scan[s] = {} /\ gone[s] = {} /\ docgone[s] = {} /\ fresh[s] = {}
  BY <1>1 DEF Local, CallOK
<1>3. calls[s] \in 1 .. MaxCalls
  BY <1>1 DEF CallOK
<1>4. NoDocument(Me(s))
  BY <1>1, <1>3 DEF Names, Me
<1>5. Names'
  <2> SUFFICES ASSUME NEW t \in Session, NEW n \in 1 .. MaxCalls
      PROVE  /\ n > calls'[t] \/ (n = calls'[t] /\ pc'[t] = "upsert")
                  => NoDocument(<<t, n>>)'
             /\ n > calls'[t] \/ (n = calls'[t] /\ pc'[t] \in {"upsert", "delete", "replace", "log"})
                  => NoRowBy(<<t, n>>)'
    BY DEF Names
  <2>1. NoRowBy(<<t, n>>)' <=> NoRowBy(<<t, n>>)
    BY <1>1 DEF NoRowBy
  <2>2. ASSUME n > calls[t] \/ (n = calls[t] /\ pc[t] = "upsert" /\ t # s)
        PROVE  NoDocument(<<t, n>>)'
    <3>1. NoDocument(<<t, n>>)
      BY <2>2 DEF Names
    <3>2. <<t, n>> # Me(s)
      BY <2>2, <1>3 DEF Me
    <3>3. row.id # <<t, n>>
      BY <1>0, <3>1, <3>2 DEF NoDocument
    <3> QED BY <1>0, <1>1, <3>1, <3>3 DEF NoDocument, TypeOK
  <2> QED BY <1>1, <2>1, <2>2 DEF Names, TypeOK
<1>6. \A t \in Session : t # s =>
        /\ pc'[t] = pc[t] /\ doc'[t] = doc[t]
        /\ Pieces(t)' = Pieces(t) /\ Piece(t, 0)' = Piece(t, 0)
  BY <1>0, <1>1, PiecesStable DEF TypeOK
<1>7. pc'[s] = "delete"
  BY <1>1 DEF TypeOK
<1>8. Local'
  BY <1>1, <1>2, <1>6, <1>7 DEF Local
<1>9. AllOrNone'
  BY <1>1, <1>6, <1>7 DEF AllOrNone, ChunksOf
<1>10. \A d \in documents : \E e \in documents' : e.id = d.id
  BY <1>0 DEF Tables, DocumentKeys
<1>11. Exclusive'
  BY <1>1, <1>2, <1>6, <1>10 DEF Exclusive, ChunksOf
<1>12. Deleting'
  <2>1. \A t \in Session : \A id \in docgone[t] :
          \E d \in documents' : d.id = id /\ Matches(call[t], d)
    BY <1>0, <1>2 DEF Deleting, Tables, DocumentKeys
  <2> QED BY <1>1, <1>6, <1>7, <2>1 DEF Deleting
<1>13. DocumentKeys'
  BY <1>0, <1>4 DEF Tables, DocumentKeys, NoDocument
<1>14. NoOrphanChunks'
  BY <1>1, <1>10 DEF Tables, NoOrphanChunks
<1>15. WholeReplacement'
  BY <1>1 DEF Tables, WholeReplacement, ChunksOf
<1> QED BY <1>5, <1>8, <1>9, <1>11, <1>12, <1>13, <1>14, <1>15 DEF Tables

\* When replace_chunks may insert its first chunk, it is deleting every chunk its
\* document has: index 0 of them is free or its own to delete, and it found
\* all of them or none.
LEMMA FirstInsert ==
  ASSUME IInv, NEW s \in Session, InsertChunk(s), fresh[s] = {}
  PROVE  /\ NextIndex(s) = 0
         /\ ChunksOf(doc[s]) \subseteq gone[s]
         /\ \A t \in Session \ {s} : fresh[t] # {} => doc[t] # doc[s]
<1> USE DEF IInv
<1>1. NextIndex(s) = 0
  BY FS_EmptySet DEF NextIndex
<1>2. ASSUME NEW c \in ChunksOf(doc[s])
      PROVE  c \in gone[s]
  <2> DEFINE e == [c EXCEPT !.index = 0]
  <2>1. c \in ChunkRow /\ c.doc = doc[s] /\ c \in chunks
    BY DEF ChunksOf, TypeOK
  <2>2. ChunksOf(c.doc) =
          { [c EXCEPT !.index = i] : i \in 0 .. ChunkCount[c.version] - 1 }
    BY <2>1 DEF Tables, WholeReplacement
  <2>3. \E i \in 0 .. ChunkCount[c.version] - 1 : TRUE
    BY <2>1, <2>2 DEF ChunksOf
  <2>4. 0 \in 0 .. ChunkCount[c.version] - 1
    BY <2>1, <2>3, StoreAssumption DEF ChunkRow
  <2>5. e \in ChunksOf(doc[s])
    BY <2>1, <2>2, <2>4
  <2>6. e.index = 0
    BY <2>1 DEF ChunkRow
  <2>7. \E t \in Session : e \in gone[t]
    BY <1>1, <2>5, <2>6 DEF InsertChunk, KeyTaken
  <2>8. e \in gone[s]
    BY <1>1, <2>5, <2>6, <2>7 DEF InsertChunk, KeyHolders, ChunksOf
  <2>9. pc[s] = "replace" /\ scan[s] = {}
    BY DEF InsertChunk, Inserting
  <2> QED BY <2>5, <2>8, <2>9 DEF AllOrNone
<1>3. ASSUME NEW t \in Session \ {s}, fresh[t] # {}, doc[t] = doc[s]
      PROVE  FALSE
  <2>1. Piece(t, 0) \in fresh[t]
    BY <1>3 DEF Local
  <2>2. Piece(t, 0).doc = doc[s] /\ Piece(t, 0).index = 0
    BY <1>3 DEF Piece
  <2>3. t \in KeyHolders(s, 0)
    BY <2>1, <2>2 DEF KeyHolders
  <2> QED BY <1>1, <2>3 DEF InsertChunk
<1> QED BY <1>1, <1>2, <1>3

LEMMA InvInsertChunk ==
  ASSUME IInv, TypeOK', NEW s \in Session, InsertChunk(s)
  PROVE  Names' /\ Local' /\ AllOrNone' /\ Exclusive' /\ Deleting' /\ Tables'
<1> USE DEF IInv
<1>1. /\ pc[s] = "replace" /\ scan[s] = {}
      /\ fresh' = [fresh EXCEPT ![s] = @ \union {Piece(s, NextIndex(s))}]
      /\ UNCHANGED <<documents, chunks, logs, calls, call, doc, pc,
                     scan, gone, docscan, docgone>>
  BY DEF InsertChunk, Inserting, db, client
<1>2. Names'
  BY <1>1 DEF Names, NoDocument, NoRowBy
<1>3. \A t \in Session : Piece(t, 0)' = Piece(t, 0)
  BY <1>1, PiecesStable
<1>4. \A t \in Session \ {s} : fresh'[t] = fresh[t]
  BY <1>1 DEF TypeOK
<1>5. fresh'[s] = fresh[s] \union {Piece(s, NextIndex(s))}
  BY <1>1 DEF TypeOK
<1>6. Local'
  <2>1. Piece(s, 0) \in fresh'[s]
    BY <1>5, FirstInsert DEF Local
  <2> QED BY <1>1, <1>3, <1>4, <2>1 DEF Local
<1>7. AllOrNone'
  BY <1>1 DEF AllOrNone, ChunksOf
<1>8. Exclusive'
  <2>1. /\ \E d \in documents : d.id = doc[s]
        /\ \A t \in Session : doc[s] \notin docgone[t]
    BY <1>1 DEF InsertChunk, Deleters, Local
  <2>2. /\ ChunksOf(doc[s]) \subseteq gone[s]
        /\ \A t \in Session \ {s} : fresh[t] # {} => doc[t] # doc[s]
    BY FirstInsert DEF Exclusive
  <2> QED BY <1>1, <1>4, <2>1, <2>2 DEF Exclusive, ChunksOf
<1>9. Deleting'
  BY <1>1 DEF Deleting
<1>10. Tables'
  BY <1>1 DEF Tables, DocumentKeys, NoOrphanChunks, WholeReplacement, ChunksOf
<1> QED BY <1>2, <1>6, <1>7, <1>8, <1>9, <1>10

\* A call that ends without a commit gives up its locks and nothing else.
LEMMA InvRollback ==
  ASSUME IInv, TypeOK', NEW s \in Session, Rollback(s)
  PROVE  Names' /\ Local' /\ AllOrNone' /\ Exclusive' /\ Deleting' /\ Tables'
<1> USE DEF IInv
<1>1. UNCHANGED <<documents, chunks, logs, calls>>
  BY DEF Rollback, EndCall, db
<1>2. /\ pc'[s] = "idle" /\ doc'[s] = None
      /\ scan'[s] = {} /\ gone'[s] = {} /\ docgone'[s] = {} /\ fresh'[s] = {}
  BY DEF Rollback, EndCall, TypeOK
<1>3. \A t \in Session \ {s} :
        /\ pc'[t] = pc[t] /\ doc'[t] = doc[t] /\ call'[t] = call[t]
        /\ scan'[t] = scan[t] /\ gone'[t] = gone[t]
        /\ docgone'[t] = docgone[t] /\ fresh'[t] = fresh[t]
  BY DEF Rollback, EndCall, TypeOK
<1>4. \A t \in Session \ {s} : Piece(t, 0)' = Piece(t, 0)
  BY <1>1, <1>3, PiecesStable
<1>5. Names'
  <2>1. \A w \in CallId : NoDocument(w) => NoDocument(w)'
    BY <1>1, <1>2, <1>3, NoneAssumption DEF NoDocument, CallId
  <2>2. \A w : NoRowBy(w) => NoRowBy(w)'
    BY <1>1, <1>2, <1>3 DEF NoRowBy
  <2>3. \A t \in Session, n \in 1 .. MaxCalls : <<t, n>> \in CallId
    BY DEF CallId
  <2> QED BY <1>1, <1>2, <1>3, <2>1, <2>2, <2>3 DEF Names
<1>6. Local'
  BY <1>1, <1>2, <1>3, <1>4 DEF Local
<1>7. AllOrNone'
  BY <1>1, <1>2, <1>3 DEF AllOrNone, ChunksOf
<1>8. Exclusive'
  BY <1>1, <1>2, <1>3 DEF Exclusive, ChunksOf
<1>9. Deleting'
  BY <1>1, <1>2, <1>3 DEF Deleting
<1>10. Tables'
  BY <1>1 DEF Tables, DocumentKeys, NoOrphanChunks, WholeReplacement, ChunksOf
<1> QED BY <1>5, <1>6, <1>7, <1>8, <1>9, <1>10

LEMMA InvCommitLog ==
  ASSUME IInv, TypeOK', NEW s \in Session, CommitLog(s)
  PROVE  Names' /\ Local' /\ AllOrNone' /\ Exclusive' /\ Deleting' /\ Tables'
<1> USE DEF IInv
<1>1. UNCHANGED <<documents, chunks, calls>>
  BY DEF CommitLog, EndCall
<1>2. /\ pc[s] = "log" /\ pc'[s] = "idle" /\ doc'[s] = None
      /\ scan'[s] = {} /\ gone'[s] = {} /\ docgone'[s] = {} /\ fresh'[s] = {}
  BY DEF CommitLog, EndCall, TypeOK
<1>3. \A t \in Session \ {s} :
        /\ pc'[t] = pc[t] /\ doc'[t] = doc[t] /\ call'[t] = call[t]
        /\ scan'[t] = scan[t] /\ gone'[t] = gone[t]
        /\ docgone'[t] = docgone[t] /\ fresh'[t] = fresh[t]
  BY DEF CommitLog, EndCall, TypeOK
<1>4. \A t \in Session \ {s} : Piece(t, 0)' = Piece(t, 0)
  BY <1>1, <1>3, PiecesStable
<1>5. Names'
  <2>1. \A w \in CallId : NoDocument(w) => NoDocument(w)'
    BY <1>1, <1>2, <1>3, NoneAssumption DEF NoDocument, CallId
  <2>2. \A r \in logs' : r \in logs \/ r.writer = Me(s)
    BY DEF CommitLog
  <2>3. \A w : NoRowBy(w) /\ w # Me(s) => NoRowBy(w)'
    BY <1>1, <1>2, <1>3, <2>2 DEF NoRowBy
  <2>4. \A t \in Session, n \in 1 .. MaxCalls : <<t, n>> \in CallId
    BY DEF CallId
  <2>5. \A t \in Session, n \in 1 .. MaxCalls :
          n > calls[t] \/ t # s => <<t, n>> # Me(s)
    BY DEF Me, TypeOK
  <2> QED BY <1>1, <1>2, <1>3, <2>1, <2>3, <2>4, <2>5 DEF Names
<1>6. Local'
  BY <1>1, <1>2, <1>3, <1>4 DEF Local
<1>7. AllOrNone'
  BY <1>1, <1>2, <1>3 DEF AllOrNone, ChunksOf
<1>8. Exclusive'
  BY <1>1, <1>2, <1>3 DEF Exclusive, ChunksOf
<1>9. Deleting'
  BY <1>1, <1>2, <1>3 DEF Deleting
<1>10. Tables'
  BY <1>1 DEF Tables, DocumentKeys, NoOrphanChunks, WholeReplacement, ChunksOf
<1> QED BY <1>5, <1>6, <1>7, <1>8, <1>9, <1>10

\* What EndCall says of the session and of the others, one by one.
LEMMA EndCallEffect ==
  ASSUME IInv, TypeOK', NEW s \in Session, EndCall(s)
  PROVE  /\ calls' = calls
         /\ pc'[s] = "idle" /\ doc'[s] = None
         /\ scan'[s] = {} /\ gone'[s] = {} /\ docgone'[s] = {} /\ fresh'[s] = {}
         /\ \A t \in Session \ {s} :
              /\ pc'[t] = pc[t] /\ doc'[t] = doc[t] /\ call'[t] = call[t]
              /\ scan'[t] = scan[t] /\ gone'[t] = gone[t]
              /\ docgone'[t] = docgone[t] /\ fresh'[t] = fresh[t]
              /\ Piece(t, 0)' = Piece(t, 0)
<1>1. \A t \in Session \ {s} :
        /\ pc'[t] = pc[t] /\ doc'[t] = doc[t] /\ call'[t] = call[t]
        /\ scan'[t] = scan[t] /\ gone'[t] = gone[t]
        /\ docgone'[t] = docgone[t] /\ fresh'[t] = fresh[t]
        /\ calls'[t] = calls[t]
  BY DEF EndCall, IInv, TypeOK
<1> QED BY <1>1, PiecesStable DEF EndCall, IInv, TypeOK

\* What the commit of replace_chunks does: all chunks of the document give way
\* to all its pieces, or - when there is no piece to insert - nothing happens,
\* because other chunks have come since it looked for the old ones.
LEMMA ReplaceEffect ==
  ASSUME IInv, NEW s \in Session, CommitReplace(s)
  PROVE  /\ pc[s] = "replace"
         /\ documents' = documents
         /\ \/ Pieces(s) = {} /\ chunks' = chunks
            \/ chunks' = { c \in chunks : c.doc # doc[s] } \union Pieces(s)
<1> USE DEF IInv
<1>1. /\ pc[s] = "replace" /\ scan[s] = {} /\ fresh[s] = Pieces(s)
      /\ documents' = { d \in documents : d.id \notin docgone[s] }
      /\ chunks' = (chunks \ gone[s]) \union fresh[s]
  BY DEF CommitReplace, Commit
<1>2. documents' = documents
  BY <1>1 DEF Local
<1>3. \A c \in gone[s] : c.doc = doc[s]
  BY <1>1 DEF AllOrNone
<1>4. CASE ChunksOf(doc[s]) \subseteq gone[s]
  BY <1>1, <1>2, <1>3, <1>4 DEF ChunksOf
<1>5. CASE ~ (ChunksOf(doc[s]) \subseteq gone[s])
  <2>1. fresh[s] = {}
    BY <1>5 DEF Exclusive
  <2>2. \A c \in ChunksOf(doc[s]) : c \notin gone[s]
    BY <1>1, <1>5 DEF AllOrNone
  <2>3. chunks' = chunks
    BY <1>1, <1>3, <2>1, <2>2 DEF ChunksOf
  <2> QED BY <1>1, <1>2, <2>1, <2>3
<1> QED BY <1>4, <1>5

LEMMA InvCommitReplace ==
  ASSUME IInv, TypeOK', NEW s \in Session, CommitReplace(s)
  PROVE  Names' /\ Local' /\ AllOrNone' /\ Exclusive' /\ Deleting' /\ Tables'
<1> USE DEF IInv
<1>1. /\ EndCall(s) /\ fresh[s] = Pieces(s) /\ logs' \subseteq logs
  BY DEF CommitReplace, Commit
<1>2. /\ calls' = calls
      /\ pc'[s] = "idle" /\ doc'[s] = None
      /\ scan'[s] = {} /\ gone'[s] = {} /\ docgone'[s] = {} /\ fresh'[s] = {}
  BY <1>1, EndCallEffect
<1>3. \A t \in Session \ {s} :
        /\ pc'[t] = pc[t] /\ doc'[t] = doc[t] /\ call'[t] = call[t]
        /\ scan'[t] = scan[t] /\ gone'[t] = gone[t]
        /\ docgone'[t] = docgone[t] /\ fresh'[t] = fresh[t]
        /\ Piece(t, 0)' = Piece(t, 0)
  BY <1>1, EndCallEffect
<1>4. /\ pc[s] = "replace"
      /\ documents' = documents
      /\ \/ Pieces(s) = {} /\ chunks' = chunks
         \/ chunks' = { c \in chunks : c.doc # doc[s] } \union Pieces(s)
  BY ReplaceEffect
<1>5. \A c \in Pieces(s) : c.doc = doc[s] /\ c.writer = Me(s)
  BY DEF Pieces, Piece
<1>6. NoRowBy(Me(s))
  BY <1>4 DEF CallOK, Names, Me
<1>7. \A t \in Session \ {s} : \A c \in Pieces(s) : c \notin scan[t] \union gone[t]
  BY <1>5, <1>6 DEF NoRowBy
<1>8. Names'
  <2>1. \A w \in CallId : NoDocument(w) => NoDocument(w)'
    BY <1>2, <1>3, <1>4, <1>5, NoneAssumption DEF NoDocument, CallId
  <2>2. \A w : NoRowBy(w) /\ w # Me(s) => NoRowBy(w)'
    BY <1>1, <1>2, <1>3, <1>4, <1>5 DEF NoRowBy
  <2>3. \A t \in Session, n \in 1 .. MaxCalls : <<t, n>> \in CallId
    BY DEF CallId
  <2>4. \A t \in Session, n \in 1 .. MaxCalls :
          n > calls[t] \/ t # s => <<t, n>> # Me(s)
    BY DEF Me, TypeOK
  <2> QED BY <1>2, <1>3, <2>1, <2>2, <2>3, <2>4 DEF Names
<1>9. Local'
  BY <1>2, <1>3 DEF Local
<1>10. AllOrNone'
  <2> SUFFICES ASSUME NEW t \in Session, pc'[t] = "replace"
               PROVE  /\ \A r \in scan'[t] \union gone'[t] : r.doc = doc'[t]
                      /\ \A c, e \in ChunksOf(doc[t])' :
                           c \in scan'[t] \union gone'[t] => e \in scan'[t] \union gone'[t]
    BY <1>2, <1>3 DEF AllOrNone, ChunksOf
  <2>1. t # s
    BY <1>2
  <2>2. \A r \in scan'[t] \union gone'[t] : r.doc = doc'[t]
    BY <1>3, <2>1 DEF AllOrNone
  <2>3. CASE doc[t] = doc[s] /\ chunks' # chunks
    BY <1>3, <1>4, <1>7, <2>1, <2>2, <2>3 DEF ChunksOf
  <2>4. CASE doc[t] # doc[s] \/ chunks' = chunks
    <3>1. ChunksOf(doc[t])' = ChunksOf(doc[t])
      BY <1>3, <1>4, <1>5, <2>1, <2>4 DEF ChunksOf
    <3> QED BY <1>3, <2>1, <2>2, <3>1 DEF AllOrNone
  <2> QED BY <2>3, <2>4
<1>11. Exclusive'
  <2> SUFFICES ASSUME NEW t \in Session \ {s}, fresh[t] # {}
               PROVE  (ChunksOf(doc[t]) \subseteq gone[t])'
    BY <1>2, <1>3, <1>4 DEF Exclusive
  <2>1. Pieces(s) = {} \/ doc[t] # doc[s]
    BY <1>1 DEF Exclusive
  <2>2. ChunksOf(doc[t]) \subseteq gone[t]
    BY DEF Exclusive
  <2> QED BY <1>3, <1>4, <1>5, <2>1, <2>2 DEF ChunksOf
<1>12. Deleting'
  <2>1. \A t \in Session \ {s} : \A c \in Pieces(s) : c.doc \notin docgone[t]
    BY <1>1, <1>5 DEF Exclusive
  <2> QED BY <1>2, <1>3, <1>4, <1>7, <2>1 DEF Deleting
<1>13. DocumentKeys'
  BY <1>4 DEF Tables, DocumentKeys
<1>14. NoOrphanChunks'
  <2>1. Pieces(s) # {} => \E d \in documents : d.id = doc[s]
    BY <1>1 DEF Exclusive
  <2> QED BY <1>4, <1>5, <2>1 DEF Tables, NoOrphanChunks
<1>15. WholeReplacement'
  <2> SUFFICES ASSUME NEW c \in chunks'
               PROVE  ChunksOf(c.doc)' =
                        { [c EXCEPT !.index = i] : i \in 0 .. ChunkCount[c.version] - 1 }
    BY DEF WholeReplacement, ChunksOf
  <2>1. CASE chunks' = chunks
    BY <2>1 DEF Tables, WholeReplacement, ChunksOf
  <2>2. CASE c.doc # doc[s]
    <3>1. c \in chunks /\ ChunksOf(c.doc)' = ChunksOf(c.doc)
      BY <1>4, <1>5, <2>2 DEF ChunksOf
    <3> QED BY <3>1 DEF Tables, WholeReplacement
  <2>3. CASE chunks' # chunks /\ c.doc = doc[s]
    <3>1. ChunksOf(c.doc)' = Pieces(s) /\ c \in Pieces(s)
      BY <1>4, <1>5, <2>3 DEF ChunksOf
    <3>2. c.version = call[s].version
      BY <3>1 DEF Pieces, Piece
    <3>3. \A i : [c EXCEPT !.index = i] = Piece(s, i)
      BY <3>1 DEF Pieces, Piece
    <3> QED BY <3>1, <3>2, <3>3 DEF Pieces
  <2> QED BY <2>1, <2>2, <2>3
<1> QED BY <1>8, <1>9, <1>10, <1>11, <1>12, <1>13, <1>14, <1>15 DEF Tables

\* What the commit of a deletion does: documents leave with all their chunks.
LEMMA DeleteEffect ==
  ASSUME IInv, NEW s \in Session, CommitDelete(s)
  PROVE  /\ documents' = { d \in documents : d.id \notin docgone[s] }
         /\ chunks' = { c \in chunks : c.doc \notin docgone[s] }
<1>1. pc[s] \in {"cascade", "audits"} /\ scan[s] = {} /\ Commit(s)
  BY DEF CommitDelete
<1>2. fresh[s] = {}
  BY <1>1 DEF IInv, CallOK
<1>3. \A c \in chunks : c.doc \in docgone[s] <=> c \in gone[s]
  BY <1>1 DEF IInv, Deleting
<1> QED BY <1>1, <1>2, <1>3 DEF Commit

LEMMA InvCommitDelete ==
  ASSUME IInv, TypeOK', NEW s \in Session, CommitDelete(s)
  PROVE  Names' /\ Local' /\ AllOrNone' /\ Exclusive' /\ Deleting' /\ Tables'
<1> USE DEF IInv
<1>1. EndCall(s) /\ logs' \subseteq logs
  BY DEF CommitDelete, Commit
<1>2. /\ calls' = calls
      /\ pc'[s] = "idle" /\ doc'[s] = None
      /\ scan'[s] = {} /\ gone'[s] = {} /\ docgone'[s] = {} /\ fresh'[s] = {}
  BY <1>1, EndCallEffect
<1>3. \A t \in Session \ {s} :
        /\ pc'[t] = pc[t] /\ doc'[t] = doc[t] /\ call'[t] = call[t]
        /\ scan'[t] = scan[t] /\ gone'[t] = gone[t]
        /\ docgone'[t] = docgone[t] /\ fresh'[t] = fresh[t]
        /\ Piece(t, 0)' = Piece(t, 0)
  BY <1>1, EndCallEffect
<1>4. /\ documents' = { d \in documents : d.id \notin docgone[s] }
      /\ chunks' = { c \in chunks : c.doc \notin docgone[s] }
  BY DeleteEffect
<1>5. Names'
  <2>1. \A w \in CallId : NoDocument(w) => NoDocument(w)'
    BY <1>2, <1>3, <1>4, NoneAssumption DEF NoDocument, CallId
  <2>2. \A w : NoRowBy(w) => NoRowBy(w)'
    BY <1>1, <1>2, <1>3, <1>4 DEF NoRowBy
  <2>3. \A t \in Session, n \in 1 .. MaxCalls : <<t, n>> \in CallId
    BY DEF CallId
  <2> QED BY <1>2, <1>3, <2>1, <2>2, <2>3 DEF Names
<1>6. Local'
  BY <1>2, <1>3 DEF Local
<1>7. AllOrNone'
  BY <1>2, <1>3, <1>4 DEF AllOrNone, ChunksOf
<1>8. Exclusive'
  BY <1>2, <1>3, <1>4 DEF Exclusive, ChunksOf
<1>9. Deleting'
  BY <1>2, <1>3, <1>4 DEF Deleting
<1>10. Tables'
  BY <1>4 DEF Tables, DocumentKeys, NoOrphanChunks, WholeReplacement, ChunksOf
<1> QED BY <1>5, <1>6, <1>7, <1>8, <1>9, <1>10

LEMMA InvNext == IInv /\ [Next]_vars => IInv'
<1> SUFFICES ASSUME IInv, [Next]_vars
             PROVE  IInv'
  OBVIOUS
<1>1. TypeOK' /\ CallOK'
  BY TypeNext DEF IInv
<1>2. CASE UNCHANGED vars
  BY <1>2 DEF vars, IInv, TypeOK, CallOK, Names, NoDocument, NoRowBy, Local, Piece,
              Me, AllOrNone, ChunksOf, Exclusive, Deleting, Tables, DocumentKeys,
              NoOrphanChunks, WholeReplacement
<1>3. CASE Next /\ ~ UNCHANGED vars
  <2>1. PICK s \in Session :
          (\E c \in CallsOf[s] : Begin(s, c)) \/ Step(s) \/ Fail(s)
    BY <1>3 DEF Next, Terminated
  <2>2. CASE \E c \in CallsOf[s] : Begin(s, c)
    BY <1>1, <2>2, InvBegin DEF IInv
  <2>3. CASE Upsert(s)
    BY <1>1, <2>3, InvUpsert DEF IInv
  <2>4. CASE DeleteChunks(s)
    BY <1>1, <2>4, InvDeleteChunks DEF IInv
  <2>5. CASE LockRow(s)
    BY <1>1, <2>5, InvLockRow DEF IInv
  <2>6. CASE InsertChunk(s)
    BY <1>1, <2>6, InvInsertChunk DEF IInv
  <2>7. CASE InsertRejected(s) \/ DeadlockVictim(s) \/ Fail(s)
    <3>1. Rollback(s)
      BY <2>7 DEF InsertRejected, DeadlockVictim, Fail
    <3> QED BY <1>1, <3>1, InvRollback DEF IInv
  <2>8. CASE CommitReplace(s)
    BY <1>1, <2>8, InvCommitReplace DEF IInv
  <2>9. CASE LockDocument(s)
    BY <1>1, <2>9, InvLockDocument DEF IInv
  <2>10. CASE Cascade(s) \/ PurgeRuns(s) \/ PurgeAudits(s)
    BY <1>1, <2>10, InvScan DEF IInv
  <2>11. CASE CommitDelete(s)
    BY <1>1, <2>11, InvCommitDelete DEF IInv
  <2>12. CASE CommitLog(s)
    BY <1>1, <2>12, InvCommitLog DEF IInv
  <2> QED BY <2>1, <2>2, <2>3, <2>4, <2>5, <2>6, <2>7, <2>8, <2>9, <2>10, <2>11, <2>12
          DEF Step
<1> QED BY <1>2, <1>3

LEMMA Invariance == Spec => []IInv
BY InvInit, InvNext, PTL DEF Spec

\* Overlapping ingestions of a URI never mix their chunks, and never leave a
\* part of one: for any number of sessions, calls and chunks.
THEOREM ChunksComeFromOneCall == Spec => []WholeReplacement
<1>1. IInv => WholeReplacement
  BY DEF IInv, Tables
<1> QED BY <1>1, Invariance, PTL

\* No deletion, wherever it overlaps with an ingestion, leaves a chunk behind.
THEOREM ChunksHaveDocuments == Spec => []NoOrphanChunks
<1>1. IInv => NoOrphanChunks
  BY DEF IInv, Tables
<1> QED BY <1>1, Invariance, PTL

-------------------------------------------------------------------------------
(* KnowledgeStore implements AtomicCorpus *)

\* An upsert updates one document in place, or registers a new one.
LEMMA UpsertSimulation ==
  ASSUME IInv, NEW s \in Session, Upsert(s)
  PROVE  Corpus!ANext
<1>1. PICK row \in DocumentRow :
        /\ documents' = {d \in documents : d.uri # row.uri} \union {row}
        /\ row.uri = call[s].uri /\ row.writer = Me(s)
        /\ row.tenant = call[s].tenant /\ row.version = call[s].version
        /\ \/ \E d \in documents : d.uri = row.uri /\ d.id = row.id
           \/ /\ row.id = Me(s)
              /\ \A d \in documents : d.uri # row.uri
  BY UpsertEffect
<1>2. /\ row.id \in CallId /\ row.uri \in Uri /\ row.tenant \in Tenant
      /\ row.version \in Version /\ row.writer \in CallId
      /\ row = [id |-> row.id, uri |-> row.uri, tenant |-> row.tenant,
                version |-> row.version, writer |-> row.writer]
  BY DEF DocumentRow
<1>3. pc[s] = "upsert" /\ UNCHANGED chunks
  BY DEF Upsert
<1>4. CASE \E d \in documents : d.uri = row.uri /\ d.id = row.id
  <2>1. PICK d \in documents : d.uri = row.uri /\ d.id = row.id
    BY <1>4
  <2>2. {e \in documents : e.uri # row.uri} = documents \ {d}
    BY <2>1 DEF IInv, Tables, DocumentKeys
  <2>3. Corpus!UpdateDocument(d, row.tenant, row.version, row.writer)
    BY <1>1, <1>2, <1>3, <2>1, <2>2 DEF Corpus!UpdateDocument
  <2> QED BY <1>2, <2>3 DEF Corpus!ANext
<1>5. CASE row.id = Me(s) /\ \A d \in documents : d.uri # row.uri
  <2>1. NoDocument(Me(s))
    BY <1>3 DEF IInv, CallOK, Names, Me
  <2>2. {d \in documents : d.uri # row.uri} = documents
    BY <1>5
  <2>3. Corpus!RegisterDocument(row.uri, row.tenant, row.version, row.writer)
    BY <1>1, <1>2, <1>3, <1>5, <2>1, <2>2 DEF Corpus!RegisterDocument, NoDocument
  <2> QED BY <1>2, <2>3 DEF Corpus!ANext
<1> QED BY <1>1, <1>4, <1>5

\* The commit of replace_chunks replaces all chunks of its document, or changes
\* nothing.
LEMMA ReplaceSimulation ==
  ASSUME IInv, NEW s \in Session, CommitReplace(s)
  PROVE  Corpus!ANext \/ UNCHANGED <<documents, chunks>>
<1>1. /\ pc[s] = "replace" /\ documents' = documents
      /\ \/ chunks' = chunks
         \/ chunks' = { c \in chunks : c.doc # doc[s] } \union Pieces(s)
  BY ReplaceEffect
<1>2. /\ doc[s] \in CallId /\ Me(s) \in CallId
      /\ call[s].tenant \in Tenant /\ call[s].version \in Version
  BY <1>1, CallArguments DEF IInv, CallOK, Me, CallId
<1>3. Pieces(s) = Corpus!AllPieces(doc[s], call[s].version, call[s].tenant, Me(s))
  BY DEF Pieces, Piece, Corpus!AllPieces
<1>4. Pieces(s) # {} => \E d \in documents : d.id = doc[s]
  BY DEF IInv, Exclusive, CommitReplace
<1>5. CASE chunks' = { c \in chunks : c.doc # doc[s] } \union Pieces(s)
  <2>1. Corpus!ReplaceChunksOf(doc[s], call[s].version, call[s].tenant, Me(s))
    BY <1>1, <1>3, <1>4, <1>5 DEF Corpus!ReplaceChunksOf
  <2> QED BY <1>2, <2>1 DEF Corpus!ANext
<1> QED BY <1>1, <1>5

\* The commit of a deletion removes documents of one tenant with their chunks.
LEMMA DeleteSimulation ==
  ASSUME IInv, NEW s \in Session, CommitDelete(s)
  PROVE  Corpus!ANext
<1> DEFINE D == { d \in documents : d.id \in docgone[s] }
<1>1. /\ documents' = { d \in documents : d.id \notin docgone[s] }
      /\ chunks' = { c \in chunks : c.doc \notin docgone[s] }
  BY DeleteEffect
<1>2. \A d \in D : Matches(call[s], d)
  BY DEF IInv, Deleting, Tables, DocumentKeys
<1>3. \A d, e \in D : d.tenant = e.tenant
  BY <1>2 DEF Matches, IInv, Tables, DocumentKeys
<1>4. \A id \in docgone[s] : \E d \in D : d.id = id
  BY DEF IInv, Deleting
<1>5. Corpus!RemoveDocuments(D)
  BY <1>1, <1>3, <1>4 DEF Corpus!RemoveDocuments
<1>6. D \in SUBSET documents
  OBVIOUS
<1> QED BY <1>5, <1>6 DEF Corpus!ANext

\* Every interleaving of transactions is one of the atomic operations of the
\* corpus: upserts, replacements of all chunks, removals with all chunks.
THEOREM CorpusRefinement == Spec => RefinesAtomicCorpus
<1>1. Init => Corpus!AInit
  BY DEF Init, Corpus!AInit
<1>2. IInv /\ [Next]_vars => [Corpus!ANext]_(Corpus!avars)
  <2> SUFFICES ASSUME IInv, [Next]_vars
               PROVE  Corpus!ANext \/ UNCHANGED <<documents, chunks>>
    BY DEF Corpus!avars
  <2>1. CASE UNCHANGED vars
    BY <2>1 DEF vars
  <2>2. CASE Next /\ ~ UNCHANGED vars
    <3>1. PICK s \in Session :
            (\E c \in CallsOf[s] : Begin(s, c)) \/ Step(s) \/ Fail(s)
      BY <2>2 DEF Next, Terminated
    <3>2. CASE Upsert(s)
      BY <3>2, UpsertSimulation
    <3>3. CASE CommitReplace(s)
      BY <3>3, ReplaceSimulation
    <3>4. CASE CommitDelete(s)
      BY <3>4, DeleteSimulation
    <3>5. CASE \/ \E c \in CallsOf[s] : Begin(s, c)
               \/ DeleteChunks(s) \/ LockRow(s) \/ InsertChunk(s)
               \/ LockDocument(s) \/ Cascade(s) \/ PurgeRuns(s) \/ PurgeAudits(s)
      BY <3>5 DEF Begin, DeleteChunks, LockRow, InsertChunk, LockDocument,
                  Cascade, PurgeRuns, PurgeAudits, db
    <3>6. CASE CommitLog(s)
      BY <3>6 DEF CommitLog
    <3>7. CASE InsertRejected(s) \/ DeadlockVictim(s) \/ Fail(s)
      BY <3>7 DEF InsertRejected, DeadlockVictim, Fail, Rollback, db
    <3> QED BY <3>1, <3>2, <3>3, <3>4, <3>5, <3>6, <3>7 DEF Step
  <2> QED BY <2>1, <2>2
<1> QED BY <1>1, <1>2, Invariance, PTL DEF Spec, RefinesAtomicCorpus, Corpus!ASpec

-------------------------------------------------------------------------------
(***************************************************************************)
(* What a session ingested earlier does not outlive its later upsert.  The *)
(* argument is about who fails: a call that is the victim of a deadlock    *)
(* waits for another, and when it was replacing a document's chunks, that  *)
(* other call is about to delete them.                                     *)
(***************************************************************************)

\* While s replaces the chunks of a document, the document's row is its own,
\* or another session's.
OwnRows ==
  \A s \in Session : pc[s] \in {"delete", "replace"} =>
    \A d \in documents : d.id = doc[s] /\ d.writer[1] = s =>
      d.version = call[s].version /\ d.tenant = call[s].tenant

\* A locked row is there, and has one holder; a new chunk is one of the document.
Locks ==
  \A s \in Session :
    /\ \A e \in fresh[s] : e.doc = doc[s]
    /\ gone[s] \subseteq chunks \union logs
    /\ \A t \in Session \ {s} : gone[s] \intersect gone[t] = {}
    /\ pc[s] \in {"replace", "cascade"} => scan[s] \union gone[s] \subseteq ChunkRow

\* delete_document has one document, which it has locked or has still to.
OneDocument ==
  \A s \in Session : pc[s] # "idle" /\ call[s].op = "delete_document" =>
    /\ \A i, j \in docscan[s] \union docgone[s] : i = j
    /\ docscan[s] \intersect docgone[s] = {}

OwnInv == OwnRows /\ Locks /\ OneDocument

\* OwnInv holds initially.
LEMMA OwnInit == Init => OwnInv
BY DEF Init, OwnInv, OwnRows, Locks, OneDocument

\* The other sessions stay where they are ...
Alone(s) ==
  \A t \in Session \ {s} :
    /\ pc'[t] = pc[t] /\ doc'[t] = doc[t] /\ call'[t] = call[t]
    /\ scan'[t] = scan[t] /\ gone'[t] = gone[t]
    /\ docscan'[t] = docscan[t] /\ docgone'[t] = docgone[t] /\ fresh'[t] = fresh[t]

\* ... in every step of s.
LEMMA StepIsAlone ==
  ASSUME TypeOK, NEW s \in Session,
         (\E c \in CallsOf[s] : Begin(s, c)) \/ Step(s) \/ Fail(s)
  PROVE  Alone(s)
<1>1. CASE \E c \in CallsOf[s] : Begin(s, c)
  BY <1>1 DEF Begin, Alone, TypeOK, db
<1>2. CASE Upsert(s)
  BY <1>2 DEF Upsert, Alone, TypeOK
<1>3. CASE DeleteChunks(s) \/ LockRow(s) \/ InsertChunk(s) \/ LockDocument(s)
  BY <1>3
     DEF DeleteChunks, LockRow, InsertChunk, LockDocument, Alone, TypeOK, db, client
<1>4. CASE Cascade(s) \/ PurgeRuns(s) \/ PurgeAudits(s)
  BY <1>4 DEF Cascade, PurgeRuns, PurgeAudits, Alone, TypeOK, db, client
<1>5. ASSUME EndCall(s) PROVE Alone(s)
  BY <1>5 DEF EndCall, Alone, TypeOK
<1> QED BY <1>1, <1>2, <1>3, <1>4, <1>5
        DEF Step, InsertRejected, CommitReplace, CommitDelete, CommitLog,
            DeadlockVictim, Fail, Rollback, Commit

\* A chunk that is locked is locked with all chunks of its document.
LEMMA HeldTogether ==
  ASSUME IInv, NEW t \in Session, NEW r \in chunks, r \in gone[t], NEW c \in ChunksOf(r.doc)
  PROVE  c \in scan[t] \union gone[t] \/ r.doc \in docgone[t]
<1> USE DEF IInv
<1>1. pc[t] \in {"replace", "cascade", "runs", "audits"}
  BY DEF Local, TypeOK
<1>2. CASE pc[t] = "replace"
  <2>1. r.doc = doc[t]
    BY <1>2 DEF AllOrNone
  <2> QED BY <1>2, <2>1 DEF AllOrNone, ChunksOf
<1>3. CASE pc[t] \in {"cascade", "runs", "audits"}
  BY <1>3 DEF Deleting
<1> QED BY <1>1, <1>2, <1>3

\* A deletion that takes a chunk has its document.
LEMMA DeleterHasDocument ==
  ASSUME IInv, NEW s \in Session, pc[s] \in {"documents", "cascade", "runs", "audits"},
         NEW c \in chunks, c \in scan[s] \union gone[s]
  PROVE  c.doc \in docgone[s] /\ pc[s] \in {"cascade", "runs", "audits"}
BY DEF IInv, Local, Deleting

\* A call that waits for rows waits for the holder of one that is there.
LEMMA WaitsForHolder ==
  ASSUME IInv, Locks, NEW s \in Session, Blockers(s) # {}, pc[s] \in {"replace", "cascade"},
         scan[s] # {}
  PROVE  \E r \in scan[s] \intersect chunks : \E t \in Session \ {s} : r \in gone[t]
<1>1. \E r \in scan[s] : RowHolders(s, r) # {}
  <2>1. ~ Inserting(s) /\ pc[s] # "upsert" /\ pc[s] # "documents"
    BY DEF Inserting
  <2>2. (\E r \in scan[s] : RowHolders(s, r) = {}) => Blockers(s) = {}
    BY <2>1 DEF Blockers
  <2> QED BY <2>2
<1>2. PICK r \in scan[s] : \E t \in Session \ {s} : r \in gone[t]
  BY <1>1 DEF RowHolders
<1>3. r \in ChunkRow /\ r \in chunks \union logs
  BY <1>2 DEF Locks
<1>4. r \in chunks
  BY <1>3, RowsDiffer DEF IInv, TypeOK
<1> QED BY <1>2, <1>4

\* A victim of a deadlock that was to delete a chunk waits for a call that is to
\* delete it too, or has locked more documents than one.
LEMMA VictimIsRelieved ==
  ASSUME IInv, Locks, OneDocument, NEW s \in Session, Blockers(s) # {},
         NEW d \in documents, NEW c \in ChunksOf(d.id), Attends(s, d, c),
         ~ (d.id \in docgone[s] /\ call[s].op # "delete_document")
  PROVE  \E t \in Session \ {s} : Attends(t, d, c)
<1> USE DEF IInv
<1>1. pc[s] # "delete"
  BY DEF Local, Blockers, Inserting
<1>2. c \in chunks /\ c.doc = d.id
  BY DEF ChunksOf
<1>3. pc[s] \in {"replace", "documents", "cascade", "runs", "audits"}
  BY <1>1 DEF Attends, Local, TypeOK
<1>4. CASE pc[s] \in {"documents", "cascade", "runs", "audits"}
  <2>1. d.id \in docgone[s]
    BY <1>1, <1>2, <1>4, DeleterHasDocument DEF Attends
  <2>2. call[s].op = "delete_document"
    BY <2>1
  <2>3. pc[s] # "documents"
    BY <1>4, <2>1, <2>2 DEF OneDocument, Blockers, Local, Inserting
  <2>4. pc[s] = "cascade"
    BY <1>4, <2>2, <2>3 DEF CallOK
  <2>5. scan[s] # {}
    BY <2>4 DEF Blockers, Inserting
  <2>6. PICK r \in scan[s] \intersect chunks : \E t \in Session \ {s} : r \in gone[t]
    BY <2>4, <2>5, WaitsForHolder
  <2>7. r.doc \in docgone[s]
    BY <2>4, <2>6 DEF Deleting
  <2>8. r.doc = d.id
    BY <1>4, <2>1, <2>2, <2>7 DEF OneDocument
  <2>9. PICK t \in Session \ {s} : r \in gone[t]
    BY <2>6
  <2>10. c \in scan[t] \union gone[t] \/ d.id \in docgone[t]
    BY <2>6, <2>8, <2>9, HeldTogether
  <2> QED BY <2>9, <2>10 DEF Attends
<1>5. CASE pc[s] = "replace"
  <2>1. d.id = doc[s]
    BY <1>1, <1>2, <1>5 DEF Attends, AllOrNone, Local
  <2>2. CASE scan[s] # {}
    <3>1. PICK r \in scan[s] \intersect chunks : \E t \in Session \ {s} : r \in gone[t]
      BY <1>5, <2>2, WaitsForHolder
    <3>2. r.doc = d.id
      BY <1>5, <2>1, <3>1 DEF AllOrNone
    <3>3. PICK t \in Session \ {s} : r \in gone[t]
      BY <3>1
    <3>4. c \in scan[t] \union gone[t] \/ d.id \in docgone[t]
      BY <3>1, <3>2, <3>3, HeldTogether
    <3> QED BY <3>3, <3>4 DEF Attends
  <2>3. CASE scan[s] = {}
    <3>1. \E t \in Session : t \in KeyHolders(s, NextIndex(s)) \union Deleters(s, doc[s])
      BY <1>5, <2>3 DEF Blockers, KeyHolders, Deleters
    <3>2. CASE \E t \in Session : t \in Deleters(s, doc[s])
      BY <2>1, <3>2 DEF Deleters, Attends
    <3>3. CASE \E t \in Session : t \in KeyHolders(s, NextIndex(s))
      <4>1. PICK t \in Session \ {s} :
              \E e \in fresh[t] \union (gone[t] \intersect chunks) : e.doc = doc[s]
        BY <3>3 DEF KeyHolders
      <4>2. PICK e \in fresh[t] \union (gone[t] \intersect chunks) : e.doc = doc[s]
        BY <4>1
      <4>3. CASE e \in fresh[t]
        <5>1. e.doc = doc[t]
          BY <4>3 DEF Locks
        <5>2. c \in gone[t]
          BY <2>1, <4>2, <4>3, <5>1 DEF Exclusive
        <5> QED BY <5>2 DEF Attends
      <4>4. CASE e \in gone[t] \intersect chunks
        <5>1. c \in scan[t] \union gone[t] \/ d.id \in docgone[t]
          BY <2>1, <4>2, <4>4, HeldTogether
        <5> QED BY <5>1 DEF Attends
      <4> QED BY <4>2, <4>3, <4>4
    <3> QED BY <3>1, <3>2, <3>3
  <2> QED BY <2>2, <2>3
<1> QED BY <1>3, <1>4, <1>5

\* The rows under replacement stay what they are in every step.
LEMMA OwnRowsNext ==
  ASSUME IInv, OwnInv, IInv', NEW s \in Session, Alone(s),
         (\E c \in CallsOf[s] : Begin(s, c)) \/ Step(s) \/ Fail(s)
  PROVE  OwnRows'
<1> USE DEF IInv
<1>1. CASE Upsert(s)
  <2>1. PICK row \in DocumentRow :
          /\ documents' = {d \in documents : d.uri # row.uri} \union {row}
          /\ row.writer = Me(s)
          /\ row.tenant = call[s].tenant /\ row.version = call[s].version
          /\ doc' = [doc EXCEPT ![s] = row.id]
          /\ \/ \E d \in documents : d.uri = row.uri /\ d.id = row.id
             \/ row.id = Me(s)
    BY <1>1, UpsertEffect
  <2>2. UNCHANGED call /\ pc[s] = "upsert"
    BY <1>1 DEF Upsert
  <2>3. row.writer[1] = s
    BY <2>1 DEF Me
  <2>4. doc'[s] = row.id
    BY <2>1 DEF TypeOK
  <2>5. \A d \in documents' : d.id = row.id => d = row
    BY <2>1 DEF Tables, DocumentKeys
  <2>6. \A t \in Session \ {s} : pc'[t] = pc[t] /\ doc'[t] = doc[t]
    BY DEF Alone
  <2> HIDE DEF IInv
  <2>7. \A t \in Session \ {s} : pc'[t] \in {"delete", "replace"} =>
          \A d \in documents' : d.id = doc'[t] /\ d.writer[1] = t =>
            d.version = call'[t].version /\ d.tenant = call'[t].tenant
    BY <2>1, <2>2, <2>3, <2>6 DEF OwnInv, OwnRows
  <2>8. \A d \in documents' : d.id = doc'[s] =>
          d.version = call'[s].version /\ d.tenant = call'[s].tenant
    BY <2>1, <2>2, <2>4, <2>5
  <2> QED BY <2>7, <2>8 DEF OwnRows
<1>2. CASE ~ Upsert(s)
  <2>1. documents' \subseteq documents
    BY <1>2 DEF Begin, Step, DeleteChunks, LockRow, InsertChunk, InsertRejected, CommitReplace,
                LockDocument, Cascade, PurgeRuns, PurgeAudits, CommitDelete, CommitLog,
                DeadlockVictim, Fail, Rollback, Commit, db
  <2>2. pc'[s] \in {"delete", "replace"} =>
          pc[s] \in {"delete", "replace"} /\ doc'[s] = doc[s] /\ call'[s] = call[s]
    BY <1>2 DEF TypeOK, Begin, Step, DeleteChunks, LockRow, InsertChunk, InsertRejected,
                CommitReplace, LockDocument, Cascade, PurgeRuns, PurgeAudits, CommitDelete,
                CommitLog, DeadlockVictim, Fail, Rollback, Commit, EndCall, db, client
  <2> HIDE DEF IInv
  <2> QED BY <2>1, <2>2 DEF OwnInv, OwnRows, Alone
<1> QED BY <1>1, <1>2

\* The locks of s, after a step that adds `more` to them and deletes nothing.
LEMMA LocksKept ==
  ASSUME OwnInv, NEW s \in Session, Alone(s),
         chunks \subseteq chunks', logs \subseteq logs',
         gone'[s] \subseteq chunks \union logs,
         \A t \in Session \ {s} : gone'[s] \intersect gone[t] = {},
         \A e \in fresh'[s] : e.doc = doc'[s],
         pc'[s] \in {"replace", "cascade"} => scan'[s] \union gone'[s] \subseteq ChunkRow
  PROVE  Locks'
<1>1. \A t \in Session \ {s} :
        /\ \A e \in fresh'[t] : e.doc = doc'[t]
        /\ gone'[t] \subseteq chunks \union logs
        /\ pc'[t] \in {"replace", "cascade"} => scan'[t] \union gone'[t] \subseteq ChunkRow
  BY DEF OwnInv, Locks, Alone
<1>2. \A t \in Session \ {s} : \A u \in Session \ {t} : gone'[t] \intersect gone'[u] = {}
  BY DEF OwnInv, Locks, Alone
<1>3. \A t \in Session \ {s} : gone'[s] \intersect gone'[t] = {}
  BY DEF Alone
<1>4. gone'[s] \subseteq chunks' \union logs'
  OBVIOUS
<1> QED BY <1>1, <1>2, <1>3, <1>4 DEF Locks

\* Locks holds after every step.
LEMMA LocksNext ==
  ASSUME IInv, OwnInv, IInv', NEW s \in Session, Alone(s),
         (\E c \in CallsOf[s] : Begin(s, c)) \/ Step(s) \/ Fail(s)
  PROVE  Locks'
<1> USE DEF IInv
<1>1. /\ gone[s] \subseteq chunks \union logs /\ \A e \in fresh[s] : e.doc = doc[s]
      /\ \A t \in Session \ {s} : gone[s] \intersect gone[t] = {}
      /\ pc[s] \in {"replace", "cascade"} => scan[s] \union gone[s] \subseteq ChunkRow
  BY DEF OwnInv, Locks
<1>2. CASE (\E c \in CallsOf[s] : Begin(s, c)) \/ Upsert(s)
  <2>1. /\ pc'[s] \notin {"replace", "cascade"} /\ gone'[s] = gone[s] /\ fresh'[s] = {}
        /\ UNCHANGED <<chunks, logs>>
    BY <1>2 DEF TypeOK, CallOK, Begin, Upsert, db
  <2> HIDE DEF IInv
  <2> QED BY <1>1, <2>1, LocksKept
<1>3. CASE DeleteChunks(s)
  <2>1. /\ scan'[s] = ChunksOf(doc[s]) /\ gone'[s] = {} /\ fresh'[s] = {}
        /\ UNCHANGED <<chunks, logs>>
    BY <1>3 DEF TypeOK, CallOK, Local, DeleteChunks, db, client
  <2>2. ChunksOf(doc[s]) \subseteq ChunkRow
    BY DEF TypeOK, ChunksOf
  <2> HIDE DEF IInv
  <2> QED BY <1>1, <2>1, <2>2, LocksKept
<1>4. CASE LockRow(s)
  <2>1. PICK r \in scan[s] :
          /\ RowHolders(s, r) = {}
          /\ scan' = [scan EXCEPT ![s] = @ \ {r}]
          /\ gone' = IF r \in chunks \union logs
                       THEN [gone EXCEPT ![s] = @ \union {r}] ELSE gone
    BY <1>4 DEF LockRow
  <2>2. UNCHANGED <<chunks, logs, pc, calls, call, doc, fresh>>
    BY <1>4 DEF LockRow, db, client
  <2>3. /\ scan'[s] = scan[s] \ {r}
        /\ gone'[s] \subseteq gone[s] \union {r} /\ gone'[s] \subseteq chunks \union logs
    BY <1>1, <2>1 DEF TypeOK
  <2>4. \A t \in Session \ {s} : r \notin gone[t]
    BY <2>1 DEF RowHolders
  <2> HIDE DEF IInv
  <2> QED BY <1>1, <2>2, <2>3, <2>4, LocksKept
<1>5. CASE InsertChunk(s)
  <2>1. /\ pc[s] = "replace" /\ fresh'[s] = fresh[s] \union {Piece(s, NextIndex(s))}
        /\ UNCHANGED <<chunks, logs, calls, call, doc, pc, scan, gone>>
    BY <1>5 DEF TypeOK, InsertChunk, Inserting, db, client
  <2>2. Piece(s, NextIndex(s)).doc = doc[s]
    BY DEF Piece
  <2> HIDE DEF IInv
  <2> QED BY <1>1, <2>1, <2>2, LocksKept
<1>6. CASE LockDocument(s)
  <2>1. pc'[s] = "documents" /\ UNCHANGED <<chunks, logs, doc, gone, fresh>>
    BY <1>6 DEF TypeOK, LockDocument, db, client
  <2> HIDE DEF IInv
  <2> QED BY <1>1, <2>1, LocksKept
<1>7. CASE Cascade(s)
  <2>1. /\ scan'[s] = UNION { ChunksOf(id) : id \in docgone[s] } /\ gone[s] = {}
        /\ UNCHANGED <<chunks, logs, doc, gone, fresh>>
    BY <1>7 DEF TypeOK, Local, Cascade, db, client
  <2>2. UNION { ChunksOf(id) : id \in docgone[s] } \subseteq ChunkRow
    BY DEF TypeOK, ChunksOf
  <2> HIDE DEF IInv
  <2> QED BY <1>1, <2>1, <2>2, LocksKept
<1>8. CASE PurgeRuns(s) \/ PurgeAudits(s)
  <2>1. pc'[s] \in {"runs", "audits"} /\ UNCHANGED <<chunks, logs, doc, gone, fresh>>
    BY <1>8 DEF TypeOK, PurgeRuns, PurgeAudits, db, client
  <2> HIDE DEF IInv
  <2> QED BY <1>1, <2>1, LocksKept
<1>9. ASSUME EndCall(s), chunks \ gone[s] \subseteq chunks', logs \ gone[s] \subseteq logs'
      PROVE  Locks'
  <2>1. gone'[s] = {} /\ fresh'[s] = {} /\ scan'[s] = {} /\ pc'[s] = "idle"
    BY <1>9 DEF EndCall, TypeOK
  <2>2. \A t \in Session \ {s} : gone[t] \subseteq chunks' \union logs'
    BY <1>9 DEF OwnInv, Locks
  <2> HIDE DEF IInv
  <2>3. \A t \in Session \ {s} :
          /\ \A e \in fresh'[t] : e.doc = doc'[t]
          /\ gone'[t] \subseteq chunks' \union logs'
          /\ pc'[t] \in {"replace", "cascade"} => scan'[t] \union gone'[t] \subseteq ChunkRow
    BY <2>2 DEF OwnInv, Locks, Alone
  <2>4. \A t, u \in Session : t # u => gone'[t] \intersect gone'[u] = {}
    BY <2>1 DEF OwnInv, Locks, Alone
  <2> QED BY <2>1, <2>3, <2>4 DEF Locks
<1>10. CASE CommitReplace(s) \/ CommitDelete(s)
  BY <1>9, <1>10 DEF CommitReplace, CommitDelete, Commit
<1>11. CASE CommitLog(s)
  BY <1>9, <1>11 DEF CommitLog
<1>12. CASE InsertRejected(s) \/ DeadlockVictim(s) \/ Fail(s)
  BY <1>9, <1>12 DEF InsertRejected, DeadlockVictim, Fail, Rollback, db
<1> QED BY <1>2, <1>3, <1>4, <1>5, <1>6, <1>7, <1>8, <1>10, <1>11, <1>12 DEF Step

\* And so does OneDocument.
LEMMA OneDocumentNext ==
  ASSUME IInv, OwnInv, NEW s \in Session, Alone(s),
         (\E c \in CallsOf[s] : Begin(s, c)) \/ Step(s) \/ Fail(s)
  PROVE  OneDocument'
<1> USE DEF IInv
<1> SUFFICES ASSUME pc'[s] # "idle", call'[s].op = "delete_document"
             PROVE  /\ \A i, j \in docscan'[s] \union docgone'[s] : i = j
                    /\ docscan'[s] \intersect docgone'[s] = {}
  BY DEF OwnInv, OneDocument, Alone
<1>1. CASE \E c \in CallsOf[s] : Begin(s, c)
  <2>1. PICK c \in CallsOf[s] : Begin(s, c)
    BY <1>1
  <2>2. c.op = "delete_document" /\ docgone'[s] = {}
    BY <2>1 DEF Begin, TypeOK, Local
  <2>3. docscan'[s] = { d.id : d \in {e \in documents : Matches(c, e)} }
    BY <2>1, <2>2 DEF Begin, TypeOK
  <2>4. \A d, e \in documents : Matches(c, d) /\ Matches(c, e) => d = e
    BY <2>2 DEF Matches, Tables, DocumentKeys
  <2> QED BY <2>2, <2>3, <2>4
<1>2. CASE LockDocument(s)
  <2>1. PICK id \in docscan[s] :
          /\ docscan'[s] = docscan[s] \ {id}
          /\ docgone'[s] = docgone[s] \/ docgone'[s] = docgone[s] \union {id}
    BY <1>2 DEF LockDocument, TypeOK
  <2>2. pc[s] # "idle" /\ call[s].op = "delete_document"
    BY <1>2 DEF LockDocument, db, client
  <2> QED BY <2>1, <2>2 DEF OwnInv, OneDocument
<1>3. ASSUME EndCall(s) PROVE FALSE
  BY <1>3 DEF EndCall, TypeOK
<1>4. CASE ~ (\E c \in CallsOf[s] : Begin(s, c)) /\ ~ LockDocument(s)
  <2>1. /\ pc[s] # "idle" /\ call'[s] = call[s]
        /\ docscan'[s] = docscan[s] /\ docgone'[s] = docgone[s]
    BY <1>3, <1>4 DEF TypeOK, Step, Upsert, DeleteChunks, LockRow, InsertChunk, InsertRejected,
                CommitReplace, Cascade, PurgeRuns, PurgeAudits, CommitDelete,
                CommitLog, DeadlockVictim, Fail, Rollback, Commit, db, client, Inserting, Local
  <2> QED BY <2>1 DEF OwnInv, OneDocument
<1> QED BY <1>1, <1>2, <1>4

\* Together.
LEMMA OwnNext == IInv /\ OwnInv /\ [Next]_vars => OwnInv'
<1> SUFFICES ASSUME IInv, OwnInv, [Next]_vars PROVE OwnInv'
  OBVIOUS
<1>1. IInv'
  BY InvNext
<1>2. CASE UNCHANGED vars
  BY <1>2 DEF vars, OwnInv, OwnRows, Locks, OneDocument
<1>3. CASE Next /\ ~ UNCHANGED vars
  <2>1. PICK s \in Session :
          (\E c \in CallsOf[s] : Begin(s, c)) \/ Step(s) \/ Fail(s)
    BY <1>3 DEF Next, Terminated
  <2>2. Alone(s)
    BY <2>1, StepIsAlone DEF IInv
  <2> QED BY <1>1, <2>1, <2>2, OwnRowsNext, LocksNext, OneDocumentNext DEF OwnInv
<1> QED BY <1>2, <1>3

\* d and c are of one session, and c is not what the session ingested last.
Older(d, c) ==
  /\ c.doc = d.id /\ c.writer[1] = d.writer[1]
  /\ c.version # d.version \/ c.tenant # d.tenant

\* What a step of s makes outlive, s was to delete: what it writes is not older.
LEMMA OnlyAttendedOutlive ==
  ASSUME IInv, OwnInv, NEW s \in Session, Alone(s),
         (\E c \in CallsOf[s] : Begin(s, c)) \/ Step(s) \/ Fail(s),
         NEW p \in Outlived', p \notin Outlived
  PROVE  /\ p[1] \in documents /\ p[2] \in ChunksOf(p[1].id)
         /\ Attends(s, p[1], p[2]) /\ ~ Attends(s, p[1], p[2])'
<1> DEFINE d == p[1]
           c == p[2]
<1>1. /\ d \in documents' /\ c \in chunks' /\ Older(d, c)
      /\ \A t \in Session : ~ Attends(t, d, c)'
  BY DEF Outlived, Older
<1>2. d \in documents
  <2>1. CASE Upsert(s)
    <3>1. PICK row \in DocumentRow :
            /\ documents' = {e \in documents : e.uri # row.uri} \union {row}
            /\ doc' = [doc EXCEPT ![s] = row.id]
      BY <2>1, UpsertEffect
    <3>2. pc'[s] = "delete" /\ doc'[s] = row.id
      BY <2>1, <3>1 DEF Upsert, IInv, TypeOK
    <3>3. d # row
      BY <1>1, <3>2 DEF Attends
    <3> QED BY <1>1, <3>1, <3>3
  <2>2. CASE ~ Upsert(s)
    <3>1. documents' \subseteq documents
      BY <2>2 DEF Begin, Step, DeleteChunks, LockRow, InsertChunk, InsertRejected, CommitReplace,
                  LockDocument, Cascade, PurgeRuns, PurgeAudits, CommitDelete, CommitLog,
                  DeadlockVictim, Fail, Rollback, Commit, db
    <3> QED BY <1>1, <3>1
  <2> QED BY <2>1, <2>2
<1>3. c \in chunks
  <2>1. CASE CommitReplace(s)
    <3>1. /\ pc[s] = "replace" /\ documents' = documents
          /\ \/ chunks' = chunks
             \/ chunks' = { e \in chunks : e.doc # doc[s] } \union Pieces(s)
      BY <2>1, ReplaceEffect
    <3>2. \A e \in Pieces(s) : /\ e.doc = doc[s] /\ e.writer[1] = s
                               /\ e.version = call[s].version /\ e.tenant = call[s].tenant
      BY DEF Pieces, Piece, Me
    <3>3. c \notin Pieces(s)
      BY <1>1, <1>2, <3>1, <3>2 DEF Older, OwnInv, OwnRows
    <3> QED BY <1>1, <3>1, <3>3
  <2>2. CASE CommitDelete(s)
    BY <1>1, <2>2, DeleteEffect
  <2>3. CASE ~ CommitReplace(s) /\ ~ CommitDelete(s)
    <3>1. chunks' \subseteq chunks
      BY <2>3 DEF Begin, Step, Upsert, DeleteChunks, LockRow, InsertChunk, InsertRejected,
                  LockDocument, Cascade, PurgeRuns, PurgeAudits, CommitLog,
                  DeadlockVictim, Fail, Rollback, db
    <3> QED BY <1>1, <3>1
  <2> QED BY <2>1, <2>2, <2>3
<1>4. p \in documents \X chunks
  BY <1>2, <1>3 DEF Outlived
<1>5. PICK t \in Session : Attends(t, d, c)
  BY <1>1, <1>4 DEF Outlived, Older
<1>6. t = s
  BY <1>1, <1>5 DEF Attends, Alone
<1> QED BY <1>1, <1>2, <1>3, <1>5, <1>6 DEF ChunksOf, Older

\* For each step: it was to delete the chunk and has not.
LEMMA OwnStep ==
  ASSUME IInv, OwnInv, NEW s \in Session,
         (\E c \in CallsOf[s] : Begin(s, c)) \/ Step(s) \/ Fail(s),
         NEW p \in Outlived', p \notin Outlived
  PROVE  \E t \in Session :
           \/ p[1].id \in docgone[t] /\ call[t].op # "delete_document"
           \/ Fail(t)
<1> DEFINE d == p[1]
           c == p[2]
<1> USE DEF IInv
<1>0. Alone(s)
  BY StepIsAlone
<1>1. /\ d \in documents /\ c \in ChunksOf(d.id)
      /\ Attends(s, d, c) /\ ~ Attends(s, d, c)'
  BY <1>0, OnlyAttendedOutlive
<1>2. /\ d \in documents' /\ c \in chunks' /\ c.doc = d.id
      /\ \A t \in Session : ~ Attends(t, d, c)'
  BY DEF Outlived
<1>3. c \in chunks
  BY <1>1 DEF ChunksOf
<1> HIDE DEF d, c
<1>4. CASE \E x \in CallsOf[s] : Begin(s, x)
  <2>1. ~ Attends(s, d, c)
    BY <1>4 DEF Begin, Attends, Local
  <2> QED BY <1>1, <2>1
<1>5. CASE Upsert(s)
  BY <1>1, <1>5 DEF Upsert, Attends, Local
<1>6. CASE DeleteChunks(s)
  <2>1. scan'[s] = ChunksOf(doc[s]) /\ docgone'[s] = docgone[s] /\ gone'[s] = {} /\ gone[s] = {}
        /\ scan[s] = {}
    BY <1>6 DEF DeleteChunks, TypeOK, Local, db, client
  <2>2. c \in scan'[s] \/ d.id \in docgone'[s]
    BY <1>1, <2>1 DEF Attends
  <2> QED BY <1>1, <2>2 DEF Attends
<1>7. CASE LockRow(s)
  <2>1. /\ (scan[s] \union gone[s]) \intersect chunks \subseteq scan'[s] \union gone'[s]
        /\ UNCHANGED <<pc, doc, docgone>>
    BY <1>7 DEF LockRow, TypeOK, db, client
  <2> QED BY <1>1, <1>3, <2>1 DEF Attends
<1>8. CASE InsertChunk(s) \/ LockDocument(s)
  BY <1>1, <1>8 DEF InsertChunk, LockDocument, Attends, TypeOK, db, client
<1>9. CASE Cascade(s) \/ PurgeRuns(s) \/ PurgeAudits(s)
  <2>1. UNCHANGED <<doc, gone, docgone>> /\ pc[s] # "delete"
    BY <1>9 DEF Cascade, PurgeRuns, PurgeAudits, db, client
  <2>2. scan[s] = {}
    BY <1>9 DEF Cascade, PurgeRuns, PurgeAudits, Local
  <2> QED BY <1>1, <2>1, <2>2 DEF Attends
<1>10. CASE CommitReplace(s)
  <2>1. /\ pc[s] = "replace" /\ scan[s] = {} /\ docgone[s] = {}
        /\ chunks' = (chunks \ gone[s]) \union fresh[s] /\ fresh[s] = Pieces(s)
    BY <1>10 DEF CommitReplace, Commit, Local
  <2>2. c \in gone[s]
    BY <1>1, <2>1 DEF Attends
  <2>3. NoRowBy(Me(s))
    BY <2>1 DEF CallOK, Names, Me
  <2>4. c \notin Pieces(s)
    BY <1>3, <2>3 DEF NoRowBy, Pieces, Piece
  <2> QED BY <1>2, <2>1, <2>2, <2>4
<1>11. CASE CommitDelete(s)
  <2>1. d.id \notin docgone[s] /\ c.doc \notin docgone[s]
    BY <1>2, <1>11, DeleteEffect
  <2>2. pc[s] \in {"cascade", "audits"}
    BY <1>11 DEF CommitDelete
  <2> QED BY <1>1, <1>3, <2>1, <2>2, DeleterHasDocument DEF Attends
<1>12. CASE CommitLog(s)
  BY <1>1, <1>12 DEF CommitLog, Attends, Local
<1>13. CASE InsertRejected(s)
  <2>1. /\ pc[s] = "replace" /\ scan[s] = {} /\ docgone[s] = {}
        /\ KeyTaken(s) \/ \A e \in documents : e.id # doc[s]
    BY <1>13 DEF InsertRejected, Inserting, Local
  <2>2. c \in gone[s]
    BY <1>1, <2>1 DEF Attends
  <2>3. c.doc = doc[s]
    BY <2>1, <2>2 DEF AllOrNone
  <2>4. ASSUME KeyTaken(s) PROVE FALSE
    <3>1. PICK e \in ChunksOf(doc[s]) : e \notin gone[s]
      BY <2>4 DEF KeyTaken
    <3> QED BY <1>3, <2>1, <2>2, <2>3, <3>1 DEF AllOrNone, ChunksOf
  <2> QED BY <1>1, <1>2, <2>1, <2>3, <2>4
<1>14. CASE DeadlockVictim(s)
  <2>1. Blockers(s) # {}
    BY <1>14 DEF DeadlockVictim
  <2>2. CASE d.id \in docgone[s] /\ call[s].op # "delete_document"
    BY <2>2 DEF d
  <2>3. CASE ~ (d.id \in docgone[s] /\ call[s].op # "delete_document")
    <3>1. PICK t \in Session \ {s} : Attends(t, d, c)
      BY <1>1, <2>1, <2>3, VictimIsRelieved DEF OwnInv
    <3>2. Attends(t, d, c)'
      BY <1>0, <3>1 DEF Attends, Alone
    <3> QED BY <1>2, <3>2
  <2> QED BY <2>2, <2>3
<1>15. CASE Fail(s)
  BY <1>15
<1> QED BY <1>4, <1>5, <1>6, <1>7, <1>8, <1>9, <1>10, <1>11, <1>12, <1>13, <1>14, <1>15 DEF Step

\* A session's older chunks outlive its newer upsert only by a deletion of
\* several documents that is undone, or by a call that fails of itself.
THEOREM OlderChunksGo == Spec => OwnIngestsAgree
<1>1. IInv /\ OwnInv /\ [Next]_vars =>
        [\A p \in Outlived' :
           \/ p \in Outlived
           \/ \E s \in Session :
                \/ p[1].id \in docgone[s] /\ call[s].op # "delete_document"
                \/ Fail(s)]_vars
  <2> SUFFICES ASSUME IInv, OwnInv, Next, ~ UNCHANGED vars, NEW p \in Outlived', p \notin Outlived
               PROVE  \E s \in Session :
                        \/ p[1].id \in docgone[s] /\ call[s].op # "delete_document"
                        \/ Fail(s)
    OBVIOUS
  <2>1. PICK s \in Session :
          (\E c \in CallsOf[s] : Begin(s, c)) \/ Step(s) \/ Fail(s)
    BY DEF Next, Terminated
  <2> QED BY <2>1, OwnStep
<1>2. Spec => []OwnInv
  BY Invariance, OwnInit, OwnNext, PTL DEF Spec
<1> QED BY <1>1, <1>2, Invariance, PTL DEF Spec, OwnIngestsAgree

-------------------------------------------------------------------------------
(* Why a purge that overlaps with logging never leaves an audit event without
   its retrieval run: a purge finds its runs in one statement and its audit
   events in a LATER one, and a run and its audit event are committed together
   and have the same tenant.  So the later statement finds the event of every
   run the earlier one has deleted. *)

\* A retrieval's two rows carry the same tenant.
SameTenant == \A a, r \in logs : a.writer = r.writer => a.tenant = r.tenant

\* What a transaction has found and locked of the logs, by where it is.
Purging ==
  \A s \in Session :
    /\ pc[s] \in {"replace", "cascade"} => (scan[s] \union gone[s]) \subseteq ChunkRow
    /\ pc[s] = "runs" =>
         \A r \in (scan[s] \union gone[s]) \intersect LogRow : r.tenant = call[s].tenant
    /\ pc[s] = "audits" =>
         /\ \A a \in scan[s] \intersect LogRow : a.table = "audit_events"
         /\ \A r \in gone[s] \intersect logs : \A a \in logs :
              r.table = "retrieval_runs" /\ a.table = "audit_events" /\ a.writer = r.writer
                => a \in scan[s] \union gone[s]

AuditInv == AuditHasRun /\ SameTenant /\ Purging

\* A step of s that leaves the logs alone, and everything of the other sessions.
LEMMA AuditQuietStep ==
  ASSUME AuditInv, NEW s \in Session, logs' = logs,
         \A t \in Session \ {s} :
           pc'[t] = pc[t] /\ call'[t] = call[t] /\ scan'[t] = scan[t] /\ gone'[t] = gone[t],
         pc'[s] \in {"replace", "cascade"} => (scan'[s] \union gone'[s]) \subseteq ChunkRow,
         pc'[s] = "runs" =>
           \A r \in (scan'[s] \union gone'[s]) \intersect LogRow : r.tenant = call'[s].tenant,
         pc'[s] = "audits" =>
           /\ \A a \in scan'[s] \intersect LogRow : a.table = "audit_events"
           /\ \A r \in gone'[s] \intersect logs : \A a \in logs :
                r.table = "retrieval_runs" /\ a.table = "audit_events" /\ a.writer = r.writer
                  => a \in scan'[s] \union gone'[s]
  PROVE  AuditInv'
<1>1. AuditHasRun' /\ SameTenant'
  BY DEF AuditInv, AuditHasRun, SameTenant
<1>2. Purging'
  BY DEF AuditInv, Purging
<1> QED BY <1>1, <1>2 DEF AuditInv

LEMMA AuditScan ==
  ASSUME IInv, AuditInv, NEW s \in Session,
         DeleteChunks(s) \/ Cascade(s) \/ PurgeRuns(s) \/ PurgeAudits(s)
  PROVE  AuditInv'
<1> USE DEF IInv
<1>1. /\ logs' = logs /\ call' = call /\ gone' = gone
      /\ \A t \in Session \ {s} : pc'[t] = pc[t] /\ scan'[t] = scan[t]
  BY DEF DeleteChunks, Cascade, PurgeRuns, PurgeAudits, db, client, TypeOK
<1>2. CASE DeleteChunks(s) \/ Cascade(s)
  <2>1. pc'[s] \in {"replace", "cascade"} /\ gone[s] = {}
    BY <1>2 DEF DeleteChunks, Cascade, TypeOK, Local
  <2>2. scan'[s] \subseteq ChunkRow
    BY <1>2 DEF DeleteChunks, Cascade, TypeOK, ChunksOf
  <2> QED BY <1>1, <2>1, <2>2, AuditQuietStep
<1>3. CASE PurgeRuns(s)
  <2>1. pc[s] = "cascade" /\ pc'[s] = "runs"
    BY <1>3 DEF PurgeRuns, TypeOK
  <2>2. gone[s] \intersect LogRow = {}
    BY <2>1, RowsDiffer DEF AuditInv, Purging
  <2>3. \A r \in scan'[s] : r.tenant = call[s].tenant
    BY <1>3 DEF PurgeRuns, TypeOK, LogsOf
  <2> QED BY <1>1, <2>1, <2>2, <2>3, AuditQuietStep
<1>4. CASE PurgeAudits(s)
  <2>1. pc[s] = "runs" /\ pc'[s] = "audits"
    BY <1>4 DEF PurgeAudits, TypeOK
  <2>2. scan'[s] = LogsOf("audit_events", call[s].tenant)
    BY <1>4 DEF PurgeAudits, TypeOK
  <2>3. ASSUME NEW r \in gone[s] \intersect logs, NEW a \in logs,
               a.table = "audit_events", a.writer = r.writer
        PROVE  a \in scan'[s]
    <3>1. r.tenant = call[s].tenant
      BY <2>1 DEF AuditInv, Purging, TypeOK
    <3>2. a.tenant = r.tenant
      BY <2>3 DEF AuditInv, SameTenant
    <3> QED BY <2>2, <2>3, <3>1, <3>2 DEF LogsOf
  <2>4. \A a \in scan'[s] : a.table = "audit_events"
    BY <2>2 DEF LogsOf
  <2> QED BY <1>1, <2>1, <2>3, <2>4, AuditQuietStep
<1> QED BY <1>2, <1>3, <1>4

LEMMA AuditLockRow ==
  ASSUME IInv, AuditInv, NEW s \in Session, LockRow(s)
  PROVE  AuditInv'
<1> USE DEF IInv
<1>1. PICK r \in scan[s] :
        /\ scan' = [scan EXCEPT ![s] = @ \ {r}]
        /\ gone' = IF r \in chunks \union logs
                     THEN [gone EXCEPT ![s] = @ \union {r}]
                     ELSE gone
  BY DEF LockRow
<1>2. UNCHANGED <<logs, pc, call>>
  BY DEF LockRow, db, client
<1>3. /\ scan'[s] = scan[s] \ {r}
      /\ gone'[s] \subseteq gone[s] \union {r}
      /\ gone[s] \subseteq gone'[s]
      /\ r \in logs => r \in gone'[s]
      /\ \A t \in Session \ {s} : scan'[t] = scan[t] /\ gone'[t] = gone[t]
  BY <1>1 DEF TypeOK
<1>4. pc[s] \in {"replace", "cascade"} => (scan'[s] \union gone'[s]) \subseteq ChunkRow
  BY <1>3 DEF AuditInv, Purging
<1>5. pc[s] = "runs" =>
        \A x \in (scan'[s] \union gone'[s]) \intersect LogRow : x.tenant = call[s].tenant
  BY <1>3 DEF AuditInv, Purging
<1>6. ASSUME pc[s] = "audits"
      PROVE  /\ \A a \in scan'[s] \intersect LogRow : a.table = "audit_events"
             /\ \A x \in gone'[s] \intersect logs : \A a \in logs :
                  x.table = "retrieval_runs" /\ a.table = "audit_events" /\ a.writer = x.writer
                    => a \in scan'[s] \union gone'[s]
  <2>1. r \in logs => r.table = "audit_events"
    BY <1>6 DEF AuditInv, Purging, TypeOK
  <2>2. \A x \in gone'[s] \intersect logs : x.table = "retrieval_runs" => x \in gone[s]
    BY <1>3, <2>1
  <2> QED BY <1>3, <1>6, <2>2 DEF AuditInv, Purging
<1> QED BY <1>2, <1>3, <1>4, <1>5, <1>6, AuditQuietStep

\* A commit takes a run from the logs only together with its audit event.
LEMMA AuditCommit ==
  ASSUME IInv, AuditInv, TypeOK', NEW s \in Session, CommitReplace(s) \/ CommitDelete(s)
  PROVE  AuditInv'
<1> USE DEF IInv
<1>1. /\ EndCall(s) /\ logs' = logs \ gone[s] /\ scan[s] = {}
      /\ pc[s] \in {"replace", "cascade", "audits"}
  BY DEF CommitReplace, CommitDelete, Commit
<1>2. pc'[s] = "idle" /\ scan'[s] = {} /\ gone'[s] = {}
  BY <1>1, EndCallEffect
<1>3. \A t \in Session \ {s} :
        pc'[t] = pc[t] /\ call'[t] = call[t] /\ scan'[t] = scan[t] /\ gone'[t] = gone[t]
  BY <1>1, EndCallEffect
<1>4. \A r \in logs, a \in logs' :
        r.table = "retrieval_runs" /\ a.table = "audit_events" /\ a.writer = r.writer
          => r \in logs'
  <2>1. CASE pc[s] \in {"replace", "cascade"}
    BY <1>1, <2>1, RowsDiffer DEF AuditInv, Purging, TypeOK
  <2>2. CASE pc[s] = "audits"
    BY <1>1, <2>2 DEF AuditInv, Purging
  <2> QED BY <1>1, <2>1, <2>2
<1>5. AuditHasRun'
  BY <1>1, <1>4 DEF AuditInv, AuditHasRun
<1>6. SameTenant'
  BY <1>1 DEF AuditInv, SameTenant
<1>7. Purging'
  BY <1>1, <1>2, <1>3 DEF AuditInv, Purging
<1> QED BY <1>5, <1>6, <1>7 DEF AuditInv

\* A retrieval's rows are new: no purge has found one of them before.
LEMMA AuditCommitLog ==
  ASSUME IInv, AuditInv, TypeOK', NEW s \in Session, CommitLog(s)
  PROVE  AuditInv'
<1> USE DEF IInv
<1> DEFINE Rows == { [table |-> table, tenant |-> EffectiveTenant(call[s]),
                      writer |-> Me(s)] : table \in {"retrieval_runs", "audit_events"} }
<1>1. EndCall(s) /\ logs' = logs \union Rows /\ pc[s] = "log"
  BY DEF CommitLog
<1>2. pc'[s] = "idle" /\ scan'[s] = {} /\ gone'[s] = {}
  BY <1>1, EndCallEffect
<1>3. \A t \in Session \ {s} :
        pc'[t] = pc[t] /\ call'[t] = call[t] /\ scan'[t] = scan[t] /\ gone'[t] = gone[t]
  BY <1>1, EndCallEffect
<1>4. NoRowBy(Me(s))
  BY <1>1 DEF CallOK, Names, Me
<1>5. \A r \in logs : r.writer # Me(s)
  BY <1>4 DEF NoRowBy
<1>6. \A t \in Session : \A r \in gone[t] : r.writer # Me(s)
  BY <1>4 DEF NoRowBy
<1>7. \A r \in Rows : r.writer = Me(s) /\ r.tenant = EffectiveTenant(call[s])
  OBVIOUS
<1>8. AuditHasRun'
  <2>1. \A a \in logs : a.table = "audit_events" =>
          \E r \in logs' : r.table = "retrieval_runs" /\ r.writer = a.writer
    BY <1>1 DEF AuditInv, AuditHasRun
  <2>2. \A a \in Rows :
          \E r \in logs' : r.table = "retrieval_runs" /\ r.writer = a.writer
    <3> DEFINE run == [table |-> "retrieval_runs", tenant |-> EffectiveTenant(call[s]),
                       writer |-> Me(s)]
    <3>1. run \in Rows /\ run.table = "retrieval_runs" /\ run.writer = Me(s)
      OBVIOUS
    <3> HIDE DEF run, Rows
    <3> QED BY <1>1, <1>7, <3>1
  <2> QED BY <1>1, <2>1, <2>2 DEF AuditHasRun
<1>9. SameTenant'
  <2> HIDE DEF Rows
  <2> QED BY <1>1, <1>5, <1>7 DEF AuditInv, SameTenant
<1>10. Purging'
  <2> HIDE DEF Rows
  <2> QED BY <1>1, <1>2, <1>3, <1>6, <1>7 DEF AuditInv, Purging
<1> QED BY <1>8, <1>9, <1>10 DEF AuditInv

LEMMA AuditNext == IInv /\ AuditInv /\ [Next]_vars => AuditInv'
<1> SUFFICES ASSUME IInv, AuditInv, [Next]_vars
             PROVE  AuditInv'
  OBVIOUS
<1>1. TypeOK'
  BY TypeNext DEF IInv
<1>2. CASE UNCHANGED vars
  BY <1>2 DEF vars, AuditInv, AuditHasRun, SameTenant, Purging
<1>3. CASE Next /\ ~ UNCHANGED vars
  <2>1. PICK s \in Session :
          (\E c \in CallsOf[s] : Begin(s, c)) \/ Step(s) \/ Fail(s)
    BY <1>3 DEF Next, Terminated
  <2>2. CASE (\E c \in CallsOf[s] : Begin(s, c)) \/ Upsert(s)
    <3>1. /\ logs' = logs /\ scan' = scan /\ gone' = gone
          /\ pc'[s] \in {"upsert", "log", "documents", "delete"}
          /\ \A t \in Session \ {s} : pc'[t] = pc[t] /\ call'[t] = call[t]
      BY <2>2 DEF Begin, Upsert, db, IInv, TypeOK
    <3> QED BY <3>1, AuditQuietStep
  <2>3. CASE InsertChunk(s) \/ LockDocument(s)
    <3>1. UNCHANGED <<logs, pc, call, scan, gone>>
      BY <2>3 DEF InsertChunk, LockDocument, db, client
    <3> QED BY <3>1 DEF AuditInv, AuditHasRun, SameTenant, Purging
  <2>4. CASE DeleteChunks(s) \/ Cascade(s) \/ PurgeRuns(s) \/ PurgeAudits(s)
    BY <2>4, AuditScan
  <2>5. CASE LockRow(s)
    BY <2>5, AuditLockRow
  <2>6. CASE CommitReplace(s) \/ CommitDelete(s)
    BY <1>1, <2>6, AuditCommit
  <2>7. CASE CommitLog(s)
    BY <1>1, <2>7, AuditCommitLog
  <2>8. CASE InsertRejected(s) \/ DeadlockVictim(s) \/ Fail(s)
    <3>1. EndCall(s) /\ logs' = logs
      BY <2>8 DEF InsertRejected, DeadlockVictim, Fail, Rollback, db
    <3> QED BY <1>1, <3>1, EndCallEffect, AuditQuietStep
  <2> QED BY <2>1, <2>2, <2>3, <2>4, <2>5, <2>6, <2>7, <2>8 DEF Step
<1> QED BY <1>2, <1>3

\* An audit event never loses its retrieval run, whatever purges overlap with
\* the retrievals and with each other.
THEOREM AuditEventsHaveRuns == Spec => []AuditHasRun
<1>1. Init => AuditInv
  BY DEF Init, AuditInv, AuditHasRun, SameTenant, Purging
<1>2. AuditInv => AuditHasRun
  BY DEF AuditInv
<1> QED BY <1>1, <1>2, AuditNext, Invariance, PTL DEF Spec
===============================================================================
