----------------------- MODULE EmbeddingMigrationProofs -----------------------
(***************************************************************************)
(* Proofs about EmbeddingMigration, for every set of sessions, documents,  *)
(* texts, tenants and models, every batch size and every assignment of     *)
(* calls.                                                                  *)
(***************************************************************************)
EXTENDS EmbeddingMigration, FiniteSetTheorems, TLAPS

-------------------------------------------------------------------------------
(* The inductive invariant *)

\* Only a re-embedding has rows in hand.
Idle ==
  \A s \in Session : ~ Doing(s, "reembed") =>
    found[s] = {} /\ todo[s] = {} /\ batch[s] = {} /\ written[s] = {}

\* Ids are keys and are never used again.
Keys ==
  /\ IsFiniteSet(chunks)
  /\ \A c \in chunks : c.id < nextId /\ \A d \in chunks : c.id = d.id => c = d

\* A row as a re-embedding read it still has the text of the row of that id,
\* if there is one.
Stale ==
  \A s \in Session :
    /\ IsFiniteSet(found[s])
    /\ \A r \in found[s] :
         r.id < nextId /\ \A c \in chunks : c.id = r.id => c.text = r.text

\* The rows in hand are among those found, and gone through in order of ids.
Ordered ==
  \A s \in Session :
    /\ todo[s] \subseteq found[s] /\ batch[s] \subseteq found[s]
    /\ written[s] \subseteq found[s]
    /\ todo[s] \intersect batch[s] = {}
    /\ \A w \in written[s], r \in batch[s] \union todo[s] : w.id < r.id
    /\ \A r \in batch[s], q \in todo[s] : r.id < q.id

\* The registry tells the column's dimension, and every stored vector has it.
Columns ==
  /\ registry = column
  /\ \A c \in chunks : c.embedding # None => ModelDim[c.embedding.model] = column

\* What a re-embedding is about to commit fits the column.
Writers == \A s \in Session : written[s] # {} => Fits(call[s].model)

\* Only a health check has a verdict, and it is still what the registry says.
Checks ==
  \A s \in Session :
    /\ verdict[s] # None => Doing(s, "health")
    /\ verdict[s] = "match" => ModelDim[call[s].model] = registry
    /\ verdict[s] = "mismatch" => ModelDim[call[s].model] # registry

IInv == TypeOK /\ Idle /\ Keys /\ Stale /\ Ordered /\ Columns /\ Writers /\ Checks
          /\ EmbeddingsFitText

\* A call has the arguments that its kind needs.
LEMMA CallArguments ==
  ASSUME TypeOK, NEW s \in Session, call[s] # None
  PROVE  /\ call[s] \in Call
         /\ call[s].op = "reembed" => call[s].model \in Model
         /\ call[s].op = "replace" =>
              /\ call[s].doc \in Doc /\ call[s].texts \in Seq(Text)
              /\ call[s].tenant \in Tenant
              /\ call[s].model \in Model \union {None}
         /\ call[s].op = "set_dimension" => call[s].dimension \in Nat
BY MigrationCallAssumption DEF TypeOK, Call

LEMMA EmbeddingFields ==
  ASSUME NEW x, NEW m
  PROVE  Embedding(x, m).text = x /\ Embedding(x, m).model = m
BY DEF Embedding

\* A function maps a finite set to a finite set.
LEMMA FiniteImage ==
  ASSUME NEW S, IsFiniteSet(S), NEW f, DOMAIN f = S, f = [x \in S |-> f[x]]
  PROVE  IsFiniteSet({ f[x] : x \in S })
<1> DEFINE T == { f[x] : x \in S }
<1>1. f \in Surjection(S, T)
  BY DEF Surjection
<1> QED BY <1>1, FS_Surjection

LEMMA InitInv == Init => IInv
<1> SUFFICES ASSUME Init PROVE IInv
  OBVIOUS
<1>1. TypeOK
  BY DimensionAssumption DEF Init, TypeOK
<1>2. Idle /\ Ordered /\ Columns /\ Writers /\ EmbeddingsFitText
  BY DEF Init, Idle, Ordered, Columns, Writers, EmbeddingsFitText
<1>4. Checks
  BY AbsenceAssumption DEF Init, Checks
<1>3. Keys /\ Stale
  BY FS_EmptySet DEF Init, Keys, Stale
<1> QED BY <1>1, <1>2, <1>3, <1>4 DEF IInv

\* A call that ends keeps every part of the invariant that is not about the
\* tables, if ids keep their texts and no re-embedding sees the column change.
LEMMA EndCallKeeps ==
  ASSUME IInv, NEW s \in Session, EndCall(s),
         chunks' \subseteq ChunkRow,
         nextId' \in Nat, nextId <= nextId',
         column' \in Nat \ {0}, registry' \in Nat \ {0},
         \A c \in chunks' : c.id >= nextId \/
           \E d \in chunks : d.id = c.id /\ d.text = c.text,
         <<column, registry>>' = <<column, registry>> \/ ~ TableInUse
  PROVE  TypeOK' /\ Idle' /\ Stale' /\ Ordered' /\ Writers' /\ Checks'
<1>1. TypeOK'
  BY DEF IInv, TypeOK, EndCall
<1>2. \A t \in Session \ {s} :
        /\ call'[t] = call[t] /\ found'[t] = found[t] /\ todo'[t] = todo[t]
        /\ batch'[t] = batch[t] /\ written'[t] = written[t]
        /\ verdict'[t] = verdict[t]
  BY DEF IInv, TypeOK, EndCall
<1>3. /\ call'[s] = None /\ found'[s] = {} /\ todo'[s] = {}
      /\ batch'[s] = {} /\ written'[s] = {} /\ verdict'[s] = None
  BY DEF IInv, TypeOK, EndCall
<1>4. Idle'
  BY <1>2, <1>3 DEF IInv, Idle, Doing
<1>5. Ordered'
  BY <1>2, <1>3 DEF IInv, Ordered
<1>6. Stale'
  <2> SUFFICES ASSUME NEW t \in Session
               PROVE  /\ IsFiniteSet(found'[t])
                      /\ \A r \in found'[t] :
                           r.id < nextId' /\
                           \A c \in chunks' : c.id = r.id => c.text = r.text
    BY DEF Stale
  <2>1. CASE t = s
    BY <2>1, <1>3, FS_EmptySet
  <2>2. CASE t # s
    <3>1. found'[t] = found[t] /\ IsFiniteSet(found[t])
      BY <2>2, <1>2 DEF IInv, Stale
    <3>2. ASSUME NEW r \in found[t]
          PROVE  /\ r.id < nextId'
                 /\ \A c \in chunks' : c.id = r.id => c.text = r.text
      <4>1. /\ r.id < nextId /\ r.id \in Nat /\ nextId \in Nat
            /\ \A c \in chunks : c.id = r.id => c.text = r.text
        BY DEF IInv, Stale, TypeOK, ChunkRow
      <4> QED BY <4>1
    <3> QED BY <3>1, <3>2
  <2> QED BY <2>1, <2>2
<1>7. Writers'
  <2> SUFFICES ASSUME NEW t \in Session, written'[t] # {}
               PROVE  ModelDim[call'[t].model] = column'
    BY DEF Writers, Fits
  <2>1. t # s /\ written[t] # {} /\ call'[t] = call[t]
    BY <1>2, <1>3
  <2>2. ModelDim[call[t].model] = column
    BY <2>1 DEF IInv, Writers, Fits
  <2>3. Doing(t, "reembed")
    BY <2>1 DEF IInv, Idle
  <2> QED BY <2>1, <2>2, <2>3 DEF TableInUse
<1>8. Checks'
  <2> SUFFICES ASSUME NEW t \in Session
               PROVE  /\ verdict'[t] # None => call'[t] # None /\ call'[t].op = "health"
                      /\ verdict'[t] = "match" => ModelDim[call'[t].model] = registry'
                      /\ verdict'[t] = "mismatch" => ModelDim[call'[t].model] # registry'
    BY DEF Checks, Doing
  <2>1. CASE t = s
    BY <2>1, <1>3, AbsenceAssumption
  <2>2. CASE t # s
    <3>1. verdict'[t] = verdict[t] /\ call'[t] = call[t]
      BY <1>2, <2>2
    <3>2. /\ verdict[t] # None => Doing(t, "health")
          /\ verdict[t] = "match" => ModelDim[call[t].model] = registry
          /\ verdict[t] = "mismatch" => ModelDim[call[t].model] # registry
      BY DEF IInv, Checks
    <3>3. verdict[t] \in {"match", "mismatch"} => registry' = registry
      BY <3>2, AbsenceAssumption DEF TableInUse
    <3> QED BY <3>1, <3>2, <3>3 DEF Doing
  <2> QED BY <2>1, <2>2
<1> QED BY <1>1, <1>4, <1>5, <1>6, <1>7, <1>8

LEMMA RollbackInv ==
  ASSUME IInv, NEW s \in Session, Rollback(s)
  PROVE  IInv'
<1>1. EndCall(s) /\ UNCHANGED <<chunks, nextId, column, registry>>
  BY DEF Rollback, schema
<1>2. TypeOK' /\ Idle' /\ Stale' /\ Ordered' /\ Writers' /\ Checks'
  BY <1>1, EndCallKeeps DEF IInv, TypeOK, ChunkRow
<1>3. Keys' /\ Columns' /\ EmbeddingsFitText'
  BY <1>1 DEF IInv, Keys, Columns, EmbeddingsFitText
<1> QED BY <1>2, <1>3 DEF IInv

LEMMA BeginInv ==
  ASSUME IInv, NEW s \in Session, NEW c \in CallsOf[s], Begin(s, c)
  PROVE  IInv'
<1> DEFINE rows == { r \in chunks : InScope(c, r) }
<1>1. c \in Call
  BY DEF Call
<1>2. UNCHANGED <<chunks, nextId, column, registry, batch, written, total, verdict>>
  BY DEF Begin, schema
<1>3. /\ ~ Doing(s, "reembed")
      /\ found[s] = {} /\ todo[s] = {} /\ batch[s] = {} /\ written[s] = {}
  BY DEF Begin, IInv, Idle, Doing
<1>4. /\ call' = [call EXCEPT ![s] = c]
      /\ \/ /\ c.op = "reembed"
            /\ found' = [found EXCEPT ![s] = rows]
            /\ todo' = [todo EXCEPT ![s] = rows]
         \/ c.op # "reembed" /\ found' = found /\ todo' = todo
  BY DEF Begin
<1>5. /\ call'[s] = c /\ found'[s] = todo'[s]
      /\ found'[s] \subseteq chunks
      /\ c.op # "reembed" => found'[s] = {}
      /\ \A t \in Session \ {s} : /\ call'[t] = call[t]
                                  /\ found'[t] = found[t] /\ todo'[t] = todo[t]
  BY <1>3, <1>4 DEF IInv, TypeOK
<1>6. TypeOK'
  <2>1. calls' \in [Session -> 0 .. MaxCalls]
    BY DimensionAssumption DEF Begin, IInv, TypeOK
  <2>2. rows \subseteq ChunkRow
    BY DEF IInv, TypeOK
  <2>3. found' \in [Session -> SUBSET ChunkRow] /\ todo' \in [Session -> SUBSET ChunkRow]
    <3> HIDE DEF rows
    <3> QED BY <1>4, <2>2 DEF IInv, TypeOK
  <2>4. call' \in [Session -> Call \union {None}]
    BY <1>1, <1>4 DEF IInv, TypeOK
  <2> QED BY <1>2, <2>1, <2>3, <2>4 DEF IInv, TypeOK
<1>7. Idle'
  <2>1. c # None
    BY MigrationCallAssumption
  <2> QED BY <1>2, <1>3, <1>5, <2>1 DEF IInv, Idle, Doing
<1>8. Stale'
  <2>1. IsFiniteSet(found'[s])
    BY <1>5, FS_Subset DEF IInv, Keys
  <2>2. \A r \in found'[s] :
          r.id < nextId /\ \A d \in chunks : d.id = r.id => d.text = r.text
    BY <1>5 DEF IInv, Keys
  <2> QED BY <1>2, <1>5, <2>1, <2>2 DEF IInv, Stale
<1>9. Ordered'
  BY <1>2, <1>3, <1>5 DEF IInv, Ordered
<1>10. Keys' /\ Columns' /\ EmbeddingsFitText'
  BY <1>2 DEF IInv, Keys, Columns, EmbeddingsFitText
<1>11. Writers'
  BY <1>2, <1>3, <1>5 DEF IInv, Writers, Fits
<1>12. Checks'
  <2>1. verdict[s] = None
    BY DEF Begin, IInv, Checks, Doing
  <2> QED BY <1>2, <1>5, <2>1, AbsenceAssumption DEF IInv, Checks, Doing
<1> QED BY <1>6, <1>7, <1>8, <1>9, <1>10, <1>11, <1>12 DEF IInv

LEMMA EmbedBatchInv ==
  ASSUME IInv, NEW s \in Session, EmbedBatch(s)
  PROVE  IInv'
<1>1. PICK b \in Batches(todo[s]) : \E answered \in Prefixes(b) :
        /\ todo' = [todo EXCEPT ![s] = @ \ b]
        /\ batch' = [batch EXCEPT ![s] = answered]
  BY DEF EmbedBatch
<1>2. PICK answered \in Prefixes(b) :
        /\ todo' = [todo EXCEPT ![s] = @ \ b]
        /\ batch' = [batch EXCEPT ![s] = answered]
  BY <1>1
<1>3. /\ b \subseteq todo[s] /\ answered \subseteq b
      /\ \A r \in b, q \in todo[s] \ b : r.id < q.id
  BY DEF Batches, Prefixes
<1>4. UNCHANGED <<chunks, nextId, column, registry, calls, call, found, written, total,
                 verdict>>
  BY DEF EmbedBatch, schema
<1>5. todo'[s] = todo[s] \ b /\ batch'[s] = answered
  BY <1>2 DEF IInv, TypeOK
<1>6. \A t \in Session \ {s} : todo'[t] = todo[t] /\ batch'[t] = batch[t]
  BY <1>2 DEF IInv, TypeOK
<1>7. TypeOK'
  BY <1>2, <1>3, <1>4 DEF IInv, TypeOK
<1>8. Idle'
  BY <1>4, <1>6 DEF IInv, Idle, Doing, EmbedBatch
<1>9. Keys' /\ Stale' /\ Columns' /\ Writers' /\ Checks' /\ EmbeddingsFitText'
  BY <1>4 DEF IInv, Keys, Stale, Columns, Writers, Fits, Checks, Doing,
              EmbeddingsFitText
<1>10. Ordered'
  BY <1>3, <1>4, <1>5, <1>6 DEF IInv, Ordered
<1> QED BY <1>7, <1>8, <1>9, <1>10 DEF IInv

\* The row that is updated next comes before all others in hand.
LEMMA CurrentIsFirst ==
  ASSUME NEW s \in Session, NEW r \in Current(s)
  PROVE  r \in batch[s] /\ \A q \in batch[s] \ {r} : r.id < q.id
BY DEF Current, Prefixes

LEMMA UpdateRowInv ==
  ASSUME IInv, NEW s \in Session, UpdateRow(s)
  PROVE  IInv'
<1>1. PICK r \in Current(s) :
        /\ \/ /\ \E c \in chunks : SameChunk(r, c)
              /\ Fits(call[s].model)
              /\ written' = [written EXCEPT ![s] = @ \union {r}]
           \/ written' = written
        /\ batch' = [batch EXCEPT ![s] = @ \ {r}]
        /\ total' = [total EXCEPT ![s] = @ + 1]
  BY DEF UpdateRow
<1>2. r \in batch[s] /\ \A q \in batch[s] \ {r} : r.id < q.id
  BY CurrentIsFirst
<1>3. UNCHANGED <<chunks, nextId, column, registry, calls, call, found, todo, verdict>>
  BY DEF UpdateRow, schema
<1>4. /\ batch'[s] = batch[s] \ {r}
      /\ written'[s] \in {written[s], written[s] \union {r}}
      /\ written'[s] # written[s] => Fits(call[s].model)
      /\ \A t \in Session \ {s} : batch'[t] = batch[t] /\ written'[t] = written[t]
  BY <1>1 DEF IInv, TypeOK
<1>5. TypeOK'
  BY <1>1, <1>2, <1>3 DEF IInv, TypeOK
<1>6. Idle'
  BY <1>3, <1>4 DEF IInv, Idle, Doing, UpdateRow
<1>7. Keys' /\ Stale' /\ Columns' /\ Checks' /\ EmbeddingsFitText'
  BY <1>3 DEF IInv, Keys, Stale, Columns, Checks, Doing, EmbeddingsFitText
<1>8. Writers'
  BY <1>3, <1>4 DEF IInv, Writers, Fits
<1>9. Ordered'
  <2>1. \A w \in written'[s], q \in batch'[s] \union todo[s] : w.id < q.id
    BY <1>2, <1>4 DEF IInv, Ordered
  <2> QED BY <1>2, <1>3, <1>4, <2>1 DEF IInv, Ordered
<1> QED BY <1>5, <1>6, <1>7, <1>8, <1>9 DEF IInv

\* A commit changes no more than embeddings, and every row of it is a row of
\* before, as it was or with the vector computed from the row that was read.
LEMMA UpdatedRows ==
  ASSUME IInv, NEW s \in Session, Doing(s, "reembed"), NEW c \in Updated(s)
  PROVE  \E d \in chunks :
           /\ c \in ChunkRow /\ c.id = d.id /\ c.text = d.text
           /\ \/ /\ c = d
                 /\ \A w \in written[s] : w.id # d.id
              \/ /\ c = [d EXCEPT !.embedding = Embedding(d.text, call[s].model)]
                 /\ c.embedding = Embedding(d.text, call[s].model)
                 /\ Fits(call[s].model)
<1> DEFINE old(d) == CHOOSE w \in written[s] : SameChunk(w, d)
           new(d) == IF \E w \in written[s] : SameChunk(w, d)
                       THEN [d EXCEPT !.embedding = Embedding(old(d).text, call[s].model)]
                       ELSE d
<1>1. PICK d \in chunks : c = new(d)
  BY DEF Updated
<1>2. d \in ChunkRow
  BY DEF IInv, TypeOK
<1>3. CASE \E w \in written[s] : SameChunk(w, d)
  <2>1. old(d) \in written[s] /\ old(d).id = d.id
    BY <1>3 DEF SameChunk
  <2> HIDE DEF old
  <2>2. old(d).text = d.text
    BY <2>1 DEF IInv, Stale, Ordered
  <2>3. c = [d EXCEPT !.embedding = Embedding(d.text, call[s].model)]
    BY <1>1, <1>3, <2>2
  <2>4. call[s].model \in Model
    BY CallArguments DEF Doing, IInv
  <2>5. Fits(call[s].model)
    BY <2>1 DEF IInv, Writers
  <2>6. Embedding(d.text, call[s].model) \in [text : Text, model : Model]
    BY <1>2, <2>4 DEF Embedding, ChunkRow
  <2>7. c \in ChunkRow /\ c.id = d.id /\ c.text = d.text
        /\ c.embedding = Embedding(d.text, call[s].model)
    BY <1>2, <2>3, <2>6 DEF ChunkRow
  <2> QED BY <2>3, <2>5, <2>7
<1>4. CASE ~ \E w \in written[s] : SameChunk(w, d)
  BY <1>1, <1>2, <1>4 DEF SameChunk
<1> QED BY <1>3, <1>4

LEMMA CommitReembedInv ==
  ASSUME IInv, NEW s \in Session, CommitReembed(s)
  PROVE  IInv'
<1>1. /\ Doing(s, "reembed") /\ chunks' = Updated(s) /\ EndCall(s)
      /\ UNCHANGED <<nextId, column, registry>>
  BY DEF CommitReembed, schema
<1>2. \A c \in chunks' : \E d \in chunks :
        /\ c \in ChunkRow /\ c.id = d.id /\ c.text = d.text
        /\ \/ c = d
           \/ /\ c = [d EXCEPT !.embedding = Embedding(d.text, call[s].model)]
              /\ c.embedding = Embedding(d.text, call[s].model)
              /\ Fits(call[s].model)
  BY <1>1, UpdatedRows
<1>3. TypeOK' /\ Idle' /\ Stale' /\ Ordered' /\ Writers' /\ Checks'
  BY <1>1, <1>2, EndCallKeeps DEF IInv, TypeOK
<1>4. Keys'
  <2>1. IsFiniteSet(chunks')
    <3> DEFINE f == [c \in chunks |->
                      IF \E w \in written[s] : SameChunk(w, c)
                        THEN [c EXCEPT !.embedding =
                                Embedding((CHOOSE w \in written[s] : SameChunk(w, c)).text,
                                          call[s].model)]
                        ELSE c]
    <3>1. chunks' = { f[c] : c \in chunks }
      BY <1>1 DEF Updated
    <3>2. DOMAIN f = chunks /\ f = [c \in chunks |-> f[c]]
      OBVIOUS
    <3> HIDE DEF f
    <3> QED BY <3>1, <3>2, FiniteImage DEF IInv, Keys
  <2>2. \A c \in chunks' : c.id < nextId'
    BY <1>1, <1>2 DEF IInv, Keys
  <2>3. ASSUME NEW c \in chunks', NEW d \in chunks', c.id = d.id
        PROVE  c = d
    <3> DEFINE new(e) == IF \E w \in written[s] : SameChunk(w, e)
                           THEN [e EXCEPT !.embedding =
                                   Embedding((CHOOSE w \in written[s] : SameChunk(w, e)).text,
                                             call[s].model)]
                           ELSE e
    <3>1. \A e \in chunks : new(e).id = e.id
      BY DEF IInv, TypeOK, ChunkRow
    <3>2. PICK c0 \in chunks, d0 \in chunks : c = new(c0) /\ d = new(d0)
      BY <1>1 DEF Updated
    <3> HIDE DEF new
    <3>3. c0.id = d0.id
      BY <2>3, <3>1, <3>2
    <3>4. c0 = d0
      BY <3>3 DEF IInv, Keys
    <3> QED BY <3>2, <3>4
  <2> QED BY <2>1, <2>2, <2>3 DEF Keys
<1>5. Columns'
  <2> SUFFICES ASSUME NEW c \in chunks', c.embedding # None
               PROVE  ModelDim[c.embedding.model] = column
    BY <1>1 DEF IInv, Columns
  <2> QED BY <1>2, EmbeddingFields DEF IInv, Columns, Fits
<1>6. EmbeddingsFitText'
  <2> SUFFICES ASSUME NEW c \in chunks', c.embedding # None
               PROVE  c.embedding.text = c.text
    BY DEF EmbeddingsFitText
  <2> QED BY <1>2, EmbeddingFields DEF IInv, EmbeddingsFitText
<1> QED BY <1>3, <1>4, <1>5, <1>6 DEF IInv

\* What replace_chunks inserts.
LEMMA PiecesRows ==
  ASSUME IInv, NEW s \in Session, Doing(s, "replace"), NEW c \in Pieces(call[s])
  PROVE  /\ c \in ChunkRow
         /\ nextId <= c.id /\ c.id < nextId + Len(call[s].texts)
         /\ c.embedding # None =>
              c.embedding = Embedding(c.text, call[s].model)
              /\ call[s].model \in Model /\ call[s].texts # << >>
         /\ \A d \in Pieces(call[s]) : c.id = d.id => c = d
<1> DEFINE k == call[s]
           piece(i) ==
             [id |-> nextId + i - 1, doc |-> k.doc, index |-> i - 1,
              text |-> k.texts[i], tenant |-> k.tenant,
              embedding |-> IF k.model = None THEN None
                                              ELSE Embedding(k.texts[i], k.model)]
<1>1. /\ k.doc \in Doc /\ k.texts \in Seq(Text) /\ k.tenant \in Tenant
      /\ k.model \in Model \union {None} /\ nextId \in Nat \ {0}
  BY CallArguments DEF Doing, IInv, TypeOK
<1> HIDE DEF k
<1>2. PICK i \in 1 .. Len(k.texts) : c = piece(i)
  BY DEF Pieces, k
<1>3. k.texts[i] \in Text /\ i \in Nat \ {0} /\ i <= Len(k.texts) /\ Len(k.texts) \in Nat
  BY <1>1
<1>4. k.model = None \/ (k.model \in Model /\
        Embedding(k.texts[i], k.model) \in [text : Text, model : Model])
  BY <1>1, <1>3 DEF Embedding
<1>5. c.id = nextId + i - 1 /\ c.text = k.texts[i]
      /\ c.embedding = IF k.model = None THEN None ELSE Embedding(k.texts[i], k.model)
  BY <1>2
<1>6. c \in ChunkRow
  <2>1. nextId + i - 1 \in Nat /\ i - 1 \in Nat
    BY <1>1, <1>3
  <2> QED BY <1>1, <1>2, <1>3, <1>4, <2>1 DEF ChunkRow
<1>7. nextId <= c.id /\ c.id < nextId + Len(k.texts) /\ k.texts # << >>
  BY <1>1, <1>3, <1>5
<1>8. ASSUME NEW d \in Pieces(call[s]), c.id = d.id PROVE c = d
  <2>1. PICK j \in 1 .. Len(k.texts) : d = piece(j)
    BY DEF Pieces, k
  <2>2. nextId + i - 1 = nextId + j - 1
    BY <1>5, <1>8, <2>1
  <2>3. i = j
    BY <1>1, <1>3, <2>1, <2>2
  <2> QED BY <1>2, <2>1, <2>3
<1>9. c.embedding # None => c.embedding = Embedding(c.text, k.model) /\ k.model \in Model
  BY <1>4, <1>5
<1> QED BY <1>6, <1>7, <1>8, <1>9 DEF k

LEMMA ReplaceInv ==
  ASSUME IInv, NEW s \in Session, ReplaceChunks(s)
  PROVE  IInv'
<1> DEFINE old == { r \in chunks : r.doc = call[s].doc }
           new == Pieces(call[s])
<1>1. /\ Doing(s, "replace") /\ EndCall(s) /\ Accepted(call[s])
      /\ chunks' = (chunks \ old) \union new
      /\ nextId' = nextId + Len(call[s].texts)
      /\ column' = column /\ registry' = registry
  BY DEF ReplaceChunks
<1>2. call[s].texts \in Seq(Text)
  BY <1>1, CallArguments DEF Doing, IInv
<1>3. nextId' \in Nat \ {0} /\ nextId <= nextId'
  BY <1>1, <1>2 DEF IInv, TypeOK
<1>4. \A c \in new :
        /\ c \in ChunkRow /\ nextId <= c.id /\ c.id < nextId'
        /\ c.embedding # None =>
             c.embedding = Embedding(c.text, call[s].model) /\ Fits(call[s].model)
        /\ \A d \in new : c.id = d.id => c = d
  BY <1>1, PiecesRows DEF Accepted
<1>5. chunks' \subseteq ChunkRow
  BY <1>1, <1>4 DEF IInv, TypeOK
<1>6. \A c \in chunks' : c.id >= nextId \/ \E d \in chunks : d.id = c.id /\ d.text = c.text
  BY <1>1, <1>4
<1>7. TypeOK' /\ Idle' /\ Stale' /\ Ordered' /\ Writers' /\ Checks'
  BY <1>1, <1>3, <1>5, <1>6, EndCallKeeps DEF IInv, TypeOK
<1>8. Keys'
  <2>1. IsFiniteSet(new)
    <3> DEFINE k == call[s]
               f == [i \in 1 .. Len(k.texts) |->
                  [id |-> nextId + i - 1, doc |-> k.doc, index |-> i - 1,
                   text |-> k.texts[i], tenant |-> k.tenant,
                   embedding |-> IF k.model = None THEN None
                                 ELSE Embedding(k.texts[i], k.model)]]
    <3>1. IsFiniteSet(1 .. Len(k.texts))
      <4>1. Len(k.texts) \in Nat
        BY <1>2
      <4> QED BY <4>1, FS_Interval
    <3>2. new = { f[i] : i \in 1 .. Len(k.texts) }
      BY DEF Pieces
    <3>3. DOMAIN f = 1 .. Len(k.texts) /\ f = [i \in 1 .. Len(k.texts) |-> f[i]]
      OBVIOUS
    <3> HIDE DEF f, new
    <3> QED BY <3>1, <3>2, <3>3, FiniteImage
  <2>2. IsFiniteSet(chunks')
    <3>1. IsFiniteSet(chunks \ old)
      BY FS_Subset DEF IInv, Keys
    <3> QED BY <1>1, <2>1, <3>1, FS_Union
  <2>3. \A c \in chunks : c.id < nextId /\ c.id \in Nat /\ nextId \in Nat
    BY DEF IInv, Keys, TypeOK, ChunkRow
  <2>4. \A c \in new : c.id \in Nat /\ nextId <= c.id
    BY <1>4 DEF ChunkRow
  <2>5. \A c \in chunks' : c.id < nextId'
    BY <1>1, <1>3, <1>4, <2>3
  <2>6. \A c, d \in chunks' : c.id = d.id => c = d
    <3>1. \A c \in chunks, d \in new : c.id # d.id
      BY <2>3, <2>4
    <3> HIDE DEF new
    <3> QED BY <1>1, <1>4, <3>1 DEF IInv, Keys
  <2> QED BY <2>2, <2>5, <2>6 DEF Keys
<1>9. Columns'
  <2> SUFFICES ASSUME NEW c \in chunks', c.embedding # None
               PROVE  ModelDim[c.embedding.model] = column
    BY <1>1 DEF IInv, Columns
  <2> HIDE DEF new
  <2> QED BY <1>1, <1>4, EmbeddingFields DEF IInv, Columns, Fits
<1>10. EmbeddingsFitText'
  <2> SUFFICES ASSUME NEW c \in chunks', c.embedding # None
               PROVE  c.embedding.text = c.text
    BY DEF EmbeddingsFitText
  <2> HIDE DEF new
  <2> QED BY <1>1, <1>4, EmbeddingFields DEF IInv, EmbeddingsFitText
<1> QED BY <1>7, <1>8, <1>9, <1>10 DEF IInv

LEMMA ResizeInv ==
  ASSUME IInv, NEW s \in Session, ResizeColumn(s)
  PROVE  IInv'
<1> DEFINE n == call[s].dimension
<1>1. /\ ~ TableInUse /\ Resizable(n) /\ column' = n /\ registry' = n
      /\ EndCall(s) /\ chunks' = chunks /\ nextId' = nextId
  BY DEF ResizeColumn
<1>2. n \in Nat \ {0}
  BY <1>1 DEF Resizable
<1>3. TypeOK' /\ Idle' /\ Stale' /\ Ordered' /\ Writers' /\ Checks'
  BY <1>1, <1>2, EndCallKeeps DEF IInv, TypeOK
<1>4. Keys' /\ Columns' /\ EmbeddingsFitText'
  BY <1>1 DEF IInv, Keys, Columns, EmbeddingsFitText, Resizable
<1> QED BY <1>3, <1>4 DEF IInv

\* A verdict of the guard is that of the registry it has read.
LEMMA CheckInv ==
  ASSUME IInv, NEW s \in Session, CheckDimension(s) \/ CheckSkipped(s)
  PROVE  IInv'
<1>1. UNCHANGED <<chunks, nextId, column, registry, calls, call, found, todo, batch,
                  written, total>>
  BY DEF CheckDimension, CheckSkipped, schema
<1>2. /\ Doing(s, "health")
      /\ \E v \in {"match", "mismatch", "skipped"} :
           /\ verdict' = [verdict EXCEPT ![s] = v]
           /\ v = "match" => ModelDim[call[s].model] = registry
           /\ v = "mismatch" => ModelDim[call[s].model] # registry
  BY DEF CheckDimension, CheckSkipped, GuardPasses
<1>3. TypeOK'
  BY <1>1, <1>2 DEF IInv, TypeOK
<1>4. Idle' /\ Keys' /\ Stale' /\ Ordered' /\ Columns' /\ Writers' /\ EmbeddingsFitText'
  BY <1>1 DEF IInv, Idle, Keys, Stale, Ordered, Columns, Writers, Fits, Doing,
              EmbeddingsFitText
<1>5. Checks'
  <2>1. /\ \A t \in Session \ {s} : verdict'[t] = verdict[t]
        /\ verdict'[s] = "match" => ModelDim[call[s].model] = registry
        /\ verdict'[s] = "mismatch" => ModelDim[call[s].model] # registry
    BY <1>2 DEF IInv, TypeOK
  <2> QED BY <1>1, <1>2, <2>1 DEF IInv, Checks, Doing
<1> QED BY <1>3, <1>4, <1>5 DEF IInv

LEMMA NextInv == IInv /\ [Next]_vars => IInv'
<1> SUFFICES ASSUME IInv, [Next]_vars PROVE IInv'
  OBVIOUS
<1>1. CASE UNCHANGED vars
  BY <1>1 DEF vars, IInv, TypeOK, Idle, Doing, Keys, Stale, Ordered, Columns,
              Writers, Fits, Checks, EmbeddingsFitText
<1>2. CASE Next /\ ~ UNCHANGED vars
  <2>1. PICK s \in Session :
          \/ \E c \in CallsOf[s] : Begin(s, c)
          \/ EmbedBatch(s) \/ UpdateRow(s) \/ UpdateRefused(s)
          \/ CommitReembed(s) \/ ReplaceChunks(s) \/ ReplaceRefused(s)
          \/ ResizeColumn(s) \/ ResizeRefused(s) \/ VectorSearch(s) \/ Fail(s)
          \/ CheckDimension(s) \/ CheckSkipped(s) \/ HealthReport(s)
    BY <1>2 DEF Next, Terminated
  <2>2. CASE \E c \in CallsOf[s] : Begin(s, c)
    BY <2>2, BeginInv
  <2>3. CASE EmbedBatch(s)
    BY <2>3, EmbedBatchInv
  <2>4. CASE UpdateRow(s)
    BY <2>4, UpdateRowInv
  <2>5. CASE CommitReembed(s)
    BY <2>5, CommitReembedInv
  <2>6. CASE ReplaceChunks(s)
    BY <2>6, ReplaceInv
  <2>7. CASE ResizeColumn(s)
    BY <2>7, ResizeInv
  <2>8. CASE UpdateRefused(s) \/ ReplaceRefused(s) \/ ResizeRefused(s)
             \/ VectorSearch(s) \/ HealthReport(s) \/ Fail(s)
    <3>1. Rollback(s)
      BY <2>8 DEF UpdateRefused, ReplaceRefused, ResizeRefused, VectorSearch,
                  HealthReport, Fail
    <3> QED BY <3>1, RollbackInv
  <2>9. CASE CheckDimension(s) \/ CheckSkipped(s)
    BY <2>9, CheckInv
  <2> QED BY <2>1, <2>2, <2>3, <2>4, <2>5, <2>6, <2>7, <2>8, <2>9
<1> QED BY <1>1, <1>2

LEMMA Invariance == Spec => []IInv
BY InitInv, NextInv, PTL DEF Spec

-------------------------------------------------------------------------------
(* Safety *)

\* The variables keep their types.
THEOREM TypeCorrect == Spec => []TypeOK
<1>1. IInv => TypeOK
  BY DEF IInv
<1> QED BY <1>1, Invariance, PTL

\* No interleaving of re-embeddings, ingestions and resizings leaves a chunk
\* with the vector of another text.
THEOREM EmbeddingsAreOfTheirText == Spec => []EmbeddingsFitText
<1>1. IInv => EmbeddingsFitText
  BY DEF IInv
<1> QED BY <1>1, Invariance, PTL

\* What the guard has found by comparing holds of the column, and after a match
\* of every stored vector, until the health check has reported it.
THEOREM GuardIsSound == Spec => []GuardIsRight
<1>1. IInv => GuardIsRight
  BY DEF IInv, Columns, Checks, GuardIsRight, Fits
<1> QED BY <1>1, Invariance, PTL

\* Re-embeddings take their row locks in one order.
THEOREM ReembedsWaitInOrder == Spec => []WaitsAreOrdered
<1>1. IInv => WaitsAreOrdered
  BY DEF IInv, Ordered, WaitsAreOrdered, Current
<1> QED BY <1>1, Invariance, PTL

-------------------------------------------------------------------------------
(* Completeness of a re-embedding *)

\* The rows a re-embedding is done with, and what it has counted of them: when
\* it has counted all, each has been updated or does not exist any more.
Passed(s) == found[s] \ (todo[s] \union batch[s])

Counted ==
  \A s \in Session :
    /\ total[s] <= Cardinality(Passed(s))
    /\ total[s] = Cardinality(Passed(s)) =>
         \A r \in Passed(s) : r \in written[s] \/ \A c \in chunks : c.id # r.id

LEMMA PassedFinite ==
  ASSUME IInv, NEW s \in Session
  PROVE  IsFiniteSet(Passed(s)) /\ Cardinality(Passed(s)) \in Nat
<1>1. IsFiniteSet(Passed(s))
  BY FS_Subset DEF IInv, Stale, Passed
<1> QED BY <1>1, FS_CardinalityType

LEMMA CountedEndCall ==
  ASSUME IInv, Counted, NEW s \in Session, EndCall(s), nextId \in Nat,
         \A c \in chunks' : c.id >= nextId \/ \E d \in chunks : d.id = c.id
  PROVE  Counted'
<1> SUFFICES ASSUME NEW t \in Session
             PROVE  /\ total'[t] <= Cardinality(Passed(t)')
                    /\ total'[t] = Cardinality(Passed(t)') =>
                         \A r \in Passed(t)' :
                           r \in written'[t] \/ \A c \in chunks' : c.id # r.id
  BY DEF Counted
<1>1. CASE t = s
  <2>1. Passed(t)' = {} /\ total'[t] = 0
    BY <1>1 DEF Passed, EndCall, IInv, TypeOK
  <2> QED BY <2>1, FS_EmptySet
<1>2. CASE t # s
  <2>1. Passed(t)' = Passed(t) /\ total'[t] = total[t] /\ written'[t] = written[t]
    BY <1>2 DEF Passed, EndCall, IInv, TypeOK
  <2>2. ASSUME NEW r \in Passed(t), \A c \in chunks : c.id # r.id, NEW c \in chunks'
        PROVE  c.id # r.id
    <3>1. r.id < nextId /\ r.id \in Nat
      BY DEF Passed, IInv, Stale, TypeOK, ChunkRow
    <3> QED BY <2>2, <3>1
  <2> QED BY <2>1, <2>2 DEF Counted
<1> QED BY <1>1, <1>2

LEMMA CountedEmbedBatch ==
  ASSUME IInv, Counted, NEW s \in Session, EmbedBatch(s)
  PROVE  Counted'
<1>1. PICK b \in Batches(todo[s]) : \E answered \in Prefixes(b) :
        /\ todo' = [todo EXCEPT ![s] = @ \ b]
        /\ batch' = [batch EXCEPT ![s] = answered]
  BY DEF EmbedBatch
<1>2. PICK answered \in Prefixes(b) :
        /\ todo' = [todo EXCEPT ![s] = @ \ b]
        /\ batch' = [batch EXCEPT ![s] = answered]
  BY <1>1
<1>3. b \subseteq todo[s] /\ answered \subseteq b /\ batch[s] = {}
      /\ todo[s] \subseteq found[s]
  BY DEF Batches, Prefixes, EmbedBatch, IInv, Ordered
<1>4. UNCHANGED <<chunks, found, written, total>>
  BY DEF EmbedBatch
<1>5. /\ Passed(s)' = Passed(s) \union (b \ answered)
      /\ Passed(s) \intersect (b \ answered) = {}
      /\ \A t \in Session \ {s} : Passed(t)' = Passed(t)
  BY <1>2, <1>3, <1>4 DEF Passed, IInv, TypeOK
<1>6. IsFiniteSet(Passed(s) \union (b \ answered))
  <2>1. Passed(s) \union (b \ answered) \subseteq found[s]
    BY <1>3 DEF Passed
  <2> QED BY <2>1, FS_Subset DEF IInv, Stale
<1>7. /\ Cardinality(Passed(s)) <= Cardinality(Passed(s)')
      /\ Cardinality(Passed(s)) = Cardinality(Passed(s)') => Passed(s)' = Passed(s)
      /\ Cardinality(Passed(s)') \in Nat /\ Cardinality(Passed(s)) \in Nat
  BY <1>5, <1>6, FS_Subset, FS_CardinalityType, PassedFinite
<1>8. total[s] \in Nat /\ total[s] <= Cardinality(Passed(s))
  BY DEF IInv, TypeOK, Counted
<1>9. /\ total[s] <= Cardinality(Passed(s)')
      /\ total[s] = Cardinality(Passed(s)') =>
           \A r \in Passed(s)' : r \in written[s] \/ \A c \in chunks : c.id # r.id
  <2>1. total[s] <= Cardinality(Passed(s)')
    BY <1>7, <1>8
  <2>2. CASE total[s] = Cardinality(Passed(s)')
    <3>1. Cardinality(Passed(s)) = Cardinality(Passed(s)')
      BY <1>7, <1>8, <2>2
    <3> QED BY <1>7, <2>1, <2>2, <3>1 DEF Counted
  <2> QED BY <2>1, <2>2
<1> QED BY <1>4, <1>5, <1>9 DEF Counted

LEMMA CountedUpdateRow ==
  ASSUME IInv, Counted, NEW s \in Session, UpdateRow(s)
  PROVE  Counted'
<1>1. PICK r \in Current(s) :
        /\ \/ written' = [written EXCEPT ![s] = @ \union {r}]
           \/ /\ \A c \in chunks : ~ SameChunk(r, c)
              /\ UNCHANGED written
        /\ batch' = [batch EXCEPT ![s] = @ \ {r}]
        /\ total' = [total EXCEPT ![s] = @ + 1]
  BY DEF UpdateRow
<1>2. UNCHANGED <<chunks, found, todo>>
  BY DEF UpdateRow
<1>3. r \in batch[s] /\ r \in found[s] /\ r \notin todo[s]
  BY CurrentIsFirst DEF IInv, Ordered
<1>4. /\ Passed(s)' = Passed(s) \union {r}
      /\ r \notin Passed(s)
      /\ \A t \in Session \ {s} : Passed(t)' = Passed(t) /\ total'[t] = total[t]
                                  /\ written'[t] = written[t]
      /\ total'[s] = total[s] + 1
      /\ written[s] \subseteq written'[s]
      /\ r \in written'[s] \/ \A c \in chunks : c.id # r.id
  BY <1>1, <1>2, <1>3 DEF Passed, IInv, TypeOK, SameChunk
<1>5. Cardinality(Passed(s)') = Cardinality(Passed(s)) + 1
  BY <1>4, PassedFinite, FS_AddElement
<1>6. total[s] \in Nat /\ Cardinality(Passed(s)) \in Nat
  BY PassedFinite DEF IInv, TypeOK
<1>7. /\ total'[s] <= Cardinality(Passed(s)')
      /\ total'[s] = Cardinality(Passed(s)') => total[s] = Cardinality(Passed(s))
  BY <1>4, <1>5, <1>6 DEF Counted
<1>8. total[s] = Cardinality(Passed(s)) =>
        \A q \in Passed(s)' : q \in written'[s] \/ \A c \in chunks : c.id # q.id
  BY <1>4 DEF Counted
<1> QED BY <1>2, <1>4, <1>7, <1>8 DEF Counted

LEMMA CountedNext == IInv /\ Counted /\ [Next]_vars => Counted'
<1> SUFFICES ASSUME IInv, Counted, [Next]_vars PROVE Counted'
  OBVIOUS
<1>1. CASE UNCHANGED vars
  BY <1>1 DEF vars, Counted, Passed
<1>2. CASE Next /\ ~ UNCHANGED vars
  <2>1. PICK s \in Session :
          \/ \E c \in CallsOf[s] : Begin(s, c)
          \/ EmbedBatch(s) \/ UpdateRow(s) \/ UpdateRefused(s)
          \/ CommitReembed(s) \/ ReplaceChunks(s) \/ ReplaceRefused(s)
          \/ ResizeColumn(s) \/ ResizeRefused(s) \/ VectorSearch(s) \/ Fail(s)
          \/ CheckDimension(s) \/ CheckSkipped(s) \/ HealthReport(s)
    BY <1>2 DEF Next, Terminated
  <2>2. nextId \in Nat /\ \A c \in chunks : c \in ChunkRow
    BY DEF IInv, TypeOK
  <2>3. ASSUME NEW c \in CallsOf[s], Begin(s, c)
        PROVE  Counted'
    <3>1. /\ found[s] = {} /\ todo[s] = {} /\ batch[s] = {}
          /\ UNCHANGED <<chunks, batch, written, total>>
      BY <2>3 DEF Begin, IInv, Idle, Doing
    <3>2. /\ found'[s] = todo'[s]
          /\ \A t \in Session \ {s} : found'[t] = found[t] /\ todo'[t] = todo[t]
      BY <2>3, <3>1 DEF Begin, IInv, TypeOK
    <3>3. /\ Passed(s) = {} /\ Passed(s)' = {}
          /\ \A t \in Session \ {s} : Passed(t)' = Passed(t)
      BY <3>1, <3>2 DEF Passed
    <3> QED BY <3>1, <3>3 DEF Counted
  <2>4. CASE EmbedBatch(s)
    BY <2>4, CountedEmbedBatch
  <2>5. CASE UpdateRow(s)
    BY <2>5, CountedUpdateRow
  <2>6. CASE CommitReembed(s)
    <3>1. EndCall(s) /\ chunks' = Updated(s) /\ Doing(s, "reembed")
      BY <2>6 DEF CommitReembed
    <3>2. \A c \in chunks' : \E d \in chunks : d.id = c.id
      BY <3>1, UpdatedRows
    <3> QED BY <2>2, <3>1, <3>2, CountedEndCall
  <2>7. CASE ReplaceChunks(s)
    <3> DEFINE new == Pieces(call[s])
    <3>1. EndCall(s) /\ Doing(s, "replace") /\ chunks' \subseteq chunks \union new
      BY <2>7 DEF ReplaceChunks
    <3>2. \A c \in new : c.id >= nextId
      <4>1. \A c \in new : nextId <= c.id /\ c.id \in Nat
        BY <3>1, PiecesRows DEF ChunkRow
      <4> QED BY <2>2, <4>1
    <3> HIDE DEF new
    <3> QED BY <2>2, <3>1, <3>2, CountedEndCall
  <2>8. CASE ResizeColumn(s)
    <3>1. EndCall(s) /\ chunks' = chunks
      BY <2>8 DEF ResizeColumn
    <3> QED BY <2>2, <3>1, CountedEndCall
  <2>9. CASE UpdateRefused(s) \/ ReplaceRefused(s) \/ ResizeRefused(s)
             \/ VectorSearch(s) \/ HealthReport(s) \/ Fail(s)
    <3>1. EndCall(s) /\ chunks' = chunks
      BY <2>9 DEF UpdateRefused, ReplaceRefused, ResizeRefused, VectorSearch,
                  HealthReport, Fail, Rollback
    <3> QED BY <2>2, <3>1, CountedEndCall
  <2>10. CASE CheckDimension(s) \/ CheckSkipped(s)
    <3>1. UNCHANGED <<chunks, found, todo, batch, written, total>>
      BY <2>10 DEF CheckDimension, CheckSkipped
    <3> QED BY <3>1 DEF Counted, Passed
  <2> QED BY <2>1, <2>3, <2>4, <2>5, <2>6, <2>7, <2>8, <2>9, <2>10
<1> QED BY <1>1, <1>2

\* A commit whose count is that of the rows found has the new vector in every
\* row found that still exists.
LEMMA CommitIsComplete ==
  ASSUME IInv, Counted, NEW s \in Session, CommitReembed(s),
         total[s] = Cardinality(found[s]),
         NEW r \in found[s], NEW c \in chunks', c.id = r.id
  PROVE  c.embedding = Embedding(c.text, call[s].model)
<1>1. Doing(s, "reembed") /\ chunks' = Updated(s) /\ Passed(s) = found[s]
  BY DEF CommitReembed, Passed
<1>2. r \in written[s] \/ \A d \in chunks : d.id # r.id
  BY <1>1 DEF Counted
<1>3. PICK d \in chunks :
        /\ c.id = d.id /\ c.text = d.text
        /\ \/ \A w \in written[s] : w.id # d.id
           \/ c.embedding = Embedding(d.text, call[s].model)
  BY <1>1, UpdatedRows
<1> QED BY <1>2, <1>3

\* A re-embedding that reports as many chunks as it found has left none of
\* those that still exist behind, for every batch size and every provider.
THEOREM ReembedsAreComplete == Spec => ReembedIsComplete
<1>1. Init => Counted
  BY FS_EmptySet DEF Init, Counted, Passed
<1>2. IInv /\ Counted /\ [Next]_vars =>
        [\A s \in Session :
           CommitReembed(s) /\ total[s] = Cardinality(found[s]) =>
             \A r \in found[s] : \A c \in chunks' :
               c.id = r.id => c.embedding = Embedding(c.text, call[s].model)]_vars
  BY CommitIsComplete
<1> QED BY <1>1, <1>2, Invariance, CountedNext, PTL DEF Spec, ReembedIsComplete
===============================================================================
