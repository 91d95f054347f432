--------------------------- MODULE IngestionRunProofs ---------------------------
(***************************************************************************)
(* Proofs about IngestionRun, for all sources, contents, command lines,    *)
(* environments and bounds.                                                *)
(***************************************************************************)
EXTENDS IngestionRun, FiniteSetTheorems, TLAPS

-------------------------------------------------------------------------------
(* The loop *)

Mine(u) == { i \in DOMAIN inputs : UriOf[inputs[i]] = u }
DoneOf(u) == { i \in Mine(u) : i \in DOMAIN taken /\ taken[i] # None }

\* The chunks of u are those of version v, and its document is, as ingested.
ChunksAre(u, v) ==
  /\ Len(chunks[u]) = Len(TextsOf[v])
  /\ \A k \in DOMAIN chunks[u] :
       chunks[u][k].text = TextsOf[v][k] /\ chunks[u][k].tenant = args.tenant
DocumentIs(u, v) ==
  documents[u] # None /\ documents[u].version = v /\ documents[u].tenant = args.tenant

\* What CorpusFollowsInputs says of u, with the last ingestion named.
Follows(u) ==
  /\ (\A i \in Mine(u) : i > place) => documents[u] = before[1][u]
  /\ \/ DoneOf(u) = {} /\ chunks[u] = before[2][u]
     \/ \E l \in DoneOf(u) :
          /\ \A j \in DoneOf(u) : j <= l
          /\ ChunksAre(u, taken[l])
          /\ (\A i \in Mine(u) : i > l => i > place) => DocumentIs(u, taken[l])

LoopOK ==
  /\ sources \in [Source -> Version \union {None}]
  /\ DOMAIN documents = Uri /\ DOMAIN chunks = Uri
  /\ pc \in {"idle", "read", "embed", "upsert", "replace"}
  /\ inputs \in Seq(Source) /\ place \in 1 .. Len(inputs) + 1
  /\ taken \in Seq(Version \union {None})
  /\ pc # "idle" => Len(taken) = place - 1 /\ args \in Commands
  /\ pc = "idle" => \/ Len(taken) = place - 1
                    \/ Len(taken) = place /\ taken[place] = None /\ place <= Len(inputs)
  /\ pc \in {"embed", "upsert", "replace"} => version \in Version /\ place <= Len(inputs)
  /\ pc = "replace" => DocumentIs(Here, version)

IInv == LoopOK /\ (inputs # <<>> => \A u \in Uri : Follows(u))

LEMMA Initially == Init => IInv
<1> SUFFICES ASSUME Init PROVE IInv
  OBVIOUS
<1>1. sources \in [Source -> Version \union {None}]
  BY IngestionAssumption DEF Init
<1>2. /\ inputs = <<>> /\ taken = <<>> /\ place = 1 /\ pc = "idle"
      /\ DOMAIN documents = Uri /\ DOMAIN chunks = Uri
  BY DEF Init
<1> QED BY <1>1, <1>2 DEF IInv, LoopOK

\* A program that is over at once has no inputs.
LEMMA EndedKeeps ==
  ASSUME LoopOK, NEW c, Started(c), NEW code, Ended(code),
         DOMAIN documents' = Uri, DOMAIN chunks' = Uri
  PROVE  IInv'
BY DEF Started, Ended, LoopOK, IInv, world

LEMMA IngestKeeps ==
  ASSUME LoopOK, NEW c \in Commands, Ingest(c)
  PROVE  IInv'
<1>1. CASE ~ Startable(c)
  BY <1>1, EndedKeeps DEF Ingest, corpus, LoopOK
<1>2. CASE Startable(c)
  <2>1. /\ UNCHANGED <<sources, documents, chunks>>
        /\ before' = <<documents, chunks>> /\ args' = c
        /\ inputs' = Listed(c) /\ place' = 1 /\ taken' = <<>> /\ pc' = "read"
    BY <1>2 DEF Ingest, Started, corpus, world
  <2>2. inputs' \in Seq(Source)
    BY <2>1, CommandAssumption
  <2>3. LoopOK'
    BY <2>1, <2>2 DEF LoopOK
  <2>4. ASSUME NEW u \in Uri PROVE Follows(u)'
    BY <2>1 DEF Follows, DoneOf, Mine
  <2> QED BY <2>3, <2>4 DEF IInv
<1> QED BY <1>1, <1>2

LEMMA StartKeeps ==
  ASSUME IInv, NEW c \in Commands, Look(c) \/ Delete(c) \/ Reembed(c) \/ Ingest(c) \/ Refuse(c)
  PROVE  IInv'
<1> USE DEF IInv
<1>1. CASE Look(c)
  BY <1>1, EndedKeeps DEF Look, corpus, LoopOK
<1>2. CASE Delete(c)
  <2>1. DOMAIN documents' = Uri /\ DOMAIN chunks' = Uri
    BY <1>2 DEF Delete, corpus, LoopOK
  <2> QED BY <1>2, <2>1, EndedKeeps DEF Delete
<1>3. CASE Reembed(c)
  <2>1. Started(c) /\ documents' = documents /\ \E code : Ended(code)
    BY <1>3 DEF Reembed
  <2>2. DOMAIN chunks' = Uri
    BY <1>3 DEF Reembed, LoopOK
  <2> QED BY <2>1, <2>2, EndedKeeps DEF LoopOK
<1>4. CASE Ingest(c)
  BY <1>4, IngestKeeps
<1>5. CASE Refuse(c)
  <2>1. Started(c) /\ UNCHANGED <<documents, chunks>> /\ \E code : Ended(code)
    BY <1>5 DEF Refuse, corpus
  <2> QED BY <2>1, EndedKeeps DEF LoopOK
<1> QED BY <1>1, <1>2, <1>3, <1>4, <1>5

\* Steps that change neither the corpus nor what has been read.
LEMMA StillFollows ==
  ASSUME NEW u, Follows(u),
         UNCHANGED <<documents, chunks, args, inputs, place, before, taken>>
  PROVE  Follows(u)'
BY DEF Follows, DoneOf, Mine, ChunksAre, DocumentIs

LEMMA StillKeeps ==
  ASSUME IInv,
         UNCHANGED <<documents, chunks, args, inputs, place, before, taken>>,
         \/ sources' = sources
         \/ \E s \in Source, v \in Version \union {None} : sources' = [sources EXCEPT ![s] = v],
         \/ UNCHANGED <<pc, version>>
         \/ pc = "read" /\ pc' = "embed" /\ version' \in Version /\ place <= Len(inputs)
         \/ pc = "embed" /\ pc' = "upsert" /\ UNCHANGED version
         \/ pc # "idle" /\ pc' = "idle" /\ UNCHANGED version
  PROVE  IInv'
<1>1. sources' \in [Source -> Version \union {None}]
  BY DEF IInv, LoopOK
<1>2. LoopOK'
  BY <1>1 DEF IInv, LoopOK, DocumentIs, Here
<1> QED BY <1>2, StillFollows DEF IInv

\* A source that fails changes nothing but the position, and what was taken.
LEMMA SkippedFollows ==
  ASSUME LoopOK, NEW u, Follows(u), Len(taken) = place - 1,
         UNCHANGED <<documents, chunks, args, inputs, before>>,
         taken' = Append(taken, None), place' \in {place, place + 1}
  PROVE  Follows(u)'
<1>1. place \in Nat /\ DOMAIN taken = 1 .. place - 1 /\ DOMAIN inputs \subseteq Nat
  BY DEF LoopOK
<1>2. /\ DOMAIN taken' = 1 .. place /\ taken'[place] = None
      /\ \A i \in 1 .. place - 1 : taken'[i] = taken[i]
  BY <1>1 DEF LoopOK
<1>3. Mine(u)' = Mine(u)
  BY DEF Mine
<1>4. DoneOf(u)' = DoneOf(u)
  BY <1>1, <1>2, <1>3 DEF DoneOf
<1>5. \A l \in DoneOf(u) : taken'[l] = taken[l]
  BY <1>1, <1>2 DEF DoneOf
<1>6. \A i \in Mine(u) : i \in Nat
  BY <1>1 DEF Mine
<1>7. \A v : (ChunksAre(u, v) => ChunksAre(u, v)') /\ (DocumentIs(u, v) => DocumentIs(u, v)')
  BY DEF ChunksAre, DocumentIs
<1>8. /\ documents'[u] = documents[u] /\ chunks'[u] = chunks[u] /\ before' = before
      /\ \A i \in Nat : i > place' => i > place
  BY <1>1
<1>9. CASE DoneOf(u) = {} /\ chunks[u] = before[2][u]
  BY <1>3, <1>4, <1>6, <1>8, <1>9 DEF Follows
<1>10. ASSUME NEW l \in DoneOf(u), \A j \in DoneOf(u) : j <= l, ChunksAre(u, taken[l]),
              (\A i \in Mine(u) : i > l => i > place) => DocumentIs(u, taken[l])
       PROVE  Follows(u)'
  <2>1. ChunksAre(u, taken[l])' /\ taken'[l] = taken[l]
    BY <1>5, <1>7, <1>10 DEF ChunksAre
  <2>2. (\A i \in Mine(u)' : i > l => i > place') => DocumentIs(u, taken[l])'
    BY <1>3, <1>5, <1>6, <1>8, <1>10 DEF DocumentIs
  <2>3. l \in DoneOf(u)' /\ \A j \in DoneOf(u)' : j <= l
    BY <1>4, <1>10
  <2>4. (\A i \in Mine(u)' : i > place') => documents'[u] = before'[1][u]
    BY <1>3, <1>6, <1>8 DEF Follows
  <2> QED BY <2>1, <2>2, <2>3, <2>4 DEF Follows
<1> QED BY <1>9, <1>10 DEF Follows

LEMMA SkippedKeeps ==
  ASSUME IInv, pc # "idle", place <= Len(inputs),
         UNCHANGED <<sources, documents, chunks, args, inputs, before>>,
         taken' = Append(taken, None),
         \/ pc' = "idle" /\ place' = place
         \/ pc' = "read" /\ place' = place + 1
  PROVE  IInv'
<1>1. Len(taken) = place - 1 /\ place \in Nat /\ taken \in Seq(Version \union {None})
  BY DEF IInv, LoopOK
<1>2. /\ taken' \in Seq(Version \union {None}) /\ Len(taken') = place
      /\ taken'[place] = None
  BY <1>1
<1>3. place' \in 1 .. Len(inputs') + 1
  BY DEF IInv, LoopOK
<1>4. LoopOK'
  <2>1. CASE pc' = "idle" /\ place' = place
    BY <1>1, <1>2, <1>3, <2>1 DEF IInv, LoopOK
  <2>2. CASE pc' = "read" /\ place' = place + 1
    <3>1. Len(taken') = place' - 1
      BY <1>1, <1>2, <2>2
    <3>2. args \in Commands
      BY DEF IInv, LoopOK
    <3> QED BY <1>2, <1>3, <2>2, <3>1, <3>2 DEF IInv, LoopOK
  <2> QED BY <2>1, <2>2
<1>5. ASSUME NEW u \in Uri, Follows(u) PROVE Follows(u)'
  BY <1>1, <1>5, SkippedFollows DEF IInv
<1> QED BY <1>4, <1>5 DEF IInv

LEMMA FailedKeeps ==
  ASSUME IInv, pc # "idle", place <= Len(inputs), Failed,
         UNCHANGED <<sources, documents, chunks, args, inputs, before>>
  PROVE  IInv'
<1>1. /\ taken' = Append(taken, None)
      /\ \/ pc' = "idle" /\ place' = place
         \/ pc' = "read" /\ place' = place + 1
  <2>1. CASE args.program = "sync"
    BY <2>1 DEF Failed
  <2>2. CASE args.program # "sync"
    BY <2>2 DEF Failed, Enter
  <2> QED BY <2>1, <2>2
<1> QED BY <1>1, SkippedKeeps

\* The source that is being read.
LEMMA HereFacts ==
  ASSUME LoopOK, place <= Len(inputs)
  PROVE  /\ Here \in Uri /\ place \in Nat \ {0} /\ place \in DOMAIN inputs
         /\ \A u : place \in Mine(u) <=> u = Here
         /\ DOMAIN inputs \subseteq Nat
BY IngestionAssumption DEF LoopOK, Mine, Here

LEMMA RowFacts ==
  ASSUME args \in Commands, inputs \in Seq(Source), place \in DOMAIN inputs, version \in Version
  PROVE  /\ Row(place) # None
         /\ Row(place).version = version /\ Row(place).tenant = args.tenant
<1>1. args.tenant \in Tenant /\ inputs[place] \in Source
  BY CommandAssumption
<1>2. Row(place) \in [tenant : Tenant, version : Version,
                      format : {"markdown"} \union {FormatOf[s] : s \in Source}]
  BY <1>1 DEF Row
<1> QED BY <1>2, IngestionAssumption DEF Row

LEMMA UpsertKeeps ==
  ASSUME IInv, Upsert
  PROVE  IInv'
<1>1. /\ UNCHANGED <<sources, chunks, args, inputs, place, before, taken, version>>
      /\ pc = "upsert" /\ pc' = "replace"
      /\ documents' = [documents EXCEPT ![Here] = Row(place)]
  BY DEF Upsert, world, local
<1>2. /\ LoopOK /\ place <= Len(inputs) /\ version \in Version /\ args \in Commands
      /\ Len(taken) = place - 1 /\ DOMAIN documents = Uri
  BY <1>1 DEF IInv, LoopOK
<1>3. /\ Here \in Uri /\ place \in Nat \ {0} /\ place \in DOMAIN inputs
      /\ \A u : place \in Mine(u) <=> u = Here
      /\ DOMAIN inputs \subseteq Nat
  BY <1>2, HereFacts
<1>4. Row(place) # None /\ Row(place).version = version /\ Row(place).tenant = args.tenant
  BY <1>2, <1>3, RowFacts DEF LoopOK
<1>5. documents'[Here] = Row(place) /\ \A u \in Uri : u # Here => documents'[u] = documents[u]
  BY <1>1, <1>2, <1>3
<1>6. LoopOK'
  <2>1. DocumentIs(Here, version)'
    BY <1>1, <1>4, <1>5 DEF DocumentIs, Here
  <2> QED BY <1>1, <1>2, <2>1 DEF LoopOK, Here
<1>7. ASSUME NEW u \in Uri, Follows(u) PROVE Follows(u)'
  <2>1. /\ Mine(u)' = Mine(u) /\ DoneOf(u)' = DoneOf(u)
        /\ \A v : ChunksAre(u, v) => ChunksAre(u, v)'
    BY <1>1 DEF Mine, DoneOf, ChunksAre
  <2>2. CASE u # Here
    <3>1. documents'[u] = documents[u]
      BY <1>5, <2>2
    <3> QED BY <1>1, <1>7, <2>1, <3>1 DEF Follows, DocumentIs, ChunksAre
  <2>3. CASE u = Here
    <3>1. ~ \A i \in Mine(u)' : i > place'
      BY <1>1, <1>3, <2>1, <2>3
    <3>2. \A l \in DoneOf(u)' : ~ \A i \in Mine(u)' : i > l => i > place'
      <4>1. \A l \in DoneOf(u) : l \in Nat /\ l < place
        BY <1>2, <1>3 DEF DoneOf, LoopOK
      <4> QED BY <1>1, <1>3, <2>1, <2>3, <4>1
    <3>3. \/ DoneOf(u)' = {} /\ chunks'[u] = before'[2][u]
          \/ \E l \in DoneOf(u)' : /\ \A j \in DoneOf(u)' : j <= l
                                  /\ ChunksAre(u, taken[l])'
      BY <1>1, <1>7, <2>1 DEF Follows, ChunksAre
    <3> QED BY <3>1, <3>2, <3>3 DEF Follows
  <2> QED BY <2>2, <2>3
<1> QED BY <1>6, <1>7, <1>1 DEF IInv

\* The chunks that replace those of the source that is being read.
LEMMA RowsFacts ==
  ASSUME NEW t, NEW v \in Version, NEW vs
  PROVE  /\ Len(Rows(t, v, vs)) = Len(TextsOf[v]) /\ DOMAIN Rows(t, v, vs) = DOMAIN TextsOf[v]
         /\ \A k \in DOMAIN Rows(t, v, vs) :
              /\ Rows(t, v, vs)[k].text = TextsOf[v][k]
              /\ Rows(t, v, vs)[k].tenant = t
<1>1. DOMAIN TextsOf[v] = 1 .. Len(TextsOf[v]) /\ Len(TextsOf[v]) \in Nat
  BY IngestionAssumption
<1> QED BY <1>1 DEF Rows

LEMMA ReplaceKeeps ==
  ASSUME IInv, Replace
  PROVE  IInv'
<1>1. /\ UNCHANGED <<sources, documents, args, inputs, before>>
      /\ pc = "replace" /\ pc' = "read" /\ place' = place + 1
      /\ taken' = Append(taken, version)
      /\ chunks' = [chunks EXCEPT ![Here] = Rows(args.tenant, version, vectors)]
  BY DEF Replace, world, local, Enter
<1>2. /\ LoopOK /\ place <= Len(inputs) /\ version \in Version
      /\ Len(taken) = place - 1 /\ DOMAIN chunks = Uri
      /\ taken \in Seq(Version \union {None}) /\ DocumentIs(Here, version)
  BY <1>1 DEF IInv, LoopOK
<1>3. /\ Here \in Uri /\ place \in Nat \ {0} /\ place \in DOMAIN inputs
      /\ \A u : place \in Mine(u) <=> u = Here
      /\ DOMAIN inputs \subseteq Nat
  BY <1>2, HereFacts
<1>4. /\ taken' \in Seq(Version \union {None}) /\ Len(taken') = place
      /\ DOMAIN taken' = 1 .. place /\ DOMAIN taken = 1 .. place - 1
      /\ taken'[place] = version /\ \A i \in 1 .. place - 1 : taken'[i] = taken[i]
  BY <1>1, <1>2, <1>3
<1>5. version # None
  BY <1>2, IngestionAssumption
<1>6. /\ chunks'[Here] = Rows(args.tenant, version, vectors)
      /\ \A u \in Uri : u # Here => chunks'[u] = chunks[u]
  BY <1>1, <1>2, <1>3
<1>7. LoopOK'
  BY <1>1, <1>2, <1>3, <1>4 DEF LoopOK
<1>8. ASSUME NEW u \in Uri, Follows(u) PROVE Follows(u)'
  <2>1. Mine(u)' = Mine(u) /\ \A i \in Mine(u) : i \in Nat
    BY <1>1, <1>3 DEF Mine
  <2>2. CASE u # Here
    <3>1. DoneOf(u)' = DoneOf(u) /\ \A l \in DoneOf(u) : taken'[l] = taken[l] /\ l \in Nat
      BY <1>3, <1>4, <2>1, <2>2 DEF DoneOf
    <3>2. chunks'[u] = chunks[u]
      BY <1>6, <2>2
    <3>3. \A v : (ChunksAre(u, v) => ChunksAre(u, v)') /\ (DocumentIs(u, v) => DocumentIs(u, v)')
      BY <1>1, <3>2 DEF ChunksAre, DocumentIs
    <3>4. \A i \in Mine(u) : i > place' => i > place
      BY <1>1, <1>3, <2>1
    <3>5. CASE DoneOf(u) = {} /\ chunks[u] = before[2][u]
      BY <1>1, <1>8, <2>1, <3>1, <3>2, <3>4, <3>5 DEF Follows
    <3>6. ASSUME NEW l \in DoneOf(u), \A j \in DoneOf(u) : j <= l, ChunksAre(u, taken[l]),
                 (\A i \in Mine(u) : i > l => i > place) => DocumentIs(u, taken[l])
          PROVE  Follows(u)'
      <4>1. ChunksAre(u, taken[l])'
        BY <3>1, <3>3, <3>6 DEF ChunksAre
      <4>2. (\A i \in Mine(u)' : i > l => i > place') => DocumentIs(u, taken[l])'
        BY <2>1, <3>1, <3>3, <3>4, <3>6 DEF DocumentIs
      <4>3. (\A i \in Mine(u)' : i > place') => documents'[u] = before'[1][u]
        BY <1>1, <1>8, <2>1, <3>4 DEF Follows
      <4> QED BY <3>1, <3>6, <4>1, <4>2, <4>3 DEF Follows
    <3> QED BY <1>8, <3>5, <3>6 DEF Follows
  <2>3. CASE u = Here
    <3>1. place \in DoneOf(u)' /\ \A j \in DoneOf(u)' : j <= place
      BY <1>3, <1>4, <1>5, <2>1, <2>3 DEF DoneOf
    <3>2. PICK v \in Version : v = version
      BY <1>2
    <3>3. ChunksAre(u, v)' /\ DocumentIs(u, v)'
      <4>1. /\ Len(chunks'[u]) = Len(TextsOf[v])
            /\ \A k \in DOMAIN chunks'[u] : /\ chunks'[u][k].text = TextsOf[v][k]
                                          /\ chunks'[u][k].tenant = args.tenant
        BY <1>6, <2>3, <3>2, RowsFacts
      <4>2. DocumentIs(u, v)
        BY <1>2, <2>3, <3>2
      <4> QED BY <1>1, <4>1, <4>2 DEF ChunksAre, DocumentIs
    <3>4. ~ \A i \in Mine(u)' : i > place'
      BY <1>1, <1>3, <2>1, <2>3
    <3>5. \E l \in DoneOf(u)' : /\ \A j \in DoneOf(u)' : j <= l
                               /\ taken'[l] = v
      BY <1>4, <3>1, <3>2
    <3> QED BY <3>3, <3>4, <3>5 DEF Follows, ChunksAre, DocumentIs
  <2> QED BY <2>2, <2>3
<1> QED BY <1>7, <1>8, <1>1 DEF IInv

LEMMA NextKeeps ==
  ASSUME IInv, [Next]_vars
  PROVE  IInv'
<1>1. CASE Edit
  BY <1>1, StillKeeps DEF Edit, corpus, local
<1>2. CASE \E c \in Commands : Look(c) \/ Delete(c) \/ Reembed(c) \/ Ingest(c) \/ Refuse(c)
  BY <1>2, StartKeeps
<1>3. CASE Read
  <2>1. sources[inputs[place]] \in Version
    <3>1. place \in DOMAIN inputs /\ inputs \in Seq(Source)
      BY <1>3, HereFacts DEF Read, IInv, LoopOK
    <3> QED BY <1>3, <3>1 DEF Read, IInv, LoopOK
  <2> QED BY <1>3, <2>1, StillKeeps DEF Read, corpus, local, world
<1>4. CASE Unreadable
  <2>1. CASE Failed
    BY <1>4, <2>1, FailedKeeps DEF Unreadable, corpus, local, world
  <2>2. CASE Enter /\ taken' = Append(taken, None)
    BY <1>4, <2>2, SkippedKeeps DEF Unreadable, Enter, corpus, local, world
  <2> QED BY <1>4, <2>1, <2>2 DEF Unreadable
<1>5. CASE Embed
  BY <1>5, StillKeeps DEF Embed, corpus, local, world
<1>6. CASE Upsert
  BY <1>6, UpsertKeeps
<1>7. CASE Replace
  BY <1>7, ReplaceKeeps
<1>8. CASE Raise
  <2>1. place <= Len(inputs) /\ pc # "idle"
    BY <1>8 DEF Raise, IInv, LoopOK
  <2> QED BY <1>8, <2>1, FailedKeeps DEF Raise, corpus, local, world
<1>9. CASE Finish \/ Kill
  BY <1>9, StillKeeps DEF Finish, Kill, corpus, local, world
<1>10. CASE UNCHANGED vars
  BY <1>10, StillKeeps DEF vars
<1> QED BY <1>1, <1>2, <1>3, <1>4, <1>5, <1>6, <1>7, <1>8, <1>9, <1>10
     DEF Next, Step, Terminated

LEMMA FollowsAreRight == IInv => CorpusFollowsInputs
<1> SUFFICES ASSUME IInv, inputs # <<>>, NEW u \in Uri
             PROVE  LET mine == { i \in DOMAIN inputs : UriOf[inputs[i]] = u }
                        done == { i \in mine : i \in DOMAIN taken /\ taken[i] # None }
                        last == CHOOSE i \in done : \A j \in done : j <= i
                        later == { i \in mine : i > last /\ i <= place }
                    IN  /\ IF done = {} THEN chunks[u] = before[2][u]
                           ELSE /\ Len(chunks[u]) = Len(TextsOf[taken[last]])
                                /\ \A k \in DOMAIN chunks[u] :
                                     /\ chunks[u][k].text = TextsOf[taken[last]][k]
                                     /\ chunks[u][k].tenant = args.tenant
                        /\ (done # {} /\ later = {}) =>
                             documents[u] # None /\ documents[u].version = taken[last]
                                                 /\ documents[u].tenant = args.tenant
                        /\ (\A i \in mine : i > place) => documents[u] = before[1][u]
  BY DEF CorpusFollowsInputs
<1> DEFINE last == CHOOSE i \in DoneOf(u) : \A j \in DoneOf(u) : j <= i
           later == { i \in Mine(u) : i > last /\ i <= place }
<1>1. Follows(u)
  BY DEF IInv
<1>2. place \in Nat /\ \A i \in Mine(u) : i \in Nat
  BY DEF IInv, LoopOK, Mine
<1>3. (\A i \in Mine(u) : i > place) => documents[u] = before[1][u]
  BY <1>1 DEF Follows
<1>4. DoneOf(u) = {} => chunks[u] = before[2][u]
  BY <1>1 DEF Follows
<1>5. ASSUME DoneOf(u) # {}
      PROVE  ChunksAre(u, taken[last]) /\ (later = {} => DocumentIs(u, taken[last]))
  <2>1. PICK l \in DoneOf(u) :
          /\ \A j \in DoneOf(u) : j <= l
          /\ ChunksAre(u, taken[l])
          /\ (\A i \in Mine(u) : i > l => i > place) => DocumentIs(u, taken[l])
    BY <1>1, <1>5 DEF Follows
  <2>2. last \in DoneOf(u) /\ \A j \in DoneOf(u) : j <= last
    BY <2>1
  <2>3. last = l
    BY <1>2, <2>1, <2>2 DEF DoneOf
  <2>4. later = {} => \A i \in Mine(u) : i > l => i > place
    BY <1>2, <2>3 DEF DoneOf
  <2> QED BY <2>1, <2>3, <2>4
<1> QED BY <1>3, <1>4, <1>5 DEF DoneOf, Mine, ChunksAre, DocumentIs

\* Whatever fails and wherever a program dies, what the loop has ingested is in
\* the corpus and what it has not come to is as it was.
THEOREM CorpusFollows == Spec => []CorpusFollowsInputs
<1>1. IInv /\ [Next]_vars => IInv'
  BY NextKeeps
<1> QED BY Initially, <1>1, FollowsAreRight, PTL DEF Spec

-------------------------------------------------------------------------------
(* The report *)

\* The places that have been ingested, and a pair for each of their chunks.
Good == { i \in DOMAIN taken : taken[i] # None }
Pairs(G, t) == UNION { {i} \X (1 .. Len(TextsOf[t[i]])) : i \in G }

Tallied ==
  /\ summary.errors = IF args.program = "cli" THEN DOMAIN taken \ Good ELSE {}
  /\ IsFiniteSet(Good) /\ summary.documents = Cardinality(Good)
  /\ IsFiniteSet(Pairs(Good, taken)) /\ summary.chunks = Cardinality(Pairs(Good, taken))

\* While the loop runs, and when it has come to its end.
RInv ==
  /\ DOMAIN summary = {"documents", "chunks", "errors"}
  /\ pc # "idle" \/ (exit = "0" /\ inputs # <<>>) => Tallied
  /\ pc # "idle" => exit # "0"
  /\ exit = "0" /\ inputs # <<>> => pc = "idle" /\ Len(taken) = Len(inputs)

\* Another place adds as many pairs as it has chunks.
Adds(G, p, t, u) ==
  /\ p \notin G /\ \A i \in G : u[i] = t[i]
  /\ Len(TextsOf[u[p]]) \in Nat /\ IsFiniteSet(Pairs(G, t))

LEMMA OnePlaceMore ==
  ASSUME NEW G, NEW p, NEW t, NEW u, Adds(G, p, t, u)
  PROVE  /\ IsFiniteSet(Pairs(G \union {p}, u))
         /\ Cardinality(Pairs(G \union {p}, u)) =
              Cardinality(Pairs(G, t)) + Len(TextsOf[u[p]])
<1> USE DEF Adds
<1> DEFINE own == {p} \X (1 .. Len(TextsOf[u[p]]))
<1>1. Pairs(G \union {p}, u) = Pairs(G, t) \union own
  BY DEF Pairs
<1>2. Pairs(G, t) \intersect own = {}
  BY DEF Pairs
<1>3. IsFiniteSet(own) /\ Cardinality(own) = Len(TextsOf[u[p]])
  <2>1. IsFiniteSet({p}) /\ Cardinality({p}) = 1
    BY FS_Singleton
  <2>2. /\ IsFiniteSet(1 .. Len(TextsOf[u[p]]))
        /\ Cardinality(1 .. Len(TextsOf[u[p]])) = Len(TextsOf[u[p]])
    BY FS_Interval
  <2>3. IsFiniteSet(own)
        /\ Cardinality(own) = Cardinality({p}) * Cardinality(1 .. Len(TextsOf[u[p]]))
    BY <2>1, <2>2, FS_Product
  <2> QED BY <2>1, <2>2, <2>3
<1> HIDE DEF own
<1>4. /\ IsFiniteSet(Pairs(G, t) \union own)
      /\ Cardinality(Pairs(G, t) \union own) =
           Cardinality(Pairs(G, t)) + Cardinality(own) - Cardinality(Pairs(G, t) \intersect own)
  BY <1>3, FS_Union
<1>5. Cardinality(Pairs(G, t)) \in Nat
  BY FS_CardinalityType
<1>6. Cardinality(Pairs(G, t) \intersect own) = 0
  BY <1>2, FS_EmptySet
<1>7. Cardinality(Pairs(G, t) \union own) = Cardinality(Pairs(G, t)) + Len(TextsOf[u[p]])
  BY <1>3, <1>4, <1>5, <1>6
<1> QED BY <1>1, <1>4, <1>7

\* What the loop has taken, extended by one place.
LEMMA TakenMore ==
  ASSUME LoopOK, pc # "idle", NEW v \in Version \union {None}, taken' = Append(taken, v)
  PROVE  /\ DOMAIN taken' = DOMAIN taken \union {place} /\ place \notin DOMAIN taken
         /\ taken'[place] = v /\ \A i \in DOMAIN taken : taken'[i] = taken[i]
         /\ Len(taken') = place /\ place \in Nat
<1>1. /\ Len(taken) = place - 1 /\ place \in Nat \ {0}
      /\ taken \in Seq(Version \union {None}) /\ DOMAIN taken = 1 .. place - 1
  BY DEF LoopOK
<1> QED BY <1>1

LEMMA ReplaceTallies ==
  ASSUME IInv, RInv, Replace
  PROVE  RInv'
<1>1. /\ LoopOK /\ pc = "replace" /\ pc' = "read" /\ version \in Version /\ version # None
      /\ taken' = Append(taken, version) /\ UNCHANGED <<args, inputs, exit>>
      /\ summary' = [summary EXCEPT !.documents = @ + 1, !.chunks = @ + Len(TextsOf[version])]
  BY IngestionAssumption DEF Replace, Enter, local, IInv, LoopOK
<1>2. /\ DOMAIN taken' = DOMAIN taken \union {place} /\ place \notin DOMAIN taken
      /\ taken'[place] = version /\ \A i \in DOMAIN taken : taken'[i] = taken[i]
  BY <1>1, TakenMore
<1>3. Good' = Good \union {place} /\ place \notin Good /\ \A i \in Good : taken'[i] = taken[i]
  BY <1>1, <1>2 DEF Good
<1>4. ASSUME Tallied PROVE Tallied'
  <2>1. /\ summary'.errors = summary.errors
        /\ summary'.documents = Cardinality(Good) + 1
        /\ summary'.chunks = Cardinality(Pairs(Good, taken)) + Len(TextsOf[version])
    BY <1>1, <1>4 DEF Tallied, RInv
  <2>2. IsFiniteSet(Good') /\ Cardinality(Good') = Cardinality(Good) + 1
    BY <1>3, <1>4, FS_AddElement DEF Tallied
  <2>3. Len(TextsOf[taken'[place]]) \in Nat
    BY <1>1, <1>2, IngestionAssumption
  <2>4. /\ IsFiniteSet(Pairs(Good \union {place}, taken'))
        /\ Cardinality(Pairs(Good \union {place}, taken')) =
             Cardinality(Pairs(Good, taken)) + Len(TextsOf[taken'[place]])
    <3>1. Adds(Good, place, taken, taken')
      BY <1>3, <1>4, <2>3 DEF Adds, Tallied
    <3> QED BY <3>1, OnePlaceMore
  <2>5. DOMAIN taken' \ Good' = DOMAIN taken \ Good
    BY <1>2, <1>3
  <2>6. /\ IsFiniteSet(Pairs(Good', taken'))
        /\ summary'.chunks = Cardinality(Pairs(Good', taken'))
    BY <1>2, <1>3, <2>1, <2>4
  <2> QED BY <1>1, <1>4, <2>1, <2>2, <2>5, <2>6 DEF Tallied, Pairs
<1> QED BY <1>1, <1>4 DEF RInv

\* The sync passes over a resource: it counts and lists nothing.
LEMMA PassedTallies ==
  ASSUME IInv, RInv, pc # "idle", pc' = "read", args.program # "cli",
         taken' = Append(taken, None), UNCHANGED <<args, inputs, exit, summary>>
  PROVE  RInv'
<1>1. /\ DOMAIN taken' = DOMAIN taken \union {place} /\ place \notin DOMAIN taken
      /\ taken'[place] = None /\ \A i \in DOMAIN taken : taken'[i] = taken[i]
  BY TakenMore DEF IInv
<1>2. Good' = Good /\ \A i \in Good : taken'[i] = taken[i]
  BY <1>1 DEF Good
<1>3. Pairs(Good, taken)' = Pairs(Good, taken)
  BY <1>2 DEF Pairs
<1>4. Tallied => Tallied'
  BY <1>2, <1>3 DEF Tallied
<1> QED BY <1>4 DEF RInv

LEMMA FailedTallies ==
  ASSUME IInv, RInv, Failed, pc # "idle", UNCHANGED <<args, inputs>>
  PROVE  RInv'
<1>1. CASE args.program = "sync"
  BY <1>1, IngestionAssumption DEF Failed, RInv
<1>2. CASE args.program # "sync"
  <2>1. /\ LoopOK /\ pc' = "read" /\ taken' = Append(taken, None) /\ exit' = exit
        /\ summary' = [summary EXCEPT !.errors = @ \union {place}]
    BY <1>2 DEF Failed, Enter, IInv
  <2>2. /\ DOMAIN taken' = DOMAIN taken \union {place} /\ place \notin DOMAIN taken
        /\ taken'[place] = None /\ \A i \in DOMAIN taken : taken'[i] = taken[i]
    BY <2>1, TakenMore
  <2>3. Good' = Good /\ \A i \in Good : taken'[i] = taken[i]
    BY <2>2 DEF Good
  <2>4. Pairs(Good, taken') = Pairs(Good, taken)
    BY <2>3 DEF Pairs
  <2>5. ASSUME Tallied PROVE Tallied'
    <3>1. /\ summary'.errors = summary.errors \union {place}
          /\ summary'.documents = summary.documents /\ summary'.chunks = summary.chunks
      BY <2>1 DEF RInv
    <3>2. DOMAIN taken' \ Good' = (DOMAIN taken \ Good) \union {place}
      BY <2>2, <2>3 DEF Good
    <3>3. Pairs(Good, taken)' = Pairs(Good, taken)
      BY <2>3, <2>4 DEF Pairs
    <3>4. args.program = "cli" /\ args' = args
      BY <1>2, CommandAssumption DEF IInv, LoopOK
    <3> QED BY <2>3, <2>5, <3>1, <3>2, <3>3, <3>4 DEF Tallied
  <2> QED BY <2>1, <2>5 DEF RInv
<1> QED BY <1>1, <1>2

\* Nothing is counted that changes in the meantime.
LEMMA StillTallies ==
  ASSUME RInv, UNCHANGED <<args, inputs, summary, taken>>,
         \/ UNCHANGED <<pc, exit>>
         \/ pc # "idle" /\ exit' = exit
         \/ pc' = "idle" /\ exit' \in {"killed", "raised"}
         \/ pc # "idle" /\ pc' = "idle" /\ Len(taken) = Len(inputs)
  PROVE  RInv'
<1>1. Tallied => Tallied'
  BY DEF Tallied, Good, Pairs
<1> QED BY <1>1 DEF RInv

\* A program starts: nothing is counted yet.
LEMMA StartTallies ==
  ASSUME NEW c, Started(c),
         \/ \E code : Ended(code)
         \/ pc' = "read" /\ exit' = None
  PROVE  RInv'
<1>1. pc = "idle" /\ summary' = EmptySummary /\ taken' = <<>>
  BY DEF Started
<1>2. DOMAIN summary' = {"documents", "chunks", "errors"}
  BY <1>1 DEF EmptySummary
<1>3. CASE \E code : Ended(code)
  BY <1>1, <1>2, <1>3 DEF Ended, RInv
<1>4. CASE pc' = "read" /\ exit' = None
  <2>1. Good' = {} /\ Pairs(Good, taken)' = {}
    BY <1>1 DEF Good, Pairs
  <2>2. Tallied'
    BY <1>1, <2>1, FS_EmptySet DEF Tallied, EmptySummary
  <2> QED BY <1>2, <1>4, <2>2, IngestionAssumption DEF RInv
<1> QED BY <1>3, <1>4

LEMMA NextTallies ==
  ASSUME IInv, RInv, [Next]_vars
  PROVE  RInv'
<1>1. CASE \E c \in Commands : Look(c) \/ Delete(c) \/ Reembed(c) \/ Ingest(c) \/ Refuse(c)
  <2> PICK c \in Commands : Look(c) \/ Delete(c) \/ Reembed(c) \/ Ingest(c) \/ Refuse(c)
    BY <1>1
  <2>1. Started(c) /\ ((\E code : Ended(code)) \/ (pc' = "read" /\ exit' = None))
    BY DEF Look, Delete, Reembed, Ingest, Refuse
  <2> QED BY <2>1, StartTallies
<1>2. CASE Edit \/ Read \/ Embed \/ Upsert
  BY <1>2, StillTallies DEF Edit, Read, Embed, Upsert, local
<1>3. CASE Unreadable
  <2>1. CASE args.program = "cli"
    BY <1>3, <2>1, FailedTallies DEF Unreadable, local
  <2>2. CASE args.program # "cli"
    BY <1>3, <2>2, PassedTallies DEF Unreadable, Enter, local
  <2> QED BY <2>1, <2>2
<1>4. CASE Replace
  BY <1>4, ReplaceTallies
<1>5. CASE Raise
  BY <1>5, FailedTallies DEF Raise, local
<1>6. CASE Finish
  <2>1. Len(taken) = Len(inputs) /\ pc # "idle"
    BY <1>6 DEF Finish, IInv, LoopOK
  <2> QED BY <1>6, <2>1, StillTallies DEF Finish, local
<1>7. CASE Kill
  BY <1>7, StillTallies DEF Kill, local
<1>8. CASE UNCHANGED vars
  BY <1>8, StillTallies DEF vars
<1> QED BY <1>1, <1>2, <1>3, <1>4, <1>5, <1>6, <1>7, <1>8 DEF Next, Step, Terminated

\* The tally is that of the store: what was taken of a URI that has one source
\* is what the store has of it.
LEMMA TalliesAreTrue == IInv /\ RInv => ReportIsTrue
<1> DEFINE good == { i \in DOMAIN inputs : i \in DOMAIN taken /\ taken[i] # None }
           distinct == \A i, j \in DOMAIN inputs : UriOf[inputs[i]] = UriOf[inputs[j]] => i = j
           stored(i) == {i} \X (1 .. Len(chunks[UriOf[inputs[i]]]))
<1> SUFFICES ASSUME IInv, RInv, exit = "0", inputs # <<>>
             PROVE  /\ summary.errors = IF args.program = "cli" THEN DOMAIN inputs \ good ELSE {}
                    /\ summary.documents = Cardinality(good)
                    /\ distinct => summary.chunks = Cardinality(UNION { stored(i) : i \in good })
  BY DEF ReportIsTrue
<1>1. Tallied /\ Len(taken) = Len(inputs)
  BY DEF RInv
<1>2. /\ inputs \in Seq(Source) /\ DOMAIN inputs = DOMAIN taken
  BY <1>1 DEF IInv, LoopOK
<1>3. good = Good
  BY <1>1, <1>2 DEF Good
<1>4. ASSUME distinct, NEW i \in Good
      PROVE  stored(i) = {i} \X (1 .. Len(TextsOf[taken[i]]))
  <2> DEFINE u == UriOf[inputs[i]]
  <2>1. i \in DOMAIN inputs /\ u \in Uri
    BY <1>2, IngestionAssumption DEF Good
  <2>2. DoneOf(u) = {i}
    BY <1>4, <1>2, <2>1 DEF DoneOf, Mine, Good
  <2>3. Follows(u)
    BY <2>1 DEF IInv
  <2>4. ChunksAre(u, taken[i])
    BY <2>2, <2>3 DEF Follows
  <2> QED BY <2>4 DEF ChunksAre
<1>5. ASSUME distinct
      PROVE  UNION { stored(i) : i \in Good } = Pairs(Good, taken)
  <2> HIDE DEF distinct, stored
  <2> QED BY <1>4, <1>5 DEF Pairs
<1> HIDE DEF good, distinct, stored
<1>6. summary.errors = IF args.program = "cli" THEN DOMAIN inputs \ good ELSE {}
  BY <1>1, <1>2, <1>3 DEF Tallied
<1>7. distinct => UNION { stored(i) : i \in good } = Pairs(Good, taken)
  BY <1>3, <1>5
<1> QED BY <1>1, <1>3, <1>6, <1>7 DEF Tallied

\* The reports are true, whatever failed and however the sources changed: they
\* count the documents and the chunks of what was ingested as the store has them;
\* the command line's lists every file that was not, and the sync's nothing.
THEOREM ReportsAreTrue == Spec => []ReportIsTrue
<1>1. Init => RInv
  BY DEF Init, RInv, EmptySummary
<1>2. IInv /\ RInv /\ [Next]_vars => IInv' /\ RInv'
  BY NextKeeps, NextTallies
<1> QED BY Initially, <1>1, <1>2, TalliesAreTrue, PTL DEF Spec

-------------------------------------------------------------------------------
(* Removals *)

\* The operation of a deletion was asked for, and none that goes before it was.
LEMMA OperationFacts ==
  ASSUME NEW c, Deletion(c)
  PROVE  /\ Operation(c) \in c.asked
         /\ c.asked \intersect {"index_status", "check_consistency", "reembed"} = {}
         /\ Operation(c) # "purge_tenant" => "purge_tenant" \notin c.asked
<1> DEFINE asked == { i \in DOMAIN Precedence : Precedence[i] \in c.asked }
           first == CHOOSE i \in asked : \A j \in asked : i <= j
<1>1. /\ DOMAIN Precedence = 1 .. 7
      /\ Precedence[1] = "index_status" /\ Precedence[2] = "check_consistency"
      /\ Precedence[3] = "reembed" /\ Precedence[4] = "purge_tenant"
      /\ Precedence[5] = "delete_document" /\ Precedence[6] = "delete_source_type"
      /\ Precedence[7] = "ingest"
  BY DEF Precedence
<1>2. asked # {}
  <2>1. Operation(c) \in {Precedence[4], Precedence[5], Precedence[6]}
    BY <1>1 DEF Deletion
  <2> QED BY <1>1, <2>1, CommandAssumption DEF Operation
<1>3. Operation(c) = Precedence[first]
  BY <1>2 DEF Operation
<1>4. \E i \in asked : \A j \in asked : i <= j
  BY <1>1, <1>2
<1>5. first \in asked /\ \A j \in asked : first <= j
  BY <1>4
<1>6. first \in {4, 5, 6} /\ (first # 4 => first > 4)
  BY <1>1, <1>3, <1>5 DEF Deletion
<1>7. \A j \in 1 .. 7 : j < first => Precedence[j] \notin c.asked
  BY <1>1, <1>5, <1>6
<1>8. Operation(c) # "purge_tenant" => first # 4
  BY <1>1, <1>3
<1> HIDE DEF first
<1> QED BY <1>1, <1>3, <1>5, <1>6, <1>7, <1>8

LEMMA DeleteIsAskedFor ==
  ASSUME NEW c, Delete(c), NEW u \in Uri, documents[u] # None, documents'[u] = None
  PROVE  /\ args' = c /\ c.program = "cli"
         /\ c.asked \intersect {"index_status", "check_consistency", "reembed"} = {}
         /\ "purge_tenant" \in c.asked => c.confirm
         /\ \/ "purge_tenant" \in c.asked /\ documents[u].tenant = Cleaned[c.purge]
            \/ "delete_document" \in c.asked /\ u = c.uri
                                            /\ documents[u].tenant = Cleaned[c.tenant]
            \/ /\ "delete_source_type" \in c.asked
               /\ documents[u].format = c.format /\ documents[u].tenant = Cleaned[c.tenant]
<1>1. /\ Deletion(c) /\ args' = c /\ c.program = "cli"
      /\ Operation(c) \in {"purge_tenant", "delete_document", "delete_source_type"}
  BY DEF Delete, Deletion, Started
<1>2. Permitted(c) /\ u \in Selected(c)
  BY DEF Delete, corpus
<1>3. "purge_tenant" \in c.asked => c.confirm
  BY <1>1, <1>2, OperationFacts DEF Permitted
<1>4. CASE Operation(c) = "purge_tenant"
  BY <1>1, <1>2, <1>3, <1>4, OperationFacts DEF Selected
<1>5. CASE Operation(c) = "delete_document"
  BY <1>1, <1>2, <1>3, <1>5, OperationFacts DEF Selected
<1>6. CASE Operation(c) = "delete_source_type"
  BY <1>1, <1>2, <1>3, <1>6, OperationFacts DEF Selected
<1> QED BY <1>1, <1>4, <1>5, <1>6

LEMMA OnlyDeletesRemove ==
  ASSUME IInv, [Next]_vars, NEW u \in Uri, documents[u] # None, documents'[u] = None
  PROVE  \E c \in Commands : Delete(c)
<1>1. CASE \E c \in Commands : Look(c) \/ Delete(c) \/ Reembed(c) \/ Ingest(c) \/ Refuse(c)
  BY <1>1 DEF Look, Reembed, Ingest, Refuse, corpus
<1>2. CASE Upsert
  <2>1. place \in DOMAIN inputs /\ DOMAIN documents = Uri
    BY <1>2, HereFacts DEF Upsert, IInv, LoopOK
  <2>2. Row(place) # None
    BY <1>2, <2>1, RowFacts DEF Upsert, IInv, LoopOK
  <2> QED BY <1>2, <2>1, <2>2 DEF Upsert
<1>3. CASE Edit \/ Read \/ Unreadable \/ Embed \/ Replace \/ Raise \/ Finish \/ Kill
  BY <1>3 DEF Edit, Read, Unreadable, Embed, Replace, Raise, Finish, Kill, corpus
<1>4. CASE UNCHANGED vars
  BY <1>4 DEF vars
<1> QED BY <1>1, <1>2, <1>3, <1>4 DEF Next, Step, Terminated

\* main looks at one operation, the first that was asked for: a document goes
\* away only in a deletion that was asked for, of its tenant, and confirmed where
\* it has to be; a request for a diagnostic beside it keeps everything.
THEOREM RemovalsAsked == Spec => RemovalsAreAskedFor
<1>1. IInv /\ [Next]_vars => IInv'
  BY NextKeeps
<1>2. ASSUME IInv, [Next]_vars
      PROVE  [ \A u \in Uri : documents[u] # None /\ documents'[u] = None =>
                 LET c == args'
                     d == documents[u]
                 IN  /\ c.program = "cli"
                     /\ c.asked \intersect {"index_status", "check_consistency", "reembed"} = {}
                     /\ "purge_tenant" \in c.asked => c.confirm
                     /\ \/ "purge_tenant" \in c.asked /\ d.tenant = Cleaned[c.purge]
                        \/ "delete_document" \in c.asked /\ u = c.uri
                                                        /\ d.tenant = Cleaned[c.tenant]
                        \/ /\ "delete_source_type" \in c.asked
                           /\ d.format = c.format /\ d.tenant = Cleaned[c.tenant] ]_vars
  BY <1>2, OnlyDeletesRemove, DeleteIsAskedFor
<1> QED BY Initially, <1>1, <1>2, PTL DEF Spec, RemovalsAreAskedFor

-------------------------------------------------------------------------------
(* Vectors *)

\* Of distinct numbers in 1 .. n that fill it, m - 1 are below m.
LEMMA BelowCounted ==
  ASSUME NEW n \in Int, NEW p \in Injection(1 .. n, 1 .. n), NEW m \in 1 .. n
  PROVE  /\ \E j \in 1 .. n : p[j] = m
         /\ Cardinality({ i \in 1 .. n : p[i] < m }) = m - 1
<1> DEFINE S == { i \in 1 .. n : p[i] < m }
           f == [i \in S |-> p[i]]
<1>1. p \in [1 .. n -> 1 .. n] /\ \A a, b \in 1 .. n : p[a] = p[b] => a = b
  BY DEF Injection, IsInjective
<1>2. IsFiniteSet(1 .. n)
  BY FS_Interval
<1>3. p \in Surjection(1 .. n, 1 .. n)
  BY <1>2, FS_Injection
<1>4. \A k \in 1 .. n : \E j \in 1 .. n : p[j] = k
  BY <1>3 DEF Surjection
<1>5. f \in [S -> 1 .. m - 1]
  BY <1>1
<1>6. f \in Injection(S, 1 .. m - 1)
  <2>1. \A a, b \in S : f[a] = f[b] => a = b
    BY <1>1
  <2> HIDE DEF f, S
  <2> QED BY <1>5, <2>1 DEF Injection, IsInjective
<1>7. f \in Surjection(S, 1 .. m - 1)
  <2>1. ASSUME NEW k \in 1 .. m - 1 PROVE \E j \in S : f[j] = k
    <3>1. k \in 1 .. n /\ k < m
      OBVIOUS
    <3>2. PICK j \in 1 .. n : p[j] = k
      BY <1>4, <3>1
    <3>3. j \in S
      BY <3>1, <3>2
    <3> QED BY <3>2, <3>3
  <2> HIDE DEF f, S
  <2> QED BY <1>5, <2>1 DEF Surjection
<1>8. IsFiniteSet(1 .. m - 1) /\ Cardinality(1 .. m - 1) = m - 1
  BY FS_Interval
<1> HIDE DEF f, S
<1>9. Cardinality(S) = Cardinality(1 .. m - 1)
  BY <1>6, <1>7, <1>8, FS_Injection
<1> QED BY <1>4, <1>8, <1>9 DEF S

\* The first n items, each once, in any order.
Shuffled(reply, texts, dim, n) ==
  \E p \in Injection(1 .. n, 1 .. n) :
    DOMAIN reply = 1 .. n /\ \A i \in 1 .. n : reply[i] = Item(texts, p[i], dim)
InOrder(reply, texts, dim, n) ==
  DOMAIN reply = 1 .. n /\ \A k \in 1 .. n : reply[k] = Item(texts, k, dim)

\* Sorting by index puts what was sent in any order in the order of the texts.
LEMMA ByIndexSorts ==
  ASSUME NEW texts, NEW dim, NEW n \in Int, NEW reply, Shuffled(reply, texts, dim, n)
  PROVE  InOrder(ByIndex(reply), texts, dim, n)
<1>0. PICK p \in Injection(1 .. n, 1 .. n) :
        DOMAIN reply = 1 .. n /\ \A i \in 1 .. n : reply[i] = Item(texts, p[i], dim)
  BY DEF Shuffled
<1> DEFINE lower(i, j) == \/ reply[i].index < reply[j].index
                          \/ reply[i].index = reply[j].index /\ i < j
           rank(j) == 1 + Cardinality({ i \in DOMAIN reply : lower(i, j) })
           chosen(k) == CHOOSE j \in DOMAIN reply : rank(j) = k
<1>1. \A i \in 1 .. n : p[i] \in 1 .. n
  BY DEF Injection
<1>2. \A i, j \in 1 .. n : p[i] = p[j] => i = j
  BY DEF Injection, IsInjective
<1>3. \A i, j \in 1 .. n : lower(i, j) <=> p[i] < p[j]
  <2>1. \A i \in 1 .. n : reply[i].index = p[i] - 1
    BY <1>0 DEF Item
  <2> QED BY <1>1, <1>2, <2>1
<1>4. \A j \in 1 .. n : rank(j) = p[j]
  <2> TAKE j \in 1 .. n
  <2>1. { i \in DOMAIN reply : lower(i, j) } = { i \in 1 .. n : p[i] < p[j] }
    BY <1>0, <1>3
  <2>2. Cardinality({ i \in 1 .. n : p[i] < p[j] }) = p[j] - 1
    BY <1>1, BelowCounted
  <2>3. rank(j) = 1 + Cardinality({ i \in 1 .. n : p[i] < p[j] })
    BY <2>1
  <2> HIDE DEF rank
  <2> QED BY <1>1, <2>2, <2>3
<1> HIDE DEF rank
<1>5. \A k \in 1 .. n : chosen(k) \in 1 .. n /\ p[chosen(k)] = k
  <2> TAKE k \in 1 .. n
  <2>1. PICK j \in 1 .. n : p[j] = k
    BY BelowCounted
  <2>2. \E i \in DOMAIN reply : rank(i) = k
    BY <1>0, <1>4, <2>1
  <2>3. chosen(k) \in DOMAIN reply /\ rank(chosen(k)) = k
    BY <2>2
  <2> QED BY <1>0, <1>4, <2>3
<1>6. ByIndex(reply) = [k \in DOMAIN reply |-> reply[chosen(k)]]
  BY DEF ByIndex, rank
<1> HIDE DEF chosen
<1> QED BY <1>0, <1>5, <1>6 DEF InOrder

\* A service answers with each item once, or leaves some out at the end.
LEMMA RepliesFacts ==
  ASSUME NEW provider, NEW texts, NEW dim,
         Len(texts) \in Nat, DOMAIN texts = 1 .. Len(texts),
         NEW reply \in Replies(provider, texts, dim)
  PROVE  \E n \in Int : /\ n <= Len(texts)
                        /\ Shuffled(reply, texts, dim, n)
                        /\ provider \notin Unordered => InOrder(reply, texts, dim, n)
<1> DEFINE items(n) == [i \in 1 .. n |-> Item(texts, i, dim)]
           whole == { items(n) : n \in {Len(texts), IF texts = <<>> THEN 0 ELSE Len(texts) - 1} }
           orders == { f \in [DOMAIN texts -> DOMAIN texts] :
                         \A i, j \in DOMAIN texts : i # j => f[i] # f[j] }
<1>1. CASE reply \in whole
  <2>1. PICK n \in {Len(texts), IF texts = <<>> THEN 0 ELSE Len(texts) - 1} : reply = items(n)
    BY <1>1
  <2>2. n \in Int /\ n <= Len(texts)
    BY <2>1
  <2>3. InOrder(reply, texts, dim, n)
    BY <2>1 DEF InOrder
  <2>4. Shuffled(reply, texts, dim, n)
    <3>1. [i \in 1 .. n |-> i] \in Injection(1 .. n, 1 .. n)
      BY DEF Injection, IsInjective
    <3> QED BY <2>3, <3>1 DEF Shuffled, InOrder
  <2> QED BY <2>2, <2>3, <2>4
<1>2. ASSUME provider \in Unordered, reply \notin whole
      PROVE  \E p \in orders : reply = [i \in 1 .. Len(texts) |-> Item(texts, p[i], dim)]
  <2>1. reply \in { [i \in DOMAIN r |-> r[p[i]]] : r \in {items(Len(texts))}, p \in orders }
    BY <1>2 DEF Replies
  <2>2. PICK p \in orders : reply = [i \in DOMAIN items(Len(texts)) |-> items(Len(texts))[p[i]]]
    BY <2>1
  <2> QED BY <2>2
<1>3. CASE provider \in Unordered /\ reply \notin whole
  <2>1. PICK p \in orders : reply = [i \in 1 .. Len(texts) |-> Item(texts, p[i], dim)]
    BY <1>2, <1>3
  <2>2. p \in Injection(1 .. Len(texts), 1 .. Len(texts))
    BY <2>1 DEF Injection, IsInjective
  <2>3. Shuffled(reply, texts, dim, Len(texts))
    BY <2>1, <2>2 DEF Shuffled
  <2> QED BY <1>3, <2>3
<1> QED BY <1>1, <1>3 DEF Replies

VectorsOf(vs, texts, dim) ==
  /\ vs \in Seq({ Vector(texts[k], dim) : k \in DOMAIN texts })
  /\ \A k \in DOMAIN vs : vs[k] = Vector(texts[k], dim)

\* embed_texts returns vectors of the texts, in their order.
LEMMA EmbeddingsFacts ==
  ASSUME NEW provider, NEW texts, NEW dim,
         Len(texts) \in Nat, DOMAIN texts = 1 .. Len(texts),
         NEW vs \in Embeddings(provider, texts, dim)
  PROVE  VectorsOf(vs, texts, dim)
<1>1. CASE provider \in OneByOne \union {"local"}
  BY <1>1 DEF Embeddings, VectorsOf
<1>2. CASE provider \notin OneByOne \union {"local"}
  <2>1. PICK reply \in Replies(provider, texts, dim) :
          vs = [i \in DOMAIN Taken(provider, reply) |-> Taken(provider, reply)[i].vector]
    BY <1>2 DEF Embeddings
  <2>2. PICK n \in Int : /\ n <= Len(texts)
                         /\ Shuffled(reply, texts, dim, n)
                         /\ provider \notin Unordered => InOrder(reply, texts, dim, n)
    BY RepliesFacts
  <2>3. InOrder(Taken(provider, reply), texts, dim, n)
    BY <2>2, ByIndexSorts DEF Taken
  <2> DEFINE m == IF n < 0 THEN 0 ELSE n
  <2>4. m \in Nat /\ 1 .. n = 1 .. m /\ 1 .. m \subseteq DOMAIN texts
    BY <2>2
  <2>5. \A k \in 1 .. n : Taken(provider, reply)[k].vector = Vector(texts[k], dim)
    BY <2>3 DEF InOrder, Item
  <2> HIDE DEF m
  <2>6. vs = [k \in 1 .. m |-> Vector(texts[k], dim)]
    BY <2>1, <2>3, <2>4, <2>5 DEF InOrder
  <2>7. vs \in [1 .. m -> { Vector(texts[k], dim) : k \in DOMAIN texts }]
    BY <2>4, <2>6
  <2> QED BY <2>4, <2>6, <2>7 DEF VectorsOf
<1> QED BY <1>1, <1>2

\* The vectors of the loop are those of the texts it has read, and a stored one
\* is that of its row.
VectorsFollow ==
  /\ pc \in {"upsert", "replace"} /\ vectors # None =>
       /\ DOMAIN vectors = 1 .. Len(vectors)
       /\ \A i \in DOMAIN vectors : vectors[i].of = TextsOf[version][i]
  /\ \A u \in Uri :
       /\ DOMAIN chunks[u] = 1 .. Len(chunks[u]) /\ Len(chunks[u]) \in Nat
       /\ \A i \in DOMAIN chunks[u] : DOMAIN chunks[u][i] = {"text", "tenant", "vector"}

VInv == VectorsFollow /\ VectorsOfTexts

LEMMA EmbedVectors ==
  ASSUME IInv, VInv, Embed
  PROVE  VInv'
<1>1. version \in Version /\ version' = version /\ chunks' = chunks /\ pc' = "upsert"
  BY DEF Embed, IInv, LoopOK, corpus
<1>2. VectorsOfTexts'
  BY <1>1 DEF VInv, VectorsOfTexts
<1>3. ASSUME vectors' # None
      PROVE  /\ DOMAIN vectors' = 1 .. Len(vectors')
             /\ \A i \in DOMAIN vectors' : vectors'[i].of = TextsOf[version][i]
  <2>1. vectors' \in Embeddings(Provider(env, file), TextsOf[version], Dimension(env, file))
    BY <1>3 DEF Embed
  <2>2. DOMAIN TextsOf[version] = 1 .. Len(TextsOf[version]) /\ Len(TextsOf[version]) \in Nat
    BY <1>1, IngestionAssumption
  <2>3. VectorsOf(vectors', TextsOf[version], Dimension(env, file))
    BY <2>1, <2>2, EmbeddingsFacts
  <2> QED BY <2>3 DEF VectorsOf, Vector
<1> QED BY <1>1, <1>2, <1>3 DEF VInv, VectorsFollow

LEMMA ReplaceVectors ==
  ASSUME IInv, VInv, Replace
  PROVE  VInv'
<1>1. /\ pc' = "read" /\ pc = "replace" /\ version \in Version
      /\ DOMAIN chunks = Uri /\ DOMAIN chunks' = Uri
      /\ vectors # None => Len(vectors) = Len(TextsOf[version])
      /\ Accepted(vectors)
  BY DEF Replace, Enter, IInv, LoopOK
<1>2. Here \in Uri
  BY HereFacts DEF Replace, IInv, LoopOK
<1>3. /\ chunks'[Here] = Rows(args.tenant, version, vectors)
      /\ \A u \in Uri : u # Here => chunks'[u] = chunks[u]
  BY <1>1, <1>2 DEF Replace
<1>4. DOMAIN TextsOf[version] = 1 .. Len(TextsOf[version])
  BY <1>1, IngestionAssumption
<1>5. ASSUME NEW i \in DOMAIN chunks'[Here]
      PROVE  /\ DOMAIN chunks'[Here][i] = {"text", "tenant", "vector"}
             /\ chunks'[Here][i].vector # None =>
                  /\ chunks'[Here][i].vector.of = chunks'[Here][i].text
                  /\ chunks'[Here][i].vector.dim = ColumnDimension
  <2>1. /\ i \in DOMAIN TextsOf[version]
        /\ chunks'[Here][i] = [text |-> TextsOf[version][i], tenant |-> args.tenant,
                               vector |-> IF vectors = None THEN None ELSE vectors[i]]
    BY <1>3 DEF Rows
  <2>2. CASE vectors = None
    BY <2>1, <2>2
  <2>3. CASE vectors # None
    <3>1. i \in DOMAIN vectors
      BY <1>1, <1>4, <2>1, <2>3 DEF VInv, VectorsFollow
    <3>2. vectors[i].of = TextsOf[version][i] /\ vectors[i].dim = ColumnDimension
      BY <1>1, <2>3, <3>1 DEF VInv, VectorsFollow, Accepted
    <3> QED BY <2>1, <2>3, <3>2
  <2> QED BY <2>2, <2>3
<1> QED BY <1>1, <1>3, <1>5 DEF VInv, VectorsFollow, VectorsOfTexts

\* The chunks in scope are finitely many.
LEMMA ScopeIsFinite ==
  ASSUME NEW c, \A u \in Uri : DOMAIN chunks[u] = 1 .. Len(chunks[u]) /\ Len(chunks[u]) \in Nat
  PROVE  IsFiniteSet(InScope(c))
<1> DEFINE own(u) == {u} \X { i \in DOMAIN chunks[u] : chunks[u][i].tenant \in Scope(c) }
           all == { own(u) : u \in Uri }
<1>1. \A u \in Uri : IsFiniteSet(own(u))
  <2> TAKE u \in Uri
  <2>1. IsFiniteSet(1 .. Len(chunks[u]))
    BY FS_Interval
  <2>2. IsFiniteSet({ i \in DOMAIN chunks[u] : chunks[u][i].tenant \in Scope(c) })
    BY <2>1, FS_Subset
  <2>3. IsFiniteSet({u})
    BY FS_Singleton
  <2> QED BY <2>2, <2>3, FS_Product
<1> HIDE DEF own
<1>2. IsFiniteSet(all)
  <2> DEFINE f == [u \in Uri |-> own(u)]
  <2>1. f \in Surjection(Uri, all)
    BY Zenon DEF Surjection
  <2> HIDE DEF f
  <2> QED BY <2>1, IngestionAssumption, FS_Surjection
<1>3. \A S \in all : IsFiniteSet(S)
  BY <1>1
<1> HIDE DEF all
<1>4. IsFiniteSet(UNION all)
  BY <1>2, <1>3, FS_UNION
<1> QED BY <1>4 DEF InScope, own, all

\* What zip pairs with a row is a vector of the row's text.
LEMMA ZippedFacts ==
  ASSUME NEW scope, IsFiniteSet(scope), NEW order, NEW rows, rows = RowsInOrder(scope, order),
         NEW answers, \A s \in Starts(rows) : answers[s] \in BatchAnswers(rows, s),
         NEW p \in Zipped(rows, answers)
  PROVE  p[2] = Vector(TextAt(p[1]), Dimension(env, file))
<1>1. DOMAIN rows = 1 .. Cardinality(scope) /\ Cardinality(scope) \in Nat
  BY FS_CardinalityType DEF RowsInOrder
<1>2. PICK s \in Starts(rows) :
        \E i \in DOMAIN Batch(rows, s) \intersect DOMAIN answers[s] :
          p = <<Batch(rows, s)[i], answers[s][i]>>
  BY DEF Zipped
<1>10. PICK k \in DOMAIN Batch(rows, s) \intersect DOMAIN answers[s] :
        p = <<Batch(rows, s)[k], answers[s][k]>>
  BY <1>2
<1> DEFINE n == IF s + BatchSize <= Len(rows) THEN BatchSize ELSE Len(rows) - s
           texts == [i \in DOMAIN Batch(rows, s) |-> TextAt(Batch(rows, s)[i])]
<1>3. Len(rows) = Cardinality(scope)
  BY <1>1
<1>4. n \in Nat
  BY <1>1, <1>2, <1>3, IngestionAssumption DEF Starts
<1>5. DOMAIN Batch(rows, s) = 1 .. n
  BY DEF Batch
<1> HIDE DEF n
<1>6. Len(texts) = n /\ DOMAIN texts = 1 .. n
  BY <1>4, <1>5
<1>7. answers[s] \in Embeddings(Provider(env, file), texts, Dimension(env, file))
  BY <1>2 DEF BatchAnswers
<1>8. texts[k] = TextAt(Batch(rows, s)[k])
  BY <1>10
<1> HIDE DEF texts
<1>9. VectorsOf(answers[s], texts, Dimension(env, file))
  BY <1>4, <1>6, <1>7, EmbeddingsFacts
<1> QED BY <1>10, <1>8, <1>9 DEF VectorsOf

LEMMA ReembedVectors ==
  ASSUME IInv, VInv, NEW c, Reembed(c)
  PROVE  VInv'
<1>1. pc' = "idle"
  BY DEF Reembed, Started, Ended
<1>2. CASE chunks' = chunks
  BY <1>1, <1>2 DEF VInv, VectorsFollow, VectorsOfTexts
<1>3. CASE chunks' # chunks
  <2> DEFINE scope == InScope(c)
             dim == Dimension(env, file)
             fit(updates) == \A p \in updates : p[2].dim = ColumnDimension
  <2>1. PICK order \in Orders :
          \E answers : LET rows == RowsInOrder(scope, order) IN
            /\ \A s \in Starts(rows) : answers[s] \in BatchAnswers(rows, s)
            /\ fit(Zipped(rows, answers))
            /\ chunks' = [u \in Uri |-> [i \in DOMAIN chunks[u] |->
                             Updated(Zipped(rows, answers), u, i)]]
    BY <1>3, Zenon DEF Reembed
  <2> DEFINE rows == RowsInOrder(scope, order)
  <2>2. PICK answers :
          /\ \A s \in Starts(rows) : answers[s] \in BatchAnswers(rows, s)
          /\ fit(Zipped(rows, answers))
          /\ chunks' = [u \in Uri |-> [i \in DOMAIN chunks[u] |->
                           Updated(Zipped(rows, answers), u, i)]]
    BY <2>1, Zenon
  <2> DEFINE updates == Zipped(rows, answers)
             of(u, i) == { p[2] : p \in { q \in updates : q[1] = <<u, i>> } }
  <2>3. IsFiniteSet(scope)
    <3>1. \A u \in Uri : DOMAIN chunks[u] = 1 .. Len(chunks[u]) /\ Len(chunks[u]) \in Nat
      BY DEF VInv, VectorsFollow
    <3> QED BY <3>1, ScopeIsFinite
  <2>4. \A p \in updates : p[2] = Vector(TextAt(p[1]), dim)
    <3> HIDE DEF scope
    <3> QED BY <2>2, <2>3, ZippedFacts
  <2> HIDE DEF scope, dim, rows, updates
  <2>5. ASSUME NEW u, NEW i, NEW v \in of(u, i)
        PROVE  v.of = chunks[u][i].text /\ v.dim = ColumnDimension
    <3>1. PICK p \in updates : p[1] = <<u, i>> /\ v = p[2]
      BY <2>5
    <3>2. TextAt(p[1]) = chunks[u][i].text
      BY <3>1 DEF TextAt
    <3>3. v = Vector(chunks[u][i].text, dim)
      BY <2>4, <3>1, <3>2
    <3>4. v.dim = ColumnDimension
      BY <2>2, <3>1 DEF updates
    <3> QED BY <3>3, <3>4 DEF Vector
  <2>6. ASSUME NEW u \in Uri, NEW i \in DOMAIN chunks'[u]
        PROVE  /\ DOMAIN chunks'[u][i] = {"text", "tenant", "vector"}
               /\ chunks'[u][i].vector # None =>
                    /\ chunks'[u][i].vector.of = chunks'[u][i].text
                    /\ chunks'[u][i].vector.dim = ColumnDimension
    <3>1. i \in DOMAIN chunks[u] /\ DOMAIN chunks[u][i] = {"text", "tenant", "vector"}
      BY <2>2 DEF VInv, VectorsFollow
    <3>2. chunks'[u][i] = Updated(updates, u, i)
      BY <2>2, <3>1 DEF updates
    <3>3. CASE of(u, i) # {}
      <4> DEFINE v == CHOOSE x \in of(u, i) : TRUE
      <4>1. v \in of(u, i)
        BY <3>3
      <4>2. chunks'[u][i] = [chunks[u][i] EXCEPT !.vector = v]
        BY <3>2, <3>3 DEF Updated
      <4>3. v.of = chunks[u][i].text /\ v.dim = ColumnDimension
        BY <2>5, <4>1
      <4> HIDE DEF v
      <4> QED BY <3>1, <4>2, <4>3
    <3>4. CASE of(u, i) = {}
      <4>1. chunks'[u][i] = chunks[u][i]
        BY <3>2, <3>4 DEF Updated
      <4> QED BY <3>1, <4>1 DEF VInv, VectorsOfTexts
    <3> QED BY <3>3, <3>4
  <2>7. \A u \in Uri : DOMAIN chunks'[u] = 1 .. Len(chunks'[u]) /\ Len(chunks'[u]) \in Nat
    <3> TAKE u \in Uri
    <3>1. DOMAIN chunks[u] = 1 .. Len(chunks[u]) /\ Len(chunks[u]) \in Nat
      BY DEF VInv, VectorsFollow
    <3>2. DOMAIN chunks'[u] = DOMAIN chunks[u]
      BY <2>2
    <3> QED BY <3>1, <3>2
  <2> QED BY <1>1, <2>6, <2>7 DEF VInv, VectorsFollow, VectorsOfTexts
<1> QED BY <1>2, <1>3

LEMMA NextVectors ==
  ASSUME IInv, VInv, [Next]_vars
  PROVE  VInv'
<1> USE DEF VInv, VectorsFollow, VectorsOfTexts
<1>1. CASE \E c \in Commands : Look(c) \/ Ingest(c) \/ Refuse(c)
  <2>1. chunks' = chunks /\ pc' \in {"idle", "read"}
    BY <1>1 DEF Look, Ingest, Refuse, Started, Ended, corpus
  <2> QED BY <2>1
<1>2. CASE \E c \in Commands : Delete(c)
  <2>1. pc' = "idle"
    BY <1>2 DEF Delete, Started, Ended
  <2>2. \A u \in Uri : chunks'[u] = chunks[u] \/ chunks'[u] = <<>>
    BY <1>2 DEF Delete, corpus
  <2> QED BY <2>1, <2>2
<1>3. CASE \E c \in Commands : Reembed(c)
  BY <1>3, ReembedVectors
<1>4. CASE Embed
  BY <1>4, EmbedVectors
<1>5. CASE Replace
  BY <1>5, ReplaceVectors
<1>6. CASE Edit \/ Upsert
  <2>1. UNCHANGED <<chunks, version, vectors>> /\ (pc' = pc \/ pc = "upsert")
    BY <1>6 DEF Edit, Upsert, corpus
  <2> QED BY <2>1
<1>7. CASE Read \/ Unreadable \/ Raise \/ Finish \/ Kill
  <2>1. chunks' = chunks /\ pc' \in {"embed", "idle", "read"}
    BY <1>7 DEF Read, Unreadable, Raise, Failed, Enter, Finish, Kill, corpus
  <2> QED BY <2>1
<1>8. CASE UNCHANGED vars
  BY <1>8 DEF vars
<1> QED BY <1>1, <1>2, <1>3, <1>4, <1>5, <1>6, <1>7, <1>8 DEF Next, Step, Terminated

\* embed_texts puts what a service answers in the order of the texts, and the
\* repository refuses a list of another length or dimension: no stored vector
\* is that of another text.
THEOREM VectorsStay == Spec => []VectorsOfTexts
<1>1. Init => VInv
  BY DEF Init, VInv, VectorsFollow, VectorsOfTexts
<1>2. IInv /\ VInv /\ [Next]_vars => IInv' /\ VInv'
  BY NextKeeps, NextVectors
<1> QED BY Initially, <1>1, <1>2, PTL DEF Spec, VInv

-------------------------------------------------------------------------------
(* Settings *)

\* For each key, the first source that has a say gives the value: the password's
\* empty variables, which say something, come third.
LEMMA FirstSourceGives ==
  ASSUME NEW k \in Key
  PROVE  Database(env, file)[k] =
           IF Given(env.kf[k]) THEN env.kf[k]
           ELSE IF Given(env.pg[k]) THEN env.pg[k]
           ELSE IF k = "password" /\ (env.kf[k] = Empty \/ env.pg[k] = Empty) THEN Empty
           ELSE IF env.url # Unset /\ UrlGives(env.url, k) THEN env.url[k]
           ELSE IF k \in DOMAIN file THEN file[k] ELSE DefaultOf[k]
<1> DEFINE byUrl == IF env.url # Unset /\ UrlGives(env.url, k)
                      THEN Put(file, k, env.url[k]) ELSE file
           raw == IF VariablesGive(env, k) THEN Put(byUrl, k, FromVariables(env, k)) ELSE byUrl
<1>1. Database(env, file)[k] = IF k \in DOMAIN raw THEN raw[k] ELSE DefaultOf[k]
  BY DEF Database, Overridden
<1>2. \A f, v : k \in DOMAIN Put(f, k, v) /\ Put(f, k, v)[k] = v
  BY DEF Put
<1>3. CASE VariablesGive(env, k)
  <2>1. Database(env, file)[k] = FromVariables(env, k)
    BY <1>1, <1>2, <1>3
  <2> HIDE DEF byUrl, raw
  <2> QED BY <1>3, <2>1, VariableAssumption DEF VariablesGive, FromVariables, Or, Given
<1>4. CASE ~ VariablesGive(env, k)
  <2>1. Database(env, file)[k] =
          IF env.url # Unset /\ UrlGives(env.url, k) THEN env.url[k]
          ELSE IF k \in DOMAIN file THEN file[k] ELSE DefaultOf[k]
    BY <1>1, <1>2, <1>4
  <2>2. /\ ~ Given(env.kf[k]) /\ ~ Given(env.pg[k])
        /\ ~ (k = "password" /\ (env.kf[k] = Empty \/ env.pg[k] = Empty))
    BY <1>4, VariableAssumption DEF VariablesGive, Given
  <2> QED BY <2>1, <2>2
<1> QED BY <1>3, <1>4

LEMMA FirstOfSix ==
  ASSUME NEW a \in BOOLEAN, NEW b \in BOOLEAN, NEW c \in BOOLEAN,
         NEW d \in BOOLEAN, NEW e \in BOOLEAN
  PROVE  LET says == << a, b, c, d, e, TRUE >>
         IN  (CHOOSE i \in DOMAIN says : says[i] /\ \A j \in 1 .. i - 1 : ~ says[j]) =
               IF a THEN 1 ELSE IF b THEN 2 ELSE IF c THEN 3
               ELSE IF d THEN 4 ELSE IF e THEN 5 ELSE 6
<1> DEFINE says == << a, b, c, d, e, TRUE >>
           IsFirst(i) == says[i] /\ \A j \in 1 .. i - 1 : ~ says[j]
           it == IF a THEN 1 ELSE IF b THEN 2 ELSE IF c THEN 3
                 ELSE IF d THEN 4 ELSE IF e THEN 5 ELSE 6
<1>1. /\ DOMAIN says = 1 .. 6
      /\ says[1] = a /\ says[2] = b /\ says[3] = c /\ says[4] = d /\ says[5] = e
      /\ says[6] = TRUE
  OBVIOUS
<1> HIDE DEF says
<1>2. it \in 1 .. 6 /\ IsFirst(it)
  BY <1>1
<1>3. \A i, j \in 1 .. 6 : IsFirst(i) /\ IsFirst(j) => i = j
  <2> SUFFICES ASSUME NEW i \in 1 .. 6, NEW j \in 1 .. 6, IsFirst(i), IsFirst(j), i < j
               PROVE  FALSE
    OBVIOUS
  <2>1. i \in 1 .. j - 1
    OBVIOUS
  <2> QED BY <2>1
<1> HIDE DEF IsFirst, it
<1>4. (CHOOSE i \in DOMAIN says : IsFirst(i)) = it
  BY <1>1, <1>2, <1>3
<1> QED BY <1>4 DEF IsFirst, it, says

LEMMA PrecedenceHolds == SettingsHavePrecedence
<1> SUFFICES ASSUME NEW k \in Key
             PROVE  LET says == << Given(env.kf[k]), Given(env.pg[k]),
                                   k = "password" /\ (env.kf[k] = Empty \/ env.pg[k] = Empty),
                                   IF env.url = Unset THEN FALSE
                                   ELSE IF k = "password" THEN env.url[k] # Unset
                                   ELSE Given(env.url[k]),
                                   k \in DOMAIN file, TRUE >>
                        first == CHOOSE i \in DOMAIN says : says[i] /\ \A j \in 1 .. i - 1 : ~ says[j]
                    IN  Database(env, file)[k] =
                          CASE first = 1 -> env.kf[k] [] first = 2 -> env.pg[k]
                            [] first = 3 -> Empty [] first = 4 -> env.url[k]
                            [] first = 5 -> file[k] [] first = 6 -> DefaultOf[k]
  BY DEF SettingsHavePrecedence
<1> DEFINE a == Given(env.kf[k])
           b == Given(env.pg[k])
           c == k = "password" /\ (env.kf[k] = Empty \/ env.pg[k] = Empty)
           d == IF env.url = Unset THEN FALSE
                ELSE IF k = "password" THEN env.url[k] # Unset ELSE Given(env.url[k])
           e == k \in DOMAIN file
           says == << a, b, c, d, e, TRUE >>
           first == CHOOSE i \in DOMAIN says : says[i] /\ \A j \in 1 .. i - 1 : ~ says[j]
<1>1. d <=> env.url # Unset /\ UrlGives(env.url, k)
  BY DEF UrlGives
<1>2. Database(env, file)[k] =
        IF a THEN env.kf[k] ELSE IF b THEN env.pg[k] ELSE IF c THEN Empty
        ELSE IF d THEN env.url[k] ELSE IF e THEN file[k] ELSE DefaultOf[k]
  BY <1>1, FirstSourceGives
<1> HIDE DEF a, b, c, d, e
<1>3. a \in BOOLEAN /\ b \in BOOLEAN /\ c \in BOOLEAN /\ d \in BOOLEAN /\ e \in BOOLEAN
  <2>1. \A v : Given(v) \in BOOLEAN
    BY DEF Given
  <2>2. a \in BOOLEAN /\ b \in BOOLEAN
    BY <2>1 DEF a, b
  <2>3. c \in BOOLEAN
    BY DEF c
  <2>4. d \in BOOLEAN
    <3>1. CASE env.url = Unset
      BY <3>1 DEF d
    <3>2. CASE env.url # Unset /\ k = "password"
      BY <3>2 DEF d
    <3>3. CASE env.url # Unset /\ k # "password"
      BY <2>1, <3>3 DEF d
    <3> QED BY <3>1, <3>2, <3>3
  <2>5. e \in BOOLEAN
    BY DEF e
  <2> QED BY <2>2, <2>3, <2>4, <2>5
<1>4. first = IF a THEN 1 ELSE IF b THEN 2 ELSE IF c THEN 3
              ELSE IF d THEN 4 ELSE IF e THEN 5 ELSE 6
  BY <1>3, FirstOfSix
<1> HIDE DEF first
<1>5. Database(env, file)[k] =
        CASE first = 1 -> env.kf[k] [] first = 2 -> env.pg[k]
          [] first = 3 -> Empty [] first = 4 -> env.url[k]
          [] first = 5 -> file[k] [] first = 6 -> DefaultOf[k]
  <2>1. CASE a
    BY <1>2, <1>4, <2>1
  <2>2. CASE ~ a /\ b
    BY <1>2, <1>4, <2>2
  <2>3. CASE ~ a /\ ~ b /\ c
    BY <1>2, <1>4, <2>3
  <2>4. CASE ~ a /\ ~ b /\ ~ c /\ d
    BY <1>2, <1>4, <2>4
  <2>5. CASE ~ a /\ ~ b /\ ~ c /\ ~ d /\ e
    BY <1>2, <1>4, <2>5
  <2>6. CASE ~ a /\ ~ b /\ ~ c /\ ~ d /\ ~ e
    BY <1>2, <1>4, <2>6
  <2> QED BY <2>1, <2>2, <2>3, <2>4, <2>5, <2>6
<1> QED BY <1>5 DEF first, a, b, c, d, e

\* Whatever the environment and the settings file, the database is given by the
\* first source that has a say.
THEOREM SettingsAreRight == Spec => []SettingsHavePrecedence
BY PrecedenceHolds, PTL

===============================================================================
