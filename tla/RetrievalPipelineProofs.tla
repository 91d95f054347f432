------------------------ MODULE RetrievalPipelineProofs ------------------------
(***************************************************************************)
(* Proofs about RetrievalPipeline, for every corpus, every assignment of   *)
(* scores, every set of arguments and settings and every bound.            *)
(***************************************************************************)
EXTENDS RetrievalPipeline, FiniteSetTheorems, TLAPS

-------------------------------------------------------------------------------
(* The audit log *)

\* What the log and the outcome of a retrieval say of where it is.
Logged ==
  /\ asks \in Nat
  /\ \A r \in runs : r.retrieval \in Nat /\ r.retrieval <= asks
  /\ stage # "failed" => failure = None
  /\ stage = "audit" => request.audited
  /\ AnswersAreLogged

LEMMA LoggedInitially == Init => Logged
BY PipelineAssumption DEF Init, Logged, AnswersAreLogged

\* A new retrieval has a number that no run has.
LEMMA AskKeepsLogged ==
  ASSUME Logged, NEW a \in Arguments, Ask(a)
  PROVE  Logged'
<1>1. asks' = asks + 1 /\ runs' = runs /\ asks' \in Nat
  BY DEF Ask, Logged
<1>2. \A r \in runs' : r.retrieval \in Nat /\ r.retrieval <= asks' /\ r.retrieval # asks'
  BY <1>1 DEF Logged
<1>3. stage' \in {"lexical", "vector", "failed"} /\ (stage' # "failed" => failure' = None)
  BY DEF Ask
<1> QED BY <1>1, <1>2, <1>3 DEF Logged, AnswersAreLogged

LEMMA StepKeepsLogged ==
  ASSUME Logged, Step
  PROVE  Logged'
<1>1. CASE SearchLexical \/ SearchVector
  BY <1>1 DEF SearchLexical, SearchVector, AfterLexical, Logged, AnswersAreLogged
<1>2. CASE LegFails("lexical", AfterLexical) \/ LegFails("vector", "assemble")
  <2>1. /\ stage \in {"lexical", "vector"} /\ UNCHANGED <<asks, runs, request>>
        /\ \/ stage' = "failed" /\ failure' = "leg"
           \/ stage' \in {"vector", "assemble"} /\ failure' = failure
    BY <1>2 DEF LegFails, AfterLexical, Raise
  <2> QED BY <2>1, PipelineAssumption DEF Logged, AnswersAreLogged
<1>3. CASE Assemble
  <2>1. /\ stage = "assemble" /\ UNCHANGED <<asks, runs, request>>
        /\ \/ stage' = "failed" /\ failure' = "reranker"
           \/ /\ stage' = IF request.audited THEN "audit" ELSE "answered"
              /\ failure' = failure
    BY <1>3 DEF Assemble, Raise
  <2> QED BY <2>1, PipelineAssumption DEF Logged, AnswersAreLogged
<1>4. CASE Audit
  <2>1. /\ stage = "audit" /\ stage' = "answered" /\ runs' = runs \union {Run}
        /\ UNCHANGED <<asks, request, package, failure>> /\ Run' = Run
        /\ Run.retrieval = asks
    BY <1>4 DEF Audit, Run
  <2> QED BY <2>1, PipelineAssumption DEF Logged, AnswersAreLogged
<1>5. CASE AuditFails
  <2>1. /\ stage' = "failed" /\ failure' = "audit" /\ runs' \in {runs, runs \union {Run}}
        /\ UNCHANGED <<asks, request>> /\ Run.retrieval = asks
    BY <1>5 DEF AuditFails, Run, Raise
  <2> QED BY <2>1 DEF Logged, AnswersAreLogged
<1> QED BY <1>1, <1>2, <1>3, <1>4, <1>5 DEF Step

\* Evidence that was to be audited is handed out only with its run in the log.
THEOREM AnswersHaveRuns == Spec => []AnswersAreLogged
<1>1. Logged /\ [Next]_vars => Logged'
  <2> SUFFICES ASSUME Logged, [Next]_vars PROVE Logged'
    OBVIOUS
  <2>1. CASE Write
    BY <2>1 DEF Write, Logged, AnswersAreLogged, Run
  <2>2. CASE \E a \in Arguments : Ask(a)
    BY <2>2, AskKeepsLogged
  <2>3. CASE Step
    BY <2>3, StepKeepsLogged
  <2>4. CASE UNCHANGED vars
    BY <2>4 DEF vars, Logged, AnswersAreLogged, Run
  <2> QED BY <2>1, <2>2, <2>3, <2>4 DEF Next, Terminated
<1>2. Logged => AnswersAreLogged
  BY DEF Logged
<1> QED BY LoggedInitially, <1>1, <1>2, PTL DEF Spec

-------------------------------------------------------------------------------
(* Sequences and searches *)

\* A set that is listed without repetition has as many elements as the list.
LEMMA ListedOnce ==
  ASSUME NEW n \in Nat, NEW T, NEW f \in [1 .. n -> T],
         \A i, j \in 1 .. n : f[i] = f[j] => i = j,
         \A t \in T : \E i \in 1 .. n : f[i] = t
  PROVE  IsFiniteSet(T) /\ Cardinality(T) = n
<1>1. f \in Surjection(1 .. n, T) /\ f \in Injection(1 .. n, T)
  BY DEF Surjection, Injection, IsInjective
<1>2. IsFiniteSet(1 .. n) /\ Cardinality(1 .. n) = n
  BY FS_Interval
<1> QED BY <1>1, <1>2, FS_Surjection

\* A list without repetition that is as long as a finite set has all of it.
LEMMA InjectiveCovers ==
  ASSUME NEW S, IsFiniteSet(S), NEW n \in Nat, n = Cardinality(S),
         NEW f \in [1 .. n -> S], \A i, j \in 1 .. n : f[i] = f[j] => i = j
  PROVE  \A x \in S : \E i \in 1 .. n : f[i] = x
<1>1. f \in Injection(1 .. n, S)
  BY DEF Injection, IsInjective
<1>2. IsFiniteSet(1 .. n) /\ Cardinality(1 .. n) = n
  BY FS_Interval
<1>3. f \in Surjection(1 .. n, S)
  BY <1>1, <1>2, FS_Injection
<1> QED BY <1>3 DEF Surjection

LEMMA ScoreType ==
  ASSUME NEW leg, NEW c \in ChunkRow
  PROVE  Score(leg, c) \in Nat /\ c.writer \in Nat /\ c.index \in Nat
<1>1. /\ c.version \in Version /\ c.index \in Nat /\ c.writer \in 1 .. MaxWrites
      /\ c.index < ChunkCount[c.version]
  BY DEF ChunkRow
<1>2. c.index \in 0 .. ChunkCount[c.version] - 1
  BY <1>1, PipelineAssumption
<1> QED BY <1>1, <1>2, PipelineAssumption DEF Score

\* What a search returns: rows of the set it searches, none twice, as many as
\* asked for, or else all of them.
LEMMA BestFacts ==
  ASSUME NEW leg, NEW S \in SUBSET ChunkRow, IsFiniteSet(S), NEW k \in Nat,
         NEW hits \in Best(leg, S, k)
  PROVE  /\ hits \in Seq([chunk : S, score : Nat])
         /\ \A i, j \in DOMAIN hits : hits[i].chunk = hits[j].chunk => i = j
         /\ Len(hits) = k \/ S \subseteq ChunksIn(hits)
<1> DEFINE n == Smaller(k, Cardinality(S))
<1>1. Cardinality(S) \in Nat /\ n \in Nat
  BY FS_CardinalityType DEF Smaller
<1>2. PICK s \in [1 .. n -> S] :
        /\ hits = [i \in DOMAIN s |-> [chunk |-> s[i], score |-> Score(leg, s[i])]]
        /\ \A i, j \in DOMAIN s : i < j => Before(leg, s[i], s[j])
  BY DEF Best
<1> HIDE DEF n
<1>3. DOMAIN s = 1 .. n
  BY <1>2
<1>4. \A c \in S : Score(leg, c) \in Nat /\ c.writer \in Nat /\ c.index \in Nat
  BY ScoreType
<1>5. ASSUME NEW c \in S PROVE ~ Before(leg, c, c)
  BY <1>4 DEF Before
<1>6. ASSUME NEW i \in 1 .. n, NEW j \in 1 .. n, s[i] = s[j] PROVE i = j
  <2>1. i < j => FALSE
    BY <1>2, <1>3, <1>5, <1>6
  <2>2. j < i => FALSE
    BY <1>2, <1>3, <1>5, <1>6
  <2> QED BY <2>1, <2>2, <1>1
<1>7. /\ hits \in Seq([chunk : S, score : Nat]) /\ Len(hits) = n /\ DOMAIN hits = 1 .. n
      /\ \A i \in 1 .. n : hits[i].chunk = s[i]
  BY <1>1, <1>2, <1>3, <1>4
<1>8. \A i, j \in DOMAIN hits : hits[i].chunk = hits[j].chunk => i = j
  BY <1>6, <1>7
<1>9. CASE n = k
  BY <1>7, <1>8, <1>9
<1>10. CASE n = Cardinality(S)
  <2>1. \A x \in S : \E i \in 1 .. n : s[i] = x
    BY <1>1, <1>2, <1>6, <1>10, InjectiveCovers
  <2>2. S \subseteq ChunksIn(hits)
    BY <2>1, <1>7 DEF ChunksIn
  <2> QED BY <1>7, <1>8, <2>2
<1> QED BY <1>9, <1>10 DEF n, Smaller

\* The facts of a leg's hits that fusion needs.
Hits(leg) ==
  /\ leg \in Seq([chunk : ChunkRow, score : Nat])
  /\ \A i, j \in DOMAIN leg : leg[i].chunk = leg[j].chunk => i = j

LEMMA HitTypes ==
  ASSUME NEW leg, Hits(leg)
  PROVE  /\ Len(leg) \in Nat /\ DOMAIN leg = 1 .. Len(leg)
         /\ \A i \in 1 .. Len(leg) : leg[i].chunk \in ChunkRow /\ leg[i].score \in Nat
<1> DEFINE Row == [chunk : ChunkRow, score : Nat]
<1>1. leg \in Seq(Row)
  BY DEF Hits
<1>2. \A r \in Row : r.chunk \in ChunkRow /\ r.score \in Nat
  OBVIOUS
<1> HIDE DEF Row
<1>3. Len(leg) \in Nat /\ DOMAIN leg = 1 .. Len(leg)
  BY <1>1
<1>4. \A i \in 1 .. Len(leg) : leg[i] \in Row
  BY <1>1
<1> QED BY <1>2, <1>3, <1>4

LEMMA LegChunks ==
  ASSUME NEW leg, Hits(leg)
  PROVE  /\ ChunksIn(leg) \subseteq ChunkRow
         /\ IsFiniteSet(ChunksIn(leg)) /\ Cardinality(ChunksIn(leg)) = Len(leg)
         /\ \A c \in ChunksIn(leg) :
              RankIn(leg, c) \in DOMAIN leg /\ leg[RankIn(leg, c)].chunk = c
<1>1. /\ Len(leg) \in Nat /\ DOMAIN leg = 1 .. Len(leg)
      /\ \A i \in 1 .. Len(leg) : leg[i].chunk \in ChunkRow /\ leg[i].score \in Nat
  BY HitTypes
<1>2. ChunksIn(leg) \subseteq ChunkRow
  BY <1>1 DEF ChunksIn
<1>3. ASSUME NEW c \in ChunksIn(leg)
      PROVE  RankIn(leg, c) \in DOMAIN leg /\ leg[RankIn(leg, c)].chunk = c
  <2>1. \E i \in DOMAIN leg : leg[i].chunk = c
    BY DEF ChunksIn
  <2> QED BY <2>1 DEF RankIn
<1>4. IsFiniteSet(ChunksIn(leg)) /\ Cardinality(ChunksIn(leg)) = Len(leg)
  <2> DEFINE f == [i \in 1 .. Len(leg) |-> leg[i].chunk]
  <2>1. /\ f \in [1 .. Len(leg) -> ChunksIn(leg)]
        /\ \A i, j \in 1 .. Len(leg) : f[i] = f[j] => i = j
        /\ \A c \in ChunksIn(leg) : \E i \in 1 .. Len(leg) : f[i] = c
    BY <1>1 DEF ChunksIn, Hits
  <2> HIDE DEF f
  <2> QED BY <1>1, <2>1, ListedOnce
<1> QED BY <1>2, <1>3, <1>4

LEMMA PlusType ==
  ASSUME NEW p, NEW q, p[1] \in Nat, p[2] \in Nat, q[1] \in Nat, q[2] \in Nat
  PROVE  Plus(p, q)[1] \in Nat /\ Plus(p, q)[2] \in Nat
<1>1. \A a, b \in Nat : a * b \in Nat
  OBVIOUS
<1>2. p[1] * q[2] \in Nat /\ q[1] * p[2] \in Nat /\ p[2] * q[2] \in Nat
  BY <1>1
<1>3. Plus(p, q)[1] = p[1] * q[2] + q[1] * p[2] /\ Plus(p, q)[2] = p[2] * q[2]
  BY DEF Plus
<1> QED BY <1>2, <1>3

\* The order of fused hits is strict.
LEMMA NothingPrecedesItself ==
  ASSUME NEW l, NEW v, Hits(l), Hits(v), NEW c \in ChunksIn(l) \union ChunksIn(v)
  PROVE  ~ Precedes(l, v, c, c)
<1>1. ASSUME NEW leg, Hits(leg), c \in ChunksIn(leg)
      PROVE  RankIn(leg, c) \in Nat /\ leg[RankIn(leg, c)].score \in Nat /\ Len(leg) \in Nat
  <2>1. RankIn(leg, c) \in DOMAIN leg
    BY <1>1, LegChunks
  <2> QED BY <1>1, <2>1, HitTypes
<1>2. ASSUME NEW leg, Hits(leg), NEW w \in Nat
      PROVE  /\ Term(leg, c, w)[1] \in Nat /\ Term(leg, c, w)[2] \in Nat
  BY <1>1, <1>2, FusionAssumption DEF Term
<1>3. FusedScore(l, v, c)[1] \in Nat /\ FusedScore(l, v, c)[2] \in Nat
  <2>1. /\ Term(l, c, LexicalWeight)[1] \in Nat /\ Term(l, c, LexicalWeight)[2] \in Nat
        /\ Term(v, c, VectorWeight)[1] \in Nat /\ Term(v, c, VectorWeight)[2] \in Nat
    BY <1>2, FusionAssumption
  <2> QED BY <2>1, PlusType DEF FusedScore
<1>4. HitScore(l, v, c) \in Nat /\ Place(l, v, c) \in Nat
  <2>1. CASE c \in ChunksIn(l)
    BY <1>1, <2>1 DEF HitScore, Place
  <2>2. CASE c \notin ChunksIn(l)
    <3>1. c \in ChunksIn(v) /\ Len(l) \in Nat
      BY <2>2, HitTypes
    <3> QED BY <1>1, <2>2, <3>1 DEF HitScore, Place
  <2> QED BY <2>1, <2>2
<1>5. ~ Exceeds(FusedScore(l, v, c), FusedScore(l, v, c))
  BY <1>3 DEF Exceeds
<1> QED BY <1>4, <1>5 DEF Precedes

\* A fused list has every chunk of the legs once.
LEMMA FusionFacts ==
  ASSUME NEW l, NEW v, Hits(l), Hits(v), NEW f \in Fusions(l, v)
  PROVE  /\ f \in Seq(ChunksIn(l) \union ChunksIn(v))
         /\ \A i, j \in DOMAIN f : f[i] = f[j] => i = j
         /\ \A c \in ChunksIn(l) \union ChunksIn(v) : \E i \in DOMAIN f : f[i] = c
         /\ Len(f) >= Len(l) /\ Len(f) >= Len(v)
<1> DEFINE all == ChunksIn(l) \union ChunksIn(v)
           n == Cardinality(all)
<1>1. /\ IsFiniteSet(all) /\ n \in Nat
      /\ Len(l) <= n /\ Len(v) <= n
  <2>1. /\ IsFiniteSet(ChunksIn(l)) /\ IsFiniteSet(ChunksIn(v))
        /\ Cardinality(ChunksIn(l)) = Len(l) /\ Cardinality(ChunksIn(v)) = Len(v)
    BY LegChunks
  <2>2. IsFiniteSet(all)
    BY <2>1, FS_Union
  <2>3. ChunksIn(l) \in SUBSET all /\ ChunksIn(v) \in SUBSET all
    OBVIOUS
  <2> HIDE DEF all
  <2> QED BY <2>1, <2>2, <2>3, FS_Subset, FS_CardinalityType
<1>2. /\ f \in [1 .. n -> all]
      /\ \A i, j \in 1 .. n : i < j => Precedes(l, v, f[i], f[j])
  BY DEF Fusions
<1> HIDE DEF n
<1>3. ASSUME NEW i \in 1 .. n, NEW j \in 1 .. n, f[i] = f[j] PROVE i = j
  <2>1. f[i] \in all /\ ~ Precedes(l, v, f[i], f[i])
    BY <1>2, NothingPrecedesItself
  <2>2. i < j \/ j < i => Precedes(l, v, f[i], f[i])
    BY <1>2, <1>3
  <2> QED BY <1>1, <2>1, <2>2
<1> HIDE DEF all
<1>4. \A c \in all : \E i \in 1 .. n : f[i] = c
  BY <1>1, <1>2, <1>3, InjectiveCovers DEF n
<1>5. f \in Seq(all) /\ Len(f) = n /\ DOMAIN f = 1 .. n
  BY <1>1, <1>2
<1> QED BY <1>1, <1>3, <1>4, <1>5 DEF all

LEMMA ListedFacts ==
  ASSUME NEW leg, Hits(leg)
  PROVE  /\ Listed(leg) \in Seq(ChunksIn(leg)) /\ Len(Listed(leg)) = Len(leg)
         /\ \A i, j \in DOMAIN Listed(leg) : Listed(leg)[i] = Listed(leg)[j] => i = j
         /\ \A c \in ChunksIn(leg) : \E i \in DOMAIN Listed(leg) : Listed(leg)[i] = c
<1>1. /\ Len(leg) \in Nat /\ DOMAIN leg = 1 .. Len(leg)
      /\ \A i \in 1 .. Len(leg) : leg[i].chunk \in ChunksIn(leg)
  BY HitTypes DEF ChunksIn
<1>2. /\ Listed(leg) \in [1 .. Len(leg) -> ChunksIn(leg)]
      /\ \A i \in 1 .. Len(leg) : Listed(leg)[i] = leg[i].chunk
  BY <1>1 DEF Listed
<1>3. Listed(leg) \in Seq(ChunksIn(leg)) /\ Len(Listed(leg)) = Len(leg)
      /\ DOMAIN Listed(leg) = 1 .. Len(leg)
  BY <1>1, <1>2
<1>4. \A i, j \in 1 .. Len(leg) : leg[i].chunk = leg[j].chunk => i = j
  BY <1>1 DEF Hits
<1>5. \A c \in ChunksIn(leg) : \E i \in 1 .. Len(leg) : leg[i].chunk = c
  BY <1>1 DEF ChunksIn
<1> QED BY <1>2, <1>3, <1>4, <1>5

LEMMA FirstOfFacts ==
  ASSUME NEW S, NEW s \in Seq(S), NEW n \in Nat
  PROVE  /\ FirstOf(s, n) \in Seq(S) /\ Len(FirstOf(s, n)) = Smaller(n, Len(s))
         /\ \A i \in 1 .. Smaller(n, Len(s)) : FirstOf(s, n)[i] = s[i]
<1> DEFINE m == Smaller(n, Len(s))
<1>1. m \in Nat /\ m <= Len(s) /\ FirstOf(s, n) = SubSeq(s, 1, m)
  BY DEF Smaller, FirstOf
<1> HIDE DEF m
<1>2. /\ SubSeq(s, 1, m) \in Seq(S) /\ Len(SubSeq(s, 1, m)) = m
      /\ \A i \in 1 .. m : SubSeq(s, 1, m)[i] = s[i]
  BY <1>1
<1> QED BY <1>1, <1>2 DEF m

-------------------------------------------------------------------------------
(* The inductive invariant *)

\* The chunks of a document come from one writer.
CorpusOK ==
  /\ writes \in 0 .. MaxWrites
  /\ chunks \subseteq ChunkRow /\ IsFiniteSet(chunks)
  /\ \A d \in documents : d.id \in 1 .. MaxWrites
  /\ \A c, d \in chunks : c.doc = d.doc => c.writer = d.writer

HistoryOK == MatchingNow \subseteq seen /\ steady \subseteq CertainNow

\* Where a retrieval is, and which legs it has tried.
FlowOK ==
  /\ stage \in {"idle", "lexical", "vector", "assemble", "audit", "answered", "failed"}
  /\ status \in [{"lexical", "vector"} -> {"skipped", "ok", "error"}]
  /\ stage \in {"lexical", "vector", "assemble", "audit"} => request \in Request
  /\ stage = "lexical" =>
       request.mode # "vector" /\ status.lexical = "skipped" /\ status.vector = "skipped"
  /\ stage = "vector" => request.mode # "lexical" /\ status.vector = "skipped"
  /\ stage \in {"vector", "assemble"} => (status.lexical = "skipped" <=> request.mode = "vector")
  /\ stage = "assemble" => (status.vector = "skipped" <=> request.mode = "lexical")

\* What a leg has found: matching chunks of one snapshot, of which the exact leg
\* leaves out none but for being full.
LegOK(leg, name) ==
  /\ Hits(leg)
  /\ ChunksIn(leg) \subseteq seen
  /\ \A c, d \in ChunksIn(leg) : c.doc = d.doc => c.writer = d.writer
  /\ settings.row_security => \A c \in ChunksIn(leg) : c.tenant = request.tenant
  /\ status[name] # "ok" => leg = <<>>
  /\ name = "lexical" /\ status[name] = "ok" =>
       Len(leg) = request.top_k \/ steady \subseteq ChunksIn(leg)

PackageFacts ==
  /\ request \in Request
  /\ Len(package.items) \in Nat /\ DOMAIN package.items = 1 .. Len(package.items)
  /\ Len(package.items) <= Limit[request]
  /\ \A i, j \in DOMAIN package.items : package.items[i].chunk = package.items[j].chunk => i = j
  /\ \A i \in DOMAIN package.items :
       /\ package.items[i].chunk \in ChunksIn(lexical) \union ChunksIn(vector)
       /\ package.items[i].sources = Sources(package.items[i].chunk)
  /\ package.degraded \in BOOLEAN
  /\ \/ package.degraded
     \/ Len(package.items) = Limit[request]
     \/ \A c \in steady : \E i \in DOMAIN package.items : package.items[i].chunk = c

PackageOK ==
  /\ stage \in {"idle", "lexical", "vector", "assemble"} => package = None
  /\ package # None \/ stage \in {"audit", "answered"} => PackageFacts

LegsOK == LegOK(lexical, "lexical") /\ LegOK(vector, "vector")

IInv == CorpusOK /\ HistoryOK /\ FlowOK /\ LegsOK /\ PackageOK

LEMMA RequestType ==
  ASSUME NEW r \in Request
  PROVE  /\ r.mode \in Mode /\ r.top_k \in Nat /\ r # None
         /\ Limit[r] = Smaller(r.top_k, MaxRerankCandidates) /\ Limit[r] \in Nat
<1>1. PICK a \in Arguments : Valid(a) /\ r = Cleaned(a)
  BY DEF Request
<1>2. a.top_k \in Nat
  BY ArgumentsAssumption
<1>3. r.mode \in Mode /\ r.top_k \in Nat
  BY <1>1, <1>2, PipelineAssumption DEF Cleaned, Valid, Larger, Smaller
<1> QED BY <1>3, NoneAssumption, PipelineAssumption DEF Limit, Smaller

LEMMA EmptyLeg ==
  /\ Hits(<<>>) /\ ChunksIn(<<>>) = {} /\ Len(<<>>) = 0
BY DEF Hits, ChunksIn

LEMMA Initially == Init => IInv
<1> SUFFICES ASSUME Init PROVE IInv
  OBVIOUS
<1>1. CorpusOK
  BY FS_EmptySet, PipelineAssumption DEF Init, CorpusOK, Corpus!AInit
<1>2. HistoryOK
  BY DEF Init, HistoryOK, MatchingNow, CertainNow
<1>3. FlowOK
  BY DEF Init, FlowOK
<1>4. LegsOK
  BY EmptyLeg DEF Init, LegsOK, LegOK
<1>5. PackageOK
  BY DEF Init, PackageOK
<1> QED BY <1>1, <1>2, <1>3, <1>4, <1>5 DEF IInv

\* The matching chunks after a step that leaves request and settings alone.
LEMMA MatchingNext ==
  ASSUME UNCHANGED <<request, settings>>
  PROVE  /\ MatchingNow' = IF request = None THEN {}
                           ELSE Matching(request, documents', chunks')
         /\ CertainNow' = IF request = None THEN {}
                          ELSE Certain(request, documents', chunks')
BY DEF MatchingNow, CertainNow, Matching, Certain, Visible, Matched, Score

\* What a search is bound to find matches.
LEMMA CertainMatches ==
  /\ \A r, docs, chs : Certain(r, docs, chs) \subseteq Matching(r, docs, chs)
  /\ CertainNow \subseteq MatchingNow
BY DEF CertainNow, MatchingNow, Certain, Matching, Matched

LEMMA MatchingIsVisible ==
  ASSUME request \in Request
  PROVE  /\ MatchingNow = Matching(request, documents, chunks)
         /\ MatchingNow \subseteq Visible(request, documents, chunks)
         /\ Visible(request, documents, chunks) \subseteq chunks
BY RequestType DEF MatchingNow, Matching, Matched, Visible

-------------------------------------------------------------------------------
(* Other processes write *)

LEMMA PiecesFacts ==
  ASSUME NEW id \in 1 .. MaxWrites, NEW v \in Version, NEW t \in Tenant,
         NEW w \in 1 .. MaxWrites
  PROVE  /\ Corpus!AllPieces(id, v, t, w) \subseteq ChunkRow
         /\ IsFiniteSet(Corpus!AllPieces(id, v, t, w))
         /\ \A c \in Corpus!AllPieces(id, v, t, w) : c.doc = id /\ c.writer = w
<1> DEFINE P == Corpus!AllPieces(id, v, t, w)
           piece(i) == [doc |-> id, index |-> i, version |-> v, tenant |-> t, writer |-> w]
           f == [i \in 0 .. ChunkCount[v] - 1 |-> piece(i)]
<1>1. ChunkCount[v] \in Nat
  BY PipelineAssumption
<1>2. P = {piece(i) : i \in 0 .. ChunkCount[v] - 1}
  BY DEF Corpus!AllPieces
<1>3. P \subseteq ChunkRow /\ \A c \in P : c.doc = id /\ c.writer = w
  BY <1>1, <1>2 DEF ChunkRow
<1>4. f \in Surjection(0 .. ChunkCount[v] - 1, P)
  BY <1>2 DEF Surjection
<1>5. IsFiniteSet(0 .. ChunkCount[v] - 1)
  <2>1. PICK m \in Int : m = ChunkCount[v] - 1
    BY <1>1
  <2> QED BY <2>1, FS_Interval, 0 \in Int
<1>6. IsFiniteSet(P)
  <2> HIDE DEF P, f
  <2> QED BY <1>4, <1>5, FS_Surjection
<1> QED BY <1>3, <1>6

LEMMA WriteKeepsCorpus ==
  ASSUME CorpusOK, Write
  PROVE  CorpusOK'
<1>1. writes' \in 0 .. MaxWrites /\ writes' \in 1 .. MaxWrites
  BY PipelineAssumption DEF CorpusOK, Write
<1>2. CASE \E t \in Tenant, v \in Version :
              \/ \E d \in documents : Corpus!UpdateDocument(d, t, v, writes')
              \/ \E u \in Uri : Corpus!RegisterDocument(u, t, v, writes')
  BY <1>1, <1>2 DEF CorpusOK, Corpus!UpdateDocument, Corpus!RegisterDocument
<1>3. CASE \E t \in Tenant, v \in Version, d \in documents :
              Corpus!ReplaceChunksOf(d.id, v, t, writes')
  <2>1. PICK t \in Tenant, v \in Version, d \in documents :
               Corpus!ReplaceChunksOf(d.id, v, t, writes')
    BY <1>3
  <2> DEFINE kept == {c \in chunks : c.doc # d.id}
             new == Corpus!AllPieces(d.id, v, t, writes')
  <2>2. chunks' = kept \union new /\ documents' = documents
    BY <2>1 DEF Corpus!ReplaceChunksOf
  <2>3. d.id \in 1 .. MaxWrites
    BY DEF CorpusOK
  <2>4. new \subseteq ChunkRow /\ IsFiniteSet(new) /\ \A c \in new : c.doc = d.id /\ c.writer = writes'
    BY <2>3, <1>1, PiecesFacts
  <2>5. kept \in SUBSET chunks /\ \A c \in kept : c.doc # d.id
    OBVIOUS
  <2> HIDE DEF kept, new
  <2>6. IsFiniteSet(kept)
    BY <2>5, FS_Subset DEF CorpusOK
  <2>7. IsFiniteSet(chunks')
    BY <2>2, <2>4, <2>6, FS_Union
  <2>8. \A c, e \in chunks' : c.doc = e.doc => c.writer = e.writer
    BY <2>2, <2>4, <2>5 DEF CorpusOK
  <2> QED BY <1>1, <2>2, <2>4, <2>5, <2>7, <2>8 DEF CorpusOK
<1>4. CASE \E d \in documents : Corpus!RemoveDocuments({d})
  <2>1. documents' \subseteq documents /\ chunks' \in SUBSET chunks
    BY <1>4 DEF Corpus!RemoveDocuments
  <2>2. IsFiniteSet(chunks')
    BY <2>1, FS_Subset DEF CorpusOK
  <2> QED BY <1>1, <2>1, <2>2 DEF CorpusOK
<1> QED BY <1>2, <1>3, <1>4 DEF Write

LEMMA WriteKeeps ==
  ASSUME IInv, Write
  PROVE  IInv'
<1>1. /\ UNCHANGED <<settings, stage, request, lexical, vector, status, package>>
      /\ IF request = None THEN UNCHANGED <<seen, steady>>
         ELSE /\ seen' = seen \union Matching(request, documents', chunks')
              /\ steady' = steady \intersect Certain(request, documents', chunks')
  BY DEF Write, history, legs
<1>2. seen \subseteq seen' /\ steady' \subseteq steady
  BY <1>1
<1>3. CorpusOK'
  BY WriteKeepsCorpus DEF IInv
<1>4. HistoryOK'
  BY <1>1, MatchingNext DEF IInv, HistoryOK, MatchingNow, CertainNow
<1>5. FlowOK'
  BY <1>1 DEF IInv, FlowOK
<1>6. LegsOK'
  <2>1. ASSUME NEW leg, NEW name, LegOK(leg, name) 
        PROVE  /\ Hits(leg)
               /\ ChunksIn(leg) \subseteq seen'
               /\ \A c, d \in ChunksIn(leg) : c.doc = d.doc => c.writer = d.writer
               /\ settings'.row_security => \A c \in ChunksIn(leg) : c.tenant = request'.tenant
               /\ status'[name] # "ok" => leg = <<>>
               /\ name = "lexical" /\ status'[name] = "ok" =>
                    Len(leg) = request'.top_k \/ steady' \subseteq ChunksIn(leg)
    BY <1>1, <1>2, <2>1 DEF LegOK
  <2>2. LegOK(lexical, "lexical") /\ LegOK(vector, "vector") /\ lexical' = lexical /\ vector' = vector
    BY <1>1 DEF IInv, LegsOK
  <2>3. LegOK(lexical, "lexical")'
    BY <2>1, <2>2 DEF LegOK
  <2>4. LegOK(vector, "vector")'
    BY <2>1, <2>2 DEF LegOK
  <2> QED BY <2>3, <2>4 DEF LegsOK
<1>7. PackageOK'
  BY <1>1, <1>2 DEF IInv, PackageOK, PackageFacts, ChunksIn, Sources
<1> QED BY <1>3, <1>4, <1>5, <1>6, <1>7 DEF IInv

LEMMA AskKeeps ==
  ASSUME IInv, NEW a \in Arguments, Ask(a)
  PROVE  IInv'
<1>1. /\ UNCHANGED <<documents, chunks, writes, settings>>
      /\ lexical' = <<>> /\ vector' = <<>> /\ package' = None
      /\ status' = [lexical |-> "skipped", vector |-> "skipped"]
  BY DEF Ask, corpus
<1>2. \/ /\ Valid(a) /\ request' = Cleaned(a)
         /\ stage' = IF a.mode = "vector" THEN "vector" ELSE "lexical"
         /\ seen' = Matching(request', documents, chunks)
         /\ steady' = Certain(request', documents, chunks)
      \/ request' = None /\ stage' = "failed" /\ seen' = {} /\ steady' = {}
  BY DEF Ask
<1>3. Valid(a) => Cleaned(a) \in Request /\ Cleaned(a).mode = a.mode
  BY DEF Request, Cleaned
<1>4. CorpusOK'
  BY <1>1 DEF IInv, CorpusOK
<1>5. HistoryOK'
  <2>1. /\ MatchingNow' = IF request' = None THEN {}
                          ELSE Matching(request', documents, chunks)
        /\ CertainNow' = IF request' = None THEN {}
                         ELSE Certain(request', documents, chunks)
    BY <1>1 DEF MatchingNow, CertainNow, Matching, Certain, Visible, Matched, Score
  <2>2. CASE request' = None /\ seen' = {} /\ steady' = {}
    BY <2>1, <2>2 DEF HistoryOK
  <2>3. CASE /\ Valid(a) /\ request' = Cleaned(a)
             /\ seen' = Matching(request', documents, chunks)
             /\ steady' = Certain(request', documents, chunks)
    <3>1. request' # None
      BY <1>3, <2>3, RequestType
    <3>2. MatchingNow' = seen' /\ CertainNow' = steady'
      BY <2>1, <2>3, <3>1
    <3> QED BY <2>3, <3>2 DEF HistoryOK
  <2> QED BY <1>2, <2>2, <2>3
<1>6. FlowOK'
  BY <1>1, <1>2, <1>3 DEF FlowOK
<1>7. LegsOK'
  BY <1>1, EmptyLeg DEF LegsOK, LegOK
<1>8. PackageOK'
  BY <1>1, <1>2 DEF PackageOK
<1> QED BY <1>4, <1>5, <1>6, <1>7, <1>8 DEF IInv
-------------------------------------------------------------------------------
(* The searches *)

\* A search reads one snapshot, of which it takes the best of the rows it comes
\* by; the exact one comes by all.
LEMMA SearchFacts ==
  ASSUME CorpusOK, HistoryOK, request \in Request,
         NEW name \in {"lexical", "vector"},
         request.mode \in {"hybrid", name},
         NEW R \in SUBSET Matched(name, Visible(request, documents, chunks)),
         NEW hits \in Best(name, R, request.top_k)
  PROVE  /\ Hits(hits)
         /\ ChunksIn(hits) \subseteq seen
         /\ \A c, d \in ChunksIn(hits) : c.doc = d.doc => c.writer = d.writer
         /\ settings.row_security => \A c \in ChunksIn(hits) : c.tenant = request.tenant
         /\ Len(hits) = request.top_k \/ R \subseteq ChunksIn(hits)
<1> DEFINE V == Visible(request, documents, chunks)
           S == Matched(name, V)
<1>1. /\ S \subseteq V /\ V \subseteq chunks
      /\ \A c \in V : Score(name, c) > 0 => c \in S
      /\ settings.row_security => \A c \in V : c.tenant = request.tenant
  BY DEF Matched, Visible
<1>2. S \subseteq MatchingNow
  BY RequestType DEF MatchingNow, Matching
<1>3. R \subseteq S
  OBVIOUS
<1> HIDE DEF V
<1>4. R \in SUBSET ChunkRow /\ IsFiniteSet(R)
  <2>1. R \in SUBSET chunks
    BY <1>1, <1>3
  <2> QED BY <2>1, FS_Subset DEF CorpusOK
<1> HIDE DEF S
<1>6. /\ hits \in Seq([chunk : R, score : Nat])
      /\ \A i, j \in DOMAIN hits : hits[i].chunk = hits[j].chunk => i = j
      /\ Len(hits) = request.top_k \/ R \subseteq ChunksIn(hits)
  BY <1>4, RequestType, BestFacts
<1>7. Hits(hits)
  <2>1. \A r \in [chunk : R, score : Nat] : r \in [chunk : ChunkRow, score : Nat]
    BY <1>4
  <2> DEFINE Row == [chunk : R, score : Nat]
             Wide == [chunk : ChunkRow, score : Nat]
  <2>2. \A r \in Row : r \in Wide
    BY <2>1
  <2>3. hits \in Seq(Row)
    BY <1>6
  <2> HIDE DEF Row, Wide
  <2>4. hits \in Seq(Wide)
    BY <2>2, <2>3
  <2> QED BY <2>4, <1>6 DEF Hits, Wide
<1>8. ChunksIn(hits) \subseteq R
  <2> DEFINE Row == [chunk : R, score : Nat]
  <2>1. \A r \in Row : r.chunk \in R
    OBVIOUS
  <2>2. hits \in Seq(Row)
    BY <1>6
  <2> HIDE DEF Row
  <2>3. \A i \in DOMAIN hits : hits[i] \in Row
    BY <2>2
  <2> QED BY <2>1, <2>3 DEF ChunksIn
<1>9. ChunksIn(hits) \subseteq seen
  BY <1>2, <1>3, <1>8 DEF HistoryOK
<1>10. \A c, d \in ChunksIn(hits) : c.doc = d.doc => c.writer = d.writer
  BY <1>1, <1>3, <1>8 DEF CorpusOK
<1>11. settings.row_security => \A c \in ChunksIn(hits) : c.tenant = request.tenant
  BY <1>1, <1>3, <1>8
<1> QED BY <1>6, <1>7, <1>9, <1>10, <1>11

\* What a step of the retrieval's own leaves alone.
LEMMA StillKeeps ==
  ASSUME IInv, UNCHANGED <<documents, chunks, writes, settings, request, seen, steady>>
  PROVE  CorpusOK' /\ HistoryOK'
<1>1. MatchingNow' = MatchingNow /\ CertainNow' = CertainNow
  BY DEF MatchingNow, CertainNow, Matching, Certain, Visible, Matched, Score
<1> QED BY <1>1 DEF IInv, CorpusOK, HistoryOK

LEMMA LegStays ==
  ASSUME NEW leg, NEW name, LegOK(leg, name),
         UNCHANGED <<settings, request, seen, steady>>, status'[name] = status[name]
  PROVE  /\ Hits(leg)
         /\ ChunksIn(leg) \subseteq seen'
         /\ \A c, d \in ChunksIn(leg) : c.doc = d.doc => c.writer = d.writer
         /\ settings'.row_security => \A c \in ChunksIn(leg) : c.tenant = request'.tenant
         /\ status'[name] # "ok" => leg = <<>>
         /\ name = "lexical" /\ status'[name] = "ok" =>
              Len(leg) = request'.top_k \/ steady' \subseteq ChunksIn(leg)
BY DEF LegOK

LEMMA SearchLexicalKeeps ==
  ASSUME IInv, SearchLexical
  PROVE  IInv'
<1>1. /\ stage = "lexical"
      /\ UNCHANGED <<documents, chunks, writes, settings, request, seen, steady,
                     vector, package>>
      /\ status' = [status EXCEPT !.lexical = "ok"]
      /\ stage' = IF request.mode = "lexical" THEN "assemble" ELSE "vector"
      /\ lexical' \in Best("lexical", Matched("lexical", Visible(request, documents, chunks)),
                           request.top_k)
  BY DEF SearchLexical, corpus, history, AfterLexical
<1>2. request \in Request /\ request.mode \in {"hybrid", "lexical"}
  BY <1>1, RequestType DEF IInv, FlowOK, Mode
<1>3. status' \in [{"lexical", "vector"} -> {"skipped", "ok", "error"}]
      /\ status'["lexical"] = "ok" /\ status'["vector"] = status["vector"]
  BY <1>1 DEF IInv, FlowOK
<1>4. CorpusOK' /\ HistoryOK'
  BY <1>1, StillKeeps
<1>5. FlowOK'
  BY <1>1, <1>2, <1>3 DEF IInv, FlowOK
<1>6. LegOK(lexical, "lexical")'
  <2>1. /\ Hits(lexical')
        /\ ChunksIn(lexical') \subseteq seen
        /\ \A c, d \in ChunksIn(lexical') : c.doc = d.doc => c.writer = d.writer
        /\ settings.row_security => \A c \in ChunksIn(lexical') : c.tenant = request.tenant
        /\ \/ Len(lexical') = request.top_k
           \/ Matched("lexical", Visible(request, documents, chunks))
                \subseteq ChunksIn(lexical')
    BY <1>1, <1>2, SearchFacts DEF IInv
  <2>2. steady \subseteq Matched("lexical", Visible(request, documents, chunks))
    BY <1>2, RequestType DEF IInv, HistoryOK, CertainNow, Certain
  <2> QED BY <1>1, <1>3, <2>1, <2>2 DEF LegOK
<1>7. LegOK(vector, "vector")'
  <2>1. LegOK(vector, "vector") /\ vector' = vector
    BY <1>1 DEF IInv, LegsOK
  <2> QED BY <1>1, <1>3, <2>1, LegStays DEF LegOK
<1>8. PackageOK'
  BY <1>1 DEF IInv, PackageOK
<1> QED BY <1>4, <1>5, <1>6, <1>7, <1>8 DEF IInv, LegsOK

LEMMA SearchVectorKeeps ==
  ASSUME IInv, SearchVector
  PROVE  IInv'
<1>1. /\ stage = "vector"
      /\ UNCHANGED <<documents, chunks, writes, settings, request, seen, steady,
                     lexical, package>>
      /\ status' = [status EXCEPT !.vector = "ok"]
      /\ stage' = "assemble"
      /\ \E R \in SUBSET Matched("vector", Visible(request, documents, chunks)) :
           vector' \in Best("vector", R, request.top_k)
  BY DEF SearchVector, BestApproximately, corpus, history
<1>2. request \in Request /\ request.mode \in {"hybrid", "vector"}
  BY <1>1, RequestType DEF IInv, FlowOK, Mode
<1>3. status' \in [{"lexical", "vector"} -> {"skipped", "ok", "error"}]
      /\ status'["vector"] = "ok" /\ status'["lexical"] = status["lexical"]
  BY <1>1 DEF IInv, FlowOK
<1>4. CorpusOK' /\ HistoryOK'
  BY <1>1, StillKeeps
<1>5. FlowOK'
  BY <1>1, <1>2, <1>3 DEF IInv, FlowOK
<1>6. LegOK(vector, "vector")'
  <2>1. /\ Hits(vector')
        /\ ChunksIn(vector') \subseteq seen
        /\ \A c, d \in ChunksIn(vector') : c.doc = d.doc => c.writer = d.writer
        /\ settings.row_security => \A c \in ChunksIn(vector') : c.tenant = request.tenant
    BY <1>1, <1>2, SearchFacts DEF IInv
  <2> QED BY <1>1, <1>3, <2>1 DEF LegOK
<1>7. LegOK(lexical, "lexical")'
  <2>1. LegOK(lexical, "lexical") /\ lexical' = lexical
    BY <1>1 DEF IInv, LegsOK
  <2> QED BY <1>1, <1>3, <2>1, LegStays DEF LegOK
<1>8. PackageOK'
  BY <1>1 DEF IInv, PackageOK
<1> QED BY <1>4, <1>5, <1>6, <1>7, <1>8 DEF IInv, LegsOK

\* A leg that fails has no hits: it was not tried before.
LEMMA LegFailsKeeps ==
  ASSUME IInv, LegFails("lexical", AfterLexical) \/ LegFails("vector", "assemble")
  PROVE  IInv'
<1>1. UNCHANGED <<documents, chunks, writes, settings, request, seen, steady,
                  lexical, vector, package>>
  BY DEF LegFails, corpus, history
<1>2. CorpusOK' /\ HistoryOK'
  BY <1>1, StillKeeps
<1>3. CASE LegFails("lexical", AfterLexical)
  <2>1. /\ stage = "lexical" /\ request.mode # "vector"
        /\ status' = [status EXCEPT !["lexical"] = "error"]
        /\ \/ stage' = "failed"
           \/ stage' = "vector" /\ request.mode # "lexical"
    BY <1>3 DEF LegFails, AfterLexical, Raise, IInv, FlowOK
  <2>2. status' \in [{"lexical", "vector"} -> {"skipped", "ok", "error"}]
        /\ status'["lexical"] = "error" /\ status'["vector"] = status["vector"]
    BY <2>1 DEF IInv, FlowOK
  <2>3. FlowOK'
    BY <1>1, <2>1, <2>2 DEF IInv, FlowOK
  <2>4. lexical' = <<>>
    BY <1>1, <2>1 DEF IInv, FlowOK, LegsOK, LegOK
  <2>5. LegOK(lexical, "lexical")'
    BY <2>2, <2>4, EmptyLeg DEF LegOK
  <2>6. LegOK(vector, "vector")'
    BY <1>1, <2>2, LegStays DEF IInv, LegsOK, LegOK
  <2>7. PackageOK'
    BY <1>1, <2>1 DEF IInv, PackageOK
  <2> QED BY <1>2, <2>3, <2>5, <2>6, <2>7 DEF IInv, LegsOK
<1>4. CASE LegFails("vector", "assemble")
  <2>1. /\ stage = "vector" /\ request.mode # "lexical"
        /\ status' = [status EXCEPT !["vector"] = "error"]
        /\ stage' \in {"failed", "assemble"}
    BY <1>4 DEF LegFails, Raise, IInv, FlowOK
  <2>2. status' \in [{"lexical", "vector"} -> {"skipped", "ok", "error"}]
        /\ status'["vector"] = "error" /\ status'["lexical"] = status["lexical"]
    BY <2>1 DEF IInv, FlowOK
  <2>3. FlowOK'
    BY <1>1, <2>1, <2>2 DEF IInv, FlowOK
  <2>4. vector' = <<>>
    BY <1>1, <2>1 DEF IInv, FlowOK, LegsOK, LegOK
  <2>5. LegOK(vector, "vector")'
    BY <2>2, <2>4, EmptyLeg DEF LegOK
  <2>6. LegOK(lexical, "lexical")'
    BY <1>1, <2>2, LegStays DEF IInv, LegsOK, LegOK
  <2>7. PackageOK'
    BY <1>1, <2>1 DEF IInv, PackageOK
  <2> QED BY <1>2, <2>3, <2>5, <2>6, <2>7 DEF IInv, LegsOK
<1> QED BY <1>3, <1>4

-------------------------------------------------------------------------------
(* The package *)

\* Whatever the strategy, the fused list has every hit of the legs once.
LEMMA FusedFacts ==
  ASSUME FlowOK, LegsOK, stage = "assemble", NEW fused \in Fused
  PROVE  LET all == ChunksIn(lexical) \union ChunksIn(vector)
         IN  /\ fused \in Seq(all)
             /\ \A i, j \in DOMAIN fused : fused[i] = fused[j] => i = j
             /\ \A c \in all : \E i \in DOMAIN fused : fused[i] = c
             /\ Len(fused) >= Len(lexical) /\ Len(fused) >= Len(vector)
<1>1. Hits(lexical) /\ Hits(vector)
  BY DEF LegsOK, LegOK
<1>2. CASE Strategy = "hybrid"
  BY <1>1, <1>2, FusionFacts DEF Fused
<1>3. CASE Strategy # "hybrid"
  <2>1. lexical = <<>> \/ vector = <<>>
    <3>1. CASE Degraded
      BY <3>1 DEF Degraded, Failed, LegsOK, LegOK
    <3>2. CASE ~ Degraded
      <4>1. request.mode # "hybrid"
        <5>1. Strategy = request.mode
          BY <3>2 DEF Strategy, Degraded
        <5> QED BY <1>3, <5>1
      <4>2. request.mode \in Mode
        BY RequestType DEF FlowOK
      <4> QED BY <4>1, <4>2 DEF Mode, FlowOK, LegsOK, LegOK
    <3> QED BY <3>1, <3>2
  <2>2. fused = Listed(lexical) \o Listed(vector)
    BY <1>3 DEF Fused
  <2>3. Listed(<<>>) = <<>>
    BY DEF Listed
  <2>4. Len(lexical) \in Nat /\ Len(vector) \in Nat
    BY <1>1, HitTypes
  <2>5. CASE lexical = <<>>
    <3>1. fused = Listed(vector) /\ ChunksIn(lexical) = {} /\ Len(lexical) = 0
      BY <1>1, <2>2, <2>3, <2>5, ListedFacts, EmptyLeg
    <3> QED BY <1>1, <2>4, <3>1, ListedFacts
  <2>6. CASE vector = <<>>
    <3>1. fused = Listed(lexical) /\ ChunksIn(vector) = {} /\ Len(vector) = 0
      BY <1>1, <2>2, <2>3, <2>6, ListedFacts, EmptyLeg
    <3> QED BY <1>1, <2>4, <3>1, ListedFacts
  <2> QED BY <2>1, <2>5, <2>6
<1> QED BY <1>2, <1>3

LEMMA TwoCuts ==
  ASSUME NEW k \in Nat, NEW m \in Nat, NEW n \in Nat
  PROVE  \/ Smaller(k, Smaller(m, n)) = Smaller(k, m)
         \/ Smaller(k, Smaller(m, n)) = n /\ n < k
BY DEF Smaller

\* What the two cuts keep of the fused list.
LEMMA KeptFacts ==
  ASSUME NEW S, NEW fused \in Seq(S), request \in Request,
         \A i, j \in DOMAIN fused : fused[i] = fused[j] => i = j
  PROVE  LET kept == FirstOf(FirstOf(fused, MaxRerankCandidates), request.top_k)
         IN  /\ kept \in Seq(S) /\ Len(kept) <= Limit[request]
             /\ \A i, j \in DOMAIN kept : kept[i] = kept[j] => i = j
             /\ \/ Len(kept) = Limit[request]
                \/ kept = fused /\ Len(fused) < request.top_k
<1> DEFINE few == FirstOf(fused, MaxRerankCandidates)
           kept == FirstOf(few, request.top_k)
<1>1. /\ request.top_k \in Nat /\ MaxRerankCandidates \in Nat
      /\ Limit[request] = Smaller(request.top_k, MaxRerankCandidates)
  BY RequestType, PipelineAssumption
<1>2. /\ few \in Seq(S) /\ Len(few) = Smaller(MaxRerankCandidates, Len(fused))
      /\ \A i \in 1 .. Len(few) : few[i] = fused[i]
  BY <1>1, FirstOfFacts
<1> HIDE DEF few
<1>3. /\ kept \in Seq(S) /\ Len(kept) = Smaller(request.top_k, Len(few))
      /\ \A i \in 1 .. Len(kept) : kept[i] = few[i]
  BY <1>1, <1>2, FirstOfFacts
<1> HIDE DEF kept
<1>4. /\ Len(fused) \in Nat /\ Len(few) \in Nat /\ Len(kept) \in Nat
      /\ Len(few) <= Len(fused) /\ Len(kept) <= Len(few)
      /\ DOMAIN fused = 1 .. Len(fused) /\ DOMAIN kept = 1 .. Len(kept)
  BY <1>1, <1>2, <1>3 DEF Smaller
<1>5. \A i \in 1 .. Len(kept) : kept[i] = fused[i] /\ i \in DOMAIN fused
  BY <1>2, <1>3, <1>4
<1>6. Len(kept) <= Limit[request]
  BY <1>1, <1>2, <1>3, <1>4 DEF Smaller
<1>7. Len(kept) = Limit[request] \/ (Len(kept) = Len(fused) /\ Len(fused) < request.top_k)
  BY <1>1, <1>2, <1>3, <1>4, TwoCuts
<1>8. Len(kept) = Len(fused) => kept = fused
  BY <1>3, <1>4, <1>5
<1>9. \A i, j \in DOMAIN kept : kept[i] = kept[j] => i = j
  BY <1>4, <1>5
<1> QED BY <1>3, <1>6, <1>7, <1>8, <1>9 DEF kept, few

\* If no leg failed and the exact one was not full, it has all that it was bound
\* to find throughout.
LEMMA LegsCover ==
  ASSUME HistoryOK, FlowOK, LegsOK, stage = "assemble", ~ Degraded,
         Len(lexical) < request.top_k
  PROVE  steady \subseteq ChunksIn(lexical) \union ChunksIn(vector)
<1>1. request \in Request /\ request.mode \in Mode /\ request.top_k \in Nat
  BY RequestType DEF FlowOK
<1>2. CASE request.mode = "vector"
  <2>1. steady = {}
    BY <1>1, <1>2, RequestType DEF HistoryOK, CertainNow, Certain
  <2> QED BY <2>1
<1>3. CASE request.mode # "vector"
  <2>1. status["lexical"] = "ok" /\ Len(lexical) \in Nat
    BY <1>1, <1>3, HitTypes DEF FlowOK, Degraded, Failed, Mode, LegsOK, LegOK
  <2> QED BY <1>1, <2>1 DEF LegsOK, LegOK
<1> QED BY <1>2, <1>3

LEMMA PackageIsRight ==
  ASSUME IInv, stage = "assemble", NEW fused \in Fused
  PROVE  LET p == Package(fused)
         IN  /\ Len(p.items) \in Nat /\ DOMAIN p.items = 1 .. Len(p.items)
             /\ Len(p.items) <= Limit[request]
             /\ \A i, j \in DOMAIN p.items : p.items[i].chunk = p.items[j].chunk => i = j
             /\ \A i \in DOMAIN p.items :
                  /\ p.items[i].chunk \in ChunksIn(lexical) \union ChunksIn(vector)
                  /\ p.items[i].sources = Sources(p.items[i].chunk)
             /\ p.degraded \in BOOLEAN
             /\ \/ p.degraded
                \/ Len(p.items) = Limit[request]
                \/ \A c \in steady : \E i \in DOMAIN p.items : p.items[i].chunk = c
<1> DEFINE all == ChunksIn(lexical) \union ChunksIn(vector)
           kept == FirstOf(FirstOf(fused, MaxRerankCandidates), request.top_k)
           items == [i \in DOMAIN kept |-> [chunk |-> kept[i], sources |-> Sources(kept[i])]]
<1>1. request \in Request /\ request.top_k \in Nat
  BY RequestType DEF IInv, FlowOK
<1>2. /\ fused \in Seq(all)
      /\ \A i, j \in DOMAIN fused : fused[i] = fused[j] => i = j
      /\ \A c \in all : \E i \in DOMAIN fused : fused[i] = c
      /\ Len(fused) >= Len(lexical) /\ Len(fused) >= Len(vector)
  BY FusedFacts DEF IInv
<1>3. ~ Degraded /\ Len(fused) < request.top_k => steady \subseteq all
  <2>1. Len(lexical) \in Nat /\ Len(vector) \in Nat /\ Len(fused) \in Nat
    BY <1>2, HitTypes DEF IInv, LegsOK, LegOK
  <2> QED BY <1>1, <1>2, <2>1, LegsCover DEF IInv
<1>4. Package(fused).items = items /\ Package(fused).degraded = Degraded
  BY DEF Package
<1> HIDE DEF all
<1>5. /\ kept \in Seq(all) /\ Len(kept) <= Limit[request]
      /\ \A i, j \in DOMAIN kept : kept[i] = kept[j] => i = j
      /\ \/ Len(kept) = Limit[request]
         \/ kept = fused /\ Len(fused) < request.top_k
  BY <1>1, <1>2, KeptFacts
<1> HIDE DEF kept
<1>6. /\ Len(kept) \in Nat /\ DOMAIN kept = 1 .. Len(kept)
      /\ \A i \in 1 .. Len(kept) : kept[i] \in all
  BY <1>5
<1>7. /\ DOMAIN items = 1 .. Len(kept) /\ Len(items) = Len(kept)
      /\ \A i \in 1 .. Len(kept) :
           items[i].chunk = kept[i] /\ items[i].sources = Sources(kept[i])
  BY <1>6
<1> HIDE DEF items
<1>8. \/ Degraded
      \/ Len(items) = Limit[request]
      \/ \A c \in steady : \E i \in DOMAIN items : items[i].chunk = c
  BY <1>2, <1>3, <1>5, <1>6, <1>7
<1>9. Degraded \in BOOLEAN
  BY DEF Degraded, Failed
<1> QED BY <1>4, <1>5, <1>6, <1>7, <1>8, <1>9 DEF all

\* What assembling leaves alone, and the two ways it can end.
LEMMA AssembleCases ==
  ASSUME Assemble
  PROVE  /\ stage = "assemble"
         /\ UNCHANGED <<documents, chunks, writes, settings, asks, request,
                        lexical, vector, status, runs, seen, steady>>
         /\ \/ stage' = "failed" /\ package' = package
            \/ /\ \E fused \in Fused : package' = Package(fused)
               /\ stage' = IF request.audited THEN "audit" ELSE "answered"
BY DEF Assemble, corpus, history, legs, Raise

LEMMA LegsStay ==
  ASSUME LegsOK, UNCHANGED <<settings, request, lexical, vector, status, seen, steady>>
  PROVE  LegsOK'
<1>1. LegOK(lexical, "lexical")'
  BY LegStays DEF LegsOK, LegOK
<1>2. LegOK(vector, "vector")'
  BY LegStays DEF LegsOK, LegOK
<1> QED BY <1>1, <1>2 DEF LegsOK

LEMMA AssembleKeeps ==
  ASSUME IInv, Assemble
  PROVE  IInv'
<1>1. /\ stage = "assemble"
      /\ UNCHANGED <<documents, chunks, writes, settings, request, lexical, vector,
                     status, seen, steady>>
  BY AssembleCases
<1>2. CorpusOK' /\ HistoryOK'
  BY <1>1, StillKeeps
<1>3. LegsOK'
  BY <1>1, LegsStay DEF IInv
<1>4. FlowOK'
  BY <1>1, AssembleCases DEF IInv, FlowOK
<1>5. PackageOK'
  <2>1. CASE stage' = "failed" /\ package' = package
    BY <1>1, <2>1 DEF IInv, PackageOK
  <2>2. CASE \E fused \in Fused :
               package' = Package(fused) /\ stage' \in {"audit", "answered"}
    <3>1. PICK fused \in Fused :
               package' = Package(fused) /\ stage' \in {"audit", "answered"}
      BY <2>2
    <3>2. request \in Request
      BY <1>1 DEF IInv, FlowOK
    <3>3. PackageFacts'
      BY <1>1, <3>1, <3>2, PackageIsRight DEF PackageFacts, Sources
    <3> QED BY <3>1, <3>3 DEF PackageOK
  <2> QED BY <2>1, <2>2, AssembleCases
<1> QED BY <1>2, <1>3, <1>4, <1>5 DEF IInv

LEMMA AuditKeeps ==
  ASSUME IInv, Audit \/ AuditFails
  PROVE  IInv'
<1>1. /\ stage = "audit" /\ stage' \in {"answered", "failed"}
      /\ UNCHANGED <<documents, chunks, writes, settings, request, lexical, vector,
                     status, package, seen, steady>>
  BY DEF Audit, AuditFails, Raise, corpus, legs, history
<1>2. CorpusOK' /\ HistoryOK'
  BY <1>1, StillKeeps
<1>3. LegsOK'
  BY <1>1, LegsStay DEF IInv
<1>4. FlowOK'
  BY <1>1 DEF IInv, FlowOK
<1>5. PackageOK'
  BY <1>1 DEF IInv, PackageOK, PackageFacts, Sources
<1> QED BY <1>2, <1>3, <1>4, <1>5 DEF IInv

LEMMA StutterKeeps ==
  ASSUME IInv, UNCHANGED vars
  PROVE  IInv'
<1>1. UNCHANGED <<documents, chunks, writes, settings, stage, request, lexical, vector,
                  status, package, seen, steady>>
  BY DEF vars
<1>2. CorpusOK' /\ HistoryOK'
  BY <1>1, StillKeeps
<1>3. LegsOK'
  BY <1>1, LegsStay DEF IInv
<1>4. FlowOK' /\ PackageOK'
  BY <1>1 DEF IInv, FlowOK, PackageOK, PackageFacts, Sources
<1> QED BY <1>2, <1>3, <1>4 DEF IInv

LEMMA NextKeeps ==
  ASSUME IInv, [Next]_vars
  PROVE  IInv'
<1>1. CASE Write
  BY <1>1, WriteKeeps
<1>2. CASE \E a \in Arguments : Ask(a)
  BY <1>2, AskKeeps
<1>3. CASE Step
  BY <1>3, SearchLexicalKeeps, SearchVectorKeeps, LegFailsKeeps, AssembleKeeps, AuditKeeps
     DEF Step
<1>4. CASE UNCHANGED vars
  BY <1>4, StutterKeeps
<1> QED BY <1>1, <1>2, <1>3, <1>4 DEF Next, Terminated

\* Every leg holds hits of one snapshot, and the package what fusion and the two
\* cuts keep of them: the inductive invariant of the pipeline.
THEOREM Invariance == Spec => []IInv
BY Initially, NextKeeps, PTL DEF Spec

\* A package that mixes two generations of a document has one from each leg.
THEOREM GenerationsSplit == Spec => []GenerationsSplitByLeg
<1>1. IInv => GenerationsSplitByLeg
  <2> SUFFICES ASSUME IInv, package # None,
                      NEW i \in DOMAIN package.items, NEW j \in DOMAIN package.items,
                      package.items[i].chunk.doc = package.items[j].chunk.doc,
                      package.items[i].chunk.writer # package.items[j].chunk.writer
               PROVE  package.items[i].sources \intersect package.items[j].sources = {}
    BY DEF GenerationsSplitByLeg
  <2>1. /\ package.items[i].sources = Sources(package.items[i].chunk)
        /\ package.items[j].sources = Sources(package.items[j].chunk)
    BY DEF IInv, PackageOK, PackageFacts
  <2>2. /\ \A c, d \in ChunksIn(lexical) : c.doc = d.doc => c.writer = d.writer
        /\ \A c, d \in ChunksIn(vector) : c.doc = d.doc => c.writer = d.writer
    BY DEF IInv, LegsOK, LegOK
  <2> QED BY <2>1, <2>2 DEF Sources
<1> QED BY <1>1, Invariance, PTL

\* With row-level security every chunk of a package is the asking tenant's.
THEOREM TenantsStayApart == Spec => []PoliciesSeparateTenants
<1>1. IInv => PoliciesSeparateTenants
  BY DEF IInv, PackageOK, PackageFacts, LegsOK, LegOK, PoliciesSeparateTenants
<1> QED BY <1>1, Invariance, PTL

-------------------------------------------------------------------------------
(* The promise *)

LEMMA MatchingType == IInv => MatchingNow \subseteq ChunkRow
<1>1. \A r : Matching(r, documents, chunks) \subseteq chunks
  BY DEF Matching, Matched, Visible
<1> QED BY <1>1 DEF IInv, CorpusOK, MatchingNow

\* What the promise asks of an answer.
AnswerOK ==
  /\ Given \in [items : SUBSET seen, degraded : BOOLEAN]
  /\ Cardinality(Given.items) <= Limit[request]
  /\ \/ Given.degraded
     \/ Cardinality(Given.items) = Limit[request]
     \/ steady \subseteq Given.items

LEMMA AnswerIsRight == IInv /\ stage = "answered" => AnswerOK
<1> SUFFICES ASSUME IInv, stage = "answered" PROVE AnswerOK
  OBVIOUS
<1> DEFINE n == Len(package.items)
           T == {package.items[i].chunk : i \in DOMAIN package.items}
           f == [i \in 1 .. n |-> package.items[i].chunk]
<1>1. PackageFacts
  BY DEF IInv, PackageOK
<1>2. Given = [items |-> T, degraded |-> package.degraded]
  BY DEF Given
<1>3. n \in Nat /\ DOMAIN package.items = 1 .. n
  BY <1>1 DEF PackageFacts
<1>4. /\ f \in [1 .. n -> T]
      /\ \A i, j \in 1 .. n : f[i] = f[j] => i = j
      /\ \A t \in T : \E i \in 1 .. n : f[i] = t
  BY <1>1, <1>3 DEF PackageFacts
<1>5. T \subseteq seen
  BY <1>1 DEF PackageFacts, IInv, LegsOK, LegOK
<1>6. /\ package.degraded \in BOOLEAN /\ n <= Limit[request]
      /\ package.degraded \/ n = Limit[request] \/ steady \subseteq T
  BY <1>1 DEF PackageFacts
<1> HIDE DEF n, T, f
<1>7. Cardinality(T) = n
  BY <1>3, <1>4, ListedOnce
<1>8. Given.items = T /\ Given.degraded = package.degraded
  BY <1>2
<1>9. Given \in [items : SUBSET seen, degraded : BOOLEAN]
  BY <1>2, <1>5, <1>6
<1> QED BY <1>6, <1>7, <1>8, <1>9 DEF AnswerOK

LEMMA InitKeepsPromise == Init => Promise!Unasked
BY DEF Init, Promise!Unasked, Phase, MatchingNow, CertainNow, Given

\* Another transaction changes the set of matching chunks.
LEMMA WriteIsChange ==
  ASSUME IInv, MatchingNow' \subseteq ChunkRow, Write
  PROVE  Promise!Change
<1>1. /\ UNCHANGED <<settings, stage, request, package>>
      /\ IF request = None THEN UNCHANGED <<seen, steady>>
         ELSE /\ seen' = seen \union Matching(request, documents', chunks')
              /\ steady' = steady \intersect Certain(request, documents', chunks')
  BY DEF Write, history
<1>2. /\ MatchingNow' = IF request = None THEN {}
                        ELSE Matching(request, documents', chunks')
      /\ CertainNow' = IF request = None THEN {}
                       ELSE Certain(request, documents', chunks')
      /\ CertainNow' \subseteq MatchingNow'
  BY <1>1, MatchingNext, CertainMatches
<1>3. request = None => steady = {}
  BY DEF IInv, HistoryOK, CertainNow
<1>4. seen' = seen \union MatchingNow' /\ steady' = steady \intersect CertainNow'
  BY <1>1, <1>2, <1>3
<1>5. Phase' = Phase /\ Given' = Given
  BY <1>1 DEF Phase, Given
<1> QED BY <1>1, <1>2, <1>4, <1>5 DEF Promise!Change

LEMMA AskIsAsk ==
  ASSUME MatchingNow' \subseteq ChunkRow, NEW a \in Arguments, Ask(a)
  PROVE  Promise!Ask \/ Promise!Refuse
<1>1. /\ UNCHANGED <<documents, chunks, settings>>
      /\ stage \in {"idle", "answered", "failed"} /\ stage' # "answered"
  BY DEF Ask, Over, corpus
<1>2. Phase \in {"idle", "answered", "failed"} /\ Given' = None
  BY <1>1 DEF Phase, Given
<1>3. CASE Valid(a)
  <2>1. /\ request' = Cleaned(a) /\ stage' \in {"vector", "lexical"}
        /\ seen' = Matching(request', documents, chunks)
        /\ steady' = Certain(request', documents, chunks)
    BY <1>3 DEF Ask
  <2>2. request' \in Request
    BY <1>3, <2>1 DEF Request
  <2>3. request' # None
    BY <2>2, RequestType
  <2>4. MatchingNow' = seen' /\ CertainNow' = steady'
    BY <1>1, <2>1, <2>3 DEF MatchingNow, CertainNow, Matching, Certain, Visible,
                            Matched, Score
  <2>6. CertainNow' \subseteq MatchingNow'
    BY <2>1, <2>4, CertainMatches
  <2>5. Phase' = "asked"
    BY <2>1 DEF Phase
  <2> QED BY <1>2, <2>2, <2>4, <2>5, <2>6 DEF Promise!Ask
<1>4. CASE ~ Valid(a)
  <2>1. request' = None /\ stage' = "failed" /\ seen' = {} /\ steady' = {}
    BY <1>4 DEF Ask
  <2>2. MatchingNow' = {} /\ CertainNow' = {} /\ Phase' = "failed"
    BY <2>1 DEF MatchingNow, CertainNow, Phase
  <2> QED BY <1>2, <2>1, <2>2 DEF Promise!Refuse
<1> QED BY <1>3, <1>4

\* The promise counts as this module does.
LEMMA SameCardinality ==
  ASSUME NEW S
  PROVE  Promise!Cardinality(S) = Cardinality(S)
BY DEF Promise!Cardinality, Cardinality

\* The steps of a retrieval are its answer, its failure, or no step at all.
LEMMA StepIsAnswer ==
  ASSUME stage' = "answered" => AnswerOK', Step
  PROVE  Promise!Answer \/ Promise!Fail \/ UNCHANGED Promise!pvars
<1>1. /\ UNCHANGED <<documents, chunks, settings, request, seen, steady>>
      /\ stage \in {"lexical", "vector", "assemble", "audit"}
      /\ stage' \in {"lexical", "vector", "assemble", "audit", "answered", "failed"}
  BY DEF Step, SearchLexical, SearchVector, LegFails, AfterLexical, Raise, Assemble,
         Audit, AuditFails, corpus, history
<1>2. MatchingNow' = MatchingNow /\ CertainNow' = CertainNow
  BY <1>1 DEF MatchingNow, CertainNow, Matching, Certain, Visible, Matched, Score
<1>3. Phase = "asked" /\ Given = None
  BY <1>1 DEF Phase, Given
<1>4. CASE stage' = "answered"
  <2>1. Phase' = "answered"
    BY <1>4 DEF Phase
  <2>2. AnswerOK' /\ request' = request /\ seen' = seen /\ steady' = steady
    BY <1>1, <1>4
  <2>3. /\ Given' \in [items : SUBSET seen, degraded : BOOLEAN]
        /\ Cardinality(Given'.items) <= Limit[request]
        /\ \/ Given'.degraded
           \/ Cardinality(Given'.items) = Limit[request]
           \/ steady \subseteq Given'.items
    BY <2>2, Zenon DEF AnswerOK
  <2>4. UNCHANGED <<request, MatchingNow, CertainNow, seen, steady>>
    BY <1>2, <2>2
  <2>5. Promise!Answer
    BY <1>3, <2>1, <2>3, <2>4, SameCardinality DEF Promise!Answer
  <2> QED BY <2>5
<1>5. CASE stage' = "failed"
  <2>1. Phase' = "failed" /\ Given' = None
    BY <1>5 DEF Phase, Given
  <2> QED BY <1>1, <1>2, <1>3, <2>1 DEF Promise!Fail
<1>6. CASE stage' \in {"lexical", "vector", "assemble", "audit"}
  <2>1. Phase' = "asked" /\ Given' = None
    BY <1>6 DEF Phase, Given
  <2> QED BY <1>1, <1>2, <1>3, <2>1 DEF Promise!pvars
<1> QED BY <1>1, <1>4, <1>5, <1>6

LEMMA IdleIsIdle ==
  ASSUME UNCHANGED vars
  PROVE  UNCHANGED Promise!pvars
BY DEF vars, Promise!pvars, Phase, MatchingNow, CertainNow, Matching, Certain, Visible,
       Matched, Score, Given

\* The pipeline with its two snapshots, its legs and its cuts implements the
\* promise of EvidenceRetrieval.
THEOREM PipelineKeepsPromise == Spec => KeepsPromise
<1>1. /\ (IInv => MatchingNow \subseteq ChunkRow)'
      /\ (IInv /\ stage = "answered" => AnswerOK)'
  BY MatchingType, AnswerIsRight, PTL
<1>2. IInv /\ IInv' /\ [Next]_vars => [Promise!PNext]_(Promise!pvars)
  <2> SUFFICES ASSUME IInv, IInv', [Next]_vars
               PROVE  Promise!PNext \/ UNCHANGED Promise!pvars
    OBVIOUS
  <2>1. MatchingNow' \subseteq ChunkRow /\ (stage' = "answered" => AnswerOK')
    BY <1>1
  <2>2. CASE Write
    BY <2>1, <2>2, WriteIsChange DEF Promise!PNext
  <2>3. CASE \E a \in Arguments : Ask(a)
    BY <2>1, <2>3, AskIsAsk DEF Promise!PNext
  <2>4. CASE Step
    BY <2>1, <2>4, StepIsAnswer DEF Promise!PNext
  <2>5. CASE UNCHANGED vars
    BY <2>5, IdleIsIdle
  <2> QED BY <2>2, <2>3, <2>4, <2>5 DEF Next, Terminated
<1> QED BY InitKeepsPromise, Invariance, <1>2, PTL DEF Spec, KeepsPromise, Promise!PSpec
===============================================================================
