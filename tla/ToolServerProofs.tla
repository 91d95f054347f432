---------------------------- MODULE ToolServerProofs ----------------------------
(***************************************************************************)
(* Proofs about ToolServer, for every corpus, every set of servers and     *)
(* every bound.                                                            *)
(***************************************************************************)
EXTENDS ToolServer, FiniteSetTheorems, WellFoundedInduction, TLAPS

\* Ids name documents: DocOf is the document that a chunk joins.
Ids == \A d, e \in documents : d.id = e.id => d = e

IInv == Ids /\ RepliesStayInTenant

LEMMA Joins ==
  ASSUME Ids, NEW t, NEW c \in Joined(t)
  PROVE  /\ c \in chunks /\ DocOf(c) \in documents /\ DocOf(c).id = c.doc
         /\ server.row_security => c.tenant = t /\ DocOf(c).tenant = t
<1>1. PICK d \in documents : d.id = c.doc /\ Policy(c, t) /\ Policy(d, t)
  BY DEF Joined
<1>2. DocOf(c) \in documents /\ DocOf(c).id = c.doc
  BY <1>1 DEF DocOf
<1>3. DocOf(c) = d
  BY <1>1, <1>2 DEF Ids
<1> QED BY <1>1, <1>2, <1>3 DEF Joined, Policy

\* An answer that has rows of its asker only.
LEMMA ScopedReply ==
  ASSUME NEW arg, NEW cs, RequireTenant(arg) \in Tenant,
         reply'.arg = arg, server' = server,
         \A d \in reply'.docs : d.tenant = RequireTenant(arg),
         reply'.chunks = { [chunk |-> c, owner |-> DocOf(c).tenant] : c \in cs },
         \A c \in cs : /\ RequireTenant(arg) \in {c.tenant, DocOf(c).tenant}
                       /\ server.row_security =>
                            c.tenant = RequireTenant(arg) /\ DocOf(c).tenant = RequireTenant(arg)
  PROVE  RepliesStayInTenant'
<1>1. Asker' = RequireTenant(arg)
  BY DEF Asker, RequireTenant
<1>2. \A x \in reply'.chunks : \E c \in cs : x.chunk = c /\ x.owner = DocOf(c).tenant
  OBVIOUS
<1> QED BY <1>1, <1>2 DEF RepliesStayInTenant

LEMMA DocumentsReply ==
  ASSUME NEW arg, RequireTenant(arg) \in Tenant,
         reply'.arg = arg, server' = server, reply'.chunks = {},
         \A d \in reply'.docs : d.tenant = RequireTenant(arg)
  PROVE  RepliesStayInTenant'
<1>1. Asker' = RequireTenant(arg)
  BY DEF Asker, RequireTenant
<1> QED BY <1>1 DEF RepliesStayInTenant

LEMMA WriteKeepsIds ==
  ASSUME Ids, Write
  PROVE  Ids'
<1>1. CASE \E t \in Tenant, v \in Version, d \in documents :
              Corpus!UpdateDocument(d, t, v, writes')
  BY <1>1 DEF Ids, Corpus!UpdateDocument
<1>2. CASE \E t \in Tenant, v \in Version, u \in Uri :
              Corpus!RegisterDocument(u, t, v, writes')
  BY <1>2 DEF Ids, Corpus!RegisterDocument
<1>3. CASE \E t \in Tenant, v \in Version, d \in documents :
              Corpus!ReplaceChunksOf(d.id, v, t, writes')
  BY <1>3 DEF Ids, Corpus!ReplaceChunksOf
<1>4. CASE \E d \in documents : Corpus!RemoveDocuments({d})
  BY <1>4 DEF Ids, Corpus!RemoveDocuments
<1> QED BY <1>1, <1>2, <1>3, <1>4 DEF Write

LEMMA Initially == Init => IInv
BY DEF Init, IInv, Ids, RepliesStayInTenant, Nothing, Corpus!AInit

LEMMA SaysKeepsIds ==
  ASSUME Ids, NEW answer, Says(answer)
  PROVE  Ids' /\ server' = server /\ reply' = answer
BY DEF Ids, Says

LEMMA NextKeeps ==
  ASSUME IInv, [Next]_vars
  PROVE  IInv'
<1> USE DEF IInv
<1>1. CASE Write
  <2>1. RepliesStayInTenant'
    BY <1>1 DEF Write, RepliesStayInTenant, Asker
  <2> QED BY <1>1, <2>1, WriteKeepsIds
<1>2. CASE Refuse
  <2>1. PICK arg : Says([tool |-> "refused", arg |-> arg])
    BY <1>2 DEF Refuse
  <2> QED BY <2>1, SaysKeepsIds DEF RepliesStayInTenant
<1>3. CASE HealthCheck
  <2>1. Ids' /\ reply'.tool = "health_check"
    BY <1>3 DEF HealthCheck, Says, Ids
  <2> QED BY <2>1 DEF RepliesStayInTenant
<1>4. CASE ListSources
  <2>1. PICK arg, f :
          /\ RequireTenant(arg) \in Tenant
          /\ Says(Answer("list_sources", arg, Docs(RequireTenant(arg)), {}, f))
    BY <1>4 DEF ListSources
  <2>3. /\ Ids' /\ server' = server
        /\ reply'.arg = arg /\ reply'.docs = Docs(RequireTenant(arg))
        /\ reply'.chunks = {}
    BY <2>1, SaysKeepsIds DEF Answer
  <2>4. \A d \in reply'.docs : d.tenant = RequireTenant(arg)
    BY <2>3 DEF Docs
  <2> QED BY <2>1, <2>3, <2>4, DocumentsReply
<1>5. CASE GetDocument
  <2>1. PICK arg, u :
          /\ RequireTenant(arg) \in Tenant
          /\ Says(Answer("get_document", arg,
                      { d \in Docs(RequireTenant(arg)) : d.uri = u }, {}, "document"))
    BY <1>5 DEF GetDocument
  <2>3. /\ Ids' /\ server' = server
        /\ reply'.arg = arg /\ reply'.docs = { d \in Docs(RequireTenant(arg)) : d.uri = u }
        /\ reply'.chunks = {}
    BY <2>1, SaysKeepsIds DEF Answer
  <2>4. \A d \in reply'.docs : d.tenant = RequireTenant(arg)
    BY <2>3 DEF Docs
  <2> QED BY <2>1, <2>3, <2>4, DocumentsReply
<1>6. CASE GetEvidence
  <2>1. PICK arg, found :
          /\ RequireTenant(arg) \in Tenant
          /\ found \subseteq { c \in Joined(RequireTenant(arg)) :
                                 \/ c.tenant = RequireTenant(arg)
                                 \/ DocOf(c).tenant = RequireTenant(arg) }
          /\ Says(Answer("get_evidence", arg, {}, found, "chunk"))
    BY <1>6 DEF GetEvidence
  <2>2. /\ Ids' /\ server' = server
        /\ reply'.arg = arg /\ reply'.docs = {}
        /\ reply'.chunks = { [chunk |-> c, owner |-> DocOf(c).tenant] : c \in found }
    BY <2>1, SaysKeepsIds DEF Answer
  <2>3. ASSUME NEW c \in found
        PROVE  /\ RequireTenant(arg) \in {c.tenant, DocOf(c).tenant}
               /\ server.row_security =>
                    c.tenant = RequireTenant(arg) /\ DocOf(c).tenant = RequireTenant(arg)
    BY <2>1, Joins
  <2> QED BY <2>1, <2>2, <2>3, ScopedReply
<1>7. CASE RetrieveEvidence
  <2>1. PICK arg, n, hits :
          /\ RequireTenant(arg) \in Tenant
          /\ hits \in [1 .. n -> { c \in Joined(RequireTenant(arg)) :
                                     DocOf(c).tenant = RequireTenant(arg) }]
          /\ Says(Answer("retrieve_evidence", arg, {}, { hits[i] : i \in 1 .. n },
                         PackageOf(hits, RequireTenant(arg))))
    BY <1>7 DEF RetrieveEvidence
  <2> DEFINE found == { hits[i] : i \in 1 .. n }
  <2>3. \A c \in found : c \in Joined(RequireTenant(arg)) /\ DocOf(c).tenant = RequireTenant(arg)
    BY <2>1
  <2> HIDE DEF found
  <2>4. /\ Ids' /\ server' = server
        /\ reply'.arg = arg /\ reply'.docs = {}
        /\ reply'.chunks = { [chunk |-> c, owner |-> DocOf(c).tenant] : c \in found }
    BY <2>1, SaysKeepsIds DEF Answer, found
  <2>5. ASSUME NEW c \in found
        PROVE  /\ RequireTenant(arg) \in {c.tenant, DocOf(c).tenant}
               /\ server.row_security =>
                    c.tenant = RequireTenant(arg) /\ DocOf(c).tenant = RequireTenant(arg)
    BY <2>3, Joins
  <2> QED BY <2>1, <2>4, <2>5, ScopedReply
<1>8. CASE CountDocuments \/ CountChunks \/ UNCHANGED vars
  <2>1. UNCHANGED <<documents, server, reply>>
    BY <1>8 DEF CountDocuments, CountChunks, vars
  <2> QED BY <2>1 DEF Ids, RepliesStayInTenant, Asker
<1>9. CASE BreakDown
  <2>1. UNCHANGED documents /\ reply'.tool = "get_index_status"
    BY <1>9 DEF BreakDown
  <2> QED BY <2>1 DEF Ids, RepliesStayInTenant
<1> QED BY <1>1, <1>2, <1>3, <1>4, <1>5, <1>6, <1>7, <1>8, <1>9 DEF Next

\* No tool hands out a row that is not its asker's, while documents move
\* between tenants and chunks follow later.
THEOREM RepliesStay == Spec => []RepliesStayInTenant
<1>1. IInv => RepliesStayInTenant
  BY DEF IInv
<1>2. IInv /\ [Next]_vars => IInv'
  BY NextKeeps
<1> QED BY Initially, <1>1, <1>2, PTL DEF Spec

-------------------------------------------------------------------------------
(* Signatures *)

\* A package whose keyless hashes are those of its content.
Consistent(p) ==
  /\ p.tenant_id \in Tenant
  /\ \A i \in DOMAIN p.items :
       p.items[i].provenance_hash = ChunkHash(p.items[i].uri, p.items[i].snippet)
  /\ p.provenance_digest = PackageDigest(p.items)
  /\ p.query_fingerprint = QueryFingerprint(p.query_text, p.tenant_id, p.mode)

LEMMA DigestIsContent ==
  ASSUME NEW p, Consistent(p)
  PROVE  p.provenance_digest = [i \in DOMAIN p.items |-> <<p.items[i].uri, p.items[i].snippet>>]
BY DEF Consistent, PackageDigest, ChunkHash

\* Two packages with one signature have one content.
LEMMA SignatureBinds ==
  ASSUME NEW p, NEW q, NEW key, Consistent(p), Consistent(q), Genuine(p, key),
         q.package_signature = p.package_signature
  PROVE  Genuine(q, key) <=> (key = "" \/ Content(q) = Content(p))
<1> DEFINE sign(r) == PackageSignature(r.retrieval_id, r.tenant_id, r.query_fingerprint,
                                       r.provenance_digest, r.generated_at, key)
<1>1. \A r : Consistent(r) => (Genuine(r, key) <=> r.package_signature = sign(r))
  BY DEF Consistent, Genuine
<1>2. Genuine(q, key) <=> sign(q) = sign(p)
  BY <1>1
<1>3. \A t \in Tenant : TenantName(t) = t
  BY ServerAssumption DEF TenantName
<1>4. ASSUME NEW r, Consistent(r)
      PROVE  /\ r.tenant_id \in Tenant
             /\ r.query_fingerprint = <<r.tenant_id, r.query_text, r.mode>>
             /\ Content(r) = <<r.query_text, r.tenant_id, r.mode, r.retrieval_id,
                              r.generated_at, r.provenance_digest>>
  BY <1>3, <1>4, DigestIsContent DEF Consistent, QueryFingerprint, Content
<1>5. CASE key = ""
  BY <1>2, <1>5 DEF PackageSignature
<1>6. CASE key # ""
  <2>1. ASSUME NEW r, Consistent(r)
        PROVE  sign(r) = <<key, r.retrieval_id, r.tenant_id, r.query_fingerprint,
                           r.provenance_digest, r.generated_at>>
    BY <1>3, <1>4, <1>6, <2>1 DEF PackageSignature
  <2> HIDE DEF sign
  <2>2. /\ sign(p) = <<key, p.retrieval_id, p.tenant_id, p.query_fingerprint,
                       p.provenance_digest, p.generated_at>>
        /\ sign(q) = <<key, q.retrieval_id, q.tenant_id, q.query_fingerprint,
                       q.provenance_digest, q.generated_at>>
    BY <2>1
  <2>3. sign(q) = sign(p) <=>
          /\ q.retrieval_id = p.retrieval_id /\ q.tenant_id = p.tenant_id
          /\ q.query_fingerprint = p.query_fingerprint
          /\ q.provenance_digest = p.provenance_digest /\ q.generated_at = p.generated_at
    BY <2>2
  <2>4. q.tenant_id = p.tenant_id =>
          (q.query_fingerprint = p.query_fingerprint <=>
             q.query_text = p.query_text /\ q.mode = p.mode)
    BY <1>4
  <2>5. Content(q) = Content(p) <=>
          /\ q.retrieval_id = p.retrieval_id /\ q.tenant_id = p.tenant_id
          /\ q.query_text = p.query_text /\ q.mode = p.mode
          /\ q.provenance_digest = p.provenance_digest /\ q.generated_at = p.generated_at
    BY <1>4
  <2> QED BY <1>2, <1>6, <2>3, <2>4, <2>5
<1> QED BY <1>5, <1>6

Fields == {"query_text", "tenant_id", "mode", "retrieval_id", "generated_at", "items",
           "provenance_digest", "query_fingerprint", "package_signature"}

\* Hashes made anew are those of the content.
LEMMA RehashedFacts ==
  ASSUME NEW p, p = [x \in Fields |-> p[x]], p.tenant_id \in Tenant,
         \A i \in DOMAIN p.items :
           p.items[i].provenance_hash = ChunkHash(p.items[i].uri, p.items[i].snippet)
  PROVE  /\ Consistent(Rehashed(p))
         /\ Rehashed(p).package_signature = p.package_signature
<1> DEFINE r == Rehashed(p)
<1>1. /\ r.provenance_digest = PackageDigest(p.items)
      /\ r.query_fingerprint = QueryFingerprint(p.query_text, p.tenant_id, p.mode)
      /\ r.items = p.items /\ r.tenant_id = p.tenant_id /\ r.query_text = p.query_text
      /\ r.mode = p.mode /\ r.package_signature = p.package_signature
  BY DEF Rehashed, Fields
<1> HIDE DEF r
<1> QED BY <1>1 DEF Consistent, r

\* A package as the server builds it: of some number of hits, for a tenant.
Built(p, key) ==
  /\ p = [x \in Fields |-> p[x]]
  /\ Consistent(p) /\ Genuine(p, key)
  /\ Len(p.items) \in Nat
  /\ p.items = [i \in 1 .. Len(p.items) |-> p.items[i]]
  /\ \A i \in 1 .. Len(p.items) :
       /\ DOMAIN p.items[i] = {"chunk", "uri", "snippet", "score", "provenance_hash"}
       /\ p.items[i] = [x \in DOMAIN p.items[i] |-> p.items[i][x]]

LEMMA BuiltFacts ==
  ASSUME NEW n \in Nat, NEW hits, NEW S, hits \in [1 .. n -> S], NEW t \in Tenant
  PROVE  Built(PackageOf(hits, t), server.key)
<1> DEFINE p == PackageOf(hits, t)
           items == [i \in 1 .. n |-> Item(Hit(hits[i]))]
<1>1. DOMAIN hits = 1 .. n
  OBVIOUS
<1>2. p = [query_text |-> "q", tenant_id |-> t, mode |-> "hybrid",
           retrieval_id |-> "id", generated_at |-> writes, items |-> items,
           provenance_digest |-> PackageDigest(items),
           query_fingerprint |-> QueryFingerprint("q", t, "hybrid"),
           package_signature |->
             PackageSignature("id", t, QueryFingerprint("q", t, "hybrid"),
                              PackageDigest(items), writes, server.key)]
  BY <1>1 DEF PackageOf, BuildEvidencePackage
<1>3. /\ Len(items) = n /\ DOMAIN items = 1 .. n
      /\ items = [i \in 1 .. n |-> items[i]]
  OBVIOUS
<1>4. ASSUME NEW i \in 1 .. n
      PROVE  /\ items[i].provenance_hash = ChunkHash(items[i].uri, items[i].snippet)
             /\ DOMAIN items[i] = {"chunk", "uri", "snippet", "score", "provenance_hash"}
             /\ items[i] = [x \in DOMAIN items[i] |-> items[i][x]]
  BY DEF Item
<1> HIDE DEF items, p
<1>5. p = [x \in Fields |-> p[x]]
  BY <1>2 DEF Fields
<1>6. Consistent(p)
  BY <1>2, <1>3, <1>4 DEF Consistent
<1>7. Genuine(p, server.key)
  BY <1>2, <1>3, <1>4 DEF Genuine
<1>8. Len(p.items) = n /\ p.items = items
  BY <1>2, <1>3
<1> QED BY <1>3, <1>4, <1>5, <1>6, <1>7, <1>8 DEF Built, p

\* Each alteration is consistent, and has the signature of the package.
LEMMA AlterationsFacts ==
  ASSUME NEW p, NEW key, Built(p, key), NEW q \in Alterations(p)
  PROVE  Consistent(q) /\ q.package_signature = p.package_signature
<1> DEFINE n == Len(p.items)
           hashed(items) == \A i \in DOMAIN items :
                              items[i].provenance_hash = ChunkHash(items[i].uri, items[i].snippet)
<1>1. /\ p = [x \in Fields |-> p[x]] /\ p.tenant_id \in Tenant /\ hashed(p.items)
      /\ n \in Nat /\ DOMAIN p.items = 1 .. n
  BY DEF Built, Consistent
<1>2. ASSUME NEW items, hashed(items), q = Rehashed([p EXCEPT !.items = items])
      PROVE  Consistent(q) /\ q.package_signature = p.package_signature
  <2> DEFINE r == [p EXCEPT !.items = items]
  <2>1. /\ r = [x \in Fields |-> r[x]] /\ r.items = items
        /\ r.tenant_id = p.tenant_id /\ r.package_signature = p.package_signature
    BY <1>1 DEF Fields
  <2> HIDE DEF r
  <2> QED BY <1>1, <1>2, <2>1, RehashedFacts DEF r
<1>3. CASE q \in Reordered(p)
  <2>1. PICK f \in [1 .. n -> 1 .. n] :
             q = Rehashed([p EXCEPT !.items = [i \in 1 .. n |-> p.items[f[i]]]])
    BY <1>3 DEF Reordered
  <2>2. hashed([i \in 1 .. n |-> p.items[f[i]]])
    BY <1>1
  <2> QED BY <2>1, <2>2, <1>2
<1>4. CASE q \in Cut(p)
  <2>1. PICK m \in 0 .. n : q = Rehashed([p EXCEPT !.items = SubSeq(p.items, 1, m)])
    BY <1>4 DEF Cut
  <2> DEFINE first == [i \in 1 .. m |-> p.items[i]]
  <2>2. SubSeq(p.items, 1, m) = first
    BY <1>1 DEF Built
  <2>4. DOMAIN first = 1 .. m /\ \A i \in 1 .. m : first[i] = p.items[i] /\ i \in 1 .. n
    BY <1>1
  <2> HIDE DEF first
  <2>5. hashed(first)
    BY <1>1, <2>4
  <2>3. hashed(SubSeq(p.items, 1, m))
    BY <2>2, <2>5
  <2> QED BY <2>1, <2>3, <1>2
<1>5. CASE q \in Reworded(p)
  <2>1. PICK i \in 1 .. n, v \in Version, u \in Uri :
             q = Rehashed([p EXCEPT !.items[i] = Resaid(p.items[i], <<v, 0>>, u)])
    <3>1. PICK x \in (1 .. n) \X Version \X Uri :
             q = Rehashed([p EXCEPT !.items[x[1]] = Resaid(p.items[x[1]], <<x[2], 0>>, x[3])])
      BY <1>5 DEF Reworded
    <3>2. x[1] \in 1 .. n /\ x[2] \in Version /\ x[3] \in Uri
      OBVIOUS
    <3> QED BY <3>1, <3>2
  <2> DEFINE new == [p.items EXCEPT ![i] = Resaid(p.items[i], <<v, 0>>, u)]
             said == Resaid(p.items[i], <<v, 0>>, u)
  <2>2. said.provenance_hash = ChunkHash(said.uri, said.snippet)
    BY <1>1 DEF Built, Resaid
  <2>3. hashed(new)
    <3> HIDE DEF said
    <3>1. new = [p.items EXCEPT ![i] = said]
      BY DEF said
    <3> HIDE DEF new
    <3> QED BY <1>1, <2>2, <3>1
  <2>4. [p EXCEPT !.items[i] = said] = [p EXCEPT !.items = new]
    OBVIOUS
  <2> QED BY <2>1, <2>3, <2>4, <1>2
<1>6. CASE q \in Renamed(p)
  <2>1. PICK t \in Tenant : q = Rehashed([p EXCEPT !.tenant_id = t])
    BY <1>6 DEF Renamed
  <2> DEFINE r == [p EXCEPT !.tenant_id = t]
  <2>2. /\ r = [x \in Fields |-> r[x]] /\ r.items = p.items
        /\ r.tenant_id = t /\ r.package_signature = p.package_signature
    BY <1>1 DEF Fields
  <2> HIDE DEF r
  <2> QED BY <1>1, <2>1, <2>2, RehashedFacts DEF r
<1>7. CASE q = Reasked(p)
  <2> DEFINE r == [p EXCEPT !.query_text = "r"]
  <2>2. /\ r = [x \in Fields |-> r[x]] /\ r.items = p.items
        /\ r.tenant_id = p.tenant_id /\ r.package_signature = p.package_signature
    BY <1>1 DEF Fields
  <2>3. q = Rehashed(r)
    BY <1>7 DEF Reasked
  <2> HIDE DEF r
  <2>4. \A i \in DOMAIN r.items :
          r.items[i].provenance_hash = ChunkHash(r.items[i].uri, r.items[i].snippet)
    BY <1>1, <2>2
  <2>5. r.tenant_id \in Tenant
    BY <1>1, <2>2
  <2> QED BY <2>2, <2>3, <2>4, <2>5, RehashedFacts
<1>8. CASE q = Redated(p)
  <2>1. /\ q.items = p.items /\ q.tenant_id = p.tenant_id /\ q.query_text = p.query_text
        /\ q.mode = p.mode /\ q.provenance_digest = p.provenance_digest
        /\ q.query_fingerprint = p.query_fingerprint
        /\ q.package_signature = p.package_signature
    BY <1>1, <1>8 DEF Fields, Redated
  <2>2. Consistent(p)
    BY DEF Built
  <2>3. Consistent(q)
    BY <2>1, <2>2 DEF Consistent
  <2> QED BY <2>1, <2>3
<1> QED BY <1>3, <1>4, <1>5, <1>6, <1>7, <1>8 DEF Alterations

\* The package that was handed out last.
PackageOK == reply.tool = "retrieve_evidence" => Built(reply.content, server.key)

LEMMA NextKeepsPackage ==
  ASSUME PackageOK, [Next]_vars
  PROVE  PackageOK'
<1>1. CASE Write \/ CountDocuments \/ CountChunks \/ UNCHANGED vars
  <2>1. UNCHANGED <<reply, server>>
    BY <1>1 DEF Write, CountDocuments, CountChunks, vars
  <2> QED BY <2>1 DEF PackageOK, Built, Genuine, Consistent
<1>2. CASE Refuse \/ HealthCheck \/ ListSources \/ GetDocument \/ GetEvidence \/ BreakDown
  <2>1. reply'.tool # "retrieve_evidence"
    <3>1. CASE Refuse \/ HealthCheck
      BY <3>1 DEF Refuse, HealthCheck, Says
    <3>2. CASE ListSources
      BY <3>2 DEF ListSources, Says, Answer
    <3>3. CASE GetDocument
      BY <3>3 DEF GetDocument, Says, Answer
    <3>4. CASE GetEvidence
      BY <3>4 DEF GetEvidence, Says, Answer
    <3>5. CASE BreakDown
      BY <3>5 DEF BreakDown
    <3> QED BY <1>2, <3>1, <3>2, <3>3, <3>4, <3>5
  <2> QED BY <2>1 DEF PackageOK
<1>3. CASE RetrieveEvidence
  <2>1. PICK arg \in Name :
          /\ RequireTenant(arg) \in Tenant
          /\ \E n \in 0 .. MaxItems :
             \E hits \in [1 .. n -> { c \in Joined(RequireTenant(arg)) :
                                         DocOf(c).tenant = RequireTenant(arg) }] :
               Says(Answer("retrieve_evidence", arg, {}, { hits[i] : i \in 1 .. n },
                           PackageOf(hits, RequireTenant(arg))))
    BY <1>3 DEF RetrieveEvidence
  <2>2. PICK n \in 0 .. MaxItems :
          \E hits \in [1 .. n -> { c \in Joined(RequireTenant(arg)) :
                                      DocOf(c).tenant = RequireTenant(arg) }] :
            Says(Answer("retrieve_evidence", arg, {}, { hits[i] : i \in 1 .. n },
                        PackageOf(hits, RequireTenant(arg))))
    BY <2>1
  <2>3. PICK hits \in [1 .. n -> { c \in Joined(RequireTenant(arg)) :
                                     DocOf(c).tenant = RequireTenant(arg) }] :
          Says(Answer("retrieve_evidence", arg, {}, { hits[i] : i \in 1 .. n },
                      PackageOf(hits, RequireTenant(arg))))
    BY <2>2
  <2>4. reply'.content = PackageOf(hits, RequireTenant(arg)) /\ server' = server
    BY <2>3 DEF Says, Answer
  <2>5. Built(PackageOf(hits, RequireTenant(arg)), server.key)
    <3>1. n \in Nat
      OBVIOUS
    <3> DEFINE S == { c \in Joined(RequireTenant(arg)) : DocOf(c).tenant = RequireTenant(arg) }
               t == RequireTenant(arg)
    <3>2. hits \in [1 .. n -> S] /\ t \in Tenant
      BY <2>1
    <3> HIDE DEF S, t
    <3>3. Built(PackageOf(hits, t), server.key)
      BY <3>1, <3>2, BuiltFacts
    <3> QED BY <3>3 DEF t
  <2>6. Built(reply'.content, server'.key)
    BY <2>4, <2>5
  <2> QED BY <2>6 DEF PackageOK
<1> QED BY <1>1, <1>2, <1>3 DEF Next

\* Whatever one without the key does to a signed package, only what says the
\* same in the same order passes for genuine.
THEOREM SignaturesHold == Spec => []SignaturesBind
<1>1. Init => PackageOK
  BY DEF Init, PackageOK, Nothing
<1>2. PackageOK /\ [Next]_vars => PackageOK'
  BY NextKeepsPackage
<1>3. PackageOK => SignaturesBind
  <2> SUFFICES ASSUME Built(reply.content, server.key)
               PROVE  /\ Genuine(reply.content, server.key)
                      /\ \A p \in Alterations(reply.content) :
                           Genuine(p, server.key) <=>
                             (server.key = "" \/ Content(p) = Content(reply.content))
    BY DEF PackageOK, SignaturesBind
  <2>1. Consistent(reply.content) /\ Genuine(reply.content, server.key)
    BY DEF Built
  <2>2. \A p \in Alterations(reply.content) :
          Consistent(p) /\ p.package_signature = reply.content.package_signature
    BY AlterationsFacts
  <2> QED BY <2>1, <2>2, SignatureBinds
<1> QED BY <1>1, <1>2, <1>3, PTL DEF Spec

-------------------------------------------------------------------------------
(* Sums of a breakdown *)

\* What a class counts, and the sum of the counts of classes, as StatusAddsUp
\* takes it: one pair for each that is counted.
Class(S, g, k) == { x \in S : g[x] = k }
Sizes(S, g, K) == [k \in K |-> Cardinality(Class(S, g, k))]
Units(f) == UNION { {k} \X (1 .. f[k]) : k \in DOMAIN f }
AddsUp(S, g, K) ==
  IsFiniteSet(Units(Sizes(S, g, K))) /\ Cardinality(Units(Sizes(S, g, K))) = Cardinality(S)

Less == { ss \in Nat \X Nat : ss[1] < ss[2] }

LEMMA LessIsWellFounded == IsWellFoundedOn(Less, Nat)
BY NatLessThanWellFounded, Zenon DEF OpToRel, Less

\* Every set of naturals that is not empty has a least element.
LEMMA LeastNat ==
  ASSUME NEW S \in SUBSET Nat, S # {}
  PROVE  \E x \in S : \A y \in S : x <= y
<1>1. \E x \in S : \A y \in S : <<y, x>> \notin Less
  BY WFMin, LessIsWellFounded, Zenon
<1>2. PICK x \in S : \A y \in S : <<y, x>> \notin Less
  BY <1>1, Zenon
<1>3. ASSUME NEW y \in S PROVE x <= y
  <2>1. <<y, x>> \notin Less
    BY <1>2
  <2> QED BY <2>1 DEF Less
<1> QED BY <1>3

\* One more to be counted, one more unit.
LEMMA OneMoreAddsUp ==
  ASSUME NEW S, IsFiniteSet(S), NEW x, x \notin S, NEW g, NEW K, g[x] \in K,
         AddsUp(S, g, K)
  PROVE  AddsUp(S \union {x}, g, K)
<1> DEFINE T == S \union {x}
           n == Cardinality(Class(S, g, g[x]))
<1>1. \A k : IsFiniteSet(Class(S, g, k)) /\ Cardinality(Class(S, g, k)) \in Nat
  <2> SUFFICES ASSUME NEW k
               PROVE  IsFiniteSet(Class(S, g, k)) /\ Cardinality(Class(S, g, k)) \in Nat
    OBVIOUS
  <2>1. Class(S, g, k) \in SUBSET S
    BY DEF Class
  <2>2. IsFiniteSet(Class(S, g, k))
    BY <2>1, FS_Subset
  <2> QED BY <2>2, FS_CardinalityType
<1>2. \A k : k # g[x] => Class(T, g, k) = Class(S, g, k)
  BY DEF Class
<1>3. Class(T, g, g[x]) = Class(S, g, g[x]) \union {x} /\ x \notin Class(S, g, g[x])
  BY DEF Class
<1>4. n \in Nat /\ Cardinality(Class(T, g, g[x])) = n + 1
  <2>1. Cardinality(Class(S, g, g[x]) \union {x}) = n + 1
    BY <1>1, <1>3, FS_AddElement
  <2> QED BY <1>1, <1>3, <2>1
<1>5. /\ DOMAIN Sizes(S, g, K) = K /\ DOMAIN Sizes(T, g, K) = K
      /\ \A k \in K : k # g[x] => Sizes(T, g, K)[k] = Sizes(S, g, K)[k]
      /\ Sizes(S, g, K)[g[x]] = n /\ Sizes(T, g, K)[g[x]] = n + 1
  BY <1>2, <1>4 DEF Sizes
<1> HIDE DEF T, n
<1>6. Units(Sizes(T, g, K)) = Units(Sizes(S, g, K)) \union {<<g[x], n + 1>>}
  <2> DEFINE a == Sizes(S, g, K)
             b == Sizes(T, g, K)
  <2>1. 1 .. n + 1 = (1 .. n) \union {n + 1}
    BY <1>4
  <2>2. /\ DOMAIN a = K /\ DOMAIN b = K /\ a[g[x]] = n /\ b[g[x]] = n + 1
        /\ \A k \in K : k # g[x] => b[k] = a[k]
    BY <1>5
  <2> HIDE DEF a, b
  <2>3. \A k \in K : {k} \X (1 .. b[k]) =
          IF k = g[x] THEN ({k} \X (1 .. a[k])) \union {<<g[x], n + 1>>}
          ELSE {k} \X (1 .. a[k])
    <3> SUFFICES ASSUME NEW k \in K
                 PROVE  {k} \X (1 .. b[k]) =
                          IF k = g[x] THEN ({k} \X (1 .. a[k])) \union {<<g[x], n + 1>>}
                          ELSE {k} \X (1 .. a[k])
      OBVIOUS
    <3>1. CASE k # g[x]
      BY <2>2, <3>1
    <3>2. CASE k = g[x]
      <4>1. a[k] = n /\ b[k] = n + 1
        BY <2>2, <3>2
      <4>2. {k} \X ((1 .. n) \union {n + 1}) = ({k} \X (1 .. n)) \union {<<k, n + 1>>}
        OBVIOUS
      <4> QED BY <2>1, <3>2, <4>1, <4>2
    <3> QED BY <3>1, <3>2
  <2>4. Units(b) = Units(a) \union {<<g[x], n + 1>>}
    BY <2>2, <2>3 DEF Units
  <2> QED BY <2>4 DEF a, b
<1>7. <<g[x], n + 1>> \notin Units(Sizes(S, g, K))
  <2> SUFFICES ASSUME NEW k \in K, <<g[x], n + 1>> \in {k} \X (1 .. Sizes(S, g, K)[k])
               PROVE  FALSE
    BY <1>5 DEF Units
  <2>1. k = g[x] /\ n + 1 \in 1 .. Sizes(S, g, K)[k]
    OBVIOUS
  <2> QED BY <1>4, <1>5, <2>1
<1>8. /\ IsFiniteSet(Units(Sizes(T, g, K)))
      /\ Cardinality(Units(Sizes(T, g, K))) = Cardinality(Units(Sizes(S, g, K))) + 1
  BY <1>6, <1>7, FS_AddElement DEF AddsUp
<1>9. Cardinality(T) = Cardinality(S) + 1
  BY FS_AddElement DEF T
<1> QED BY <1>8, <1>9 DEF AddsUp, T

\* The sizes of the classes of a set add up to its size: otherwise there would
\* be a smallest set for which they do not.
LEMMA ClassesAddUp ==
  ASSUME NEW S, IsFiniteSet(S), NEW g, NEW K, \A x \in S : g[x] \in K
  PROVE  AddsUp(S, g, K)
<1> DEFINE Bad == { n \in Nat : \E T \in SUBSET S : Cardinality(T) = n /\ ~ AddsUp(T, g, K) }
<1>1. Bad = {}
  <2> SUFFICES ASSUME Bad # {} PROVE FALSE
    OBVIOUS
  <2>0. Bad \in SUBSET Nat
    OBVIOUS
  <2> HIDE DEF Bad
  <2>1. PICK m \in Bad : \A y \in Bad : m <= y
    BY <2>0, LeastNat, Zenon
  <2> USE DEF Bad
  <2>2. PICK T \in SUBSET S : Cardinality(T) = m /\ ~ AddsUp(T, g, K)
    BY <2>1
  <2>3. IsFiniteSet(T)
    BY FS_Subset
  <2>4. T # {}
    <3>1. Units(Sizes({}, g, K)) = {}
      <4>1. \A k \in K : Sizes({}, g, K)[k] = 0
        <5>1. \A k : Class({}, g, k) = {}
          BY DEF Class
        <5> QED BY <5>1, FS_EmptySet DEF Sizes
      <4>2. DOMAIN Sizes({}, g, K) = K
        BY DEF Sizes
      <4> QED BY <4>1, <4>2 DEF Units
    <3>2. AddsUp({}, g, K)
      BY <3>1, FS_EmptySet DEF AddsUp
    <3> QED BY <2>2, <3>2
  <2>5. PICK x \in T : TRUE
    BY <2>4
  <2> DEFINE R == T \ {x}
  <2>6. R \in SUBSET S /\ x \notin R /\ T = R \union {x} /\ g[x] \in K
    OBVIOUS
  <2>7. IsFiniteSet(R) /\ Cardinality(R) = m - 1
    BY <2>2, <2>3, FS_RemoveElement
  <2>8. Cardinality(R) \in Nat
    BY <2>7, FS_CardinalityType
  <2>9. AddsUp(R, g, K)
    <3>1. ~ (m <= m - 1) /\ m - 1 \in Nat
      BY <2>7, <2>8
    <3>2. m - 1 \notin Bad
      BY <2>1, <3>1
    <3> QED BY <2>6, <2>7, <3>1, <3>2
  <2>10. AddsUp(R \union {x}, g, K)
    <3> HIDE DEF R
    <3> QED BY <2>6, <2>7, <2>9, OneMoreAddsUp
  <2> QED BY <2>2, <2>6, <2>10
<1>2. Cardinality(S) \in Nat /\ S \in SUBSET S
  BY FS_CardinalityType
<1> QED BY <1>1, <1>2

-------------------------------------------------------------------------------
(* The index status *)

CorpusOK ==
  /\ Ids /\ IsFiniteSet(documents) /\ IsFiniteSet(chunks)
  /\ \A c \in chunks : \E d \in documents : d.id = c.doc

ChunksOf(t) == { c \in chunks : c.tenant = t }

\* What a get_index_status under way has read, it has read of the corpus as it
\* is, or there was a transaction since.
ReadingOK ==
  reading # Nothing =>
    /\ DOMAIN reading = {"tool", "arg", "step", "since", "chunks", "documents"}
    /\ reading.step \in {"chunks", "sources"}
    /\ reading.since \in Nat /\ reading.since <= writes
    /\ reading.since = writes =>
         /\ reading.documents = Cardinality(Docs(RequireTenant(reading.arg)))
         /\ reading.step = "sources" =>
              reading.chunks = Cardinality(ChunksOf(RequireTenant(reading.arg)))

SinceOK == reply.tool = "get_index_status" => reply.since \in Nat /\ reply.since <= writes

SInv ==
  /\ CorpusOK /\ writes \in Nat /\ ReadingOK /\ StatusAddsUp
  /\ SinceOK

LEMMA AllPiecesFinite ==
  ASSUME NEW id, NEW v \in Version, NEW t, NEW w
  PROVE  IsFiniteSet(Corpus!AllPieces(id, v, t, w))
<1> DEFINE I == 0 .. ChunkCount[v] - 1
           f == [i \in I |-> [doc |-> id, index |-> i, version |-> v, tenant |-> t, writer |-> w]]
<1>1. ChunkCount[v] - 1 \in Int
  BY ServerAssumption
<1>2. IsFiniteSet(I)
  BY <1>1, FS_Interval
<1>3. f \in Surjection(I, Corpus!AllPieces(id, v, t, w))
  BY DEF Surjection, Corpus!AllPieces
<1> QED BY <1>2, <1>3, FS_Surjection

LEMMA WriteKeepsCorpus ==
  ASSUME CorpusOK, Write
  PROVE  CorpusOK'
<1>0. Ids'
  BY WriteKeepsIds DEF CorpusOK
<1>1. CASE \E t \in Tenant, v \in Version, d \in documents :
              Corpus!UpdateDocument(d, t, v, writes')
  <2>0. PICK t \in Tenant, v \in Version, d \in documents :
          Corpus!UpdateDocument(d, t, v, writes')
    BY <1>1
  <2> DEFINE e == [id |-> d.id, uri |-> d.uri, tenant |-> t, version |-> v, writer |-> writes']
  <2>1. documents' = (documents \ {d}) \union {e} /\ e.id = d.id /\ chunks' = chunks
    BY <2>0 DEF Corpus!UpdateDocument
  <2> HIDE DEF e
  <2>2. IsFiniteSet(documents \ {d})
    BY FS_RemoveElement DEF CorpusOK
  <2>3. IsFiniteSet(documents')
    BY <2>1, <2>2, FS_AddElement
  <2> QED BY <1>0, <2>1, <2>3 DEF CorpusOK
<1>2. CASE \E t \in Tenant, v \in Version, u \in Uri :
              Corpus!RegisterDocument(u, t, v, writes')
  <2>1. PICK e : documents' = documents \union {e} /\ chunks' = chunks
    BY <1>2 DEF Corpus!RegisterDocument
  <2>2. IsFiniteSet(documents')
    BY <2>1, FS_AddElement DEF CorpusOK
  <2> QED BY <1>0, <2>1, <2>2 DEF CorpusOK
<1>3. CASE \E t \in Tenant, v \in Version, d \in documents :
              Corpus!ReplaceChunksOf(d.id, v, t, writes')
  <2>1. PICK t \in Tenant, v \in Version, d \in documents :
          Corpus!ReplaceChunksOf(d.id, v, t, writes')
    BY <1>3
  <2> DEFINE old == { c \in chunks : c.doc # d.id }
             new == Corpus!AllPieces(d.id, v, t, writes')
  <2>2. chunks' = old \union new /\ documents' = documents
    BY <2>1 DEF Corpus!ReplaceChunksOf
  <2>3. \A c \in new : c.doc = d.id
    BY DEF Corpus!AllPieces
  <2>4. IsFiniteSet(new)
    BY AllPiecesFinite
  <2> HIDE DEF new
  <2>5. IsFiniteSet(old)
    BY FS_Subset DEF CorpusOK
  <2>6. IsFiniteSet(chunks')
    BY <2>2, <2>4, <2>5, FS_Union
  <2> QED BY <1>0, <2>2, <2>3, <2>6 DEF CorpusOK
<1>4. CASE \E d \in documents : Corpus!RemoveDocuments({d})
  <2>1. PICK d \in documents : /\ documents' = documents \ {d}
                               /\ chunks' = { c \in chunks : c.doc # d.id }
    BY <1>4 DEF Corpus!RemoveDocuments
  <2>2. IsFiniteSet(documents') /\ IsFiniteSet(chunks')
    BY <2>1, FS_Subset DEF CorpusOK
  <2> QED BY <1>0, <2>1, <2>2 DEF CorpusOK
<1> QED BY <1>1, <1>2, <1>3, <1>4 DEF Write

\* The breakdown adds up to the documents, ...
LEMMA DocumentsAddUp ==
  ASSUME CorpusOK, NEW t
  PROVE  LET r == Breakdown(t)
         IN  Cardinality(Units([k \in DOMAIN r |-> r[k].documents])) = Cardinality(Docs(t))
<1> DEFINE K == { SourceTypeOf[d.uri] : d \in Docs(t) }
           g == [d \in Docs(t) |-> SourceTypeOf[d.uri]]
           f == [k \in K |-> Cardinality({ d \in Docs(t) : SourceTypeOf[d.uri] = k })]
<1>1. IsFiniteSet(Docs(t))
  BY FS_Subset DEF CorpusOK, Docs
<1>2. \A k : Class(Docs(t), g, k) = { d \in Docs(t) : SourceTypeOf[d.uri] = k }
  BY DEF Class
<1>3. f = Sizes(Docs(t), g, K)
  BY <1>2 DEF Sizes
<1>4. \A d \in Docs(t) : g[d] \in K
  OBVIOUS
<1>5. DOMAIN Breakdown(t) = K /\ \A k \in K : Breakdown(t)[k].documents = f[k]
  BY DEF Breakdown
<1> HIDE DEF f, g, K
<1>6. AddsUp(Docs(t), g, K)
  BY <1>1, <1>4, ClassesAddUp
<1>7. [k \in DOMAIN Breakdown(t) |-> Breakdown(t)[k].documents] = f
  BY <1>3, <1>5 DEF Sizes
<1> QED BY <1>3, <1>6, <1>7 DEF AddsUp

\* ... and to the chunks, when each has its document's tenant.
LEMMA ChunksAddUp ==
  ASSUME CorpusOK, NEW t,
         \A c \in chunks, d \in documents : c.doc = d.id => c.tenant = d.tenant
  PROVE  LET r == Breakdown(t)
         IN  Cardinality(Units([k \in DOMAIN r |-> r[k].chunks])) = Cardinality(ChunksOf(t))
<1> DEFINE K == { SourceTypeOf[d.uri] : d \in Docs(t) }
           g == [c \in ChunksOf(t) |-> SourceTypeOf[DocOf(c).uri]]
           counted(k) == { c \in chunks : \E d \in Docs(t) :
                             c.doc = d.id /\ SourceTypeOf[d.uri] = k /\ Policy(c, t) }
           f == [k \in K |-> Cardinality(counted(k))]
<1>1. IsFiniteSet(ChunksOf(t))
  BY FS_Subset DEF CorpusOK, ChunksOf
<1>2. \A c \in chunks : DocOf(c) \in documents /\ DocOf(c).id = c.doc
  BY DEF CorpusOK, DocOf
<1>3. \A c \in ChunksOf(t) : DocOf(c) \in Docs(t)
  BY <1>2 DEF ChunksOf, Docs
<1>4. \A c \in chunks, d \in documents : c.doc = d.id => DocOf(c) = d
  BY <1>2 DEF CorpusOK, Ids
<1>5. \A k : Class(ChunksOf(t), g, k) = counted(k)
  <2> SUFFICES ASSUME NEW k, NEW c
               PROVE  c \in Class(ChunksOf(t), g, k) <=> c \in counted(k)
    OBVIOUS
  <2>1. ASSUME c \in counted(k) PROVE c \in Class(ChunksOf(t), g, k)
    <3>1. PICK d \in Docs(t) : c.doc = d.id /\ SourceTypeOf[d.uri] = k
      BY <2>1
    <3>2. c \in ChunksOf(t) /\ DocOf(c) = d
      BY <1>4, <2>1, <3>1 DEF ChunksOf, Docs
    <3> QED BY <3>1, <3>2 DEF Class
  <2>2. ASSUME c \in Class(ChunksOf(t), g, k) PROVE c \in counted(k)
    <3>1. /\ c \in chunks /\ c.tenant = t /\ DocOf(c) \in Docs(t) /\ c.doc = DocOf(c).id
          /\ SourceTypeOf[DocOf(c).uri] = k
      BY <1>2, <1>3, <2>2 DEF Class, ChunksOf
    <3> QED BY <3>1 DEF Policy
  <2> QED BY <2>1, <2>2
<1>6. f = Sizes(ChunksOf(t), g, K)
  BY <1>5 DEF Sizes
<1>7. \A c \in ChunksOf(t) : g[c] \in K
  BY <1>3
<1>8. DOMAIN Breakdown(t) = K /\ \A k \in K : Breakdown(t)[k].chunks = f[k]
  BY DEF Breakdown
<1> HIDE DEF f, g, K
<1>9. AddsUp(ChunksOf(t), g, K)
  BY <1>1, <1>7, ClassesAddUp
<1>10. [k \in DOMAIN Breakdown(t) |-> Breakdown(t)[k].chunks] = f
  BY <1>6, <1>8 DEF Sizes
<1> QED BY <1>6, <1>9, <1>10 DEF AddsUp

LEMMA BreakDownAddsUp ==
  ASSUME SInv, BreakDown
  PROVE  StatusAddsUp'
<1> DEFINE t == RequireTenant(reading.arg)
<1>1. /\ UNCHANGED <<documents, chunks, writes, server>>
      /\ reply'.since = reading.since /\ reply'.total_documents = reading.documents
      /\ reply'.total_chunks = reading.chunks /\ reply'.sources = Breakdown(t)
      /\ reading # Nothing /\ reading.step = "sources"
  BY DEF BreakDown, Idle
<1>2. CorpusOK /\ ReadingOK
  BY DEF SInv
<1> HIDE DEF t
<1> SUFFICES ASSUME reading.since = writes
             PROVE  LET r == Breakdown(t)
                    IN  /\ reading.documents = Cardinality(Units([k \in DOMAIN r |-> r[k].documents]))
                        /\ (\A c \in chunks, d \in documents : c.doc = d.id => c.tenant = d.tenant)
                           => reading.chunks = Cardinality(Units([k \in DOMAIN r |-> r[k].chunks]))
  BY <1>1 DEF StatusAddsUp, Units
<1>3. reading.documents = Cardinality(Docs(t)) /\ reading.chunks = Cardinality(ChunksOf(t))
  BY <1>1, <1>2 DEF ReadingOK, t
<1> QED BY <1>2, <1>3, DocumentsAddUp, ChunksAddUp

LEMMA OtherReplies ==
  ASSUME Refuse \/ HealthCheck \/ ListSources \/ GetDocument \/ GetEvidence \/ RetrieveEvidence
  PROVE  /\ reply'.tool # "get_index_status"
         /\ UNCHANGED <<documents, chunks, writes, server, reading>>
<1>1. CASE Refuse \/ HealthCheck
  BY <1>1 DEF Refuse, HealthCheck, Says
<1>2. CASE ListSources
  BY <1>2 DEF ListSources, Says, Answer
<1>3. CASE GetDocument
  BY <1>3 DEF GetDocument, Says, Answer
<1>4. CASE GetEvidence
  BY <1>4 DEF GetEvidence, Says, Answer
<1>5. CASE RetrieveEvidence
  BY <1>5 DEF RetrieveEvidence, Says, Answer
<1> QED BY <1>1, <1>2, <1>3, <1>4, <1>5

LEMMA NextKeepsSums ==
  ASSUME SInv, [Next]_vars
  PROVE  SInv'
<1>1. CASE Write
  <2>1. writes' = writes + 1 /\ UNCHANGED <<server, reading, reply>>
    BY <1>1 DEF Write
  <2>2. CorpusOK' /\ writes' \in Nat
    BY <1>1, <2>1, WriteKeepsCorpus DEF SInv
  <2>3. ReadingOK'
    BY <2>1 DEF SInv, ReadingOK
  <2>4. StatusAddsUp' /\ SinceOK'
    <3>1. reply.tool = "get_index_status" =>
            reply.since \in Nat /\ reply.since <= writes' /\ reply.since # writes'
      BY <2>1 DEF SInv, SinceOK
    <3>2. StatusAddsUp'
      BY <2>1, <3>1 DEF StatusAddsUp
    <3> QED BY <2>1, <3>1, <3>2 DEF SinceOK
  <2> QED BY <2>2, <2>3, <2>4 DEF SInv
<1>2. CASE Refuse \/ HealthCheck \/ ListSources \/ GetDocument \/ GetEvidence \/ RetrieveEvidence
  <2>1. /\ reply'.tool # "get_index_status"
        /\ UNCHANGED <<documents, chunks, writes, server, reading>>
    BY <1>2, OtherReplies
  <2>2. CorpusOK' /\ ReadingOK'
    BY <2>1 DEF SInv, CorpusOK, Ids, ReadingOK, Docs, ChunksOf, RequireTenant
  <2> QED BY <2>1, <2>2 DEF SInv, StatusAddsUp, SinceOK
<1>3. CASE CountDocuments \/ CountChunks
  <2>1. UNCHANGED <<documents, chunks, writes, server, reply>>
    BY <1>3 DEF CountDocuments, CountChunks
  <2>2. CorpusOK' /\ StatusAddsUp' /\ SinceOK'
    BY <2>1 DEF SInv, CorpusOK, Ids, StatusAddsUp, SinceOK
  <2>3. CASE CountDocuments
    <3>1. PICK arg \in Name :
            reading' = [tool |-> "get_index_status", arg |-> arg, step |-> "chunks",
                        since |-> writes, chunks |-> 0,
                        documents |-> Cardinality(Docs(RequireTenant(arg)))]
      BY <2>3 DEF CountDocuments
    <3>2. /\ DOMAIN reading' = {"tool", "arg", "step", "since", "chunks", "documents"}
          /\ reading'.arg = arg /\ reading'.step = "chunks" /\ reading'.since = writes
          /\ reading'.documents = Cardinality(Docs(RequireTenant(arg)))
      BY <3>1
    <3>3. Docs(RequireTenant(arg))' = Docs(RequireTenant(arg)) /\ writes \in Nat
      BY <2>1 DEF Docs, RequireTenant, SInv
    <3>4. ReadingOK'
      BY <2>1, <3>2, <3>3 DEF ReadingOK, Docs, RequireTenant
    <3> QED BY <2>1, <2>2, <3>4 DEF SInv
  <2>4. CASE CountChunks
    <3>1. /\ reading # Nothing
          /\ reading' = [reading EXCEPT !.step = "sources",
                           !.chunks = Cardinality(ChunksOf(RequireTenant(reading.arg)))]
      BY <2>4 DEF CountChunks, ChunksOf, Idle
    <3>2. ReadingOK
      BY DEF SInv
    <3>3. /\ DOMAIN reading' = {"tool", "arg", "step", "since", "chunks", "documents"}
          /\ reading'.arg = reading.arg /\ reading'.step = "sources"
          /\ reading'.since = reading.since /\ reading'.documents = reading.documents
          /\ reading'.chunks = Cardinality(ChunksOf(RequireTenant(reading.arg)))
      BY <3>1, <3>2 DEF ReadingOK
    <3>4. ReadingOK'
      BY <2>1, <3>1, <3>2, <3>3 DEF ReadingOK, Docs, ChunksOf, RequireTenant
    <3> QED BY <2>1, <2>2, <3>4 DEF SInv
  <2> QED BY <1>3, <2>3, <2>4
<1>4. CASE BreakDown
  <2>1. /\ UNCHANGED <<documents, chunks, writes, server>> /\ reading' = Nothing
        /\ reply'.since = reading.since /\ reading # Nothing
    BY <1>4 DEF BreakDown, Idle
  <2>2. CorpusOK' /\ ReadingOK' /\ SinceOK'
    BY <2>1 DEF SInv, CorpusOK, Ids, ReadingOK, SinceOK
  <2> QED BY <1>4, <2>1, <2>2, BreakDownAddsUp DEF SInv
<1>5. CASE UNCHANGED vars
  BY <1>5 DEF vars, SInv, CorpusOK, Ids, ReadingOK, Docs, ChunksOf, RequireTenant, StatusAddsUp,
               SinceOK
<1> QED BY <1>1, <1>2, <1>3, <1>4, <1>5 DEF Next

\* The totals of get_index_status are the sums of its breakdown, for any corpus
\* and any tenant, unless another process has written in between.
THEOREM StatusesAddUp == Spec => []StatusAddsUp
<1>1. Init => SInv
  BY FS_EmptySet DEF Init, SInv, CorpusOK, Ids, ReadingOK, StatusAddsUp, SinceOK,
                      Nothing, Corpus!AInit
<1>2. SInv /\ [Next]_vars => SInv'
  BY NextKeepsSums
<1>3. SInv => StatusAddsUp
  BY DEF SInv
<1> QED BY <1>1, <1>2, <1>3, PTL DEF Spec
===============================================================================
