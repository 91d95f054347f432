---------------------------- MODULE EvidencePackages ----------------------------
(***************************************************************************)
(* The evidence package and what its hashes bind                           *)
(* (src/src/knowledge_fabric/evidence/models.py).  SHA-256 and HMAC are    *)
(* taken as injective: a hash is the value it was computed of.  The code   *)
(* only makes packages; Genuine is what one who holds the key can check,   *)
(* computing every hash again as the tests do.                             *)
(***************************************************************************)
EXTENDS Naturals, Sequences

CONSTANTS NoTenant  \* the tenant None, which is hashed as the empty string

NoHash == << >>  \* the empty string where a hash is expected

ChunkHash(uri, snippet) == <<uri, snippet>>

\* Mutant: the digest is that of the set of hashes.
PackageDigest_Unordered(items) == { items[i].provenance_hash : i \in DOMAIN items }

\* The hashes are joined in the order of the items; no items, no digest.
PackageDigest(items) == [i \in DOMAIN items |-> items[i].provenance_hash]

TenantName(t) == IF t = NoTenant THEN "" ELSE t

QueryFingerprint(query, tenant, mode) == <<TenantName(tenant), query, mode>>

\* Without a key there is no signature.
PackageSignature(id, tenant, fingerprint, digest, time, key) ==
  IF key = "" THEN NoHash
  ELSE <<key, id, TenantName(tenant), fingerprint, digest, time>>

Item(hit) ==
  [chunk |-> hit.chunk, uri |-> hit.uri, snippet |-> hit.snippet, score |-> hit.score,
   provenance_hash |-> ChunkHash(hit.uri, hit.snippet)]

BuildEvidencePackage(query, hits, tenant, mode, id, time, key) ==
  LET items  == [i \in DOMAIN hits |-> Item(hits[i])]
      digest == PackageDigest(items)
      print  == QueryFingerprint(query, tenant, mode)
  IN  [query_text |-> query, tenant_id |-> tenant, mode |-> mode,
       retrieval_id |-> id, generated_at |-> time, items |-> items,
       provenance_digest |-> digest, query_fingerprint |-> print,
       package_signature |-> PackageSignature(id, tenant, print, digest, time, key)]

Genuine(p, key) ==
  /\ \A i \in DOMAIN p.items :
       p.items[i].provenance_hash = ChunkHash(p.items[i].uri, p.items[i].snippet)
  /\ p.provenance_digest = PackageDigest(p.items)
  /\ p.query_fingerprint = QueryFingerprint(p.query_text, p.tenant_id, p.mode)
  /\ p.package_signature = PackageSignature(p.retrieval_id, p.tenant_id,
                             p.query_fingerprint, p.provenance_digest,
                             p.generated_at, key)
===============================================================================
