--------------------------- MODULE EvidenceRetrieval ---------------------------
(***************************************************************************)
(* What a retrieval promises its caller, whatever the store does meanwhile *)
(* and whichever leg fails.  It reads no snapshot, so the promise relates  *)
(* the answer to the whole time between question and answer:               *)
(*   - every item was among the matching chunks at some moment of it;      *)
(*   - an answer that is not called degraded is full, or holds all chunks  *)
(*     that it was bound to find throughout.                               *)
(* The module knows nothing of legs, ranks or SQL: `matching` is the set   *)
(* of chunks that match the current request, `certain` that of those which *)
(* a search is bound to find (an approximate one is bound to nothing), and *)
(* both may change at any time.                                            *)
(***************************************************************************)
EXTENDS Naturals, FiniteSets

CONSTANTS
  Chunk,
  Request,
  Limit,   \* [Request -> Nat]: how many items a request is answered with at most
  None

VARIABLES phase, request, matching, certain, seen, steady, answer

pvars == <<phase, request, matching, certain, seen, steady, answer>>

Unasked ==
  /\ phase = "idle"
  /\ request = None
  /\ matching = {} /\ certain = {} /\ seen = {} /\ steady = {}
  /\ answer = None

Ask ==
  /\ phase \in {"idle", "answered", "failed"}
  /\ phase' = "asked"
  /\ request' \in Request
  /\ matching' \in SUBSET Chunk
  /\ certain' \in SUBSET matching'
  /\ seen' = matching' /\ steady' = certain'
  /\ answer' = None

\* A request that is not one: it is refused before anything is read.
Refuse ==
  /\ phase \in {"idle", "answered", "failed"}
  /\ phase' = "failed"
  /\ request' = None
  /\ matching' = {} /\ certain' = {} /\ seen' = {} /\ steady' = {}
  /\ answer' = None

\* Documents are ingested, moved and deleted while the retrieval runs.
Change ==
  /\ matching' \in SUBSET Chunk
  /\ certain' \in SUBSET matching'
  /\ seen' = seen \union matching'
  /\ steady' = steady \intersect certain'
  /\ UNCHANGED <<phase, request, answer>>

Answer ==
  /\ phase = "asked"
  /\ phase' = "answered"
  /\ answer' \in [items : SUBSET seen, degraded : BOOLEAN]
  /\ Cardinality(answer'.items) <= Limit[request]
  /\ \/ answer'.degraded
     \/ Cardinality(answer'.items) = Limit[request]
     \/ steady \subseteq answer'.items
  /\ UNCHANGED <<request, matching, certain, seen, steady>>

Fail ==
  /\ phase = "asked"
  /\ phase' = "failed"
  /\ UNCHANGED <<request, matching, certain, seen, steady, answer>>

PNext == Ask \/ Refuse \/ Change \/ Answer \/ Fail

PSpec == Unasked /\ [][PNext]_pvars
===============================================================================
