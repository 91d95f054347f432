-------------------------- MODULE PolicyGatewayProofs --------------------------
(***************************************************************************)
(* Proofs about PolicyGateway: for every set of roles, tenants, tools,     *)
(* bundles, dicts and evidence and any number of calls, the order in which *)
(* evaluate tries its rules decides what the Cedar bundle decides, and     *)
(* nothing else reaches the executor; claims are true of the call they     *)
(* were signed for, and the audit accepts nothing but a prefix of what was *)
(* returned.                                                               *)
(***************************************************************************)
EXTENDS PolicyGateway, SequenceTheorems, TLAPS

-------------------------------------------------------------------------------
(* The decision *)

\* The rule that is matched is the first in the order that applies; there is one,
\* for default_deny always does.
LEMMA FirstRule ==
  ASSUME NEW q
  PROVE  \E i \in 1 .. 7 :
           /\ MatchedRule(q) = Order[i]
           /\ Applies(q)[Order[i]]
           /\ \A j \in 1 .. (i - 1) : ~ Applies(q)[Order[j]]
<1> DEFINE Hit(i) == Applies(q)[Order[i]]
           First(i) == Hit(i) /\ \A j \in 1 .. (i - 1) : ~ Hit(j)
<1>1. Hit(7)
  BY DEF Order, Applies
<1>2. \E i \in 1 .. 7 : First(i)
  <2> HIDE DEF Hit
  <2>1. CASE Hit(1)
    BY <2>1, 1 \in 1 .. 7
  <2>2. CASE ~ Hit(1) /\ Hit(2)
    BY <2>2, \A j \in 1 .. (2 - 1) : j = 1
  <2>3. CASE ~ Hit(1) /\ ~ Hit(2) /\ Hit(3)
    BY <2>3, \A j \in 1 .. (3 - 1) : j \in {1, 2}
  <2>4. CASE ~ Hit(1) /\ ~ Hit(2) /\ ~ Hit(3) /\ Hit(4)
    BY <2>4, \A j \in 1 .. (4 - 1) : j \in {1, 2, 3}
  <2>5. CASE ~ Hit(1) /\ ~ Hit(2) /\ ~ Hit(3) /\ ~ Hit(4) /\ Hit(5)
    BY <2>5, \A j \in 1 .. (5 - 1) : j \in {1, 2, 3, 4}
  <2>6. CASE ~ Hit(1) /\ ~ Hit(2) /\ ~ Hit(3) /\ ~ Hit(4) /\ ~ Hit(5) /\ Hit(6)
    BY <2>6, \A j \in 1 .. (6 - 1) : j \in {1, 2, 3, 4, 5}
  <2>7. CASE ~ Hit(1) /\ ~ Hit(2) /\ ~ Hit(3) /\ ~ Hit(4) /\ ~ Hit(5) /\ ~ Hit(6)
    BY <2>7, <1>1, \A j \in 1 .. (7 - 1) : j \in {1, 2, 3, 4, 5, 6}
  <2> QED BY <2>1, <2>2, <2>3, <2>4, <2>5, <2>6, <2>7
<1>3. MatchedRule(q) = Order[CHOOSE i \in 1 .. 7 : First(i)]
  BY DEF MatchedRule
<1> HIDE DEF First
<1>4. PICK i \in 1 .. 7 : i = (CHOOSE k \in 1 .. 7 : First(k)) /\ First(i)
  BY <1>2
<1> QED BY <1>3, <1>4 DEF First

\* evaluate permits what the Cedar bundle permits and no rule of it forbids.
THEOREM EvaluateIsCedar ==
  ASSUME NEW q
  PROVE  Evaluate(q).decision = "PERMIT" <=> CedarAllows(q)
<1>1. PICK i \in 1 .. 7 :
         /\ MatchedRule(q) = Order[i]
         /\ Applies(q)[Order[i]]
         /\ \A j \in 1 .. (i - 1) : ~ Applies(q)[Order[j]]
  BY FirstRule
<1>2. Evaluate(q).decision = "PERMIT" <=> Order[i] \in PermitRules
  BY <1>1 DEF Evaluate
<1>3. Order[i] \in PermitRules <=> i \in {4, 5, 6}
  BY DEF Order, PermitRules
<1>4. ASSUME i \in {4, 5, 6} PROVE CedarAllows(q)
  <2>1. ~ Applies(q)[Order[1]] /\ ~ Applies(q)[Order[2]] /\ ~ Applies(q)[Order[3]]
    BY <1>1, <1>4
  <2>2. /\ q.action = "call_tool" /\ q.caller = q.tenant
        /\ ~ (q.tenant = "hr-compensation" /\ q.role # "hr_business_partner")
    BY <2>1 DEF Applies, Order
  <2>3. CedarPermits(q)
    BY <1>1, <1>4, <2>2 DEF Applies, Order, CedarPermits
  <2> QED BY <2>2, <2>3 DEF CedarAllows, CedarForbids
<1>5. ASSUME CedarAllows(q) PROVE i \in {4, 5, 6}
  <2>1. ~ Applies(q)[Order[1]] /\ ~ Applies(q)[Order[2]] /\ ~ Applies(q)[Order[3]]
    BY <1>5 DEF CedarAllows, CedarForbids, CedarPermits, Applies, Order
  <2>2. Applies(q)[Order[4]] \/ Applies(q)[Order[5]] \/ Applies(q)[Order[6]]
    BY <1>5 DEF CedarAllows, CedarForbids, CedarPermits, Applies, Order
  <2> QED BY <1>1, <2>1, <2>2
<1> QED BY <1>2, <1>3, <1>4, <1>5

-------------------------------------------------------------------------------
(* The calls *)

\* What holds of a call in the gateway: it was decided by evaluate as the bundle
\* says, its dict still holds what was asked, and its gateway is still there.
CallOK ==
  call # None =>
    /\ call = [request |-> call.request, verdict |-> call.verdict, dict |-> call.dict,
               asked |-> call.asked, bundle |-> call.bundle, stage |-> call.stage,
               evidence |-> call.evidence]
    /\ call.request \in Request
    /\ CedarAllows(call.request)
    /\ call.verdict = Evaluate(call.request)
    /\ call.dict \in Dict
    /\ args[call.dict] = call.asked
    /\ TenantOf(call.asked) = call.request.tenant
    /\ call.bundle = loaded
    /\ call.evidence \in Evidences \union {<< >>}

\* What was signed for an answer, whatever its dict holds now.
Signed(r) ==
  [policy_bundle_hash |-> r.bundle, verdict |-> Evaluate(r.request),
   tool_call |-> [tool |-> r.request.tool, args |-> r.asked],
   evidence_hashes |-> EvidenceHashes(r.evidence)]
Claimed(r, d) ==
  [policy_bundle_hash |-> r.bundle, verdict |-> Evaluate(r.request),
   tool |-> r.request.tool, dict |-> d,
   evidence_hashes |-> EvidenceHashes(r.evidence)]

AnswersOK ==
  \A r \in answers :
    /\ CedarAllows(r.request)
    /\ TenantOf(r.asked) = r.request.tenant
    /\ r.evidence \in Evidences \union {<< >>}
    /\ r.trace_claim.signature = Signed(r)
    /\ \E d \in Dict : r.trace_claim.claim = Claimed(r, d)

IInv ==
  /\ args \in [Dict -> Args \union {None}]
  /\ CallOK
  /\ AnswersOK
  /\ denial # None => ~ CedarAllows(denial.request)
  /\ OnlyAllowedQueries

LEMMA AllowedIsOwn == ASSUME NEW q, CedarAllows(q) PROVE q.caller = q.tenant
BY DEF CedarAllows, CedarForbids, CedarPermits

LEMMA InvInit == Init => IInv
BY DEF Init, IInv, CallOK, AnswersOK, OnlyAllowedQueries

LEMMA InvNext == IInv /\ [Next]_vars => IInv'
<1> SUFFICES ASSUME IInv, [Next]_vars PROVE IInv'
  OBVIOUS
<1>1. CASE Edit
  BY <1>1 DEF Edit, IInv, CallOK, AnswersOK, OnlyAllowedQueries
<1>2. CASE Restart
  BY <1>2 DEF Restart, IInv, CallOK, AnswersOK, OnlyAllowedQueries
<1>3. CASE Intercept
  <2>1. PICK d \in Dict, a \in Args, r \in Role, tool \in Tool,
             c \in Tenant, incident \in BOOLEAN :
          LET q == [action |-> "call_tool", role |-> r, tool |-> tool,
                    tenant |-> TenantOf(a), caller |-> c, incident |-> incident]
          IN  /\ args' = [args EXCEPT ![d] = a]
              /\ IF Evaluate(q).decision = "PERMIT"
                 THEN /\ call' = [request |-> q, verdict |-> Evaluate(q), dict |-> d,
                                  asked |-> a, bundle |-> loaded, stage |-> "permitted",
                                  evidence |-> << >>]
                      /\ denial' = None
                 ELSE /\ denial' = [request |-> q, policy_bundle_hash |-> loaded,
                                    matched_rule |-> Evaluate(q).matched_rule]
                      /\ UNCHANGED call
    BY <1>3 DEF Intercept
  <2> DEFINE q == [action |-> "call_tool", role |-> r, tool |-> tool,
                   tenant |-> TenantOf(a), caller |-> c, incident |-> incident]
  <2>2. q.tenant = TenantOf(a) /\ q \in Request
    <3>1. TenantOf(a) \in Tenant \union {NoTenant}
      BY DEF TenantOf, Args
    <3> QED BY <3>1 DEF Request
  <2>3. args' = [args EXCEPT ![d] = a] /\ call = None
    BY <1>3, <2>1 DEF Intercept
  <2>4. UNCHANGED <<loaded, answers, queries>>
    BY <1>3 DEF Intercept
  <2>5. args' \in [Dict -> Args \union {None}] /\ args'[d] = a
    BY <2>2, <2>3 DEF IInv
  <2>6. AnswersOK' /\ OnlyAllowedQueries'
    BY <2>4 DEF IInv, AnswersOK, OnlyAllowedQueries, Signed, Claimed, EvidenceHashes
  <2>7. CASE Evaluate(q).decision = "PERMIT"
    <3>1. /\ call' = [request |-> q, verdict |-> Evaluate(q), dict |-> d,
                      asked |-> a, bundle |-> loaded, stage |-> "permitted",
                      evidence |-> << >>]
          /\ denial' = None
      BY <2>1, <2>7
    <3>2. CedarAllows(q)
      BY <2>7, EvaluateIsCedar
    <3> HIDE DEF q
    <3>3. CallOK'
      BY <2>2, <2>4, <2>5, <3>1, <3>2 DEF CallOK
    <3> QED BY <2>5, <2>6, <3>1, <3>3 DEF IInv
  <2>8. CASE Evaluate(q).decision # "PERMIT"
    <3>1. /\ denial' = [request |-> q, policy_bundle_hash |-> loaded,
                        matched_rule |-> Evaluate(q).matched_rule]
          /\ call' = None
      BY <2>1, <2>3, <2>8
    <3>2. ~ CedarAllows(q)
      BY <2>8, EvaluateIsCedar
    <3> HIDE DEF q
    <3>3. ~ CedarAllows(denial'.request)
      BY <3>1, <3>2
    <3> QED BY <2>5, <2>6, <3>1, <3>3 DEF IInv, CallOK
  <2> QED BY <2>7, <2>8
<1>4. CASE Execute
  <2>1. /\ call # None /\ call.verdict = Evaluate(call.request)
        /\ UNCHANGED <<loaded, args, answers, denial>>
    BY <1>4 DEF Execute, IInv, CallOK
  <2>2. CallOK'
    <3>1. CASE call' = None
      BY <3>1 DEF CallOK
    <3>2. ASSUME NEW e \in Evidences \union {<< >>},
                 call' = [call EXCEPT !.stage = "answered", !.evidence = e]
          PROVE  CallOK'
      <4>1. call' = [request |-> call.request, verdict |-> call.verdict,
                     dict |-> call.dict, asked |-> call.asked, bundle |-> call.bundle,
                     stage |-> "answered", evidence |-> e]
        BY <2>1, <3>2 DEF IInv, CallOK
      <4> QED BY <2>1, <4>1 DEF IInv, CallOK
    <3>3. ASSUME call' = [call EXCEPT !.stage = "answered"] PROVE CallOK'
      <4>1. call' = [request |-> call.request, verdict |-> call.verdict,
                     dict |-> call.dict, asked |-> call.asked, bundle |-> call.bundle,
                     stage |-> "answered", evidence |-> call.evidence]
        BY <2>1, <3>3 DEF IInv, CallOK
      <4> QED BY <2>1, <4>1 DEF IInv, CallOK
    <3> QED BY <1>4, <3>1, <3>2, <3>3 DEF Execute
  <2>3. OnlyAllowedQueries'
    <3> DEFINE q == [call.request EXCEPT !.tenant = TenantOf(args[call.dict])]
    <3>1. queries' \subseteq queries \union {q}
      BY <1>4 DEF Execute
    <3>2. q = call.request
      BY <2>1 DEF IInv, CallOK, Request
    <3>3. CedarAllows(q) /\ q.caller = q.tenant
      BY <2>1, <3>2, AllowedIsOwn DEF IInv, CallOK
    <3> HIDE DEF q
    <3> QED BY <3>1, <3>3 DEF IInv, OnlyAllowedQueries
  <2>4. AnswersOK'
    BY <2>1 DEF IInv, AnswersOK, Signed, Claimed, EvidenceHashes
  <2> QED BY <2>1, <2>2, <2>3, <2>4 DEF IInv
<1>5. CASE Sign
  <2> DEFINE r == [request |-> call.request, bundle |-> call.bundle,
                   asked |-> call.asked, evidence |-> call.evidence,
                   trace_claim |-> SignTraceClaim(loaded, call.verdict, call.request.tool,
                                                  call.dict, call.evidence)]
  <2>1. /\ call # None /\ call' = None
        /\ answers' = answers \union {r}
        /\ UNCHANGED <<loaded, args, denial, queries>>
    BY <1>5 DEF Sign
  <2>2. /\ CedarAllows(r.request)
        /\ TenantOf(r.asked) = r.request.tenant
        /\ r.evidence \in Evidences \union {<< >>}
    BY <2>1 DEF IInv, CallOK
  <2>3. /\ r.trace_claim.signature = Signed(r)
        /\ r.trace_claim.claim = Claimed(r, call.dict)
    BY <2>1 DEF IInv, CallOK, SignTraceClaim, CanonicalPayload, Signed, Claimed
  <2>4. call.dict \in Dict
    BY <2>1 DEF IInv, CallOK
  <2> HIDE DEF r
  <2>5. AnswersOK'
    BY <2>1, <2>2, <2>3, <2>4 DEF IInv, AnswersOK, Signed, Claimed, EvidenceHashes
  <2> QED BY <2>1, <2>5 DEF IInv, CallOK, OnlyAllowedQueries
<1>6. CASE UNCHANGED vars
  BY <1>6 DEF vars, IInv, CallOK, AnswersOK, OnlyAllowedQueries
<1> QED BY <1>1, <1>2, <1>3, <1>4, <1>5, <1>6 DEF Next

LEMMA Invariance == Spec => []IInv
BY InvInit, InvNext, PTL DEF Spec

-------------------------------------------------------------------------------
(* The theorems *)

\* Whatever the callers ask and however the policy file is edited, nothing but
\* what the Cedar bundle allows the caller's own tenant reaches the executor.
THEOREM QueriesAreAllowed == Spec => []OnlyAllowedQueries
BY Invariance, PTL DEF IInv

\* A denial is of a request the bundle does not allow, an answer of one it does.
THEOREM DecisionsFollowTheBundle == Spec => []DecisionsAreCedar
<1>1. IInv => DecisionsAreCedar
  BY DEF IInv, AnswersOK, DecisionsAreCedar
<1> QED BY <1>1, Invariance, PTL

\* A claim names the bundle that was loaded when its call was decided, and the
\* verdict, the tool and the tenant of that call.
THEOREM ClaimsAreOfTheirCalls == Spec => []ClaimsAreTrue
<1>1. IInv => ClaimsAreTrue
  <2> SUFFICES ASSUME IInv, NEW r \in answers
               PROVE  LET signed == r.trace_claim.signature
                      IN  /\ signed.policy_bundle_hash = r.bundle
                          /\ signed.verdict = Evaluate(r.request)
                          /\ signed.tool_call.tool = r.request.tool
                          /\ TenantOf(signed.tool_call.args) = r.request.tenant
                          /\ Len(signed.evidence_hashes) = Len(r.evidence)
    BY DEF ClaimsAreTrue
  <2>1. r.trace_claim.signature = Signed(r) /\ TenantOf(r.asked) = r.request.tenant
    BY DEF IInv, AnswersOK
  <2>2. r.evidence \in Seq([id : STRING, content : STRING])
    BY GatewayAssumption, EmptySeq DEF IInv, AnswersOK
  <2>3. EvidenceHashes(r.evidence) = r.evidence
    BY <2>2 DEF EvidenceHashes, HashEvidenceChunk
  <2> QED BY <2>1, <2>3 DEF Signed
<1> QED BY <1>1, Invariance, PTL

LEMMA Prefix ==
  ASSUME NEW S, NEW s \in Seq(S), NEW t \in Seq(S)
  PROVE  IsPrefix(s, t) <=> Len(s) <= Len(t) /\ \A i \in DOMAIN s : s[i] = t[i]
<1> SUFFICES ASSUME Len(s) <= Len(t)
             PROVE  SubSeq(s, 1, Len(s)) = SubSeq(t, 1, Len(s))
                      <=> \A i \in 1 .. Len(s) : s[i] = t[i]
  BY DEF IsPrefix
<1>1. SubSeq(s, 1, Len(s)) = s
  BY SubSeqFull
<1>2. Len(s) \in Nat /\ Len(t) \in Nat
  BY LenProperties
<1>3. \A i \in 1 .. Len(s) : t[i] \in S
  BY <1>2, ElementOfSeq
<1>4. /\ SubSeq(t, 1, Len(s)) \in Seq(S)
      /\ Len(SubSeq(t, 1, Len(s))) = IF 1 <= Len(s) THEN Len(s) - 1 + 1 ELSE 0
      /\ \A i \in 1 .. Len(s) - 1 + 1 : SubSeq(t, 1, Len(s))[i] = t[1 + i - 1]
  BY <1>2, <1>3, SubSeqProperties
<1>5. /\ Len(SubSeq(t, 1, Len(s))) = Len(s)
      /\ \A i \in 1 .. Len(s) : SubSeq(t, 1, Len(s))[i] = t[i]
  BY <1>2, <1>4
<1>6. (SubSeq(t, 1, Len(s)) = s) <=> \A i \in 1 .. Len(s) : s[i] = t[i]
  BY <1>4, <1>5, SeqEqual
<1> QED BY <1>1, <1>6

\* The audit accepts chunks exactly when they are the first ones returned,
\* unchanged and in order, and the caller has not filled its dict again.
THEOREM AuditsAcceptPrefixes == Spec => []AuditsFindChanges
<1>1. IInv => AuditsFindChanges
  <2> SUFFICES ASSUME IInv, NEW r \in answers, NEW e \in Evidences
               PROVE  Audit(r.trace_claim, e) <=>
                        IsPrefix(e, r.evidence)
                        /\ args[r.trace_claim.claim.dict] = r.asked
    BY DEF AuditsFindChanges
  <2> DEFINE C == [id : STRING, content : STRING]
  <2>1. e \in Seq(C) /\ r.evidence \in Seq(C)
    BY GatewayAssumption, EmptySeq DEF IInv, AnswersOK
  <2>2. PICK d \in Dict : /\ r.trace_claim.claim = Claimed(r, d)
                          /\ r.trace_claim.signature = Signed(r)
    BY DEF IInv, AnswersOK
  <2>3. EvidenceHashes(r.evidence) = r.evidence
    BY <2>1 DEF EvidenceHashes, HashEvidenceChunk
  <2>4. r.trace_claim.claim.evidence_hashes = r.evidence /\ r.trace_claim.claim.dict = d
    BY <2>2, <2>3 DEF Claimed
  <2>5. Verifies(r.trace_claim) <=> args[d] = r.asked
    BY <2>2 DEF Verifies, CanonicalPayload, Claimed, Signed
  <2>6. Audit(r.trace_claim, e) <=>
          /\ Len(e) <= Len(r.evidence)
          /\ \A i \in DOMAIN e : e[i] = r.evidence[i]
          /\ args[d] = r.asked
    BY <2>4, <2>5 DEF Audit, HashEvidenceChunk
  <2> HIDE DEF C
  <2>7. IsPrefix(e, r.evidence) <=>
          Len(e) <= Len(r.evidence) /\ \A i \in DOMAIN e : e[i] = r.evidence[i]
    BY <2>1, Prefix
  <2> QED BY <2>4, <2>6, <2>7
<1> QED BY <1>1, Invariance, PTL
===============================================================================
