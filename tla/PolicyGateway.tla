----------------------------- MODULE PolicyGateway -----------------------------
(***************************************************************************)
(* The policy gateway of the governed retrieval example                    *)
(* (src/examples/governed-retrieval-cmcp): CmcpGateway (gateway.py), which *)
(* decides every tool call by rules written in code, the Cedar bundle      *)
(* those rules stand for (policies/retrieval-policy.cedar), and the audit  *)
(* of the claims it signs (run.py).                                        *)
(*                                                                         *)
(* The bundle is a file: it is read and hashed once, when the gateway is   *)
(* made, and may be edited and the gateway made again while claims are     *)
(* kept.  A claim keeps a reference to the dict of arguments its caller    *)
(* passed, and a caller may fill the same dict again for another call: a   *)
(* Dict is such an object and `args` what each one holds.  Hashes and      *)
(* signatures are injective: a hash is the hashed value, a signature the   *)
(* signed payload (with the one key every gateway is made with).           *)
(***************************************************************************)
EXTENDS Naturals, Sequences, SequencesExt

CONSTANTS
  Role, Tenant, Tool,  \* of principals, of callers and arguments, of calls
  Query,               \* the other arguments of a call
  NoTenant,            \* what str(args.get("tenant_id", "")) gives without one
  Bundle,              \* contents of the policy file
  Dict,                \* the argument dicts callers use
  Evidences,           \* what the executor can return: sequences of chunks
  MaxCalls,            \* bound: calls
  MaxEdits,            \* bound: edits of the policy file
  None

ASSUME GatewayAssumption ==
  /\ NoTenant \notin Tenant
  /\ Evidences \subseteq Seq([id : STRING, content : STRING])
  /\ MaxCalls \in Nat /\ MaxEdits \in Nat

VARIABLES
  file,     \* the bundle on disk
  edits,    \* how many times it was edited
  loaded,   \* the bundle the gateway was made with
  args,     \* [Dict -> what each dict holds]
  call,     \* the call in the gateway; None between calls
  calls,    \* how many were made
  answers,  \* what it answered with 200, with what was asked (history)
  denial,   \* its last answer with 403, if that was the last call's
  queries   \* history: the requests that reached the executor

vars == <<file, edits, loaded, args, call, calls, answers, denial, queries>>

-------------------------------------------------------------------------------
(* The decision *)

Args == [tenant : Tenant \union {None}, query : Query]

\* What evaluate is asked: the action, the principal's role, the resource
\* (tool_name, tenant_id) and the context (caller_tenant, incident_active).
Request ==
  [action : {"call_tool", "other"}, role : Role, tool : Tool,
   tenant : Tenant \union {NoTenant}, caller : Tenant, incident : BOOLEAN]

\* Mutant: the break-glass rule forgets the incident.
Applies_WithoutIncident(q) ==
  [invalid_action         |-> q.action # "call_tool",
   cross_tenant_isolation |-> q.caller # q.tenant,
   compensation_firewall  |-> q.tenant = "hr-compensation" /\ q.role # "hr_business_partner",
   employee_self_service  |-> q.tool = "retrieve_evidence" /\ q.tenant = "employee-handbook",
   hr_compensation_access |-> /\ q.tool \in {"retrieve_evidence", "get_document"}
                              /\ q.tenant = "hr-compensation"
                              /\ q.role = "hr_business_partner",
   secops_break_glass     |-> /\ q.tool = "retrieve_evidence"
                              /\ q.tenant = "security-runbooks"
                              /\ q.role = "incident_commander",
   default_deny           |-> TRUE]

\* Which of evaluate's tests a request meets, by the name of the rule.
Applies(q) ==
  [invalid_action         |-> q.action # "call_tool",
   cross_tenant_isolation |-> q.caller # q.tenant,
   compensation_firewall  |-> /\ q.tenant = "hr-compensation"
                              /\ q.role # "hr_business_partner",
   employee_self_service  |-> /\ q.tool = "retrieve_evidence"
                              /\ q.tenant = "employee-handbook",
   hr_compensation_access |-> /\ q.tool \in {"retrieve_evidence", "get_document"}
                              /\ q.tenant = "hr-compensation"
                              /\ q.role = "hr_business_partner",
   secops_break_glass     |-> /\ q.tool = "retrieve_evidence"
                              /\ q.tenant = "security-runbooks"
                              /\ q.role = "incident_commander"
                              /\ q.incident,
   default_deny           |-> TRUE]

\* Mutant: the permits are tried before the forbids.
Order_PermitsFirst ==
  <<"invalid_action", "employee_self_service", "hr_compensation_access",
    "secops_break_glass", "cross_tenant_isolation", "compensation_firewall",
    "default_deny">>

\* The order in which evaluate tries them.
Order ==
  <<"invalid_action", "cross_tenant_isolation", "compensation_firewall",
    "employee_self_service", "hr_compensation_access", "secops_break_glass",
    "default_deny">>

PermitRules ==
  {"employee_self_service", "hr_compensation_access", "secops_break_glass"}

MatchedRule(q) ==
  Order[CHOOSE i \in 1 .. 7 :
          /\ Applies(q)[Order[i]]
          /\ \A j \in 1 .. (i - 1) : ~ Applies(q)[Order[j]]]

Evaluate(q) ==
  [matched_rule |-> MatchedRule(q),
   decision     |-> IF MatchedRule(q) \in PermitRules THEN "PERMIT" ELSE "DENY"]

(* The bundle the rules stand for: forbid takes precedence over permit, and *)
(* what no rule permits is denied.                                          *)

CedarPermits(q) ==
  /\ q.action = "call_tool"
  /\ \/ q.tool = "retrieve_evidence" /\ q.tenant = "employee-handbook"
     \/ /\ q.tool = "retrieve_evidence" \/ q.tool = "get_document"
        /\ q.tenant = "hr-compensation"
        /\ q.role = "hr_business_partner"
     \/ /\ q.tool = "retrieve_evidence"
        /\ q.tenant = "security-runbooks"
        /\ q.role = "incident_commander"
        /\ q.incident

CedarForbids(q) ==
  /\ q.action = "call_tool"
  /\ \/ q.tenant = "hr-compensation" /\ q.role # "hr_business_partner"
     \/ q.caller # q.tenant

CedarAllows(q) == CedarPermits(q) /\ ~ CedarForbids(q)

-------------------------------------------------------------------------------
(* Claims *)

\* Mutant: the hash covers the chunk's id only.
HashEvidenceChunk_Id(chunk) == chunk.id

HashEvidenceChunk(chunk) == chunk

EvidenceHashes(evidence) ==
  [i \in DOMAIN evidence |-> HashEvidenceChunk(evidence[i])]

\* A claim's payload: the arguments are those its dict holds now.
CanonicalPayload(claim) ==
  [policy_bundle_hash |-> claim.policy_bundle_hash,
   verdict            |-> claim.verdict,
   tool_call          |-> [tool |-> claim.tool, args |-> args[claim.dict]],
   evidence_hashes    |-> claim.evidence_hashes]

\* Mutant: the claim is signed with the hash of the file as it is now.
SignTraceClaim_Rereads(bundle, verdict, tool, dict, evidence) ==
  LET claim == [policy_bundle_hash |-> file, verdict |-> verdict, tool |-> tool,
                dict |-> dict, evidence_hashes |-> EvidenceHashes(evidence)]
  IN  [claim |-> claim, signature |-> CanonicalPayload(claim)]

SignTraceClaim(bundle, verdict, tool, dict, evidence) ==
  LET claim == [policy_bundle_hash |-> bundle, verdict |-> verdict, tool |-> tool,
                dict |-> dict, evidence_hashes |-> EvidenceHashes(evidence)]
  IN  [claim |-> claim, signature |-> CanonicalPayload(claim)]

\* TraceClaim.verify
Verifies(signed) == signed.signature = CanonicalPayload(signed.claim)

\* run_scenario_audit_verification of a claim against chunks: each chunk is
\* compared with the hash at its place (there must be one), then the
\* signature is verified.
Audit(signed, evidence) ==
  /\ Len(evidence) <= Len(signed.claim.evidence_hashes)
  /\ \A i \in DOMAIN evidence :
       HashEvidenceChunk(evidence[i]) = signed.claim.evidence_hashes[i]
  /\ Verifies(signed)

-------------------------------------------------------------------------------
(* The gateway *)

Init ==
  /\ file \in Bundle /\ loaded = file
  /\ edits = 0 /\ calls = 0
  /\ args = [d \in Dict |-> None]
  /\ call = None
  /\ answers = {} /\ denial = None /\ queries = {}

Edit ==
  /\ edits < MaxEdits
  /\ edits' = edits + 1
  /\ file' \in Bundle \ {file}
  /\ UNCHANGED <<loaded, args, call, calls, answers, denial, queries>>

\* The gateway is made again: it reads the file; a call in it is lost.
Restart ==
  /\ loaded' = file
  /\ call' = None
  /\ UNCHANGED <<file, edits, args, calls, answers, denial, queries>>

TenantOf(a) == IF a.tenant = None THEN NoTenant ELSE a.tenant

\* The caller fills a dict (a new one, or the one of an earlier call) and
\* calls intercept_tool_call: a denied call is answered at once.
Intercept ==
  /\ call = None /\ calls < MaxCalls
  /\ \E d \in Dict, a \in Args, r \in Role, tool \in Tool,
        c \in Tenant, incident \in BOOLEAN :
       LET q == [action |-> "call_tool", role |-> r, tool |-> tool,
                 tenant |-> TenantOf(a), caller |-> c, incident |-> incident]
       IN  /\ args' = [args EXCEPT ![d] = a]
           /\ IF Evaluate(q).decision = "PERMIT"
              THEN /\ call' = [request |-> q, verdict |-> Evaluate(q), dict |-> d,
                               asked |-> a, bundle |-> loaded, stage |-> "permitted",
                               evidence |-> << >>]
                   /\ denial' = None
              ELSE /\ denial' = [request |-> q, policy_bundle_hash |-> loaded,
                                 matched_rule |-> Evaluate(q).matched_rule]
                   /\ UNCHANGED call
  /\ calls' = calls + 1
  /\ UNCHANGED <<file, edits, loaded, answers, queries>>

\* The executor is given the dict; it answers, or raises and the call with it.
\* Without an executor the evidence is empty and nothing is queried.
Execute ==
  /\ call # None /\ call.stage = "permitted"
  /\ \/ /\ queries' = queries \union {[call.request EXCEPT !.tenant = TenantOf(args[call.dict])]}
        /\ \/ \E e \in Evidences : call' = [call EXCEPT !.stage = "answered", !.evidence = e]
           \/ call' = None
     \/ /\ call' = [call EXCEPT !.stage = "answered"]
        /\ UNCHANGED queries
  /\ UNCHANGED <<file, edits, loaded, args, calls, answers, denial>>

Sign ==
  /\ call # None /\ call.stage = "answered"
  /\ answers' = answers \union
       {[request |-> call.request, bundle |-> call.bundle,
         asked |-> call.asked, evidence |-> call.evidence,
         trace_claim |-> SignTraceClaim(loaded, call.verdict, call.request.tool,
                                        call.dict, call.evidence)]}
  /\ call' = None
  /\ UNCHANGED <<file, edits, loaded, args, calls, denial, queries>>

Next == Edit \/ Restart \/ Intercept \/ Execute \/ Sign

Spec == Init /\ [][Next]_vars

-------------------------------------------------------------------------------
(* Properties *)

\* What the rules in evaluate's code let through to the executor is what the
\* Cedar bundle allows: no order of the rules, no missing tenant and no dict
\* filled again lets a forbidden request through.
OnlyAllowedQueries ==
  \A q \in queries : CedarAllows(q) /\ q.caller = q.tenant

\* What is answered with 403 is what the bundle does not allow, what is answered
\* with evidence is what it allows, whatever the order evaluate tries rules in.
DecisionsAreCedar ==
  /\ denial # None => ~ CedarAllows(denial.request)
  /\ \A r \in answers : CedarAllows(r.request)

\* A signed claim names the bundle the gateway was made with when it decided
\* the call, however the file was edited since, the verdict Cedar gives, and
\* the tool and tenant that verdict was about.
ClaimsAreTrue ==
  \A r \in answers :
    LET signed == r.trace_claim.signature
    IN  /\ signed.policy_bundle_hash = r.bundle
        /\ signed.verdict = Evaluate(r.request)
        /\ signed.tool_call.tool = r.request.tool
        /\ TenantOf(signed.tool_call.args) = r.request.tenant
        /\ Len(signed.evidence_hashes) = Len(r.evidence)

\* The audit accepts chunks exactly when they are the first ones returned, in
\* their order and unchanged, and the claim's dict holds what was asked: a
\* chunk that was changed, swapped or added is found, one that was dropped
\* from the end is not; a dict filled again for another call fails the audit
\* of the earlier one.
AuditsFindChanges ==
  \A r \in answers : \A e \in Evidences :
    Audit(r.trace_claim, e) <=>
      IsPrefix(e, r.evidence) /\ args[r.trace_claim.claim.dict] = r.asked
===============================================================================
