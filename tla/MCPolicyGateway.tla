---------------------------- MODULE MCPolicyGateway ----------------------------
(***************************************************************************)
(* An instance of PolicyGateway for TLC: the roles and tenants of run.py's *)
(* scenarios with the one the rules name besides (the HR partner), two     *)
(* bundles, two dicts, and evidence of up to two chunks, one of which also *)
(* exists with its content changed.                                        *)
(***************************************************************************)
EXTENDS PolicyGateway

MCRole == {"product_designer", "hr_business_partner", "incident_commander"}
MCTenant == {"employee-handbook", "hr-compensation", "security-runbooks", "acme-corp"}
MCTool == {"retrieve_evidence", "get_document"}

Pto == [id |-> "chk_pto_001", content |-> "15 days"]
Forged == [id |-> "chk_pto_001", content |-> "30 days"]
Leave == [id |-> "chk_pto_002", content |-> "48 hours"]

MCEvidences == {<< >>, <<Pto>>, <<Forged>>, <<Pto, Leave>>, <<Leave, Pto>>}
===============================================================================
