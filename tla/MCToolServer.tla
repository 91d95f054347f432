----------------------------- MODULE MCToolServer -----------------------------
(***************************************************************************)
(* An instance of ToolServer for TLC: two URIs of different source types,  *)
(* two tenants, contents without chunks and with two, and a server with    *)
(* and without a default tenant, a key and row-level security.  A tenant   *)
(* name may come empty, in blanks, or with a slash, which is a tenant      *)
(* only when the strict check is off.                                      *)
(***************************************************************************)
EXTENDS ToolServer, TLC

MCUri == {"a.md", "b.pdf"}
MCSourceTypeOf == ("a.md" :> "markdown") @@ ("b.pdf" :> "pdf")
MCVersion == {"empty", "two"}
MCChunkCount == ("empty" :> 0) @@ ("two" :> 2)

MCName == {NoTenant, Empty, "  ", "acme", "acme/eu"}
MCCleaned ==
  [strict \in BOOLEAN |->
     [n \in MCName |-> IF n = "acme" \/ (n = "acme/eu" /\ ~ strict) THEN n ELSE NoTenant]]

MCServers ==
  { [tenant |-> "acme", key |-> "k", strict |-> FALSE, row_security |-> FALSE],
    [tenant |-> Empty, key |-> "", strict |-> TRUE, row_security |-> FALSE],
    [tenant |-> "acme/eu", key |-> "k", strict |-> TRUE, row_security |-> TRUE] }
===============================================================================
