----------------------------- MODULE MCIngestionRun -----------------------------
(***************************************************************************)
(* For TLC: a directory with a markdown file, a PDF and a file of another  *)
(* kind, or with the first and a symbolic link to it; a connector with two *)
(* resources of one path.  Some environments and settings files are for    *)
(* the database settings alone.                                            *)
(***************************************************************************)
EXTENDS IngestionRun, TLC

MCSource == {"guide.md", "form.pdf", "logo.png", "page1", "page2"}
MCUri == {"guide.md", "form.pdf", "logo.png", "path"}
MCUriOf == [s \in MCSource |-> IF s \in {"page1", "page2"} THEN "path" ELSE s]
MCFormatOf == [s \in MCSource |->
  CASE s = "form.pdf" -> "pdf" [] s = "logo.png" -> "unsupported" [] OTHER -> "markdown"]

MCVersion == {"empty", "short", "long", "huge"}
MCTextsOf == [v \in MCVersion |->
  CASE v = "empty" -> <<>> [] v = "short" -> <<"a">> [] OTHER -> <<"b", "a">>]

MCCleaned == ("default" :> "default") @@ ("acme" :> "acme") @@ (" acme" :> "acme")

MCWorlds ==
  { [s \in MCSource |-> CASE s \in {"guide.md", "page1"} -> "long"
                          [] s = "page2" -> "short" [] OTHER -> v] : v \in {"short", "huge"} }

NoVariable == [k \in Key |-> Unset]
Plain(provider) ==
  [url |-> Unset, kf |-> NoVariable, pg |-> NoVariable, provider |-> provider,
   dimension |-> IF provider = "openai" THEN Empty ELSE 2, unlisted |-> {"openrouter"},
   keys |-> {"openrouter", "openai"}, options |-> {"token"}]

MCSettingsFiles == { ("provider" :> "mock") @@ ("dimension" :> 3) @@ ("host" :> "file") }

\* Environments for the ingestions, and environments for the settings, in which
\* no ingestion gets beyond its start.
Providers == { Plain(p) : p \in {Unset, "openrouter", "openai", "sentence_transformers"} }
Databases ==
  { [Plain("openai") EXCEPT !.url = u, !.kf = [k \in Key |-> x], !.pg = [k \in Key |-> y],
      !.keys = {}, !.options = {}] :
      u \in {Unset, [k \in Key |-> "url"], [k \in Key |-> IF k = "password" THEN Empty ELSE Unset]},
      x \in {Unset, Empty, "kf"}, y \in {Unset, Empty, "pg"} }
MCEnvironments == Providers \union Databases

Command(tenant) ==
  [program |-> "cli", asked |-> {}, confirm |-> FALSE, tenant |-> tenant, purge |-> "acme",
   uri |-> "guide.md", format |-> "pdf", embed |-> FALSE, inputs |-> <<>>,
   connector |-> "notion", options |-> {}]

Ingestions ==
  { [Command(t) EXCEPT !.asked = {"ingest"}, !.embed = TRUE,
        !.inputs = <<"form.pdf", "guide.md", "logo.png">>] : t \in {"acme", " acme"} }
  \union
  { [Command("acme") EXCEPT !.asked = {"ingest"}, !.inputs = <<"guide.md", "guide.md">>] }
Syncs ==
  { [Command("acme") EXCEPT !.program = "sync", !.embed = e, !.connector = c,
        !.inputs = <<"page1", "page2">>] : e \in BOOLEAN, c \in {"notion", "jira"} }
Operations ==
  { [Command("default") EXCEPT !.asked = a] : a \in { {}, {"check_consistency"}, {"reembed"} } }
  \union
  { [Command("acme") EXCEPT !.asked = a, !.confirm = b] : b \in BOOLEAN,
      a \in { {"purge_tenant", "delete_document"}, {"delete_document", "ingest"},
              {"delete_source_type"} } }
MCCommands == Ingestions \union Syncs \union Operations

MCDefaultOf == [k \in Key \union {"dimension"} |-> IF k = "dimension" THEN 2 ELSE "default"]
MCModelDimension ==
  [p \in Registered \ {"mock"} |-> IF p \in {"openai", "openrouter"} THEN 3 ELSE 2]
MCRequired == [notion |-> {"token"}, jira |-> {"url"}]
===============================================================================
