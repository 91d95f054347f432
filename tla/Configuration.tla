----------------------------- MODULE Configuration -----------------------------
(***************************************************************************)
(* load_settings (src/src/knowledge_fabric/config.py) and the choice of an *)
(* embedding provider (embeddings/providers.py), which every command and   *)
(* the server make when they start.                                        *)
(*                                                                         *)
(* The settings file is a partial function from keys to values.  An        *)
(* environment is [url, kf, pg, provider, dimension, unlisted, keys,       *)
(* options]: the parsed DATABASE_URL, the KF_DB_* and the POSTGRES_*       *)
(* variables by key, EMBEDDING_PROVIDER and EMBEDDING_DIMENSION, the       *)
(* providers whose model variable names a model that their tables do not   *)
(* list, those whose API key is set, and what is set of the connectors'    *)
(* variables.  A variable can be unset or empty.                           *)
(***************************************************************************)
EXTENDS Naturals

CONSTANTS
  Unset, Empty,       \* a variable that does not exist; the empty string
  DefaultOf,          \* [key -> value]: the defaults of load_settings
  ModelDimension,     \* [provider -> dimension its table has for its model]
  RouterDimension     \* OpenRouter's, for a model and a setting that say nothing

ASSUME VariableAssumption == Unset # Empty

Key == {"host", "name", "user", "password"}

\* Python's truth of os.environ.get(...).
Given(v) == v \notin {Unset, Empty}
Or(v, w) == IF Given(v) THEN v ELSE w

-------------------------------------------------------------------------------
(* The database settings *)

Put(raw, k, v) == [x \in DOMAIN raw \union {k} |-> IF x = k THEN v ELSE raw[x]]

\* DATABASE_URL: its parts that are there; a password may be empty.
UrlGives(url, k) == IF k = "password" THEN url[k] # Unset ELSE Given(url[k])

\* The variables: an empty one counts as unset, except that a password that is
\* set to the empty string is one.
VariablesGive(env, k) ==
  IF k = "password" THEN env.kf[k] # Unset \/ env.pg[k] # Unset
  ELSE Given(env.kf[k]) \/ Given(env.pg[k])
FromVariables(env, k) ==
  Or(env.kf[k], IF env.pg[k] = Unset THEN Empty ELSE env.pg[k])

\* Mutant: the variables first, and DATABASE_URL over them.
Overridden_UrlLast(env, file, k) ==
  LET byVariables == IF VariablesGive(env, k) THEN Put(file, k, FromVariables(env, k)) ELSE file
  IN  IF env.url # Unset /\ UrlGives(env.url, k)
        THEN Put(byVariables, k, env.url[k]) ELSE byVariables

\* db_raw after the two assignments to one of its keys.
Overridden(env, file, k) ==
  LET byUrl == IF env.url # Unset /\ UrlGives(env.url, k)
                 THEN Put(file, k, env.url[k]) ELSE file
  IN  IF VariablesGive(env, k) THEN Put(byUrl, k, FromVariables(env, k)) ELSE byUrl

Database(env, file) ==
  [k \in Key |-> LET raw == Overridden(env, file, k)
                 IN  IF k \in DOMAIN raw THEN raw[k] ELSE DefaultOf[k]]

-------------------------------------------------------------------------------
(* The embedding provider *)

LocalNames == {"local", "sentence_transformers", "sentence-transformers"}
Registered == {"mock", "ollama", "openai", "cohere", "gemini", "openrouter"} \union LocalNames
NeedsKey == {"openai", "cohere", "gemini", "openrouter"}

ProviderSetting(env, file) ==
  IF Given(env.provider) THEN env.provider
  ELSE IF "provider" \in DOMAIN file THEN file["provider"] ELSE "mock"

\* build_embedding_provider: a name nobody registered is the mock.
Provider(env, file) ==
  LET name == ProviderSetting(env, file)
  IN  IF name \in LocalNames THEN "local"
      ELSE IF name \in Registered THEN name ELSE "mock"

\* from_env raises OSError without the API key.
ProviderBuilds(env, file) ==
  Provider(env, file) \in NeedsKey => Provider(env, file) \in env.keys

DimensionSetting(env, file) ==
  IF Given(env.dimension) THEN env.dimension
  ELSE IF "dimension" \in DOMAIN file THEN file["dimension"] ELSE DefaultOf["dimension"]

\* The dimension it declares.  EmbeddingProviderRegistry.get passes the configured
\* one, which the mock obeys, and OpenRouter for a model that its table does not
\* list, unless it is 0; the factories of the others refuse the argument, and the
\* model decides.
Dimension(env, file) ==
  LET provider == Provider(env, file)
      setting == DimensionSetting(env, file)
  IN  CASE provider = "mock" -> setting
        [] provider = "openrouter" /\ provider \in env.unlisted ->
             IF setting # 0 THEN setting ELSE RouterDimension
        [] OTHER -> ModelDimension[provider]
===============================================================================
