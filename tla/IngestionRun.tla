------------------------------ MODULE IngestionRun ------------------------------
(***************************************************************************)
(* The two programs that fill the store: the command line of               *)
(* src/src/knowledge_fabric/ingestion/cli.py, with its diagnostics and     *)
(* deletions, and the connector sync of sync_cli.py.  One program runs     *)
(* after another, each over a list of sources that can change meanwhile;   *)
(* it may be killed at any point and started again.  What programs do to   *)
(* each other when they overlap is the subject of KnowledgeStore: here a   *)
(* call of the repository is one step, and may fail.                       *)
(*                                                                         *)
(* The CLI reads files and goes on after one that fails; the sync fetches  *)
(* resources, passes over one it cannot fetch, and ends at any other       *)
(* failure.                                                                *)
(***************************************************************************)
EXTENDS Configuration, EmbeddingProviders

CONSTANTS
  Source,        \* files, and resources of a connector
  Uri, UriOf,    \* [Source -> Uri]: two resources may have the same path
  FormatOf,      \* [Source -> {"markdown", "pdf", "unsupported"}]
  Version,       \* the contents a source can have
  TextsOf,       \* [Version -> sequences]: the texts of its chunks
  TooLarge,      \* the versions above the file size limit
  Cleaned,       \* [tenant as typed -> tenant]: validate_tenant_id
  DefaultTenant,
  ColumnDimension,
  BatchSize,     \* texts in a request of a re-embedding
  Environments, SettingsFiles,
  Commands,      \* the command lines
  Worlds,        \* what the sources can contain at first
  Required,      \* [connector -> options it cannot do without]
  MaxRuns,       \* bound: programs started
  MaxEdits,      \* bound: changes of sources
  None

Tenant == DOMAIN Cleaned

ASSUME IngestionAssumption ==
  /\ UriOf \in [Source -> Uri]
  /\ None \notin Version \union Tenant \union {"0"}
  /\ None \notin [tenant : Tenant, version : Version,
                  format : {"markdown"} \union {FormatOf[s] : s \in Source}]
  /\ \A v \in Version : DOMAIN TextsOf[v] = 1 .. Len(TextsOf[v]) /\ Len(TextsOf[v]) \in Nat
  /\ Worlds \subseteq [Source -> Version \union {None}]
  /\ \A t \in Tenant : Cleaned[t] \in Tenant
  /\ IsFiniteSet(Uri) /\ BatchSize \in Nat \ {0}
  /\ MaxRuns \in Nat /\ MaxEdits \in Nat

\* main takes the first of these that was asked for, and does nothing else.
Precedence ==
  <<"index_status", "check_consistency", "reembed", "purge_tenant",
    "delete_document", "delete_source_type", "ingest">>

VARIABLES
  env, file,     \* the environment and the settings file
  sources,       \* what the sources contain; None when one is gone
  edits, started,
  documents,     \* [Uri -> row of documents, or None]
  chunks,        \* [Uri -> the rows of chunks, by chunk_index]
  args,          \* the command line of the last program
  pc,
  inputs, place, \* the sources of the run and the loop's position
  version,       \* what the loop has read
  vectors,       \* the embeddings of its chunks, None without a provider
  summary,       \* [documents, chunks, errors]: counts, and failed places
  exit,          \* the exit code "0" or "1", "raised" or "killed"; None while it runs
  before,        \* the corpus at the start (observed)
  taken          \* the versions read, by place (observed)

given  == <<env, file>>
corpus == <<documents, chunks>>
world  == <<sources, edits>>
local  == <<args, inputs, before, started>>
vars   == <<env, file, sources, edits, started, documents, chunks, args, pc, inputs,
            place, version, vectors, summary, exit, before, taken>>

-------------------------------------------------------------------------------
(* Rows *)

Row(i) == [tenant |-> args.tenant, version |-> version,
           format |-> IF args.program = "sync" THEN "markdown" ELSE FormatOf[inputs[i]]]

Rows(t, v, vs) ==
  [i \in DOMAIN TextsOf[v] |->
     [text |-> TextsOf[v][i], tenant |-> t, vector |-> IF vs = None THEN None ELSE vs[i]]]

Here == UriOf[inputs[place]]
EmptySummary == [documents |-> 0, chunks |-> 0, errors |-> {}]

\* pgvector refuses a vector of another dimension.
Accepted(vs) == vs # None => \A i \in DOMAIN vs : vs[i].dim = ColumnDimension

-------------------------------------------------------------------------------
Init ==
  /\ env \in Environments /\ file \in SettingsFiles
  /\ sources \in Worlds
  /\ edits = 0 /\ started = 0
  /\ documents = [u \in Uri |-> None] /\ chunks = [u \in Uri |-> <<>>]
  /\ args = None /\ pc = "idle" /\ inputs = <<>> /\ place = 1
  /\ version = None /\ vectors = None
  /\ summary = EmptySummary /\ exit = "0" /\ before = corpus /\ taken = <<>>

Edit ==
  /\ edits < MaxEdits
  /\ edits' = edits + 1
  /\ \E s \in Source, v \in Version \union {None} :
       sources' = [sources EXCEPT ![s] = v]
  /\ UNCHANGED <<given, corpus, local, pc, place, version, vectors, summary, exit, taken>>

\* A program starts: its command line replaces that of the last one.
Started(c) ==
  /\ pc = "idle" /\ started < MaxRuns
  /\ started' = started + 1
  /\ args' = c /\ before' = corpus
  /\ place' = 1 /\ version' = None /\ vectors' = None
  /\ summary' = EmptySummary /\ taken' = <<>>
  /\ UNCHANGED <<given, world>>

\* A program that is over at once, leaving an exit code.
Ended(code) == exit' = code /\ inputs' = <<>> /\ UNCHANGED pc

\* What main does of all it is asked for.
Operation(c) ==
  LET asked == { i \in DOMAIN Precedence : Precedence[i] \in c.asked }
  IN  IF asked = {} THEN None
      ELSE Precedence[CHOOSE i \in asked : \A j \in asked : i <= j]

\* The tenant of a diagnostic or a re-embedding: all of them for the default.
Scope(c) == IF c.tenant = DefaultTenant THEN Tenant ELSE {Cleaned[c.tenant]}

\* check_consistency: no orphaned chunk (and no document without a tenant:
\* documents.tenant_id is NOT NULL).
Healthy(tenants) ==
  \A u \in Uri : documents[u] = None =>
    \A i \in DOMAIN chunks[u] : chunks[u][i].tenant \notin tenants

\* The documents a deletion selects.  The command line's tenant is validated,
\* which strips it; that of an ingestion is taken as it was typed.
Selected(c) ==
  { u \in Uri : documents[u] # None /\
      CASE Operation(c) = "purge_tenant" -> documents[u].tenant = Cleaned[c.purge]
        [] Operation(c) = "delete_document" ->
             u = c.uri /\ documents[u].tenant = Cleaned[c.tenant]
        [] Operation(c) = "delete_source_type" ->
             documents[u].format = c.format /\ documents[u].tenant = Cleaned[c.tenant] }

Look(c) ==
  /\ c.program = "cli" /\ Operation(c) \in {"index_status", "check_consistency"}
  /\ Started(c)
  /\ Ended(IF Operation(c) = "check_consistency" /\ ~ Healthy(Scope(c)) THEN "1" ELSE "0")
  /\ UNCHANGED corpus

Deletion(c) ==
  c.program = "cli" /\ Operation(c) \in {"purge_tenant", "delete_document", "delete_source_type"}

\* Mutant: a purge is not asked to be confirmed.
Permitted_Always(c) == TRUE
Permitted(c) == Operation(c) = "purge_tenant" => c.confirm

Delete(c) ==
  /\ Deletion(c)
  /\ Started(c)
  /\ IF Permitted(c)
       THEN /\ documents' = [u \in Uri |-> IF u \in Selected(c) THEN None ELSE documents[u]]
            /\ chunks' = [u \in Uri |-> IF u \in Selected(c) THEN <<>> ELSE chunks[u]]
            /\ Ended("0")
       ELSE Ended("1") /\ UNCHANGED corpus

\* The chunks in scope, each by its URI and index.
InScope(c) ==
  UNION { {u} \X { i \in DOMAIN chunks[u] : chunks[u][i].tenant \in Scope(c) } : u \in Uri }
TextAt(row) == chunks[row[1]][row[2]].text

\* ORDER BY id: the chunks of a document in the order of their indexes, and the
\* documents in any order, since ids are not kept here.
Orders == { f \in [Uri -> 1 .. Cardinality(Uri)] : \A u, w \in Uri : f[u] = f[w] => u = w }
RowsInOrder(scope, order) ==
  LET earlier(r, s) == order[r[1]] < order[s[1]] \/ (r[1] = s[1] /\ r[2] < s[2])
  IN  [k \in 1 .. Cardinality(scope) |->
         CHOOSE r \in scope : Cardinality({ s \in scope : earlier(s, r) }) = k - 1]

\* range(0, len(rows), batch_size), and the batch that begins after s rows.
Starts(rows) == { s \in 0 .. Len(rows) - 1 : s % BatchSize = 0 }
Batch(rows, s) ==
  [k \in 1 .. (IF s + BatchSize <= Len(rows) THEN BatchSize ELSE Len(rows) - s) |-> rows[s + k]]

\* What the provider can answer to the texts of a batch.
BatchAnswers(rows, s) ==
  LET batch == Batch(rows, s)
  IN  Embeddings(Provider(env, file), [k \in DOMAIN batch |-> TextAt(batch[k])],
                 Dimension(env, file))

\* zip(chunk_ids, vectors) of each batch: by place, as far as both lists go.
Zipped(rows, answers) ==
  UNION { { <<Batch(rows, s)[k], answers[s][k]>> :
              k \in DOMAIN Batch(rows, s) \intersect DOMAIN answers[s] } : s \in Starts(rows) }

\* What the updates leave of a chunk's row.
Updated(updates, u, i) ==
  LET new == { p[2] : p \in { q \in updates : q[1] = <<u, i>> } }
  IN  IF new = {} THEN chunks[u][i]
      ELSE [chunks[u][i] EXCEPT !.vector = CHOOSE v \in new : TRUE]

\* reembed_chunks: one UPDATE for each pair, all in one transaction, which the
\* first vector that does not fit the column ends.
Reembed(c) ==
  /\ c.program = "cli" /\ Operation(c) = "reembed"
  /\ Started(c)
  /\ UNCHANGED documents
  /\ IF ~ ProviderBuilds(env, file) THEN Ended("raised") /\ UNCHANGED chunks
     ELSE \E order \in Orders :
       LET rows == RowsInOrder(InScope(c), order)
       IN  \E answers \in [Starts(rows) -> UNION { BatchAnswers(rows, s) : s \in Starts(rows) }] :
             LET updates == Zipped(rows, answers)
             IN  /\ \A s \in Starts(rows) : answers[s] \in BatchAnswers(rows, s)
                 /\ IF \E p \in updates : p[2].dim # ColumnDimension
                      THEN Ended("raised") /\ UNCHANGED chunks
                      ELSE /\ Ended("0")
                           /\ chunks' = [u \in Uri |-> [i \in DOMAIN chunks[u] |->
                                            Updated(updates, u, i)]]

\* The sources of an ingestion: the CLI passes over unsupported files.
Listed(c) ==
  IF c.program = "sync" THEN c.inputs
  ELSE SelectSeq(c.inputs, LAMBDA s : FormatOf[s] # "unsupported")

ASSUME CommandAssumption ==
  /\ \A c \in Commands :
       c.program \in {"cli", "sync"} /\ c.tenant \in Tenant /\ Listed(c) \in Seq(Source)
  /\ \A i \in DOMAIN Precedence : Precedence[i] # None

\* What makes main raise, or return 1, before its loop.
Startable(c) ==
  /\ c.embed => ProviderBuilds(env, file)
  /\ c.program = "sync" => Required[c.connector] \subseteq c.options \union env.options

Ingest(c) ==
  /\ c.program = "sync" \/ Operation(c) = "ingest"
  /\ Started(c)
  /\ IF Startable(c)
       THEN /\ inputs' = Listed(c)
            /\ pc' = "read" /\ exit' = None
       ELSE Ended("raised")
  /\ UNCHANGED corpus

\* Nothing asked for: no --path.  Or anything raises: the settings file, the
\* database, the connector.
Refuse(c) ==
  /\ Started(c)
  /\ IF c.program = "cli" /\ Operation(c) = None THEN Ended("1") ELSE Ended("raised")
  /\ UNCHANGED corpus

-------------------------------------------------------------------------------
(* The loop *)

Enter == pc' = "read" /\ place' = place + 1 /\ version' = None /\ vectors' = None

\* Mutant: a failed file is tried again.
Failed_Retry ==
  IF args.program = "sync"
    THEN /\ pc' = "idle" /\ exit' = "raised" /\ taken' = Append(taken, None)
         /\ UNCHANGED <<place, version, vectors, summary>>
    ELSE pc' = "read" /\ UNCHANGED <<place, version, vectors, summary, exit, taken>>

\* Mutant: a failed file is passed over in silence.
Failed_Silently ==
  /\ taken' = Append(taken, None)
  /\ IF args.program = "sync"
       THEN pc' = "idle" /\ exit' = "raised" /\ UNCHANGED <<place, version, vectors, summary>>
       ELSE Enter /\ UNCHANGED <<summary, exit>>

\* An exception inside the loop.
Failed ==
  /\ taken' = Append(taken, None)
  /\ IF args.program = "sync"
       THEN pc' = "idle" /\ exit' = "raised" /\ UNCHANGED <<place, version, vectors, summary>>
       ELSE /\ summary' = [summary EXCEPT !.errors = @ \union {place}]
            /\ Enter /\ UNCHANGED exit

\* ingest_file, or fetch_resource, and the chunking of what it returns.
Read ==
  LET content == sources[inputs[place]]
  IN  /\ pc = "read" /\ place <= Len(inputs)
      /\ content # None
      /\ args.program = "cli" => content \notin TooLarge
      /\ version' = content
      /\ pc' = "embed"
      /\ UNCHANGED <<given, world, corpus, local, place, vectors, summary, exit, taken>>

\* A file is gone, too large, cannot be read, or Tika fails on it; or a resource
\* cannot be fetched, which the sync passes over.
Unreadable ==
  /\ pc = "read" /\ place <= Len(inputs)
  /\ IF args.program = "cli" THEN Failed
     ELSE Enter /\ taken' = Append(taken, None) /\ UNCHANGED <<summary, exit>>
  /\ UNCHANGED <<given, world, corpus, local>>

Embed ==
  /\ pc = "embed"
  /\ vectors' \in IF args.embed
                    THEN Embeddings(Provider(env, file), TextsOf[version], Dimension(env, file))
                    ELSE {None}
  /\ pc' = "upsert"
  /\ UNCHANGED <<given, world, corpus, local, place, version, summary, exit, taken>>

\* Mutant: the row of a known URI is deleted first, and its chunks with it.
Upsert_Replaces ==
  /\ pc = "upsert"
  /\ documents' = [documents EXCEPT ![Here] = Row(place)]
  /\ chunks' = [chunks EXCEPT ![Here] = <<>>]
  /\ pc' = "replace"
  /\ UNCHANGED <<given, world, local, place, version, vectors, summary, exit, taken>>

\* upsert_document, which commits.
Upsert ==
  /\ pc = "upsert"
  /\ documents' = [documents EXCEPT ![Here] = Row(place)]
  /\ pc' = "replace"
  /\ UNCHANGED <<given, world, chunks, local, place, version, vectors, summary, exit, taken>>

\* replace_chunks, which commits, and the counts.
Replace ==
  /\ pc = "replace"
  /\ vectors # None => Len(vectors) = Len(TextsOf[version])
  /\ Accepted(vectors)
  /\ chunks' = [chunks EXCEPT ![Here] = Rows(args.tenant, version, vectors)]
  /\ summary' = [summary EXCEPT !.documents = @ + 1, !.chunks = @ + Len(TextsOf[version])]
  /\ taken' = Append(taken, version)
  /\ Enter
  /\ UNCHANGED <<given, world, documents, local, exit>>

\* The provider, the first or the second call of the repository raises: a call
\* of it always can.
Raise ==
  /\ \/ pc = "embed" /\ args.embed
     \/ pc \in {"upsert", "replace"}
  /\ Failed
  /\ UNCHANGED <<given, world, corpus, local>>

Finish ==
  /\ pc = "read" /\ place > Len(inputs)
  /\ pc' = "idle" /\ exit' = "0"
  /\ UNCHANGED <<given, world, corpus, local, place, version, vectors, summary, taken>>

\* The process dies.
Kill ==
  /\ pc # "idle"
  /\ pc' = "idle" /\ exit' = "killed"
  /\ UNCHANGED <<given, world, corpus, local, place, version, vectors, summary, taken>>

Terminated == pc = "idle" /\ started = MaxRuns /\ UNCHANGED vars

Step == Read \/ Unreadable \/ Embed \/ Upsert \/ Replace \/ Raise \/ Finish

Next ==
  \/ Edit
  \/ \E c \in Commands : Look(c) \/ Delete(c) \/ Reembed(c) \/ Ingest(c) \/ Refuse(c)
  \/ Step \/ Kill \/ Terminated

Spec == Init /\ [][Next]_vars

\* A program that is not killed runs on.
FairSpec == Spec /\ WF_vars(Step)

-------------------------------------------------------------------------------
(* Properties *)

\* Whatever fails, and wherever a program dies: the chunks of a URI are those of
\* its last source that was ingested to the end, or still those from before the
\* run; its document is that of the last source, or one that failed after its
\* upsert; and URIs the loop has not come to are untouched.  Starting the
\* program again repairs what the first run left undone.
CorpusFollowsInputs ==
  inputs # <<>> => \A u \in Uri :
    LET mine == { i \in DOMAIN inputs : UriOf[inputs[i]] = u }
        done == { i \in mine : i \in DOMAIN taken /\ taken[i] # None }
        last == CHOOSE i \in done : \A j \in done : j <= i
        later == { i \in mine : i > last /\ i <= place }
    IN  /\ IF done = {} THEN chunks[u] = before[2][u]
           ELSE /\ Len(chunks[u]) = Len(TextsOf[taken[last]])
                /\ \A k \in DOMAIN chunks[u] :
                     /\ chunks[u][k].text = TextsOf[taken[last]][k]
                     /\ chunks[u][k].tenant = args.tenant
        /\ (done # {} /\ later = {}) =>
             documents[u] # None /\ documents[u].version = taken[last]
                                 /\ documents[u].tenant = args.tenant
        /\ (\A i \in mine : i > place) => documents[u] = before[1][u]

\* The report that a program prints at its end counts the sources it has ingested,
\* and its number of chunks is what the store now has of them - unless two of them
\* have one URI, as a file and a symbolic link to it do: the second ingestion
\* replaces the chunks of the first, and both are counted.  The command line's
\* report lists every file it has not ingested; the sync's lists nothing, and of
\* the resources it could not fetch tells no more than how many they are, as the
\* difference of those discovered and those ingested.
ReportIsTrue ==
  LET good == { i \in DOMAIN inputs : i \in DOMAIN taken /\ taken[i] # None }
      distinct == \A i, j \in DOMAIN inputs : UriOf[inputs[i]] = UriOf[inputs[j]] => i = j
      stored(i) == {i} \X (1 .. Len(chunks[UriOf[inputs[i]]]))
  IN  exit = "0" /\ inputs # <<>> =>
        /\ summary.errors = IF args.program = "cli" THEN DOMAIN inputs \ good ELSE {}
        /\ summary.documents = Cardinality(good)
        /\ distinct => summary.chunks = Cardinality(UNION { stored(i) : i \in good })

\* A stored vector is the one of its chunk's text, in the dimension of the
\* column, although services answer in any order, or not for all texts.
VectorsOfTexts ==
  \A u \in Uri : \A i \in DOMAIN chunks[u] :
    LET v == chunks[u][i].vector
    IN  v # None => v.of = chunks[u][i].text /\ v.dim = ColumnDimension

\* A document disappears only in a program that was asked for this removal, of
\* this tenant's documents - and a purge confirmed; a program that was also
\* asked for a diagnostic, or for a purge it was not given confirmation of,
\* removes nothing at all.
RemovalsAreAskedFor ==
  [][ \A u \in Uri : documents[u] # None /\ documents'[u] = None =>
        LET c == args'
            d == documents[u]
        IN  /\ c.program = "cli"
            /\ c.asked \intersect {"index_status", "check_consistency", "reembed"} = {}
            /\ "purge_tenant" \in c.asked => c.confirm
            /\ \/ "purge_tenant" \in c.asked /\ d.tenant = Cleaned[c.purge]
               \/ "delete_document" \in c.asked /\ u = c.uri /\ d.tenant = Cleaned[c.tenant]
               \/ /\ "delete_source_type" \in c.asked
                  /\ d.format = c.format /\ d.tenant = Cleaned[c.tenant] ]_vars

\* Every program ends, whatever fails.
EveryRunEnds == pc # "idle" ~> pc = "idle"

\* The database a program connects to is given by the first source that has a
\* say: KF_DB_*, POSTGRES_*, DATABASE_URL, the settings file, the default - where
\* an empty variable has no say, except that it empties a password.
SettingsHavePrecedence ==
  \A k \in Key :
    LET says == << Given(env.kf[k]), Given(env.pg[k]),
                   k = "password" /\ (env.kf[k] = Empty \/ env.pg[k] = Empty),
                   IF env.url = Unset THEN FALSE
                   ELSE IF k = "password" THEN env.url[k] # Unset ELSE Given(env.url[k]),
                   k \in DOMAIN file, TRUE >>
        first == CHOOSE i \in DOMAIN says : says[i] /\ \A j \in 1 .. i - 1 : ~ says[j]
    IN  Database(env, file)[k] =
          CASE first = 1 -> env.kf[k] [] first = 2 -> env.pg[k] [] first = 3 -> Empty
            [] first = 4 -> env.url[k] [] first = 5 -> file[k] [] first = 6 -> DefaultOf[k]
===============================================================================
