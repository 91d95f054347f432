--------------------------- MODULE EmbeddingProviders ---------------------------
(***************************************************************************)
(* embed_texts of the providers (src/src/knowledge_fabric/embeddings/      *)
(* providers.py): how a list of vectors is made of a list of texts.        *)
(*                                                                         *)
(* A service answers a request with items: an item has the index of its    *)
(* text and the vector.  Services answer in the order of the texts, except *)
(* the routers behind OpenRouter, whose items come in any order; any of    *)
(* them may leave out the end of the list.  No answer at all - an error, a *)
(* timeout - raises, which is up to the caller's module.                   *)
(***************************************************************************)
EXTENDS Naturals, Sequences, FiniteSets

\* One request for each text (MockEmbeddingProvider computes its vectors), or
\* one for all.
OneByOne == {"mock", "ollama"}
Unordered == {"openrouter"}

Vector(text, dim) == [of |-> text, dim |-> dim]

Item(texts, i, dim) == [index |-> i - 1, vector |-> Vector(texts[i], dim)]

\* The answers a service can give to the texts.
Replies(provider, texts, dim) ==
  LET items(n) == [i \in 1 .. n |-> Item(texts, i, dim)]
      whole == { items(n) : n \in {Len(texts), IF texts = <<>> THEN 0 ELSE Len(texts) - 1} }
  IN  IF provider \in Unordered
        THEN { [i \in DOMAIN r |-> r[p[i]]] : r \in {items(Len(texts))},
                 p \in { f \in [DOMAIN texts -> DOMAIN texts] :
                           \A i, j \in DOMAIN texts : i # j => f[i] # f[j] } }
             \union whole
        ELSE whole

\* sorted(result["data"], key=index), a stable sort.
ByIndex(reply) ==
  LET before(i, j) == reply[i].index < reply[j].index \/ (reply[i].index = reply[j].index /\ i < j)
      place(j) == 1 + Cardinality({ i \in DOMAIN reply : before(i, j) })
  IN  [k \in DOMAIN reply |-> reply[CHOOSE j \in DOMAIN reply : place(j) = k]]

\* Mutant: OpenRouter's items are taken as they come.
Taken_AsTheyCome(provider, reply) == reply

Taken(provider, reply) == IF provider \in Unordered THEN ByIndex(reply) ELSE reply

\* embed_texts: what it can return.
Embeddings(provider, texts, dim) ==
  IF provider \in OneByOne \union {"local"}
    THEN { [i \in DOMAIN texts |-> Vector(texts[i], dim)] }
    ELSE { LET taken == Taken(provider, r) IN [i \in DOMAIN taken |-> taken[i].vector] :
             r \in Replies(provider, texts, dim) }
===============================================================================
