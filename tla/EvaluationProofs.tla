--------------------------- MODULE EvaluationProofs ---------------------------
(***************************************************************************)
(* Proofs about Evaluation, for every data set, every list of modes, every *)
(* quality gate and output, TopK and discount.                             *)
(***************************************************************************)
EXTENDS Evaluation, FiniteSetTheorems, WellFoundedInduction, TLAPS

-------------------------------------------------------------------------------
(* Where the loops are *)

Stages  == {"retrieve", "fuse", "score", "summarize", "gate", "done"}
InQuery == {"retrieve", "fuse", "score"}

LoopsOK ==
  /\ dataset \in Datasets /\ modes \in ModeLists
  /\ stage \in Stages /\ turn \in Nat \ {0} /\ number \in Nat \ {0}
  /\ stage \in InQuery \union {"summarize"} => turn <= Len(modes)
  /\ stage \in InQuery => number <= Len(dataset.queries)
  /\ scored \in Seq(Range(scored))

\* The turns of the loop over the modes that have been summarized, and what was
\* scored in one.
Turns == IF stage \in {"gate", "done"} THEN Len(modes) ELSE turn - 1
Of(t) == { i \in DOMAIN scored : scored[i].turn = t }

Reported ==
  /\ DOMAIN report = { modes[t] : t \in 1 .. Turns }
  /\ \A t \in 1 .. Turns : (\A u \in t + 1 .. Turns : modes[u] # modes[t]) =>
       report[modes[t]].overall = Means(Of(t))
  /\ stage # "done" => exit = None

InputsOK ==
  /\ modes \in Seq({"lexical", "vector", "hybrid"}) /\ Len(modes) \in Nat
  /\ dataset.queries \in Seq(Range(dataset.queries)) /\ Len(dataset.queries) \in Nat

\* The lists of modes and queries are sequences.
LEMMA InputFacts ==
  ASSUME LoopsOK
  PROVE  InputsOK
BY EvaluationAssumption DEF LoopsOK, InputsOK

\* The means are of the entries at their places alone.
LEMMA MeansStay ==
  ASSUME NEW P, \A i \in P : scored'[i] = scored[i]
  PROVE  Means(P)' = Means(P)
<1>1. ASSUME NEW Q \in SUBSET P, NEW metric
      PROVE  Mean(Q, metric)' = Mean(Q, metric)
  <2>1. [i \in Q |-> scored[i].metrics[metric]]' = [i \in Q |-> scored[i].metrics[metric]]
    BY <1>1
  <2> QED BY <2>1 DEF Mean
<1> DEFINE answered == { i \in P : scored[i].answerable }
<1>2. answered' = answered /\ answered \in SUBSET P /\ P \ answered \in SUBSET P
  OBVIOUS
<1> QED BY <1>1, <1>2 DEF Means

\* The first turn, and the first query of a turn.
LEMMA InitiallyOK == Init => LoopsOK /\ Reported
<1> SUFFICES ASSUME Init PROVE LoopsOK /\ Reported
  OBVIOUS
<1>1. /\ modes \in Seq({"lexical", "vector", "hybrid"}) /\ Len(modes) \in Nat
      /\ dataset.queries \in Seq(Range(dataset.queries)) /\ Len(dataset.queries) \in Nat
  BY EvaluationAssumption DEF Init
<1>2. /\ modes # <<>> => Len(modes) >= 1
      /\ dataset.queries # <<>> => Len(dataset.queries) >= 1
  BY <1>1
<1>3. LoopsOK
  BY <1>1, <1>2 DEF Init, LoopsOK, Queries, Stages, InQuery, Range
<1>4. Turns = 0 /\ stage # "done"
  BY <1>1 DEF Init, Turns, Queries
<1> QED BY <1>3, <1>4 DEF Init, Reported

\* A query is retrieved and fused: nothing is scored or reported.
LEMMA RetrievalSteps ==
  ASSUME LoopsOK, Reported, Retrieve \/ Accumulate \/ Fuse
  PROVE  LoopsOK' /\ Reported'
<1>1. /\ UNCHANGED <<dataset, modes, gates, turn, number, scored, report, exit>>
      /\ stage \in InQuery /\ stage' \in InQuery
  BY DEF Retrieve, Accumulate, Fuse, input, InQuery
<1>2. LoopsOK'
  BY <1>1 DEF LoopsOK, InQuery, Stages
<1>3. Turns' = Turns /\ \A t : Of(t)' = Of(t)
  BY <1>1 DEF Turns, Of, InQuery
<1>4. \A t : Means(Of(t))' = Means(Of(t))
  <2> SUFFICES ASSUME NEW t PROVE Means(Of(t))' = Means(Of(t))
    OBVIOUS
  <2>1. PICK P : P = Of(t)
    OBVIOUS
  <2>2. Means(P)' = Means(P)
    BY <1>1, MeansStay
  <2> QED BY <1>1 DEF Means, Mean, Of
<1> QED BY <1>1, <1>2, <1>3, <1>4 DEF Reported, InQuery

\* One more is scored; what has been stays.
LEMMA OneMoreScored ==
  ASSUME LoopsOK, Score
  PROVE  /\ scored' \in Seq(Range(scored'))
         /\ Len(scored) \in Nat /\ DOMAIN scored = 1 .. Len(scored)
         /\ DOMAIN scored' = 1 .. Len(scored) + 1
         /\ \A i \in DOMAIN scored : scored'[i] = scored[i]
         /\ scored'[Len(scored) + 1] = Entry
<1> DEFINE S == Range(scored) \union {Entry}
<1>1. scored \in Seq(S) /\ Entry \in S /\ scored' = Append(scored, Entry)
  <2>1. scored \in Seq(Range(scored))
    BY DEF LoopsOK
  <2>2. scored' = Append(scored, Entry)
    BY DEF Score
  <2> QED BY <2>1, <2>2
<1> HIDE DEF S
<1>2. /\ Len(scored) \in Nat /\ DOMAIN scored = 1 .. Len(scored)
      /\ scored' \in Seq(S) /\ DOMAIN scored' = 1 .. Len(scored) + 1 /\ Len(scored') = Len(scored) + 1
      /\ \A i \in DOMAIN scored : scored'[i] = scored[i]
      /\ scored'[Len(scored) + 1] = Entry
  BY <1>1
<1>3. scored' \in Seq(Range(scored'))
  <2>1. \A i \in 1 .. Len(scored') : scored'[i] \in Range(scored')
    BY <1>2 DEF Range
  <2> QED BY <1>2, <2>1
<1> QED BY <1>2, <1>3

\* A scored query is of the present turn: no earlier mean changes.
LEMMA ScoreStep ==
  ASSUME LoopsOK, Reported, Score
  PROVE  LoopsOK' /\ Reported'
<1>1. /\ UNCHANGED <<dataset, modes, gates, turn, report, exit>>
      /\ stage = "score" /\ stage' \in {"retrieve", "summarize"}
      /\ IF stage' = "retrieve" THEN number < Len(dataset.queries) /\ number' = number + 1
         ELSE number' = number
  BY DEF Score, input
<1>2. LoopsOK'
  BY <1>1, InputFacts, OneMoreScored DEF LoopsOK, InQuery, Stages, InputsOK
<1>3. Turns' = Turns /\ Turns = turn - 1 /\ turn \in Nat
  BY <1>1 DEF Turns, LoopsOK
<1>4. \A t \in 1 .. Turns : Of(t)' = Of(t)
  <2>1. Entry.turn = turn
    BY DEF Entry
  <2> QED BY <1>3, <2>1, OneMoreScored DEF Of
<1>5. \A t \in 1 .. Turns : Means(Of(t))' = Means(Of(t))
  <2> SUFFICES ASSUME NEW t \in 1 .. Turns PROVE Means(Of(t))' = Means(Of(t))
    OBVIOUS
  <2>1. PICK P : P = Of(t)
    OBVIOUS
  <2>2. \A i \in P : scored'[i] = scored[i]
    BY <2>1, OneMoreScored DEF Of
  <2>3. Means(P)' = Means(P)
    BY <2>2, MeansStay
  <2>4. Means(Of(t))' = Means(P)'
    BY <1>4, <2>1 DEF Means, Mean
  <2> QED BY <2>1, <2>3, <2>4
<1> QED BY <1>1, <1>2, <1>3, <1>5 DEF Reported

\* The summary is of the entries of its turn.
LEMMA SummarizeStep ==
  ASSUME LoopsOK, Reported, Summarize
  PROVE  LoopsOK' /\ Reported'
<1>1. /\ UNCHANGED <<dataset, modes, gates, scored, exit>> /\ stage = "summarize"
      /\ IF turn < Len(modes) THEN stage' = Queries /\ turn' = turn + 1 /\ number' = 1
         ELSE stage' = "gate" /\ UNCHANGED <<turn, number>>
  BY DEF Summarize, input
<1>2. /\ modes \in Seq({"lexical", "vector", "hybrid"}) /\ Len(modes) \in Nat
      /\ dataset.queries \in Seq(Range(dataset.queries)) /\ Len(dataset.queries) \in Nat
      /\ turn \in Nat \ {0} /\ turn <= Len(modes)
  BY <1>1, InputFacts DEF InputsOK, LoopsOK
<1>3. Queries \in {"summarize", "retrieve"} /\ (Queries = "retrieve" => Len(dataset.queries) >= 1)
  BY <1>2 DEF Queries
<1>4. LoopsOK'
  BY <1>1, <1>2, <1>3 DEF LoopsOK, InQuery, Stages
<1>5. Turns = turn - 1 /\ Turns' = turn
  BY <1>1, <1>2, <1>3 DEF Turns
<1>6. /\ DOMAIN report' = DOMAIN report \union {modes[turn]}
      /\ report'[modes[turn]].overall = Means(Of(turn))
      /\ \A m \in DOMAIN report : m # modes[turn] => report'[m] = report[m]
  BY DEF Summarize, Of, CurrentMode
<1>7. \A t : Means(Of(t))' = Means(Of(t))
  BY <1>1 DEF Means, Mean, Of
<1>8. DOMAIN report' = { modes'[t] : t \in 1 .. Turns' }
  BY <1>1, <1>2, <1>5, <1>6 DEF Reported
<1>9. ASSUME NEW t \in 1 .. turn, \A u \in t + 1 .. turn : modes[u] # modes[t]
      PROVE  report'[modes[t]].overall = Means(Of(t))
  <2>1. CASE t = turn
    BY <1>6, <2>1
  <2>2. CASE t # turn
    <3>1. t \in 1 .. turn - 1 /\ modes[t] # modes[turn]
      BY <1>2, <1>9, <2>2
    <3>2. report[modes[t]].overall = Means(Of(t)) /\ modes[t] \in DOMAIN report
      BY <1>2, <1>5, <1>9, <3>1 DEF Reported
    <3> QED BY <1>6, <3>1, <3>2
  <2> QED BY <2>1, <2>2
<1>10. stage' # "done" /\ exit' = None
  BY <1>1, <1>3 DEF Reported
<1> QED BY <1>1, <1>4, <1>5, <1>7, <1>8, <1>9, <1>10 DEF Reported

\* The gates read the report and change nothing of it.
LEMMA GateStep ==
  ASSUME LoopsOK, Reported, Gate
  PROVE  LoopsOK' /\ Reported'
<1>1. /\ UNCHANGED <<dataset, modes, gates, turn, number, scored, report>>
      /\ stage = "gate" /\ stage' = "done"
  BY DEF Gate, input
<1>2. LoopsOK'
  BY <1>1 DEF LoopsOK, InQuery, Stages
<1>3. Turns' = Turns /\ \A t : Means(Of(t))' = Means(Of(t))
  BY <1>1 DEF Turns, Means, Mean, Of
<1> QED BY <1>1, <1>2, <1>3 DEF Reported

\* Every step keeps the places of the loops and what has been reported.
LEMMA NextOK == LoopsOK /\ Reported /\ [Next]_vars => LoopsOK' /\ Reported'
<1> SUFFICES ASSUME LoopsOK, Reported, [Next]_vars PROVE LoopsOK' /\ Reported'
  OBVIOUS
<1>1. CASE Retrieve \/ Accumulate \/ Fuse
  BY <1>1, RetrievalSteps
<1>2. CASE Score \/ Summarize \/ Gate
  BY <1>2, ScoreStep, SummarizeStep, GateStep
<1>3. CASE Done \/ UNCHANGED vars
  <2>1. UNCHANGED <<dataset, modes, gates, stage, turn, number, scored, report, exit>>
    BY <1>3 DEF Done, vars, input
  <2>2. Turns' = Turns /\ \A t : Means(Of(t))' = Means(Of(t))
    BY <2>1 DEF Turns, Means, Mean, Of
  <2> QED BY <2>1, <2>2 DEF LoopsOK, Reported, InQuery
<1> QED BY <1>1, <1>2, <1>3 DEF Next

-------------------------------------------------------------------------------
(* The gates *)

\* The order of the natural numbers, as the library's theorem on least
\* elements wants it.
Less == { ss \in Nat \X Nat : ss[1] < ss[2] }

\* The naturals are well-founded.
LEMMA LessIsWellFounded == IsWellFoundedOn(Less, Nat)
BY NatLessThanWellFounded, Zenon DEF OpToRel, Less

\* Every set of naturals that is not empty has a least element.
LEMMA LeastNat ==
  ASSUME NEW S \in SUBSET Nat, S # {}
  PROVE  \E x \in S : \A y \in S : x <= y
<1>1. \E x \in S : \A y \in S : <<y, x>> \notin Less
  BY WFMin, LessIsWellFounded, Zenon
<1>2. PICK x \in S : \A y \in S : <<y, x>> \notin Less
  BY <1>1, Zenon
<1>3. ASSUME NEW y \in S PROVE x <= y
  <2>1. <<y, x>> \notin Less
    BY <1>2
  <2> QED BY <2>1 DEF Less
<1> QED BY <1>3

\* The last of some places is one of them.
LEMMA MaxOf ==
  ASSUME NEW n \in Nat, NEW S \in SUBSET (1 .. n), S # {}
  PROVE  Max(S) \in S /\ \A y \in S : y <= Max(S)
<1> DEFINE R == { n - y : y \in S }
<1>1. R \in SUBSET Nat /\ R # {}
  OBVIOUS
<1> HIDE DEF R
<1>2. PICK r \in R : \A z \in R : r <= z
  BY <1>1, LeastNat, Zenon
<1>3. PICK x \in S : r = n - x
  BY DEF R
<1>4. ASSUME NEW y \in S PROVE x >= y
  <2>1. n - y \in R
    BY DEF R
  <2>2. r <= n - y
    BY <1>2, <2>1
  <2> QED BY <1>3, <2>2
<1>5. \E z \in S : \A y \in S : z >= y
  BY <1>4
<1>6. Max(S) \in S /\ \A y \in S : Max(S) >= y
  BY <1>5, Zenon DEF Max
<1> QED BY <1>6

\* The gates read the report of the last turn that was of the hybrid mode.
LEMMA GatesAreRight ==
  ASSUME LoopsOK, Reported, Gate, outputs \in Seq({"console", "json", "markdown"})
  PROVE  ExitCodeIsVerdict'
<1> DEFINE hybrid == { t \in DOMAIN modes : modes[t] = "hybrid" }
           entries == { i \in DOMAIN scored : scored[i].turn = Max(hybrid) /\ scored[i].answerable }
           metrics == {"mrr", "recall", "ndcg"}
<1>1. /\ UNCHANGED <<modes, gates, outputs, scored>> /\ Turns = Len(modes)
      /\ written' \in 0 .. Len(outputs)
      /\ exit' = IF written' < Len(outputs) \/ \E f \in metrics : GateFails(f) THEN 1 ELSE 0
  BY DEF Gate, input, Turns
<1>2. modes \in Seq({"lexical", "vector", "hybrid"}) /\ Len(modes) \in Nat /\ DOMAIN modes = 1 .. Len(modes)
  BY InputFacts DEF InputsOK
<1>3. (hybrid # {}) <=> ("hybrid" \in DOMAIN report)
  BY <1>1, <1>2 DEF Reported
<1>4. ASSUME hybrid # {}, NEW f \in metrics
      PROVE  report["hybrid"].overall[f] = Mean(entries, f)
  <2>1. PICK last \in hybrid : last = Max(hybrid) /\ \A t \in hybrid : t <= last
    BY <1>2, <1>4, MaxOf
  <2>2. last \in 1 .. Turns /\ modes[last] = "hybrid"
    BY <1>1, <1>2, <2>1
  <2>3. ASSUME NEW u \in last + 1 .. Turns PROVE modes[u] # modes[last]
    <3>1. u \in DOMAIN modes /\ ~ (u <= last)
      BY <1>1, <1>2, <2>2
    <3>2. u \notin hybrid
      BY <2>1, <3>1
    <3> QED BY <2>2, <3>1, <3>2
  <2>4. report["hybrid"].overall = Means(Of(last))
    BY <2>2, <2>3 DEF Reported
  <2>5. entries = { i \in Of(last) : scored[i].answerable }
    BY <2>1 DEF Of
  <2>6. Means(Of(last))[f] = Mean({ i \in Of(last) : scored[i].answerable }, f)
    BY DEF Means
  <2> HIDE DEF entries
  <2> QED BY <2>4, <2>5, <2>6
<1> HIDE DEF hybrid, entries
<1>5. (\E f \in metrics : GateFails(f)) <=>
        (hybrid = {} \/ \E f \in metrics : gates[f] # None /\ Exceeds(gates[f], Mean(entries, f)))
  BY <1>3, <1>4 DEF GateFails
<1>6. exit' = 0 <=> /\ hybrid # {}
                    /\ \A f \in metrics : gates[f] # None => ~ Exceeds(gates[f], Mean(entries, f))
                    /\ written' = Len(outputs)
  <2>1. ~ (written' < Len(outputs)) <=> written' = Len(outputs)
    BY <1>1
  <2> QED BY <1>1, <1>5, <2>1
<1>7. hybrid' = hybrid /\ entries' = entries /\ gates' = gates /\ \A f : Mean(entries, f)' = Mean(entries, f)
  BY <1>1 DEF hybrid, entries, Mean
<1>8. Len(outputs)' = Len(outputs)
  BY <1>1
<1> QED BY <1>6, <1>7, <1>8 DEF ExitCodeIsVerdict, hybrid, entries

OutputsOK == outputs \in Seq({"console", "json", "markdown"})

\* The exit code is the verdict of the gates that were set, on the means of the
\* hybrid mode, and of the outputs: runner.py:95-111, 688-739.
THEOREM ExitCodes == Spec => []ExitCodeIsVerdict
<1>1. Init => ExitCodeIsVerdict
  BY DEF Init, ExitCodeIsVerdict
<1>2. ASSUME LoopsOK, Reported, OutputsOK, ExitCodeIsVerdict, [Next]_vars
      PROVE  ExitCodeIsVerdict'
  <2>1. CASE Gate
    BY <1>2, <2>1, GatesAreRight DEF OutputsOK
  <2>2. CASE Retrieve \/ Accumulate \/ Fuse \/ Score \/ Summarize
    <3>1. stage # "done" /\ exit' = exit
      BY <2>2 DEF Retrieve, Accumulate, Fuse, Score, Summarize
    <3> QED BY <1>2, <3>1 DEF Reported, ExitCodeIsVerdict
  <2>3. CASE Done \/ UNCHANGED vars
    <3>1. UNCHANGED <<modes, gates, outputs, scored, written, exit>>
      BY <2>3 DEF Done, vars, input
    <3> QED BY <1>2, <3>1 DEF ExitCodeIsVerdict, Mean
  <2> QED BY <1>2, <2>1, <2>2, <2>3 DEF Next
<1>3. Init => OutputsOK
  BY EvaluationAssumption DEF Init, OutputsOK
<1>4. OutputsOK /\ [Next]_vars => OutputsOK'
  <2> SUFFICES ASSUME OutputsOK, [Next]_vars PROVE outputs' = outputs
    BY DEF OutputsOK
  <2> QED BY DEF Next, Retrieve, Accumulate, Fuse, Score, Summarize, Gate, Done, vars, input
<1> QED BY <1>1, <1>2, <1>3, <1>4, InitiallyOK, NextOK, PTL DEF Spec

-------------------------------------------------------------------------------
(* Fractions, and lists in order *)

\* Multiplying by a positive number keeps the order, and dividing by it.
LEMMA Scaled ==
  ASSUME NEW x \in Nat, NEW y \in Nat, NEW k \in Nat \ {0}
  PROVE  (x * k > y * k) <=> (x > y)
<1>1. CASE x > y
  <2>1. PICK e \in Nat \ {0} : x = y + e
    <3>1. x - y \in Nat \ {0} /\ x = y + (x - y)
      BY <1>1
    <3> QED BY <3>1
  <2>2. x * k = y * k + e * k /\ e * k > 0 /\ y * k \in Nat
    BY <2>1
  <2> QED BY <1>1, <2>2
<1>2. CASE x = y
  BY <1>2
<1>3. CASE x < y
  <2>1. PICK e \in Nat : y = x + e
    <3>1. y - x \in Nat /\ y = x + (y - x)
      BY <1>3
    <3> QED BY <3>1
  <2>2. y * k = x * k + e * k /\ e * k >= 0 /\ x * k \in Nat
    BY <2>1
  <2> QED BY <1>3, <2>2
<1> QED BY <1>1, <1>2, <1>3

Fraction == Nat \X (Nat \ {0})

\* Comparing fractions by products is a strict order with ties.
LEMMA ExceedsFacts ==
  ASSUME NEW p \in Fraction, NEW q \in Fraction, NEW r \in Fraction
  PROVE  /\ Exceeds(p, q) => ~ Exceeds(q, p)
         /\ Exceeds(p, q) /\ ~ Exceeds(r, q) => Exceeds(p, r)
         /\ ~ Exceeds(q, p) /\ Exceeds(q, r) => Exceeds(p, r)
         /\ ~ Exceeds(q, p) /\ ~ Exceeds(r, q) => ~ Exceeds(r, p)
<1>1. PICK a \in Nat, b \in Nat \ {0} : p = <<a, b>>
  BY DEF Fraction
<1>2. PICK c \in Nat, d \in Nat \ {0} : q = <<c, d>>
  BY DEF Fraction
<1>3. PICK e \in Nat, f \in Nat \ {0} : r = <<e, f>>
  BY DEF Fraction
<1>4. \A x, y \in Nat : x * y \in Nat
  OBVIOUS
<1>5. /\ a * d \in Nat /\ c * b \in Nat /\ c * f \in Nat /\ e * d \in Nat /\ a * f \in Nat /\ e * b \in Nat
  BY <1>4
<1>6. /\ ((a * d) * f > (c * b) * f) <=> (a * d > c * b)
      /\ ((c * b) * f > (a * d) * f) <=> (c * b > a * d)
      /\ ((c * f) * b > (e * d) * b) <=> (c * f > e * d)
      /\ ((e * d) * b > (c * f) * b) <=> (e * d > c * f)
      /\ ((a * f) * d > (e * b) * d) <=> (a * f > e * b)
      /\ ((e * b) * d > (a * f) * d) <=> (e * b > a * f)
  BY <1>5, Scaled
<1>7. (a * d) * f = (a * f) * d /\ (c * b) * f = (c * f) * b /\ (e * d) * b = (e * b) * d
  OBVIOUS
<1>8. (a * d) * f \in Nat /\ (c * b) * f \in Nat /\ (e * d) * b \in Nat
  BY <1>4, <1>5
<1> QED BY <1>1, <1>2, <1>3, <1>5, <1>6, <1>7, <1>8 DEF Exceeds

\* A finite set with a strict total order R can be listed in that order.
IsOrder(R, S) ==
  /\ \A x \in S : <<x, x>> \notin R
  /\ \A x, y \in S : x = y \/ <<x, y>> \in R \/ <<y, x>> \in R
  /\ \A x, y, z \in S : <<x, y>> \in R /\ <<y, z>> \in R => <<x, z>> \in R

\* The elements of a finite set, counted by how many are before them.
LEMMA SortedExists ==
  ASSUME NEW S, IsFiniteSet(S), NEW R, IsOrder(R, S)
  PROVE  \E f \in [1 .. Cardinality(S) -> S] :
           \A i, j \in DOMAIN f : i < j => <<f[i], f[j]>> \in R
<1> DEFINE n == Cardinality(S)
           Below(x) == { y \in S : <<y, x>> \in R }
           rank == [x \in S |-> Cardinality(Below(x)) + 1]
<1>1. n \in Nat
  BY FS_CardinalityType
<1>2. ASSUME NEW x \in S PROVE IsFiniteSet(Below(x)) /\ Cardinality(Below(x)) \in Nat /\ Cardinality(Below(x)) < n
  <2>1. Below(x) \in SUBSET S /\ Below(x) # S
    BY DEF IsOrder
  <2> HIDE DEF Below
  <2>2. IsFiniteSet(Below(x)) /\ Cardinality(Below(x)) <= n /\ Cardinality(Below(x)) # n
    BY <2>1, FS_Subset
  <2> QED BY <1>1, <2>2, FS_CardinalityType
<1>3. ASSUME NEW x \in S, NEW y \in S, <<x, y>> \in R PROVE rank[x] < rank[y]
  <2>1. Below(x) \in SUBSET Below(y) /\ Below(x) # Below(y)
    <3>1. x \in Below(y) /\ x \notin Below(x)
      BY <1>3 DEF IsOrder
    <3>2. \A z \in Below(x) : z \in Below(y)
      BY <1>3 DEF IsOrder
    <3> QED BY <3>1, <3>2
  <2> HIDE DEF Below
  <2>2. Cardinality(Below(x)) <= Cardinality(Below(y)) /\ Cardinality(Below(x)) # Cardinality(Below(y))
    BY <1>2, <2>1, FS_Subset
  <2>3. rank[x] = Cardinality(Below(x)) + 1 /\ rank[y] = Cardinality(Below(y)) + 1
    OBVIOUS
  <2> QED BY <1>2, <2>2, <2>3
<1>4. rank \in [S -> 1 .. n]
  <2> HIDE DEF Below, n
  <2> QED BY <1>1, <1>2
<1> HIDE DEF Below, rank, n
<1>5. rank \in Injection(S, 1 .. n)
  <2>1. ASSUME NEW x \in S, NEW y \in S, x # y PROVE rank[x] # rank[y]
    <3>1. rank[x] < rank[y] \/ rank[y] < rank[x]
      BY <1>3, <2>1 DEF IsOrder
    <3> QED BY <1>1, <1>4, <3>1
  <2> QED BY <1>4, <2>1 DEF Injection, IsInjective
<1>6. rank \in Surjection(S, 1 .. n)
  <2>1. IsFiniteSet(1 .. n) /\ Cardinality(1 .. n) = n
    BY <1>1, FS_Interval
  <2> QED BY <1>5, <2>1, FS_Injection DEF n
<1>7. \A i \in 1 .. n : \E x \in S : rank[x] = i
  BY <1>6 DEF Surjection
<1> DEFINE f == [i \in 1 .. n |-> CHOOSE x \in S : rank[x] = i]
<1>8. \A i \in 1 .. n : f[i] \in S /\ rank[f[i]] = i
  BY <1>7
<1>9. f \in [1 .. n -> S] /\ DOMAIN f = 1 .. n
  BY <1>7
<1> HIDE DEF f
<1>10. ASSUME NEW i \in 1 .. n, NEW j \in 1 .. n, i < j PROVE <<f[i], f[j]>> \in R
  <2>1. f[i] \in S /\ f[j] \in S /\ rank[f[i]] = i /\ rank[f[j]] = j
    BY <1>8
  <2>2. f[i] # f[j] /\ <<f[j], f[i]>> \notin R
    BY <1>1, <1>3, <1>10, <2>1
  <2> QED BY <2>1, <2>2 DEF IsOrder
<1> QED BY <1>9, <1>10 DEF n

-------------------------------------------------------------------------------
(* The legs *)

Hit == [chunk : Nat, score : Nat]
IsLeg(leg) ==
  leg \in Seq(Hit) /\ \A i, j \in DOMAIN leg : leg[i].chunk = leg[j].chunk => i = j

\* A cut list is the beginning of the list.
LEMMA AtMostFacts ==
  ASSUME NEW T, NEW s \in Seq(T), NEW n \in Nat
  PROVE  /\ AtMost(n, s) \in Seq(T) /\ Len(AtMost(n, s)) = IF Len(s) < n THEN Len(s) ELSE n
         /\ \A i \in DOMAIN AtMost(n, s) : i \in DOMAIN s /\ AtMost(n, s)[i] = s[i]
<1> DEFINE m == IF Len(s) < n THEN Len(s) ELSE n
<1>1. m \in 0 .. Len(s) /\ AtMost(n, s) = SubSeq(s, 1, m)
  BY DEF AtMost
<1> HIDE DEF m
<1>2. SubSeq(s, 1, m) \in Seq(T) /\ Len(SubSeq(s, 1, m)) = m /\ DOMAIN SubSeq(s, 1, m) = 1 .. m
      /\ \A i \in 1 .. m : SubSeq(s, 1, m)[i] = s[i]
  BY <1>1
<1> QED BY <1>1, <1>2 DEF m

\* A search yields each chunk at most once.
LEMMA SearchIsLeg ==
  ASSUME NEW score \in Seq(Nat), dataset.corpus \in Seq(Nat \ {0}),
         Len(score) = Len(dataset.corpus)
  PROVE  IsLeg(Search(score))
<1> DEFINE S == { i \in DOMAIN dataset.corpus : score[i] > 0 }
           ahead(i, j) == score[i] > score[j] \/ (score[i] = score[j] /\ i < j)
           R == { p \in S \X S : ahead(p[1], p[2]) }
           Ordering(f) == \A i, j \in DOMAIN f : i < j => ahead(f[i], f[j])
           order == CHOOSE f \in [1 .. Cardinality(S) -> S] : Ordering(f)
           hits == [i \in DOMAIN order |-> [chunk |-> order[i], score |-> score[order[i]]]]
<1>1. S \in SUBSET (1 .. Len(score)) /\ Len(score) \in Nat /\ S \in SUBSET Nat /\ \A i \in S : score[i] \in Nat
  OBVIOUS
<1>2. IsFiniteSet(S) /\ Cardinality(S) \in Nat
  <2>1. IsFiniteSet(1 .. Len(score))
    BY <1>1, FS_Interval
  <2> QED BY <1>1, <2>1, FS_Subset, FS_CardinalityType
<1> HIDE DEF S
<1>3. IsOrder(R, S)
  <2>1. \A x, y \in S : <<x, y>> \in R <=> ahead(x, y)
    OBVIOUS
  <2> HIDE DEF R
  <2>2. ASSUME NEW x \in S, NEW y \in S, NEW z \in S
        PROVE  /\ ~ ahead(x, x) /\ (x = y \/ ahead(x, y) \/ ahead(y, x))
               /\ ahead(x, y) /\ ahead(y, z) => ahead(x, z)
    <3>1. /\ score[x] \in Nat /\ score[y] \in Nat /\ score[z] \in Nat
          /\ x \in Nat /\ y \in Nat /\ z \in Nat
      BY <1>1
    <3> QED BY <3>1
  <2> HIDE DEF ahead
  <2> QED BY <2>1, <2>2 DEF IsOrder
<1>4. \E f \in [1 .. Cardinality(S) -> S] : Ordering(f)
  <2>1. PICK f \in [1 .. Cardinality(S) -> S] : \A i, j \in DOMAIN f : i < j => <<f[i], f[j]>> \in R
    BY <1>2, <1>3, SortedExists, Zenon
  <2> QED BY <2>1
<1>5. order \in [1 .. Cardinality(S) -> S] /\ Ordering(order)
  <2> HIDE DEF Ordering
  <2> QED BY <1>4
<1> HIDE DEF order
<1>6. \A i, j \in 1 .. Cardinality(S) : order[i] = order[j] => i = j
  <2> SUFFICES ASSUME NEW i \in 1 .. Cardinality(S), NEW j \in 1 .. Cardinality(S), i < j
               PROVE  order[i] # order[j]
    BY <1>2
  <2> HIDE DEF ahead
  <2>1. ahead(order[i], order[j]) /\ order[i] \in S
    BY <1>2, <1>5
  <2>2. ~ ahead(order[i], order[i])
    <3>1. order[i] \in Nat /\ score[order[i]] \in Nat
      BY <1>1, <2>1
    <3> QED BY <3>1 DEF ahead
  <2> QED BY <2>1, <2>2
<1>7. hits \in Seq(Hit) /\ DOMAIN hits = 1 .. Cardinality(S)
      /\ \A i \in 1 .. Cardinality(S) : hits[i].chunk = order[i]
  <2>1. \A i \in 1 .. Cardinality(S) : [chunk |-> order[i], score |-> score[order[i]]] \in Hit
    BY <1>1, <1>5 DEF Hit
  <2> QED BY <1>2, <1>5, <2>1
<1>8. Search(score) = AtMost(TopK, hits)
  BY DEF Search, S, order
<1> HIDE DEF hits
<1>9. /\ Search(score) \in Seq(Hit)
      /\ \A i \in DOMAIN Search(score) : i \in DOMAIN hits /\ Search(score)[i] = hits[i]
  <2>1. TopK \in Nat
    BY EvaluationAssumption
  <2>2. hits \in Seq(Hit)
    BY <1>7
  <2>3. /\ AtMost(TopK, hits) \in Seq(Hit)
        /\ \A i \in DOMAIN AtMost(TopK, hits) : i \in DOMAIN hits /\ AtMost(TopK, hits)[i] = hits[i]
    BY <2>1, <2>2, AtMostFacts
  <2> QED BY <1>8, <2>3
<1>10. ASSUME NEW i \in DOMAIN Search(score), NEW j \in DOMAIN Search(score),
              Search(score)[i].chunk = Search(score)[j].chunk
       PROVE  i = j
  <2>1. i \in 1 .. Cardinality(S) /\ j \in 1 .. Cardinality(S) /\ hits[i].chunk = hits[j].chunk
    BY <1>7, <1>9, <1>10
  <2> QED BY <1>6, <1>7, <2>1
<1> QED BY <1>9, <1>10 DEF IsLeg

\* A chunk of a leg has the rank of its one place.
LEMMA RankOf ==
  ASSUME NEW leg, IsLeg(leg), NEW i \in DOMAIN leg
  PROVE  RankIn(leg, leg[i].chunk) = i /\ leg[i].chunk \in ChunksIn(leg)
<1>1. \A j \in DOMAIN leg : leg[j].chunk = leg[i].chunk => j = i
  BY DEF IsLeg
<1> QED BY <1>1 DEF RankIn, ChunksIn

\* A leg is a finite list of chunks and scores, and ranks are places in it.
LEMMA LegTypes ==
  ASSUME NEW leg, IsLeg(leg)
  PROVE  /\ Len(leg) \in Nat /\ DOMAIN leg = 1 .. Len(leg)
         /\ \A i \in 1 .. Len(leg) : leg[i].chunk \in Nat /\ leg[i].score \in Nat
         /\ \A c \in ChunksIn(leg) : RankIn(leg, c) \in 1 .. Len(leg) /\ leg[RankIn(leg, c)].chunk = c
<1>1. leg \in Seq(Hit)
  BY DEF IsLeg
<1>2. /\ Len(leg) \in Nat /\ DOMAIN leg = 1 .. Len(leg)
      /\ \A i \in 1 .. Len(leg) : leg[i] \in Hit
  BY <1>1
<1>3. ASSUME NEW c \in ChunksIn(leg)
      PROVE RankIn(leg, c) \in 1 .. Len(leg) /\ leg[RankIn(leg, c)].chunk = c
  <2>1. PICK i \in DOMAIN leg : leg[i].chunk = c
    BY DEF ChunksIn
  <2>2. RankIn(leg, c) = i
    BY <2>1, RankOf
  <2> QED BY <1>2, <2>1, <2>2
<1> QED BY <1>2, <1>3 DEF Hit

\* The first hits of a leg are a leg; one more adds its chunk and leaves the
\* ranks of the others.
Prefix(leg, n) == [i \in 1 .. n |-> leg[i]]

\* A prefix of a leg is a leg of the same hits.
LEMMA PrefixIsLeg ==
  ASSUME NEW leg, IsLeg(leg), NEW n \in 0 .. Len(leg)
  PROVE  IsLeg(Prefix(leg, n)) /\ Len(Prefix(leg, n)) = n /\ DOMAIN Prefix(leg, n) = 1 .. n
         /\ \A i \in 1 .. n : Prefix(leg, n)[i] = leg[i]
<1>1. leg \in Seq(Hit) /\ Len(leg) \in Nat /\ DOMAIN leg = 1 .. Len(leg)
  BY DEF IsLeg
<1>2. /\ Prefix(leg, n) \in Seq(Hit) /\ Len(Prefix(leg, n)) = n /\ DOMAIN Prefix(leg, n) = 1 .. n
      /\ \A i \in 1 .. n : Prefix(leg, n)[i] = leg[i]
  BY <1>1 DEF Prefix
<1>3. \A i, j \in 1 .. n : Prefix(leg, n)[i].chunk = Prefix(leg, n)[j].chunk => i = j
  BY <1>1, <1>2 DEF IsLeg
<1> QED BY <1>2, <1>3 DEF IsLeg

\* All hits of a leg are the leg.
LEMMA PrefixWhole ==
  ASSUME NEW leg, IsLeg(leg)
  PROVE  Prefix(leg, Len(leg)) = leg
<1>1. leg \in Seq(Hit)
  BY DEF IsLeg
<1> QED BY <1>1 DEF Prefix

OneMore(leg, n, p, q) ==
  /\ IsLeg(p) /\ IsLeg(q) /\ Len(p) = n - 1 /\ Len(q) = n
  /\ ChunksIn(q) = ChunksIn(p) \union {leg[n].chunk} /\ leg[n].chunk \notin ChunksIn(p)
  /\ RankIn(q, leg[n].chunk) = n /\ q[n] = leg[n]
  /\ \A c \in ChunksIn(p) :
       RankIn(q, c) = RankIn(p, c) /\ RankIn(p, c) \in 1 .. n - 1 /\ q[RankIn(p, c)] = p[RankIn(p, c)]

\* The next hit of a leg has a new chunk, and the ranks of the others stay.
LEMMA OneHitMore ==
  ASSUME NEW leg, IsLeg(leg), NEW n \in 1 .. Len(leg), NEW p, p = Prefix(leg, n - 1),
         NEW q, q = Prefix(leg, n)
  PROVE  OneMore(leg, n, p, q)
<1>1. n - 1 \in 0 .. Len(leg) /\ n \in 0 .. Len(leg) /\ n \in Nat
  BY LegTypes
<1>2. /\ IsLeg(p) /\ Len(p) = n - 1 /\ DOMAIN p = 1 .. n - 1 /\ \A i \in 1 .. n - 1 : p[i] = leg[i]
      /\ IsLeg(q) /\ Len(q) = n /\ DOMAIN q = 1 .. n /\ \A i \in 1 .. n : q[i] = leg[i]
  BY <1>1, PrefixIsLeg
<1>0. /\ \A c : c \in ChunksIn(p) <=> \E i \in 1 .. n - 1 : c = leg[i].chunk
      /\ \A c : c \in ChunksIn(q) <=> \E i \in 1 .. n : c = leg[i].chunk
  <2>1. \A c : c \in ChunksIn(p) <=> \E i \in 1 .. n - 1 : c = p[i].chunk
    BY <1>2, Zenon DEF ChunksIn
  <2>2. \A c : c \in ChunksIn(q) <=> \E i \in 1 .. n : c = q[i].chunk
    BY <1>2, Zenon DEF ChunksIn
  <2> QED BY <1>2, <2>1, <2>2
<1>3. ChunksIn(q) = ChunksIn(p) \union {leg[n].chunk}
  <2>1. 1 .. n = (1 .. n - 1) \union {n}
    BY <1>1
  <2> QED BY <1>0, <2>1
<1>4. \A i \in 1 .. n : RankIn(q, leg[i].chunk) = i
  BY <1>2, RankOf
<1>5. \A i \in 1 .. n - 1 : RankIn(p, leg[i].chunk) = i
  BY <1>2, RankOf
<1>6. leg[n].chunk \notin ChunksIn(p)
  <2>1. \A i \in 1 .. n - 1 : leg[i].chunk # leg[n].chunk
    BY <1>1, <1>4
  <2> QED BY <1>0, <2>1
<1>7. ASSUME NEW c \in ChunksIn(p)
      PROVE  RankIn(q, c) = RankIn(p, c) /\ RankIn(p, c) \in 1 .. n - 1 /\ q[RankIn(p, c)] = p[RankIn(p, c)]
  <2>1. PICK i \in 1 .. n - 1 : c = leg[i].chunk
    BY <1>0
  <2> QED BY <1>1, <1>2, <1>4, <1>5, <2>1
<1> QED BY <1>1, <1>2, <1>3, <1>4, <1>6, <1>7 DEF OneMore

-------------------------------------------------------------------------------
(* The dictionary of the fusion *)

\* The sum of two fractions is one, and 0 adds nothing.
LEMMA PlusFacts ==
  ASSUME NEW p \in Fraction, NEW q \in Fraction
  PROVE  Plus(p, q) \in Fraction /\ Plus(p, <<0, 1>>) = p /\ Plus(<<0, 1>>, q) = q
<1>1. PICK a \in Nat, b \in Nat \ {0} : p = <<a, b>>
  BY DEF Fraction
<1>2. PICK c \in Nat, d \in Nat \ {0} : q = <<c, d>>
  BY DEF Fraction
<1>3. a * d \in Nat /\ c * b \in Nat /\ b * d \in Nat /\ b * d # 0
  <2>1. \A x, y \in Nat : x * y \in Nat
    OBVIOUS
  <2>2. \A x, y \in Nat \ {0} : x * y # 0
    OBVIOUS
  <2> QED BY <2>1, <2>2
<1>4. Plus(p, q) = <<a * d + c * b, b * d>>
  BY <1>1, <1>2 DEF Plus
<1>5. Plus(p, q) \in Fraction
  <2>1. a * d + c * b \in Nat
    BY <1>3
  <2> QED BY <1>3, <1>4, <2>1 DEF Fraction
<1>6. Plus(p, <<0, 1>>) = <<a * 1 + 0 * b, b * 1>> /\ Plus(<<0, 1>>, q) = <<0 * d + c * 1, 1 * d>>
  BY <1>1, <1>2 DEF Plus
<1>7. a * 1 + 0 * b = a /\ b * 1 = b /\ 0 * d + c * 1 = c /\ 1 * d = d
  OBVIOUS
<1> QED BY <1>1, <1>2, <1>5, <1>6, <1>7

\* The fused score of a chunk that one leg has, or both.
FusedBy(l, v, c) ==
  /\ c \in ChunksIn(l) => <<LexicalWeight, RrfK + RankIn(l, c)>> \in Fraction
  /\ c \in ChunksIn(v) => <<VectorWeight, RrfK + RankIn(v, c)>> \in Fraction
  /\ c \in ChunksIn(l) /\ c \notin ChunksIn(v) =>
       FusedScore(l, v, c) = <<LexicalWeight, RrfK + RankIn(l, c)>>
  /\ c \notin ChunksIn(l) /\ c \in ChunksIn(v) =>
       FusedScore(l, v, c) = <<VectorWeight, RrfK + RankIn(v, c)>>
  /\ c \in ChunksIn(l) /\ c \in ChunksIn(v) =>
       FusedScore(l, v, c) = Plus(<<LexicalWeight, RrfK + RankIn(l, c)>>,
                                  <<VectorWeight, RrfK + RankIn(v, c)>>)

\* FusedBy spells out the score of any two legs.
LEMMA FusedIs ==
  ASSUME NEW l, NEW v, IsLeg(l), IsLeg(v), NEW c
  PROVE  FusedBy(l, v, c)
<1>1. c \in ChunksIn(l) => <<LexicalWeight, RrfK + RankIn(l, c)>> \in Fraction
  <2>1. c \in ChunksIn(l) => RankIn(l, c) \in Nat \ {0}
    BY LegTypes
  <2> QED BY <2>1, FusionAssumption DEF Fraction
<1>2. c \in ChunksIn(v) => <<VectorWeight, RrfK + RankIn(v, c)>> \in Fraction
  <2>1. c \in ChunksIn(v) => RankIn(v, c) \in Nat \ {0}
    BY LegTypes
  <2> QED BY <2>1, FusionAssumption DEF Fraction
<1>3. c \in ChunksIn(l) /\ c \notin ChunksIn(v) =>
        FusedScore(l, v, c) = Plus(<<LexicalWeight, RrfK + RankIn(l, c)>>, <<0, 1>>)
  BY DEF FusedScore, Term
<1>4. c \notin ChunksIn(l) /\ c \in ChunksIn(v) =>
        FusedScore(l, v, c) = Plus(<<0, 1>>, <<VectorWeight, RrfK + RankIn(v, c)>>)
  BY DEF FusedScore, Term
<1>5. c \in ChunksIn(l) /\ c \in ChunksIn(v) =>
              FusedScore(l, v, c) = Plus(<<LexicalWeight, RrfK + RankIn(l, c)>>,
                                         <<VectorWeight, RrfK + RankIn(v, c)>>)
  BY DEF FusedScore, Term
<1> QED BY <1>1, <1>2, <1>3, <1>4, <1>5, PlusFacts DEF FusedBy

\* The entries are the chunks of the legs, in the order of their places.
DictEntry == [chunk : Nat, score : Nat, fused : Fraction]
Chunks(l, v) == ChunksIn(l) \union ChunksIn(v)
IsDict(d, l, v) ==
  /\ d \in Seq(DictEntry)
  /\ \A c : c \in Chunks(l, v) <=> \E n \in DOMAIN d : d[n].chunk = c
  /\ \A n \in DOMAIN d : /\ d[n].score = HitScore(l, v, d[n].chunk)
                         /\ d[n].fused = FusedScore(l, v, d[n].chunk)
  /\ \A m, n \in DOMAIN d : m < n => Place(l, v, d[m].chunk) < Place(l, v, d[n].chunk)

\* The scores and the place of a chunk are the same for other legs.
Alike(l, v, k, w, c) ==
  /\ HitScore(k, w, c) = HitScore(l, v, c)
  /\ FusedScore(k, w, c) = FusedScore(l, v, c)
  /\ Place(k, w, c) = Place(l, v, c)

\* A new chunk behind all others is appended.
LEMMA DictAppend ==
  ASSUME NEW d, NEW l, NEW v, NEW k, NEW w, IsDict(d, l, v), NEW e \in DictEntry,
         e.chunk \notin Chunks(l, v), Chunks(k, w) = Chunks(l, v) \union {e.chunk},
         e.score = HitScore(k, w, e.chunk), e.fused = FusedScore(k, w, e.chunk),
         \A c \in Chunks(l, v) : Alike(l, v, k, w, c) /\ Place(k, w, c) < Place(k, w, e.chunk)
  PROVE  IsDict(Append(d, e), k, w)
<1> DEFINE a == Append(d, e)
           s == Len(d)
<1>1. /\ s \in Nat /\ DOMAIN d = 1 .. s /\ a \in Seq(DictEntry) /\ DOMAIN a = 1 .. s + 1
      /\ \A n \in 1 .. s : a[n] = d[n]
      /\ a[s + 1] = e
  BY DEF IsDict
<1> HIDE DEF a, s
<1>2. \A n \in 1 .. s : d[n].chunk \in Chunks(l, v)
  BY <1>1 DEF IsDict
<1>3. \A c : c \in Chunks(k, w) <=> \E n \in 1 .. s + 1 : a[n].chunk = c
  <2>1. \A c : c \in Chunks(l, v) <=> \E n \in 1 .. s : d[n].chunk = c
    BY <1>1 DEF IsDict
  <2>2. 1 .. s + 1 = (1 .. s) \union {s + 1}
    BY <1>1
  <2> QED BY <1>1, <2>1, <2>2
<1>4. ASSUME NEW n \in 1 .. s + 1
      PROVE  a[n].score = HitScore(k, w, a[n].chunk) /\ a[n].fused = FusedScore(k, w, a[n].chunk)
  <2>1. CASE n = s + 1
    BY <1>1, <2>1
  <2>2. CASE n # s + 1
    <3>1. n \in 1 .. s
      BY <1>1, <2>2
    <3>2. d[n].score = HitScore(l, v, d[n].chunk) /\ d[n].fused = FusedScore(l, v, d[n].chunk)
      BY <1>1, <3>1 DEF IsDict
    <3> QED BY <1>1, <1>2, <3>1, <3>2 DEF Alike
  <2> QED BY <2>1, <2>2
<1>5. ASSUME NEW m \in 1 .. s + 1, NEW n \in 1 .. s + 1, m < n
      PROVE  Place(k, w, a[m].chunk) < Place(k, w, a[n].chunk)
  <2>1. m \in 1 .. s
    BY <1>1, <1>5
  <2>2. CASE n = s + 1
    BY <1>1, <1>2, <2>1, <2>2
  <2>3. CASE n # s + 1
    <3>1. n \in 1 .. s
      BY <1>1, <2>3
    <3>2. Place(l, v, d[m].chunk) < Place(l, v, d[n].chunk)
      BY <1>1, <1>5, <2>1, <3>1 DEF IsDict
    <3> QED BY <1>1, <1>2, <2>1, <3>1, <3>2 DEF Alike
  <2> QED BY <2>2, <2>3
<1>6. IsDict(a, k, w)
  BY <1>1, <1>3, <1>4, <1>5 DEF IsDict
<1> QED BY <1>6 DEF a

\* A chunk that is there gains what the other leg adds.
LEMMA DictIncrease ==
  ASSUME NEW d, NEW l, NEW v, NEW w, IsDict(d, l, v), NEW c, NEW term \in Fraction,
         NEW b, b = [n \in DOMAIN d |-> IF n \in { i \in DOMAIN d : d[i].chunk = c }
                                        THEN Increase(d[n], term) ELSE d[n]],
         Chunks(l, w) = Chunks(l, v),
         FusedScore(l, w, c) = Plus(FusedScore(l, v, c), term),
         \A x \in Chunks(l, v) : HitScore(l, w, x) = HitScore(l, v, x) /\ Place(l, w, x) = Place(l, v, x),
         \A x \in Chunks(l, v) : x # c => FusedScore(l, w, x) = FusedScore(l, v, x)
  PROVE  IsDict(b, l, w)
<1> DEFINE s == Len(d)
<1>1. s \in Nat /\ DOMAIN d = 1 .. s /\ \A n \in 1 .. s : d[n] \in DictEntry
  BY DEF IsDict
<1> HIDE DEF s
<1>2. DOMAIN b = 1 .. s
  BY <1>1
<1>3. ASSUME NEW n \in 1 .. s
      PROVE  /\ b[n] \in DictEntry /\ b[n].chunk = d[n].chunk /\ b[n].score = d[n].score
             /\ b[n].fused = IF d[n].chunk = c THEN Plus(d[n].fused, term) ELSE d[n].fused
  <2>1. b[n] = IF d[n].chunk = c THEN [d[n] EXCEPT !.fused = Plus(d[n].fused, term)] ELSE d[n]
    BY <1>1 DEF Increase
  <2>2. d[n] \in DictEntry /\ d[n].fused \in Fraction
    BY <1>1 DEF DictEntry
  <2>3. Plus(d[n].fused, term) \in Fraction
    BY <2>2, PlusFacts
  <2> QED BY <2>1, <2>2, <2>3 DEF DictEntry
<1>4. b \in Seq(DictEntry)
  <2>1. b = [n \in 1 .. s |-> b[n]]
    BY <1>1
  <2> QED BY <1>1, <1>3, <2>1
<1>5. \A n \in 1 .. s : /\ d[n].chunk \in Chunks(l, v)
                        /\ d[n].score = HitScore(l, v, d[n].chunk)
                        /\ d[n].fused = FusedScore(l, v, d[n].chunk)
  BY <1>1 DEF IsDict
<1>6. \A n \in 1 .. s : b[n].score = HitScore(l, w, b[n].chunk) /\ b[n].fused = FusedScore(l, w, b[n].chunk)
  BY <1>3, <1>5
<1>7. \A m, n \in 1 .. s : m < n => Place(l, w, b[m].chunk) < Place(l, w, b[n].chunk)
  <2>1. \A m, n \in 1 .. s : m < n => Place(l, v, d[m].chunk) < Place(l, v, d[n].chunk)
    BY <1>1 DEF IsDict
  <2> QED BY <1>3, <1>5, <2>1
<1>8. \A x : x \in Chunks(l, w) <=> \E n \in 1 .. s : b[n].chunk = x
  <2>1. \A x : x \in Chunks(l, v) <=> \E n \in 1 .. s : d[n].chunk = x
    BY <1>1 DEF IsDict
  <2> QED BY <1>3, <2>1
<1> QED BY <1>2, <1>4, <1>6, <1>7, <1>8 DEF IsDict

\* The dictionary is that of the hits that have been taken.
FromLexical(n) == Prefix(lexical, IF n <= Len(lexical) THEN n ELSE Len(lexical))
FromVector(n)  == Prefix(vector, IF n <= Len(lexical) THEN 0 ELSE n - Len(lexical))

Fusing ==
  stage = "fuse" =>
    /\ IsLeg(lexical) /\ IsLeg(vector)
    /\ next \in 1 .. Len(lexical) + Len(vector) + 1
    /\ IsDict(combined, FromLexical(next - 1), FromVector(next - 1))

\* A hit of the lexical leg is new.
LEMMA LexicalHit ==
  ASSUME IsLeg(lexical), IsLeg(vector), NEW d, NEW n \in 1 .. Len(lexical),
         IsDict(d, FromLexical(n - 1), FromVector(n - 1)),
         NEW hit, hit = lexical[n], NEW term, term = <<LexicalWeight, RrfK + n>>
  PROVE  /\ \A m \in DOMAIN d : d[m].chunk # hit.chunk
         /\ IsDict(Append(d, [chunk |-> hit.chunk, score |-> hit.score, fused |-> term]),
                   FromLexical(n), FromVector(n))
<1> DEFINE e == [chunk |-> hit.chunk, score |-> hit.score, fused |-> term]
<1>1. n \in Nat /\ Len(lexical) \in Nat /\ n - 1 <= Len(lexical) /\ n <= Len(lexical)
  BY LegTypes
<1>2. PICK l : l = Prefix(lexical, n - 1)
  OBVIOUS
<1>3. PICK k : k = Prefix(lexical, n)
  OBVIOUS
<1>4. PICK v : v = Prefix(vector, 0)
  OBVIOUS
<1>5. /\ FromLexical(n - 1) = l /\ FromLexical(n) = k /\ FromVector(n - 1) = v /\ FromVector(n) = v
  BY <1>1, <1>2, <1>3, <1>4 DEF FromLexical, FromVector
<1>6. IsLeg(v) /\ ChunksIn(v) = {}
  <2>1. 0 \in 0 .. Len(vector)
    BY LegTypes
  <2>2. IsLeg(v) /\ DOMAIN v = 1 .. 0
    BY <1>4, <2>1, PrefixIsLeg
  <2> QED BY <2>2 DEF ChunksIn
<1>7. /\ IsLeg(l) /\ IsLeg(k) /\ Len(l) = n - 1 /\ Len(k) = n
      /\ ChunksIn(k) = ChunksIn(l) \union {hit.chunk} /\ hit.chunk \notin ChunksIn(l)
      /\ RankIn(k, hit.chunk) = n /\ k[n] = hit
      /\ \A c \in ChunksIn(l) :
           RankIn(k, c) = RankIn(l, c) /\ RankIn(l, c) \in 1 .. n - 1 /\ k[RankIn(l, c)] = l[RankIn(l, c)]
  <2>1. OneMore(lexical, n, l, k)
    BY <1>2, <1>3, OneHitMore
  <2> QED BY <2>1 DEF OneMore
<1>8. Chunks(l, v) = ChunksIn(l) /\ Chunks(k, v) = ChunksIn(l) \union {hit.chunk}
  BY <1>6, <1>7 DEF Chunks
<1>9. /\ HitScore(k, v, hit.chunk) = hit.score /\ FusedScore(k, v, hit.chunk) = term
      /\ Place(k, v, hit.chunk) = n /\ term \in Fraction
  <2>1. hit.chunk \in ChunksIn(k) /\ hit.chunk \notin ChunksIn(v)
    BY <1>6, <1>7
  <2>2. FusedScore(k, v, hit.chunk) = term /\ term \in Fraction
    <3>1. term = <<LexicalWeight, RrfK + RankIn(k, hit.chunk)>>
      BY <1>7
    <3>2. FusedBy(k, v, hit.chunk)
      BY <1>6, <1>7, FusedIs
    <3> QED BY <2>1, <3>1, <3>2 DEF FusedBy
  <2> QED BY <1>7, <2>1, <2>2 DEF HitScore, Place
<1>10. ASSUME NEW c \in ChunksIn(l)
       PROVE  Alike(l, v, k, v, c) /\ Place(k, v, c) < Place(k, v, hit.chunk)
  <2>1. c \in ChunksIn(l) /\ c \in ChunksIn(k) /\ c \notin ChunksIn(v)
    BY <1>6, <1>7
  <2>2. FusedScore(k, v, c) = FusedScore(l, v, c)
    BY <1>7, <2>1 DEF FusedScore, Term
  <2>3. HitScore(k, v, c) = HitScore(l, v, c) /\ Place(k, v, c) = Place(l, v, c) /\ Place(l, v, c) \in 1 .. n - 1
    BY <1>7, <2>1 DEF HitScore, Place
  <2> QED BY <1>1, <1>9, <2>2, <2>3 DEF Alike
<1>11. e \in DictEntry
  <2>1. hit.chunk \in Nat /\ hit.score \in Nat
    BY LegTypes
  <2> QED BY <1>9, <2>1 DEF DictEntry
<1>12. IsDict(d, l, v)
  BY <1>5
<1>13. /\ e.chunk = hit.chunk /\ e.score = HitScore(k, v, hit.chunk) /\ e.fused = FusedScore(k, v, hit.chunk)
  BY <1>9
<1> HIDE DEF e
<1>14. IsDict(Append(d, e), k, v)
  BY <1>7, <1>8, <1>10, <1>11, <1>12, <1>13, DictAppend
<1>15. \A m \in DOMAIN d : d[m].chunk # hit.chunk
  BY <1>7, <1>8, <1>12 DEF IsDict
<1> QED BY <1>5, <1>14, <1>15 DEF e

Knowing(d, hit) == { m \in DOMAIN d : d[m].chunk = hit.chunk }
Taking(d, hit, term) ==
  IF Knowing(d, hit) = {} THEN Append(d, [chunk |-> hit.chunk, score |-> hit.score, fused |-> term])
  ELSE [m \in DOMAIN d |-> IF m \in Knowing(d, hit) THEN Increase(d[m], term) ELSE d[m]]

\* A hit of the vector leg is new, or its chunk has one of the lexical leg.
LEMMA VectorHit ==
  ASSUME IsLeg(lexical), IsLeg(vector), NEW d, NEW r \in 1 .. Len(vector),
         NEW n, n = Len(lexical) + r,
         IsDict(d, FromLexical(n - 1), FromVector(n - 1)),
         NEW hit, hit = vector[r], NEW term, term = <<VectorWeight, RrfK + r>>
  PROVE  IsDict(Taking(d, hit, term), FromLexical(n), FromVector(n))
<1> DEFINE e == [chunk |-> hit.chunk, score |-> hit.score, fused |-> term]
           known == { m \in DOMAIN d : d[m].chunk = hit.chunk }
           c == hit.chunk
           l == lexical
<1>1. r \in Nat \ {0} /\ Len(lexical) \in Nat /\ Len(vector) \in Nat
  BY LegTypes
<1>2. PICK v : v = Prefix(vector, r - 1)
  OBVIOUS
<1>3. PICK w : w = Prefix(vector, r)
  OBVIOUS
<1>4. FromLexical(n - 1) = l /\ FromLexical(n) = l /\ FromVector(n - 1) = v /\ FromVector(n) = w
  <2>1. Prefix(lexical, Len(lexical)) = lexical
    BY PrefixWhole
  <2>2. FromLexical(n) = l /\ FromVector(n) = w
    BY <1>1, <1>3, <2>1 DEF FromLexical, FromVector
  <2>3. CASE r = 1
    <3>1. n - 1 = Len(lexical) /\ r - 1 = 0
      BY <1>1, <2>3
    <3> QED BY <1>1, <1>2, <2>1, <2>2, <3>1 DEF FromLexical, FromVector
  <2>4. CASE r # 1
    <3>1. ~ (n - 1 <= Len(lexical)) /\ n - 1 - Len(lexical) = r - 1
      BY <1>1, <2>4
    <3> QED BY <1>2, <2>1, <2>2, <3>1 DEF FromLexical, FromVector
  <2> QED BY <2>3, <2>4
<1>5. /\ IsLeg(v) /\ IsLeg(w) /\ Len(v) = r - 1 /\ Len(w) = r
      /\ ChunksIn(w) = ChunksIn(v) \union {c} /\ c \notin ChunksIn(v)
      /\ RankIn(w, c) = r /\ w[r] = hit
      /\ \A x \in ChunksIn(v) :
           RankIn(w, x) = RankIn(v, x) /\ RankIn(v, x) \in 1 .. r - 1 /\ w[RankIn(v, x)] = v[RankIn(v, x)]
  <2>1. OneMore(vector, r, v, w)
    BY <1>2, <1>3, OneHitMore
  <2> QED BY <2>1 DEF OneMore
<1>6. IsDict(d, l, v)
  BY <1>4
<1>7. known = {} <=> c \notin ChunksIn(l)
  BY <1>5, <1>6 DEF IsDict, Chunks
<1>8. ASSUME NEW x \in Chunks(l, v)
      PROVE  /\ HitScore(l, w, x) = HitScore(l, v, x) /\ Place(l, w, x) = Place(l, v, x)
             /\ x # c => FusedScore(l, w, x) = FusedScore(l, v, x)
             /\ Place(l, v, x) \in Nat /\ Place(l, v, x) < Len(l) + r
  <2>1. CASE x \in ChunksIn(l)
    <3>1. RankIn(l, x) \in 1 .. Len(l)
      BY <2>1, LegTypes
    <3>2. x # c => (x \in ChunksIn(v) <=> x \in ChunksIn(w)) /\ (x \in ChunksIn(v) => RankIn(w, x) = RankIn(v, x))
      BY <1>5
    <3>3. x # c => FusedScore(l, w, x) = FusedScore(l, v, x)
      BY <3>2 DEF FusedScore, Term
    <3> QED BY <1>1, <2>1, <3>1, <3>3 DEF HitScore, Place
  <2>2. CASE x \notin ChunksIn(l)
    <3>1. x \in ChunksIn(v) /\ x \in ChunksIn(w)
      BY <1>5, <2>2 DEF Chunks
    <3>2. RankIn(w, x) = RankIn(v, x) /\ RankIn(v, x) \in 1 .. r - 1 /\ w[RankIn(v, x)] = v[RankIn(v, x)]
      BY <1>5, <3>1
    <3>3. FusedScore(l, w, x) = FusedScore(l, v, x)
      BY <3>1, <3>2 DEF FusedScore, Term
    <3> QED BY <1>1, <2>2, <3>2, <3>3 DEF HitScore, Place
  <2> QED BY <2>1, <2>2
<1>9. term \in Fraction
  BY <1>1, FusionAssumption DEF Fraction
<1>10. CASE known = {}
  <2>1. c \notin ChunksIn(l) /\ c \in ChunksIn(w) /\ c \notin Chunks(l, v)
        /\ Chunks(l, w) = Chunks(l, v) \union {c}
    BY <1>5, <1>7, <1>10 DEF Chunks
  <2>2. HitScore(l, w, c) = hit.score /\ FusedScore(l, w, c) = term /\ Place(l, w, c) = Len(l) + r
    <3>1. FusedScore(l, w, c) = term
      <4>1. term = <<VectorWeight, RrfK + RankIn(w, c)>>
        BY <1>5
      <4>2. FusedBy(l, w, c)
        BY <1>5, FusedIs
      <4> QED BY <2>1, <4>1, <4>2 DEF FusedBy
    <3> QED BY <1>5, <2>1, <3>1 DEF HitScore, Place
  <2>3. \A x \in Chunks(l, v) : Alike(l, v, l, w, x) /\ Place(l, w, x) < Place(l, w, c)
    <3> SUFFICES ASSUME NEW x \in Chunks(l, v) PROVE Alike(l, v, l, w, x) /\ Place(l, w, x) < Place(l, w, c)
      OBVIOUS
    <3>1. x # c
      BY <2>1
    <3> QED BY <1>8, <2>2, <3>1 DEF Alike
  <2>4. e \in DictEntry
    <3>1. hit.chunk \in Nat /\ hit.score \in Nat
      BY LegTypes
    <3> QED BY <1>9, <3>1 DEF DictEntry
  <2>5. e.chunk = c /\ e.score = HitScore(l, w, c) /\ e.fused = FusedScore(l, w, c)
    BY <2>2
  <2> HIDE DEF e, l, c
  <2>6. IsDict(Append(d, e), l, w)
    BY <1>6, <2>1, <2>3, <2>4, <2>5, DictAppend
  <2> QED BY <1>4, <1>10, <2>6 DEF e, Taking, Knowing
<1>11. CASE known # {}
  <2>1. c \in ChunksIn(l) /\ c \in ChunksIn(w) /\ c \notin ChunksIn(v) /\ Chunks(l, w) = Chunks(l, v)
    BY <1>5, <1>7, <1>11 DEF Chunks
  <2>2. FusedScore(l, w, c) = Plus(FusedScore(l, v, c), term)
    <3>1. term = <<VectorWeight, RrfK + RankIn(w, c)>>
      BY <1>5
    <3>2. FusedBy(l, v, c) /\ FusedBy(l, w, c)
      BY <1>5, FusedIs
    <3>3. FusedScore(l, v, c) = <<LexicalWeight, RrfK + RankIn(l, c)>>
      BY <2>1, <3>2 DEF FusedBy
    <3>4. FusedScore(l, w, c) = Plus(<<LexicalWeight, RrfK + RankIn(l, c)>>,
                                     <<VectorWeight, RrfK + RankIn(w, c)>>)
      BY <2>1, <3>2 DEF FusedBy
    <3> QED BY <3>1, <3>3, <3>4
  <2> DEFINE b == [m \in DOMAIN d |-> IF m \in known THEN Increase(d[m], term) ELSE d[m]]
  <2>3. b = [m \in DOMAIN d |-> IF m \in { i \in DOMAIN d : d[i].chunk = c }
                                THEN Increase(d[m], term) ELSE d[m]]
    OBVIOUS
  <2> HIDE DEF b, l, c
  <2>4. IsDict(b, l, w)
    BY <1>6, <1>8, <1>9, <2>1, <2>2, <2>3, DictIncrease
  <2> QED BY <1>4, <1>11, <2>4 DEF b, Taking, Knowing
<1> QED BY <1>10, <1>11

\* Sorting the dictionary yields the list that RankFusion defines.
LEMMA SortedIsFusion ==
  ASSUME IsLeg(lexical), IsLeg(vector), IsDict(combined, lexical, vector)
  PROVE  Sorted \in Fusions(lexical, vector)
<1> DEFINE N == Len(combined)
           ahead(m, n) ==
             LET c == combined[m]
                 d == combined[n]
             IN  \/ Exceeds(c.fused, d.fused)
                 \/ /\ ~ Exceeds(d.fused, c.fused)
                    /\ c.score > d.score \/ (c.score = d.score /\ m < n)
           R == { p \in (1 .. N) \X (1 .. N) : ahead(p[1], p[2]) }
           Ordering(f) == \A i, j \in DOMAIN f : i < j => ahead(f[i], f[j])
           order == CHOOSE f \in [DOMAIN combined -> DOMAIN combined] : Ordering(f)
           all == ChunksIn(lexical) \union ChunksIn(vector)
           Ahead(c, d) == Precedes(lexical, vector, c, d)
<1>1. /\ N \in Nat /\ DOMAIN combined = 1 .. N
      /\ \A n \in 1 .. N : /\ combined[n].score \in Nat /\ combined[n].fused \in Fraction
                           /\ combined[n] \in DictEntry
  <2>1. combined \in Seq(DictEntry)
    BY DEF IsDict
  <2>2. N \in Nat /\ DOMAIN combined = 1 .. N /\ \A n \in 1 .. N : combined[n] \in DictEntry
    BY <2>1
  <2> QED BY <2>2 DEF DictEntry
<1> HIDE DEF N
<1>2. ASSUME NEW x \in 1 .. N, NEW y \in 1 .. N, NEW z \in 1 .. N
      PROVE  /\ ~ ahead(x, x) /\ (x = y \/ ahead(x, y) \/ ahead(y, x))
             /\ ahead(x, y) /\ ahead(y, z) => ahead(x, z)
  <2> DEFINE p == combined[x].fused
             q == combined[y].fused
             r == combined[z].fused
             a == combined[x].score
             b == combined[y].score
             c == combined[z].score
  <2>1. /\ p \in Fraction /\ q \in Fraction /\ r \in Fraction /\ a \in Nat /\ b \in Nat /\ c \in Nat
        /\ x \in Nat /\ y \in Nat /\ z \in Nat
    BY <1>1
  <2>2. /\ ahead(x, x) <=> Exceeds(p, p) \/ (~ Exceeds(p, p) /\ (a > a \/ (a = a /\ x < x)))
        /\ ahead(x, y) <=> Exceeds(p, q) \/ (~ Exceeds(q, p) /\ (a > b \/ (a = b /\ x < y)))
        /\ ahead(y, x) <=> Exceeds(q, p) \/ (~ Exceeds(p, q) /\ (b > a \/ (b = a /\ y < x)))
        /\ ahead(y, z) <=> Exceeds(q, r) \/ (~ Exceeds(r, q) /\ (b > c \/ (b = c /\ y < z)))
        /\ ahead(x, z) <=> Exceeds(p, r) \/ (~ Exceeds(r, p) /\ (a > c \/ (a = c /\ x < z)))
    OBVIOUS
  <2> HIDE DEF p, q, r, a, b, c, ahead
  <2>3. /\ ~ Exceeds(p, p)
        /\ Exceeds(p, q) => ~ Exceeds(q, p)
        /\ Exceeds(q, r) => ~ Exceeds(r, q)
        /\ Exceeds(p, q) /\ ~ Exceeds(r, q) => Exceeds(p, r)
        /\ ~ Exceeds(q, p) /\ Exceeds(q, r) => Exceeds(p, r)
        /\ ~ Exceeds(q, p) /\ ~ Exceeds(r, q) => ~ Exceeds(r, p)
    BY <2>1, ExceedsFacts
  <2> QED BY <2>1, <2>2, <2>3
<1>3. \A x, y \in 1 .. N : <<x, y>> \in R <=> ahead(x, y)
  OBVIOUS
<1> HIDE DEF ahead, R
<1>4. IsOrder(R, 1 .. N)
  BY <1>2, <1>3 DEF IsOrder
<1>5. IsFiniteSet(1 .. N) /\ Cardinality(1 .. N) = N
  BY <1>1, FS_Interval
<1>6. \E f \in [DOMAIN combined -> DOMAIN combined] : Ordering(f)
  <2>1. PICK f \in [1 .. N -> 1 .. N] : \A i, j \in DOMAIN f : i < j => <<f[i], f[j]>> \in R
    BY <1>4, <1>5, SortedExists
  <2> QED BY <1>1, <1>3, <2>1
<1>7. order \in [1 .. N -> 1 .. N] /\ Ordering(order)
  <2> HIDE DEF Ordering
  <2> QED BY <1>1, <1>6
<1>8. Sorted = [i \in DOMAIN order |-> combined[order[i]].chunk]
  BY DEF Sorted, order, Ordering, ahead
<1> HIDE DEF order
<1>9. \A n \in 1 .. N : combined[n].chunk \in all
  BY <1>1 DEF IsDict, Chunks
<1>10. \A c \in all : \E n \in 1 .. N : combined[n].chunk = c
  BY <1>1 DEF IsDict, Chunks
<1>11. \A m, n \in 1 .. N : m < n <=> Place(lexical, vector, combined[m].chunk) < Place(lexical, vector, combined[n].chunk)
  <2>1. \A m, n \in 1 .. N : m < n => Place(lexical, vector, combined[m].chunk) < Place(lexical, vector, combined[n].chunk)
    BY <1>1 DEF IsDict
  <2>2. \A n \in 1 .. N : Place(lexical, vector, combined[n].chunk) \in Nat
    <3> SUFFICES ASSUME NEW n \in 1 .. N PROVE Place(lexical, vector, combined[n].chunk) \in Nat
      OBVIOUS
    <3>1. combined[n].chunk \in ChunksIn(lexical) \/ combined[n].chunk \in ChunksIn(vector)
      BY <1>9
    <3> QED BY <3>1, LegTypes DEF Place
  <2> HIDE DEF all
  <2> QED BY <1>1, <2>1, <2>2
<1>12. \A m, n \in 1 .. N : combined[m].chunk = combined[n].chunk => m = n
  <2> SUFFICES ASSUME NEW m \in 1 .. N, NEW n \in 1 .. N, combined[m].chunk = combined[n].chunk, m < n
               PROVE  FALSE
    BY <1>1
  <2>1. Place(lexical, vector, combined[m].chunk) < Place(lexical, vector, combined[n].chunk)
        /\ ~ (n < m)
    BY <1>1, <1>11
  <2> QED BY <1>11, <2>1
<1>13. \A m, n \in 1 .. N : ahead(m, n) => Ahead(combined[m].chunk, combined[n].chunk)
  <2>1. \A n \in 1 .. N : /\ combined[n].score = HitScore(lexical, vector, combined[n].chunk)
                          /\ combined[n].fused = FusedScore(lexical, vector, combined[n].chunk)
    BY <1>1 DEF IsDict
  <2> QED BY <1>11, <2>1 DEF ahead, Precedes
<1> HIDE DEF all, Ahead
<1>14. Cardinality(all) = N
  <2> DEFINE g == [n \in 1 .. N |-> combined[n].chunk]
  <2>1. g \in [1 .. N -> all] /\ (\A m, n \in 1 .. N : g[m] = g[n] => m = n)
        /\ \A c \in all : \E n \in 1 .. N : g[n] = c
    BY <1>9, <1>10, <1>12
  <2> HIDE DEF g
  <2>2. g \in Surjection(1 .. N, all) /\ g \in Injection(1 .. N, all)
    BY <2>1 DEF Surjection, Injection, IsInjective
  <2> QED BY <1>5, <2>2, FS_Surjection
<1>15. /\ Sorted \in [1 .. N -> all]
       /\ \A i, j \in 1 .. N : i < j => Ahead(Sorted[i], Sorted[j])
  <2>1. DOMAIN Sorted = 1 .. N /\ \A i \in 1 .. N : order[i] \in 1 .. N /\ Sorted[i] = combined[order[i]].chunk
    BY <1>7, <1>8
  <2>2. Sorted = [i \in 1 .. N |-> Sorted[i]]
    BY <1>7, <1>8
  <2>3. Sorted \in [1 .. N -> all]
    BY <1>9, <2>1, <2>2
  <2>4. \A i, j \in 1 .. N : i < j => ahead(order[i], order[j])
    BY <1>7
  <2> QED BY <1>13, <2>1, <2>3, <2>4
<1> QED BY <1>14, <1>15 DEF Fusions, all, Ahead

-------------------------------------------------------------------------------
(* The fusion *)

FusionOK == Fusing /\ FusionIsReciprocalRank

\* The legs of a query are legs, and its dictionary is empty.
LEMMA RetrieveStep ==
  ASSUME LoopsOK, Retrieve
  PROVE  FusionOK'
<1>1. /\ UNCHANGED <<dataset, modes, turn, number>> /\ stage = "retrieve"
      /\ combined' = <<>> /\ next' = 1
      /\ lexical' = IF CurrentMode = "vector" THEN <<>> ELSE Search(Query.lexical)
      /\ vector' = IF CurrentMode = "lexical" THEN <<>> ELSE Search(dataset.corpus)
      /\ stage' = IF CurrentMode = "hybrid" THEN "fuse" ELSE "score"
      /\ CurrentMode' = CurrentMode
  BY DEF Retrieve, input, CurrentMode
<1>2. CASE CurrentMode # "hybrid"
  BY <1>1, <1>2 DEF FusionOK, Fusing, FusionIsReciprocalRank
<1>3. CASE CurrentMode = "hybrid"
  <2>1. /\ dataset \in Datasets /\ number \in Nat \ {0} /\ number <= Len(dataset.queries)
        /\ Len(dataset.queries) \in Nat /\ DOMAIN dataset.queries = 1 .. Len(dataset.queries)
    BY <1>1, InputFacts DEF LoopsOK, InQuery, InputsOK
  <2>2. IsQuery(Query, Len(dataset.corpus)) /\ dataset.corpus \in Seq(Nat \ {0})
    BY <2>1, EvaluationAssumption DEF Query
  <2>3. /\ Query.lexical \in Seq(Nat) /\ Len(Query.lexical) = Len(dataset.corpus)
        /\ dataset.corpus \in Seq(Nat)
    BY <2>2 DEF IsQuery
  <2>4. IsLeg(Search(Query.lexical)) /\ IsLeg(Search(dataset.corpus))
    BY <2>2, <2>3, SearchIsLeg
  <2>5. IsLeg(lexical') /\ IsLeg(vector')
    BY <1>1, <1>3, <2>4
  <2>6. PICK l, v : l = lexical' /\ v = vector'
    OBVIOUS
  <2>7. /\ Len(l) \in Nat /\ Len(v) \in Nat
    BY <2>5, <2>6, LegTypes
  <2>8. FromLexical(next - 1)' = Prefix(l, 0) /\ FromVector(next - 1)' = Prefix(v, 0)
    <3>1. next' - 1 = 0
      BY <1>1
    <3> QED BY <2>6, <2>7, <3>1 DEF FromLexical, FromVector
  <2>9. ChunksIn(Prefix(l, 0)) = {} /\ ChunksIn(Prefix(v, 0)) = {}
    BY DEF Prefix, ChunksIn
  <2>10. IsDict(<<>>, Prefix(l, 0), Prefix(v, 0))
    BY <2>9 DEF IsDict, Chunks
  <2>11. IsDict(combined, FromLexical(next - 1), FromVector(next - 1))'
    BY <1>1, <2>8, <2>10
  <2> QED BY <1>1, <1>3, <2>5, <2>6, <2>7, <2>11 DEF FusionOK, Fusing, FusionIsReciprocalRank
<1> QED BY <1>2, <1>3

\* One hit more in the dictionary.
LEMMA AccumulateStep ==
  ASSUME Fusing, Accumulate
  PROVE  FusionOK'
<1> DEFINE first == next <= Len(lexical)
           rank  == IF first THEN next ELSE next - Len(lexical)
           hit   == IF first THEN lexical[rank] ELSE vector[rank]
           term  == <<IF first THEN LexicalWeight ELSE VectorWeight, RrfK + rank>>
           known == { n \in DOMAIN combined : combined[n].chunk = hit.chunk }
           added == [chunk |-> hit.chunk, score |-> hit.score, fused |-> term]
<1>1. /\ UNCHANGED <<lexical, vector, stage>> /\ stage = "fuse" /\ next' = next + 1
      /\ next <= Len(lexical) + Len(vector)
      /\ combined' = IF known = {} THEN Append(combined, added)
                     ELSE [n \in DOMAIN combined |->
                             IF n \in known THEN Increase(combined[n], term) ELSE combined[n]]
  BY DEF Accumulate
<1>2. /\ IsLeg(lexical) /\ IsLeg(vector) /\ next \in Nat \ {0}
      /\ Len(lexical) \in Nat /\ Len(vector) \in Nat
      /\ IsDict(combined, FromLexical(next - 1), FromVector(next - 1))
  <2>1. IsLeg(lexical) /\ IsLeg(vector) /\ next \in 1 .. Len(lexical) + Len(vector) + 1
    BY <1>1 DEF Fusing
  <2>2. Len(lexical) \in Nat /\ Len(vector) \in Nat
    BY <2>1, LegTypes
  <2> QED BY <1>1, <2>1, <2>2 DEF Fusing
<1>3. IsDict(combined', FromLexical(next), FromVector(next))
  <2>1. CASE first
    <3>1. hit = lexical[next] /\ term = <<LexicalWeight, RrfK + next>> /\ next \in 1 .. Len(lexical)
      BY <1>2, <2>1
    <3> HIDE DEF hit, term
    <3>2. /\ \A m \in DOMAIN combined : combined[m].chunk # hit.chunk
          /\ IsDict(Append(combined, added), FromLexical(next), FromVector(next))
      BY <1>2, <3>1, LexicalHit
    <3> QED BY <1>1, <3>2
  <2>2. CASE ~ first
    <3>1. /\ rank = next - Len(lexical) /\ hit = vector[rank] /\ term = <<VectorWeight, RrfK + rank>>
          /\ rank \in 1 .. Len(vector) /\ next = Len(lexical) + rank
      BY <1>1, <1>2, <2>2
    <3> HIDE DEF rank, hit, term
    <3>2. combined' = Taking(combined, hit, term)
      BY <1>1 DEF Taking, Knowing
    <3> HIDE DEF known, added
    <3>3. IsDict(Taking(combined, hit, term), FromLexical(next), FromVector(next))
      BY <1>2, <3>1, VectorHit
    <3> QED BY <3>2, <3>3
  <2> QED BY <2>1, <2>2
<1> HIDE DEF first, rank, hit, term, known, added
<1>4. next' - 1 = next /\ next' \in 1 .. Len(lexical) + Len(vector) + 1
  BY <1>1, <1>2
<1>5. FromLexical(next - 1)' = FromLexical(next) /\ FromVector(next - 1)' = FromVector(next)
  BY <1>1, <1>4 DEF FromLexical, FromVector
<1> QED BY <1>1, <1>2, <1>3, <1>4, <1>5 DEF FusionOK, Fusing, FusionIsReciprocalRank

\* When all hits have been taken, the dictionary is that of the legs.
LEMMA FuseStep ==
  ASSUME Fusing, Fuse
  PROVE  FusionOK'
<1>1. /\ UNCHANGED <<lexical, vector>> /\ stage = "fuse" /\ stage' = "score"
      /\ next > Len(lexical) + Len(vector) /\ ranked' = AtMost(TopK, Sorted)
  BY DEF Fuse
<1>2. /\ IsLeg(lexical) /\ IsLeg(vector) /\ next \in 1 .. Len(lexical) + Len(vector) + 1
      /\ IsDict(combined, FromLexical(next - 1), FromVector(next - 1))
  BY <1>1 DEF Fusing
<1>3. Len(lexical) \in Nat /\ Len(vector) \in Nat
  BY <1>2, LegTypes
<1>4. FromLexical(next - 1) = lexical /\ FromVector(next - 1) = vector
  <2>1. next - 1 = Len(lexical) + Len(vector)
    BY <1>1, <1>2, <1>3
  <2>2. Prefix(lexical, Len(lexical)) = lexical /\ Prefix(vector, Len(vector)) = vector
    BY <1>2, PrefixWhole
  <2> QED BY <1>3, <2>1, <2>2 DEF FromLexical, FromVector
<1>5. Sorted \in Fusions(lexical, vector)
  BY <1>2, <1>4, SortedIsFusion
<1> QED BY <1>1, <1>5 DEF FusionOK, Fusing, FusionIsReciprocalRank

\* No fusion is under way at first.
LEMMA FusionInitially == Init => FusionOK
<1> SUFFICES ASSUME Init PROVE FusionOK
  OBVIOUS
<1>1. stage \in {"gate", "summarize", "retrieve"}
  BY DEF Init, Queries
<1> QED BY <1>1 DEF FusionOK, Fusing, FusionIsReciprocalRank

\* Every step keeps the dictionary that of the hits taken.
LEMMA FusionNext ==
  ASSUME LoopsOK, FusionOK, [Next]_vars
  PROVE  FusionOK'
<1>1. CASE Retrieve \/ Accumulate \/ Fuse
  BY <1>1, RetrieveStep, AccumulateStep, FuseStep DEF FusionOK
<1>2. CASE Score \/ Summarize \/ Gate
  <2>1. stage' \in {"retrieve", "summarize", "gate", "done"}
    BY <1>2 DEF Score, Summarize, Gate, Queries
  <2> QED BY <2>1 DEF FusionOK, Fusing, FusionIsReciprocalRank
<1>3. CASE Done \/ UNCHANGED vars
  <2>1. UNCHANGED <<stage, modes, turn, lexical, vector, combined, next, ranked>>
    BY <1>3 DEF Done, vars, input
  <2> QED BY <2>1 DEF FusionOK, Fusing, FusionIsReciprocalRank, FromLexical, FromVector, CurrentMode
<1> QED BY <1>1, <1>2, <1>3 DEF Next

\* The two loops and the sort yield the fused list as it is defined: rrf.py:19-37.
THEOREM FusionsAreReciprocalRank == Spec => []FusionIsReciprocalRank
<1>1. FusionOK => FusionIsReciprocalRank
  BY DEF FusionOK
<1>2. LoopsOK /\ FusionOK /\ [Next]_vars => FusionOK'
  BY FusionNext
<1> QED BY <1>1, <1>2, InitiallyOK, NextOK, FusionInitially, PTL DEF Spec

-------------------------------------------------------------------------------
(* Sums over finite sets: what the library's folds yield *)

\* A set of subsets of a finite set has a member none of whose proper subsets
\* is in it: what proofs about sums use in place of induction.
LEMMA LeastSubset ==
  ASSUME NEW S, IsFiniteSet(S), NEW Bad \in SUBSET (SUBSET S), Bad # {}
  PROVE  \E T \in Bad : \A x \in T : T \ {x} \notin Bad
<1> DEFINE sizes == { Cardinality(T) : T \in Bad }
<1>1. \A T \in Bad : IsFiniteSet(T) /\ Cardinality(T) \in Nat
  BY FS_Subset, FS_CardinalityType
<1>2. sizes \in SUBSET Nat /\ sizes # {}
  BY <1>1
<1> HIDE DEF sizes
<1>3. PICK n \in sizes : \A m \in sizes : n <= m
  BY <1>2, LeastNat, Zenon
<1>4. PICK T \in Bad : Cardinality(T) = n
  BY DEF sizes
<1>5. ASSUME NEW x \in T PROVE T \ {x} \notin Bad
  <2>1. Cardinality(T \ {x}) = Cardinality(T) - 1
    BY <1>1, FS_RemoveElement
  <2>2. T \ {x} \in Bad => Cardinality(T \ {x}) \in sizes
    BY DEF sizes
  <2> QED BY <1>1, <1>3, <1>4, <2>1, <2>2
<1> QED BY <1>5

\* Numbers and fractions are added in any order.
Monoid(M, plus, zero) ==
  /\ zero \in M /\ plus \in [M \X M -> M]
  /\ \A x \in M : plus[<<zero, x>>] = x
  /\ \A x, y \in M : plus[<<x, y>>] = plus[<<y, x>>]
  /\ \A x, y, z \in M : plus[<<x, plus[<<y, z>>]>>] = plus[<<plus[<<x, y>>], z>>]

\* What is folded first, and the function that a fold over S reads.
First(s) == CHOOSE x \in s : TRUE
IsFold(h, plus, zero, f, S) ==
  \A s \in SUBSET S : h[s] = IF s = {} THEN zero ELSE plus[<<f[First(s)], h[s \ {First(s)}]>>]

Folding(h, M, plus, zero, f, S) ==
  /\ Monoid(M, plus, zero) /\ IsFiniteSet(S) /\ \A x \in S : f[x] \in M
  /\ h \in [SUBSET S -> M] /\ IsFold(h, plus, zero, f, S)

\* The laws of a sum, of all parts of S.
Removes(h, plus, f, S) == \A T \in SUBSET S : \A x \in T : h[T] = plus[<<f[x], h[T \ {x}]>>]
Unites(h, plus, S) ==
  \A T, U \in SUBSET S : T \intersect U = {} => h[T \union U] = plus[<<h[T], h[U]>>]

\* The function exists: by the number of elements that it is of.
LEMMA FoldExists ==
  ASSUME NEW M, NEW plus, NEW zero, Monoid(M, plus, zero), NEW S, IsFiniteSet(S),
         NEW f, \A x \in S : f[x] \in M
  PROVE  \E h \in [SUBSET S -> M] : IsFold(h, plus, zero, f, S)
<1> DEFINE Upto(n) == { s \in SUBSET S : Cardinality(s) <= n }
           Folds(h, n) == \A s \in Upto(n) :
                            h[s] = IF s = {} THEN zero ELSE plus[<<f[First(s)], h[s \ {First(s)}]>>]
           Bad == { n \in Nat : ~ \E h \in [Upto(n) -> M] : Folds(h, n) }
<1>1. \A s \in SUBSET S : IsFiniteSet(s) /\ Cardinality(s) \in Nat /\ (Cardinality(s) = 0 <=> s = {})
  BY FS_Subset, FS_CardinalityType, FS_EmptySet
<1>2. \A s \in SUBSET S : s # {} =>
        First(s) \in s /\ s \ {First(s)} \in SUBSET S /\ Cardinality(s \ {First(s)}) = Cardinality(s) - 1
  <2> SUFFICES ASSUME NEW s \in SUBSET S, s # {}
               PROVE  First(s) \in s /\ s \ {First(s)} \in SUBSET S /\ Cardinality(s \ {First(s)}) = Cardinality(s) - 1
    OBVIOUS
  <2>1. First(s) \in s
    BY DEF First
  <2> QED BY <1>1, <2>1, FS_RemoveElement
<1>3. Bad = {}
  <2> SUFFICES ASSUME Bad # {} PROVE FALSE
    OBVIOUS
  <2>1. Bad \in SUBSET Nat
    OBVIOUS
  <2> HIDE DEF Bad
  <2>2. PICK n \in Bad : \A m \in Bad : n <= m
    BY <2>1, LeastNat, Zenon
  <2>3. n \in Nat /\ ~ \E h \in [Upto(n) -> M] : Folds(h, n)
    BY <2>2 DEF Bad
  <2>4. CASE n = 0
    <3> DEFINE h == [s \in Upto(n) |-> zero]
    <3>1. h \in [Upto(n) -> M]
      BY DEF Monoid
    <3>2. \A s \in Upto(n) : s = {} /\ h[s] = zero
      BY <1>1, <2>4
    <3> HIDE DEF h
    <3>3. Folds(h, n)
      BY <3>2
    <3> QED BY <2>3, <3>1, <3>3
  <2>5. CASE n # 0
    <3>1. n - 1 \in Nat /\ n - 1 \notin Bad
      BY <2>2, <2>3, <2>5
    <3>2. PICK g \in [Upto(n - 1) -> M] : Folds(g, n - 1)
      BY <3>1 DEF Bad
    <3> DEFINE h == [s \in Upto(n) |->
                      IF s = {} THEN zero ELSE plus[<<f[First(s)], g[s \ {First(s)}]>>]]
    <3>3. ASSUME NEW s \in Upto(n), s # {}
          PROVE  s \ {First(s)} \in Upto(n - 1) /\ f[First(s)] \in M /\ g[s \ {First(s)}] \in M
      <4>1. s \ {First(s)} \in SUBSET S /\ Cardinality(s \ {First(s)}) = Cardinality(s) - 1
            /\ Cardinality(s) \in Nat /\ Cardinality(s) <= n /\ First(s) \in S
        BY <1>1, <1>2, <3>3
      <4>2. s \ {First(s)} \in Upto(n - 1)
        BY <2>3, <4>1
      <4> QED BY <4>1, <4>2
    <3> HIDE DEF Upto
    <3>4. h \in [Upto(n) -> M]
      BY <3>3 DEF Monoid
    <3>5. \A s \in Upto(n - 1) : s \in Upto(n) /\ h[s] = g[s]
      <4>1. \A s \in Upto(n - 1) : s \in Upto(n)
        BY <1>1, <2>3 DEF Upto
      <4> QED BY <3>2, <4>1
    <3>6. Folds(h, n)
      BY <3>3, <3>5
    <3> HIDE DEF h
    <3> QED BY <2>3, <3>4, <3>6
  <2> QED BY <2>4, <2>5
<1>4. Cardinality(S) \in Nat /\ Upto(Cardinality(S)) = SUBSET S
  <2>1. \A s \in SUBSET S : Cardinality(s) <= Cardinality(S)
    BY FS_Subset
  <2> QED BY <1>1, <2>1
<1>5. PICK h \in [Upto(Cardinality(S)) -> M] : Folds(h, Cardinality(S))
  BY <1>3, <1>4
<1> QED BY <1>4, <1>5 DEF IsFold

\* Any element may be added first.
LEMMA FoldRemoves ==
  ASSUME NEW M, NEW plus, NEW zero, NEW S, NEW f, NEW h, Folding(h, M, plus, zero, f, S)
  PROVE  Removes(h, plus, f, S)
<1> USE DEF Folding
<1> DEFINE Bad == { T \in SUBSET S : ~ \A x \in T : h[T] = plus[<<f[x], h[T \ {x}]>>] }
<1> SUFFICES ASSUME Bad # {} PROVE FALSE
  BY DEF Removes
<1>1. Bad \in SUBSET (SUBSET S)
  OBVIOUS
<1> HIDE DEF Bad
<1>2. PICK T \in Bad : \A x \in T : T \ {x} \notin Bad
  BY <1>1, LeastSubset
<1>3. PICK x \in T : h[T] # plus[<<f[x], h[T \ {x}]>>]
  BY DEF Bad
<1>4. T \in SUBSET S
  BY <1>1
<1> DEFINE y == First(T)
<1>5. y \in T /\ h[T] = plus[<<f[y], h[T \ {y}]>>]
  <2>1. First(T) \in T
    BY <1>3 DEF First
  <2> QED BY <1>4, <2>1 DEF IsFold
<1> HIDE DEF y
<1>6. x # y
  BY <1>3, <1>5
<1>7. T \ {y} \in SUBSET S /\ x \in T \ {y} /\ T \ {x} \in SUBSET S /\ y \in T \ {x}
      /\ (T \ {y}) \ {x} = (T \ {x}) \ {y} /\ (T \ {x}) \ {y} \in SUBSET S
  BY <1>3, <1>4, <1>5, <1>6
<1>8. h[T \ {y}] = plus[<<f[x], h[(T \ {x}) \ {y}]>>]
  BY <1>2, <1>5, <1>7 DEF Bad
<1>9. h[T \ {x}] = plus[<<f[y], h[(T \ {x}) \ {y}]>>]
  BY <1>2, <1>3, <1>7 DEF Bad
<1> DEFINE a == f[x]
           b == f[y]
           c == h[(T \ {x}) \ {y}]
<1>10. a \in M /\ b \in M /\ c \in M
  BY <1>3, <1>4, <1>5, <1>7
<1>11. h[T] = plus[<<b, plus[<<a, c>>]>>] /\ plus[<<f[x], h[T \ {x}]>>] = plus[<<a, plus[<<b, c>>]>>]
  BY <1>5, <1>8, <1>9
<1> HIDE DEF a, b, c
<1>12. plus[<<b, plus[<<a, c>>]>>] = plus[<<a, plus[<<b, c>>]>>]
  <2>1. plus[<<b, plus[<<a, c>>]>>] = plus[<<plus[<<b, a>>], c>>]
    BY <1>10, Zenon DEF Monoid
  <2>2. plus[<<a, plus[<<b, c>>]>>] = plus[<<plus[<<a, b>>], c>>]
    BY <1>10, Zenon DEF Monoid
  <2>3. plus[<<b, a>>] = plus[<<a, b>>]
    BY <1>10, Zenon DEF Monoid
  <2> QED BY <2>1, <2>2, <2>3
<1> QED BY <1>3, <1>11, <1>12

\* Disjoint sets are added one after the other.
LEMMA FoldUnites ==
  ASSUME NEW M, NEW plus, NEW zero, NEW S, NEW f, NEW h, Folding(h, M, plus, zero, f, S)
  PROVE  Unites(h, plus, S)
<1> USE DEF Folding
<1> SUFFICES ASSUME NEW U \in SUBSET S
             PROVE  \A T \in SUBSET S : T \intersect U = {} => h[T \union U] = plus[<<h[T], h[U]>>]
  BY DEF Unites
<1> DEFINE Bad == { T \in SUBSET S : T \intersect U = {} /\ h[T \union U] # plus[<<h[T], h[U]>>] }
<1> SUFFICES ASSUME Bad # {} PROVE FALSE
  OBVIOUS
<1>1. Bad \in SUBSET (SUBSET S)
  OBVIOUS
<1> HIDE DEF Bad
<1>2. PICK T \in Bad : \A x \in T : T \ {x} \notin Bad
  BY <1>1, LeastSubset
<1>3. T \in SUBSET S /\ T \intersect U = {} /\ h[T \union U] # plus[<<h[T], h[U]>>]
  BY DEF Bad
<1>4. CASE T = {}
  <2>1. h[T] = zero /\ T \union U = U /\ h[U] \in M
    BY <1>3, <1>4 DEF IsFold
  <2>2. plus[<<zero, h[U]>>] = h[U]
    BY <2>1 DEF Monoid
  <2> QED BY <1>3, <2>1, <2>2
<1>5. CASE T # {}
  <2>1. PICK x \in T : TRUE
    BY <1>5
  <2>2. /\ T \ {x} \in SUBSET S /\ (T \ {x}) \intersect U = {} /\ T \union U \in SUBSET S
        /\ x \in T \union U /\ (T \union U) \ {x} = (T \ {x}) \union U
    BY <1>3, <2>1
  <2>3. h[(T \ {x}) \union U] = plus[<<h[T \ {x}], h[U]>>]
    BY <1>2, <2>1, <2>2 DEF Bad
  <2>4. h[T \union U] = plus[<<f[x], h[(T \union U) \ {x}]>>] /\ h[T] = plus[<<f[x], h[T \ {x}]>>]
    <3>1. Removes(h, plus, f, S)
      BY FoldRemoves
    <3> QED BY <1>3, <2>1, <2>2, <3>1 DEF Removes
  <2>5. f[x] \in M /\ h[T \ {x}] \in M /\ h[U] \in M
    BY <1>3, <2>1, <2>2
  <2>6. plus[<<f[x], plus[<<h[T \ {x}], h[U]>>]>>] = plus[<<plus[<<f[x], h[T \ {x}]>>], h[U]>>]
    BY <2>5, Zenon DEF Monoid
  <2> QED BY <1>3, <2>2, <2>3, <2>4, <2>6
<1> QED BY <1>4, <1>5

\* What is folded over a finite set has a fold with these laws.
LEMMA LawfulFold ==
  ASSUME NEW M, NEW plus, NEW zero, Monoid(M, plus, zero), NEW S, IsFiniteSet(S),
         NEW f, \A x \in S : f[x] \in M
  PROVE  \E h \in [SUBSET S -> M] : h[{}] = zero /\ Removes(h, plus, f, S) /\ Unites(h, plus, S)
<1>1. PICK h \in [SUBSET S -> M] : IsFold(h, plus, zero, f, S)
  BY FoldExists
<1>2. Folding(h, M, plus, zero, f, S)
  BY <1>1 DEF Folding
<1>3. h[{}] = zero
  BY <1>1 DEF IsFold
<1> QED BY <1>1, <1>2, <1>3, FoldRemoves, FoldUnites

\* Fractions are added in any order.
LEMMA FractionsAreMonoid ==
  Monoid(Fraction, [p \in Fraction \X Fraction |-> Plus(p[1], p[2])], <<0, 1>>)
<1> DEFINE plus == [p \in Fraction \X Fraction |-> Plus(p[1], p[2])]
<1>1. \A x, y \in Fraction : plus[<<x, y>>] = Plus(x, y)
  OBVIOUS
<1>2. <<0, 1>> \in Fraction
  BY DEF Fraction
<1>3. \A x, y \in Fraction : Plus(x, y) \in Fraction /\ Plus(<<0, 1>>, x) = x
  BY PlusFacts
<1>4. ASSUME NEW x \in Fraction, NEW y \in Fraction, NEW z \in Fraction
      PROVE  Plus(x, y) = Plus(y, x) /\ Plus(x, Plus(y, z)) = Plus(Plus(x, y), z)
  <2>1. PICK a \in Nat, b \in Nat : x = <<a, b>>
    BY DEF Fraction
  <2>2. PICK c \in Nat, d \in Nat : y = <<c, d>>
    BY DEF Fraction
  <2>3. PICK e \in Nat, g \in Nat : z = <<e, g>>
    BY DEF Fraction
  <2>4. a * d + c * b = c * b + a * d /\ b * d = d * b
    OBVIOUS
  <2>5. a * (d * g) + (c * g + e * d) * b = (a * d + c * b) * g + e * (b * d) /\ b * (d * g) = (b * d) * g
    OBVIOUS
  <2> QED BY <2>1, <2>2, <2>3, <2>4, <2>5 DEF Plus
<1>5. plus \in [Fraction \X Fraction -> Fraction]
  BY <1>3
<1> HIDE DEF plus
<1>6. /\ \A x \in Fraction : plus[<<<<0, 1>>, x>>] = x
      /\ \A x, y \in Fraction : plus[<<x, y>>] = plus[<<y, x>>]
  <2>1. ASSUME NEW x \in Fraction PROVE plus[<<<<0, 1>>, x>>] = x
    <3>1. plus[<<<<0, 1>>, x>>] = Plus(<<0, 1>>, x)
      BY <1>1, <1>2
    <3> QED BY <1>3, <3>1
  <2>2. ASSUME NEW x \in Fraction, NEW y \in Fraction PROVE plus[<<x, y>>] = plus[<<y, x>>]
    <3>1. plus[<<x, y>>] = Plus(x, y) /\ plus[<<y, x>>] = Plus(y, x)
      BY <1>1
    <3> QED BY <1>4, <3>1
  <2> QED BY <2>1, <2>2
<1>7. ASSUME NEW x \in Fraction, NEW y \in Fraction, NEW z \in Fraction
      PROVE  plus[<<x, plus[<<y, z>>]>>] = plus[<<plus[<<x, y>>], z>>]
  <2>1. Plus(x, y) \in Fraction /\ Plus(y, z) \in Fraction
    BY <1>3
  <2>2. plus[<<x, Plus(y, z)>>] = Plus(x, Plus(y, z)) /\ plus[<<Plus(x, y), z>>] = Plus(Plus(x, y), z)
        /\ plus[<<y, z>>] = Plus(y, z) /\ plus[<<x, y>>] = Plus(x, y)
    BY <1>1, <2>1
  <2> QED BY <1>4, <2>2
<1>8. \A x, y, z \in Fraction : plus[<<x, plus[<<y, z>>]>>] = plus[<<plus[<<x, y>>], z>>]
  BY <1>7
<1>9. Monoid(Fraction, plus, <<0, 1>>)
  BY <1>2, <1>5, <1>6, <1>8, Zenon DEF Monoid
<1> QED BY <1>9 DEF plus

\* What Sum yields for all parts of a finite family of fractions.
FractionSums(h, f, S) ==
  /\ \A x \in S : f[x] \in Fraction
  /\ h \in [SUBSET S -> Fraction] /\ h[{}] = <<0, 1>>
  /\ \A T \in SUBSET S :
       /\ Sum([x \in T |-> f[x]]) = h[T]
       /\ \A x \in T : h[T] = Plus(f[x], h[T \ {x}])
       /\ \A U \in SUBSET S : T \intersect U = {} => h[T \union U] = Plus(h[T], h[U])

\* Sum is a sum in this sense of any fractions.
LEMMA SumLaws ==
  ASSUME NEW S, IsFiniteSet(S), NEW f, \A x \in S : f[x] \in Fraction
  PROVE  \E h : FractionSums(h, f, S)
<1> DEFINE plus == [p \in Fraction \X Fraction |-> Plus(p[1], p[2])]
<1>1. Monoid(Fraction, plus, <<0, 1>>) /\ \A x, y \in Fraction : plus[<<x, y>>] = Plus(x, y)
  BY FractionsAreMonoid
<1> HIDE DEF plus
<1>2. PICK h \in [SUBSET S -> Fraction] : h[{}] = <<0, 1>> /\ Removes(h, plus, f, S) /\ Unites(h, plus, S)
  BY <1>1, LawfulFold
<1>3. \A T \in SUBSET S : \A x \in T : h[T] = Plus(f[x], h[T \ {x}])
  <2>1. \A T \in SUBSET S : \A x \in T : h[T] = plus[<<f[x], h[T \ {x}]>>]
    BY <1>2 DEF Removes, Unites
  <2>2. \A T \in SUBSET S : \A x \in T : f[x] \in Fraction /\ h[T \ {x}] \in Fraction
    BY <1>2
  <2> QED BY <1>1, <2>1, <2>2
<1>4. \A T, U \in SUBSET S : T \intersect U = {} => h[T \union U] = Plus(h[T], h[U])
  <2>1. \A T, U \in SUBSET S : T \intersect U = {} => h[T \union U] = plus[<<h[T], h[U]>>]
    BY <1>2 DEF Removes, Unites
  <2> QED BY <1>1, <1>2, <2>1
<1>5. h[{}] = <<0, 1>>
  BY <1>2 DEF Removes, Unites
<1>6. ASSUME NEW T \in SUBSET S PROVE Sum([x \in T |-> f[x]]) = h[T]
  <2> DEFINE g == [x \in T |-> f[x]]
             IsIter(k) == k = [s \in SUBSET T |-> IF s = {} THEN <<0, 1>>
                                 ELSE Plus(g[CHOOSE x \in s : TRUE], k[s \ {CHOOSE x \in s : TRUE}])]
             own == [s \in SUBSET T |-> h[s]]
             iter == CHOOSE k : IsIter(k)
  <2>1. Sum(g) = iter[T]
    BY DEF Sum, FoldFunction, FoldFunctionOnSet, MapThenFoldSet
  <2>2. \A s \in SUBSET T : s # {} => First(s) \in s /\ s \ {First(s)} \in SUBSET T
    BY DEF First
  <2>3. \A s \in SUBSET T : s # {} => h[s] = Plus(g[First(s)], h[s \ {First(s)}])
    BY <1>3, <2>2
  <2> HIDE DEF g
  <2>4. IsIter(own)
    <3>1. \A s \in SUBSET T : own[s] = IF s = {} THEN <<0, 1>> ELSE Plus(g[First(s)], own[s \ {First(s)}])
      BY <1>5, <2>2, <2>3
    <3>2. own = [s \in SUBSET T |-> own[s]]
      OBVIOUS
    <3> HIDE DEF own
    <3>3. own = [s \in SUBSET T |-> IF s = {} THEN <<0, 1>> ELSE Plus(g[First(s)], own[s \ {First(s)}])]
      BY <3>1, <3>2
    <3> QED BY <3>3 DEF First
  <2>5. IsIter(iter)
    BY <2>4
  <2> HIDE DEF iter, own
  <2>6. \A s \in SUBSET T : iter[s] = IF s = {} THEN <<0, 1>> ELSE Plus(g[First(s)], iter[s \ {First(s)}])
    BY <2>5 DEF First
  <2> HIDE DEF IsIter
  <2> DEFINE Bad == { s \in SUBSET T : iter[s] # h[s] }
  <2>7. Bad = {}
    <3> SUFFICES ASSUME Bad # {} PROVE FALSE
      OBVIOUS
    <3>1. Bad \in SUBSET (SUBSET T) /\ IsFiniteSet(T)
      BY FS_Subset
    <3> HIDE DEF Bad
    <3>2. PICK s \in Bad : \A x \in s : s \ {x} \notin Bad
      BY <3>1, LeastSubset
    <3> USE DEF Bad
    <3>3. s # {}
      BY <1>5, <2>6
    <3>4. iter[s \ {First(s)}] = h[s \ {First(s)}]
      BY <2>2, <3>2, <3>3
    <3> QED BY <2>3, <2>6, <3>3, <3>4
  <2>8. iter[T] = h[T]
    BY <2>7
  <2> QED BY <2>1, <2>8 DEF g
<1> QED BY <1>2, <1>3, <1>4, <1>5, <1>6 DEF FractionSums

\* Numbers are added in any order.
LEMMA NumbersAreMonoid == Monoid(Nat, [p \in Nat \X Nat |-> p[1] + p[2]], 0)
<1> DEFINE plus == [p \in Nat \X Nat |-> p[1] + p[2]]
<1>1. plus \in [Nat \X Nat -> Nat] /\ \A x, y \in Nat : plus[<<x, y>>] = x + y
  OBVIOUS
<1> HIDE DEF plus
<1>2. Monoid(Nat, plus, 0)
  BY <1>1 DEF Monoid
<1> QED BY <1>2 DEF plus

\* What SumFunction yields for all parts of a finite family of numbers.
NumberSums(h, f, S) ==
  /\ \A x \in S : f[x] \in Nat
  /\ h \in [SUBSET S -> Nat] /\ h[{}] = 0
  /\ \A T \in SUBSET S :
       /\ SumFunction([x \in T |-> f[x]]) = h[T]
       /\ \A x \in T : h[T] = f[x] + h[T \ {x}]
       /\ \A U \in SUBSET S : T \intersect U = {} => h[T \union U] = h[T] + h[U]

\* So is SumFunction of any numbers.
LEMMA NumberLaws ==
  ASSUME NEW S, IsFiniteSet(S), NEW f, \A x \in S : f[x] \in Nat
  PROVE  \E h : NumberSums(h, f, S)
<1> DEFINE plus == [p \in Nat \X Nat |-> p[1] + p[2]]
<1>1. Monoid(Nat, plus, 0) /\ \A x, y \in Nat : plus[<<x, y>>] = x + y
  BY NumbersAreMonoid
<1> HIDE DEF plus
<1>2. PICK h \in [SUBSET S -> Nat] : h[{}] = 0 /\ Removes(h, plus, f, S) /\ Unites(h, plus, S)
  BY <1>1, LawfulFold
<1>3. \A T \in SUBSET S : \A x \in T : h[T] = f[x] + h[T \ {x}]
  <2>1. \A T \in SUBSET S : \A x \in T : h[T] = plus[<<f[x], h[T \ {x}]>>]
    BY <1>2 DEF Removes, Unites
  <2>2. \A T \in SUBSET S : \A x \in T : f[x] \in Nat /\ h[T \ {x}] \in Nat
    BY <1>2
  <2> QED BY <1>1, <2>1, <2>2
<1>4. \A T, U \in SUBSET S : T \intersect U = {} => h[T \union U] = h[T] + h[U]
  <2>1. \A T, U \in SUBSET S : T \intersect U = {} => h[T \union U] = plus[<<h[T], h[U]>>]
    BY <1>2 DEF Removes, Unites
  <2> QED BY <1>1, <1>2, <2>1
<1>5. h[{}] = 0
  BY <1>2 DEF Removes, Unites
<1>6. ASSUME NEW T \in SUBSET S PROVE SumFunction([x \in T |-> f[x]]) = h[T]
  <2> DEFINE g == [x \in T |-> f[x]]
             IsIter(k) == k = [s \in SUBSET T |-> IF s = {} THEN 0
                                 ELSE g[CHOOSE x \in s : TRUE] + k[s \ {CHOOSE x \in s : TRUE}]]
             own == [s \in SUBSET T |-> h[s]]
             iter == CHOOSE k : IsIter(k)
  <2>1. SumFunction(g) = iter[T]
    BY DEF SumFunction, SumFunctionOnSet, FoldFunctionOnSet, MapThenFoldSet
  <2>2. \A s \in SUBSET T : s # {} => First(s) \in s /\ s \ {First(s)} \in SUBSET T
    BY DEF First
  <2>3. \A s \in SUBSET T : s # {} => h[s] = g[First(s)] + h[s \ {First(s)}]
    BY <1>3, <2>2
  <2> HIDE DEF g
  <2>4. IsIter(own)
    <3>1. \A s \in SUBSET T : own[s] = IF s = {} THEN 0 ELSE g[First(s)] + own[s \ {First(s)}]
      BY <1>5, <2>2, <2>3
    <3>2. own = [s \in SUBSET T |-> own[s]]
      OBVIOUS
    <3> HIDE DEF own
    <3>3. own = [s \in SUBSET T |-> IF s = {} THEN 0 ELSE g[First(s)] + own[s \ {First(s)}]]
      BY <3>1, <3>2
    <3> QED BY <3>3 DEF First
  <2>5. IsIter(iter)
    BY <2>4
  <2> HIDE DEF iter, own
  <2>6. \A s \in SUBSET T : iter[s] = IF s = {} THEN 0 ELSE g[First(s)] + iter[s \ {First(s)}]
    BY <2>5 DEF First
  <2> HIDE DEF IsIter
  <2> DEFINE Bad == { s \in SUBSET T : iter[s] # h[s] }
  <2>7. Bad = {}
    <3> SUFFICES ASSUME Bad # {} PROVE FALSE
      OBVIOUS
    <3>1. Bad \in SUBSET (SUBSET T) /\ IsFiniteSet(T)
      BY FS_Subset
    <3> HIDE DEF Bad
    <3>2. PICK s \in Bad : \A x \in s : s \ {x} \notin Bad
      BY <3>1, LeastSubset
    <3> USE DEF Bad
    <3>3. s # {}
      BY <1>5, <2>6
    <3>4. iter[s \ {First(s)}] = h[s \ {First(s)}]
      BY <2>2, <3>2, <3>3
    <3> QED BY <2>3, <2>6, <3>3, <3>4
  <2>8. iter[T] = h[T]
    BY <2>7
  <2> QED BY <2>1, <2>8 DEF g
<1> QED BY <1>2, <1>3, <1>4, <1>5, <1>6 DEF NumberSums

-------------------------------------------------------------------------------
(* Sums of numbers along a list *)

\* What NumberSums says of one set, and of two.
LEMMA TakeOne ==
  ASSUME NEW S, NEW f, NEW h, NumberSums(h, f, S), NEW T, T \in SUBSET S, NEW x, x \in T
  PROVE  h[T] = f[x] + h[T \ {x}] /\ f[x] \in Nat /\ h[T] \in Nat /\ h[T \ {x}] \in Nat
<1>1. h[T] = f[x] + h[T \ {x}]
  BY Zenon DEF NumberSums
<1>2. h \in [SUBSET S -> Nat] /\ \A y \in S : f[y] \in Nat
  BY Zenon DEF NumberSums
<1>3. x \in S /\ T \ {x} \in SUBSET S
  OBVIOUS
<1> QED BY <1>1, <1>2, <1>3

\* The sum over two parts is that of one and of the other.
LEMMA TakeApart ==
  ASSUME NEW S, NEW f, NEW h, NumberSums(h, f, S), NEW T, T \in SUBSET S,
         NEW U, U \in SUBSET S, T \intersect U = {}
  PROVE  h[T \union U] = h[T] + h[U] /\ h[T] \in Nat /\ h[U] \in Nat
<1>1. h[T \union U] = h[T] + h[U]
  BY Zenon DEF NumberSums
<1>2. h \in [SUBSET S -> Nat]
  BY Zenon DEF NumberSums
<1> QED BY <1>1, <1>2

\* Numbers that are 0 add up to 0.
LEMMA ZeroSum ==
  ASSUME NEW S, IsFiniteSet(S), NEW f, NEW h, NumberSums(h, f, S),
         NEW T \in SUBSET S, \A x \in T : f[x] = 0
  PROVE  h[T] = 0
<1> DEFINE Bad == { U \in SUBSET T : h[U] # 0 }
<1> SUFFICES ASSUME Bad # {} PROVE FALSE
  OBVIOUS
<1>1. Bad \in SUBSET (SUBSET T) /\ IsFiniteSet(T)
  BY FS_Subset
<1> HIDE DEF Bad
<1>2. PICK U \in Bad : \A x \in U : U \ {x} \notin Bad
  BY <1>1, LeastSubset
<1> USE DEF Bad
<1>3. U # {} /\ U \in SUBSET S
  BY DEF NumberSums
<1>4. PICK x \in U : TRUE
  BY <1>3
<1>5. h[U] = f[x] + h[U \ {x}] /\ f[x] = 0 /\ h[U \ {x}] = 0
  BY <1>2, <1>3, <1>4 DEF NumberSums
<1> QED BY <1>5

\* The sum over the first places of a list.
LEMMA NextPlace ==
  ASSUME NEW n \in Nat, NEW f, NEW h, NumberSums(h, f, 1 .. n), NEW k \in Nat, k < n
  PROVE  /\ h[1 .. 0] = 0 /\ h[1 .. k] \in Nat /\ f[k + 1] \in Nat
         /\ h[1 .. k + 1] = h[1 .. k] + f[k + 1]
<1> DEFINE K == 1 .. k
           L == 1 .. k + 1
           S == 1 .. n
<1>1. /\ 1 .. 0 = {} /\ K \in SUBSET S /\ L \in SUBSET S
      /\ k + 1 \in L /\ k + 1 \in S /\ L \ {k + 1} = K
  OBVIOUS
<1>2. NumberSums(h, f, S)
  OBVIOUS
<1> HIDE DEF K, L, S
<1>3. h[L] = f[k + 1] + h[K] /\ h[K] \in Nat /\ f[k + 1] \in Nat /\ h[{}] = 0
  <2>1. h[L] = f[k + 1] + h[L \ {k + 1}] /\ h[L \ {k + 1}] \in Nat /\ f[k + 1] \in Nat
    BY <1>1, <1>2, TakeOne
  <2>2. h[{}] = 0
    BY <1>2, Zenon DEF NumberSums
  <2> QED BY <1>1, <2>1, <2>2
<1>4. h[L] = h[K] + f[k + 1]
  BY <1>3
<1> QED BY <1>1, <1>3, <1>4 DEF K, L

\* A claim about all numbers up to n that holds for 0 and is handed on.
LEMMA UpTo ==
  ASSUME NEW n \in Nat, NEW P, 0 \in P, \A k \in Nat : k < n /\ k \in P => k + 1 \in P
  PROVE  n \in P
<1> DEFINE Bad == { k \in Nat : k <= n /\ k \notin P }
<1> SUFFICES ASSUME Bad # {} PROVE FALSE
  OBVIOUS
<1>1. Bad \in SUBSET Nat
  OBVIOUS
<1> HIDE DEF Bad
<1>2. PICK k \in Bad : \A m \in Bad : k <= m
  BY <1>1, LeastNat, Zenon
<1> USE DEF Bad
<1>3. k # 0 /\ k - 1 \in Nat /\ k - 1 < n /\ k - 1 \notin Bad
  BY <1>2
<1>4. k - 1 \in P
  BY <1>3
<1>5. (k - 1) + 1 \in P /\ (k - 1) + 1 = k
  BY <1>3, <1>4
<1> QED BY <1>5

\* Weights that decrease, a list with weights, and a list each prefix of which
\* adds up to at most that of another.
AreWeights(D, n) ==
  (\A i \in 1 .. n : D[i] \in Nat) /\ \A i \in 2 .. n : D[i] < D[i - 1]
IsWeighted(x, a, D, n) == \A i \in 1 .. n : x[i] = a[i] * D[i]
NeverMore(A, B, n) == \A k \in 0 .. n : A[1 .. k] <= B[1 .. k]

\* When each prefix of a adds up to at most that of b, weights that decrease
\* keep it so: summation by parts.
LEMMA WeightsKeepOrder ==
  ASSUME NEW n \in Nat, NEW D, AreWeights(D, n), NEW a, NEW b,
         NEW A, NEW B, NumberSums(A, a, 1 .. n), NumberSums(B, b, 1 .. n), NeverMore(A, B, n),
         NEW x, NEW y, IsWeighted(x, a, D, n), IsWeighted(y, b, D, n),
         NEW X, NEW Y, NumberSums(X, x, 1 .. n), NumberSums(Y, y, 1 .. n)
  PROVE  X[1 .. n] <= Y[1 .. n]
<1> USE DEF AreWeights, IsWeighted, NeverMore
<1> DEFINE e(k) == B[1 .. k] - A[1 .. k]
           w(k) == IF k = 0 THEN 0 ELSE D[k]
           P == { k \in 0 .. n : Y[1 .. k] >= X[1 .. k] + e(k) * w(k) }
<1>1. CASE n = 0
  <2>1. 1 .. n = {}
    BY <1>1
  <2>2. X[{}] = 0 /\ Y[{}] = 0
    BY Zenon DEF NumberSums
  <2> QED BY <2>1, <2>2
<1>2. CASE n # 0
  <2>1. /\ A[1 .. 0] = 0 /\ B[1 .. 0] = 0 /\ X[1 .. 0] = 0 /\ Y[1 .. 0] = 0
    BY <1>2, NextPlace
  <2>2. 0 \in P
    BY <2>1
  <2>3. ASSUME NEW k \in Nat, k < n, k \in P PROVE k + 1 \in P
    <3>1. /\ A[1 .. k + 1] = A[1 .. k] + a[k + 1] /\ A[1 .. k] \in Nat /\ a[k + 1] \in Nat
          /\ B[1 .. k + 1] = B[1 .. k] + b[k + 1] /\ B[1 .. k] \in Nat /\ b[k + 1] \in Nat
          /\ X[1 .. k + 1] = X[1 .. k] + x[k + 1] /\ X[1 .. k] \in Nat /\ x[k + 1] \in Nat
          /\ Y[1 .. k + 1] = Y[1 .. k] + y[k + 1] /\ Y[1 .. k] \in Nat /\ y[k + 1] \in Nat
      BY <2>3, NextPlace
    <3>2. /\ k + 1 \in 1 .. n /\ D[k + 1] \in Nat
          /\ x[k + 1] = a[k + 1] * D[k + 1] /\ y[k + 1] = b[k + 1] * D[k + 1]
          /\ A[1 .. k] <= B[1 .. k]
      BY <2>3
    <3> DEFINE d == D[k + 1]
               Ak == A[1 .. k]
               Bk == B[1 .. k]
               Xk == X[1 .. k]
               Yk == Y[1 .. k]
               ak == a[k + 1]
               bk == b[k + 1]
    <3>3. Yk >= Xk + (Bk - Ak) * d
      <4>1. CASE k = 0
        <5>1. Bk - Ak = 0
          BY <2>1, <4>1
        <5> QED BY <2>1, <3>2, <4>1, <5>1
      <4>2. CASE k # 0
        <5>1. k + 1 \in 2 .. n /\ (k + 1) - 1 = k /\ k \in 1 .. n
          BY <2>3, <4>2
        <5>2. D[k] \in Nat /\ d < D[k] /\ d \in Nat /\ Bk - Ak \in Nat
          BY <3>1, <3>2, <5>1
        <5>3. Yk >= Xk + (Bk - Ak) * D[k]
          BY <2>3, <4>2
        <5> HIDE DEF d, Ak, Bk, Xk, Yk
        <5>4. \A p, q, r \in Nat : q < r => p * q <= p * r
          <6>1. ASSUME NEW p \in Nat, NEW q \in Nat, NEW r \in Nat, q < r PROVE p * q <= p * r
            <7>1. p * (r - q) = p * r - p * q /\ p * (r - q) \in Nat /\ p * q \in Nat /\ p * r \in Nat
              BY <6>1
            <7> QED BY <7>1
          <6> QED BY <6>1
        <5>5. (Bk - Ak) * d <= (Bk - Ak) * D[k]
          BY <5>2, <5>4
        <5>6. (Bk - Ak) * d \in Nat /\ (Bk - Ak) * D[k] \in Nat
          BY <5>2
        <5>7. Xk \in Nat /\ Yk \in Nat
          BY <3>1 DEF Xk, Yk
        <5> QED BY <5>3, <5>5, <5>6, <5>7
      <4> QED BY <4>1, <4>2
    <3>4. /\ Ak \in Nat /\ Bk \in Nat /\ Xk \in Nat /\ Yk \in Nat /\ ak \in Nat /\ bk \in Nat /\ d \in Nat
      BY <3>1, <3>2
    <3>5. e(k + 1) = (Bk + bk) - (Ak + ak) /\ w(k + 1) = d
      BY <2>3, <3>1
    <3>6. X[1 .. k + 1] = Xk + ak * d /\ Y[1 .. k + 1] = Yk + bk * d
      BY <3>1, <3>2
    <3> HIDE DEF d, Ak, Bk, Xk, Yk, ak, bk, e, w
    <3>7. Yk + bk * d >= (Xk + ak * d) + ((Bk + bk) - (Ak + ak)) * d
      <4>1. ((Bk + bk) - (Ak + ak)) * d = (Bk - Ak) * d + bk * d - ak * d
        BY <3>4
      <4>2. (Bk - Ak) * d \in Int /\ bk * d \in Int /\ ak * d \in Int
        BY <3>4
      <4> QED BY <3>3, <3>4, <4>1, <4>2
    <3> QED BY <3>2, <3>5, <3>6, <3>7
  <2> HIDE DEF P
  <2>4. n \in P
    BY <2>2, <2>3, UpTo
  <2>5. /\ A[1 .. n] \in Nat /\ B[1 .. n] \in Nat /\ X[1 .. n] \in Nat /\ Y[1 .. n] \in Nat
    BY Zenon DEF NumberSums
  <2>6. e(n) \in Nat /\ w(n) \in Nat
    BY <1>2, <2>5
  <2>7. e(n) * w(n) \in Nat
    BY <2>6
  <2>8. Y[1 .. n] >= X[1 .. n] + e(n) * w(n)
    BY <2>4 DEF P
  <2> HIDE DEF e, w
  <2> QED BY <2>5, <2>7, <2>8
<1> QED BY <1>1, <1>2

\* The elements of a finite set, the greatest gains first.
IsBest(f, g, R) ==
  /\ f \in [1 .. Cardinality(R) -> R]
  /\ \A c \in R : \E i \in DOMAIN f : f[i] = c
  /\ \A i, j \in DOMAIN f : i < j => g[f[i]] >= g[f[j]]

\* There is such a list: ties are broken by any numbering of the set.
LEMMA BestExists ==
  ASSUME NEW R, IsFiniteSet(R), NEW g, \A c \in R : g[c] \in Nat
  PROVE  \E f \in [1 .. Cardinality(R) -> R] : IsBest(f, g, R)
<1> DEFINE n == Cardinality(R)
<1>1. n \in Nat
  BY FS_CardinalityType
<1>2. PICK num \in [R -> 1 .. n] : \A c, d \in R : num[c] = num[d] => c = d
  <2>1. IsFiniteSet(1 .. n) /\ Cardinality(1 .. n) = n
    BY <1>1, FS_Interval
  <2>2. ExistsBijection(R, 1 .. n)
    BY <2>1, FS_SameCardinalityBij
  <2> QED BY <2>2 DEF ExistsBijection, Bijection, Injection, IsInjective
<1> HIDE DEF n
<1> DEFINE ahead(c, d) == g[c] > g[d] \/ (g[c] = g[d] /\ num[c] < num[d])
           Order == { p \in R \X R : ahead(p[1], p[2]) }
<1>3. \A c, d \in R : <<c, d>> \in Order <=> ahead(c, d)
  OBVIOUS
<1> HIDE DEF Order
<1>4. ASSUME NEW x \in R, NEW y \in R, NEW z \in R
      PROVE  /\ ~ ahead(x, x) /\ (x = y \/ ahead(x, y) \/ ahead(y, x))
             /\ ahead(x, y) /\ ahead(y, z) => ahead(x, z)
  <2>1. /\ g[x] \in Nat /\ g[y] \in Nat /\ g[z] \in Nat
        /\ num[x] \in Nat /\ num[y] \in Nat /\ num[z] \in Nat
        /\ num[x] = num[y] => x = y
    BY <1>1, <1>2
  <2> QED BY <2>1
<1>5. IsOrder(Order, R)
  <2> HIDE DEF ahead
  <2> QED BY <1>3, <1>4 DEF IsOrder
<1>6. PICK f \in [1 .. n -> R] : \A i, j \in DOMAIN f : i < j => <<f[i], f[j]>> \in Order
  BY <1>5, SortedExists DEF n
<1>7. \A i, j \in 1 .. n : i < j => f[i] \in R /\ f[j] \in R /\ ahead(f[i], f[j])
  BY <1>3, <1>6
<1>8. \A i, j \in 1 .. n : i < j => g[f[i]] >= g[f[j]] /\ f[i] # f[j]
  <2> SUFFICES ASSUME NEW i \in 1 .. n, NEW j \in 1 .. n, i < j
               PROVE  g[f[i]] >= g[f[j]] /\ f[i] # f[j]
    OBVIOUS
  <2>1. f[i] \in R /\ f[j] \in R /\ ahead(f[i], f[j])
    BY <1>7
  <2>2. g[f[i]] \in Nat /\ g[f[j]] \in Nat /\ num[f[i]] \in Nat /\ num[f[j]] \in Nat
    BY <1>1, <1>2, <2>1
  <2>3. g[f[i]] >= g[f[j]]
    BY <2>1, <2>2
  <2>4. f[i] # f[j]
    <3> HIDE DEF ahead
    <3> QED BY <1>4, <2>1
  <2> QED BY <2>3, <2>4
<1>9. f \in Injection(1 .. n, R)
  <2>1. \A i, j \in 1 .. n : f[i] = f[j] => i = j
    BY <1>1, <1>8
  <2> QED BY <1>6, <2>1 DEF Injection, IsInjective
<1>10. f \in Surjection(1 .. n, R)
  <2>1. IsFiniteSet(1 .. n) /\ Cardinality(1 .. n) = Cardinality(R)
    BY <1>1, FS_Interval DEF n
  <2> QED BY <1>9, <2>1, FS_Injection
<1>11. \A c \in R : \E i \in 1 .. n : f[i] = c
  BY <1>10 DEF Surjection
<1> QED BY <1>6, <1>8, <1>11 DEF IsBest, n

\* The gains of the first N of that list.
AreGains(b, best, g, R, N) ==
  \A i \in 1 .. N : b[i] = IF i <= Cardinality(R) THEN g[best[i]] ELSE 0

\* No k elements gain more than the first k of that list.
LEMMA BestIsBest ==
  ASSUME NEW R, IsFiniteSet(R), NEW g, NEW G, NumberSums(G, g, R),
         NEW best, IsBest(best, g, R),
         NEW N \in Nat, NEW b, NEW B, NumberSums(B, b, 1 .. N),
         AreGains(b, best, g, R, N), NEW k \in 0 .. N, NEW T \in SUBSET R, Cardinality(T) <= k
  PROVE  G[T] <= B[1 .. k]
<1> DEFINE n == Cardinality(R)
           P == { m \in 0 .. k : \A U \in SUBSET R : Cardinality(U) <= m => G[U] <= B[1 .. m] }
<1>1. n \in Nat /\ k \in Nat /\ \A U \in SUBSET R : IsFiniteSet(U) /\ Cardinality(U) \in Nat /\ G[U] \in Nat
  <2>1. G \in [SUBSET R -> Nat]
    BY Zenon DEF NumberSums
  <2> QED BY <2>1, FS_Subset, FS_CardinalityType
<1>2. /\ best \in [1 .. n -> R] /\ \A c \in R : \E i \in 1 .. n : best[i] = c
      /\ \A i, j \in 1 .. n : i < j => g[best[i]] >= g[best[j]]
      /\ \A c \in R : g[c] \in Nat
  <2>1. \A c \in R : g[c] \in Nat
    BY Zenon DEF NumberSums
  <2> QED BY <2>1 DEF IsBest
<1> HIDE DEF n
<1>3. 0 \in P
  <2>1. B[1 .. 0] = 0
    <3>1. B[{}] = 0
      BY Zenon DEF NumberSums
    <3>2. 1 .. 0 = {}
      OBVIOUS
    <3> QED BY <3>1, <3>2
  <2>2. ASSUME NEW U \in SUBSET R, Cardinality(U) <= 0 PROVE G[U] <= 0
    <3>1. U = {}
      BY <1>1, <2>2, FS_EmptySet
    <3>2. G[{}] = 0
      BY Zenon DEF NumberSums
    <3> QED BY <3>1, <3>2
  <2> QED BY <1>1, <2>1, <2>2
<1>4. ASSUME NEW m \in Nat, m < k, m \in P PROVE m + 1 \in P
  <2>1. m < N
    BY <1>1, <1>4
  <2>2. B[1 .. m + 1] = B[1 .. m] + b[m + 1] /\ B[1 .. m] \in Nat /\ b[m + 1] \in Nat
    BY <1>4, <2>1, NextPlace, SMTT(60)
  <2>3. ASSUME NEW U \in SUBSET R, Cardinality(U) <= m + 1 PROVE G[U] <= B[1 .. m + 1]
    <3>1. CASE Cardinality(U) <= m
      BY <1>1, <1>4, <2>2, <3>1
    <3>2. CASE ~ (Cardinality(U) <= m)
      <4>1. Cardinality(U) = m + 1
        BY <1>1, <2>3, <3>2
      <4> DEFINE first == { best[i] : i \in { j \in 1 .. n : j <= m } }
      <4>2. PICK c \in U : c \notin first
        <5>1. IsFiniteSet(1 .. m) /\ Cardinality(1 .. m) = m
          BY FS_Interval
        <5>2. { j \in 1 .. n : j <= m } \in SUBSET (1 .. m)
          OBVIOUS
        <5>3. IsFiniteSet({ j \in 1 .. n : j <= m }) /\ Cardinality({ j \in 1 .. n : j <= m }) <= m
          BY <5>1, <5>2, FS_Subset
        <5>4. IsFiniteSet(first) /\ Cardinality(first) <= Cardinality({ j \in 1 .. n : j <= m })
          <6> DEFINE J == { j \in 1 .. n : j <= m }
                     fun == [j \in J |-> best[j]]
          <6>1. fun \in Surjection(J, first)
            BY DEF Surjection
          <6>2. IsFiniteSet(J)
            BY <5>3
          <6> HIDE DEF J, fun, first
          <6> QED BY <6>1, <6>2, FS_Surjection DEF J
        <5> HIDE DEF first
        <5>5. ~ (U \subseteq first)
          <6>1. U \subseteq first => Cardinality(U) <= Cardinality(first)
            BY <5>4, FS_Subset
          <6>2. Cardinality(first) \in Nat /\ Cardinality({ j \in 1 .. n : j <= m }) \in Nat
            BY <5>3, <5>4, FS_CardinalityType
          <6> QED BY <4>1, <5>3, <5>4, <6>1, <6>2
        <5> QED BY <5>5
      <4>3. PICK j \in 1 .. n : best[j] = c
        BY <1>2, <4>2
      <4>4. ~ (j <= m)
        BY <4>2, <4>3
      <4> HIDE DEF first
      <4>5. m + 1 <= n /\ m + 1 \in 1 .. n /\ m + 1 \in 1 .. N
        BY <1>1, <1>4, <4>3, <4>4
      <4>6. b[m + 1] = g[best[m + 1]] /\ best[m + 1] \in R
        BY <1>2, <4>5 DEF n, AreGains
      <4>7. g[c] <= b[m + 1]
        <5>1. CASE j = m + 1
          BY <2>2, <4>3, <4>6, <5>1
        <5>2. CASE j # m + 1
          <6>1. m + 1 < j
            BY <1>1, <4>4, <4>5, <5>2
          <6> QED BY <1>2, <4>3, <4>5, <4>6, <6>1
        <5> QED BY <5>1, <5>2
      <4>8. G[U] = g[c] + G[U \ {c}] /\ G[U \ {c}] \in Nat /\ g[c] \in Nat
        <5> HIDE DEF P
        <5>1. U \in SUBSET R /\ c \in U
          BY <2>3, <4>2
        <5>2. G[U] = g[c] + G[U \ {c}] /\ g[c] \in Nat /\ G[U] \in Nat /\ G[U \ {c}] \in Nat
          BY <5>1, TakeOne, Zenon
        <5> QED BY <5>2
      <4>9. Cardinality(U \ {c}) = Cardinality(U) - 1 /\ U \ {c} \in SUBSET R
        BY <1>1, FS_RemoveElement
      <4>10. G[U \ {c}] <= B[1 .. m]
        BY <1>4, <4>1, <4>9
      <4> QED BY <2>2, <4>7, <4>8, <4>10
    <3> QED BY <3>1, <3>2
  <2> QED BY <1>1, <1>4, <2>3
<1> HIDE DEF P
<1>5. k \in P
  BY <1>1, <1>3, <1>4, UpTo
<1> QED BY <1>5 DEF P

\* A list that names elements of R at some places, none twice, and its gains.
IsListing(r, J, R, a, g, N) ==
  /\ J \in SUBSET (1 .. N) /\ \A i \in J : r[i] \in R
  /\ \A i, j \in J : r[i] = r[j] => i = j
  /\ \A i \in 1 .. N : a[i] = IF i \in J THEN g[r[i]] ELSE 0

\* What a list that names no element twice has gained after k places is what k
\* elements or fewer gain.
LEMMA ListGains ==
  ASSUME NEW R, IsFiniteSet(R), NEW g, NEW G, NumberSums(G, g, R),
         NEW N \in Nat, NEW J, NEW r, NEW a, IsListing(r, J, R, a, g, N),
         NEW A, NumberSums(A, a, 1 .. N), NEW k \in 0 .. N
  PROVE  \E T \in SUBSET R : Cardinality(T) <= k /\ A[1 .. k] = G[T]
<1> DEFINE Taken(m) == { r[i] : i \in { j \in J : j <= m } }
           P == { m \in 0 .. k : Cardinality(Taken(m)) <= m /\ A[1 .. m] = G[Taken(m)] }
<1>1. /\ J \in SUBSET Nat /\ k \in Nat /\ \A i \in J : r[i] \in R
      /\ \A i, j \in J : r[i] = r[j] => i = j
      /\ \A i \in 1 .. k : a[i] = IF i \in J THEN g[r[i]] ELSE 0
  BY DEF IsListing
<1>2. k \in Nat /\ \A m : Taken(m) \in SUBSET R
  BY <1>1
<1>3. 0 \in P
  <2>1. Taken(0) = {} /\ 1 .. 0 = {}
    BY DEF IsListing
  <2>2. A[{}] = 0 /\ G[{}] = 0
    BY Zenon DEF NumberSums
  <2>3. Cardinality(Taken(0)) = 0
    BY <2>1, FS_EmptySet
  <2> HIDE DEF Taken
  <2>4. A[1 .. 0] = G[Taken(0)]
    BY <2>1, <2>2
  <2> QED BY <1>2, <2>3, <2>4
<1>4. ASSUME NEW m \in Nat, m < k, m \in P PROVE m + 1 \in P
  <2>1. A[1 .. m + 1] = A[1 .. m] + a[m + 1] /\ A[1 .. m] \in Nat /\ a[m + 1] \in Nat
    BY <1>4, NextPlace
  <2>2. IsFiniteSet(Taken(m)) /\ Cardinality(Taken(m)) \in Nat /\ Cardinality(Taken(m)) <= m
    <3> HIDE DEF Taken
    <3> QED BY <1>2, <1>4, FS_Subset, FS_CardinalityType
  <2>3. CASE m + 1 \in J
    <3>1. Taken(m + 1) = Taken(m) \union {r[m + 1]} /\ r[m + 1] \notin Taken(m)
      <4>1. { j \in J : j <= m + 1 } = { j \in J : j <= m } \union {m + 1}
        <5>1. \A j \in J : j <= m + 1 <=> j <= m \/ j = m + 1
          BY <1>1
        <5> QED BY <2>3, <5>1
      <4>2. m + 1 \notin { j \in J : j <= m }
        OBVIOUS
      <4> QED BY <1>1, <2>3, <4>1, <4>2
    <3>2. r[m + 1] \in R /\ a[m + 1] = g[r[m + 1]]
      BY <1>1, <1>4, <2>3
    <3> HIDE DEF Taken
    <3>3. Cardinality(Taken(m + 1)) = Cardinality(Taken(m)) + 1
      BY <2>2, <3>1, FS_AddElement
    <3>4. G[Taken(m + 1)] = g[r[m + 1]] + G[Taken(m + 1) \ {r[m + 1]}]
      BY <1>2, <3>1, TakeOne
    <3>5. Taken(m + 1) \ {r[m + 1]} = Taken(m)
      BY <3>1
    <3>6. G[Taken(m)] \in Nat /\ G[Taken(m)] = A[1 .. m]
      BY <1>4, <2>1
    <3>7. Cardinality(Taken(m + 1)) <= m + 1 /\ A[1 .. m + 1] = G[Taken(m + 1)]
      <4>1. G[Taken(m + 1)] = g[r[m + 1]] + A[1 .. m]
        BY <3>4, <3>5, <3>6
      <4>2. g[r[m + 1]] + A[1 .. m] = A[1 .. m] + a[m + 1]
        BY <2>1, <3>2
      <4> QED BY <2>1, <2>2, <3>3, <4>1, <4>2
    <3> QED BY <1>2, <1>4, <3>7
  <2>4. CASE m + 1 \notin J
    <3>1. Taken(m + 1) = Taken(m)
      <4>1. { j \in J : j <= m + 1 } = { j \in J : j <= m }
        <5>1. \A j \in J : j <= m + 1 <=> j <= m \/ j = m + 1
          BY <1>1
        <5> QED BY <2>4, <5>1
      <4> QED BY <4>1
    <3>2. a[m + 1] = 0
      BY <1>1, <1>4, <2>4
    <3> HIDE DEF Taken
    <3>3. A[1 .. m + 1] = G[Taken(m + 1)] /\ Cardinality(Taken(m + 1)) <= m + 1
      BY <1>4, <2>1, <2>2, <3>1, <3>2
    <3> QED BY <1>2, <1>4, <3>3
  <2> QED BY <2>3, <2>4
<1> HIDE DEF P
<1>5. k \in P
  BY <1>2, <1>3, <1>4, UpTo
<1> QED BY <1>2, <1>5 DEF P

\* So with weights that decrease no list gains more than the best one.
LEMMA BestGainsMost ==
  ASSUME NEW R, IsFiniteSet(R), NEW g, \A c \in R : g[c] \in Nat, NEW best, IsBest(best, g, R),
         NEW N \in Nat, NEW D, AreWeights(D, N),
         NEW m \in 0 .. N, NEW J, NEW r, NEW p, IsListing(r, J, R, p, g, m),
         NEW x \in [1 .. m -> Nat], IsWeighted(x, p, D, m),
         NEW n, n = IF Cardinality(R) < N THEN Cardinality(R) ELSE N,
         NEW q, AreGains(q, best, g, R, n),
         NEW y \in [1 .. n -> Nat], IsWeighted(y, q, D, n)
  PROVE  SumFunction(x) <= SumFunction(y)
<1> DEFINE S == 1 .. N
           a == [i \in S |-> IF i \in J THEN g[r[i]] ELSE 0]
           b == [i \in S |-> IF i <= Cardinality(R) THEN g[best[i]] ELSE 0]
           v == [i \in S |-> a[i] * D[i]]
           w == [i \in S |-> b[i] * D[i]]
<1>1. Cardinality(R) \in Nat /\ IsFiniteSet(1 .. N)
  BY FS_CardinalityType, FS_Interval
<1>2. /\ J \in SUBSET (1 .. N) /\ (\A i \in J : r[i] \in R)
      /\ \A i, j \in J : r[i] = r[j] => i = j
      /\ \A i \in 1 .. m : x[i] = (IF i \in J THEN g[r[i]] ELSE 0) * D[i]
      /\ \A i \in 1 .. n : y[i] = g[best[i]] * D[i]
  <2>1. J \in SUBSET (1 .. m) /\ \A i \in 1 .. m : x[i] = (IF i \in J THEN g[r[i]] ELSE 0) * D[i]
    BY DEF IsListing, IsWeighted
  <2>2. \A i \in 1 .. n : i <= Cardinality(R) /\ y[i] = q[i] * D[i]
    BY <1>1 DEF IsWeighted
  <2>3. \A i \in 1 .. n : q[i] = g[best[i]]
    BY <2>2 DEF AreGains
  <2> QED BY <2>1, <2>2, <2>3 DEF IsListing
<1>3. /\ \A i \in S : a[i] \in Nat
      /\ \A i \in S : b[i] \in Nat
  <2>1. \A i \in 1 .. Cardinality(R) : best[i] \in R
    BY DEF IsBest
  <2>2. \A i \in S : i <= Cardinality(R) => i \in 1 .. Cardinality(R)
    BY <1>1
  <2> QED BY <1>2, <2>1, <2>2
<1>4. /\ \A i \in S : a[i] = IF i \in J THEN g[r[i]] ELSE 0
      /\ \A i \in S : b[i] = IF i <= Cardinality(R) THEN g[best[i]] ELSE 0
      /\ \A i \in S : v[i] = a[i] * D[i] /\ w[i] = b[i] * D[i]
  OBVIOUS
<1> HIDE DEF a, b, v, w
<1>5. \A i \in S : D[i] \in Nat
  BY DEF AreWeights
<1>6. \A i \in S : v[i] \in Nat /\ w[i] \in Nat
  <2>1. \A c, d \in Nat : c * d \in Nat
    OBVIOUS
  <2> QED BY <1>3, <1>4, <1>5, <2>1
<1> HIDE DEF S
<1>7. IsFiniteSet(S)
  BY <1>1 DEF S
<1>8. PICK G : NumberSums(G, g, R)
  BY NumberLaws
<1>9. PICK A : NumberSums(A, a, S)
  BY <1>3, <1>7, NumberLaws
<1>10. PICK B : NumberSums(B, b, S)
  BY <1>3, <1>7, NumberLaws
<1>11. PICK V : NumberSums(V, v, S)
  BY <1>6, <1>7, NumberLaws
<1>12. PICK W : NumberSums(W, w, S)
  BY <1>6, <1>7, NumberLaws
<1>13. NeverMore(A, B, N)
  <2> SUFFICES ASSUME NEW k \in 0 .. N PROVE A[1 .. k] <= B[1 .. k]
    BY DEF NeverMore
  <2>1. IsListing(r, J, R, a, g, N) /\ AreGains(b, best, g, R, N)
    BY <1>2, <1>4 DEF S, IsListing, AreGains
  <2>2. NumberSums(A, a, 1 .. N) /\ NumberSums(B, b, 1 .. N)
    BY <1>9, <1>10 DEF S
  <2>3. PICK T \in SUBSET R : Cardinality(T) <= k /\ A[1 .. k] = G[T]
    BY <1>8, <2>1, <2>2, ListGains
  <2>4. G[T] <= B[1 .. k]
    BY <1>8, <2>1, <2>2, <2>3, BestIsBest
  <2> QED BY <2>3, <2>4
<1>14. V[1 .. N] <= W[1 .. N]
  <2>1. /\ NumberSums(A, a, 1 .. N) /\ NumberSums(B, b, 1 .. N)
        /\ NumberSums(V, v, 1 .. N) /\ NumberSums(W, w, 1 .. N)
    BY <1>9, <1>10, <1>11, <1>12 DEF S
  <2>2. IsWeighted(v, a, D, N) /\ IsWeighted(w, b, D, N)
    BY <1>4 DEF S, IsWeighted
  <2> QED BY <1>13, <2>1, <2>2, WeightsKeepOrder
<1>15. n \in 0 .. N /\ m \in 0 .. N /\ 1 .. m \in SUBSET S /\ 1 .. n \in SUBSET S
       /\ m + 1 .. N \in SUBSET S /\ n + 1 .. N \in SUBSET S
       /\ (1 .. m) \intersect (m + 1 .. N) = {} /\ (1 .. m) \union (m + 1 .. N) = 1 .. N
       /\ (1 .. n) \intersect (n + 1 .. N) = {} /\ (1 .. n) \union (n + 1 .. N) = 1 .. N
  <2>1. n \in 0 .. N
    BY <1>1
  <2>2. \A k \in 0 .. N : /\ 1 .. k \in SUBSET (1 .. N) /\ k + 1 .. N \in SUBSET (1 .. N)
                          /\ (1 .. k) \intersect (k + 1 .. N) = {}
                          /\ (1 .. k) \union (k + 1 .. N) = 1 .. N
    OBVIOUS
  <2> QED BY <2>1, <2>2 DEF S
<1>16. V[1 .. N] \in Nat /\ W[1 .. N] \in Nat
  <2>1. V[S] \in Nat /\ W[S] \in Nat
    BY <1>11, <1>12, Zenon DEF NumberSums
  <2> QED BY <2>1 DEF S
<1>17. V[1 .. m] <= V[1 .. N] /\ SumFunction([i \in 1 .. m |-> x[i]]) = V[1 .. m] /\ V[1 .. m] \in Nat
  <2>1. [i \in 1 .. m |-> x[i]] = [i \in 1 .. m |-> v[i]]
    <3>1. \A i \in 1 .. m : x[i] = v[i]
      BY <1>2, <1>4, <1>15
    <3> QED BY <3>1
  <2>2. SumFunction([i \in 1 .. m |-> v[i]]) = V[1 .. m]
    BY <1>11, <1>15, Zenon DEF NumberSums
  <2>3. V[1 .. N] = V[1 .. m] + V[m + 1 .. N] /\ V[1 .. m] \in Nat /\ V[m + 1 .. N] \in Nat
    <3> DEFINE low == 1 .. m
               high == m + 1 .. N
    <3>1. low \in SUBSET S /\ high \in SUBSET S /\ low \intersect high = {} /\ low \union high = 1 .. N
      BY <1>15
    <3> HIDE DEF low, high
    <3>2. V[low \union high] = V[low] + V[high] /\ V[low] \in Nat /\ V[high] \in Nat
      BY <1>11, <3>1, TakeApart
    <3> QED BY <3>1, <3>2 DEF low, high
  <2>4. V[1 .. m] <= V[1 .. N]
    BY <2>3
  <2>5. SumFunction([i \in 1 .. m |-> x[i]]) = V[1 .. m]
    BY <2>1, <2>2, Zenon
  <2> QED BY <2>3, <2>4, <2>5, Zenon
<1>18. V[1 .. m] <= W[1 .. N]
  BY <1>14, <1>17, <1>16
<1>19. SumFunction([i \in 1 .. n |-> y[i]]) = W[1 .. N]
  <2>1. [i \in 1 .. n |-> y[i]] = [i \in 1 .. n |-> w[i]]
    <3>1. \A i \in 1 .. n : i \in S /\ i <= Cardinality(R)
      BY <1>1, <1>15
    <3>2. \A i \in 1 .. n : y[i] = w[i]
      BY <1>2, <1>4, <3>1
    <3> QED BY <3>2
  <2>2. SumFunction([i \in 1 .. n |-> w[i]]) = W[1 .. n]
    BY <1>12, <1>15, Zenon DEF NumberSums
  <2>3. W[1 .. N] = W[1 .. n] + W[n + 1 .. N] /\ W[1 .. n] \in Nat
    <3> DEFINE low == 1 .. n
               high == n + 1 .. N
    <3>1. low \in SUBSET S /\ high \in SUBSET S /\ low \intersect high = {} /\ low \union high = 1 .. N
      BY <1>15
    <3> HIDE DEF low, high
    <3>2. W[low \union high] = W[low] + W[high] /\ W[low] \in Nat /\ W[high] \in Nat
      BY <1>12, <3>1, TakeApart
    <3> QED BY <3>1, <3>2 DEF low, high
  <2>4. W[n + 1 .. N] = 0
    <3>1. ASSUME NEW i \in n + 1 .. N PROVE w[i] = 0
      <4>1. i \in S /\ ~ (i <= Cardinality(R))
        BY <1>1, <1>15
      <4>2. w[i] = 0 * D[i] /\ D[i] \in Nat
        BY <1>4, <1>5, <4>1
      <4> QED BY <4>2
    <3> DEFINE high == n + 1 .. N
    <3>2. high \in SUBSET S /\ \A i \in high : w[i] = 0
      BY <1>15, <3>1
    <3> HIDE DEF high
    <3>3. W[high] = 0
      BY <1>7, <1>12, <3>2, ZeroSum
    <3> QED BY <3>3 DEF high
  <2>5. W[1 .. N] = W[1 .. n]
    BY <2>3, <2>4
  <2> QED BY <2>1, <2>2, <2>5, Zenon
<1>20. x = [i \in 1 .. m |-> x[i]] /\ y = [i \in 1 .. n |-> y[i]]
  OBVIOUS
<1> QED BY <1>17, <1>19, <1>18, <1>20, Zenon

-------------------------------------------------------------------------------
(* What is ranked and what is scored *)

\* A chunk is ranked once.
IsRanking(r) == r \in Seq(Nat) /\ \A i, j \in DOMAIN r : r[i] = r[j] => i = j
RankedOK == stage = "score" => IsRanking(ranked)

\* The entries are of turns so far, and what is averaged by category is a fraction.
ScoredOK ==
  \A i \in DOMAIN scored :
    /\ scored[i].turn \in 1 .. turn /\ scored[i].answerable \in BOOLEAN
    /\ scored[i].answerable =>
         scored[i].metrics.recall \in Fraction /\ scored[i].metrics.mrr \in Fraction

\* Every query is scored once in a turn.
Counted ==
  /\ \A t \in 1 .. Turns : Cardinality(Of(t)) = Len(dataset.queries)
  /\ stage \in InQuery => Cardinality(Of(turn)) = number - 1
  /\ stage = "summarize" => Cardinality(Of(turn)) = Len(dataset.queries)

\* The last report of a mode has the means of each category of its turn.
OfCategory(t, c) == { i \in Of(t) : scored[i].category = c }
ByCategory(t) ==
  [c \in { scored[i].category : i \in Of(t) } |-> Means(OfCategory(t, c))]
Categorized ==
  \A t \in 1 .. Turns : (\A u \in t + 1 .. Turns : modes[u] # modes[t]) =>
    report[modes[t]].by_category = ByCategory(t)

-------------------------------------------------------------------------------
(* NDCG *)

\* A power of two, as the number of the subsets of a set.
LEMMA PowerOfTwo ==
  ASSUME NEW n \in Nat
  PROVE  2 ^ n - 1 \in Nat
<1>1. IsFiniteSet(1 .. n) /\ Cardinality(1 .. n) = n
  BY FS_Interval
<1>2. IsFiniteSet(SUBSET (1 .. n)) /\ Cardinality(SUBSET (1 .. n)) = 2 ^ n
  BY <1>1, FS_SUBSET
<1>3. Cardinality(SUBSET (1 .. n)) \in Nat /\ Cardinality(SUBSET (1 .. n)) # 0
  BY <1>2, FS_CardinalityType, FS_EmptySet
<1> QED BY <1>2, <1>3

\* So gains of grades that are not negative are numbers.
LEMMA GainIsNumber ==
  ASSUME NEW grade \in Int, grade >= 0
  PROVE  GainOf(grade) \in Nat
<1>1. GainOf(grade) = Unit * (2 ^ grade - 1)
  BY DEF GainOf
<1>2. 2 ^ grade - 1 \in Nat
  BY PowerOfTwo
<1>3. \A a, b \in Nat : a * b \in Nat
  OBVIOUS
<1> QED BY <1>1, <1>2, <1>3, EvaluationAssumption

\* And their sum.
LEMMA SumIsNumber ==
  ASSUME NEW m \in Nat, NEW x \in [1 .. m -> Nat]
  PROVE  SumFunction(x) \in Nat
<1> DEFINE S == 1 .. m
<1>1. IsFiniteSet(S)
  BY FS_Interval
<1>2. (\A i \in S : x[i] \in Nat) /\ x = [i \in S |-> x[i]]
  OBVIOUS
<1> HIDE DEF S
<1>3. PICK h : NumberSums(h, x, S)
  BY <1>1, <1>2, NumberLaws
<1>4. SumFunction([i \in S |-> x[i]]) = h[S] /\ h[S] \in Nat
  BY <1>3, Zenon DEF NumberSums
<1> QED BY <1>2, <1>4

\* A leg that is put out as it is.
LEMMA LegIsRanking ==
  ASSUME NEW leg, IsLeg(leg)
  PROVE  IsRanking([i \in DOMAIN leg |-> leg[i].chunk])
<1> DEFINE r == [i \in DOMAIN leg |-> leg[i].chunk]
<1>1. Len(leg) \in Nat /\ DOMAIN leg = 1 .. Len(leg) /\ \A i \in 1 .. Len(leg) : leg[i].chunk \in Nat
  BY LegTypes
<1>2. r \in Seq(Nat) /\ DOMAIN r = DOMAIN leg /\ \A i \in DOMAIN leg : r[i] = leg[i].chunk
  BY <1>1
<1>3. \A i, j \in DOMAIN leg : leg[i].chunk = leg[j].chunk => i = j
  BY DEF IsLeg
<1> HIDE DEF r
<1>4. IsRanking(r)
  BY <1>2, <1>3 DEF IsRanking
<1> QED BY <1>4 DEF r

\* A fused list names a chunk once, as none precedes itself.
LEMMA FusionIsRanking ==
  ASSUME NEW l, NEW v, IsLeg(l), IsLeg(v), NEW f \in Fusions(l, v)
  PROVE  IsRanking(f)
<1> DEFINE all == ChunksIn(l) \union ChunksIn(v)
<1>1. /\ Len(l) \in Nat /\ DOMAIN l = 1 .. Len(l) /\ \A i \in 1 .. Len(l) : l[i].chunk \in Nat /\ l[i].score \in Nat
      /\ Len(v) \in Nat /\ DOMAIN v = 1 .. Len(v) /\ \A i \in 1 .. Len(v) : v[i].chunk \in Nat /\ v[i].score \in Nat
  BY LegTypes
<1>2. IsFiniteSet(all) /\ all \in SUBSET Nat
  <2>1. ASSUME NEW k, IsLeg(k) PROVE IsFiniteSet(ChunksIn(k)) /\ ChunksIn(k) \in SUBSET Nat
    <3>1. Len(k) \in Nat /\ DOMAIN k = 1 .. Len(k) /\ \A i \in 1 .. Len(k) : k[i].chunk \in Nat
      BY <2>1, LegTypes
    <3> DEFINE g == [i \in 1 .. Len(k) |-> k[i].chunk]
    <3>2. g \in Surjection(1 .. Len(k), ChunksIn(k))
      BY <3>1 DEF ChunksIn, Surjection
    <3>3. IsFiniteSet(1 .. Len(k))
      BY <3>1, FS_Interval
    <3> HIDE DEF g
    <3>4. IsFiniteSet(ChunksIn(k))
      BY <3>2, <3>3, FS_Surjection
    <3> QED BY <3>1, <3>4 DEF ChunksIn
  <2>2. IsFiniteSet(ChunksIn(l)) /\ IsFiniteSet(ChunksIn(v))
    BY <2>1
  <2>3. ChunksIn(l) \in SUBSET Nat /\ ChunksIn(v) \in SUBSET Nat
    BY <2>1
  <2> QED BY <2>2, <2>3, FS_Union
<1>3. Cardinality(all) \in Nat
  BY <1>2, FS_CardinalityType
<1>4. f \in [1 .. Cardinality(all) -> all] /\ \A i, j \in DOMAIN f : i < j => Precedes(l, v, f[i], f[j])
  BY DEF Fusions
<1>5. ASSUME NEW c \in all PROVE ~ Precedes(l, v, c, c)
  <2>1. FusedScore(l, v, c) \in Fraction
    <3>1. FusedBy(l, v, c)
      BY FusedIs
    <3> QED BY <3>1, PlusFacts DEF FusedBy
  <2>2. HitScore(l, v, c) \in Nat /\ Place(l, v, c) \in Nat
    <3>1. /\ c \in ChunksIn(l) => RankIn(l, c) \in 1 .. Len(l)
          /\ c \in ChunksIn(v) => RankIn(v, c) \in 1 .. Len(v)
      BY LegTypes
    <3> QED BY <1>1, <3>1 DEF HitScore, Place
  <2>3. ~ Exceeds(FusedScore(l, v, c), FusedScore(l, v, c))
    BY <2>1, ExceedsFacts
  <2> QED BY <2>2, <2>3 DEF Precedes
<1> HIDE DEF all
<1>6. f \in Seq(Nat) /\ DOMAIN f = 1 .. Cardinality(all)
  <2> DEFINE n == Cardinality(all)
  <2>1. n \in Nat /\ f \in [1 .. n -> Nat]
    BY <1>2, <1>3, <1>4
  <2> HIDE DEF n
  <2>2. f \in Seq(Nat) /\ DOMAIN f = 1 .. n
    BY <2>1
  <2> QED BY <2>2 DEF n
<1>7. \A i, j \in DOMAIN f : f[i] = f[j] => i = j
  <2> SUFFICES ASSUME NEW i \in 1 .. Cardinality(all), NEW j \in 1 .. Cardinality(all), i < j
               PROVE  f[i] # f[j]
    BY <1>3, <1>6
  <2>1. Precedes(l, v, f[i], f[j]) /\ f[i] \in all
    BY <1>4
  <2> QED BY <1>5, <2>1
<1> QED BY <1>6, <1>7 DEF IsRanking

\* So does its beginning.
LEMMA CutIsRanking ==
  ASSUME NEW r, IsRanking(r), NEW n \in Nat
  PROVE  IsRanking(AtMost(n, r))
<1>1. r \in Seq(Nat)
  BY DEF IsRanking
<1>2. /\ AtMost(n, r) \in Seq(Nat)
      /\ \A i \in DOMAIN AtMost(n, r) : i \in DOMAIN r /\ AtMost(n, r)[i] = r[i]
  BY <1>1, AtMostFacts
<1> QED BY <1>2 DEF IsRanking

\* What the mode ranks, when it is scored.
LEMMA RankedStep ==
  ASSUME LoopsOK, Fusing, Retrieve \/ Fuse
  PROVE  RankedOK'
<1>1. TopK \in Nat
  BY EvaluationAssumption
<1>2. CASE Retrieve
  <2>1. /\ UNCHANGED <<dataset, modes, turn, number>> /\ stage = "retrieve"
        /\ lexical' = IF CurrentMode = "vector" THEN <<>> ELSE Search(Query.lexical)
        /\ vector' = IF CurrentMode = "lexical" THEN <<>> ELSE Search(dataset.corpus)
        /\ CurrentMode = "hybrid" => stage' = "fuse"
        /\ CurrentMode # "hybrid" =>
             ranked' = [i \in DOMAIN (lexical' \o vector') |-> (lexical' \o vector')[i].chunk]
    BY <1>2 DEF Retrieve, input
  <2>2. CASE CurrentMode = "hybrid"
    BY <2>1, <2>2 DEF RankedOK
  <2>3. CASE CurrentMode # "hybrid"
    <3>1. /\ dataset \in Datasets /\ number \in Nat \ {0} /\ number <= Len(dataset.queries)
          /\ Len(dataset.queries) \in Nat /\ DOMAIN dataset.queries = 1 .. Len(dataset.queries)
          /\ CurrentMode \in {"lexical", "vector"}
      BY <2>1, <2>3, InputFacts DEF LoopsOK, InQuery, InputsOK, CurrentMode
    <3>2. IsQuery(Query, Len(dataset.corpus)) /\ dataset.corpus \in Seq(Nat \ {0})
      BY <3>1, EvaluationAssumption DEF Query
    <3>3. /\ Query.lexical \in Seq(Nat) /\ Len(Query.lexical) = Len(dataset.corpus)
          /\ dataset.corpus \in Seq(Nat)
      BY <3>2 DEF IsQuery
    <3>4. IsLeg(Search(Query.lexical)) /\ IsLeg(Search(dataset.corpus))
      BY <3>2, <3>3, SearchIsLeg
    <3>5. PICK leg : leg = lexical' \o vector'
      OBVIOUS
    <3>6. leg = Search(Query.lexical) \/ leg = Search(dataset.corpus)
      <4>1. \A s \in Seq(Hit) : s \o <<>> = s /\ <<>> \o s = s
        OBVIOUS
      <4>2. Search(Query.lexical) \in Seq(Hit) /\ Search(dataset.corpus) \in Seq(Hit)
        BY <3>4 DEF IsLeg
      <4> QED BY <2>1, <3>1, <3>5, <4>1, <4>2
    <3>7. IsRanking([i \in DOMAIN leg |-> leg[i].chunk])
      BY <3>4, <3>6, LegIsRanking
    <3> QED BY <2>1, <2>3, <3>5, <3>7 DEF RankedOK
  <2> QED BY <2>2, <2>3
<1>3. CASE Fuse
  <2>1. UNCHANGED <<lexical, vector>> /\ stage = "fuse" /\ ranked' = AtMost(TopK, Sorted)
        /\ stage' = "score"
    BY <1>3 DEF Fuse
  <2>2. IsLeg(lexical) /\ IsLeg(vector) /\ IsLeg(lexical)' /\ IsLeg(vector)'
    BY <2>1 DEF Fusing, IsLeg
  <2>3. Sorted \in Fusions(lexical, vector)
    <3>1. /\ next > Len(lexical) + Len(vector) /\ next \in 1 .. Len(lexical) + Len(vector) + 1
          /\ IsDict(combined, FromLexical(next - 1), FromVector(next - 1))
      BY <1>3, <2>1 DEF Fuse, Fusing
    <3>2. Len(lexical) \in Nat /\ Len(vector) \in Nat
      BY <2>2, LegTypes
    <3>3. FromLexical(next - 1) = lexical /\ FromVector(next - 1) = vector
      <4>1. next - 1 = Len(lexical) + Len(vector)
        BY <3>1, <3>2
      <4>2. Prefix(lexical, Len(lexical)) = lexical /\ Prefix(vector, Len(vector)) = vector
        BY <2>2, PrefixWhole
      <4> QED BY <3>2, <4>1, <4>2 DEF FromLexical, FromVector
    <3> QED BY <2>2, <3>1, <3>3, SortedIsFusion
  <2>4. IsRanking(AtMost(TopK, Sorted))
    <3>1. IsRanking(Sorted)
      BY <2>2, <2>3, FusionIsRanking
    <3> QED BY <1>1, <3>1, CutIsRanking
  <2> QED BY <2>1, <2>4 DEF RankedOK
<1> QED BY <1>2, <1>3

\* A list without repetition whose gains are those of relevant chunks.
LEMMA RankingsGainAtMost ==
  ASSUME NEW q, IsFiniteSet(q.relevant),
         \A c \in DOMAIN q.graded : q.graded[c] \in Int /\ q.graded[c] >= 0,
         DOMAIN q.graded \subseteq q.relevant, IsRanking(ranked)
  PROVE  LET n == Ndcg(q) IN 0 <= n[1] /\ n[1] <= n[2]
<1> DEFINE R == q.relevant
           g == [c \in R |-> IdealGain(q, c)]
           top == AtMost(TopK, ranked)
           n == IF Cardinality(R) < TopK THEN Cardinality(R) ELSE TopK
           Best(f) == /\ \A c \in R : \E i \in DOMAIN f : f[i] = c
                      /\ \A i, j \in DOMAIN f : i < j => IdealGain(q, f[i]) >= IdealGain(q, f[j])
           best == CHOOSE f \in [1 .. Cardinality(R) -> R] : Best(f)
           x == [i \in DOMAIN top |-> Gain(q, top[i]) * Discount[i]]
           y == [i \in 1 .. n |-> IdealGain(q, best[i]) * Discount[i]]
           dcg == SumFunction(x)
           idcg == SumFunction(y)
           J == { i \in DOMAIN top : top[i] \in R }
           m == Len(top)
<1>1. TopK \in Nat /\ AreWeights(Discount, TopK)
  BY EvaluationAssumption DEF AreWeights
<1>2. /\ m \in 0 .. TopK /\ DOMAIN top = 1 .. m
      /\ \A i, j \in 1 .. m : top[i] = top[j] => i = j
  <2>1. ranked \in Seq(Nat) /\ Len(ranked) \in Nat
    BY DEF IsRanking
  <2>2. top \in Seq(Nat) /\ Len(top) = IF Len(ranked) < TopK THEN Len(ranked) ELSE TopK
    BY <1>1, <2>1, AtMostFacts
  <2>3. IsRanking(top)
    BY <1>1, CutIsRanking
  <2> HIDE DEF top
  <2>4. Len(top) \in 0 .. TopK
    BY <1>1, <2>1, <2>2
  <2> QED BY <2>2, <2>3, <2>4 DEF IsRanking
<1> HIDE DEF top, m
<1>3. Cardinality(R) \in Nat /\ n \in 0 .. TopK
  BY <1>1, FS_CardinalityType
<1>4. \A c \in R : g[c] = IdealGain(q, c) /\ g[c] \in Nat
  <2>1. ASSUME NEW c \in R PROVE IdealGain(q, c) \in Nat
    BY GainIsNumber, EvaluationAssumption DEF IdealGain
  <2> QED BY <2>1
<1> HIDE DEF g
<1>5. IsBest(best, g, R)
  <2>1. PICK f \in [1 .. Cardinality(R) -> R] : IsBest(f, g, R)
    BY <1>4, BestExists
  <2>2. Best(f)
    BY <1>4, <2>1 DEF IsBest
  <2> HIDE DEF Best
  <2>3. best \in [1 .. Cardinality(R) -> R] /\ Best(best)
    BY <2>2
  <2> HIDE DEF best
  <2>4. \A i \in 1 .. Cardinality(R) : g[best[i]] = IdealGain(q, best[i])
    BY <1>4, <2>3
  <2> QED BY <2>3, <2>4 DEF IsBest, Best
<1> HIDE DEF best
<1> DEFINE a == [i \in 1 .. m |-> IF i \in J THEN g[top[i]] ELSE 0]
           b == [i \in 1 .. n |-> g[best[i]]]
<1>6. IsWeighted(x, a, Discount, m)
  <2> SUFFICES ASSUME NEW i \in 1 .. m
               PROVE  x[i] = (IF i \in J THEN g[top[i]] ELSE 0) * Discount[i]
    BY DEF IsWeighted
  <2>1. x[i] = Gain(q, top[i]) * Discount[i]
    BY <1>2
  <2>2. Gain(q, top[i]) = IF i \in J THEN g[top[i]] ELSE 0
    BY <1>2, <1>4 DEF Gain, IdealGain
  <2> QED BY <2>1, <2>2
<1>7. AreGains(b, best, g, R, n) /\ IsWeighted(y, b, Discount, n)
  <2>1. \A i \in 1 .. n : best[i] \in R /\ i <= Cardinality(R)
    BY <1>1, <1>3, <1>5 DEF IsBest
  <2> HIDE DEF n
  <2> QED BY <1>4, <2>1 DEF AreGains, IsWeighted
<1>8. x \in [1 .. m -> Nat] /\ y \in [1 .. n -> Nat]
  <2>1. /\ \A i \in 1 .. m : a[i] \in Nat /\ x[i] = a[i] * Discount[i] /\ Discount[i] \in Nat
        /\ \A i \in 1 .. n : b[i] \in Nat /\ y[i] = b[i] * Discount[i] /\ Discount[i] \in Nat
    <3>1. \A i \in 1 .. m : a[i] \in Nat /\ Discount[i] \in Nat
      BY <1>1, <1>2, <1>4 DEF AreWeights
    <3>2. \A i \in 1 .. n : b[i] \in Nat /\ Discount[i] \in Nat
      <4>1. \A i \in 1 .. n : best[i] \in R
        BY <1>1, <1>3, <1>5 DEF IsBest
      <4>2. \A i \in 1 .. n : i \in 1 .. TopK
        BY <1>1, <1>3
      <4> HIDE DEF n
      <4> QED BY <1>1, <1>4, <4>1, <4>2 DEF AreWeights
    <3> QED BY <1>6, <1>7, <3>1, <3>2 DEF IsWeighted
  <2>2. x = [i \in 1 .. m |-> x[i]] /\ y = [i \in 1 .. n |-> y[i]]
    BY <1>2
  <2>3. \A i, j \in Nat : i * j \in Nat
    OBVIOUS
  <2> HIDE DEF x, y, n, a, b
  <2> QED BY <2>1, <2>2, <2>3
<1>9. IsListing(top, J, R, a, g, m)
  BY <1>2 DEF IsListing
<1>10. n = IF Cardinality(R) < TopK THEN Cardinality(R) ELSE TopK
  OBVIOUS
<1>11. Ndcg(q) = IF idcg <= 0 THEN <<0, 1>> ELSE <<dcg, idcg>>
  BY DEF Ndcg, best, top
<1> HIDE DEF x, y, n, J, a, b
<1>12. IsFiniteSet(R) /\ \A c \in R : g[c] \in Nat
  BY <1>4
<1> HIDE DEF R
<1>13. SumFunction(x) <= SumFunction(y)
  BY <1>1, <1>2, <1>5, <1>6, <1>7, <1>8, <1>9, <1>10, <1>12, BestGainsMost
<1>14. dcg <= idcg /\ dcg \in Nat
  <2>1. m \in Nat
    BY <1>1, <1>2
  <2> QED BY <1>8, <1>13, <2>1, SumIsNumber
<1> HIDE DEF dcg, idcg
<1> QED BY <1>11, <1>14

\* Every step keeps what is ranked when it is scored.
LEMMA RankedNext ==
  ASSUME LoopsOK, FusionOK, RankedOK, [Next]_vars
  PROVE  RankedOK'
<1>1. CASE Retrieve \/ Fuse
  BY <1>1, RankedStep DEF FusionOK
<1>2. CASE Accumulate \/ Score \/ Summarize \/ Gate
  <2>1. stage' \in {"fuse", "retrieve", "summarize", "gate", "done"}
    BY <1>2 DEF Accumulate, Score, Summarize, Gate, Queries
  <2> QED BY <2>1 DEF RankedOK
<1>3. CASE Done \/ UNCHANGED vars
  <2>1. UNCHANGED <<stage, ranked>>
    BY <1>3 DEF Done, vars
  <2> QED BY <2>1 DEF RankedOK
<1> QED BY <1>1, <1>2, <1>3 DEF Next

\* The query that is scored is one of the data set.
LEMMA ScoredQuery ==
  ASSUME LoopsOK, stage = "score"
  PROVE  IsFiniteSet(Query.relevant) /\ \A c \in DOMAIN Query.graded : Query.graded[c] \in Int
<1>1. dataset \in Datasets /\ number \in DOMAIN dataset.queries
  BY InputFacts DEF LoopsOK, InQuery, InputsOK
<1>2. IsQuery(Query, Len(dataset.corpus))
  BY <1>1, EvaluationAssumption DEF Query
<1> QED BY <1>2 DEF IsQuery

\* No answer gains more than the best order of the relevant chunks, whatever the
\* discount and the grades, as long as these are not negative and of relevant
\* chunks: runner.py:403-435.
THEOREM NdcgStaysProportion == Spec => []NdcgIsProportion
<1>1. Init => RankedOK
  <2> SUFFICES ASSUME Init PROVE RankedOK
    OBVIOUS
  <2>1. stage \in {"gate", "summarize", "retrieve"}
    BY DEF Init, Queries
  <2> QED BY <2>1 DEF RankedOK
<1>2. LoopsOK /\ RankedOK => NdcgIsProportion
  <2> SUFFICES ASSUME LoopsOK, RankedOK, stage = "score", DOMAIN Query.graded \subseteq Query.relevant,
                      \A c \in DOMAIN Query.graded : Query.graded[c] >= 0
               PROVE  LET n == Ndcg(Query) IN 0 <= n[1] /\ n[1] <= n[2]
    BY DEF NdcgIsProportion
  <2>1. IsRanking(ranked)
    BY DEF RankedOK
  <2> QED BY <2>1, ScoredQuery, RankingsGainAtMost
<1>3. LoopsOK /\ FusionOK /\ [Next]_vars => FusionOK'
  BY FusionNext
<1>4. LoopsOK /\ FusionOK /\ RankedOK /\ [Next]_vars => RankedOK'
  BY RankedNext
<1> QED BY <1>1, <1>2, <1>3, <1>4, InitiallyOK, NextOK, FusionInitially, PTL DEF Spec

-------------------------------------------------------------------------------
(* Sums by category *)

\* The elements of Q are counted by the value of k.
AreCounts(count, k, Q, C) ==
  /\ \A i \in Q : k[i] \in C
  /\ \A c \in C : count[c] = Cardinality({ i \in Q : k[i] = c })

\* A set that is counted by the value of k is counted whole.
LEMMA CountsAddUp ==
  ASSUME NEW Q, IsFiniteSet(Q), NEW C, IsFiniteSet(C), NEW k, NEW count,
         count = [c \in C |-> count[c]], AreCounts(count, k, Q, C)
  PROVE  SumFunction(count) = Cardinality(Q)
<1> DEFINE In(D) == { i \in Q : k[i] \in D }
           At(c) == { i \in Q : k[i] = c }
<1>1. \A D : IsFiniteSet(In(D)) /\ Cardinality(In(D)) \in Nat
  <2>1. \A D : In(D) \in SUBSET Q
    OBVIOUS
  <2> HIDE DEF In
  <2> QED BY <2>1, FS_Subset, FS_CardinalityType
<1>2. \A c : IsFiniteSet(At(c)) /\ Cardinality(At(c)) \in Nat
  <2>1. \A c : At(c) \in SUBSET Q
    OBVIOUS
  <2> HIDE DEF At
  <2> QED BY <2>1, FS_Subset, FS_CardinalityType
<1>3. \A c \in C : count[c] = Cardinality(At(c)) /\ count[c] \in Nat
  BY <1>2 DEF AreCounts
<1>4. PICK h : NumberSums(h, count, C)
  BY <1>3, NumberLaws
<1> DEFINE Bad == { D \in SUBSET C : h[D] # Cardinality(In(D)) }
<1>5. Bad = {}
  <2> SUFFICES ASSUME Bad # {} PROVE FALSE
    OBVIOUS
  <2>1. Bad \in SUBSET (SUBSET C)
    OBVIOUS
  <2> HIDE DEF Bad
  <2>2. PICK D \in Bad : \A c \in D : D \ {c} \notin Bad
    BY <2>1, LeastSubset
  <2>3. D \in SUBSET C /\ h[D] # Cardinality(In(D))
    BY <2>2 DEF Bad
  <2>4. D # {}
    <3>1. In({}) = {}
      OBVIOUS
    <3>2. h[{}] = 0
      BY <1>4, Zenon DEF NumberSums
    <3> HIDE DEF In
    <3> QED BY <2>3, <3>1, <3>2, FS_EmptySet
  <2>5. PICK c \in D : TRUE
    BY <2>4
  <2>6. h[D] = count[c] + h[D \ {c}]
    BY <1>4, <2>3, <2>5, Zenon DEF NumberSums
  <2>7. h[D \ {c}] = Cardinality(In(D \ {c})) /\ count[c] = Cardinality(At(c))
    BY <1>3, <2>2, <2>3, <2>5 DEF Bad
  <2>8. In(D) = At(c) \union In(D \ {c}) /\ At(c) \intersect In(D \ {c}) = {}
    BY <2>5
  <2> HIDE DEF In, At
  <2>9. Cardinality(In(D)) = Cardinality(At(c)) + Cardinality(In(D \ {c})) - Cardinality({})
    BY <1>1, <1>2, <2>8, FS_Union
  <2>10. Cardinality({}) = 0
    BY FS_EmptySet
  <2> QED BY <1>1, <1>2, <2>3, <2>6, <2>7, <2>9, <2>10
<1>6. h[C] = Cardinality(In(C)) /\ In(C) = Q
  BY <1>5 DEF AreCounts
<1>7. SumFunction([c \in C |-> count[c]]) = h[C]
  BY <1>4, Zenon DEF NumberSums
<1> HIDE DEF In
<1> QED BY <1>6, <1>7, Zenon

\* Two fractions are of the same value.
Same(p, q) == p[1] * q[2] = q[1] * p[2]

\* The sum of two fractions has the value of the sum of two of the same values.
LEMMA SamePlus ==
  ASSUME NEW p \in Fraction, NEW q \in Fraction, NEW r \in Fraction, NEW s \in Fraction,
         Same(p, q), Same(r, s)
  PROVE  Same(Plus(p, r), Plus(q, s))
<1>1. PICK a \in Nat, b \in Nat : p = <<a, b>>
  BY DEF Fraction
<1>2. PICK c \in Nat, d \in Nat : q = <<c, d>>
  BY DEF Fraction
<1>3. PICK e \in Nat, f \in Nat : r = <<e, f>>
  BY DEF Fraction
<1>4. PICK g \in Nat, h \in Nat : s = <<g, h>>
  BY DEF Fraction
<1>5. a * d = c * b /\ e * h = g * f
  BY <1>1, <1>2, <1>3, <1>4 DEF Same
<1>6. Plus(p, r) = <<a * f + e * b, b * f>> /\ Plus(q, s) = <<c * h + g * d, d * h>>
  BY <1>1, <1>2, <1>3, <1>4 DEF Plus
<1>7. /\ (a * f + e * b) * (d * h) = (a * d) * (f * h) + (e * h) * (b * d)
      /\ (c * h + g * d) * (b * f) = (c * b) * (f * h) + (g * f) * (b * d)
  OBVIOUS
<1> QED BY <1>5, <1>6, <1>7 DEF Same

\* Each w[c] has the value of the sum over the elements of Q that have c.
AreParts(w, V, k, Q, C) ==
  /\ \A i \in Q : k[i] \in C
  /\ \A c \in C : w[c] \in Fraction /\ Same(w[c], V[{ i \in Q : k[i] = c }])

\* Fractions that are added by the value of k add up to the same value.
LEMMA PartsAddUp ==
  ASSUME NEW Q, IsFiniteSet(Q), NEW C, IsFiniteSet(C), NEW k,
         NEW v, NEW V, FractionSums(V, v, Q),
         NEW w, w = [c \in C |-> w[c]], AreParts(w, V, k, Q, C)
  PROVE  Sum(w) \in Fraction /\ Same(Sum(w), V[Q])
<1> DEFINE In(D) == { i \in Q : k[i] \in D }
           At(c) == { i \in Q : k[i] = c }
<1>1. PICK W : FractionSums(W, w, C)
  <2>1. \A c \in C : w[c] \in Fraction
    BY DEF AreParts
  <2> QED BY <2>1, SumLaws
<1>2. /\ V \in [SUBSET Q -> Fraction] /\ V[{}] = <<0, 1>>
      /\ \A T, U \in SUBSET Q : T \intersect U = {} => V[T \union U] = Plus(V[T], V[U])
  <2>1. V \in [SUBSET Q -> Fraction] /\ V[{}] = <<0, 1>>
    BY Zenon DEF FractionSums
  <2>2. \A T, U \in SUBSET Q : T \intersect U = {} => V[T \union U] = Plus(V[T], V[U])
    BY Zenon DEF FractionSums
  <2> QED BY <2>1, <2>2
<1>3. /\ W \in [SUBSET C -> Fraction] /\ W[{}] = <<0, 1>>
      /\ \A T \in SUBSET C : \A c \in T : W[T] = Plus(w[c], W[T \ {c}])
  <2>1. W \in [SUBSET C -> Fraction] /\ W[{}] = <<0, 1>>
    BY <1>1, Zenon DEF FractionSums
  <2>2. \A T \in SUBSET C : \A c \in T : W[T] = Plus(w[c], W[T \ {c}])
    BY <1>1, Zenon DEF FractionSums
  <2> QED BY <2>1, <2>2
<1>4. \A c \in C : w[c] \in Fraction /\ Same(w[c], V[At(c)])
  BY DEF AreParts
<1> DEFINE Bad == { D \in SUBSET C : ~ Same(W[D], V[In(D)]) }
<1>5. Bad = {}
  <2> SUFFICES ASSUME Bad # {} PROVE FALSE
    OBVIOUS
  <2>1. Bad \in SUBSET (SUBSET C)
    OBVIOUS
  <2> HIDE DEF Bad
  <2>2. PICK D \in Bad : \A c \in D : D \ {c} \notin Bad
    BY <2>1, LeastSubset
  <2>3. D \in SUBSET C /\ ~ Same(W[D], V[In(D)])
    BY <2>2 DEF Bad
  <2>4. D # {}
    <3>1. In({}) = {}
      OBVIOUS
    <3> HIDE DEF In
    <3> QED BY <1>2, <1>3, <2>3, <3>1 DEF Same
  <2>5. PICK c \in D : TRUE
    BY <2>4
  <2>6. W[D] = Plus(w[c], W[D \ {c}])
    BY <1>3, <2>3, <2>5
  <2>7. Same(W[D \ {c}], V[In(D \ {c})])
    BY <2>2, <2>3, <2>5 DEF Bad
  <2>8. /\ In(D) = At(c) \union In(D \ {c}) /\ At(c) \intersect In(D \ {c}) = {}
        /\ At(c) \in SUBSET Q /\ In(D \ {c}) \in SUBSET Q
    BY <2>5
  <2> HIDE DEF In, At
  <2>9. V[In(D)] = Plus(V[At(c)], V[In(D \ {c})])
    BY <1>2, <2>8
  <2>10. /\ V[At(c)] \in Fraction /\ V[In(D \ {c})] \in Fraction
         /\ w[c] \in Fraction /\ W[D \ {c}] \in Fraction /\ Same(w[c], V[At(c)])
    BY <1>2, <1>3, <1>4, <2>3, <2>5, <2>8
  <2>11. Same(Plus(w[c], W[D \ {c}]), Plus(V[At(c)], V[In(D \ {c})]))
    BY <2>7, <2>10, SamePlus
  <2> QED BY <2>3, <2>6, <2>9, <2>11
<1>6. Same(W[C], V[Q]) /\ W[C] \in Fraction
  <2>1. Same(W[C], V[In(C)]) /\ In(C) = Q
    BY <1>5 DEF AreParts
  <2> QED BY <1>3, <2>1
<1>7. Sum([c \in C |-> w[c]]) = W[C]
  BY <1>1, Zenon DEF FractionSums
<1> HIDE DEF In, At, Bad
<1> QED BY <1>6, <1>7, Zenon

\* What is averaged of the entries at some places is a fraction.
AreScored(P) ==
  \A i \in P : /\ scored[i].answerable \in BOOLEAN
              /\ scored[i].answerable =>
                   scored[i].metrics.recall \in Fraction /\ scored[i].metrics.mrr \in Fraction

\* The mean of f over some places, of which V are the sums; with their number as
\* its weight it is of the value of their sum.
IsMeanOf(T, f, V) ==
  /\ Mean(T, f) = IF T = {} THEN <<0, 1>> ELSE <<V[T][1], V[T][2] * Cardinality(T)>>
  /\ Cardinality(T) \in Nat /\ V[T] \in Fraction
  /\ <<Mean(T, f)[1] * Cardinality(T), Mean(T, f)[2]>> \in Fraction
  /\ Same(<<Mean(T, f)[1] * Cardinality(T), Mean(T, f)[2]>>, V[T])
  /\ T = {} => V[T] = <<0, 1>>
AreMetrics(v, A, f) == \A i \in A : v[i] = scored[i].metrics[f]

\* The mean of any of the places is so.
LEMMA WeightedMean ==
  ASSUME NEW A, IsFiniteSet(A), NEW f, NEW v, NEW V, FractionSums(V, v, A),
         AreMetrics(v, A, f)
  PROVE  \A T \in SUBSET A : IsMeanOf(T, f, V)
<1> SUFFICES ASSUME NEW T \in SUBSET A PROVE IsMeanOf(T, f, V)
  OBVIOUS
<1>1. Cardinality(T) \in Nat /\ (Cardinality(T) = 0 <=> T = {})
  BY FS_Subset, FS_CardinalityType, FS_EmptySet
<1>2. Sum([i \in T |-> v[i]]) = V[T] /\ V \in [SUBSET A -> Fraction] /\ V[{}] = <<0, 1>>
  BY Zenon DEF FractionSums
<1>3. [i \in T |-> scored[i].metrics[f]] = [i \in T |-> v[i]]
  BY DEF AreMetrics
<1>4. Mean(T, f) = IF T = {} THEN <<0, 1>> ELSE <<V[T][1], V[T][2] * Cardinality(T)>>
  <2>1. Sum([i \in T |-> scored[i].metrics[f]]) = V[T]
    BY <1>2, <1>3, Zenon
  <2> DEFINE sum == Sum([i \in T |-> scored[i].metrics[f]])
  <2>2. Mean(T, f) = IF T = {} THEN <<0, 1>> ELSE <<sum[1], sum[2] * Cardinality(T)>>
    BY DEF Mean
  <2>3. sum = V[T]
    BY <2>1, Zenon
  <2> HIDE DEF sum
  <2> QED BY <2>2, <2>3
<1>5. V[T] \in Fraction
  BY <1>2
<1>6. PICK a \in Nat, b \in Nat \ {0} : V[T] = <<a, b>>
  BY <1>5 DEF Fraction
<1> DEFINE n == Cardinality(T)
<1>7. CASE T = {}
  <2>1. Mean(T, f) = <<0, 1>> /\ V[T] = <<0, 1>> /\ Cardinality(T) = 0
    BY <1>1, <1>2, <1>4, <1>7
  <2>2. <<Mean(T, f)[1] * Cardinality(T), Mean(T, f)[2]>> = <<0, 1>>
    BY <2>1
  <2>3. <<0, 1>> \in Fraction /\ Same(<<0, 1>>, <<0, 1>>)
    BY DEF Fraction, Same
  <2> QED BY <1>7, <2>1, <2>2, <2>3 DEF IsMeanOf
<1>8. CASE T # {}
  <2>1. n \in Nat \ {0} /\ Mean(T, f) = <<a, b * n>>
    BY <1>1, <1>4, <1>6, <1>8
  <2> HIDE DEF n
  <2>2. a * n \in Nat /\ b * n \in Nat \ {0} /\ (a * n) * b = a * (b * n)
    <3>1. \A x, y \in Nat : x * y \in Nat
      OBVIOUS
    <3>2. \A x, y \in Nat \ {0} : x * y # 0
      OBVIOUS
    <3>3. (a * n) * b = a * (b * n)
      BY <2>1
    <3> QED BY <2>1, <3>1, <3>2, <3>3
  <2>3. <<Mean(T, f)[1] * n, Mean(T, f)[2]>> = <<a * n, b * n>>
    BY <2>1
  <2>4. <<a * n, b * n>> \in Fraction /\ Same(<<a * n, b * n>>, V[T])
    BY <1>6, <2>2 DEF Fraction, Same
  <2> QED BY <1>1, <1>4, <1>5, <1>8, <2>3, <2>4 DEF n, IsMeanOf
<1> QED BY <1>7, <1>8

\* The means of each category of some places.
CategoryMeans(P) ==
  [c \in { scored[i].category : i \in P } |-> Means({ i \in P : scored[i].category = c })]

\* What CategoriesAddUp says of one report, of n queries.
AddsUp(all, cats, n) ==
  /\ all.count = n
  /\ SumFunction([c \in DOMAIN cats |-> cats[c]["count"]]) = all.count
  /\ SumFunction([c \in DOMAIN cats |-> cats[c]["answerable"]]) = all.answerable
  /\ \A f \in {"mrr", "recall"} :
       LET weighted == Sum([c \in DOMAIN cats |->
                             <<cats[c][f][1] * cats[c].answerable, cats[c][f][2]>>])
       IN  weighted[1] * all[f][2] = all[f][1] * all.answerable * weighted[2]

\* The means of some entries, and of each category of them, add up.
LEMMA CategoriesOf ==
  ASSUME NEW P, IsFiniteSet(P), AreScored(P), NEW all, all = Means(P), NEW cats,
         cats = CategoryMeans(P)
  PROVE  AddsUp(all, cats, Cardinality(P))
<1> DEFINE C == { scored[i].category : i \in P }
           k == [i \in P |-> scored[i].category]
           A == { i \in P : scored[i].answerable }
           Pc(c) == { i \in P : scored[i].category = c }
           Ac(c) == { i \in A : scored[i].category = c }
<1>1. IsFiniteSet(C)
  <2>1. k \in Surjection(P, C)
    BY DEF Surjection
  <2> HIDE DEF k, C
  <2> QED BY <2>1, FS_Surjection
<1>2. IsFiniteSet(A) /\ A \in SUBSET P
  <2>1. A \in SUBSET P
    OBVIOUS
  <2> HIDE DEF A
  <2> QED BY <2>1, FS_Subset
<1>3. /\ all.count = Cardinality(P) /\ all.answerable = Cardinality(A)
      /\ \A f \in {"mrr", "recall"} : all[f] = Mean(A, f)
  BY DEF Means
<1>4. /\ DOMAIN cats = C
      /\ \A c \in C : /\ cats[c].count = Cardinality(Pc(c))
                      /\ cats[c].answerable = Cardinality(Ac(c))
                      /\ \A f \in {"mrr", "recall"} : cats[c][f] = Mean(Ac(c), f)
  <2>1. DOMAIN cats = C /\ \A c \in C : cats[c] = Means(Pc(c))
    BY DEF CategoryMeans
  <2>2. \A c : Ac(c) = { i \in Pc(c) : scored[i].answerable }
    OBVIOUS
  <2> HIDE DEF Ac, Pc, C
  <2>3. ASSUME NEW c \in C
        PROVE  /\ cats[c].count = Cardinality(Pc(c))
               /\ cats[c].answerable = Cardinality(Ac(c))
               /\ \A f \in {"mrr", "recall"} : cats[c][f] = Mean(Ac(c), f)
    <3>1. PICK p : p = Pc(c)
      OBVIOUS
    <3>2. PICK a : a = Ac(c)
      OBVIOUS
    <3>3. a = { i \in p : scored[i].answerable }
      BY <2>2, <3>1, <3>2
    <3>4. /\ Means(p).count = Cardinality(p) /\ Means(p).answerable = Cardinality(a)
          /\ \A f \in {"mrr", "recall"} : Means(p)[f] = Mean(a, f)
      BY <3>3 DEF Means
    <3>5. cats[c] = Means(p)
      BY <2>1, <3>1
    <3> QED BY <3>1, <3>2, <3>4, <3>5
  <2> QED BY <2>1, <2>3
<1>5. /\ \A i \in P : k[i] \in C /\ k[i] = scored[i].category
      /\ \A i \in A : k[i] \in C
      /\ \A c : Pc(c) = { i \in P : k[i] = c } /\ Ac(c) = { i \in A : k[i] = c } /\ Ac(c) \in SUBSET A
  OBVIOUS
<1> DEFINE counts == [c \in C |-> cats[c]["count"]]
           answers == [c \in C |-> cats[c]["answerable"]]
<1>6. AreCounts(counts, k, P, C) /\ AreCounts(answers, k, A, C)
  <2> HIDE DEF C, k, Pc, Ac, A
  <2> QED BY <1>4, <1>5 DEF AreCounts
<1>7. counts = [c \in C |-> counts[c]] /\ answers = [c \in C |-> answers[c]]
  OBVIOUS
<1>8. counts = [c \in DOMAIN cats |-> cats[c]["count"]] /\ answers = [c \in DOMAIN cats |-> cats[c]["answerable"]]
  BY <1>4
<1> HIDE DEF C, k, A, Pc, Ac, counts, answers
<1>9. SumFunction(counts) = Cardinality(P)
  BY <1>1, <1>6, <1>7, CountsAddUp
<1>10. SumFunction(answers) = Cardinality(A)
  BY <1>1, <1>2, <1>6, <1>7, CountsAddUp
<1>11. SumFunction(counts) = Cardinality(P) /\ SumFunction(answers) = Cardinality(A)
  BY <1>9, <1>10
<1>12. ASSUME NEW f \in {"mrr", "recall"}
       PROVE  LET weighted == Sum([c \in DOMAIN cats |->
                                    <<cats[c][f][1] * cats[c].answerable, cats[c][f][2]>>])
              IN  weighted[1] * all[f][2] = all[f][1] * all.answerable * weighted[2]
  <2> DEFINE v == [i \in A |-> scored[i].metrics[f]]
             w == [c \in C |-> <<cats[c][f][1] * cats[c].answerable, cats[c][f][2]>>]
             sum == Sum(w)
  <2>1. \A i \in A : v[i] = scored[i].metrics[f] /\ v[i] \in Fraction
    BY <1>12 DEF A, AreScored
  <2>2. w = [c \in C |-> w[c]] /\ w = [c \in DOMAIN cats |-> <<cats[c][f][1] * cats[c].answerable, cats[c][f][2]>>]
    BY <1>4
  <2>3. \A c \in C : w[c] = <<Mean(Ac(c), f)[1] * Cardinality(Ac(c)), Mean(Ac(c), f)[2]>>
    BY <1>4, <1>12
  <2> HIDE DEF v, w
  <2>4. PICK V : FractionSums(V, v, A)
    BY <1>2, <2>1, SumLaws
  <2>5. \A T \in SUBSET A : IsMeanOf(T, f, V)
    <3>1. IsFiniteSet(A) /\ AreMetrics(v, A, f)
      BY <1>2, <2>1 DEF AreMetrics
    <3> QED BY <2>4, <3>1, WeightedMean
  <2>6. AreParts(w, V, k, A, C)
    <3>1. \A c \in C : Ac(c) \in SUBSET A /\ Ac(c) = { i \in A : k[i] = c }
      BY <1>5
    <3>2. \A c \in C : w[c] \in Fraction /\ Same(w[c], V[Ac(c)])
      BY <2>3, <2>5, <3>1 DEF IsMeanOf
    <3> QED BY <1>5, <3>1, <3>2 DEF AreParts
  <2>7. Sum(w) \in Fraction /\ Same(Sum(w), V[A])
    <3>1. w = [c \in C |-> w[c]]
      BY <2>2
    <3> QED BY <1>1, <1>2, <2>4, <2>6, <3>1, PartsAddUp
  <2>8. sum \in Fraction /\ Same(sum, V[A])
    BY <2>7
  <2> HIDE DEF sum
  <2>9. PICK a \in Nat, b \in Nat \ {0} : V[A] = <<a, b>>
    <3>1. IsMeanOf(A, f, V)
      BY <2>5
    <3> QED BY <3>1 DEF IsMeanOf, Fraction
  <2>10. PICK s \in Nat, t \in Nat \ {0} : sum = <<s, t>>
    BY <2>8 DEF Fraction
  <2>11. s * b = a * t
    BY <2>8, <2>9, <2>10 DEF Same
  <2>12. all[f] = Mean(A, f) /\ all.answerable = Cardinality(A) /\ Cardinality(A) \in Nat
         /\ (A = {} => V[A] = <<0, 1>>)
         /\ Mean(A, f) = IF A = {} THEN <<0, 1>> ELSE <<V[A][1], V[A][2] * Cardinality(A)>>
    <3>1. IsMeanOf(A, f, V)
      BY <2>5
    <3>2. all[f] = Mean(A, f) /\ all.answerable = Cardinality(A)
      BY <1>3
    <3>3. /\ Cardinality(A) \in Nat /\ (A = {} => V[A] = <<0, 1>>)
          /\ Mean(A, f) = IF A = {} THEN <<0, 1>> ELSE <<V[A][1], V[A][2] * Cardinality(A)>>
      BY <3>1 DEF IsMeanOf
    <3> QED BY <3>2, <3>3
  <2>13. sum[1] * all[f][2] = all[f][1] * all.answerable * sum[2]
    <3>1. CASE A = {}
      <4>1. a = 0 /\ b = 1 /\ all[f] = <<0, 1>> /\ all.answerable = 0
        BY <2>9, <2>12, <3>1, FS_EmptySet
      <4>2. s * 1 = 0 * t
        BY <2>11, <4>1
      <4>3. s = 0
        BY <4>2
      <4> QED BY <2>10, <4>1, <4>3
    <3>2. CASE A # {}
      <4> DEFINE n == Cardinality(A)
      <4>1. all[f] = <<a, b * n>> /\ all.answerable = n /\ n \in Nat
        BY <2>9, <2>12, <3>2
      <4> HIDE DEF n
      <4>2. s * (b * n) = (s * b) * n /\ (a * n) * t = (a * t) * n
        BY <4>1
      <4>3. sum[1] = s /\ sum[2] = t /\ all[f][1] = a /\ all[f][2] = b * n
        BY <2>10, <4>1
      <4> QED BY <2>11, <4>1, <4>2, <4>3
    <3> QED BY <3>1, <3>2
  <2>14. sum = Sum([c \in DOMAIN cats |-> <<cats[c][f][1] * cats[c].answerable, cats[c][f][2]>>])
    BY <2>2, Zenon DEF sum
  <2> QED BY <2>13, <2>14, Zenon
<1>13. all.count = Cardinality(P)
  BY <1>3
<1>14. SumFunction([c \in DOMAIN cats |-> cats[c]["count"]]) = all.count
  BY <1>3, <1>8, <1>11, Zenon
<1>15. SumFunction([c \in DOMAIN cats |-> cats[c]["answerable"]]) = all.answerable
  BY <1>3, <1>8, <1>11, Zenon
<1> QED BY <1>12, <1>13, <1>14, <1>15, Zenon DEF AddsUp

-------------------------------------------------------------------------------
(* The categories of the reports *)

CategoriesOK == ScoredOK /\ Counted /\ Categorized

\* Nothing is scored at first.
LEMMA CategoriesInitially == Init => CategoriesOK
<1> SUFFICES ASSUME Init PROVE CategoriesOK
  OBVIOUS
<1>1. /\ DOMAIN scored = {} /\ turn = 1 /\ number = 1 /\ stage \in {"gate", "summarize", "retrieve"}
      /\ (stage = "gate" => modes = <<>>) /\ (stage = "summarize" => dataset.queries = <<>>)
  BY DEF Init, Queries
<1>2. Turns = 0
  BY <1>1 DEF Turns
<1>3. Cardinality(Of(turn)) = 0
  <2>1. Of(turn) = {}
    BY <1>1 DEF Of
  <2> QED BY <2>1, FS_EmptySet
<1>4. stage = "summarize" => Len(dataset.queries) = 0
  BY <1>1
<1> QED BY <1>1, <1>2, <1>3, <1>4 DEF CategoriesOK, ScoredOK, Counted, Categorized, InQuery

\* A step that neither scores nor reports.
LEMMA QuietStep ==
  ASSUME CategoriesOK, UNCHANGED <<dataset, modes, turn, number, scored, report>>, Turns' = Turns,
         stage' \in InQuery => stage \in InQuery, stage' = "summarize" => stage = "summarize"
  PROVE  CategoriesOK'
<1>1. ScoredOK'
  BY DEF CategoriesOK, ScoredOK
<1>2. \A t : Of(t)' = Of(t)
  BY DEF Of
<1>3. Counted'
  BY <1>2 DEF CategoriesOK, Counted, InQuery
<1>4. \A t : ByCategory(t)' = ByCategory(t)
  BY DEF ByCategory, OfCategory, Of, Means, Mean
<1>5. Categorized'
  BY <1>4 DEF CategoriesOK, Categorized
<1> QED BY <1>1, <1>3, <1>5 DEF CategoriesOK

\* Recall and the reciprocal rank are fractions: a query that is answerable has
\* relevant chunks, and a hit a rank.
LEMMA EntryFacts ==
  ASSUME LoopsOK, RankedOK, stage = "score"
  PROVE  /\ Entry.turn = turn /\ Entry.answerable \in BOOLEAN
         /\ Entry.answerable => Entry.metrics.recall \in Fraction /\ Entry.metrics.mrr \in Fraction
<1> DEFINE R == Query.relevant
<1>1. IsFiniteSet(R) /\ IsRanking(ranked) /\ TopK \in Nat
  BY ScoredQuery, EvaluationAssumption DEF RankedOK
<1>2. ranked \in Seq(Nat) /\ Len(ranked) \in Nat /\ DOMAIN ranked = 1 .. Len(ranked)
  BY <1>1 DEF IsRanking
<1>3. Found(TopK, R) \in Nat
  <2>1. AtMost(TopK, ranked) \in Seq(Nat)
    BY <1>1, <1>2, AtMostFacts
  <2>2. Len(AtMost(TopK, ranked)) \in Nat /\ DOMAIN AtMost(TopK, ranked) = 1 .. Len(AtMost(TopK, ranked))
    BY <2>1
  <2>3. IsFiniteSet(DOMAIN AtMost(TopK, ranked))
    BY <2>2, FS_Interval
  <2> DEFINE hits == { i \in DOMAIN AtMost(TopK, ranked) : ranked[i] \in R }
  <2>4. hits \in SUBSET (DOMAIN AtMost(TopK, ranked))
    OBVIOUS
  <2> HIDE DEF hits
  <2>5. Cardinality(hits) \in Nat
    BY <2>3, <2>4, FS_Subset, FS_CardinalityType
  <2> QED BY <2>5 DEF Found, hits
<1>4. R # {} => Recall(R) \in Fraction
  <2>1. Cardinality(R) \in Nat /\ (R # {} => Cardinality(R) # 0)
    BY <1>1, FS_CardinalityType, FS_EmptySet
  <2> QED BY <1>3, <2>1 DEF Recall, Fraction
<1>5. ReciprocalRank(R) \in Fraction
  <2> DEFINE hits == { i \in DOMAIN ranked : ranked[i] \in R }
  <2>1. hits \in SUBSET Nat /\ hits \in SUBSET (Nat \ {0})
    BY <1>2
  <2>2. ReciprocalRank(R) = IF hits = {} THEN <<0, 1>> ELSE <<1, Min(hits)>>
    BY DEF ReciprocalRank
  <2> HIDE DEF hits
  <2>3. hits # {} => Min(hits) \in Nat \ {0}
    <3>1. hits # {} => \E x \in hits : \A y \in hits : x <= y
      BY <2>1, LeastNat
    <3>2. hits # {} => Min(hits) \in hits
      BY <3>1 DEF Min
    <3> QED BY <2>1, <3>2
  <2> QED BY <2>2, <2>3 DEF Fraction
<1>6. /\ Entry.turn = turn /\ Entry.answerable = Answerable(Query) /\ (Answerable(Query) <=> R # {})
      /\ Answerable(Query) \in BOOLEAN
      /\ Answerable(Query) => Entry.metrics.recall = Recall(R) /\ Entry.metrics.mrr = ReciprocalRank(R)
  BY DEF Entry, Answerable
<1> QED BY <1>4, <1>5, <1>6

\* A scored query is one more of its turn.
LEMMA ScoredStep ==
  ASSUME LoopsOK, RankedOK, CategoriesOK, Score
  PROVE  CategoriesOK'
<1>1. /\ UNCHANGED <<dataset, modes, turn, report>> /\ stage = "score"
      /\ IF number < Len(dataset.queries) THEN stage' = "retrieve" /\ number' = number + 1
         ELSE stage' = "summarize" /\ number' = number
  BY DEF Score, input
<1>2. /\ Turns' = Turns /\ Turns = turn - 1 /\ turn \in Nat \ {0} /\ number \in Nat \ {0}
      /\ number <= Len(dataset.queries) /\ Len(dataset.queries) \in Nat
  BY <1>1, InputFacts DEF Turns, LoopsOK, InQuery, InputsOK
<1> DEFINE n == Len(scored)
<1>3. /\ n \in Nat /\ DOMAIN scored = 1 .. n /\ DOMAIN scored' = 1 .. n + 1
      /\ \A i \in 1 .. n : scored'[i] = scored[i]
      /\ scored'[n + 1] = Entry
  BY OneMoreScored
<1> HIDE DEF n
<1>4. ScoredOK'
  <2> SUFFICES ASSUME NEW i \in 1 .. n + 1
               PROVE  /\ scored'[i].turn \in 1 .. turn /\ scored'[i].answerable \in BOOLEAN
                      /\ scored'[i].answerable =>
                           scored'[i].metrics.recall \in Fraction /\ scored'[i].metrics.mrr \in Fraction
    BY <1>1, <1>3 DEF ScoredOK
  <2>1. CASE i = n + 1
    BY <1>1, <1>2, <1>3, <2>1, EntryFacts
  <2>2. CASE i # n + 1
    <3>1. i \in 1 .. n
      BY <1>3, <2>2
    <3> QED BY <1>3, <3>1 DEF CategoriesOK, ScoredOK
  <2> QED BY <2>1, <2>2
<1>5. \A t \in 1 .. Turns : Of(t)' = Of(t)
  <2>1. Entry.turn = turn
    BY DEF Entry
  <2> QED BY <1>2, <1>3, <2>1 DEF Of
<1>6. Counted'
  <2>1. Of(turn)' = Of(turn) \union {n + 1} /\ n + 1 \notin Of(turn)
    <3>1. Entry.turn = turn
      BY DEF Entry
    <3> QED BY <1>1, <1>3, <3>1 DEF Of
  <2>2. IsFiniteSet(Of(turn)) /\ Cardinality(Of(turn)) = number - 1
    <3>1. IsFiniteSet(1 .. n) /\ Of(turn) \in SUBSET (1 .. n)
      BY <1>3, FS_Interval DEF Of
    <3>2. Cardinality(Of(turn)) = number - 1
      BY <1>1 DEF CategoriesOK, Counted, InQuery
    <3> QED BY <3>1, <3>2, FS_Subset
  <2>3. Cardinality(Of(turn)') = number
    <3>1. Cardinality(Of(turn) \union {n + 1}) = Cardinality(Of(turn)) + 1
      BY <2>1, <2>2, FS_AddElement
    <3> QED BY <1>2, <2>1, <2>2, <3>1
  <2>4. Cardinality(Of(turn))' = number
    BY <2>3
  <2>5. \A t \in 1 .. Turns : Cardinality(Of(t))' = Len(dataset.queries)
    BY <1>5 DEF CategoriesOK, Counted
  <2> QED BY <1>1, <1>2, <2>4, <2>5 DEF Counted, InQuery
<1>7. \A t \in 1 .. Turns : ByCategory(t)' = ByCategory(t)
  <2> SUFFICES ASSUME NEW t \in 1 .. Turns PROVE ByCategory(t)' = ByCategory(t)
    OBVIOUS
  <2>1. \A i \in Of(t) : scored'[i] = scored[i]
    BY <1>3 DEF Of
  <2>2. ASSUME NEW c PROVE Means(OfCategory(t, c))' = Means(OfCategory(t, c))
    <3>1. PICK P : P = OfCategory(t, c)
      OBVIOUS
    <3>2. OfCategory(t, c)' = P
      BY <1>5, <2>1, <3>1 DEF OfCategory
    <3>3. \A i \in P : scored'[i] = scored[i]
      BY <2>1, <3>1 DEF OfCategory
    <3>4. Means(P)' = Means(P)
      BY <3>3, MeansStay
    <3>5. Means(OfCategory(t, c))' = Means(P)'
      BY <3>2 DEF Means, Mean
    <3> QED BY <3>1, <3>4, <3>5
  <2>3. { scored[i].category : i \in Of(t) }' = { scored[i].category : i \in Of(t) }
    BY <1>5, <2>1
  <2> QED BY <2>2, <2>3 DEF ByCategory
<1>8. Categorized'
  BY <1>1, <1>2, <1>7 DEF CategoriesOK, Categorized
<1> QED BY <1>4, <1>6, <1>8 DEF CategoriesOK

\* The summary of a turn is by the categories of its entries.
LEMMA SummaryStep ==
  ASSUME LoopsOK, Reported, CategoriesOK, Summarize
  PROVE  CategoriesOK'
<1>1. /\ UNCHANGED <<dataset, modes, scored>> /\ stage = "summarize"
      /\ IF turn < Len(modes) THEN stage' = Queries /\ turn' = turn + 1 /\ number' = 1
         ELSE stage' = "gate" /\ UNCHANGED <<turn, number>>
  BY DEF Summarize, input
<1>2. /\ Len(modes) \in Nat /\ dataset.queries \in Seq(Range(dataset.queries))
      /\ Len(dataset.queries) \in Nat /\ turn \in Nat \ {0} /\ turn <= Len(modes)
  BY <1>1, InputFacts DEF InputsOK, LoopsOK
<1>3. Queries \in {"summarize", "retrieve"} /\ (Queries = "summarize" => Len(dataset.queries) = 0)
  BY DEF Queries
<1>4. Turns = turn - 1 /\ Turns' = turn
  BY <1>1, <1>2, <1>3 DEF Turns
<1>5. ScoredOK'
  <2>1. turn' \in Nat /\ turn <= turn'
    BY <1>1, <1>2
  <2> QED BY <1>1, <1>2, <2>1 DEF CategoriesOK, ScoredOK
<1>6. \A t : Of(t)' = Of(t) /\ ByCategory(t)' = ByCategory(t)
  <2>1. \A t : Of(t)' = Of(t)
    BY <1>1 DEF Of
  <2>2. \A t : ByCategory(t)' = ByCategory(t)
    BY <1>1 DEF ByCategory, OfCategory, Of, Means, Mean
  <2> QED BY <2>1, <2>2
<1>7. Counted'
  <2>1. \A t \in 1 .. turn : Cardinality(Of(t)) = Len(dataset.queries)
    BY <1>1, <1>2, <1>4 DEF CategoriesOK, Counted
  <2>2. Cardinality(Of(turn + 1)) = 0
    <3>1. Of(turn + 1) = {}
      BY <1>2 DEF CategoriesOK, ScoredOK, Of
    <3> QED BY <3>1, FS_EmptySet
  <2>3. \A t : Cardinality(Of(t))' = Cardinality(Of(t))
    BY <1>6
  <2>4. Cardinality(Of(turn))' = IF turn < Len(modes) THEN 0 ELSE Len(dataset.queries)
    <3>1. CASE turn < Len(modes)
      <4>1. Of(turn)' = Of(turn + 1)
        BY <1>1, <3>1 DEF Of
      <4> QED BY <2>2, <3>1, <4>1
    <3>2. CASE ~ (turn < Len(modes))
      <4>1. Of(turn)' = Of(turn)
        BY <1>1, <3>2 DEF Of
      <4> QED BY <1>2, <2>1, <3>2, <4>1
    <3> QED BY <3>1, <3>2
  <2>5. \A t \in 1 .. Turns' : Cardinality(Of(t))' = Len(dataset.queries)
    BY <1>4, <2>1, <2>3
  <2>6. stage' \in InQuery => Cardinality(Of(turn))' = number' - 1
    BY <1>1, <1>3, <2>4 DEF InQuery
  <2>7. stage' = "summarize" => Cardinality(Of(turn))' = Len(dataset.queries)
    BY <1>1, <1>3, <2>4
  <2> QED BY <1>1, <2>5, <2>6, <2>7 DEF Counted
<1>8. /\ report'[modes[turn]].by_category = ByCategory(turn)
      /\ \A m \in DOMAIN report : m # modes[turn] => report'[m] = report[m]
  <2> DEFINE places == { i \in DOMAIN scored : scored[i].turn = turn }
  <2>1. /\ report'[modes[turn]].by_category =
             [c \in { scored[i].category : i \in places } |-> Means({ i \in DOMAIN scored : InCategory(i, c) })]
        /\ \A m \in DOMAIN report : m # modes[turn] => report'[m] = report[m]
    BY DEF Summarize, CurrentMode
  <2>2. places = Of(turn)
    BY DEF Of
  <2>3. \A c : { i \in DOMAIN scored : InCategory(i, c) } = OfCategory(turn, c)
    BY DEF InCategory, OfCategory, Of
  <2> HIDE DEF places
  <2> QED BY <2>1, <2>2, <2>3 DEF ByCategory
<1>9. ASSUME NEW t \in 1 .. turn, \A u \in t + 1 .. turn : modes[u] # modes[t]
      PROVE  report'[modes[t]].by_category = ByCategory(t)
  <2>1. CASE t = turn
    BY <1>8, <2>1
  <2>2. CASE t # turn
    <3>1. t \in 1 .. turn - 1 /\ modes[t] # modes[turn]
      BY <1>2, <1>9, <2>2
    <3>2. t \in 1 .. Turns /\ \A u \in t + 1 .. Turns : modes[u] # modes[t]
      BY <1>2, <1>4, <1>9, <3>1
    <3>3. report[modes[t]].by_category = ByCategory(t)
      BY <3>2 DEF CategoriesOK, Categorized
    <3>4. modes[t] \in DOMAIN report
      BY <3>2 DEF Reported
    <3> QED BY <1>8, <3>1, <3>3, <3>4
  <2> QED BY <2>1, <2>2
<1>10. Categorized'
  BY <1>1, <1>4, <1>6, <1>9 DEF Categorized
<1> QED BY <1>5, <1>7, <1>10 DEF CategoriesOK

\* Every step keeps the entries countable, and the categories those of the turns.
LEMMA CategoriesNext ==
  ASSUME LoopsOK, Reported, RankedOK, CategoriesOK, [Next]_vars
  PROVE  CategoriesOK'
<1>1. CASE Score
  BY <1>1, ScoredStep
<1>2. CASE Summarize
  BY <1>2, SummaryStep
<1>3. CASE Retrieve \/ Accumulate \/ Fuse
  <2>1. /\ UNCHANGED <<dataset, modes, turn, number, scored, report>>
        /\ stage \in InQuery /\ stage' \in InQuery
    BY <1>3 DEF Retrieve, Accumulate, Fuse, input, InQuery
  <2>2. Turns' = Turns /\ stage' # "summarize"
    BY <2>1 DEF Turns, InQuery
  <2> QED BY <2>1, <2>2, QuietStep
<1>4. CASE Gate
  <2>1. UNCHANGED <<dataset, modes, turn, number, scored, report>> /\ stage = "gate" /\ stage' = "done"
    BY <1>4 DEF Gate, input
  <2>2. Turns' = Turns /\ stage' \notin InQuery
    BY <2>1 DEF Turns, InQuery
  <2> QED BY <2>1, <2>2, QuietStep
<1>5. CASE Done \/ UNCHANGED vars
  <2>1. UNCHANGED <<dataset, modes, turn, number, scored, report, stage>>
    BY <1>5 DEF Done, vars, input
  <2>2. Turns' = Turns
    BY <2>1 DEF Turns
  <2> QED BY <2>1, <2>2, QuietStep
<1> QED BY <1>1, <1>2, <1>3, <1>4, <1>5 DEF Next

\* A mode's report is that of its last turn, which the categories partition.
LEMMA ReportsAddUp ==
  ASSUME LoopsOK, Reported, CategoriesOK
  PROVE  CategoriesAddUp
<1> SUFFICES ASSUME NEW m \in DOMAIN report
             PROVE
    LET all  == report[m].overall
        cats == report[m].by_category
        total(f) == SumFunction([c \in DOMAIN cats |-> cats[c][f]])
        weighted(f) ==
          Sum([c \in DOMAIN cats |-> <<cats[c][f][1] * cats[c].answerable, cats[c][f][2]>>])
    IN  /\ all.count = Len(dataset.queries)
        /\ total("count") = all.count /\ total("answerable") = all.answerable
        /\ \A f \in {"mrr", "recall"} :
             weighted(f)[1] * all[f][2] = all[f][1] * all.answerable * weighted(f)[2]
  BY DEF CategoriesAddUp
<1> DEFINE S == { t \in 1 .. Turns : modes[t] = m }
<1>1. Turns \in Nat
  BY InputFacts DEF Turns, LoopsOK, InputsOK
<1>2. S \in SUBSET (1 .. Turns) /\ S # {}
  BY DEF Reported
<1> HIDE DEF S
<1>3. PICK t \in S : \A u \in S : u <= t
  BY <1>1, <1>2, MaxOf
<1>4. t \in 1 .. Turns /\ modes[t] = m
  BY <1>3 DEF S
<1>5. \A u \in t + 1 .. Turns : modes[u] # modes[t]
  <2> SUFFICES ASSUME NEW u \in t + 1 .. Turns, modes[u] = m PROVE FALSE
    BY <1>4
  <2>1. u \in 1 .. Turns /\ ~ (u <= t)
    BY <1>1, <1>4
  <2>2. u \in S
    BY <2>1 DEF S
  <2> QED BY <1>3, <2>1, <2>2
<1> DEFINE P == Of(t)
           all == report[m].overall
           cats == report[m].by_category
<1>6. all = Means(P) /\ cats = ByCategory(t)
  BY <1>4, <1>5 DEF Reported, CategoriesOK, Categorized
<1>7. IsFiniteSet(P) /\ AreScored(P) /\ Cardinality(P) = Len(dataset.queries)
  <2>1. scored \in Seq(Range(scored))
    BY DEF LoopsOK
  <2>2. Len(scored) \in Nat /\ DOMAIN scored = 1 .. Len(scored)
    BY <2>1
  <2>3. IsFiniteSet(DOMAIN scored) /\ P \in SUBSET (DOMAIN scored)
    BY <2>2, FS_Interval DEF Of
  <2>4. Cardinality(P) = Len(dataset.queries)
    BY <1>4 DEF CategoriesOK, Counted
  <2>5. AreScored(P)
    BY <2>3 DEF CategoriesOK, ScoredOK, AreScored
  <2> HIDE DEF P
  <2> QED BY <2>3, <2>4, <2>5, FS_Subset
<1>8. cats = CategoryMeans(P)
  BY <1>6 DEF ByCategory, OfCategory, CategoryMeans
<1> HIDE DEF P, all, cats
<1>9. AddsUp(all, cats, Cardinality(P))
  BY <1>6, <1>7, <1>8, CategoriesOf
<1>10. AddsUp(all, cats, Len(dataset.queries))
  BY <1>7, <1>9
<1> QED BY <1>10, Zenon DEF AddsUp, all, cats

\* Every query of a mode is in one category of its report, whose means, weighted
\* by the answerable queries, make up the mode's: runner.py:251-309.
THEOREM CategoriesDoAddUp == Spec => []CategoriesAddUp
<1>1. Init => RankedOK
  <2> SUFFICES ASSUME Init PROVE RankedOK
    OBVIOUS
  <2>1. stage \in {"gate", "summarize", "retrieve"}
    BY DEF Init, Queries
  <2> QED BY <2>1 DEF RankedOK
<1>2. LoopsOK /\ FusionOK /\ [Next]_vars => FusionOK'
  BY FusionNext
<1>3. LoopsOK /\ FusionOK /\ RankedOK /\ [Next]_vars => RankedOK'
  BY RankedNext
<1>4. LoopsOK /\ Reported /\ RankedOK /\ CategoriesOK /\ [Next]_vars => CategoriesOK'
  BY CategoriesNext
<1>5. LoopsOK /\ Reported /\ CategoriesOK => CategoriesAddUp
  BY ReportsAddUp
<1> QED BY <1>1, <1>2, <1>3, <1>4, <1>5, InitiallyOK, NextOK, FusionInitially, CategoriesInitially, PTL DEF Spec
===============================================================================
