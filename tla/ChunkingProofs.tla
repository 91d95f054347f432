----------------------------- MODULE ChunkingProofs -----------------------------
(***************************************************************************)
(* Proofs about Chunking, for every document and every configuration: the  *)
(* chunks fit, lose no text, are numbered in the order of the text, have   *)
(* the path of their headings and the number of their page, and code       *)
(* fences stay together.                                                   *)
(*                                                                         *)
(* Total is a recursive function; its laws follow from the library's       *)
(* theorem that a set of naturals has a least element.  The inductive      *)
(* invariant comes in parts: Base says where each loop is and what a split *)
(* has covered, and each of the others adds what one property needs.       *)
(***************************************************************************)
EXTENDS Chunking, FiniteSetTheorems, WellFoundedInduction, TLAPS

Piece == Int \X Int

\* The function that Total(ps) defines, on 0 .. n.
IsSum(f, ps, n) ==
  f = [i \in 0 .. n |-> IF i = 0 THEN 0
                        ELSE f[i - 1] + Size(ps[i]) + (IF i > 1 THEN Joint ELSE 0)]

Less == { ss \in Nat \X Nat : ss[1] < ss[2] }

\* The order of the natural numbers, as the library's theorem on least
\* elements wants it.
LEMMA LessIsWellFounded == IsWellFoundedOn(Less, Nat)
BY NatLessThanWellFounded, Zenon DEF OpToRel, Less

\* Every set of naturals that is not empty has a least element: what proofs
\* about sums and positions use in place of induction.
LEMMA LeastNat ==
  ASSUME NEW S \in SUBSET Nat, S # {}
  PROVE  \E x \in S : \A y \in S : x <= y
<1>1. \E x \in S : \A y \in S : <<y, x>> \notin Less
  BY WFMin, LessIsWellFounded, Zenon
<1>2. PICK x \in S : \A y \in S : <<y, x>> \notin Less
  BY <1>1, Zenon
<1>3. ASSUME NEW y \in S PROVE x <= y
  <2>1. <<y, x>> \notin Less
    BY <1>2
  <2> QED BY <2>1 DEF Less
<1> QED BY <1>3

\* A piece has a size.
LEMMA SizeType == ASSUME NEW p \in Piece PROVE Size(p) \in Int
BY DEF Size, Piece

\* The function that Total chooses exists, ...
LEMMA SumsExist ==
  ASSUME NEW ps \in Seq(Piece), NEW n \in 0 .. Len(ps)
  PROVE  \E f : IsSum(f, ps, n)
<1> DEFINE Bad == { m \in 0 .. Len(ps) : ~ \E f : IsSum(f, ps, m) }
<1> SUFFICES ASSUME Bad # {} PROVE FALSE
  OBVIOUS
<1>0. Bad \in SUBSET Nat
  OBVIOUS
<1> HIDE DEF Bad
<1>a. \E m \in Bad : \A y \in Bad : m <= y
  BY <1>0, LeastNat, Zenon
<1>1. PICK m \in Bad : \A y \in Bad : m <= y
  BY <1>a
<1> USE DEF Bad
<1>2. m # 0
  <2>1. IsSum([i \in 0 .. 0 |-> 0], ps, 0)
    BY DEF IsSum
  <2> QED BY <2>1
<1>3. PICK f : IsSum(f, ps, m - 1)
  <2>1. m - 1 \in 0 .. Len(ps) /\ ~ (m <= m - 1)
    BY <1>2
  <2>2. m - 1 \notin Bad
    BY <1>1, <2>1
  <2> QED BY <2>1, <2>2
<1> DEFINE g == [i \in 0 .. m |-> IF i < m THEN f[i]
                 ELSE f[m - 1] + Size(ps[m]) + (IF m > 1 THEN Joint ELSE 0)]
<1>4. IsSum(g, ps, m)
  <2>1. \A i \in 0 .. m : g[i] = IF i = 0 THEN 0
                        ELSE g[i - 1] + Size(ps[i]) + (IF i > 1 THEN Joint ELSE 0)
    <3> SUFFICES ASSUME NEW i \in 0 .. m
                 PROVE g[i] = IF i = 0 THEN 0
                        ELSE g[i - 1] + Size(ps[i]) + (IF i > 1 THEN Joint ELSE 0)
      OBVIOUS
    <3>1. i < m => f[i] = IF i = 0 THEN 0
                        ELSE f[i - 1] + Size(ps[i]) + (IF i > 1 THEN Joint ELSE 0)
      BY <1>3, <1>1 DEF IsSum
    <3> QED BY <3>1, <1>2
  <2> QED BY <2>1 DEF IsSum
<1> QED BY <1>4, <1>1

\* ... obeys its equations, ...
LEMMA SumValues ==
  ASSUME NEW ps \in Seq(Piece), NEW n \in 0 .. Len(ps), NEW f, IsSum(f, ps, n)
  PROVE  /\ f[0] = 0
         /\ \A i \in 1 .. n : f[i] = f[i - 1] + Size(ps[i]) + (IF i > 1 THEN Joint ELSE 0)
         /\ DOMAIN f = 0 .. n
BY DEF IsSum

\* ... is the same on a prefix, ...
LEMMA SumsAgree ==
  ASSUME NEW ps \in Seq(Piece), NEW n \in 0 .. Len(ps), NEW k \in 0 .. Len(ps), n <= k,
         NEW f, IsSum(f, ps, n), NEW g, IsSum(g, ps, k)
  PROVE  \A i \in 0 .. n : f[i] = g[i]
<1> DEFINE Bad == { i \in 0 .. n : f[i] # g[i] }
<1> SUFFICES ASSUME Bad # {} PROVE FALSE
  OBVIOUS
<1>0. Bad \in SUBSET Nat
  OBVIOUS
<1> HIDE DEF Bad
<1>1. PICK m \in Bad : \A y \in Bad : m <= y
  BY <1>0, LeastNat, Zenon
<1> USE DEF Bad
<1>2. m # 0
  BY SumValues
<1>3. m \in 1 .. n /\ m \in 1 .. k /\ m - 1 \in 0 .. n /\ ~ (m <= m - 1)
  BY <1>2
<1>4. f[m - 1] = g[m - 1]
  BY <1>1, <1>3
<1>5. /\ f[m] = f[m - 1] + Size(ps[m]) + (IF m > 1 THEN Joint ELSE 0)
      /\ g[m] = g[m - 1] + Size(ps[m]) + (IF m > 1 THEN Joint ELSE 0)
  BY <1>3, SumValues
<1> QED BY <1>1, <1>4, <1>5

\* ... and is what Total reads.
LEMMA TotalIsSum ==
  ASSUME NEW ps \in Seq(Piece), NEW f, IsSum(f, ps, Len(ps))
  PROVE  Total(ps) = f[Len(ps)]
<1> DEFINE g == CHOOSE h : IsSum(h, ps, Len(ps))
<1>1. IsSum(g, ps, Len(ps))
  OBVIOUS
<1>2. Total(ps) = g[Len(ps)]
  BY DEF Total, IsSum
<1> HIDE DEF g
<1> QED BY <1>1, <1>2, SumsAgree

\* The length of a chunk is a number.
LEMMA TotalType ==
  ASSUME NEW ps \in Seq(Piece)
  PROVE  Total(ps) \in Int
<1>1. PICK f : IsSum(f, ps, Len(ps))
  BY SumsExist
<1> DEFINE Bad == { i \in 0 .. Len(ps) : f[i] \notin Int }
<1>2. Bad = {}
  <2> SUFFICES ASSUME Bad # {} PROVE FALSE
    OBVIOUS
  <2>0. Bad \in SUBSET Nat
    OBVIOUS
  <2> HIDE DEF Bad
  <2>1. PICK m \in Bad : \A y \in Bad : m <= y
    BY <2>0, LeastNat, Zenon
  <2> USE DEF Bad
  <2>2. m # 0
    BY <1>1, SumValues
  <2>3. m \in 1 .. Len(ps) /\ m - 1 \in 0 .. Len(ps) /\ ~ (m <= m - 1)
    BY <2>2
  <2>4. f[m - 1] \in Int
    BY <2>1, <2>3
  <2>5. f[m] = f[m - 1] + Size(ps[m]) + (IF m > 1 THEN Joint ELSE 0)
    BY <1>1, <2>3, SumValues
  <2>6. Size(ps[m]) \in Int
    BY <2>3, SizeType
  <2> QED BY <2>1, <2>4, <2>5, <2>6 DEF Joint
<1>3. Len(ps) \in 0 .. Len(ps)
  OBVIOUS
<1> QED BY <1>1, <1>2, <1>3, TotalIsSum

\* Total, without the recursion: nothing, one piece, and one piece more.
LEMMA TotalOfOne ==
  ASSUME NEW p \in Piece
  PROVE  Total(<<p>>) = Size(p)
<1> DEFINE ps == <<p>>
<1>1. ps \in Seq(Piece) /\ Len(ps) = 1 /\ ps[1] = p
  OBVIOUS
<1> HIDE DEF ps
<1>2. PICK f : IsSum(f, ps, Len(ps))
  BY <1>1, SumsExist
<1>3. f[1] = 0 + Size(p) + 0
  BY <1>1, <1>2, SumValues
<1>4. Total(ps) = f[1]
  BY <1>1, <1>2, TotalIsSum
<1> QED BY <1>3, <1>4, SizeType DEF ps

\* A piece that is joined adds its size and that of the joint.
LEMMA TotalOfMore ==
  ASSUME NEW ps \in Seq(Piece), NEW p \in Piece, ps # <<>>
  PROVE  Total(Append(ps, p)) = Total(ps) + Joint + Size(p)
<1> DEFINE n == Len(ps)
           qs == Append(ps, p)
<1>1. /\ qs \in Seq(Piece) /\ Len(qs) = n + 1 /\ n \in Nat /\ n >= 1
      /\ qs[n + 1] = p /\ \A i \in 1 .. n : qs[i] = ps[i]
  OBVIOUS
<1> HIDE DEF qs
<1>2. PICK f : IsSum(f, qs, Len(qs))
  BY <1>1, SumsExist
<1> DEFINE g == [i \in 0 .. n |-> f[i]]
<1>3. IsSum(g, ps, n)
  <2>1. \A i \in 0 .. n : g[i] = IF i = 0 THEN 0
                        ELSE g[i - 1] + Size(ps[i]) + (IF i > 1 THEN Joint ELSE 0)
    BY <1>1, <1>2, SumValues
  <2> HIDE DEF g
  <2> QED BY <2>1 DEF IsSum, g
<1>4. Total(ps) = f[n]
  BY <1>1, <1>3, TotalIsSum
<1>5. Total(qs) = f[n + 1]
  BY <1>1, <1>2, TotalIsSum
<1>6. f[n + 1] = f[n] + Size(p) + Joint
  <2>1. n + 1 \in 1 .. Len(qs) /\ n + 1 > 1 /\ n + 1 - 1 = n
    BY <1>1
  <2>2. f[n + 1] = f[n + 1 - 1] + Size(qs[n + 1]) + (IF n + 1 > 1 THEN Joint ELSE 0)
    BY <1>1, <1>2, <2>1, SumValues
  <2> QED BY <1>1, <2>1, <2>2
<1> QED BY <1>4, <1>5, <1>6, TotalType, SizeType DEF Joint, qs
-------------------------------------------------------------------------------
(* What holds in every loop: the inductive invariant, part by part *)

\* The loop that is running, or that the split in progress is for.
Phase == IF stage = "split" THEN user ELSE stage

Sectioning == {"section", "group", "refine", "accumulate"}
Splitting  == {"refine", "emit", "fallback"}
InSection  == {"group", "refine", "accumulate"}
Stages     == {"start", "split", "page", "done", "endless"} \union Sectioning \union Splitting

ByHeadings == doc.format = "markdown" /\ Headings # {}
ByPages    == doc.format = "pdf" /\ Len(doc.parts) > 1
HasText(x) == doc.parts[x].number = 0 /\ doc.parts[x].from <= doc.parts[x].to

ChunkRecord == [index : Nat, pieces : Seq(Piece), path : Seq(Nat), page : Nat]

TypeOK ==
  /\ doc \in Documents /\ config \in Configs
  /\ stage \in Stages /\ user \in Splitting \union {"none"}
  /\ turn \in Nat \ {0} /\ section \in Nat /\ stack \in Seq(Nat)
  /\ open \in Nat /\ inside \in BOOLEAN
  /\ blocks \in Seq(Piece) /\ refined \in Seq(Piece) /\ accumulated \in Seq(Piece)
  /\ page \in Nat /\ span \in Piece /\ at \in Int /\ pieces \in Seq(Piece)
  /\ chunks \in Seq(ChunkRecord)

\* Where each loop is, and what the loops that are not running have left.
LoopsOK ==
  /\ stage = "split" => user # "none"
  /\ Phase \in {"start", "section", "page", "emit", "fallback"} =>
       open = 0 /\ ~inside /\ blocks = <<>> /\ refined = <<>> /\ accumulated = <<>>
  /\ Phase \in {"refine", "accumulate"} => open = 0 /\ ~inside
  /\ Phase \in {"start", "fallback"} => chunks = <<>>
  /\ Phase = "start" => turn = 1 /\ stack = <<>> /\ section = 0 /\ page = 1
  /\ Phase \in Sectioning => ByHeadings
  /\ Phase \in {"page", "emit"} => ByPages
  /\ Phase = "fallback" => ~ByHeadings
  /\ Phase = "section" => turn \in Headings
  /\ Phase \in InSection => section \in Headings
  /\ Phase = "group" =>
       turn \in section .. LastOf(section) + 1 /\ refined = <<>> /\ accumulated = <<>>
  /\ Phase = "refine" => turn \in DOMAIN blocks /\ span = blocks[turn] /\ accumulated = <<>>
  /\ Phase = "accumulate" => turn \in 1 .. Len(refined) + 1
  /\ Phase = "emit" =>
       turn - 1 \in DOMAIN doc.parts /\ HasText(turn - 1)
       /\ span = <<doc.parts[turn - 1].from, doc.parts[turn - 1].to>>
  /\ Phase = "fallback" => span = <<1, doc.length>>

-------------------------------------------------------------------------------
Within(ps, a, b) ==
  \A j \in DOMAIN ps : a <= ps[j][1] /\ ps[j][1] <= ps[j][2] /\ ps[j][2] <= b
Short(ps)  == \A j \in DOMAIN ps : Size(ps[j]) <= config.max
Sorted(ps) == \A j, k \in DOMAIN ps : j <= k => ps[j][1] <= ps[k][1]
Covers(ps, a, b) ==
  \A x \in a .. b : x \notin doc.blank =>
    \E j \in DOMAIN ps : ps[j][1] <= x /\ x <= ps[j][2]

\* The pieces of a text cover what the window has passed, and none begins
\* after what is to come.
SplitOK ==
  Phase \in Splitting =>
    /\ Within(pieces, span[1], span[2]) /\ Short(pieces) /\ Sorted(pieces)
    /\ stage = "split" =>
         /\ at >= span[1] /\ (at > span[2] => at = span[1])
         /\ (Size(span) <= config.max \/ config.overlap >= config.max) => at = span[1]
         /\ Covers(pieces, span[1], at - 1)
         /\ \A j \in DOMAIN pieces : \A x \in at .. span[2] :
              x \notin doc.blank => pieces[j][1] <= x
    /\ stage # "split" => Covers(pieces, span[1], span[2])

\* The blocks are runs of paragraphs from the section's first to `last`.
BlocksReach(last) ==
  /\ \A n \in DOMAIN blocks : \E a, b \in section .. last :
       a <= b /\ blocks[n] = <<doc.paragraphs[a].from, doc.paragraphs[b].to>>
  /\ \A m, n \in DOMAIN blocks : m < n => blocks[m][2] < blocks[n][1]
  /\ \A k \in section .. last : \E n \in DOMAIN blocks :
       blocks[n][1] <= doc.paragraphs[k].from /\ doc.paragraphs[k].to <= blocks[n][2]

Unblocked == IF open = 0 THEN turn ELSE open

BlocksOK ==
  /\ Phase = "group" =>
       /\ open # 0 => open \in section .. turn - 1 /\ turn <= LastOf(section)
       /\ turn <= LastOf(section) => (inside <=> open # 0)
       /\ BlocksReach(Unblocked - 1)
  /\ Phase = "refine" => BlocksReach(LastOf(section))

Refined ==
  /\ Within(refined, SectionText(section)[1], SectionText(section)[2])
  /\ Short(refined) /\ Sorted(refined)

RefinedOK ==
  /\ Phase = "refine" =>
       /\ Refined
       /\ \A j \in DOMAIN refined : refined[j][1] <= span[1]
       /\ \A n \in 1 .. turn - 1 : Covers(refined, blocks[n][1], blocks[n][2])
  /\ Phase = "accumulate" =>
       Refined /\ Covers(refined, SectionText(section)[1], SectionText(section)[2])

Fitting(ps) ==
  Total(ps) <= config.max + 1 /\ (Len(ps) = 1 => Total(ps) <= config.max)

AccumulatedOK ==
  Phase = "accumulate" =>
    /\ accumulated = <<>> <=> turn = 1
    /\ accumulated # <<>> =>
         /\ Fitting(accumulated)
         /\ SectionText(section)[1] <= accumulated[1][1]
         /\ accumulated[1][1] <= refined[turn - 1][1]

-------------------------------------------------------------------------------
\* Text that a chunk has, and a piece that a chunk has.
KeptUpTo(b) == (doc.paragraphs[Smallest(Headings)].from .. b) \ doc.blank \subseteq Covered
PartKept(x) == (doc.parts[x].from .. doc.parts[x].to) \ doc.blank \subseteq Covered
Stored(p)   == \E i \in DOMAIN chunks : \E n \in DOMAIN chunks[i].pieces : chunks[i].pieces[n] = p
Pending(p)  == \E n \in DOMAIN accumulated : accumulated[n] = p

KeptOK ==
  /\ Phase = "section" => KeptUpTo(doc.paragraphs[turn].from - 1)
  /\ Phase \in InSection => KeptUpTo(doc.paragraphs[section].from - 1)
  /\ Phase = "accumulate" => \A j \in 1 .. turn - 1 : Pending(refined[j]) \/ Stored(refined[j])
  /\ Phase = "page" => \A x \in DOMAIN doc.parts : x < turn /\ HasText(x) => PartKept(x)
  /\ Phase = "emit" => \A x \in DOMAIN doc.parts : x < turn - 1 /\ HasText(x) => PartKept(x)
  /\ NothingLost

FitOK == \A i \in DOMAIN chunks : Fitting(chunks[i].pieces)

\* No chunk begins after x.
BegunBy(x) == \A i \in DOMAIN chunks : chunks[i].pieces[1][1] <= x

Ordered ==
  \A i \in DOMAIN chunks :
    /\ chunks[i].index = i - 1 /\ chunks[i].pieces # <<>>
    /\ \A j \in DOMAIN chunks : i < j => chunks[i].pieces[1][1] <= chunks[j].pieces[1][1]

OrderOK ==
  /\ Ordered
  /\ Phase = "section" => BegunBy(doc.paragraphs[turn].from)
  /\ Phase \in {"group", "refine"} => BegunBy(doc.paragraphs[section].from)
  /\ Phase = "accumulate" =>
       BegunBy(IF turn = 1 THEN doc.paragraphs[section].from ELSE accumulated[1][1])
  /\ Phase = "page" => \A x \in DOMAIN doc.parts : x >= turn /\ HasText(x) => BegunBy(doc.parts[x].from)
  /\ Phase = "emit" => BegunBy(span[1])

\* A path of headings, and the stack that is one.
IsPath(s, h) ==
  /\ s # <<>> /\ s[Len(s)] = h /\ h \in Headings
  /\ { s[n] : n \in DOMAIN s } = { a \in Headings : Above(a, h) } \union {h}
  /\ \A m, n \in DOMAIN s : m < n => s[m] < s[n] /\ Level(s[m]) < Level(s[n])

StackOK ==
  /\ Phase = "section" =>
       \/ stack = <<>> /\ turn = Smallest(Headings)
       \/ section \in Headings /\ turn = LastOf(section) + 1 /\ IsPath(stack, section)
  /\ Phase \in InSection => IsPath(stack, section)

PathsOK == \A i \in DOMAIN chunks : LET path == chunks[i].path IN
             path # <<>> => IsPath(path, path[Len(path)])

\* Fences: no heading is found in code, and a block of code that fits is in a chunk,
\* a block of its own, or still to come.
Odds(i)  == { x \in 1 .. i : doc.paragraphs[x].odd }
Sound    == \A h \in Headings : Closed(h - 1)
Small(i, j) == Fenced(i, j) /\ Size(Code(i, j)) <= config.max
Together(i, j) ==
  \E p : Stored(p) /\ p[1] <= doc.paragraphs[i].from /\ doc.paragraphs[j].to <= p[2]
Among(ps, p) == \E n \in DOMAIN ps : ps[n] = p

OpenOK ==
  Phase = "group" /\ Sound =>
    /\ turn <= LastOf(section) => (inside <=> ~Closed(turn - 1))
    /\ open # 0 => Closed(open - 1) /\ \A x \in open .. turn - 1 : ~Closed(x)

WholeOK == stage = "refine" /\ Size(span) > 0 /\ Size(span) <= config.max => pieces = <<span>>

FenceOK(i, j) ==
  /\ Phase = "section" /\ i < turn => Together(i, j)
  /\ Phase \in InSection /\ i < section => Together(i, j)
  /\ Phase = "group" /\ section <= i /\ j < turn => Among(blocks, Code(i, j))
  /\ Phase = "refine" /\ i \in section .. LastOf(section) =>
       Among(refined, Code(i, j)) \/ \E n \in DOMAIN blocks : n >= turn /\ blocks[n] = Code(i, j)
  /\ Phase = "accumulate" /\ i \in section .. LastOf(section) => Among(refined, Code(i, j))
  /\ stage = "done" => Together(i, j)

FencesOK ==
  ByHeadings /\ Sound => \A i, j \in DOMAIN doc.paragraphs : Small(i, j) => FenceOK(i, j)

\* The number of the page that part x is on.
MarksBefore(x) == { m \in 1 .. x - 1 : doc.parts[m].number > 0 }
Since(x)  == IF MarksBefore(x) = {} THEN 0 ELSE Largest(MarksBefore(x))
TextsSince(x)  == { m \in Since(x) + 1 .. x - 1 : doc.parts[m].from <= doc.parts[m].to }
PageOf(x) == (IF Since(x) = 0 THEN 1 ELSE doc.parts[Since(x)].number) + Cardinality(TextsSince(x))

\* The same for a part that is not a marker, as the property has it.
PageAt(x) ==
  LET marks == { m \in 1 .. x : doc.parts[m].number > 0 }
      since == IF marks = {} THEN 0 ELSE Largest(marks)
      texts == { m \in since + 1 .. x - 1 : doc.parts[m].from <= doc.parts[m].to }
  IN  (IF since = 0 THEN 1 ELSE doc.parts[since].number) + Cardinality(texts)

\* Each chunk of a document with pages comes from a part, and has its number.
OnItsPage(c) ==
  \E x \in DOMAIN doc.parts :
    /\ HasText(x) /\ c.page = PageOf(x)
    /\ doc.parts[x].from <= c.pieces[1][1] /\ c.pieces[1][1] <= doc.parts[x].to
SomeText == \E x \in DOMAIN doc.parts : HasText(x)

PagesOK ==
  /\ Phase = "fallback" /\ ByPages => ~SomeText
  /\ Phase = "page" => turn \in 1 .. Len(doc.parts) + 1 /\ page = PageOf(turn)
  /\ Phase = "emit" => page = PageOf(turn - 1)
  /\ ByPages /\ SomeText => \A i \in DOMAIN chunks : OnItsPage(chunks[i])

Base == TypeOK /\ LoopsOK /\ BlocksOK /\ SplitOK
-------------------------------------------------------------------------------
(* Smallest and largest elements, and what documents are made of *)

\* What Smallest and Largest choose.
LEMMA SmallestOf ==
  ASSUME NEW S \in SUBSET Nat, S # {}
  PROVE  Smallest(S) \in S /\ \A y \in S : Smallest(S) <= y
<1>1. \E x \in S : \A y \in S : x <= y
  BY LeastNat, Zenon
<1> QED BY <1>1, Zenon DEF Smallest

\* The same from above, for a set with a bound.
LEMMA LargestOf ==
  ASSUME NEW S \in SUBSET Nat, S # {}, NEW b \in Nat, \A y \in S : y <= b
  PROVE  Largest(S) \in S /\ \A y \in S : y <= Largest(S)
<1> DEFINE R == { b - y : y \in S }
<1>1. R \in SUBSET Nat /\ R # {}
  OBVIOUS
<1> HIDE DEF R
<1>2. PICK r \in R : \A z \in R : r <= z
  BY <1>1, LeastNat, Zenon
<1>3. PICK x \in S : r = b - x
  BY DEF R
<1>4. ASSUME NEW y \in S PROVE y <= x
  <2>1. b - y \in R
    BY DEF R
  <2>2. r <= b - y
    BY <1>2, <2>1
  <2> QED BY <1>3, <2>2
<1>5. \E z \in S : \A y \in S : z >= y
  BY <1>4
<1>6. Largest(S) \in S /\ \A y \in S : Largest(S) >= y
  BY <1>5, Zenon DEF Largest
<1> QED BY <1>6

\* Smallest and Largest as min() and max() of two numbers.
LEMMA OfTwo ==
  ASSUME NEW a \in Int, NEW b \in Int
  PROVE  /\ Smallest({a, b}) = IF a <= b THEN a ELSE b
         /\ Largest({a, b}) = IF a >= b THEN a ELSE b
<1>1. \E x \in {a, b} : \A y \in {a, b} : x <= y
  OBVIOUS
<1>2. \E x \in {a, b} : \A y \in {a, b} : x >= y
  OBVIOUS
<1>3. Smallest({a, b}) \in {a, b} /\ \A y \in {a, b} : Smallest({a, b}) <= y
  BY <1>1, Zenon DEF Smallest
<1>4. Largest({a, b}) \in {a, b} /\ \A y \in {a, b} : Largest({a, b}) >= y
  BY <1>2, Zenon DEF Largest
<1> QED BY <1>3, <1>4

\* What a sequence's elements are.
LEMMA SeqFacts ==
  ASSUME NEW S, NEW s \in Seq(S)
  PROVE  /\ Len(s) \in Nat /\ DOMAIN s = 1 .. Len(s)
         /\ \A i \in 1 .. Len(s) : s[i] \in S
OBVIOUS

\* A sequence with one element more.
LEMMA AppendFacts ==
  ASSUME NEW S, NEW s \in Seq(S), NEW e \in S
  PROVE  /\ Append(s, e) \in Seq(S) /\ Len(Append(s, e)) = Len(s) + 1
         /\ Len(s) \in Nat /\ DOMAIN s = 1 .. Len(s) /\ DOMAIN Append(s, e) = 1 .. Len(s) + 1
         /\ Append(s, e)[Len(s) + 1] = e
         /\ \A i \in 1 .. Len(s) : Append(s, e)[i] = s[i]
OBVIOUS

\* Paragraphs begin with a character and follow one another; what lies between
\* two of them is blank.
LEMMA ParagraphFacts ==
  ASSUME IsDocument(doc)
  PROVE  /\ Len(doc.paragraphs) \in Nat /\ doc.length \in Nat
         /\ DOMAIN doc.paragraphs = 1 .. Len(doc.paragraphs)
         /\ \A i \in 1 .. Len(doc.paragraphs) :
              /\ doc.paragraphs[i].from \in Nat /\ doc.paragraphs[i].to \in Nat
              /\ doc.paragraphs[i].level \in Nat /\ doc.paragraphs[i].odd \in BOOLEAN
              /\ 1 <= doc.paragraphs[i].from
              /\ doc.paragraphs[i].from <= doc.paragraphs[i].to
              /\ doc.paragraphs[i].from \notin doc.blank
              /\ i = Len(doc.paragraphs) => doc.paragraphs[i].to = doc.length
              /\ i < Len(doc.paragraphs) =>
                   /\ doc.paragraphs[i].to < doc.paragraphs[i + 1].from
                   /\ doc.paragraphs[i].to + 1 .. doc.paragraphs[i + 1].from - 1 \subseteq doc.blank
<1>1. doc.paragraphs \in Seq([from : Nat, to : Nat, level : Nat, odd : BOOLEAN])
  BY DEF IsDocument
<1>2. /\ Len(doc.paragraphs) \in Nat /\ DOMAIN doc.paragraphs = 1 .. Len(doc.paragraphs)
      /\ \A i \in 1 .. Len(doc.paragraphs) :
           doc.paragraphs[i] \in [from : Nat, to : Nat, level : Nat, odd : BOOLEAN]
  BY <1>1, SeqFacts, Zenon
<1>3. \A i \in 1 .. Len(doc.paragraphs) :
              /\ doc.paragraphs[i].from \in 1 .. doc.paragraphs[i].to
              /\ doc.paragraphs[i].from \notin doc.blank
              /\ i = Len(doc.paragraphs) => doc.paragraphs[i].to = doc.length
              /\ i # Len(doc.paragraphs) =>
                   /\ doc.paragraphs[i].to < doc.paragraphs[i + 1].from
                   /\ doc.paragraphs[i].to + 1 .. doc.paragraphs[i + 1].from - 1 \subseteq doc.blank
  BY <1>2 DEF IsDocument
<1>4. doc.length \in Nat
  BY DEF IsDocument
<1> QED BY <1>2, <1>3, <1>4

\* Paragraphs are in the order of the text.
LEMMA ParagraphsInOrder ==
  ASSUME IsDocument(doc),
         NEW i \in 1 .. Len(doc.paragraphs), NEW j \in 1 .. Len(doc.paragraphs), i < j
  PROVE  doc.paragraphs[i].to < doc.paragraphs[j].from
<1> DEFINE Bad == { k \in i + 1 .. Len(doc.paragraphs) :
                      ~ (doc.paragraphs[i].to < doc.paragraphs[k].from) }
<1> SUFFICES ASSUME Bad # {} PROVE FALSE
  BY ParagraphFacts
<1>1. Bad \in SUBSET Nat
  BY ParagraphFacts
<1> HIDE DEF Bad
<1>2. PICK m \in Bad : \A y \in Bad : m <= y
  BY <1>1, LeastNat, Zenon
<1> USE DEF Bad
<1>3. m # i + 1
  BY <1>2, ParagraphFacts
<1>4. m - 1 \in i + 1 .. Len(doc.paragraphs) /\ ~ (m <= m - 1)
  BY <1>2, <1>3, ParagraphFacts
<1>5. doc.paragraphs[i].to < doc.paragraphs[m - 1].from
  BY <1>2, <1>4
<1>6. /\ doc.paragraphs[m - 1].from <= doc.paragraphs[m - 1].to
      /\ doc.paragraphs[m - 1].to < doc.paragraphs[m].from
      /\ doc.paragraphs[m - 1].from \in Nat /\ doc.paragraphs[m - 1].to \in Nat
      /\ doc.paragraphs[i].to \in Nat /\ doc.paragraphs[m].from \in Nat
  <2>1. m - 1 \in 1 .. Len(doc.paragraphs) /\ m - 1 < Len(doc.paragraphs) /\ m - 1 + 1 = m
        /\ m \in 1 .. Len(doc.paragraphs)
    BY <1>4, <1>2, ParagraphFacts
  <2> HIDE DEF Bad
  <2>2. doc.paragraphs[m - 1].to < doc.paragraphs[m - 1 + 1].from
    BY <2>1, ParagraphFacts
  <2> QED BY <2>1, <2>2, ParagraphFacts
<1> QED BY <1>2, <1>5, <1>6

\* What is not blank belongs to a paragraph.
LEMMA InParagraph ==
  ASSUME IsDocument(doc),
         NEW a \in 1 .. Len(doc.paragraphs), NEW b \in 1 .. Len(doc.paragraphs),
         NEW x \in doc.paragraphs[a].from .. doc.paragraphs[b].to, x \notin doc.blank
  PROVE  \E k \in a .. b : doc.paragraphs[k].from <= x /\ x <= doc.paragraphs[k].to
<1>0. /\ Len(doc.paragraphs) \in Nat /\ a \in Nat /\ b \in Nat
      /\ doc.paragraphs[a].from \in Nat /\ doc.paragraphs[b].to \in Nat /\ x \in Nat
  BY ParagraphFacts
<1> DEFINE Begun == { k \in a .. b : doc.paragraphs[k].from <= x }
<1>1. a <= b
  <2> SUFFICES ASSUME b < a PROVE FALSE
    BY <1>0
  <2>1. doc.paragraphs[b].to < doc.paragraphs[a].from
    BY ParagraphsInOrder
  <2> QED BY <1>0, <2>1
<1>2. Begun \in SUBSET Nat /\ a \in Begun /\ \A y \in Begun : y <= b
  BY <1>0, <1>1
<1> HIDE DEF Begun
<1>3. Largest(Begun) \in Begun /\ \A y \in Begun : y <= Largest(Begun)
  BY <1>0, <1>2, LargestOf
<1>4. PICK k \in Begun : \A y \in Begun : y <= k
  BY <1>3
<1> USE DEF Begun
<1>5. CASE k = b
  BY <1>0, <1>4, <1>5
<1>6. CASE k < b
  <2>1. k + 1 \in a .. b /\ ~ (k + 1 <= k) /\ k \in 1 .. Len(doc.paragraphs)
        /\ k < Len(doc.paragraphs) /\ k + 1 \in 1 .. Len(doc.paragraphs)
    BY <1>0, <1>4, <1>6
  <2>2. ~ (doc.paragraphs[k + 1].from <= x)
    BY <1>4, <2>1
  <2>3. /\ doc.paragraphs[k].to + 1 .. doc.paragraphs[k + 1].from - 1 \subseteq doc.blank
        /\ doc.paragraphs[k].to \in Nat /\ doc.paragraphs[k + 1].from \in Nat
    BY <2>1, ParagraphFacts
  <2>4. x <= doc.paragraphs[k].to
    <3> SUFFICES ASSUME x > doc.paragraphs[k].to PROVE FALSE
      BY <1>0, <2>3
    <3>1. x \in doc.paragraphs[k].to + 1 .. doc.paragraphs[k + 1].from - 1
      BY <1>0, <2>2, <2>3
    <3> QED BY <2>3, <3>1
  <2> QED BY <1>4, <2>4
<1> QED BY <1>0, <1>4, <1>5, <1>6

\* A section ends before the next heading.
LEMMA SectionEnds ==
  ASSUME IsDocument(doc), NEW h \in Headings
  PROVE  /\ Headings \subseteq 1 .. Len(doc.paragraphs)
         /\ LastOf(h) \in h .. Len(doc.paragraphs)
         /\ \A x \in Headings : x > h => x > LastOf(h)
         /\ LastOf(h) < Len(doc.paragraphs) => LastOf(h) + 1 \in Headings
<1>1. Headings \in SUBSET (1 .. Len(doc.paragraphs)) /\ Len(doc.paragraphs) \in Nat
  BY ParagraphFacts DEF Headings
<1> DEFINE S == { i - 1 : i \in {x \in Headings : x > h} } \union {Len(doc.paragraphs)}
<1>2. S \in SUBSET Nat /\ S # {}
  BY <1>1
<1>3. Smallest(S) \in S /\ \A y \in S : Smallest(S) <= y
  <2> HIDE DEF S
  <2> QED BY <1>2, SmallestOf
<1>4. LastOf(h) = Smallest(S)
  BY DEF LastOf
<1>5. \A x \in Headings : x > h => x - 1 \in S
  OBVIOUS
<1>6. \A x \in Headings : x > h => LastOf(h) <= x - 1
  BY <1>3, <1>4, <1>5
<1>7. LastOf(h) = Len(doc.paragraphs) \/ \E i \in Headings : i > h /\ LastOf(h) = i - 1
  BY <1>3, <1>4
<1> QED BY <1>1, <1>6, <1>7

-------------------------------------------------------------------------------
(* Base: types, loops, blocks and windows *)

\* What is chunked, and how.
LEMMA InputFacts ==
  ASSUME TypeOK
  PROVE  /\ IsDocument(doc)
         /\ config.max \in Nat /\ config.max >= 1 /\ config.overlap \in Nat
BY ChunkingAssumption DEF TypeOK

\* What a step leaves alone keeps its meaning.
LEMMA DocFrame ==
  ASSUME doc' = doc
  PROVE  /\ Headings' = Headings /\ ByHeadings' = ByHeadings /\ ByPages' = ByPages
         /\ \A x : HasText(x)' = HasText(x)
         /\ \A h : LastOf(h)' = LastOf(h)
         /\ section' = section => /\ LastOf(section)' = LastOf(section)
                                  /\ SectionText(section)' = SectionText(section)
BY DEF Headings, ByHeadings, ByPages, HasText, LastOf, SectionText

\* Blocks reach as far as they did while the document, the section and they
\* are the same.
LEMMA BlocksFrame ==
  ASSUME doc' = doc, section' = section, blocks' = blocks
  PROVE  \A l : BlocksReach(l)' <=> BlocksReach(l)
BY DEF BlocksReach

\* A part with text begins and ends in the text; parts follow one another.
LEMMA PartFacts ==
  ASSUME IsDocument(doc), NEW x \in DOMAIN doc.parts
  PROVE  /\ Len(doc.parts) \in Nat /\ DOMAIN doc.parts = 1 .. Len(doc.parts)
         /\ doc.parts[x].from \in Nat /\ doc.parts[x].to \in Nat /\ doc.parts[x].number \in Nat
         /\ HasText(x) => /\ 1 <= doc.parts[x].from /\ doc.parts[x].from \notin doc.blank
                          /\ doc.parts[x].from <= doc.parts[x].to
                          /\ doc.parts[x].to <= doc.length
         /\ \A y \in DOMAIN doc.parts : x < y => doc.parts[x].to < doc.parts[y].from
<1>1. doc.parts \in Seq([from : Nat, to : Nat, number : Nat])
  BY DEF IsDocument
<1>2. /\ Len(doc.parts) \in Nat /\ DOMAIN doc.parts = 1 .. Len(doc.parts)
      /\ \A i \in 1 .. Len(doc.parts) : doc.parts[i] \in [from : Nat, to : Nat, number : Nat]
  BY <1>1, SeqFacts, Zenon
<1>3. doc.parts[x] \in [from : Nat, to : Nat, number : Nat]
  BY <1>2
<1>4. /\ doc.parts[x].number = 0 /\ doc.parts[x].from <= doc.parts[x].to =>
           doc.parts[x].from \in 1 .. doc.length \ doc.blank /\ doc.parts[x].to <= doc.length
      /\ \A y \in DOMAIN doc.parts : x < y => doc.parts[x].to < doc.parts[y].from
  BY DEF IsDocument
<1> QED BY <1>2, <1>3, <1>4 DEF HasText

\* A text that is split begins with a character, or is empty.
LEMMA SpanFacts ==
  ASSUME TypeOK, LoopsOK, BlocksOK, Phase \in Splitting
  PROVE  /\ span[1] \in Nat /\ span[2] \in Nat /\ span[1] >= 1
         /\ span[1] \notin doc.blank /\ span[2] >= span[1] - 1
         /\ Size(span) = span[2] - span[1] + 1
<1>1. IsDocument(doc) /\ Size(span) = span[2] - span[1] + 1
  BY InputFacts DEF Size
<1>2. CASE Phase = "refine"
  <2>1. turn \in DOMAIN blocks /\ span = blocks[turn] /\ section \in Headings
    BY <1>2 DEF LoopsOK, InSection
  <2>2. PICK a \in section .. LastOf(section), b \in section .. LastOf(section) :
          a <= b /\ blocks[turn] = <<doc.paragraphs[a].from, doc.paragraphs[b].to>>
    BY <1>2, <2>1 DEF BlocksOK, BlocksReach
  <2>3. a \in 1 .. Len(doc.paragraphs) /\ b \in 1 .. Len(doc.paragraphs)
    BY <1>1, <2>1, <2>2, SectionEnds, ParagraphFacts
  <2>4. doc.paragraphs[a].from <= doc.paragraphs[b].to
    <3>1. CASE a = b
      BY <1>1, <2>3, <3>1, ParagraphFacts
    <3>2. CASE a < b
      <4>1. doc.paragraphs[a].to < doc.paragraphs[b].from
        BY <1>1, <2>3, <3>2, ParagraphsInOrder
      <4> QED BY <1>1, <2>3, <4>1, ParagraphFacts
    <3> QED BY <2>2, <2>3, <3>1, <3>2
  <2> QED BY <1>1, <2>1, <2>2, <2>3, <2>4, ParagraphFacts
<1>3. CASE Phase = "emit"
  BY <1>1, <1>3, PartFacts DEF LoopsOK
<1>4. CASE Phase = "fallback"
  BY <1>1, <1>4 DEF LoopsOK, IsDocument
<1> QED BY <1>1, <1>2, <1>3, <1>4 DEF Splitting

\* A split that begins has no pieces.
LEMMA SplitStarts ==
  ASSUME NEW text \in Piece, NEW for \in Splitting, Split(text, for)
  PROVE  SplitOK'
<1>1. /\ stage' = "split" /\ pieces' = <<>> /\ span' = text /\ at' = text[1]
      /\ text[1] \in Int /\ text[2] \in Int /\ at' = span'[1]
  BY DEF Split, Piece
<1>2. /\ Within(pieces, span[1], span[2])' /\ Short(pieces)' /\ Sorted(pieces)'
  BY <1>1 DEF Within, Short, Sorted
<1>3. Covers(pieces, span[1], at - 1)'
  BY <1>1 DEF Covers
<1>4. \A j \in DOMAIN pieces' : FALSE
  BY <1>1
<1> QED BY <1>1, <1>2, <1>3, <1>4 DEF SplitOK

\* strip() of a window: one piece, with all of it that is not blank.
LEMMA Stripped ==
  ASSUME NEW a \in Nat, NEW b \in Nat
  PROVE  \/ Strip(a, b) = <<>> /\ \A x \in a .. b : x \in doc.blank
         \/ \E p \in Piece :
              /\ Strip(a, b) = <<p>> /\ a <= p[1] /\ p[1] <= p[2] /\ p[2] <= b
              /\ p[1] \in Nat /\ p[1] \notin doc.blank
              /\ \A x \in a .. b : x \notin doc.blank => p[1] <= x /\ x <= p[2]
<1> DEFINE inked == (a .. b) \ doc.blank
<1>1. CASE inked = {}
  BY <1>1 DEF Strip
<1>2. CASE inked # {}
  <2>1. inked \in SUBSET Nat /\ inked # {} /\ \A y \in inked : y <= b
    BY <1>2
  <2>2. /\ Smallest(inked) \in inked /\ \A y \in inked : Smallest(inked) <= y
        /\ Largest(inked) \in inked /\ \A y \in inked : y <= Largest(inked)
    <3> HIDE DEF inked
    <3> QED BY <2>1, SmallestOf, LargestOf
  <2>3. Strip(a, b) = << <<Smallest(inked), Largest(inked)>> >>
    BY <1>2 DEF Strip
  <2> DEFINE p == <<Smallest(inked), Largest(inked)>>
  <2>4. Smallest(inked) \in Nat /\ Largest(inked) \in Nat /\ Smallest(inked) <= Largest(inked)
        /\ a <= Smallest(inked) /\ Largest(inked) <= b /\ Smallest(inked) \notin doc.blank
    BY <2>2
  <2>5. p \in Piece /\ p[1] = Smallest(inked) /\ p[2] = Largest(inked)
    BY <2>4 DEF Piece
  <2>6. \A x \in a .. b : x \notin doc.blank => Smallest(inked) <= x /\ x <= Largest(inked)
    BY <2>2
  <2> HIDE DEF p, inked
  <2> QED BY <2>3, <2>4, <2>5, <2>6 DEF p
<1> QED BY <1>1, <1>2

\* One more piece at the end of a sequence of pieces.
LEMMA OnePieceMore ==
  ASSUME NEW ps \in Seq(Piece), NEW p \in Piece
  PROVE  /\ ps \o <<p>> \in Seq(Piece) /\ Len(ps \o <<p>>) = Len(ps) + 1
         /\ DOMAIN (ps \o <<p>>) = 1 .. Len(ps) + 1 /\ DOMAIN ps = 1 .. Len(ps) /\ Len(ps) \in Nat
         /\ (ps \o <<p>>)[Len(ps) + 1] = p
         /\ \A j \in 1 .. Len(ps) : (ps \o <<p>>)[j] = ps[j]
OBVIOUS

\* A window: what has been passed is covered, and what follows begins later.
LEMMA WindowSplit ==
  ASSUME Base, Window
  PROVE  SplitOK' /\ pieces' \in Seq(Piece) /\ at' \in Int
<1>1. Phase \in Splitting /\ user \in Splitting /\ stage = "split"
  <2>1. stage = "split" /\ user # "none" /\ user \in Splitting \union {"none"}
    BY DEF Base, Window, LoopsOK, TypeOK
  <2> QED BY <2>1 DEF Phase
<1>2. /\ span[1] \in Nat /\ span[2] \in Nat /\ span[1] >= 1 /\ span[2] >= span[1] - 1
      /\ Size(span) = span[2] - span[1] + 1
  BY <1>1, SpanFacts DEF Base
<1>3. config.max \in Nat /\ config.max >= 1 /\ config.overlap \in Nat /\ at \in Int
  BY InputFacts DEF Base, TypeOK
<1>p. pieces \in Seq(Piece) /\ span \in Piece
  BY DEF Base, TypeOK
<1>w. Within(pieces, span[1], span[2]) /\ Short(pieces) /\ Sorted(pieces)
  BY <1>1 DEF Base, SplitOK
<1>a. /\ at >= span[1] /\ (at > span[2] => at = span[1])
      /\ (Size(span) <= config.max \/ config.overlap >= config.max) => at = span[1]
  BY <1>1 DEF Base, SplitOK
<1>c. Covers(pieces, span[1], at - 1)
  BY <1>1 DEF Base, SplitOK
<1>f. \A j \in DOMAIN pieces : \A x \in at .. span[2] :
           x \notin doc.blank => pieces[j][1] <= x
  BY <1>1 DEF Base, SplitOK
<1> DEFINE end == IF at + config.max - 1 <= span[2] THEN at + config.max - 1 ELSE span[2]
<1>4. Smallest({at + config.max - 1, span[2]}) = end
  <2>1. at + config.max - 1 \in Int /\ span[2] \in Int
    BY <1>2, <1>3
  <2> QED BY <2>1, OfTwo, Zenon
<1>5. /\ pieces' = IF Size(span) = 0 THEN <<>>
                   ELSE IF Size(span) <= config.max THEN <<span>>
                   ELSE pieces \o Strip(at, end)
      /\ IF end = span[2] THEN stage' = user /\ UNCHANGED at
         ELSE at' = Largest({span[1], NextStart(end)}) /\ UNCHANGED stage
      /\ span' = span /\ user' = user /\ doc' = doc /\ config' = config
  BY <1>4, Zenon DEF Window, split
<1>6. CASE Size(span) = 0
  <2>1. end = span[2] /\ pieces' = <<>>
    BY <1>2, <1>3, <1>a, <1>5, <1>6
  <2>2. stage' = user /\ at' = at /\ Phase' = user /\ stage' # "split"
    BY <1>1, <1>5, <2>1 DEF Phase, Splitting
  <2>3. Within(pieces, span[1], span[2])' /\ Short(pieces)' /\ Sorted(pieces)'
    BY <2>1 DEF Within, Short, Sorted
  <2>4. Covers(pieces, span[1], span[2])'
    BY <1>2, <1>5, <1>6 DEF Covers
  <2>5. SplitOK'
    BY <2>2, <2>3, <2>4 DEF SplitOK
  <2> QED BY <1>3, <2>1, <2>2, <2>5
<1>7. CASE Size(span) # 0 /\ Size(span) <= config.max
  <2>1. end = span[2] /\ pieces' = <<span>> /\ span \in Piece
    <3>1. end = span[2]
      BY <1>2, <1>3, <1>a, <1>7
    <3> HIDE DEF end
    <3> QED BY <1>5, <1>7, <1>p, <3>1
  <2>2. stage' = user /\ at' = at /\ Phase' = user /\ stage' # "split"
    BY <1>1, <1>5, <2>1 DEF Phase, Splitting
  <2>3. DOMAIN pieces' = {1} /\ pieces'[1] = span /\ pieces' \in Seq(Piece)
    BY <2>1
  <2>4. /\ Within(pieces, span[1], span[2])' /\ Short(pieces)' /\ Sorted(pieces)'
    BY <1>2, <1>5, <1>7, <2>3 DEF Within, Short, Sorted
  <2>5. Covers(pieces, span[1], span[2])'
    <3>1. Covers(pieces', span[1], span[2])
      BY <1>2, <2>3 DEF Covers
    <3> QED BY <1>5, <3>1 DEF Covers
  <2>6. SplitOK'
    BY <2>2, <2>4, <2>5 DEF SplitOK
  <2> QED BY <1>3, <2>2, <2>3, <2>6
<1>8. CASE Size(span) # 0 /\ Size(span) > config.max
  <2>1. /\ pieces' = pieces \o Strip(at, end) /\ at <= span[2]
        /\ end \in Nat /\ at \in Nat /\ at <= end /\ end <= span[2]
        /\ end <= at + config.max - 1
    <3>1. /\ at <= span[2] /\ end \in Nat /\ at \in Nat /\ at <= end /\ end <= span[2]
          /\ end <= at + config.max - 1
      BY <1>2, <1>3, <1>a, <1>8
    <3> HIDE DEF end
    <3> QED BY <1>2, <1>3, <1>5, <1>8, <3>1
  <2>a. /\ at <= span[2] /\ end \in Nat /\ at \in Nat /\ at <= end /\ end <= span[2]
        /\ end <= at + config.max - 1
    BY <2>1
  <2> HIDE DEF end
  \* The pieces with what the window adds.
  <2>2. /\ pieces' \in Seq(Piece) /\ Within(pieces', span[1], span[2])
        /\ \A j \in DOMAIN pieces' : Size(pieces'[j]) <= config.max
        /\ Sorted(pieces') /\ Covers(pieces', span[1], end)
        /\ \A j \in DOMAIN pieces' : \A x \in at .. span[2] :
             x \notin doc.blank => pieces'[j][1] <= x
    <3>1. CASE Strip(at, end) = <<>> /\ \A x \in at .. end : x \in doc.blank
      <4>1. pieces' = pieces
        BY <1>p, <2>1, <3>1
      <4>2. Covers(pieces, span[1], end)
        <5> SUFFICES ASSUME NEW x \in span[1] .. end, x \notin doc.blank
                     PROVE  \E j \in DOMAIN pieces : pieces[j][1] <= x /\ x <= pieces[j][2]
          BY DEF Covers
        <5>1. x \in span[1] .. at - 1
          BY <1>2, <2>1, <3>1
        <5> QED BY <1>c, <5>1 DEF Covers
      <4> QED BY <1>w, <1>f, <1>p, <4>1, <4>2 DEF Short
    <3>2. ASSUME NEW p \in Piece,
                 Strip(at, end) = <<p>>, at <= p[1], p[1] <= p[2], p[2] <= end, p[1] \in Nat,
                 p[1] \notin doc.blank,
                 \A x \in at .. end : x \notin doc.blank => p[1] <= x /\ x <= p[2]
          PROVE  <2>2
      <4>0. pieces' = pieces \o <<p>> /\ p[1] \in Int /\ p[2] \in Int
        BY <2>1, <3>2 DEF Piece
      <4> DEFINE n == Len(pieces)
      <4>1. /\ pieces' \in Seq(Piece) /\ DOMAIN pieces' = 1 .. n + 1 /\ DOMAIN pieces = 1 .. n
            /\ n \in Nat /\ pieces'[n + 1] = p /\ \A j \in 1 .. n : pieces'[j] = pieces[j]
        BY <1>p, <4>0, OnePieceMore
      <4> HIDE DEF n
      <4>2. \A j \in 1 .. n : pieces[j] \in Piece /\ pieces[j][1] \in Int /\ pieces[j][2] \in Int
        BY <1>p, <4>1, SeqFacts DEF Piece
      <4>3. Within(pieces', span[1], span[2])
        <5> SUFFICES ASSUME NEW j \in 1 .. n + 1
                     PROVE  /\ span[1] <= pieces'[j][1] /\ pieces'[j][1] <= pieces'[j][2]
                            /\ pieces'[j][2] <= span[2]
          BY <4>1 DEF Within
        <5>1. CASE j \in 1 .. n
          BY <1>w, <4>1, <5>1 DEF Within
        <5>2. CASE j = n + 1
          BY <1>2, <1>a, <2>1, <3>2, <4>0, <4>1, <5>2
        <5> QED BY <4>1, <5>1, <5>2
      <4>4. \A j \in DOMAIN pieces' : Size(pieces'[j]) <= config.max
        BY <1>w, <1>3, <2>1, <3>2, <4>0, <4>1 DEF Short, Size
      <4>5. \A j \in 1 .. n : pieces[j][1] <= p[1]
        <5>1. p[1] \in at .. span[2]
          BY <1>2, <2>1, <3>2, <4>0
        <5> QED BY <1>f, <3>2, <4>1, <5>1
      <4>6. Sorted(pieces')
        <5> SUFFICES ASSUME NEW j \in 1 .. n + 1, NEW k \in 1 .. n + 1, j <= k
                     PROVE  pieces'[j][1] <= pieces'[k][1]
          BY <4>1 DEF Sorted
        <5>1. CASE k \in 1 .. n
          BY <1>w, <4>1, <5>1 DEF Sorted
        <5>2. CASE k = n + 1
          BY <4>0, <4>1, <4>5, <5>2
        <5> QED BY <4>1, <5>1, <5>2
      <4>7. Covers(pieces', span[1], end)
        <5> SUFFICES ASSUME NEW x \in span[1] .. end, x \notin doc.blank
                     PROVE  \E j \in DOMAIN pieces' : pieces'[j][1] <= x /\ x <= pieces'[j][2]
          BY DEF Covers
        <5>1. CASE x < at
          <6>1. x \in span[1] .. at - 1
            BY <1>2, <2>1, <5>1
          <6>2. \E j \in 1 .. n : pieces[j][1] <= x /\ x <= pieces[j][2]
            BY <1>c, <4>1, <6>1 DEF Covers
          <6> QED BY <4>1, <6>2
        <5>2. CASE x >= at
          <6>1. p[1] <= x /\ x <= p[2]
            BY <1>2, <2>1, <3>2, <5>2
          <6> QED BY <4>1, <6>1
        <5> QED BY <1>2, <2>1, <5>1, <5>2
      <4>8. \A j \in DOMAIN pieces' : \A x \in at .. span[2] :
              x \notin doc.blank => pieces'[j][1] <= x
        <5> SUFFICES ASSUME NEW j \in 1 .. n + 1, NEW x \in at .. span[2], x \notin doc.blank
                     PROVE  pieces'[j][1] <= x
          BY <4>1
        <5>1. CASE j \in 1 .. n
          BY <1>f, <4>1, <5>1
        <5>2. CASE j = n + 1
          BY <1>2, <2>1, <3>2, <4>0, <4>1, <5>2
        <5> QED BY <4>1, <5>1, <5>2
      <4> QED BY <4>1, <4>3, <4>4, <4>6, <4>7, <4>8
    <3>3. ASSUME Strip(at, end) # <<>>
          PROVE  \E p \in Piece :
              /\ Strip(at, end) = <<p>> /\ at <= p[1] /\ p[1] <= p[2] /\ p[2] <= end
              /\ p[1] \in Nat /\ p[1] \notin doc.blank
              /\ \A x \in at .. end : x \notin doc.blank => p[1] <= x /\ x <= p[2]
      BY <2>1, <3>3, Stripped
    <3>4. Strip(at, end) = <<>> => \A x \in at .. end : x \in doc.blank
      <4>1. \A p : <<p>> # <<>>
        OBVIOUS
      <4> QED BY <2>1, <4>1, Stripped, Zenon
    <3> QED BY <3>1, <3>2, <3>3, <3>4, Zenon
  <2>3. CASE end = span[2]
    <3>1. stage' = user /\ at' = at /\ Phase' = user /\ stage' # "split"
      BY <1>1, <1>5, <2>3 DEF Phase, Splitting
    <3>2. Within(pieces, span[1], span[2])' /\ Short(pieces)' /\ Sorted(pieces)'
          /\ Covers(pieces, span[1], span[2])'
      BY <1>5, <2>2, <2>3 DEF Within, Short, Sorted, Covers
    <3> QED BY <1>3, <2>2, <3>1, <3>2 DEF SplitOK
  <2>4. CASE end # span[2]
    <3>1. end = at + config.max - 1 /\ end < span[2]
      BY <1>2, <1>3, <2>a, <2>4 DEF end
    <3>2. at' = Largest({span[1], end + 1 - config.overlap}) /\ stage' = stage
      BY <1>5, <2>4 DEF NextStart
    <3>3. at' = IF span[1] >= end + 1 - config.overlap THEN span[1] ELSE end + 1 - config.overlap
      <4>1. span[1] \in Int /\ end + 1 - config.overlap \in Int
        BY <1>2, <1>3, <2>a
      <4> QED BY <3>2, <4>1, OfTwo, Zenon
    <3>4. at' \in Int /\ at' >= at /\ at' <= end + 1 /\ at' >= span[1] /\ at' <= span[2]
      <4>1. CASE span[1] >= end + 1 - config.overlap
        <5>1. at' = span[1] /\ at' \in Int
          BY <1>2, <3>3, <4>1
        <5>2. at = span[1]
          BY <1>2, <1>3, <1>a, <2>a, <3>1, <4>1
        <5> QED BY <1>2, <2>a, <5>1, <5>2
      <4>2. CASE ~ (span[1] >= end + 1 - config.overlap)
        <5>1. at' = end + 1 - config.overlap
          BY <3>3, <4>2
        <5>2. config.overlap < config.max
          BY <1>2, <1>3, <1>a, <2>a, <3>1, <4>2
        <5> QED BY <1>2, <1>3, <2>a, <3>1, <4>2, <5>1, <5>2
      <4> QED BY <4>1, <4>2
    <3>5. config.overlap >= config.max => at' = span[1]
      BY <1>2, <1>3, <1>a, <2>a, <3>1, <3>3
    <3>6. Covers(pieces', span[1], at' - 1)
      <4> DEFINE next == at'
      <4>0. next \in Int /\ next <= end + 1
        BY <3>4
      <4> HIDE DEF next
      <4>1. \A x \in span[1] .. next - 1 : x \in span[1] .. end
        BY <1>2, <2>a, <4>0
      <4> USE DEF next
      <4> QED BY <2>2, <4>1 DEF Covers
    <3>7. \A j \in DOMAIN pieces' : \A x \in at' .. span[2] :
             x \notin doc.blank => pieces'[j][1] <= x
      <4>1. \A x \in at' .. span[2] : x \in at .. span[2]
        BY <1>2, <1>3, <3>4
      <4> QED BY <2>2, <4>1
    <3>8. stage' = "split" /\ Size(span)' = Size(span)
      BY <1>1, <1>5, <3>2 DEF Size
    <3>9. Within(pieces, span[1], span[2])' /\ Short(pieces)' /\ Sorted(pieces)'
          /\ Covers(pieces, span[1], at - 1)'
      BY <1>5, <2>2, <3>6 DEF Within, Short, Sorted, Covers
    <3>10. SplitOK'
      <4>1. /\ at' >= span'[1] /\ (at' > span'[2] => at' = span'[1])
            /\ (Size(span)' <= config'.max \/ config'.overlap >= config'.max) => at' = span'[1]
        BY <1>2, <1>3, <1>5, <1>8, <3>4, <3>5, <3>8
      <4>2. \A j \in DOMAIN pieces' : \A x \in at' .. span'[2] :
             x \notin doc'.blank => pieces'[j][1] <= x
        BY <1>5, <3>7
      <4> QED BY <3>8, <3>9, <4>1, <4>2 DEF SplitOK
    <3> QED BY <2>2, <3>4, <3>10
  <2> QED BY <2>3, <2>4
<1> QED BY <1>2, <1>3, <1>6, <1>7, <1>8

\* The end of a section.
LEMMA NextSectionFacts ==
  ASSUME IsDocument(doc), NEW h \in Headings, NextSection(h)
  PROVE  /\ turn' = LastOf(h) + 1 /\ turn' \in Nat \ {0} /\ stage' \in {"done", "section"}
         /\ stage' = "section" => turn' \in Headings
         /\ stage' = "done" => LastOf(h) = Len(doc.paragraphs)
BY SectionEnds, ParagraphFacts DEF NextSection

\* The headings that stay on the stack are a prefix of it.
LEMMA PoppedFacts ==
  ASSUME stack \in Seq(Nat), NEW l
  PROVE  \E k \in 0 .. Len(stack) :
           /\ Popped(l) \in Seq(Nat) /\ Len(Popped(l)) = k
           /\ \A n \in 1 .. k : Popped(l)[n] = stack[n]
           /\ k > 0 => Level(stack[k]) < l
           /\ \A n \in 1 .. Len(stack) : Level(stack[n]) < l => n <= k
<1> DEFINE S == {0} \union {n \in DOMAIN stack : Level(stack[n]) < l}
<1>1. S \in SUBSET Nat /\ S # {} /\ Len(stack) \in Nat /\ \A y \in S : y <= Len(stack)
  OBVIOUS
<1>2. Largest(S) \in S /\ \A y \in S : y <= Largest(S)
  <2> HIDE DEF S
  <2> QED BY <1>1, LargestOf
<1>3. Popped(l) = SubSeq(stack, 1, Largest(S))
  BY DEF Popped
<1> DEFINE k == Largest(S)
<1>4. /\ k \in 0 .. Len(stack) /\ (k > 0 => Level(stack[k]) < l)
      /\ \A n \in 1 .. Len(stack) : Level(stack[n]) < l => n <= k
  BY <1>2
<1> HIDE DEF k
<1>5. /\ SubSeq(stack, 1, k) \in Seq(Nat) /\ Len(SubSeq(stack, 1, k)) = k
      /\ \A n \in 1 .. k : SubSeq(stack, 1, k)[n] = stack[n]
  <2>1. k \in Nat /\ k <= Len(stack) /\ Len(stack) \in Nat /\ \A n \in 1 .. k : stack[n] \in Nat
    BY <1>1, <1>4, SeqFacts
  <2>2. Len(SubSeq(stack, 1, k)) = k
    BY <2>1
  <2>3. \A n \in 1 .. k : SubSeq(stack, 1, k)[n] = stack[n]
    BY <2>1
  <2>4. SubSeq(stack, 1, k) = [n \in 1 .. k |-> stack[n]]
    BY <2>1
  <2>5. [n \in 1 .. k |-> stack[n]] \in [1 .. k -> Nat]
    BY <2>1
  <2>6. [1 .. k -> Nat] \subseteq Seq(Nat)
    BY <2>1
  <2> QED BY <2>2, <2>3, <2>4, <2>5, <2>6
<1>6. Popped(l) = SubSeq(stack, 1, k)
  BY <1>3 DEF k
<1> QED BY <1>4, <1>5, <1>6

\* A chunk that is added is one.
LEMMA ChunkType ==
  ASSUME TypeOK, NEW n \in Nat \ {0}, NEW ps \in Seq(Piece), NEW path \in Seq(Nat)
  PROVE  Chunk(n, ps, path) \in ChunkRecord
<1>1. Len(chunks) \in Nat /\ page \in Nat
  BY DEF TypeOK
<1> QED BY <1>1 DEF Chunk, ChunkRecord

\* The base invariant: initially, and for each step.
LEMMA BaseInit ==
  ASSUME Init
  PROVE  Base
<1>1. TypeOK
  <2>1. <<1, 0>> \in Piece /\ <<>> \in Seq(Piece) /\ <<>> \in Seq(Nat)
        /\ <<>> \in Seq(ChunkRecord)
    BY DEF Piece
  <2>2. doc \in Documents /\ config \in Configs /\ stage \in Stages
        /\ user \in Splitting \union {"none"}
    BY DEF Init, Stages
  <2>3. /\ turn \in Nat \ {0} /\ section \in Nat /\ open \in Nat /\ inside \in BOOLEAN
        /\ page \in Nat /\ at \in Int
    <3>1. turn = 1 /\ section = 0 /\ open = 0 /\ page = 1 /\ at = 1
      BY Zenon DEF Init
    <3>2. inside \in BOOLEAN
      BY Zenon DEF Init
    <3> QED BY <3>1, <3>2
  <2>4. /\ stack = <<>> /\ blocks = <<>> /\ refined = <<>> /\ accumulated = <<>>
        /\ pieces = <<>> /\ chunks = <<>> /\ span = <<1, 0>>
    BY DEF Init
  <2> QED BY <2>1, <2>2, <2>3, <2>4, Zenon DEF TypeOK
<1>2. Phase = "start" /\ stage = "start"
  BY DEF Init, Phase
<1>3. LoopsOK
  BY <1>2 DEF Init, LoopsOK, Sectioning, InSection
<1>4. BlocksOK /\ SplitOK
  BY <1>2 DEF BlocksOK, SplitOK, Splitting
<1> QED BY <1>1, <1>3, <1>4 DEF Base

\* The choice between headings, pages and windows.
LEMMA BaseStart ==
  ASSUME Base, Start
  PROVE  Base'
<1>1. /\ Phase = "start" /\ stage = "start" /\ IsDocument(doc)
      /\ doc' = doc /\ config' = config /\ section' = section /\ stack' = stack
      /\ open' = open /\ inside' = inside /\ blocks' = blocks /\ refined' = refined
      /\ accumulated' = accumulated /\ page' = page /\ chunks' = chunks
  BY InputFacts DEF Base, Start, Phase, outline, fence
<1>2. TypeOK /\ LoopsOK
  BY DEF Base
<1>3. CASE /\ ByHeadings /\ stage' = "section" /\ turn' = Smallest(Headings)
           /\ UNCHANGED split
  <2>1. turn' \in Headings /\ turn' \in Nat \ {0}
    <3>1. Headings \in SUBSET Nat /\ Headings # {} /\ 0 \notin Headings
      BY <1>1, <1>3, ParagraphFacts DEF Headings, ByHeadings
    <3> QED BY <1>3, <3>1, SmallestOf
  <2>2. Phase' = "section"
    BY <1>3 DEF Phase
  <2>3. TypeOK'
    BY <1>1, <1>2, <1>3, <2>1 DEF TypeOK, split, Stages, Sectioning
  <2>4. LoopsOK'
    BY <1>1, <1>2, <1>3, <2>1, <2>2, DocFrame DEF LoopsOK, InSection
  <2> QED BY <2>2, <2>3, <2>4 DEF Base, BlocksOK, SplitOK, Splitting
<1>4. CASE /\ ByPages /\ stage' = "page" /\ UNCHANGED <<turn, split>>
  <2>2. Phase' = "page"
    BY <1>4 DEF Phase
  <2>3. TypeOK'
    BY <1>1, <1>2, <1>4 DEF TypeOK, split, Stages, Sectioning
  <2>4. LoopsOK'
    BY <1>1, <1>2, <1>4, <2>2, DocFrame DEF LoopsOK, InSection, Sectioning
  <2> QED BY <2>2, <2>3, <2>4 DEF Base, BlocksOK, SplitOK, Splitting
<1>5. CASE /\ ~ByHeadings /\ ~ByPages
           /\ Split(<<1, doc.length>>, "fallback") /\ UNCHANGED turn
  <2>1. <<1, doc.length>> \in Piece
    BY <1>1 DEF IsDocument, Piece
  <2>2. Phase' = "fallback" /\ SplitOK'
    BY <1>5, <2>1, SplitStarts DEF Phase, Split, Splitting
  <2>3. TypeOK'
    BY <1>1, <1>2, <1>5, <2>1 DEF TypeOK, Split, Stages, Splitting
  <2>4. LoopsOK'
    BY <1>1, <1>2, <1>5, <2>2, DocFrame DEF LoopsOK, InSection, Sectioning, Split
  <2> QED BY <2>2, <2>3, <2>4 DEF Base, BlocksOK
<1>6. ByHeadings => doc.format = "markdown" /\ Headings # {}
  BY DEF ByHeadings
<1> QED
  <2>1. \/ /\ ByHeadings /\ stage' = "section" /\ turn' = Smallest(Headings)
           /\ UNCHANGED split
        \/ /\ ByPages /\ stage' = "page" /\ UNCHANGED <<turn, split>>
        \/ /\ ~ByHeadings /\ ~ByPages
           /\ Split(<<1, doc.length>>, "fallback") /\ UNCHANGED turn
    <3>1. doc.parts \in Seq([from : Nat, to : Nat, number : Nat])
      BY <1>1 DEF IsDocument
    <3>2. Len(doc.parts) \in Nat
      BY <3>1, SeqFacts, Zenon
    <3> QED BY <3>2 DEF Start, ByHeadings, ByPages
  <2> QED BY <1>3, <1>4, <1>5, <2>1

\* One window of a split.
LEMMA BaseWindow ==
  ASSUME Base, Window
  PROVE  Base'
<1>1. /\ stage = "split" /\ IsDocument(doc) /\ Phase = user
      /\ doc' = doc /\ config' = config /\ turn' = turn /\ section' = section /\ stack' = stack
      /\ open' = open /\ inside' = inside /\ blocks' = blocks /\ refined' = refined
      /\ accumulated' = accumulated /\ page' = page /\ span' = span /\ user' = user
      /\ chunks' = chunks
  BY InputFacts DEF Base, Window, outline, fence, Phase
<1>2. TypeOK /\ LoopsOK /\ BlocksOK /\ user \in Splitting
  BY <1>1 DEF Base, TypeOK, LoopsOK
<1>3. SplitOK' /\ pieces' \in Seq(Piece) /\ at' \in Int
  BY WindowSplit
<1>4. stage' \in {"split", user} /\ Phase' = user
  BY <1>1 DEF Window, Phase
<1>5. TypeOK'
  BY <1>1, <1>2, <1>3, <1>4 DEF TypeOK, Stages, Splitting
<1>6. LoopsOK'
  BY <1>1, <1>2, <1>4, DocFrame DEF LoopsOK, Sectioning, InSection, Splitting
<1>7. BlocksOK'
  <2>1. /\ LastOf(section)' = LastOf(section)
        /\ \A l : BlocksReach(l)' <=> BlocksReach(l)
    BY <1>1, DocFrame, BlocksFrame
  <2> QED BY <1>1, <1>2, <1>4, <2>1 DEF BlocksOK, Splitting
<1> QED BY <1>3, <1>5, <1>6, <1>7 DEF Base

\* A split that is given up.
LEMMA BaseOverrun ==
  ASSUME Base, Overrun
  PROVE  Base'
<1>1. /\ stage' = "endless" /\ Phase' = "endless"
      /\ doc' = doc /\ config' = config /\ turn' = turn /\ section' = section /\ stack' = stack
      /\ open' = open /\ inside' = inside /\ blocks' = blocks /\ refined' = refined
      /\ accumulated' = accumulated /\ page' = page /\ span' = span /\ user' = user
      /\ at' = at /\ pieces' = pieces /\ chunks' = chunks
  BY DEF Overrun, outline, fence, split, Phase
<1>2. TypeOK'
  BY <1>1 DEF Base, TypeOK, Stages
<1>3. LoopsOK' /\ BlocksOK' /\ SplitOK'
  BY <1>1 DEF LoopsOK, BlocksOK, SplitOK, Sectioning, InSection, Splitting
<1> QED BY <1>2, <1>3 DEF Base

\* A section that is a chunk, or is to be cut into blocks.
LEMMA BaseSection ==
  ASSUME Base, Section
  PROVE  Base'
<1>1. /\ stage = "section" /\ Phase = "section" /\ IsDocument(doc) /\ turn \in Headings
      /\ doc' = doc /\ config' = config /\ section' = turn
      /\ stack' = Append(Popped(Level(turn)), turn)
      /\ open' = open /\ inside' = inside /\ blocks' = blocks /\ refined' = refined
      /\ accumulated' = accumulated /\ page' = page /\ span' = span /\ user' = user
      /\ at' = at /\ pieces' = pieces
      /\ open = 0 /\ ~inside /\ blocks = <<>> /\ refined = <<>> /\ accumulated = <<>>
      /\ ByHeadings
  BY InputFacts DEF Base, Section, fence, split, Phase, LoopsOK, Sectioning
<1>2. TypeOK /\ LoopsOK /\ turn \in Nat \ {0}
  BY DEF Base, TypeOK
<1>3. stack' \in Seq(Nat)
  <2>1. Popped(Level(turn)) \in Seq(Nat)
    BY <1>2, PoppedFacts DEF TypeOK
  <2> QED BY <1>1, <1>2, <2>1
<1>4. CASE /\ chunks' = Append(chunks, Chunk(1, <<SectionText(turn)>>, stack'))
           /\ NextSection(turn)
  <2>1. /\ turn' \in Nat \ {0} /\ stage' \in {"done", "section"}
        /\ stage' = "section" => turn' \in Headings
    BY <1>1, <1>4, NextSectionFacts
  <2>2. Phase' = stage'
    BY <2>1 DEF Phase
  <2>3. SectionText(turn) \in Piece
    <3>1. turn \in 1 .. Len(doc.paragraphs) /\ LastOf(turn) \in 1 .. Len(doc.paragraphs)
      BY <1>1, SectionEnds, ParagraphFacts
    <3> QED BY <1>1, <3>1, ParagraphFacts DEF SectionText, Piece
  <2>4. chunks' \in Seq(ChunkRecord)
    <3>1. chunks \in Seq(ChunkRecord) /\ <<SectionText(turn)>> \in Seq(Piece)
      BY <1>2, <2>3 DEF TypeOK
    <3>2. Chunk(1, <<SectionText(turn)>>, stack') \in ChunkRecord
      <4>1. 1 \in Nat \ {0}
        OBVIOUS
      <4>2. PICK path \in Seq(Nat) : path = stack'
        BY <1>3
      <4>3. Chunk(1, <<SectionText(turn)>>, path) \in ChunkRecord
        BY <1>2, <3>1, <4>1, ChunkType, Zenon
      <4> QED BY <4>2, <4>3
    <3> QED BY <1>4, <3>1, <3>2
  <2>5. TypeOK'
    BY <1>1, <1>2, <1>3, <2>1, <2>4 DEF TypeOK, Stages, Sectioning
  <2>6. LoopsOK'
    BY <1>1, <2>1, <2>2, DocFrame DEF LoopsOK, InSection, Sectioning
  <2>7. BlocksOK' /\ SplitOK'
    BY <2>1, <2>2 DEF BlocksOK, SplitOK, Splitting
  <2> QED BY <2>5, <2>6, <2>7 DEF Base
<1>5. CASE stage' = "group" /\ UNCHANGED <<turn, chunks>>
  <2>1. Phase' = "group"
    BY <1>5 DEF Phase
  <2>2. TypeOK'
    BY <1>1, <1>2, <1>3, <1>5 DEF TypeOK, Stages, Sectioning
  <2>3. /\ LastOf(section)' = LastOf(turn) /\ turn \in 1 .. Len(doc.paragraphs)
        /\ LastOf(turn) \in turn .. Len(doc.paragraphs)
        /\ Len(doc.paragraphs) \in Nat
    BY <1>1, SectionEnds, ParagraphFacts DEF LastOf, Headings
  <2>4. LoopsOK'
    BY <1>1, <1>5, <2>1, <2>3, DocFrame DEF LoopsOK, InSection, Sectioning
  <2>5. BlocksReach(Unblocked - 1)'
    <3>1. Unblocked' = turn /\ section' = turn /\ blocks' = <<>>
      BY <1>1, <1>5 DEF Unblocked
    <3>2. section' .. Unblocked' - 1 = {} /\ DOMAIN blocks' = {}
      BY <1>2, <3>1
    <3> QED BY <3>2, Zenon DEF BlocksReach
  <2>6. BlocksOK'
    BY <1>1, <2>1, <2>5 DEF BlocksOK
  <2>7. SplitOK'
    BY <2>1 DEF SplitOK, Splitting
  <2> QED BY <2>2, <2>4, <2>6, <2>7 DEF Base
<1> QED BY <1>4, <1>5 DEF Section

\* One more paragraph: it is kept back while a fence is open, or ends a block.
LEMMA BaseGroup ==
  ASSUME Base, Group
  PROVE  Base'
<1> DEFINE last == LastOf(section)
           first == IF open = 0 THEN turn ELSE open
           block == <<doc.paragraphs[first].from, doc.paragraphs[turn].to>>
           P == doc.paragraphs
<1>1. /\ stage = "group" /\ Phase = "group" /\ turn <= last /\ turn' = turn + 1
      /\ stage' = "group" /\ Phase' = "group"
      /\ doc' = doc /\ config' = config /\ section' = section /\ stack' = stack
      /\ refined' = refined /\ accumulated' = accumulated /\ page' = page /\ span' = span
      /\ user' = user /\ at' = at /\ pieces' = pieces /\ chunks' = chunks
  BY DEF Group, outline, split, Phase
<1>2. inside' = (inside # P[turn].odd)
  BY DEF Group, FenceOpen
<1>3. \/ inside' /\ turn < last /\ open' = first /\ blocks' = blocks
      \/ ~(inside' /\ turn < last) /\ open' = 0 /\ blocks' = Append(blocks, block)
  BY DEF Group
<1>4. TypeOK /\ LoopsOK /\ IsDocument(doc)
  BY InputFacts DEF Base
<1>5. /\ section \in Headings /\ turn \in section .. last + 1 /\ ByHeadings
      /\ refined = <<>> /\ accumulated = <<>>
  BY <1>1, <1>4 DEF LoopsOK, InSection, Sectioning
<1>6. /\ section \in 1 .. Len(P) /\ last \in section .. Len(P) /\ turn \in section .. last
      /\ Len(P) \in Nat /\ turn \in Nat /\ section \in Nat /\ last \in Nat
      /\ turn \in 1 .. Len(P)
  BY <1>1, <1>4, <1>5, SectionEnds, ParagraphFacts
<1>7. /\ open # 0 => open \in section .. turn - 1
      /\ (turn <= last => (inside <=> open # 0))
      /\ BlocksReach(first - 1)
  BY <1>1 DEF Base, BlocksOK, Unblocked
<1>8. first \in section .. turn /\ first \in Nat /\ first \in 1 .. Len(P) /\ (open = 0 => first = turn)
  BY <1>6, <1>7
<1>9. block \in Piece
  BY <1>4, <1>6, <1>8, ParagraphFacts DEF Piece
<1>10. TypeOK'
  <2>1. blocks' \in Seq(Piece)
    <3> HIDE DEF block
    <3>1. blocks \in Seq(Piece)
      BY <1>4 DEF TypeOK
    <3>2. Append(blocks, block) \in Seq(Piece)
      BY <1>9, <3>1, AppendFacts
    <3> QED BY <1>3, <3>1, <3>2
  <2>2. open' \in Nat /\ inside' \in BOOLEAN
    BY <1>2, <1>3, <1>8
  <2> HIDE DEF first, block
  <2> QED BY <1>1, <1>4, <1>6, <2>1, <2>2 DEF TypeOK
<1>11. LoopsOK'
  <2>1. LastOf(section)' = last /\ Headings' = Headings /\ ByHeadings' = ByHeadings
    BY <1>1, DocFrame
  <2> HIDE DEF last
  <2> QED BY <1>1, <1>5, <1>6, <2>1 DEF LoopsOK, InSection, Sectioning
<1>12. SplitOK'
  BY <1>1 DEF SplitOK, Splitting
<1>13. \A n \in DOMAIN blocks : blocks[n][2] < P[first].from
  <2> SUFFICES ASSUME NEW n \in DOMAIN blocks PROVE blocks[n][2] < P[first].from
    OBVIOUS
  <2>1. PICK a \in section .. first - 1, b \in section .. first - 1 :
             a <= b /\ blocks[n] = <<P[a].from, P[b].to>>
    BY <1>7 DEF BlocksReach
  <2>2. b \in 1 .. Len(P) /\ first \in 1 .. Len(P) /\ b < first
    BY <1>6, <1>8, <2>1
  <2>3. P[b].to < P[first].from
    BY <1>4, <2>2, ParagraphsInOrder
  <2> QED BY <2>1, <2>3
<1>14. ASSUME open' = 0, blocks' = Append(blocks, block)
       PROVE  BlocksReach(Unblocked - 1)'
  <2> DEFINE n == Len(blocks)
  <2> HIDE DEF block
  <2>1. /\ blocks \in Seq(Piece) /\ n \in Nat /\ DOMAIN blocks = 1 .. n
        /\ DOMAIN blocks' = 1 .. n + 1 /\ blocks'[n + 1] = block
        /\ \A k \in 1 .. n : blocks'[k] = blocks[k]
    <3>1. blocks \in Seq(Piece)
      BY <1>4 DEF TypeOK
    <3> QED BY <1>9, <1>14, <3>1, AppendFacts
  <2> HIDE DEF n
  <2> USE DEF block
  <2>2. \A m \in DOMAIN blocks' : \E a, b \in section .. turn :
          a <= b /\ blocks'[m] = <<P[a].from, P[b].to>>
    <3> SUFFICES ASSUME NEW m \in 1 .. n + 1
                 PROVE \E a, b \in section .. turn : a <= b /\ blocks'[m] = <<P[a].from, P[b].to>>
      BY <2>1
    <3>1. CASE m \in 1 .. n
      <4>1. PICK a \in section .. first - 1, b \in section .. first - 1 :
             a <= b /\ blocks[m] = <<P[a].from, P[b].to>>
        BY <1>7, <2>1, <3>1 DEF BlocksReach
      <4>2. a \in section .. turn /\ b \in section .. turn
        BY <1>6, <1>8, <4>1
      <4> QED BY <2>1, <3>1, <4>1, <4>2
    <3>2. CASE m = n + 1
      BY <1>6, <1>8, <2>1, <3>2
    <3> QED BY <2>1, <3>1, <3>2
  <2>3. \A i, m \in DOMAIN blocks' : i < m => blocks'[i][2] < blocks'[m][1]
    <3> SUFFICES ASSUME NEW i \in 1 .. n + 1, NEW m \in 1 .. n + 1, i < m
                 PROVE blocks'[i][2] < blocks'[m][1]
      BY <2>1
    <3>1. CASE m \in 1 .. n
      <4>1. i \in 1 .. n /\ i < m
        BY <2>1, <3>1
      <4>2. blocks[i][2] < blocks[m][1]
        BY <1>7, <2>1, <3>1, <4>1 DEF BlocksReach
      <4> QED BY <2>1, <3>1, <4>1, <4>2
    <3>2. CASE m = n + 1
      BY <1>13, <2>1, <3>2
    <3> QED BY <2>1, <3>1, <3>2
  <2>4. \A k \in section .. turn : \E m \in DOMAIN blocks' :
          blocks'[m][1] <= P[k].from /\ P[k].to <= blocks'[m][2]
    <3> SUFFICES ASSUME NEW k \in section .. turn
                 PROVE  \E m \in 1 .. n + 1 : blocks'[m][1] <= P[k].from /\ P[k].to <= blocks'[m][2]
      BY <2>1
    <3>1. CASE k <= first - 1
      <4>1. k \in section .. first - 1
        BY <1>6, <1>8, <3>1
      <4>2. PICK m \in 1 .. n : blocks[m][1] <= P[k].from /\ P[k].to <= blocks[m][2]
        BY <1>7, <2>1, <4>1 DEF BlocksReach
      <4> QED BY <2>1, <4>2
    <3>2. CASE k >= first
      <4>1. k \in 1 .. Len(P) /\ first \in 1 .. Len(P) /\ turn \in 1 .. Len(P) /\ k \in Nat
        BY <1>6, <1>8
      <4>2. P[first].from <= P[k].from
        <5>1. CASE first = k
          BY <1>4, <4>1, <5>1, ParagraphFacts
        <5>2. CASE first < k
          <6>1. P[first].to < P[k].from
            BY <1>4, <4>1, <5>2, ParagraphsInOrder
          <6> QED BY <1>4, <4>1, <6>1, ParagraphFacts
        <5> QED BY <1>8, <3>2, <4>1, <5>1, <5>2
      <4>3. P[k].to <= P[turn].to
        <5>1. CASE k = turn
          BY <1>4, <4>1, <5>1, ParagraphFacts
        <5>2. CASE k < turn
          <6>1. P[k].to < P[turn].from
            BY <1>4, <4>1, <5>2, ParagraphsInOrder
          <6> QED BY <1>4, <4>1, <6>1, ParagraphFacts
        <5> QED BY <1>6, <4>1, <5>1, <5>2
      <4> QED BY <2>1, <4>2, <4>3
    <3> QED BY <1>6, <1>8, <3>1, <3>2
  <2>5. Unblocked' - 1 = turn
    BY <1>1, <1>6, <1>14 DEF Unblocked
  <2> HIDE DEF block, first
  <2> QED BY <1>1, <2>2, <2>3, <2>4, <2>5 DEF BlocksReach
<1>15. ASSUME inside', turn < last, open' = first, blocks' = blocks
       PROVE  BlocksReach(Unblocked - 1)'
  <2>1. Unblocked' = first
    BY <1>6, <1>8, <1>15 DEF Unblocked
  <2> HIDE DEF first
  <2> QED BY <1>1, <1>7, <1>15, <2>1 DEF BlocksReach
<1>16. BlocksOK'
  <2>1. LastOf(section)' = last
    BY <1>1, DocFrame
  <2>2. CASE inside' /\ turn < last /\ open' = first /\ blocks' = blocks
    <3>1. BlocksReach(Unblocked - 1)'
      BY <1>15, <2>2
    <3>2. open' \in section' .. turn' - 1 /\ turn' <= last /\ open' # 0
      BY <1>1, <1>6, <1>8, <2>2
    <3> HIDE DEF first, last
    <3> QED BY <1>1, <2>1, <2>2, <3>1, <3>2 DEF BlocksOK
  <2>3. CASE ~(inside' /\ turn < last) /\ open' = 0 /\ blocks' = Append(blocks, block)
    <3>1. BlocksReach(Unblocked - 1)'
      BY <1>14, <2>3
    <3>2. turn' <= last => ~inside'
      BY <1>1, <1>6, <2>3
    <3> HIDE DEF first, last, block
    <3> QED BY <1>1, <2>1, <2>3, <3>1, <3>2 DEF BlocksOK
  <2> QED BY <1>3, <2>2, <2>3
<1> QED BY <1>10, <1>11, <1>12, <1>16 DEF Base

\* All paragraphs of the section are in blocks: the first is split.
LEMMA BaseGrouped ==
  ASSUME Base, Grouped
  PROVE  Base'
<1>1. /\ stage = "group" /\ Phase = "group" /\ turn > LastOf(section)
      /\ inside' = FALSE /\ turn' = 1 /\ Split(blocks[1], "refine")
      /\ doc' = doc /\ config' = config /\ section' = section /\ stack' = stack
      /\ open' = open /\ blocks' = blocks /\ refined' = refined /\ accumulated' = accumulated
      /\ page' = page /\ chunks' = chunks
  BY DEF Grouped, outline, Phase
<1>2. TypeOK /\ LoopsOK /\ BlocksOK /\ IsDocument(doc)
  BY InputFacts DEF Base
<1>3. /\ section \in Headings /\ turn \in section .. LastOf(section) + 1 /\ ByHeadings
      /\ refined = <<>> /\ accumulated = <<>>
  BY <1>1, <1>2 DEF LoopsOK, InSection, Sectioning
<1>4. section \in Nat /\ LastOf(section) \in Nat /\ section <= LastOf(section)
  BY <1>2, <1>3, SectionEnds, ParagraphFacts
<1>5. open = 0 /\ turn = LastOf(section) + 1
  BY <1>1, <1>2, <1>3, <1>4 DEF BlocksOK
<1>6. BlocksReach(LastOf(section))
  <2>1. Unblocked - 1 = LastOf(section)
    BY <1>4, <1>5 DEF Unblocked
  <2>2. BlocksReach(Unblocked - 1)
    BY <1>1, <1>2 DEF BlocksOK
  <2> QED BY <2>1, <2>2
<1>7. 1 \in DOMAIN blocks /\ blocks[1] \in Piece
  <2>1. \E n \in DOMAIN blocks : TRUE
    BY <1>4, <1>6 DEF BlocksReach
  <2>2. blocks \in Seq(Piece)
    BY <1>2 DEF TypeOK
  <2> QED BY <2>1, <2>2, SeqFacts
<1>8. SplitOK' /\ stage' = "split" /\ user' = "refine" /\ Phase' = "refine"
      /\ span' = blocks[1] /\ pieces' = <<>> /\ at' = blocks[1][1]
  BY <1>1, <1>7, SplitStarts DEF Split, Splitting, Phase
<1>9. TypeOK'
  <2>1. blocks[1][1] \in Int /\ <<>> \in Seq(Piece)
    BY <1>7 DEF Piece
  <2>2. /\ stage' \in Stages /\ user' \in Splitting \union {"none"} /\ turn' \in Nat \ {0}
    BY <1>1, <1>8 DEF Stages, Splitting
  <2>4. inside' \in BOOLEAN
    BY <1>1, Zenon
  <2>3. span' \in Piece /\ at' \in Int /\ pieces' \in Seq(Piece)
    BY <1>7, <1>8, <2>1
  <2> QED BY <1>1, <1>2, <2>2, <2>3, <2>4 DEF TypeOK
<1>10. LoopsOK'
  BY <1>1, <1>3, <1>5, <1>7, <1>8, DocFrame DEF LoopsOK, InSection, Sectioning
<1>11. BlocksOK'
  <2>1. BlocksReach(LastOf(section))'
    BY <1>1, <1>6, DocFrame, BlocksFrame
  <2> QED BY <1>8, <2>1 DEF BlocksOK
<1> QED BY <1>8, <1>9, <1>10, <1>11 DEF Base

\* The pieces of a block, and the split of the next.
LEMMA BaseRefine ==
  ASSUME Base, Refine
  PROVE  Base'
<1>1. /\ stage = "refine" /\ Phase = "refine" /\ refined' = refined \o pieces
      /\ doc' = doc /\ config' = config /\ section' = section /\ stack' = stack
      /\ open' = open /\ inside' = inside /\ blocks' = blocks /\ accumulated' = accumulated
      /\ page' = page /\ chunks' = chunks
  BY DEF Refine, outline, fence, Phase
<1>2. TypeOK /\ LoopsOK /\ BlocksOK
  BY DEF Base
<1>3. section \in Headings /\ ByHeadings /\ turn \in DOMAIN blocks /\ accumulated = <<>>
      /\ open = 0 /\ ~inside
  BY <1>1, <1>2 DEF LoopsOK, InSection, Sectioning
<1>4. refined' \in Seq(Piece)
  BY <1>1, <1>2 DEF TypeOK
<1>5. CASE turn < Len(blocks) /\ turn' = turn + 1 /\ Split(blocks[turn'], "refine")
  <2>1. turn' \in DOMAIN blocks /\ turn' \in Nat \ {0} /\ blocks[turn'] \in Piece
    <3>1. blocks \in Seq(Piece) /\ turn \in Nat
      BY <1>2 DEF TypeOK
    <3> QED BY <1>3, <1>5, <3>1, SeqFacts
  <2>2. PICK t \in DOMAIN blocks : t = turn'
    BY <2>1
  <2>3. Split(blocks[t], "refine") /\ blocks[t] \in Piece
    BY <1>5, <2>1, <2>2 DEF Split
  <2>4. SplitOK' /\ stage' = "split" /\ user' = "refine" /\ Phase' = "refine"
        /\ span' = blocks[t] /\ pieces' = <<>> /\ at' = blocks[t][1]
    BY <2>3, SplitStarts DEF Split, Splitting, Phase
  <2>5. TypeOK'
    <3>1. blocks[t][1] \in Int /\ <<>> \in Seq(Piece)
      BY <2>3 DEF Piece
    <3> QED BY <1>1, <1>2, <1>4, <2>1, <2>3, <2>4, <3>1 DEF TypeOK, Stages, Splitting
  <2>6. LoopsOK'
    BY <1>1, <1>3, <2>1, <2>2, <2>4, DocFrame DEF LoopsOK, InSection, Sectioning
  <2>7. BlocksOK'
    <3>1. BlocksReach(LastOf(section))'
      BY <1>1, <1>2, DocFrame, BlocksFrame DEF BlocksOK
    <3> QED BY <2>4, <3>1 DEF BlocksOK
  <2> QED BY <2>4, <2>5, <2>6, <2>7 DEF Base
<1>6. CASE turn' = 1 /\ stage' = "accumulate" /\ UNCHANGED split
  <2>1. Phase' = "accumulate"
    BY <1>6 DEF Phase
  <2>2. TypeOK'
    BY <1>1, <1>2, <1>4, <1>6 DEF TypeOK, split, Stages, Sectioning
  <2>3. LoopsOK'
    <3>1. Len(refined') \in Nat
      BY <1>4, SeqFacts
    <3>2. turn' \in 1 .. Len(refined') + 1
      BY <1>6, <3>1
    <3> QED BY <1>1, <1>3, <1>6, <2>1, <3>2, DocFrame DEF LoopsOK, InSection, Sectioning
  <2>4. BlocksOK' /\ SplitOK'
    BY <2>1 DEF BlocksOK, SplitOK, Splitting
  <2> QED BY <2>2, <2>3, <2>4 DEF Base
<1> QED BY <1>5, <1>6 DEF Refine

\* A block is joined, or begins the next chunk.
LEMMA BaseAccumulate ==
  ASSUME Base, Accumulate
  PROVE  Base'
<1>1. /\ stage = "accumulate" /\ stage' = "accumulate" /\ Phase = "accumulate"
      /\ Phase' = "accumulate" /\ turn <= Len(refined) /\ turn' = turn + 1
      /\ doc' = doc /\ config' = config /\ section' = section /\ stack' = stack
      /\ open' = open /\ inside' = inside /\ blocks' = blocks /\ refined' = refined
      /\ page' = page /\ span' = span /\ at' = at /\ pieces' = pieces /\ user' = user
  BY DEF Accumulate, outline, fence, split, Phase
<1>2. TypeOK /\ LoopsOK
  BY DEF Base
<1>3. turn \in Nat \ {0} /\ Len(refined) \in Nat /\ refined[turn] \in Piece
  <2>1. refined \in Seq(Piece) /\ turn \in Nat \ {0}
    BY <1>2 DEF TypeOK
  <2> QED BY <1>1, <2>1, SeqFacts
<1>4. accumulated' \in Seq(Piece) /\ chunks' \in Seq(ChunkRecord)
  <2>1. accumulated \in Seq(Piece) /\ chunks \in Seq(ChunkRecord) /\ stack \in Seq(Nat)
    BY <1>2 DEF TypeOK
  <2>2. Append(accumulated, refined[turn]) \in Seq(Piece) /\ <<refined[turn]>> \in Seq(Piece)
    BY <1>3, <2>1, AppendFacts
  <2>3. Chunk(1, accumulated, stack) \in ChunkRecord
    <3>1. 1 \in Nat \ {0}
      OBVIOUS
    <3> QED BY <1>2, <2>1, <3>1, ChunkType
  <2>4. Append(chunks, Chunk(1, accumulated, stack)) \in Seq(ChunkRecord)
    BY <2>1, <2>3, AppendFacts
  <2> QED BY <2>1, <2>2, <2>4 DEF Accumulate
<1>5. TypeOK'
  BY <1>1, <1>2, <1>3, <1>4 DEF TypeOK
<1>6. LoopsOK'
  BY <1>1, <1>2, <1>3, DocFrame DEF LoopsOK, InSection, Sectioning
<1>7. BlocksOK' /\ SplitOK'
  BY <1>1 DEF BlocksOK, SplitOK, Splitting
<1> QED BY <1>5, <1>6, <1>7 DEF Base

\* The last chunk of a section.
LEMMA BaseEndOfSection ==
  ASSUME Base, EndOfSection
  PROVE  Base'
<1>1. /\ stage = "accumulate" /\ Phase = "accumulate"
      /\ chunks' = chunks \o <<Chunk(1, accumulated, stack)>>
      /\ accumulated' = <<>> /\ blocks' = <<>> /\ refined' = <<>>
      /\ doc' = doc /\ config' = config /\ section' = section /\ stack' = stack
      /\ open' = open /\ inside' = inside
      /\ page' = page /\ span' = span /\ at' = at /\ pieces' = pieces /\ user' = user
      /\ NextSection(section)
  BY DEF EndOfSection, outline, split, Phase, Rest
<1>2. TypeOK /\ LoopsOK /\ IsDocument(doc) /\ section \in Headings /\ ByHeadings
      /\ open = 0 /\ ~inside
  BY <1>1, InputFacts DEF Base, LoopsOK, InSection, Sectioning
<1>3. /\ turn' \in Nat \ {0} /\ stage' \in {"done", "section"} /\ Phase' = stage'
      /\ stage' = "section" => turn' \in Headings
  BY <1>1, <1>2, NextSectionFacts DEF Phase
<1>4. chunks' \in Seq(ChunkRecord)
  <2>1. accumulated \in Seq(Piece) /\ chunks \in Seq(ChunkRecord) /\ stack \in Seq(Nat)
        /\ 1 \in Nat \ {0}
    BY <1>2 DEF TypeOK
  <2>2. Chunk(1, accumulated, stack) \in ChunkRecord
    BY <1>2, <2>1, ChunkType
  <2> QED BY <1>1, <2>1, <2>2
<1>5. TypeOK'
  BY <1>1, <1>2, <1>3, <1>4 DEF TypeOK, Stages, Sectioning
<1>6. LoopsOK'
  BY <1>1, <1>2, <1>3, DocFrame DEF LoopsOK, InSection, Sectioning
<1>7. BlocksOK' /\ SplitOK'
  BY <1>3 DEF BlocksOK, SplitOK, Splitting
<1> QED BY <1>5, <1>6, <1>7 DEF Base

\* A part between page markers.
LEMMA BasePagePart ==
  ASSUME Base, PagePart
  PROVE  Base'
<1>1. /\ stage = "page" /\ Phase = "page" /\ turn <= Len(doc.parts) /\ turn' = turn + 1
      /\ doc' = doc /\ config' = config /\ section' = section /\ stack' = stack
      /\ open' = open /\ inside' = inside /\ blocks' = blocks /\ refined' = refined
      /\ accumulated' = accumulated /\ chunks' = chunks
  BY DEF PagePart, outline, fence, Phase
<1>2. TypeOK /\ LoopsOK /\ IsDocument(doc) /\ ByPages
  BY <1>1, InputFacts DEF Base, LoopsOK
<1>3. turn \in Nat \ {0} /\ turn \in DOMAIN doc.parts /\ turn' \in Nat \ {0} /\ turn' - 1 = turn
  <2>1. doc.parts \in Seq([from : Nat, to : Nat, number : Nat])
    BY <1>2 DEF IsDocument
  <2>2. Len(doc.parts) \in Nat /\ DOMAIN doc.parts = 1 .. Len(doc.parts)
    BY <2>1, SeqFacts, Zenon
  <2>3. turn \in Nat \ {0}
    BY <1>2 DEF TypeOK
  <2> QED BY <1>1, <2>2, <2>3
<1>4. /\ doc.parts[turn].from \in Nat /\ doc.parts[turn].to \in Nat /\ doc.parts[turn].number \in Nat
  BY <1>2, <1>3, PartFacts
<1>5. CASE page' \in Nat /\ UNCHANGED <<stage, split>>
  <2>1. Phase' = "page"
    BY <1>1, <1>5 DEF Phase
  <2>2. TypeOK'
    BY <1>1, <1>2, <1>3, <1>5 DEF TypeOK, split
  <2>3. LoopsOK'
    BY <1>1, <1>2, <1>5, <2>1, DocFrame DEF LoopsOK, InSection, Sectioning, split
  <2>4. BlocksOK' /\ SplitOK'
    BY <2>1 DEF BlocksOK, SplitOK, Splitting
  <2> QED BY <2>2, <2>3, <2>4 DEF Base
<1>6. CASE /\ HasText(turn) /\ page' = page
           /\ Split(<<doc.parts[turn].from, doc.parts[turn].to>>, "emit")
  <2> DEFINE text == <<doc.parts[turn].from, doc.parts[turn].to>>
  <2>1. text \in Piece /\ text[1] \in Int
    BY <1>4 DEF Piece
  <2>2. SplitOK' /\ stage' = "split" /\ user' = "emit" /\ Phase' = "emit"
        /\ span' = text /\ pieces' = <<>> /\ at' = text[1]
    <3> HIDE DEF text
    <3>1. Split(text, "emit")
      BY <1>6 DEF text
    <3> QED BY <2>1, <3>1, SplitStarts DEF Split, Splitting, Phase
  <2>3. TypeOK'
    <3> HIDE DEF text
    <3>1. <<>> \in Seq(Piece)
      OBVIOUS
    <3> QED BY <1>1, <1>2, <1>3, <1>6, <2>1, <2>2, <3>1 DEF TypeOK, Stages, Splitting
  <2>4. LoopsOK'
    <3>1. PICK t \in DOMAIN doc.parts : t = turn
      BY <1>3
    <3>2. HasText(t)' /\ turn' - 1 = t /\ span' = <<doc'.parts[t].from, doc'.parts[t].to>>
          /\ t \in DOMAIN doc'.parts
      BY <1>1, <1>3, <1>6, <2>2, <3>1 DEF HasText
    <3>3. HasText(turn - 1)'
      BY <3>2 DEF HasText
    <3> HIDE DEF text
    <3> QED BY <1>1, <1>2, <2>2, <3>2, <3>3, DocFrame DEF LoopsOK, InSection, Sectioning
  <2>5. BlocksOK'
    BY <2>2 DEF BlocksOK
  <2> QED BY <2>2, <2>3, <2>4, <2>5 DEF Base
<1>7. page \in Nat
  BY <1>2 DEF TypeOK
<1>8. \/ page' \in Nat /\ UNCHANGED <<stage, split>>
      \/ /\ HasText(turn) /\ page' = page
         /\ Split(<<doc.parts[turn].from, doc.parts[turn].to>>, "emit")
  BY <1>4, <1>7 DEF PagePart, Marked, HasText
<1> QED BY <1>5, <1>6, <1>8

\* The pieces of a page, or of the whole text, are chunks.
LEMMA BaseEmit ==
  ASSUME Base, Emit
  PROVE  Base'
<1>1. /\ stage \in {"emit", "fallback"} /\ Phase = stage
      /\ chunks' = chunks \o [i \in DOMAIN pieces |-> Chunk(i, <<pieces[i]>>, <<>>)]
      /\ turn' = turn /\ doc' = doc /\ config' = config /\ section' = section /\ stack' = stack
      /\ open' = open /\ inside' = inside /\ blocks' = blocks /\ refined' = refined
      /\ accumulated' = accumulated
      /\ span' = span /\ at' = at /\ pieces' = pieces /\ user' = user
  BY DEF Emit, outline, fence, split, Phase
<1>2. TypeOK /\ LoopsOK
  BY DEF Base
<1>3. chunks' \in Seq(ChunkRecord)
  <2>1. chunks \in Seq(ChunkRecord) /\ pieces \in Seq(Piece) /\ <<>> \in Seq(Nat)
    BY <1>2 DEF TypeOK
  <2>2. ASSUME NEW i \in DOMAIN pieces PROVE Chunk(i, <<pieces[i]>>, <<>>) \in ChunkRecord
    <3>1. i \in Nat \ {0} /\ <<pieces[i]>> \in Seq(Piece)
      BY <2>1, SeqFacts
    <3> QED BY <1>2, <2>1, <3>1, ChunkType
  <2> DEFINE added == [i \in DOMAIN pieces |-> Chunk(i, <<pieces[i]>>, <<>>)]
  <2>3. added \in Seq(ChunkRecord)
    <3>1. DOMAIN pieces = 1 .. Len(pieces) /\ Len(pieces) \in Nat
      BY <2>1, SeqFacts
    <3>2. added \in [1 .. Len(pieces) -> ChunkRecord]
      BY <2>2, <3>1
    <3> HIDE DEF added
    <3> QED BY <3>1, <3>2
  <2> HIDE DEF added
  <2>4. chunks \o added \in Seq(ChunkRecord)
    BY <2>1, <2>3
  <2> QED BY <1>1, <2>4 DEF added
<1>4. \/ stage = "emit" /\ stage' = "page" /\ page' = page + 1
      \/ stage = "fallback" /\ stage' = "done" /\ page' = page
  BY <1>1 DEF Emit, PageAfter
<1>5. Phase' = stage' /\ page' \in Nat
  BY <1>2, <1>4 DEF Phase, TypeOK
<1>6. TypeOK'
  BY <1>1, <1>2, <1>3, <1>4, <1>5 DEF TypeOK, Stages
<1>7. LoopsOK'
  BY <1>1, <1>2, <1>4, <1>5, DocFrame DEF LoopsOK, InSection, Sectioning
<1>8. BlocksOK' /\ SplitOK'
  BY <1>4, <1>5 DEF BlocksOK, SplitOK, Splitting
<1> QED BY <1>6, <1>7, <1>8 DEF Base

\* The end of the pages, or the fallback.
LEMMA BaseEndOfPages ==
  ASSUME Base, EndOfPages
  PROVE  Base'
<1>1. /\ stage = "page" /\ Phase = "page"
      /\ turn' = turn /\ doc' = doc /\ config' = config /\ section' = section /\ stack' = stack
      /\ open' = open /\ inside' = inside /\ blocks' = blocks /\ refined' = refined
      /\ accumulated' = accumulated /\ page' = page /\ chunks' = chunks
  BY DEF EndOfPages, outline, fence, Phase
<1>2. TypeOK /\ LoopsOK /\ IsDocument(doc) /\ ByPages /\ ~ByHeadings
  BY <1>1, InputFacts DEF Base, LoopsOK, ByPages, ByHeadings
<1>3. CASE stage' = "done" /\ UNCHANGED split
  <2>1. Phase' = "done"
    BY <1>3 DEF Phase
  <2>2. TypeOK'
    BY <1>1, <1>2, <1>3 DEF TypeOK, split, Stages
  <2>3. LoopsOK' /\ BlocksOK' /\ SplitOK'
    BY <1>3, <2>1 DEF LoopsOK, BlocksOK, SplitOK, InSection, Sectioning, Splitting
  <2> QED BY <2>2, <2>3 DEF Base
<1>4. CASE chunks = <<>> /\ Split(<<1, doc.length>>, "fallback")
  <2>1. <<1, doc.length>> \in Piece
    BY <1>2 DEF IsDocument, Piece
  <2>2. Phase' = "fallback" /\ SplitOK'
    BY <1>4, <2>1, SplitStarts DEF Phase, Split, Splitting
  <2>3. TypeOK'
    BY <1>1, <1>2, <1>4, <2>1 DEF TypeOK, Split, Stages, Splitting
  <2>4. LoopsOK'
    BY <1>1, <1>2, <1>4, <2>2, DocFrame DEF LoopsOK, InSection, Sectioning, Split
  <2> QED BY <2>2, <2>3, <2>4 DEF Base, BlocksOK
<1> QED BY <1>3, <1>4 DEF EndOfPages

\* A step of another kind.
LEMMA BaseUnchanged ==
  ASSUME Base, UNCHANGED vars
  PROVE  Base'
<1>1. /\ turn' = turn /\ doc' = doc /\ config' = config /\ section' = section /\ stack' = stack
      /\ open' = open /\ inside' = inside /\ blocks' = blocks /\ refined' = refined
      /\ accumulated' = accumulated /\ page' = page /\ chunks' = chunks
      /\ span' = span /\ at' = at /\ pieces' = pieces /\ user' = user /\ stage' = stage
  BY DEF vars
<1>2. Phase' = Phase
  BY <1>1 DEF Phase
<1>3. TypeOK'
  BY <1>1 DEF Base, TypeOK
<1>4. LoopsOK'
  <2>1. PICK t \in Nat : t = turn
    BY DEF Base, TypeOK
  <2>2. HasText(t - 1)' = HasText(t - 1)
    BY <1>1, DocFrame
  <2>3. HasText(turn - 1)' = HasText(turn - 1)
    BY <1>1 DEF HasText
  <2> QED BY <1>1, <1>2, <2>3, DocFrame DEF Base, LoopsOK
<1>5. BlocksOK'
  BY <1>1, <1>2, DocFrame DEF Base, BlocksOK, BlocksReach, Unblocked
<1>6. SplitOK'
  BY <1>1, <1>2 DEF Base, SplitOK, Within, Short, Sorted, Covers, Size
<1> QED BY <1>3, <1>4, <1>5, <1>6 DEF Base

\* Base is an invariant.
THEOREM BaseInvariant == Spec => []Base
<1>1. Init => Base
  BY BaseInit
<1>2. Base /\ [Next]_vars => Base'
  BY BaseStart, BaseWindow, BaseOverrun, BaseSection, BaseGroup, BaseGrouped, BaseRefine,
     BaseAccumulate, BaseEndOfSection, BasePagePart, BaseEmit, BaseEndOfPages, BaseUnchanged,
     Zenon DEF Next, Step, Finished
<1> QED BY <1>1, <1>2, PTL DEF Spec

-------------------------------------------------------------------------------
(* Blocks that are too long are split: size, order and coverage survive *)

\* Two sequences, one after the other.
LEMMA ConcatFacts ==
  ASSUME NEW S, NEW s \in Seq(S), NEW t \in Seq(S)
  PROVE  /\ s \o t \in Seq(S) /\ Len(s) \in Nat /\ Len(t) \in Nat
         /\ DOMAIN s = 1 .. Len(s) /\ DOMAIN t = 1 .. Len(t)
         /\ DOMAIN (s \o t) = 1 .. Len(s) + Len(t) /\ Len(s \o t) = Len(s) + Len(t)
         /\ \A i \in 1 .. Len(s) : (s \o t)[i] = s[i]
         /\ \A i \in 1 .. Len(t) : (s \o t)[Len(s) + i] = t[i]
         /\ \A i \in 1 .. Len(s) + Len(t) :
              i \in 1 .. Len(s) \/ (i - Len(s) \in 1 .. Len(t) /\ (s \o t)[i] = t[i - Len(s)])
<1>1. /\ s \o t \in Seq(S) /\ Len(s) \in Nat /\ Len(t) \in Nat
      /\ DOMAIN s = 1 .. Len(s) /\ DOMAIN t = 1 .. Len(t)
      /\ DOMAIN (s \o t) = 1 .. Len(s) + Len(t) /\ Len(s \o t) = Len(s) + Len(t)
  OBVIOUS
<1>2. \A i \in 1 .. Len(s) : (s \o t)[i] = s[i]
  OBVIOUS
<1>3. \A i \in 1 .. Len(t) : (s \o t)[Len(s) + i] = t[i]
  OBVIOUS
<1>4. \A i \in 1 .. Len(s) + Len(t) :
        i \in 1 .. Len(s) \/ (i - Len(s) \in 1 .. Len(t) /\ (s \o t)[i] = t[i - Len(s)])
  BY <1>1
<1> QED BY <1>1, <1>2, <1>3, <1>4

\* What one of two sequences covers, both cover.
LEMMA CoversMore ==
  ASSUME NEW s \in Seq(Piece), NEW t \in Seq(Piece), NEW a, NEW b,
         Covers(s, a, b) \/ Covers(t, a, b)
  PROVE  Covers(s \o t, a, b)
<1> SUFFICES ASSUME NEW x \in a .. b, x \notin doc.blank
             PROVE  \E j \in DOMAIN (s \o t) : (s \o t)[j][1] <= x /\ x <= (s \o t)[j][2]
  BY DEF Covers
<1>0. Len(s) \in Nat /\ Len(t) \in Nat /\ DOMAIN s = 1 .. Len(s) /\ DOMAIN t = 1 .. Len(t)
      /\ DOMAIN (s \o t) = 1 .. Len(s) + Len(t)
  BY ConcatFacts
<1>1. CASE Covers(s, a, b)
  <2>1. PICK j \in 1 .. Len(s) : s[j][1] <= x /\ x <= s[j][2]
    BY <1>0, <1>1 DEF Covers
  <2>2. (s \o t)[j] = s[j] /\ j \in 1 .. Len(s) + Len(t)
    BY <1>0, <2>1, ConcatFacts
  <2> QED BY <1>0, <2>1, <2>2
<1>2. CASE Covers(t, a, b)
  <2>1. PICK j \in 1 .. Len(t) : t[j][1] <= x /\ x <= t[j][2]
    BY <1>0, <1>2 DEF Covers
  <2>2. (s \o t)[Len(s) + j] = t[j] /\ Len(s) + j \in 1 .. Len(s) + Len(t)
    BY <1>0, <2>1, ConcatFacts
  <2> QED BY <1>0, <2>1, <2>2
<1> QED BY <1>1, <1>2

\* A section is a run of paragraphs from its heading on.
LEMMA SectionFacts ==
  ASSUME IsDocument(doc), NEW h \in Headings
  PROVE  /\ h \in 1 .. Len(doc.paragraphs) /\ LastOf(h) \in h .. Len(doc.paragraphs)
         /\ LastOf(h) \in 1 .. Len(doc.paragraphs)
         /\ SectionText(h) = <<doc.paragraphs[h].from, doc.paragraphs[LastOf(h)].to>>
         /\ SectionText(h)[1] = doc.paragraphs[h].from
         /\ SectionText(h)[2] = doc.paragraphs[LastOf(h)].to
         /\ SectionText(h)[1] \in Nat /\ SectionText(h)[2] \in Nat
         /\ SectionText(h)[1] >= 1 /\ SectionText(h)[1] <= SectionText(h)[2]
         /\ SectionText(h)[1] \notin doc.blank
<1>1. /\ h \in 1 .. Len(doc.paragraphs) /\ LastOf(h) \in h .. Len(doc.paragraphs)
      /\ LastOf(h) \in 1 .. Len(doc.paragraphs)
      /\ SectionText(h) = <<doc.paragraphs[h].from, doc.paragraphs[LastOf(h)].to>>
  BY SectionEnds, ParagraphFacts DEF SectionText
<1>2. doc.paragraphs[h].from <= doc.paragraphs[LastOf(h)].to
  <2>1. CASE h = LastOf(h)
    <3>1. doc.paragraphs[h].from <= doc.paragraphs[h].to
      BY <1>1, ParagraphFacts
    <3> QED BY <2>1, <3>1
  <2>2. CASE h < LastOf(h)
    <3>1. doc.paragraphs[h].to < doc.paragraphs[LastOf(h)].from
      BY <1>1, <2>2, ParagraphsInOrder
    <3> QED BY <1>1, <3>1, ParagraphFacts
  <2> QED BY <1>1, <2>1, <2>2, ParagraphFacts
<1> QED BY <1>1, <1>2, ParagraphFacts

\* The block that is split lies in its section.
LEMMA BlockFacts ==
  ASSUME IsDocument(doc), section \in Headings, BlocksReach(LastOf(section)),
         NEW n \in DOMAIN blocks
  PROVE  /\ blocks[n][1] \in Nat /\ blocks[n][2] \in Nat /\ blocks[n][1] <= blocks[n][2]
         /\ SectionText(section)[1] <= blocks[n][1] /\ blocks[n][2] <= SectionText(section)[2]
<1> DEFINE P == doc.paragraphs
           N == Len(doc.paragraphs)
<1>1. PICK a \in section .. LastOf(section), b \in section .. LastOf(section) :
        a <= b /\ blocks[n] = <<P[a].from, P[b].to>>
  BY DEF BlocksReach
<1>2. PICK h \in Headings : h = section
  OBVIOUS
<1>3. /\ h \in 1 .. N /\ LastOf(h) \in 1 .. N /\ SectionText(h)[1] = P[h].from
      /\ SectionText(h)[2] = P[LastOf(h)].to /\ h <= LastOf(h) /\ N \in Nat
  BY <1>2, SectionFacts, ParagraphFacts
<1>4. a \in 1 .. N /\ b \in 1 .. N /\ h <= a /\ b <= LastOf(h)
  BY <1>1, <1>2, <1>3
<1>5. \A i, j \in 1 .. N : i <= j => /\ P[i].from <= P[j].from /\ P[i].from <= P[j].to
                                     /\ P[i].to <= P[j].to
  <2> SUFFICES ASSUME NEW i \in 1 .. N, NEW j \in 1 .. N, i <= j
               PROVE  P[i].from <= P[j].from /\ P[i].from <= P[j].to /\ P[i].to <= P[j].to
    OBVIOUS
  <2>1. CASE i = j
    BY <2>1, ParagraphFacts
  <2>2. CASE i < j
    <3>1. P[i].to < P[j].from
      BY <2>2, ParagraphsInOrder
    <3> QED BY <3>1, ParagraphFacts
  <2> QED BY <1>3, <2>1, <2>2
<1>6. P[a].from \in Nat /\ P[b].to \in Nat
  BY <1>4, ParagraphFacts
<1> HIDE DEF P, N
<1> QED BY <1>1, <1>2, <1>3, <1>4, <1>5, <1>6

\* The pieces of one more block are in order, short, and cover it.
LEMMA RefinedAfterRefine ==
  ASSUME Base, RefinedOK, Refine
  PROVE  RefinedOK'
<1>1. /\ stage = "refine" /\ Phase = "refine" /\ refined' = refined \o pieces
      /\ doc' = doc /\ config' = config /\ section' = section /\ blocks' = blocks
  BY DEF Refine, outline, fence, Phase
<1>2. /\ IsDocument(doc) /\ section \in Headings /\ turn \in DOMAIN blocks /\ span = blocks[turn]
      /\ BlocksReach(LastOf(section)) /\ refined \in Seq(Piece) /\ pieces \in Seq(Piece)
      /\ blocks \in Seq(Piece) /\ turn \in Nat \ {0}
  BY <1>1, InputFacts DEF Base, LoopsOK, BlocksOK, InSection, TypeOK
<1>3. /\ Within(pieces, span[1], span[2]) /\ Short(pieces) /\ Sorted(pieces)
      /\ Covers(pieces, span[1], span[2])
  BY <1>1 DEF Base, SplitOK, Splitting
<1>4. /\ Within(refined, SectionText(section)[1], SectionText(section)[2])
      /\ Short(refined) /\ Sorted(refined)
      /\ \A j \in DOMAIN refined : refined[j][1] <= span[1]
      /\ \A n \in 1 .. turn - 1 : Covers(refined, blocks[n][1], blocks[n][2])
  BY <1>1 DEF RefinedOK, Refined
<1>5. /\ span[1] \in Nat /\ span[2] \in Nat /\ span[1] <= span[2]
      /\ SectionText(section)[1] <= span[1] /\ span[2] <= SectionText(section)[2]
  BY <1>2, BlockFacts
<1>6. PICK h \in Headings : h = section
  BY <1>2
<1>7. SectionText(section)[1] \in Nat /\ SectionText(section)[2] \in Nat
  BY <1>2, <1>6, SectionFacts
<1> DEFINE m == Len(refined)
           both == refined \o pieces
           first == SectionText(section)[1]
           last == SectionText(section)[2]
<1>8. /\ both \in Seq(Piece) /\ m \in Nat /\ DOMAIN refined = 1 .. m
      /\ DOMAIN both = 1 .. m + Len(pieces) /\ DOMAIN pieces = 1 .. Len(pieces)
      /\ \A i \in 1 .. m : both[i] = refined[i]
      /\ \A i \in 1 .. m + Len(pieces) :
           i \in 1 .. m \/ (i - m \in DOMAIN pieces /\ both[i] = pieces[i - m])
  <2>1. Len(pieces) \in Nat /\ DOMAIN pieces = 1 .. Len(pieces)
    BY <1>2, SeqFacts
  <2> QED BY <1>2, <2>1, ConcatFacts
<1>9. /\ \A i \in DOMAIN refined : refined[i][1] \in Int /\ refined[i][2] \in Int
      /\ \A i \in DOMAIN pieces : pieces[i][1] \in Int /\ pieces[i][2] \in Int
  BY <1>2, SeqFacts DEF Piece
<1> HIDE DEF m, both, first, last
<1>10. Within(both, first, last)
  <2> SUFFICES ASSUME NEW i \in DOMAIN both
               PROVE  first <= both[i][1] /\ both[i][1] <= both[i][2] /\ both[i][2] <= last
    BY DEF Within
  <2>1. CASE i \in 1 .. m
    BY <1>4, <1>8, <2>1 DEF Within, first, last
  <2>2. CASE i - m \in DOMAIN pieces /\ both[i] = pieces[i - m]
    <3>1. span[1] <= pieces[i - m][1] /\ pieces[i - m][1] <= pieces[i - m][2]
          /\ pieces[i - m][2] <= span[2]
          /\ pieces[i - m][1] \in Int /\ pieces[i - m][2] \in Int
      BY <1>3, <1>9, <2>2 DEF Within
    <3>2. first <= span[1] /\ span[2] <= last /\ first \in Nat /\ last \in Nat
      BY <1>5, <1>7 DEF first, last
    <3> QED BY <1>5, <2>2, <3>1, <3>2
  <2> QED BY <1>8, <2>1, <2>2
<1>11. \A i \in DOMAIN both : Size(both[i]) <= config.max
  BY <1>3, <1>4, <1>8 DEF Short
<1>12. Sorted(both)
  <2> SUFFICES ASSUME NEW i \in DOMAIN both, NEW j \in DOMAIN both, i <= j
               PROVE  both[i][1] <= both[j][1]
    BY DEF Sorted
  <2>1. CASE j \in 1 .. m
    <3>1. i \in 1 .. m
      BY <1>8, <2>1
    <3> QED BY <1>4, <1>8, <2>1, <3>1 DEF Sorted
  <2>2. CASE i \in 1 .. m /\ j - m \in DOMAIN pieces /\ both[j] = pieces[j - m]
    <3>1. both[i][1] <= span[1] /\ both[i][1] \in Int
      BY <1>4, <1>8, <1>9, <2>2
    <3>2. span[1] <= both[j][1] /\ both[j][1] \in Int
      BY <1>3, <1>9, <2>2 DEF Within
    <3> QED BY <1>5, <3>1, <3>2
  <2>3. CASE /\ i - m \in DOMAIN pieces /\ both[i] = pieces[i - m]
             /\ j - m \in DOMAIN pieces /\ both[j] = pieces[j - m]
    <3>1. i - m <= j - m
      BY <1>8
    <3> QED BY <1>3, <2>3, <3>1 DEF Sorted
  <2> QED BY <1>8, <2>1, <2>2, <2>3
<1>13. \A n \in 1 .. turn : Covers(both, blocks[n][1], blocks[n][2])
  <2> SUFFICES ASSUME NEW n \in 1 .. turn PROVE Covers(both, blocks[n][1], blocks[n][2])
    OBVIOUS
  <2>1. CASE n \in 1 .. turn - 1
    BY <1>2, <1>4, <2>1, CoversMore DEF both
  <2>2. CASE n = turn
    BY <1>2, <1>3, <2>2, CoversMore DEF both
  <2> QED BY <1>2, <2>1, <2>2
<1>14. Refined'
  BY <1>1, <1>10, <1>11, <1>12, DocFrame DEF Refined, Within, Short, Sorted, Size, both, first, last
<1>15. CASE turn < Len(blocks) /\ turn' = turn + 1 /\ Split(blocks[turn'], "refine")
  <2>1. PICK t \in DOMAIN blocks : t = turn + 1 /\ t = turn'
    BY <1>2, <1>15, SeqFacts
  <2>2. span' = blocks[t] /\ Phase' = "refine"
    BY <1>15, <2>1 DEF Split, Phase
  <2>3. /\ blocks[turn][2] < blocks[t][1] /\ blocks[t][1] \in Nat /\ turn < t
    <3>1. blocks[turn][2] < blocks[t][1]
      <4>1. turn \in DOMAIN blocks /\ turn < t
        BY <1>2, <2>1
      <4>2. \A i, n \in DOMAIN blocks : i < n => blocks[i][2] < blocks[n][1]
        BY <1>2, Zenon DEF BlocksReach
      <4> QED BY <4>1, <4>2
    <3> QED BY <1>2, <2>1, <3>1, BlockFacts
  <2>4. \A j \in DOMAIN both : both[j][1] <= blocks[t][1]
    <3> SUFFICES ASSUME NEW j \in DOMAIN both PROVE both[j][1] <= blocks[t][1]
      OBVIOUS
    <3>1. CASE j \in 1 .. m
      <4>1. both[j][1] <= span[1] /\ both[j][1] \in Int
        BY <1>4, <1>8, <1>9, <3>1
      <4> QED BY <1>2, <1>5, <2>3, <4>1
    <3>2. CASE j - m \in DOMAIN pieces /\ both[j] = pieces[j - m]
      <4>1. both[j][1] <= both[j][2] /\ both[j][2] <= span[2] /\ both[j][1] \in Int /\ both[j][2] \in Int
        BY <1>3, <1>9, <3>2 DEF Within
      <4> QED BY <1>2, <1>5, <2>3, <4>1
    <3> QED BY <1>8, <3>1, <3>2
  <2>5. /\ \A j \in DOMAIN refined' : refined'[j][1] <= span'[1]
        /\ \A n \in 1 .. turn' - 1 : Covers(refined', blocks'[n][1], blocks'[n][2])
    <3>1. turn' - 1 = turn
      BY <1>2, <2>1
    <3> QED BY <1>1, <1>13, <2>2, <2>4, <3>1 DEF both
  <2>6. \A n \in 1 .. turn' - 1 : Covers(refined, blocks[n][1], blocks[n][2])'
    BY <1>1, <2>5 DEF Covers
  <2> QED BY <1>14, <2>2, <2>5, <2>6 DEF RefinedOK
<1>16. CASE ~(turn < Len(blocks)) /\ turn' = 1 /\ stage' = "accumulate"
  <2>1. Phase' = "accumulate"
    BY <1>16 DEF Phase
  <2>2. \A n \in DOMAIN blocks : n \in 1 .. turn
    BY <1>2, <1>16, SeqFacts
  <2>3. Covers(both, first, last)
    <3> SUFFICES ASSUME NEW x \in first .. last, x \notin doc.blank
                 PROVE  \E j \in DOMAIN both : both[j][1] <= x /\ x <= both[j][2]
      BY DEF Covers
    <3> DEFINE P == doc.paragraphs
    <3>1. /\ h \in 1 .. Len(P) /\ LastOf(h) \in 1 .. Len(P)
          /\ first = P[h].from /\ last = P[LastOf(h)].to
      BY <1>2, <1>6, SectionFacts DEF first, last
    <3>2. PICK k \in h .. LastOf(h) : P[k].from <= x /\ x <= P[k].to
      BY <1>2, <3>1, InParagraph
    <3>3. PICK n \in DOMAIN blocks : blocks[n][1] <= P[k].from /\ P[k].to <= blocks[n][2]
      BY <1>2, <1>6, <3>2 DEF BlocksReach
    <3>4. blocks[n][1] \in Nat /\ blocks[n][2] \in Nat /\ x \in Nat
          /\ P[k].from \in Nat /\ P[k].to \in Nat
      <4>1. first \in Nat /\ k \in 1 .. Len(P)
        BY <1>2, <1>7, <3>1, <3>2, ParagraphFacts DEF first
      <4> QED BY <1>2, <4>1, BlockFacts, ParagraphFacts
    <3>5. x \in blocks[n][1] .. blocks[n][2]
      BY <3>2, <3>3, <3>4
    <3>6. Covers(both, blocks[n][1], blocks[n][2])
      BY <1>13, <2>2
    <3> QED BY <3>5, <3>6 DEF Covers
  <2>4. Covers(refined, SectionText(section)[1], SectionText(section)[2])'
    BY <1>1, <2>3, DocFrame DEF Covers, both, first, last
  <2> QED BY <1>14, <2>1, <2>4 DEF RefinedOK
<1> QED BY <1>15, <1>16 DEF Refine

\* The pieces of the section's blocks stay what they are in every other step.
LEMMA RefinedStep ==
  ASSUME Base, Base', RefinedOK, [Next]_vars
  PROVE  RefinedOK'
<1>1. CASE Refine
  BY <1>1, RefinedAfterRefine
<1>2. CASE Grouped
  <2>1. /\ Phase = "group" /\ Phase' = "refine" /\ turn' = 1 /\ refined' = refined
    BY <1>2 DEF Grouped, Split, Phase
  <2>2. refined' = <<>>
    BY <2>1 DEF Base, LoopsOK
  <2>3. Refined' /\ (\A j \in DOMAIN refined' : FALSE) /\ 1 .. turn' - 1 = {}
    BY <2>1, <2>2 DEF Refined, Within, Short, Sorted
  <2> QED BY <2>1, <2>3 DEF RefinedOK
<1>3. CASE Window \/ Accumulate \/ UNCHANGED vars
  <2>1. /\ doc' = doc /\ config' = config /\ section' = section /\ refined' = refined
        /\ blocks' = blocks /\ span' = span
    BY <1>3 DEF Window, Accumulate, vars, outline, fence, split
  <2>2. Phase' = Phase /\ (Phase = "refine" => turn' = turn)
    <3>1. CASE Window
      <4>1. Phase = user /\ user' = user /\ stage' \in {stage, user} /\ turn' = turn
            /\ stage = "split"
        BY <3>1 DEF Window, Phase
      <4> QED BY <4>1 DEF Phase
    <3>2. CASE Accumulate \/ UNCHANGED vars
      BY <3>2 DEF Accumulate, vars, Phase, split
    <3> QED BY <1>3, <3>1, <3>2
  <2>3. Refined' <=> Refined
    BY <2>1, DocFrame DEF Refined, Within, Short, Sorted, Size
  <2>4. Covers(refined, SectionText(section)[1], SectionText(section)[2])' <=>
          Covers(refined, SectionText(section)[1], SectionText(section)[2])
    BY <2>1, DocFrame DEF Covers
  <2>5. \A n : Covers(refined, blocks[n][1], blocks[n][2])' <=>
               Covers(refined, blocks[n][1], blocks[n][2])
    BY <2>1 DEF Covers
  <2> QED BY <2>1, <2>2, <2>3, <2>4, <2>5 DEF RefinedOK
<1>4. CASE Start \/ Overrun \/ Section \/ Group \/ EndOfSection \/ PagePart \/ Emit \/ EndOfPages
  <2>1. Phase' \notin {"refine", "accumulate"}
    BY <1>4 DEF Start, Overrun, Section, Group, EndOfSection, PagePart, Emit, EndOfPages,
                NextSection, Split, Phase
  <2> QED BY <2>1 DEF RefinedOK
<1> QED BY <1>1, <1>2, <1>3, <1>4, Zenon DEF Next, Step, Finished

\* What splitting the long blocks of a section has yielded.
THEOREM RefinedInvariant == Spec => []RefinedOK
<1>1. Init => RefinedOK
  BY DEF Init, RefinedOK, Phase
<1>2. Base /\ Base' /\ RefinedOK /\ [Next]_vars => RefinedOK'
  BY RefinedStep
<1> QED BY <1>1, <1>2, BaseInvariant, PTL DEF Spec

-------------------------------------------------------------------------------
(* Blocks are joined to chunks that fit *)

\* One short piece fits.
LEMMA PieceFits ==
  ASSUME NEW p \in Piece, Size(p) <= config.max, config.max \in Nat
  PROVE  Fitting(<<p>>)
<1>1. Total(<<p>>) = Size(p) /\ Size(p) \in Int
  BY TotalOfOne, SizeType
<1> QED BY <1>1 DEF Fitting

\* So does what is joined to it, but for the character that is not counted.
LEMMA JoinFits ==
  ASSUME NEW ps \in Seq(Piece), NEW p \in Piece, ps # <<>>, config.max \in Nat,
         Total(ps) + 1 + Size(p) <= config.max
  PROVE  Fitting(Append(ps, p))
<1>1. Total(Append(ps, p)) = Total(ps) + 2 + Size(p) /\ Total(ps) \in Int /\ Size(p) \in Int
  BY TotalOfMore, TotalType, SizeType DEF Joint
<1>2. Len(Append(ps, p)) # 1
  OBVIOUS
<1> QED BY <1>1, <1>2 DEF Fitting

\* What is accumulated begins no later than the block that is next.
LEMMA AccumulatedBegins ==
  ASSUME Base, RefinedOK, AccumulatedOK, Phase = "accumulate", turn \in DOMAIN refined,
         accumulated # <<>>
  PROVE  /\ turn # 1 /\ turn - 1 \in DOMAIN refined
         /\ SectionText(section)[1] <= accumulated[1][1]
         /\ accumulated[1][1] <= refined[turn][1]
         /\ accumulated[1][1] \in Int /\ refined[turn][1] \in Int
<1>1. refined \in Seq(Piece) /\ accumulated \in Seq(Piece) /\ turn \in Nat \ {0}
  BY DEF Base, TypeOK
<1>2. /\ turn # 1 /\ SectionText(section)[1] <= accumulated[1][1]
      /\ accumulated[1][1] <= refined[turn - 1][1]
  BY DEF AccumulatedOK
<1>3. turn - 1 \in DOMAIN refined /\ turn - 1 <= turn
  BY <1>1, <1>2, SeqFacts
<1>4. refined[turn - 1][1] <= refined[turn][1]
  BY <1>3 DEF RefinedOK, Refined, Sorted
<1>5. refined[turn - 1][1] \in Int /\ refined[turn][1] \in Int /\ accumulated[1][1] \in Int
  <2>1. refined[turn - 1] \in Piece /\ refined[turn] \in Piece
    BY <1>1, <1>3, SeqFacts
  <2>2. accumulated[1] \in Piece
    BY <1>1, SeqFacts
  <2> QED BY <2>1, <2>2 DEF Piece
<1> QED BY <1>2, <1>3, <1>4, <1>5

\* What is accumulated fits in every step.
LEMMA AccumulatedStep ==
  ASSUME Base, Base', RefinedOK, AccumulatedOK, [Next]_vars
  PROVE  AccumulatedOK'
<1>1. CASE Refine
  <2>1. Phase' = "accumulate" => turn' = 1 /\ accumulated' = accumulated /\ Phase = "refine"
    BY <1>1 DEF Refine, Split, Phase
  <2>2. Phase = "refine" => accumulated = <<>>
    BY DEF Base, LoopsOK
  <2> QED BY <2>1, <2>2 DEF AccumulatedOK
<1>2. CASE Accumulate
  <2>1. /\ Phase = "accumulate" /\ Phase' = "accumulate" /\ turn <= Len(refined) /\ turn' = turn + 1
        /\ doc' = doc /\ config' = config /\ section' = section /\ refined' = refined
    BY <1>2 DEF Accumulate, Phase, outline
  <2>2. /\ refined \in Seq(Piece) /\ accumulated \in Seq(Piece) /\ turn \in Nat \ {0}
        /\ config.max \in Nat /\ IsDocument(doc) /\ section \in Headings
    BY <2>1, InputFacts DEF Base, TypeOK, LoopsOK, InSection
  <2>3. turn \in DOMAIN refined /\ refined[turn] \in Piece /\ turn' - 1 = turn /\ turn' # 1
    BY <2>1, <2>2, SeqFacts
  <2>4. /\ Size(refined[turn]) <= config.max /\ SectionText(section)[1] <= refined[turn][1]
    BY <2>1, <2>3 DEF RefinedOK, Refined, Short, Within
  <2>5. accumulated = <<>> => turn = 1
    BY <2>1 DEF AccumulatedOK
  <2>6. accumulated # <<>> =>
          /\ turn - 1 \in DOMAIN refined
          /\ SectionText(section)[1] <= accumulated[1][1]
          /\ accumulated[1][1] <= refined[turn][1]
    BY <2>1, <2>3, AccumulatedBegins
  <2>7. SectionText(section)' = SectionText(section)
    BY <2>1, DocFrame
  <2>9. CASE Fits(refined[turn]) /\ accumulated' = Append(accumulated, refined[turn])
    <3>1. CASE accumulated = <<>>
      <4>1. accumulated' = <<refined[turn]>>
        BY <2>9, <3>1
      <4>2. Fitting(<<refined[turn]>>)
        BY <2>2, <2>3, <2>4, PieceFits
      <4>3. Fitting(accumulated)'
        BY <2>1, <4>1, <4>2 DEF Fitting
      <4>4. accumulated'[1] = refined[turn] /\ accumulated' # <<>>
        BY <4>1
      <4>5. refined[turn][1] \in Int
        BY <2>3 DEF Piece
      <4> QED BY <2>1, <2>3, <2>4, <2>7, <4>3, <4>4, <4>5 DEF AccumulatedOK
    <3>2. CASE accumulated # <<>>
      <4>1. Total(accumulated) + 1 + Size(refined[turn]) <= config.max
        BY <2>9, <3>2 DEF Fits
      <4>2. Fitting(Append(accumulated, refined[turn]))
        BY <2>2, <2>3, <3>2, <4>1, JoinFits
      <4>3. Fitting(accumulated)'
        BY <2>1, <2>9, <4>2 DEF Fitting
      <4>4. accumulated'[1] = accumulated[1] /\ accumulated' # <<>>
        <5>1. 1 \in 1 .. Len(accumulated)
          BY <2>2, <3>2
        <5>2. Append(accumulated, refined[turn])[1] = accumulated[1]
          BY <2>2, <2>3, <5>1, AppendFacts
        <5>3. Append(accumulated, refined[turn]) # <<>>
          OBVIOUS
        <5> QED BY <2>9, <5>2, <5>3
      <4> QED BY <2>1, <2>3, <2>6, <2>7, <3>2, <4>3, <4>4 DEF AccumulatedOK
    <3> QED BY <3>1, <3>2
  <2>10. CASE accumulated' = <<refined[turn]>>
    <3>1. accumulated'[1] = refined[turn] /\ accumulated' # <<>>
      BY <2>10
    <3>2. Fitting(<<refined[turn]>>)
      BY <2>2, <2>3, <2>4, PieceFits
    <3>3. Fitting(accumulated)'
      BY <2>1, <2>10, <3>2 DEF Fitting
    <3>4. refined[turn][1] \in Int
      BY <2>3 DEF Piece
    <3> QED BY <2>1, <2>3, <2>4, <2>7, <3>1, <3>3, <3>4 DEF AccumulatedOK
  <2> QED BY <1>2, <2>9, <2>10 DEF Accumulate
<1>3. CASE UNCHANGED vars
  <2>1. Phase' = Phase /\ Fitting(accumulated)' = Fitting(accumulated)
        /\ SectionText(section)' = SectionText(section)
    BY <1>3 DEF vars, Phase, Fitting, SectionText, LastOf, Headings
  <2> QED BY <1>3, <2>1 DEF vars, AccumulatedOK
<1>4. CASE Start \/ Window \/ Overrun \/ Section \/ Group \/ Grouped \/ EndOfSection
           \/ PagePart \/ Emit \/ EndOfPages
  <2>1. Phase' # "accumulate"
    <3>1. CASE Window
      <4>1. user \in Splitting
        BY <3>1 DEF Base, TypeOK, LoopsOK, Window
      <4>2. user' = user /\ stage' \in {"split", user}
        BY <3>1 DEF Window
      <4> QED BY <4>1, <4>2 DEF Phase, Splitting
    <3>2. CASE ~Window
      BY <1>4, <3>2 DEF Start, Overrun, Section, Group, Grouped, EndOfSection, PagePart, Emit,
                EndOfPages, NextSection, Split, Phase
    <3> QED BY <3>1, <3>2
  <2> QED BY <2>1 DEF AccumulatedOK
<1> QED BY <1>1, <1>2, <1>3, <1>4, Zenon DEF Next, Step, Finished

\* What is accumulated is a chunk that fits, and begins in this section.
THEOREM AccumulatedInvariant == Spec => []AccumulatedOK
<1>1. Init => AccumulatedOK
  BY DEF Init, AccumulatedOK, Phase
<1>2. Base /\ Base' /\ RefinedOK /\ AccumulatedOK /\ [Next]_vars => AccumulatedOK'
  BY AccumulatedStep
<1> QED BY <1>1, <1>2, BaseInvariant, RefinedInvariant, PTL DEF Spec

-------------------------------------------------------------------------------
(* The chunks a step adds *)

\* What Emit adds: a chunk per piece.
LEMMA EmittedChunks ==
  ASSUME Base, Emit
  PROVE  \E n, k \in Nat :
    /\ DOMAIN chunks = 1 .. n /\ DOMAIN pieces = 1 .. k /\ DOMAIN chunks' = 1 .. n + k
    /\ \A i \in 1 .. n : chunks'[i] = chunks[i]
    /\ \A i \in 1 .. n + k :
         \/ i \in 1 .. n
         \/ /\ i - n \in 1 .. k
            /\ chunks'[i] = [index |-> i - 1, pieces |-> <<pieces[i - n]>>, path |-> <<>>, page |-> page]
<1>1. chunks \in Seq(ChunkRecord) /\ pieces \in Seq(Piece) /\ TypeOK
  BY DEF Base, TypeOK
<1> DEFINE n == Len(chunks)
           k == Len(pieces)
           added == [i \in DOMAIN pieces |-> Chunk(i, <<pieces[i]>>, <<>>)]
<1>2. n \in Nat /\ k \in Nat /\ DOMAIN chunks = 1 .. n /\ DOMAIN pieces = 1 .. k
  BY <1>1, SeqFacts
<1>3. added \in Seq(ChunkRecord) /\ Len(added) = k
      /\ \A i \in 1 .. k : added[i] = Chunk(i, <<pieces[i]>>, <<>>)
  <2>1. ASSUME NEW i \in 1 .. k PROVE Chunk(i, <<pieces[i]>>, <<>>) \in ChunkRecord
    <3>1. i \in Nat \ {0} /\ <<pieces[i]>> \in Seq(Piece) /\ <<>> \in Seq(Nat)
      BY <1>1, <1>2, SeqFacts
    <3> QED BY <1>1, <3>1, ChunkType
  <2>2. added \in [1 .. k -> ChunkRecord]
    BY <1>2, <2>1
  <2>3. \A i \in 1 .. k : added[i] = Chunk(i, <<pieces[i]>>, <<>>)
    BY <1>2
  <2> HIDE DEF added, n, k
  <2> QED BY <1>2, <2>2, <2>3
<1>4. chunks' = chunks \o added
  BY DEF Emit
<1> HIDE DEF added
<1>5. /\ DOMAIN chunks' = 1 .. n + k
      /\ \A i \in 1 .. n : chunks'[i] = chunks[i]
      /\ \A i \in 1 .. n + k : i \in 1 .. n \/ (i - n \in 1 .. k /\ chunks'[i] = added[i - n])
  <2>0. chunks \in Seq(ChunkRecord) /\ added \in Seq(ChunkRecord)
    BY <1>1, <1>3
  <2> HIDE DEF n, k
  <2>1. DOMAIN (chunks \o added) = 1 .. Len(chunks) + Len(added)
    BY <2>0, ConcatFacts
  <2>3. \A i \in 1 .. Len(chunks) : (chunks \o added)[i] = chunks[i]
    BY <2>0, ConcatFacts
  <2>4. \A i \in 1 .. Len(chunks) + Len(added) :
          i \in 1 .. Len(chunks) \/
          (i - Len(chunks) \in 1 .. Len(added) /\ (chunks \o added)[i] = added[i - Len(chunks)])
    BY <2>0, ConcatFacts
  <2>2. Len(added) = k /\ Len(chunks) = n
    BY <1>3 DEF n
  <2> QED BY <1>4, <2>1, <2>2, <2>3, <2>4
<1>6. \A i \in 1 .. n + k : i - n \in 1 .. k =>
        added[i - n] = [index |-> i - 1, pieces |-> <<pieces[i - n]>>, path |-> <<>>, page |-> page]
  <2> SUFFICES ASSUME NEW i \in 1 .. n + k, i - n \in 1 .. k
               PROVE  added[i - n] = [index |-> i - 1, pieces |-> <<pieces[i - n]>>, path |-> <<>>,
                                      page |-> page]
    OBVIOUS
  <2>1. n + (i - n) - 1 = i - 1
    BY <1>2
  <2>2. added[i - n] = Chunk(i - n, <<pieces[i - n]>>, <<>>)
    BY <1>3
  <2> HIDE DEF n, k
  <2>3. Len(chunks) = n
    BY DEF n
  <2> QED BY <2>1, <2>2, <2>3 DEF Chunk
<1> HIDE DEF n, k
<1> QED BY <1>2, <1>5, <1>6

\* What the loop over sections adds: one chunk.
LEMMA AppendedChunk ==
  ASSUME Base, NEW ps \in Seq(Piece), NEW path \in Seq(Nat),
         chunks' = Append(chunks, Chunk(1, ps, path))
  PROVE  \E n \in Nat :
    /\ DOMAIN chunks = 1 .. n /\ DOMAIN chunks' = 1 .. n + 1
    /\ \A i \in 1 .. n : chunks'[i] = chunks[i]
    /\ chunks'[n + 1] = [index |-> n, pieces |-> ps, path |-> path, page |-> page]
<1>1. chunks \in Seq(ChunkRecord) /\ TypeOK /\ 1 \in Nat \ {0}
  BY DEF Base, TypeOK
<1>2. Chunk(1, ps, path) \in ChunkRecord
  BY <1>1, ChunkType
<1>3. Chunk(1, ps, path) = [index |-> Len(chunks), pieces |-> ps, path |-> path, page |-> page]
  <2>1. Len(chunks) + 1 - 1 = Len(chunks)
    BY <1>1, SeqFacts
  <2> QED BY <2>1 DEF Chunk
<1> QED BY <1>1, <1>2, <1>3, AppendFacts

\* The end of a section: something has been accumulated.
LEMMA SomethingAccumulated ==
  ASSUME Base, RefinedOK, AccumulatedOK, Phase = "accumulate", turn > Len(refined)
  PROVE  /\ accumulated # <<>> /\ Fitting(accumulated)
         /\ turn - 1 \in DOMAIN refined /\ accumulated[1][1] <= refined[turn - 1][1]
<1>1. /\ IsDocument(doc) /\ section \in Headings /\ refined \in Seq(Piece)
      /\ turn \in Nat \ {0} /\ turn \in 1 .. Len(refined) + 1
  BY InputFacts DEF Base, TypeOK, LoopsOK, InSection
<1>2. PICK h \in Headings : h = section
  BY <1>1
<1>3. /\ SectionText(section)[1] \in SectionText(section)[1] .. SectionText(section)[2]
      /\ SectionText(section)[1] \notin doc.blank
  BY <1>1, <1>2, SectionFacts
<1>4. \E j \in DOMAIN refined : TRUE
  BY <1>3 DEF RefinedOK, Covers
<1>5. turn # 1 /\ turn - 1 \in DOMAIN refined
  BY <1>1, <1>4, SeqFacts
<1> QED BY <1>5 DEF AccumulatedOK

\* What a step adds to the chunks, in short.
LEMMA ChunksAdded ==
  ASSUME Base, RefinedOK, AccumulatedOK, [Next]_vars
  PROVE  \/ chunks' = chunks
         \/ Emit
         \/ \E ps \in Seq(Piece), path \in Seq(Nat) :
              /\ chunks' = Append(chunks, Chunk(1, ps, path)) /\ ps # <<>> /\ Fitting(ps)
              /\ path = stack'
              /\ \/ Section /\ ps = <<SectionText(turn)>>
                 \/ Accumulate /\ ps = accumulated /\ accumulated' = <<refined[turn]>>
                 \/ EndOfSection /\ ps = accumulated
<1>1. CASE Section /\ chunks' # chunks
  <2>1. /\ chunks' = Append(chunks, Chunk(1, <<SectionText(turn)>>, stack'))
        /\ Size(SectionText(turn)) <= config.max
        /\ stage = "section" /\ Phase = "section" /\ stack' = Append(Popped(Level(turn)), turn)
    BY <1>1 DEF Section, Phase
  <2>2. /\ IsDocument(doc) /\ turn \in Headings /\ turn \in Nat /\ stack \in Seq(Nat)
        /\ config.max \in Nat
    BY <2>1, InputFacts DEF Base, TypeOK, LoopsOK
  <2>3. SectionText(turn) \in Piece
    <3>1. turn \in 1 .. Len(doc.paragraphs) /\ LastOf(turn) \in 1 .. Len(doc.paragraphs)
      BY <2>2, SectionFacts
    <3> QED BY <2>2, <3>1, ParagraphFacts DEF SectionText, Piece
  <2>4. PICK path : path = stack'
    OBVIOUS
  <2>5. path \in Seq(Nat)
    <3>1. Popped(Level(turn)) \in Seq(Nat)
      BY <2>2, PoppedFacts
    <3>2. Append(Popped(Level(turn)), turn) \in Seq(Nat)
      BY <2>2, <3>1, AppendFacts
    <3> QED BY <2>1, <2>4, <3>2
  <2>6. Fitting(<<SectionText(turn)>>) /\ <<SectionText(turn)>> \in Seq(Piece)
        /\ <<SectionText(turn)>> # <<>>
    BY <2>1, <2>2, <2>3, PieceFits
  <2>7. chunks' = Append(chunks, Chunk(1, <<SectionText(turn)>>, path))
    BY <2>1, <2>4
  <2> QED BY <1>1, <2>4, <2>5, <2>6, <2>7
<1>2. CASE Accumulate /\ chunks' # chunks
  <2>1. /\ chunks' = Append(chunks, Chunk(1, accumulated, stack)) /\ ~Fits(refined[turn])
        /\ accumulated' = <<refined[turn]>>
        /\ stage = "accumulate" /\ Phase = "accumulate" /\ stack' = stack
    BY <1>2 DEF Accumulate, outline, Phase
  <2>2. accumulated # <<>> /\ accumulated \in Seq(Piece) /\ stack \in Seq(Nat)
    BY <2>1 DEF Fits, Base, TypeOK
  <2>3. Fitting(accumulated)
    BY <2>1, <2>2 DEF AccumulatedOK
  <2> QED BY <1>2, <2>1, <2>2, <2>3
<1>3. CASE EndOfSection
  <2>1. /\ Phase = "accumulate" /\ turn > Len(refined) /\ stack' = stack
        /\ chunks' = chunks \o <<Chunk(1, accumulated, stack)>>
    BY <1>3 DEF EndOfSection, Rest, outline, Phase
  <2>2. accumulated \in Seq(Piece) /\ stack \in Seq(Nat) /\ chunks \in Seq(ChunkRecord)
    BY DEF Base, TypeOK
  <2>3. accumulated # <<>> /\ Fitting(accumulated)
    BY <2>1, SomethingAccumulated
  <2>4. chunks' = Append(chunks, Chunk(1, accumulated, stack))
    BY <2>1, <2>2
  <2> QED BY <1>3, <2>1, <2>2, <2>3, <2>4
<1>4. CASE Start \/ Window \/ Overrun \/ Group \/ Grouped \/ Refine \/ PagePart \/ EndOfPages
           \/ UNCHANGED vars
  BY <1>4 DEF Start, Window, Overrun, Group, Grouped, Refine, PagePart, EndOfPages, vars
<1>5. \/ (Section \/ Accumulate) /\ chunks' = chunks
      \/ Section /\ chunks' # chunks
      \/ Accumulate /\ chunks' # chunks
      \/ EndOfSection \/ Emit
      \/ Start \/ Window \/ Overrun \/ Group \/ Grouped \/ Refine \/ PagePart \/ EndOfPages
      \/ UNCHANGED vars
  BY Zenon DEF Next, Step, Finished
<1> QED BY <1>1, <1>2, <1>3, <1>4, <1>5, Zenon

\* Chunks fit, for any document and any configuration.
LEMMA FitStep ==
  ASSUME Base, RefinedOK, AccumulatedOK, FitOK, [Next]_vars
  PROVE  FitOK'
<1>0. config' = config
  BY DEF Next, Step, Finished, vars, Start, Window, Overrun, Section, Group, Grouped, Refine,
         Accumulate, EndOfSection, PagePart, Emit, EndOfPages
<1>1. CASE chunks' = chunks
  BY <1>0, <1>1 DEF FitOK, Fitting
<1>2. CASE Emit
  <2>1. PICK n \in Nat, k \in Nat :
    /\ DOMAIN chunks = 1 .. n /\ DOMAIN pieces = 1 .. k /\ DOMAIN chunks' = 1 .. n + k
    /\ \A i \in 1 .. n : chunks'[i] = chunks[i]
    /\ \A i \in 1 .. n + k :
         \/ i \in 1 .. n
         \/ /\ i - n \in 1 .. k
            /\ chunks'[i] = [index |-> i - 1, pieces |-> <<pieces[i - n]>>, path |-> <<>>, page |-> page]
    BY <1>2, EmittedChunks
  <2>2. config.max \in Nat /\ pieces \in Seq(Piece) /\ Short(pieces)
    BY <1>2, InputFacts DEF Base, TypeOK, SplitOK, Emit, Phase, Splitting
  <2>3. \A i \in 1 .. k : pieces[i] \in Piece /\ Size(pieces[i]) <= config.max
    BY <2>1, <2>2, SeqFacts DEF Short
  <2>4. \A i \in 1 .. k : Fitting(<<pieces[i]>>)
    BY <2>2, <2>3, PieceFits
  <2>5. \A i \in DOMAIN chunks' : Fitting(chunks'[i].pieces)
    BY <2>1, <2>4 DEF FitOK
  <2> QED BY <1>0, <2>5 DEF FitOK, Fitting
<1>3. ASSUME NEW ps \in Seq(Piece), NEW path \in Seq(Nat), Fitting(ps),
             chunks' = Append(chunks, Chunk(1, ps, path))
      PROVE  FitOK'
  <2>1. PICK n \in Nat :
    /\ DOMAIN chunks = 1 .. n /\ DOMAIN chunks' = 1 .. n + 1
    /\ \A i \in 1 .. n : chunks'[i] = chunks[i]
    /\ chunks'[n + 1] = [index |-> n, pieces |-> ps, path |-> path, page |-> page]
    BY <1>3, AppendedChunk
  <2>2. \A i \in DOMAIN chunks' : Fitting(chunks'[i].pieces)
    <3> SUFFICES ASSUME NEW i \in 1 .. n + 1 PROVE Fitting(chunks'[i].pieces)
      BY <2>1
    <3>1. CASE i \in 1 .. n
      BY <2>1, <3>1 DEF FitOK
    <3>2. CASE i = n + 1
      BY <1>3, <2>1, <3>2
    <3> QED BY <3>1, <3>2
  <2> QED BY <1>0, <2>2 DEF FitOK, Fitting
<1> QED BY <1>1, <1>2, <1>3, ChunksAdded

\* A chunk has at most max_chars + 1 characters, and at most max_chars when
\* nothing is joined: for every text, every max_chars and every overlap.
THEOREM EveryChunkFits == Spec => []ChunksFit
<1>1. Init => FitOK
  BY DEF Init, FitOK
<1>2. Base /\ RefinedOK /\ AccumulatedOK /\ FitOK /\ [Next]_vars => FitOK'
  BY FitStep
<1>3. FitOK => ChunksFit
  BY DEF FitOK, ChunksFit, Fitting
<1> QED BY <1>1, <1>2, <1>3, BaseInvariant, RefinedInvariant, AccumulatedInvariant, PTL DEF Spec

-------------------------------------------------------------------------------
(* The chunks are numbered in the order of the text *)

\* The fields of a chunk.
LEMMA ChunkFields ==
  ASSUME Base, NEW i \in DOMAIN chunks
  PROVE  /\ chunks[i].pieces \in Seq(Piece) /\ chunks[i].path \in Seq(Nat)
         /\ chunks[i].index \in Nat /\ chunks[i].page \in Nat
<1>1. chunks \in Seq(ChunkRecord)
  BY DEF Base, TypeOK
<1>2. chunks[i] \in ChunkRecord
  <2>1. DOMAIN chunks = 1 .. Len(chunks) /\ \A j \in 1 .. Len(chunks) : chunks[j] \in ChunkRecord
    BY <1>1, SeqFacts, Zenon
  <2> QED BY <2>1
<1> QED BY <1>2 DEF ChunkRecord

\* A chunk with pieces begins at a position.
LEMMA ChunkBegins ==
  ASSUME Base, NEW i \in DOMAIN chunks, chunks[i].pieces # <<>>
  PROVE  chunks[i].pieces[1][1] \in Int
<1>1. chunks[i].pieces \in Seq(Piece)
  BY ChunkFields
<1>2. PICK ps \in Seq(Piece) : ps = chunks[i].pieces
  BY <1>1
<1>3. ps[1] \in Piece
  BY <1>2
<1> QED BY <1>2, <1>3 DEF Piece

\* The same after a step.
LEMMA ChunkBeginsLater ==
  ASSUME Base', NEW i \in DOMAIN chunks', chunks'[i].pieces # <<>>
  PROVE  chunks'[i].pieces[1][1] \in Int
<1>1. PICK cs \in Seq(ChunkRecord) : cs = chunks'
  BY DEF Base, TypeOK
<1>2. cs[i] \in ChunkRecord
  <2>1. DOMAIN cs = 1 .. Len(cs) /\ \A j \in 1 .. Len(cs) : cs[j] \in ChunkRecord
    BY SeqFacts, Zenon
  <2> QED BY <1>1, <2>1
<1>3. PICK ps \in Seq(Piece) : ps = chunks'[i].pieces
  BY <1>1, <1>2 DEF ChunkRecord
<1>4. ps[1] \in Piece
  BY <1>3
<1> QED BY <1>3, <1>4 DEF Piece

\* A chunk that begins no earlier than all others may follow them.
LEMMA OrderAfterAppend ==
  ASSUME Base, Ordered, NEW ps \in Seq(Piece), NEW path \in Seq(Nat), ps # <<>>,
         chunks' = Append(chunks, Chunk(1, ps, path)), BegunBy(ps[1][1])
  PROVE  Ordered' /\ \A i \in DOMAIN chunks' : chunks'[i].pieces[1][1] <= ps[1][1]
<1>1. PICK n \in Nat :
    /\ DOMAIN chunks = 1 .. n /\ DOMAIN chunks' = 1 .. n + 1
    /\ \A i \in 1 .. n : chunks'[i] = chunks[i]
    /\ chunks'[n + 1] = [index |-> n, pieces |-> ps, path |-> path, page |-> page]
  BY AppendedChunk
<1>2. ps[1][1] \in Int
  <2>1. ps[1] \in Piece
    BY SeqFacts
  <2> QED BY <2>1 DEF Piece
<1>3. /\ chunks'[n + 1].index = n + 1 - 1 /\ chunks'[n + 1].pieces = ps
  BY <1>1
<1>4. \A i \in 1 .. n : chunks'[i].pieces[1][1] <= ps[1][1]
  BY <1>1 DEF BegunBy
<1>5. \A i \in 1 .. n : chunks'[i].index = i - 1 /\ chunks'[i].pieces # <<>>
  BY <1>1 DEF Ordered
<1>6. \A i, j \in 1 .. n : i < j => chunks'[i].pieces[1][1] <= chunks'[j].pieces[1][1]
  BY <1>1 DEF Ordered
<1>7. \A i \in 1 .. n + 1 : i \in 1 .. n \/ i = n + 1
  OBVIOUS
<1>8. \A i \in 1 .. n + 1 : chunks'[i].index = i - 1 /\ chunks'[i].pieces # <<>>
  <2> SUFFICES ASSUME NEW i \in 1 .. n + 1
               PROVE  chunks'[i].index = i - 1 /\ chunks'[i].pieces # <<>>
    OBVIOUS
  <2>1. CASE i = n + 1
    <3>1. chunks'[i] = chunks'[n + 1] /\ i - 1 = n
      BY <2>1
    <3>2. chunks'[n + 1].index = n /\ chunks'[n + 1].pieces = ps
      BY <1>1
    <3> QED BY <3>1, <3>2
  <2> QED BY <1>5, <1>7, <2>1
<1>9. \A i, j \in 1 .. n + 1 : i < j => chunks'[i].pieces[1][1] <= chunks'[j].pieces[1][1]
  <2> SUFFICES ASSUME NEW i \in 1 .. n + 1, NEW j \in 1 .. n + 1, i < j
               PROVE  chunks'[i].pieces[1][1] <= chunks'[j].pieces[1][1]
    OBVIOUS
  <2>1. i \in 1 .. n
    OBVIOUS
  <2> QED BY <1>3, <1>4, <1>6, <1>7, <2>1
<1>10. \A i \in DOMAIN chunks' : chunks'[i].pieces[1][1] <= ps[1][1]
  BY <1>1, <1>2, <1>3, <1>4, <1>7
<1> QED BY <1>1, <1>8, <1>9, <1>10 DEF Ordered

\* Pieces of a text that begins after all chunks, and ends before x.
LEMMA OrderAfterEmit ==
  ASSUME Base, Ordered, Emit, BegunBy(span[1])
  PROVE  Ordered' /\ \A i \in DOMAIN chunks' : chunks'[i].pieces[1][1] <= span[1]
                                             \/ chunks'[i].pieces[1][1] <= span[2]
<1>1. PICK n \in Nat, k \in Nat :
    /\ DOMAIN chunks = 1 .. n /\ DOMAIN pieces = 1 .. k /\ DOMAIN chunks' = 1 .. n + k
    /\ \A i \in 1 .. n : chunks'[i] = chunks[i]
    /\ \A i \in 1 .. n + k :
         \/ i \in 1 .. n
         \/ /\ i - n \in 1 .. k
            /\ chunks'[i] = [index |-> i - 1, pieces |-> <<pieces[i - n]>>, path |-> <<>>, page |-> page]
  BY EmittedChunks
<1>2. /\ pieces \in Seq(Piece) /\ Within(pieces, span[1], span[2]) /\ Sorted(pieces)
      /\ chunks \in Seq(ChunkRecord) /\ Phase \in Splitting
  BY DEF Base, TypeOK, SplitOK, Emit, Phase, Splitting
<1>3. span[1] \in Nat /\ span[2] \in Nat
  BY <1>2, SpanFacts DEF Base
<1> DEFINE New(i) == /\ i - n \in 1 .. k /\ chunks'[i].index = i - 1
                     /\ chunks'[i].pieces = <<pieces[i - n]>>
                     /\ chunks'[i].pieces[1][1] = pieces[i - n][1]
<1>4. \A i \in 1 .. n + k : i \in 1 .. n \/ New(i)
  BY <1>1
<1>5. \A i \in 1 .. k : /\ pieces[i][1] \in Int /\ pieces[i][2] \in Int
                        /\ span[1] <= pieces[i][1] /\ pieces[i][1] <= span[2]
  <2> SUFFICES ASSUME NEW i \in 1 .. k
               PROVE  /\ pieces[i][1] \in Int /\ pieces[i][2] \in Int
                      /\ span[1] <= pieces[i][1] /\ pieces[i][1] <= span[2]
    OBVIOUS
  <2>1. pieces[i][1] \in Int /\ pieces[i][2] \in Int
    BY <1>1, <1>2, SeqFacts DEF Piece
  <2>2. span[1] <= pieces[i][1] /\ pieces[i][1] <= pieces[i][2] /\ pieces[i][2] <= span[2]
    BY <1>1, <1>2 DEF Within
  <2> QED BY <1>3, <2>1, <2>2
<1>6. \A i \in 1 .. n : /\ chunks'[i].index = i - 1 /\ chunks'[i].pieces # <<>>
                        /\ chunks'[i].pieces[1][1] <= span[1]
                        /\ chunks'[i].pieces[1][1] \in Int
  <2> SUFFICES ASSUME NEW i \in 1 .. n
               PROVE  /\ chunks'[i].index = i - 1 /\ chunks'[i].pieces # <<>>
                      /\ chunks'[i].pieces[1][1] <= span[1]
                      /\ chunks'[i].pieces[1][1] \in Int
    OBVIOUS
  <2>1. chunks[i].index = i - 1 /\ chunks[i].pieces # <<>> /\ chunks[i].pieces[1][1] <= span[1]
    BY <1>1 DEF Ordered, BegunBy
  <2>2. chunks[i].pieces[1][1] \in Int
    BY <1>1, <2>1, ChunkBegins
  <2> QED BY <1>1, <2>1, <2>2
<1>7. \A i, j \in 1 .. n : i < j => chunks'[i].pieces[1][1] <= chunks'[j].pieces[1][1]
  BY <1>1 DEF Ordered
<1> HIDE DEF New
<1>8. \A i \in 1 .. n + k : chunks'[i].index = i - 1 /\ chunks'[i].pieces # <<>>
  BY <1>4, <1>6 DEF New
<1>9. \A i, j \in 1 .. n + k : i < j => chunks'[i].pieces[1][1] <= chunks'[j].pieces[1][1]
  <2> SUFFICES ASSUME NEW i \in 1 .. n + k, NEW j \in 1 .. n + k, i < j
               PROVE  chunks'[i].pieces[1][1] <= chunks'[j].pieces[1][1]
    OBVIOUS
  <2>1. CASE j \in 1 .. n
    <3>1. i \in 1 .. n
      BY <2>1
    <3> QED BY <1>7, <2>1, <3>1
  <2>2. CASE i \in 1 .. n /\ New(j)
    <3>1. /\ chunks'[i].pieces[1][1] <= span[1] /\ chunks'[i].pieces[1][1] \in Int
          /\ span[1] <= pieces[j - n][1] /\ pieces[j - n][1] \in Int
          /\ chunks'[j].pieces[1][1] = pieces[j - n][1]
      BY <1>5, <1>6, <2>2 DEF New
    <3> QED BY <1>3, <3>1
  <2>3. CASE New(i) /\ New(j)
    <3>1. i - n \in DOMAIN pieces /\ j - n \in DOMAIN pieces /\ i - n <= j - n
      BY <1>1, <2>3 DEF New
    <3>2. pieces[i - n][1] <= pieces[j - n][1]
      BY <1>2, <3>1 DEF Sorted
    <3> QED BY <2>3, <3>2 DEF New
  <2> QED BY <1>4, <2>1, <2>2, <2>3
<1>10. \A i \in 1 .. n + k : chunks'[i].pieces[1][1] <= span[1]
                             \/ chunks'[i].pieces[1][1] <= span[2]
  BY <1>4, <1>5, <1>6 DEF New
<1> QED BY <1>1, <1>8, <1>9, <1>10 DEF Ordered

\* Chunks that do not begin after x do not begin after y >= x.
LEMMA BegunLater ==
  ASSUME Base, NEW x \in Int, NEW y \in Int, x <= y, Ordered, BegunBy(x)
  PROVE  BegunBy(y)
<1> SUFFICES ASSUME NEW i \in DOMAIN chunks PROVE chunks[i].pieces[1][1] <= y
  BY DEF BegunBy
<1>1. chunks[i].pieces[1][1] \in Int
  BY ChunkBegins DEF Ordered
<1> QED BY <1>1 DEF BegunBy

\* Without chunks there is no order to keep.
LEMMA NothingBegun ==
  ASSUME chunks = <<>>
  PROVE  OrderOK
<1>1. DOMAIN chunks = {}
  OBVIOUS
<1>2. Ordered /\ \A x : BegunBy(x)
  BY <1>1, Zenon DEF Ordered, BegunBy
<1> QED BY <1>2, Zenon DEF OrderOK

\* A step without a chunk keeps their order.
LEMMA OrderFrame ==
  ASSUME chunks' = chunks
  PROVE  Ordered' <=> Ordered
BY DEF Ordered

\* A section begins after the one before it.
LEMMA OrderSection ==
  ASSUME Base, OrderOK, Section
  PROVE  OrderOK'
<1>1. /\ Phase = "section" /\ IsDocument(doc) /\ turn \in Headings /\ section' = turn
      /\ doc' = doc /\ turn \in Nat
  BY InputFacts DEF Base, TypeOK, LoopsOK, Section, Phase
<1> DEFINE first == doc.paragraphs[turn].from
<1>2. Ordered /\ BegunBy(first)
  BY <1>1 DEF OrderOK
<1>3. /\ turn \in 1 .. Len(doc.paragraphs) /\ SectionText(turn)[1] = first /\ first \in Nat
      /\ LastOf(turn) \in turn .. Len(doc.paragraphs) /\ Len(doc.paragraphs) \in Nat
      /\ SectionText(turn)[2] \in Nat
      /\ SectionText(turn) = <<first, doc.paragraphs[LastOf(turn)].to>>
  BY <1>1, SectionFacts, ParagraphFacts
<1> HIDE DEF first
<1>4. CASE chunks' = Append(chunks, Chunk(1, <<SectionText(turn)>>, stack')) /\ NextSection(turn)
  <2>1. PICK path : path = stack'
    OBVIOUS
  <2>2. path \in Seq(Nat)
    <3>1. Popped(Level(turn)) \in Seq(Nat)
      BY PoppedFacts DEF Base, TypeOK
    <3>2. stack' = Append(Popped(Level(turn)), turn)
      BY DEF Section
    <3> QED BY <1>1, <2>1, <3>1, <3>2, AppendFacts
  <2>3. /\ SectionText(turn) \in Piece
        /\ <<SectionText(turn)>> \in Seq(Piece) /\ <<SectionText(turn)>> # <<>>
        /\ <<SectionText(turn)>>[1][1] = first
    <3>1. SectionText(turn) \in Piece
      BY <1>3 DEF Piece
    <3> QED BY <1>3, <3>1
  <2>4. PICK ps \in Seq(Piece) : ps = <<SectionText(turn)>>
    BY <2>3
  <2>5. chunks' = Append(chunks, Chunk(1, ps, path)) /\ ps # <<>> /\ ps[1][1] = first
    BY <1>4, <2>1, <2>3, <2>4
  <2>6. Ordered' /\ \A i \in DOMAIN chunks' : chunks'[i].pieces[1][1] <= first
    BY <1>2, <2>2, <2>5, OrderAfterAppend
  <2>7. turn' = LastOf(turn) + 1 /\ stage' \in {"done", "section"}
        /\ (stage' = "section" => turn' \in Headings)
    BY <1>1, <1>4, NextSectionFacts
  <2>8. CASE stage' = "section"
    <3>1. /\ turn' \in 1 .. Len(doc.paragraphs) /\ turn < turn'
      BY <1>1, <1>3, <2>7, <2>8, SectionEnds
    <3>2. PICK t \in 1 .. Len(doc.paragraphs) : t = turn' /\ turn < t
      BY <3>1
    <3>3. first <= doc.paragraphs[t].from /\ doc.paragraphs[t].from \in Nat
      <4>1. doc.paragraphs[turn].to < doc.paragraphs[t].from
        BY <1>1, <1>3, <3>2, ParagraphsInOrder
      <4> QED BY <1>1, <1>3, <3>2, <4>1, ParagraphFacts DEF first
    <3>4. Base'
      BY BaseSection
    <3>5. BegunBy(doc.paragraphs[turn].from)'
      <4> SUFFICES ASSUME NEW i \in DOMAIN chunks'
                   PROVE  chunks'[i].pieces[1][1] <= doc.paragraphs[t].from
        BY <1>1, <3>2 DEF BegunBy
      <4>1. chunks'[i].pieces[1][1] <= first
        BY <2>6
      <4>2. chunks'[i].pieces[1][1] \in Int
        BY <2>6, <3>4, ChunkBeginsLater DEF Ordered
      <4> QED BY <1>3, <3>3, <4>1, <4>2
    <3>6. Phase' = "section"
      BY <2>8 DEF Phase
    <3> QED BY <2>6, <3>5, <3>6 DEF OrderOK
  <2>9. CASE stage' = "done"
    BY <2>6, <2>9 DEF OrderOK, Phase
  <2> QED BY <2>7, <2>8, <2>9
<1>5. CASE stage' = "group" /\ UNCHANGED <<turn, chunks>>
  <2>1. Phase' = "group" /\ Ordered'
    BY <1>2, <1>5, OrderFrame DEF Phase
  <2>2. BegunBy(doc.paragraphs[section].from)'
    BY <1>1, <1>2, <1>5 DEF BegunBy, first
  <2> QED BY <2>1, <2>2 DEF OrderOK
<1> QED BY <1>4, <1>5 DEF Section

\* Blocks are taken in the order of the text.
LEMMA OrderAccumulate ==
  ASSUME Base, RefinedOK, AccumulatedOK, OrderOK, Accumulate
  PROVE  OrderOK'
<1>1. /\ Phase = "accumulate" /\ Phase' = "accumulate" /\ turn <= Len(refined) /\ turn' = turn + 1
      /\ doc' = doc /\ section' = section /\ turn \in Nat \ {0} /\ IsDocument(doc)
      /\ section \in Headings /\ refined \in Seq(Piece) /\ accumulated \in Seq(Piece)
      /\ stack \in Seq(Nat) /\ Ordered
  BY InputFacts DEF Base, TypeOK, LoopsOK, InSection, Accumulate, outline, Phase, OrderOK
<1>2. turn \in DOMAIN refined /\ turn' # 1 /\ refined[turn] \in Piece
  BY <1>1, SeqFacts
<1>3. accumulated = <<>> <=> turn = 1
  BY <1>1 DEF AccumulatedOK
<1>4. CASE Fits(refined[turn]) /\ chunks' = chunks /\ accumulated' = Append(accumulated, refined[turn])
  <2>1. CASE accumulated = <<>>
    <3>1. accumulated'[1] = refined[turn]
      BY <1>4, <2>1
    <3>2. BegunBy(doc.paragraphs[section].from)
      BY <1>1, <1>3, <2>1 DEF OrderOK
    <3>3. PICK h \in Headings : h = section
      BY <1>1
    <3>4. doc.paragraphs[section].from = SectionText(section)[1] /\ SectionText(section)[1] \in Nat
      BY <1>1, <3>3, SectionFacts
    <3>5. SectionText(section)[1] <= refined[turn][1]
      BY <1>1, <1>2 DEF RefinedOK, Refined, Within
    <3>6. refined[turn][1] \in Int
      BY <1>2 DEF Piece
    <3>7. BegunBy(refined[turn][1])
      BY <1>1, <3>2, <3>4, <3>5, <3>6, BegunLater
    <3>8. BegunBy(accumulated[1][1])'
      BY <1>4, <3>1, <3>7 DEF BegunBy
    <3> QED BY <1>1, <1>2, <1>4, <3>8, OrderFrame DEF OrderOK
  <2>2. CASE accumulated # <<>>
    <3>1. BegunBy(accumulated[1][1])
      BY <1>1, <1>3, <2>2 DEF OrderOK
    <3>2. accumulated'[1] = accumulated[1]
      <4>1. 1 \in 1 .. Len(accumulated)
        BY <1>1, <2>2
      <4> QED BY <1>1, <1>2, <1>4, <4>1, AppendFacts
    <3>3. BegunBy(accumulated[1][1])'
      BY <1>4, <3>1, <3>2 DEF BegunBy
    <3> QED BY <1>1, <1>2, <1>4, <3>3, OrderFrame DEF OrderOK
  <2> QED BY <2>1, <2>2
<1>5. CASE /\ ~Fits(refined[turn]) /\ chunks' = Append(chunks, Chunk(1, accumulated, stack))
           /\ accumulated' = <<refined[turn]>>
  <2>1. accumulated # <<>>
    BY <1>5 DEF Fits
  <2>2. BegunBy(accumulated[1][1])
    BY <1>1, <1>3, <2>1 DEF OrderOK
  <2>3. /\ accumulated[1][1] <= refined[turn][1]
        /\ accumulated[1][1] \in Int /\ refined[turn][1] \in Int
    BY <1>1, <1>2, <2>1, AccumulatedBegins
  <2>4. Ordered' /\ \A i \in DOMAIN chunks' : chunks'[i].pieces[1][1] <= accumulated[1][1]
    BY <1>1, <1>5, <2>1, <2>2, OrderAfterAppend
  <2>5. Base'
    BY BaseAccumulate
  <2>6. accumulated'[1][1] = refined[turn][1]
    BY <1>5
  <2>7. BegunBy(accumulated[1][1])'
    <3> SUFFICES ASSUME NEW i \in DOMAIN chunks'
                 PROVE  chunks'[i].pieces[1][1] <= refined[turn][1]
      BY <2>6 DEF BegunBy
    <3>1. chunks'[i].pieces[1][1] \in Int
      BY <2>4, <2>5, ChunkBeginsLater DEF Ordered
    <3> QED BY <2>3, <2>4, <3>1
  <2> QED BY <1>1, <1>2, <2>4, <2>7 DEF OrderOK
<1> QED BY <1>4, <1>5 DEF Accumulate

\* The last chunk of a section begins before the next section.
LEMMA OrderEndOfSection ==
  ASSUME Base, RefinedOK, AccumulatedOK, OrderOK, EndOfSection
  PROVE  OrderOK'
<1>1. /\ Phase = "accumulate" /\ turn > Len(refined) /\ NextSection(section)
      /\ doc' = doc /\ turn \in Nat \ {0} /\ IsDocument(doc)
      /\ section \in Headings /\ refined \in Seq(Piece) /\ accumulated \in Seq(Piece)
      /\ stack \in Seq(Nat) /\ Ordered /\ chunks \in Seq(ChunkRecord)
      /\ chunks' = chunks \o <<Chunk(1, accumulated, stack)>>
  BY InputFacts DEF Base, TypeOK, LoopsOK, InSection, EndOfSection, Rest, Phase, OrderOK
<1>2. PICK h \in Headings : h = section
  BY <1>1
<1>3. /\ accumulated # <<>> /\ turn - 1 \in DOMAIN refined
      /\ accumulated[1][1] <= refined[turn - 1][1]
  BY <1>1, SomethingAccumulated
<1>4. chunks' = Append(chunks, Chunk(1, accumulated, stack))
  BY <1>1
<1>5. BegunBy(accumulated[1][1])
  <2>1. turn # 1
    BY <1>1, <1>3 DEF AccumulatedOK
  <2> QED BY <1>1, <2>1 DEF OrderOK
<1>6. Ordered' /\ \A i \in DOMAIN chunks' : chunks'[i].pieces[1][1] <= accumulated[1][1]
  BY <1>1, <1>3, <1>4, <1>5, OrderAfterAppend
<1>7. accumulated[1][1] \in Int /\ accumulated[1][1] <= SectionText(section)[2]
      /\ SectionText(section)[2] \in Nat
  <2>1. refined[turn - 1] \in Piece
    BY <1>1, <1>3, SeqFacts
  <2>2. refined[turn - 1][1] \in Int /\ refined[turn - 1][2] \in Int
    BY <2>1 DEF Piece
  <2>3. accumulated[1] \in Piece
    BY <1>1, <1>3
  <2>4. accumulated[1][1] \in Int
    BY <2>3 DEF Piece
  <2>5. refined[turn - 1][1] <= refined[turn - 1][2] /\ refined[turn - 1][2] <= SectionText(section)[2]
    BY <1>1, <1>3 DEF RefinedOK, Refined, Within
  <2>6. SectionText(section)[2] \in Nat
    BY <1>1, <1>2, SectionFacts
  <2> QED BY <1>3, <2>2, <2>4, <2>5, <2>6
<1>8. turn' = LastOf(h) + 1 /\ stage' \in {"done", "section"}
      /\ (stage' = "section" => turn' \in Headings)
  BY <1>1, <1>2, NextSectionFacts
<1>9. CASE stage' = "section"
  <2>1. PICK t \in Headings : t = turn'
    BY <1>8, <1>9
  <2>2. /\ t \in 1 .. Len(doc.paragraphs) /\ LastOf(h) \in 1 .. Len(doc.paragraphs) /\ LastOf(h) < t
        /\ SectionText(section)[2] = doc.paragraphs[LastOf(h)].to
    BY <1>1, <1>2, <1>8, <2>1, SectionFacts
  <2>3. doc.paragraphs[LastOf(h)].to < doc.paragraphs[t].from
    BY <1>1, <2>2, ParagraphsInOrder
  <2>4. doc.paragraphs[t].from \in Nat
    BY <1>1, <2>2, ParagraphFacts
  <2>5. Base'
    BY BaseEndOfSection
  <2>6. BegunBy(doc.paragraphs[turn].from)'
    <3> SUFFICES ASSUME NEW i \in DOMAIN chunks'
                 PROVE  chunks'[i].pieces[1][1] <= doc.paragraphs[t].from
      BY <1>1, <2>1 DEF BegunBy
    <3>1. chunks'[i].pieces[1][1] \in Int
      BY <1>6, <2>5, ChunkBeginsLater DEF Ordered
    <3>2. chunks'[i].pieces[1][1] <= accumulated[1][1]
      BY <1>6
    <3> QED BY <1>7, <2>2, <2>3, <2>4, <3>1, <3>2
  <2>7. Phase' = "section"
    BY <1>9 DEF Phase
  <2> QED BY <1>6, <2>6, <2>7 DEF OrderOK
<1>10. CASE stage' = "done"
  BY <1>6, <1>10 DEF OrderOK, Phase
<1> QED BY <1>8, <1>9, <1>10

\* Pages are taken in the order of the text.
LEMMA OrderEmit ==
  ASSUME Base, OrderOK, Emit
  PROVE  OrderOK'
<1>1. /\ IsDocument(doc) /\ Ordered /\ Phase = stage /\ Phase \in Splitting /\ doc' = doc
      /\ turn' = turn /\ stage \in {"emit", "fallback"}
  BY InputFacts DEF Base, OrderOK, Emit, Phase, Splitting
<1>2. BegunBy(span[1])
  <2>1. CASE stage = "emit"
    BY <1>1, <2>1 DEF OrderOK
  <2>2. CASE stage = "fallback"
    <3>1. chunks = <<>>
      BY <1>1, <2>2 DEF Base, LoopsOK
    <3> QED BY <3>1 DEF BegunBy
  <2> QED BY <1>1, <2>1, <2>2
<1>3. Ordered' /\ \A i \in DOMAIN chunks' : chunks'[i].pieces[1][1] <= span[1]
                                          \/ chunks'[i].pieces[1][1] <= span[2]
  BY <1>1, <1>2, OrderAfterEmit
<1>4. CASE stage = "fallback"
  <2>1. Phase' = "done"
    BY <1>4 DEF Emit, Phase
  <2> QED BY <1>3, <2>1 DEF OrderOK
<1>5. CASE stage = "emit"
  <2>1. Phase' = "page" /\ Base'
    BY <1>5, BaseEmit DEF Emit, Phase
  <2>2. PICK y \in DOMAIN doc.parts :
          y = turn - 1 /\ HasText(y) /\ span = <<doc.parts[y].from, doc.parts[y].to>>
    BY <1>1, <1>5 DEF Base, LoopsOK
  <2>3. ASSUME NEW x \in DOMAIN doc.parts, x >= turn
        PROVE  \A i \in DOMAIN chunks' : chunks'[i].pieces[1][1] <= doc.parts[x].from
    <3>1. /\ y < x /\ doc.parts[x].from \in Nat
          /\ doc.parts[y].from \in Nat /\ doc.parts[y].to \in Nat
      <4>1. x \in Nat /\ y \in Nat /\ turn \in Nat
        BY <1>1, <2>2, PartFacts DEF Base, TypeOK
      <4> QED BY <1>1, <2>2, <2>3, <4>1, PartFacts
    <3>2. doc.parts[y].to < doc.parts[x].from /\ doc.parts[y].from <= doc.parts[y].to
      BY <1>1, <2>2, <3>1, PartFacts
    <3> SUFFICES ASSUME NEW i \in DOMAIN chunks'
                 PROVE  chunks'[i].pieces[1][1] <= doc.parts[x].from
      OBVIOUS
    <3>3. chunks'[i].pieces[1][1] \in Int
      BY <1>3, <2>1, ChunkBeginsLater DEF Ordered
    <3>4. chunks'[i].pieces[1][1] <= doc.parts[y].from \/ chunks'[i].pieces[1][1] <= doc.parts[y].to
      BY <1>3, <2>2
    <3> QED BY <3>1, <3>2, <3>3, <3>4
  <2>4. (\A x \in DOMAIN doc.parts : x >= turn /\ HasText(x) => BegunBy(doc.parts[x].from))'
    BY <1>1, <2>3 DEF BegunBy
  <2> QED BY <1>3, <2>1, <2>4 DEF OrderOK
<1> QED BY <1>1, <1>4, <1>5

\* The order is kept by every step.
LEMMA OrderStep ==
  ASSUME Base, RefinedOK, AccumulatedOK, OrderOK, [Next]_vars
  PROVE  OrderOK'
<1>1. CASE Start
  <2>1. chunks' = <<>>
    BY <1>1 DEF Start, Phase, Base, LoopsOK
  <2>2. Ordered' /\ \A x : BegunBy(x)'
    BY <2>1 DEF Ordered, BegunBy
  <2>3. Phase' \notin {"group", "refine", "accumulate"}
    BY <1>1 DEF Start, Split, Phase
  <2> QED BY <2>1, <2>2, <2>3 DEF OrderOK, BegunBy
<1>2. CASE Window \/ UNCHANGED vars
  <2>1. /\ doc' = doc /\ chunks' = chunks /\ turn' = turn /\ section' = section
        /\ accumulated' = accumulated /\ span' = span
    BY <1>2 DEF Window, vars, outline, fence, split
  <2>2. Phase' = Phase
    BY <1>2 DEF Window, vars, Phase
  <2> QED BY <2>1, <2>2, DocFrame DEF OrderOK, Ordered, BegunBy
<1>3. CASE Overrun
  BY <1>3 DEF Overrun, Phase, OrderOK, Ordered
<1>4. CASE Group \/ Grouped \/ Refine
  <2>1. /\ doc' = doc /\ chunks' = chunks /\ section' = section
        /\ Phase \in {"group", "refine"} /\ Phase' \in {"group", "refine", "accumulate"}
        /\ Phase' = "accumulate" => turn' = 1
    BY <1>4 DEF Group, Grouped, Refine, outline, Split, Phase
  <2> QED BY <2>1 DEF OrderOK, Ordered, BegunBy
<1>5. CASE PagePart
  <2>1. /\ doc' = doc /\ chunks' = chunks /\ Phase = "page" /\ turn' = turn + 1
        /\ turn \in DOMAIN doc.parts /\ IsDocument(doc) /\ turn \in Nat /\ Ordered
    <3>1. doc.parts \in Seq([from : Nat, to : Nat, number : Nat])
      BY InputFacts DEF Base, IsDocument
    <3>2. Len(doc.parts) \in Nat /\ DOMAIN doc.parts = 1 .. Len(doc.parts)
      BY <3>1, SeqFacts, Zenon
    <3> QED BY <1>5, <3>2, InputFacts DEF PagePart, Phase, Base, TypeOK, OrderOK
  <2>2. \A x \in DOMAIN doc.parts : x >= turn /\ HasText(x) => BegunBy(doc.parts[x].from)
    BY <2>1 DEF OrderOK
  <2>3. \/ Phase' = "page"
        \/ HasText(turn) /\ Phase' = "emit" /\ span'[1] = doc.parts[turn].from
    BY <1>5 DEF PagePart, Phase, Split, HasText
  <2>4. \A x \in DOMAIN doc.parts : x >= turn + 1 => x >= turn
    <3> SUFFICES ASSUME NEW x \in DOMAIN doc.parts, x >= turn + 1 PROVE x >= turn
      OBVIOUS
    <3>1. x \in Nat
      BY <2>1, PartFacts
    <3> QED BY <2>1, <3>1
  <2>5. CASE Phase' = "page"
    BY <2>1, <2>2, <2>4, <2>5 DEF OrderOK, Ordered, BegunBy, HasText
  <2>6. CASE HasText(turn) /\ Phase' = "emit" /\ span'[1] = doc.parts[turn].from
    <3>1. BegunBy(doc.parts[turn].from)
      BY <2>1, <2>2, <2>6
    <3> QED BY <2>1, <2>6, <3>1 DEF OrderOK, Ordered, BegunBy
  <2> QED BY <2>3, <2>5, <2>6
<1>6. CASE EndOfPages
  <2>1. CASE chunks # <<>>
    BY <1>6, <2>1 DEF EndOfPages, Phase, OrderOK, Ordered
  <2>2. CASE chunks = <<>>
    <3>1. chunks' = <<>> /\ Phase' = "fallback"
      BY <1>6, <2>2 DEF EndOfPages, Phase, Split
    <3> QED BY <3>1 DEF OrderOK, Ordered
  <2> QED BY <2>1, <2>2
<1> QED BY <1>1, <1>2, <1>3, <1>4, <1>5, <1>6, OrderSection, OrderAccumulate,
           OrderEndOfSection, OrderEmit, Zenon DEF Next, Step, Finished

\* No chunk begins after what is to come.
THEOREM OrderInvariant == Spec => []OrderOK
<1>1. Init => OrderOK
  BY NothingBegun DEF Init
<1>2. Base /\ RefinedOK /\ AccumulatedOK /\ OrderOK /\ [Next]_vars => OrderOK'
  BY OrderStep
<1> QED BY <1>1, <1>2, BaseInvariant, RefinedInvariant, AccumulatedInvariant, PTL DEF Spec

\* The chunks are numbered from 0 without a gap, and begin in the order of the
\* text, whatever the document and the configuration.
THEOREM EveryChunkInOrder == Spec => []ChunksInOrder
<1>1. Base /\ OrderOK => ChunksInOrder
  <2> SUFFICES ASSUME Base, OrderOK, NEW i \in DOMAIN chunks
               PROVE  /\ chunks[i].index = i - 1
                      /\ i > 1 => chunks[i - 1].pieces[1][1] <= chunks[i].pieces[1][1]
    BY Zenon DEF ChunksInOrder
  <2>1. DOMAIN chunks = 1 .. Len(chunks) /\ Len(chunks) \in Nat
    <3>1. chunks \in Seq(ChunkRecord)
      BY DEF Base, TypeOK
    <3> QED BY <3>1, SeqFacts, Zenon
  <2>2. i > 1 => i - 1 \in DOMAIN chunks /\ i - 1 < i
    BY <2>1
  <2> QED BY <2>2 DEF OrderOK, Ordered
<1> QED BY <1>1, BaseInvariant, OrderInvariant, PTL

-------------------------------------------------------------------------------
(* No text is lost *)

\* No step changes what is chunked, or how.
LEMMA DocStays == ASSUME [Next]_vars PROVE doc' = doc /\ config' = config
BY DEF Next, Step, Finished, vars, Start, Window, Overrun, Section, Group, Grouped, Refine,
       Accumulate, EndOfSection, PagePart, Emit, EndOfPages

\* Chunks are never taken back or changed.
LEMMA ChunksStay ==
  ASSUME Base, RefinedOK, AccumulatedOK, [Next]_vars
  PROVE  \A i \in DOMAIN chunks : i \in DOMAIN chunks' /\ chunks'[i] = chunks[i]
<1>1. CASE chunks' = chunks
  BY <1>1
<1>2. CASE Emit
  <2>1. PICK n \in Nat, k \in Nat :
    /\ DOMAIN chunks = 1 .. n /\ DOMAIN chunks' = 1 .. n + k
    /\ \A i \in 1 .. n : chunks'[i] = chunks[i]
    BY <1>2, EmittedChunks
  <2> QED BY <2>1
<1>3. ASSUME NEW ps \in Seq(Piece), NEW path \in Seq(Nat),
             chunks' = Append(chunks, Chunk(1, ps, path))
      PROVE  \A i \in DOMAIN chunks : i \in DOMAIN chunks' /\ chunks'[i] = chunks[i]
  <2>1. PICK n \in Nat :
    /\ DOMAIN chunks = 1 .. n /\ DOMAIN chunks' = 1 .. n + 1
    /\ \A i \in 1 .. n : chunks'[i] = chunks[i]
    BY <1>3, AppendedChunk
  <2> QED BY <2>1
<1> QED BY <1>1, <1>2, <1>3, ChunksAdded

\* A position is covered when it lies in a piece that a chunk has.
LEMMA CoveredBy ==
  /\ \A p : Stored(p) => p[1] .. p[2] \subseteq Covered
  /\ \A x \in Covered : \E p : Stored(p) /\ x \in p[1] .. p[2]
<1>1. ASSUME NEW p, Stored(p), NEW x \in p[1] .. p[2] PROVE x \in Covered
  <2>1. PICK i \in DOMAIN chunks : \E n \in DOMAIN chunks[i].pieces : chunks[i].pieces[n] = p
    BY <1>1 DEF Stored
  <2> DEFINE c == chunks[i]
  <2>2. c \in {chunks[k] : k \in DOMAIN chunks} /\ p \in {c.pieces[j] : j \in DOMAIN c.pieces}
    BY <2>1
  <2>3. x \in UNION { q[1] .. q[2] : q \in {c.pieces[j] : j \in DOMAIN c.pieces} }
    BY <1>1, <2>2, Zenon
  <2> HIDE DEF c
  <2> QED BY <2>2, <2>3, Zenon DEF Covered
<1>2. ASSUME NEW x \in Covered PROVE \E p : Stored(p) /\ x \in p[1] .. p[2]
  <2>1. PICK c \in {chunks[i] : i \in DOMAIN chunks} :
          x \in UNION { p[1] .. p[2] : p \in {c.pieces[j] : j \in DOMAIN c.pieces} }
    BY Zenon DEF Covered
  <2>2. PICK i \in DOMAIN chunks : c = chunks[i]
    BY <2>1
  <2>3. PICK p \in {c.pieces[j] : j \in DOMAIN c.pieces} : x \in p[1] .. p[2]
    BY <2>1, Zenon
  <2>4. Stored(p)
    BY <2>2, <2>3 DEF Stored
  <2> QED BY <2>3, <2>4
<1> QED BY <1>1, <1>2, Zenon

\* The same after a step.
LEMMA CoveredByLater ==
  /\ (\A p : Stored(p) => p[1] .. p[2] \subseteq Covered)'
  /\ (\A x \in Covered : \E p : Stored(p) /\ x \in p[1] .. p[2])'
BY CoveredBy, PTL

\* What a chunk has it keeps.
LEMMA StoredStays ==
  ASSUME Base, RefinedOK, AccumulatedOK, [Next]_vars
  PROVE  /\ \A p : Stored(p) => Stored(p)'
         /\ Covered \subseteq Covered'
<1>1. ASSUME NEW p, Stored(p) PROVE Stored(p)'
  <2>1. PICK i \in DOMAIN chunks : \E n \in DOMAIN chunks[i].pieces : chunks[i].pieces[n] = p
    BY <1>1 DEF Stored
  <2>2. i \in DOMAIN chunks' /\ chunks'[i] = chunks[i]
    BY ChunksStay
  <2> QED BY <2>1, <2>2 DEF Stored
<1>2. ASSUME NEW x \in Covered PROVE x \in Covered'
  <2>1. PICK p : Stored(p) /\ x \in p[1] .. p[2]
    BY CoveredBy
  <2>2. Stored(p)'
    BY <1>1, <2>1
  <2>3. (\A q : Stored(q) => q[1] .. q[2] \subseteq Covered)'
    BY CoveredByLater
  <2> QED BY <2>1, <2>2, <2>3
<1> QED BY <1>1, <1>2

\* The text up to the end of a section, and up to the next one: what lies
\* between them is blank.
LEMMA SectionKept ==
  ASSUME IsDocument(doc), NEW h \in Headings, NEW first \in Nat, NEW K,
         (first .. doc.paragraphs[h].from - 1) \ doc.blank \subseteq K,
         (SectionText(h)[1] .. SectionText(h)[2]) \ doc.blank \subseteq K
  PROVE  /\ (first .. doc.paragraphs[LastOf(h)].to) \ doc.blank \subseteq K
         /\ \A t \in Headings : t = LastOf(h) + 1 =>
              (first .. doc.paragraphs[t].from - 1) \ doc.blank \subseteq K
<1> DEFINE P == doc.paragraphs
           l == LastOf(h)
<1>1. /\ h \in 1 .. Len(P) /\ l \in 1 .. Len(P) /\ SectionText(h)[1] = P[h].from
      /\ SectionText(h)[2] = P[l].to /\ P[h].from \in Nat /\ P[l].to \in Nat
  BY SectionFacts
<1> HIDE DEF P, l
<1>2. ASSUME NEW x \in first .. P[l].to, x \notin doc.blank PROVE x \in K
  <2>1. CASE x < P[h].from
    <3>1. x \in first .. P[h].from - 1
      BY <1>1, <2>1
    <3> QED BY <1>2, <3>1 DEF P
  <2>2. CASE x >= P[h].from
    <3>1. x \in SectionText(h)[1] .. SectionText(h)[2]
      BY <1>1, <2>2
    <3> QED BY <1>2, <3>1
  <2> QED BY <1>1, <2>1, <2>2
<1>3. ASSUME NEW t \in Headings, t = l + 1, NEW x \in first .. P[t].from - 1, x \notin doc.blank
      PROVE  x \in K
  <2>1. t \in 1 .. Len(P) /\ l < Len(P) /\ Len(P) \in Nat
    <3>1. t \in 1 .. Len(P)
      BY <1>3, SectionFacts DEF P
    <3>2. Len(P) \in Nat
      BY ParagraphFacts DEF P
    <3> QED BY <1>1, <1>3, <3>1, <3>2
  <2>2. P[l].to + 1 .. P[t].from - 1 \subseteq doc.blank /\ P[t].from \in Nat
    <3>1. P[l].to + 1 .. P[l + 1].from - 1 \subseteq doc.blank
      BY <1>1, <2>1, ParagraphFacts DEF P
    <3>2. P[t].from \in Nat
      BY <2>1, ParagraphFacts DEF P
    <3> QED BY <1>3, <3>1, <3>2
  <2>3. x \in first .. P[l].to
    BY <1>1, <1>3, <2>2
  <2> QED BY <1>2, <1>3, <2>3
<1> QED BY <1>2, <1>3 DEF P, l

\* Headings begin within the text.
LEMMA FirstHeading ==
  ASSUME IsDocument(doc), Headings # {}
  PROVE  /\ Smallest(Headings) \in Headings
         /\ \A h \in Headings : Smallest(Headings) <= h
         /\ doc.paragraphs[Smallest(Headings)].from \in Nat
<1>1. Headings \in SUBSET Nat
  BY ParagraphFacts DEF Headings
<1>2. Smallest(Headings) \in Headings /\ \A h \in Headings : Smallest(Headings) <= h
  BY <1>1, SmallestOf
<1>3. Smallest(Headings) \in 1 .. Len(doc.paragraphs)
  BY <1>2, ParagraphFacts DEF Headings
<1> QED BY <1>2, <1>3, ParagraphFacts

\* The section that ends has been kept, and so has all text before it.
LEMMA KeptAtSectionEnd ==
  ASSUME Base, doc' = doc, NEW h \in Headings, NextSection(h), ByHeadings, KeptUpTo(doc.paragraphs[h].from - 1),
         Covered \subseteq Covered',
         (SectionText(h)[1] .. SectionText(h)[2]) \ doc.blank \subseteq Covered'
  PROVE  KeptOK'
<1> DEFINE first == doc.paragraphs[Smallest(Headings)].from
<1>1. IsDocument(doc) /\ first \in Nat
  BY InputFacts, FirstHeading DEF Base, ByHeadings
<1>2. (first .. doc.paragraphs[h].from - 1) \ doc.blank \subseteq Covered'
  BY DEF KeptUpTo
<1>3. Smallest(Headings)' = Smallest(Headings)
  BY DEF Headings, Smallest
<1> HIDE DEF first
<1>4. PICK K : K = Covered'
  OBVIOUS
<1>5. /\ (first .. doc.paragraphs[LastOf(h)].to) \ doc.blank \subseteq K
      /\ \A t \in Headings : t = LastOf(h) + 1 =>
           (first .. doc.paragraphs[t].from - 1) \ doc.blank \subseteq K
  BY <1>1, <1>2, <1>4, SectionKept
<1>6. /\ turn' = LastOf(h) + 1 /\ stage' \in {"done", "section"}
      /\ stage' = "section" => turn' \in Headings
      /\ stage' = "done" => LastOf(h) = Len(doc.paragraphs)
  BY <1>1, NextSectionFacts
<1>7. Phase' = stage'
  BY <1>6 DEF Phase
<1>8. CASE stage' = "section"
  <2>1. KeptUpTo(doc.paragraphs[turn].from - 1)'
    BY <1>3, <1>4, <1>5, <1>6, <1>8 DEF KeptUpTo, first
  <2> QED BY <1>7, <1>8, <2>1 DEF KeptOK, InSection, NothingLost
<1>9. CASE stage' = "done"
  <2>1. doc.paragraphs[LastOf(h)].to = doc.length
    BY <1>1, <1>6, <1>9, SectionFacts, ParagraphFacts
  <2>2. Owed' = first .. doc.length
    BY <1>3 DEF Owed, ByHeadings, Headings, first
  <2>3. NothingLost'
    BY <1>4, <1>5, <2>1, <2>2 DEF NothingLost
  <2> QED BY <1>7, <1>9, <2>3 DEF KeptOK, InSection
<1> QED BY <1>6, <1>8, <1>9

\* A chunk that is added has its pieces, ...
LEMMA StoredByAppend ==
  ASSUME Base, NEW ps \in Seq(Piece), NEW path \in Seq(Nat),
         chunks' = Append(chunks, Chunk(1, ps, path))
  PROVE  \A p : (\E j \in DOMAIN ps : ps[j] = p) => Stored(p)'
<1>1. PICK n \in Nat :
    /\ DOMAIN chunks = 1 .. n /\ DOMAIN chunks' = 1 .. n + 1
    /\ \A i \in 1 .. n : chunks'[i] = chunks[i]
    /\ chunks'[n + 1] = [index |-> n, pieces |-> ps, path |-> path, page |-> page]
  BY AppendedChunk
<1>2. n + 1 \in DOMAIN chunks' /\ chunks'[n + 1].pieces = ps
  BY <1>1
<1> QED BY <1>2 DEF Stored

\* ... and so have the chunks of a page.
LEMMA StoredByEmit ==
  ASSUME Base, Emit
  PROVE  \A p : (\E j \in DOMAIN pieces : pieces[j] = p) => Stored(p)'
<1>1. PICK n \in Nat, k \in Nat :
    /\ DOMAIN chunks = 1 .. n /\ DOMAIN pieces = 1 .. k /\ DOMAIN chunks' = 1 .. n + k
    /\ \A i \in 1 .. n : chunks'[i] = chunks[i]
    /\ \A i \in 1 .. n + k :
         \/ i \in 1 .. n
         \/ /\ i - n \in 1 .. k
            /\ chunks'[i] = [index |-> i - 1, pieces |-> <<pieces[i - n]>>, path |-> <<>>, page |-> page]
  BY EmittedChunks
<1> SUFFICES ASSUME NEW p, NEW j \in 1 .. k, pieces[j] = p PROVE Stored(p)'
  BY <1>1
<1>2. n + j \in 1 .. n + k /\ n + j \notin 1 .. n /\ n + j - n = j
  OBVIOUS
<1>3. n + j \in DOMAIN chunks' /\ chunks'[n + j].pieces = <<pieces[j]>>
  BY <1>1, <1>2
<1>4. 1 \in DOMAIN <<pieces[j]>> /\ <<pieces[j]>>[1] = pieces[j]
  OBVIOUS
<1>5. \E i \in DOMAIN chunks' : \E m \in DOMAIN chunks'[i].pieces : chunks'[i].pieces[m] = p
  BY <1>3, <1>4
<1> QED BY <1>5 DEF Stored

\* Pieces that cover a text, and are stored.
LEMMA CoveredByPieces ==
  ASSUME NEW ps, NEW a, NEW b, Covers(ps, a, b), ps \in Seq(Piece),
         a \in Int, b \in Int,
         \A j \in DOMAIN ps : ps[j][1] .. ps[j][2] \subseteq Covered'
  PROVE  (a .. b) \ doc.blank \subseteq Covered'
<1> SUFFICES ASSUME NEW x \in a .. b, x \notin doc.blank PROVE x \in Covered'
  OBVIOUS
<1>1. PICK j \in DOMAIN ps : ps[j][1] <= x /\ x <= ps[j][2]
  BY DEF Covers
<1>2. ps[j] \in Piece
  BY SeqFacts
<1>3. x \in ps[j][1] .. ps[j][2]
  BY <1>1, <1>2 DEF Piece
<1> QED BY <1>3

\* A short section is kept as it is; a long one has still to be.
LEMMA KeptSection ==
  ASSUME Base, RefinedOK, AccumulatedOK, KeptOK, Section
  PROVE  KeptOK'
<1>0. [Next]_vars
  BY DEF Next, Step
<1>1. /\ Phase = "section" /\ IsDocument(doc) /\ section' = turn /\ ByHeadings
      /\ doc' = doc /\ turn \in Nat /\ KeptUpTo(doc.paragraphs[turn].from - 1)
      /\ turn \in Headings /\ Covered \subseteq Covered'
  BY <1>0, InputFacts, StoredStays DEF Base, TypeOK, LoopsOK, Section, Phase, KeptOK, Sectioning
<1>2. PICK h \in Headings : h = turn
  BY <1>1
<1>3. CASE chunks' = Append(chunks, Chunk(1, <<SectionText(turn)>>, stack')) /\ NextSection(turn)
  <2>1. PICK path : path = stack'
    OBVIOUS
  <2>2. path \in Seq(Nat)
    <3>1. Popped(Level(turn)) \in Seq(Nat)
      BY PoppedFacts DEF Base, TypeOK
    <3>2. stack' = Append(Popped(Level(turn)), turn)
      BY DEF Section
    <3> QED BY <1>1, <2>1, <3>1, <3>2, AppendFacts
  <2>3. PICK p \in Piece : p = SectionText(turn)
    BY <1>1, <1>2, SectionFacts DEF Piece
  <2>4. <<p>> \in Seq(Piece) /\ 1 \in DOMAIN <<p>> /\ <<p>>[1] = p
    OBVIOUS
  <2>5. chunks' = Append(chunks, Chunk(1, <<p>>, path))
    BY <1>3, <2>1, <2>3
  <2>6. Stored(p)'
    BY <2>2, <2>4, <2>5, StoredByAppend
  <2>7. p[1] .. p[2] \subseteq Covered'
    BY <2>6, CoveredByLater
  <2> QED BY <1>1, <1>2, <1>3, <2>3, <2>7, KeptAtSectionEnd
<1>4. CASE stage' = "group" /\ UNCHANGED <<turn, chunks>>
  <2>1. Phase' = "group" /\ stage' # "done"
    BY <1>4 DEF Phase
  <2>2. KeptUpTo(doc.paragraphs[section].from - 1)'
    BY <1>1 DEF KeptUpTo, Headings, Smallest
  <2> QED BY <2>1, <2>2 DEF KeptOK, NothingLost
<1> QED BY <1>3, <1>4 DEF Section

\* A block is pending until it is in a chunk.
LEMMA KeptAccumulate ==
  ASSUME Base, RefinedOK, AccumulatedOK, KeptOK, Accumulate
  PROVE  KeptOK'
<1>0. [Next]_vars
  BY DEF Next, Step
<1>1. /\ Phase = "accumulate" /\ Phase' = "accumulate" /\ stage' # "done" /\ turn <= Len(refined)
      /\ turn' = turn + 1 /\ refined' = refined
      /\ doc' = doc /\ section' = section /\ turn \in Nat \ {0}
      /\ refined \in Seq(Piece) /\ accumulated \in Seq(Piece) /\ stack \in Seq(Nat)
  BY DEF Base, TypeOK, Accumulate, outline, Phase
<1>2. turn \in DOMAIN refined /\ refined[turn] \in Piece
  BY <1>1, SeqFacts
<1>3. (\A p : Stored(p) => Stored(p)') /\ Covered \subseteq Covered'
  BY <1>0, StoredStays
<1>4. KeptUpTo(doc.paragraphs[section].from - 1)'
  BY <1>1, <1>3 DEF KeptOK, KeptUpTo, Headings, Smallest, InSection
<1>5. \A j \in 1 .. turn - 1 : Pending(refined[j]) \/ Stored(refined[j])
  BY <1>1 DEF KeptOK
<1>6. /\ \A p : Pending(p) => Pending(p)' \/ Stored(p)'
      /\ \A p : p = refined[turn] => Pending(p)'
  <2>1. CASE accumulated' = Append(accumulated, refined[turn])
    <3>1. /\ \A n \in DOMAIN accumulated : n \in DOMAIN accumulated' /\ accumulated'[n] = accumulated[n]
          /\ Len(accumulated) + 1 \in DOMAIN accumulated'
          /\ accumulated'[Len(accumulated) + 1] = refined[turn]
      BY <1>1, <1>2, <2>1, AppendFacts
    <3>2. \A p : Pending(p) => Pending(p)'
      BY <3>1 DEF Pending
    <3>3. \A p : p = refined[turn] => Pending(p)'
      BY <3>1 DEF Pending
    <3> QED BY <3>2, <3>3
  <2>2. CASE /\ chunks' = Append(chunks, Chunk(1, accumulated, stack))
             /\ accumulated' = <<refined[turn]>>
    <3>1. \A p : Pending(p) => Stored(p)'
      BY <1>1, <2>2, StoredByAppend DEF Pending
    <3>2. 1 \in DOMAIN accumulated' /\ accumulated'[1] = refined[turn]
      BY <2>2
    <3>3. \A p : p = refined[turn] => Pending(p)'
      BY <3>2 DEF Pending
    <3> QED BY <3>1, <3>3
  <2> QED BY <2>1, <2>2 DEF Accumulate
<1>7. (\A j \in 1 .. turn - 1 : Pending(refined[j]) \/ Stored(refined[j]))'
  <2>1. ASSUME NEW j \in 1 .. turn, NEW p, p = refined[j] PROVE Pending(p)' \/ Stored(p)'
    <3>1. CASE j = turn
      BY <1>6, <2>1, <3>1
    <3>2. CASE j \in 1 .. turn - 1
      BY <1>3, <1>5, <1>6, <2>1, <3>2
    <3> QED BY <1>1, <3>1, <3>2
  <2>2. turn' - 1 = turn
    BY <1>1
  <2> QED BY <1>1, <2>1, <2>2 DEF Pending, Stored
<1> QED BY <1>1, <1>4, <1>7 DEF KeptOK, NothingLost

\* At the end of a section all its blocks are in chunks.
LEMMA KeptEndOfSection ==
  ASSUME Base, RefinedOK, AccumulatedOK, KeptOK, EndOfSection
  PROVE  KeptOK'
<1>0. [Next]_vars
  BY DEF Next, Step
<1>1. /\ Phase = "accumulate" /\ turn > Len(refined) /\ NextSection(section)
      /\ doc' = doc /\ turn \in 1 .. Len(refined) + 1 /\ IsDocument(doc)
      /\ section \in Headings /\ refined \in Seq(Piece) /\ accumulated \in Seq(Piece)
      /\ stack \in Seq(Nat) /\ chunks \in Seq(ChunkRecord) /\ ByHeadings
      /\ chunks' = chunks \o <<Chunk(1, accumulated, stack)>>
  BY InputFacts DEF Base, TypeOK, LoopsOK, InSection, Sectioning, EndOfSection, Rest, Phase
<1>2. PICK h \in Headings : h = section
  BY <1>1
<1>3. chunks' = Append(chunks, Chunk(1, accumulated, stack))
  BY <1>1
<1>4. (\A p : Stored(p) => Stored(p)') /\ Covered \subseteq Covered'
  BY <1>0, StoredStays
<1>5. \A p : Pending(p) => Stored(p)'
  BY <1>1, <1>3, StoredByAppend DEF Pending
<1>6. \A j \in DOMAIN refined : Pending(refined[j]) \/ Stored(refined[j])
  <2>1. DOMAIN refined = 1 .. Len(refined) /\ Len(refined) \in Nat
    BY <1>1, SeqFacts
  <2>2. \A j \in DOMAIN refined : j \in 1 .. turn - 1
    BY <1>1, <2>1
  <2> QED BY <1>1, <2>2 DEF KeptOK
<1>8. \A j \in DOMAIN refined : refined[j][1] .. refined[j][2] \subseteq Covered'
  <2> SUFFICES ASSUME NEW j \in DOMAIN refined
               PROVE  refined[j][1] .. refined[j][2] \subseteq Covered'
    OBVIOUS
  <2>1. PICK p : p = refined[j]
    OBVIOUS
  <2>2. Stored(p)'
    BY <1>4, <1>5, <1>6, <2>1
  <2> QED BY <2>1, <2>2, CoveredByLater
<1>9. Covers(refined, SectionText(h)[1], SectionText(h)[2])
  BY <1>1, <1>2 DEF RefinedOK
<1>10. (SectionText(h)[1] .. SectionText(h)[2]) \ doc.blank \subseteq Covered'
  <2>1. SectionText(h)[1] \in Int /\ SectionText(h)[2] \in Int
    BY <1>1, SectionFacts
  <2>2. PICK ps \in Seq(Piece) : ps = refined
    BY <1>1
  <2>3. PICK a \in Int, b \in Int : a = SectionText(h)[1] /\ b = SectionText(h)[2]
    BY <2>1
  <2>4. (a .. b) \ doc.blank \subseteq Covered'
    BY <1>8, <1>9, <2>2, <2>3, CoveredByPieces
  <2> QED BY <2>3, <2>4
<1>11. KeptUpTo(doc.paragraphs[h].from - 1)
  BY <1>1, <1>2 DEF KeptOK, InSection
<1> QED BY <1>1, <1>2, <1>4, <1>10, <1>11, KeptAtSectionEnd

\* A page is kept by its pieces.
LEMMA KeptEmit ==
  ASSUME Base, RefinedOK, AccumulatedOK, KeptOK, Emit
  PROVE  KeptOK'
<1>0. [Next]_vars
  BY DEF Next, Step
<1>1. /\ IsDocument(doc) /\ Phase = stage /\ Phase \in Splitting /\ doc' = doc
      /\ turn' = turn /\ stage \in {"emit", "fallback"} /\ pieces \in Seq(Piece)
      /\ Covers(pieces, span[1], span[2]) /\ turn \in Nat \ {0}
  BY InputFacts DEF Base, TypeOK, SplitOK, Emit, Phase, Splitting
<1>2. span[1] \in Nat /\ span[2] \in Nat
  BY <1>1, SpanFacts DEF Base
<1>3. Covered \subseteq Covered'
  BY <1>0, StoredStays
<1>4. \A j \in DOMAIN pieces : pieces[j][1] .. pieces[j][2] \subseteq Covered'
  <2> SUFFICES ASSUME NEW j \in DOMAIN pieces
               PROVE  pieces[j][1] .. pieces[j][2] \subseteq Covered'
    OBVIOUS
  <2>1. PICK p : p = pieces[j]
    OBVIOUS
  <2>2. Stored(p)'
    BY <2>1, StoredByEmit
  <2> QED BY <2>1, <2>2, CoveredByLater
<1>5. (span[1] .. span[2]) \ doc.blank \subseteq Covered'
  BY <1>1, <1>2, <1>4, CoveredByPieces
<1>6. CASE stage = "fallback"
  <2>1. span = <<1, doc.length>> /\ ~ByHeadings
    BY <1>1, <1>6 DEF Base, LoopsOK
  <2>2. Owed' \subseteq 1 .. doc.length
    BY <1>1, <2>1 DEF Owed, ByHeadings, Headings
  <2>3. NothingLost'
    BY <1>1, <1>5, <2>1, <2>2 DEF NothingLost
  <2>4. Phase' = "done"
    BY <1>6 DEF Emit, Phase
  <2> QED BY <2>3, <2>4 DEF KeptOK, InSection
<1>7. CASE stage = "emit"
  <2>1. Phase' = "page" /\ stage' # "done"
    BY <1>7 DEF Emit, Phase
  <2>2. /\ turn - 1 \in DOMAIN doc.parts
        /\ span = <<doc.parts[turn - 1].from, doc.parts[turn - 1].to>>
    BY <1>1, <1>7 DEF Base, LoopsOK
  <2>3. \A x \in DOMAIN doc.parts : x < turn - 1 /\ HasText(x) => PartKept(x)
    BY <1>1, <1>7 DEF KeptOK
  <2>4. ASSUME NEW x \in DOMAIN doc.parts, x < turn, HasText(x)
        PROVE  (doc.parts[x].from .. doc.parts[x].to) \ doc.blank \subseteq Covered'
    <3>1. x \in Nat
      BY <1>1, PartFacts
    <3>2. CASE x = turn - 1
      BY <1>5, <2>2, <3>2
    <3>3. CASE x < turn - 1
      BY <1>3, <2>3, <2>4, <3>3 DEF PartKept
    <3> QED BY <1>1, <2>4, <3>1, <3>2, <3>3
  <2>5. (\A x \in DOMAIN doc.parts : x < turn /\ HasText(x) => PartKept(x))'
    BY <1>1, <2>4 DEF PartKept, HasText
  <2> QED BY <2>1, <2>5 DEF KeptOK, InSection, NothingLost
<1> QED BY <1>1, <1>6, <1>7

\* No step forgets text.
LEMMA KeptStep ==
  ASSUME Base, RefinedOK, AccumulatedOK, KeptOK, [Next]_vars
  PROVE  KeptOK'
<1>0. (\A p : Stored(p) => Stored(p)') /\ Covered \subseteq Covered' /\ doc' = doc
  BY StoredStays, DocStays
<1>d. /\ Headings' = Headings /\ \A b : KeptUpTo(b) => KeptUpTo(b)'
      /\ \A x : (HasText(x)' <=> HasText(x)) /\ (PartKept(x) => PartKept(x)')
  BY <1>0 DEF KeptUpTo, PartKept, HasText, Headings, Smallest
<1>1. CASE Start
  <2>1. Phase' \in {"section", "page", "fallback"} /\ stage' # "done"
    BY <1>1 DEF Start, Split, Phase
  <2>2. ASSUME Phase' = "section" PROVE KeptUpTo(doc.paragraphs[turn].from - 1)'
    <3>1. turn' = Smallest(Headings) /\ Headings # {}
      BY <1>1, <2>2 DEF Start, Split, Phase
    <3>2. doc.paragraphs[turn'].from \in Nat
      BY <3>1, InputFacts, FirstHeading DEF Base
    <3>3. doc.paragraphs[turn'].from .. doc.paragraphs[turn'].from - 1 = {}
      BY <3>2
    <3> QED BY <1>0, <1>d, <3>1, <3>3 DEF KeptUpTo, Smallest
  <2>3. ASSUME Phase' = "page" PROVE (\A x \in DOMAIN doc.parts : x < turn /\ HasText(x) => PartKept(x))'
    <3>1. turn' = turn /\ turn = 1
      BY <1>1, <2>3 DEF Start, Split, Phase, Base, LoopsOK
    <3>2. \A x \in DOMAIN doc.parts : ~(x < 1)
      BY InputFacts, PartFacts DEF Base
    <3> QED BY <1>0, <3>1, <3>2
  <2> QED BY <2>1, <2>2, <2>3 DEF KeptOK, NothingLost, InSection
<1>2. CASE Window
  <2>1. /\ turn' = turn /\ section' = section /\ stage = "split" /\ user \in Splitting
        /\ stage' \in {"split", user} /\ Phase' = Phase /\ Phase = user /\ stage' # "done"
    BY <1>2 DEF Window, outline, Phase, Base, TypeOK, LoopsOK, Splitting
  <2> QED BY <1>0, <1>d, <2>1 DEF KeptOK, NothingLost, InSection, Splitting
<1>3. CASE UNCHANGED vars
  <2>1. /\ turn' = turn /\ section' = section /\ stage' = stage /\ user' = user /\ chunks' = chunks
        /\ refined' = refined /\ accumulated' = accumulated
    BY <1>3 DEF vars, outline, split, fence
  <2>2. Phase' = Phase /\ Covered' = Covered /\ Owed' = Owed
    BY <1>0, <2>1 DEF Phase, Covered, Owed, Headings
  <2>3. \A j : /\ Pending(refined[j])' <=> Pending(refined[j])
               /\ Stored(refined[j])' <=> Stored(refined[j])
    BY <2>1 DEF Pending, Stored
  <2> QED BY <1>0, <1>d, <2>1, <2>2, <2>3 DEF KeptOK, NothingLost
<1>4. CASE Overrun
  BY <1>4 DEF Overrun, Phase, KeptOK, NothingLost, InSection
<1>5. CASE Group \/ Grouped \/ Refine
  <2>1. /\ section' = section /\ stage' # "done"
        /\ Phase \in {"group", "refine"} /\ Phase' \in {"group", "refine", "accumulate"}
        /\ Phase' = "accumulate" => turn' = 1
    BY <1>5 DEF Group, Grouped, Refine, outline, Split, Phase
  <2>2. turn' = 1 => 1 .. turn' - 1 = {}
    OBVIOUS
  <2> QED BY <1>0, <1>d, <2>1, <2>2 DEF KeptOK, NothingLost, InSection
<1>6. CASE PagePart
  <2>1. /\ Phase = "page" /\ turn' = turn + 1 /\ turn \in Nat /\ IsDocument(doc) /\ stage' # "done"
    BY <1>6, InputFacts DEF PagePart, Phase, Base, TypeOK, Split
  <2>2. \A x \in DOMAIN doc.parts : x < turn /\ HasText(x) => PartKept(x)
    BY <2>1 DEF KeptOK
  <2>3. \/ Phase' = "page" /\ ~HasText(turn)
        \/ Phase' = "emit"
    <3>1. \/ doc.parts[turn].number > 0 /\ stage' = stage
          \/ doc.parts[turn].to < doc.parts[turn].from /\ turn \in DOMAIN doc.parts /\ stage' = stage
          \/ stage' = "split" /\ user' = "emit"
      <4>1. doc.parts \in Seq([from : Nat, to : Nat, number : Nat])
        BY <2>1 DEF IsDocument
      <4>2. Len(doc.parts) \in Nat /\ DOMAIN doc.parts = 1 .. Len(doc.parts)
        BY <4>1, SeqFacts, Zenon
      <4> QED BY <1>6, <2>1, <4>2 DEF PagePart, Split, Base, TypeOK
    <3>2. turn \in DOMAIN doc.parts => doc.parts[turn].from \in Nat /\ doc.parts[turn].to \in Nat
      BY <2>1, PartFacts
    <3>3. stage = "page"
      BY <1>6 DEF PagePart
    <3> QED BY <3>1, <3>2, <3>3 DEF HasText, Phase
  <2>4. \A x \in DOMAIN doc.parts : (x < turn + 1 => x = turn \/ x < turn) /\ (x < turn + 1 - 1 => x < turn)
    BY <2>1, PartFacts
  <2>5. CASE Phase' = "page" /\ ~HasText(turn)
    <3>1. \A x \in DOMAIN doc.parts : x < turn' /\ HasText(x) => PartKept(x)
      BY <2>1, <2>2, <2>4, <2>5
    <3>2. (\A x \in DOMAIN doc.parts : x < turn /\ HasText(x) => PartKept(x))'
      BY <1>0, <1>d, <3>1
    <3> QED BY <2>1, <2>5, <3>2 DEF KeptOK, NothingLost, InSection
  <2>6. CASE Phase' = "emit"
    <3>1. \A x \in DOMAIN doc.parts : x < turn' - 1 /\ HasText(x) => PartKept(x)
      BY <2>1, <2>2, <2>4
    <3>2. (\A x \in DOMAIN doc.parts : x < turn - 1 /\ HasText(x) => PartKept(x))'
      BY <1>0, <1>d, <3>1
    <3> QED BY <2>1, <2>6, <3>2 DEF KeptOK, NothingLost, InSection
  <2> QED BY <2>3, <2>5, <2>6
<1>7. CASE EndOfPages
  <2>1. CASE chunks # <<>> /\ stage' = "done"
    <3>1. Phase' = "done" /\ Phase = "page" /\ turn > Len(doc.parts) /\ ByPages /\ IsDocument(doc)
          /\ turn \in Nat
      BY <1>7, <2>1, InputFacts DEF EndOfPages, Phase, Base, LoopsOK, TypeOK
    <3>2. \A x \in DOMAIN doc.parts : HasText(x) => PartKept(x)
      <4>1. \A x \in DOMAIN doc.parts : x < turn
        BY <3>1, PartFacts
      <4> QED BY <3>1, <4>1 DEF KeptOK
    <3>3. Owed = { x \in 1 .. doc.length : \E i \in DOMAIN doc.parts :
             LET p == doc.parts[i] IN p.number = 0 /\ x \in p.from .. p.to }
      BY <3>1 DEF Owed, ByPages
    <3>4. Owed' = Owed
      BY <1>0 DEF Owed, Headings
    <3>5. ASSUME NEW x \in Owed, x \notin doc.blank PROVE x \in Covered
      <4>1. PICK i \in DOMAIN doc.parts : doc.parts[i].number = 0 /\ x \in doc.parts[i].from .. doc.parts[i].to
        BY <3>3
      <4>2. HasText(i)
        <5>1. doc.parts[i].from \in Nat /\ doc.parts[i].to \in Nat
          BY <3>1, PartFacts
        <5> QED BY <4>1, <5>1 DEF HasText
      <4> QED BY <3>2, <3>5, <4>1, <4>2 DEF PartKept
    <3>6. NothingLost'
      BY <1>0, <3>4, <3>5 DEF NothingLost
    <3> QED BY <3>1, <3>6 DEF KeptOK, InSection
  <2>2. CASE Split(<<1, doc.length>>, "fallback")
    BY <2>2 DEF Split, Phase, KeptOK, NothingLost, InSection
  <2> QED BY <1>7, <2>1, <2>2 DEF EndOfPages
<1> QED BY <1>1, <1>2, <1>3, <1>4, <1>5, <1>6, <1>7, KeptSection, KeptAccumulate,
           KeptEndOfSection, KeptEmit, Zenon DEF Next, Step, Finished

\* What has been passed is in a chunk, or about to be.
THEOREM KeptInvariant == Spec => []KeptOK
<1>1. Init => KeptOK
  BY DEF Init, KeptOK, Phase, NothingLost, InSection
<1>2. Base /\ RefinedOK /\ AccumulatedOK /\ KeptOK /\ [Next]_vars => KeptOK'
  BY KeptStep
<1> QED BY <1>1, <1>2, BaseInvariant, RefinedInvariant, AccumulatedInvariant, PTL DEF Spec

\* When chunking is done, every character of what is to be chunked is in a chunk
\* or is blank, whatever the windows, the blocks and the sections were.
THEOREM NoTextIsLost == Spec => []NothingLost
<1>1. KeptOK => NothingLost
  BY DEF KeptOK
<1> QED BY <1>1, KeptInvariant, PTL

-------------------------------------------------------------------------------
(* The heading paths *)

\* A path is one as long as the document is the same.
LEMMA PathFrame == ASSUME doc' = doc PROVE \A s, h : IsPath(s, h)' <=> IsPath(s, h)
BY DEF IsPath, Above, Level, Headings

\* Headings and their levels are numbers.
LEMMA HeadingFacts ==
  ASSUME IsDocument(doc), NEW h \in Headings
  PROVE  h \in Nat /\ Level(h) \in Nat /\ h \in 1 .. Len(doc.paragraphs)
BY SectionFacts, ParagraphFacts DEF Level

\* A path has the headings above its last one.
LEMMA OnPath ==
  ASSUME IsDocument(doc), NEW s \in Seq(Nat), NEW h, IsPath(s, h), NEW n \in 1 .. Len(s)
  PROVE  /\ s[n] \in Headings /\ s[n] <= h
         /\ \A x \in Headings : s[n] < x /\ x <= h => Level(s[n]) < Level(x)
<1>1. s[n] \in { s[m] : m \in DOMAIN s }
  BY SeqFacts
<1>2. s[n] \in { a \in Headings : Above(a, h) } \union {h} /\ h \in Headings
  BY <1>1 DEF IsPath
<1>3. CASE s[n] \in Headings /\ Above(s[n], h)
  <2>1. s[n] \in Nat /\ h \in Nat
    BY <1>2, <1>3, HeadingFacts
  <2> QED BY <1>3, <2>1 DEF Above
<1>4. CASE s[n] = h
  <2>1. h \in Nat /\ \A x \in Headings : x \in Nat
    BY <1>2, HeadingFacts
  <2> QED BY <1>2, <1>4, <2>1
<1> QED BY <1>2, <1>3, <1>4

\* The next heading, on the headings before it that it stays below.
LEMMA NextPath ==
  ASSUME IsDocument(doc), stack \in Seq(Nat), NEW h2 \in Headings,
         \/ stack = <<>> /\ h2 = Smallest(Headings)
         \/ \E h \in Headings : /\ IsPath(stack, h) /\ h < h2
                                /\ \A x \in Headings : x > h => x >= h2
  PROVE  IsPath(Append(Popped(Level(h2)), h2), h2)
<1>1. PICK k \in 0 .. Len(stack) :
           /\ Popped(Level(h2)) \in Seq(Nat) /\ Len(Popped(Level(h2))) = k
           /\ \A n \in 1 .. k : Popped(Level(h2))[n] = stack[n]
           /\ k > 0 => Level(stack[k]) < Level(h2)
           /\ \A n \in 1 .. Len(stack) : Level(stack[n]) < Level(h2) => n <= k
  BY PoppedFacts
<1>2. h2 \in Nat /\ Level(h2) \in Nat /\ Len(stack) \in Nat /\ k \in Nat /\ k <= Len(stack)
  BY <1>1, HeadingFacts
<1> DEFINE s == Append(Popped(Level(h2)), h2)
<1>3. /\ s \in Seq(Nat) /\ Len(s) = k + 1 /\ DOMAIN s = 1 .. k + 1 /\ s[k + 1] = h2
      /\ \A n \in 1 .. k : s[n] = stack[n]
  BY <1>1, <1>2, AppendFacts
<1>4. s # <<>> /\ s[Len(s)] = h2
  BY <1>2, <1>3
<1> HIDE DEF s
<1>5. CASE stack = <<>> /\ h2 = Smallest(Headings)
  <2>1. k = 0
    BY <1>1, <1>5
  <2>2. \A m, n \in DOMAIN s : ~(m < n)
    BY <1>3, <2>1
  <2>3. { s[n] : n \in DOMAIN s } = {h2}
    <3>1. DOMAIN s = {1} /\ s[1] = h2
      BY <1>3, <2>1
    <3> QED BY <3>1
  <2>4. \A a \in Headings : ~(a < h2)
    <3>1. \A a \in Headings : h2 <= a /\ a \in Nat
      BY <1>5, FirstHeading, HeadingFacts
    <3> QED BY <1>2, <3>1
  <2>5. { a \in Headings : Above(a, h2) } = {}
    BY <2>4 DEF Above
  <2> QED BY <1>4, <2>2, <2>3, <2>5 DEF IsPath, s
<1>6. ASSUME NEW h \in Headings, IsPath(stack, h), h < h2, \A x \in Headings : x > h => x >= h2
      PROVE  IsPath(s, h2)
  <2>0. h \in Nat /\ \A x \in Headings : x \in Nat /\ Level(x) \in Nat
    BY HeadingFacts
  <2>1. \A n \in 1 .. k : /\ stack[n] \in Headings /\ stack[n] <= h
                          /\ \A x \in Headings : stack[n] < x /\ x <= h => Level(stack[n]) < Level(x)
    BY <1>2, <1>6, OnPath
  <2>2. \A m, n \in 1 .. k : m < n => stack[m] < stack[n] /\ Level(stack[m]) < Level(stack[n])
    <3>1. \A n \in 1 .. k : n \in DOMAIN stack
      BY <1>2
    <3> QED BY <1>6, <3>1 DEF IsPath
  <2>3. \A n \in 1 .. k : stack[n] < h2 /\ Level(stack[n]) < Level(h2)
    <3> SUFFICES ASSUME NEW n \in 1 .. k PROVE stack[n] < h2 /\ Level(stack[n]) < Level(h2)
      OBVIOUS
    <3>1. Level(stack[k]) < Level(h2) /\ k \in 1 .. k
      BY <1>1, <1>2
    <3>2. stack[n] \in Nat /\ Level(stack[n]) \in Nat /\ Level(stack[k]) \in Nat
      BY <2>0, <2>1, <3>1
    <3>3. n = k \/ Level(stack[n]) < Level(stack[k])
      BY <1>2, <2>2, <3>1
    <3> QED BY <1>2, <1>6, <2>0, <2>1, <3>1, <3>2, <3>3
  <2>4. \A m, n \in DOMAIN s : m < n => s[m] < s[n] /\ Level(s[m]) < Level(s[n])
    <3> SUFFICES ASSUME NEW m \in 1 .. k + 1, NEW n \in 1 .. k + 1, m < n
                 PROVE  s[m] < s[n] /\ Level(s[m]) < Level(s[n])
      BY <1>3
    <3>1. m \in 1 .. k /\ (n \in 1 .. k \/ n = k + 1)
      BY <1>2
    <3> QED BY <1>3, <2>2, <2>3, <3>1
  <2>5. \A n \in 1 .. k : Above(stack[n], h2)
    <3> SUFFICES ASSUME NEW n \in 1 .. k, NEW x \in Headings, stack[n] < x, x <= h2
                 PROVE  Level(stack[n]) < Level(x)
      BY <2>3 DEF Above
    <3>1. CASE x <= h
      BY <2>1, <3>1
    <3>2. CASE x > h
      <4>1. x = h2
        BY <1>2, <1>6, <2>0, <3>2
      <4> QED BY <2>3, <4>1
    <3> QED BY <2>0, <3>1, <3>2
  <2>6. ASSUME NEW a \in Headings, Above(a, h2) PROVE \E n \in 1 .. k : stack[n] = a
    <3>1. a < h2 /\ \A x \in Headings : a < x /\ x <= h2 => Level(a) < Level(x)
      BY <2>6 DEF Above
    <3>2. a <= h /\ Level(a) < Level(h2)
      BY <1>2, <1>6, <2>0, <3>1
    <3>3. a = h \/ Above(a, h)
      BY <1>2, <1>6, <2>0, <3>1, <3>2 DEF Above
    <3>4. a \in { stack[n] : n \in DOMAIN stack }
      BY <1>6, <3>3 DEF IsPath
    <3>5. PICK n \in 1 .. Len(stack) : stack[n] = a
      BY <3>4
    <3>6. n <= k
      BY <1>1, <3>2, <3>5
    <3> QED BY <1>2, <3>5, <3>6
  <2>7. { s[n] : n \in DOMAIN s } = { a \in Headings : Above(a, h2) } \union {h2}
    <3>1. ASSUME NEW n \in DOMAIN s PROVE s[n] \in { a \in Headings : Above(a, h2) } \union {h2}
      <4>1. n \in 1 .. k \/ n = k + 1
        BY <1>2, <1>3
      <4> QED BY <1>3, <2>1, <2>5, <4>1
    <3>2. ASSUME NEW a \in { b \in Headings : Above(b, h2) } \union {h2}
          PROVE  \E n \in DOMAIN s : s[n] = a
      <4>1. CASE a = h2
        BY <1>2, <1>3, <4>1
      <4>2. CASE a \in Headings /\ Above(a, h2)
        <5>1. PICK n \in 1 .. k : stack[n] = a
          BY <2>6, <4>2
        <5>2. n \in DOMAIN s
          BY <1>2, <1>3
        <5> QED BY <1>3, <5>1, <5>2
      <4> QED BY <4>1, <4>2
    <3> QED BY <3>1, <3>2
  <2> QED BY <1>4, <2>4, <2>7 DEF IsPath
<1> QED BY <1>5, <1>6 DEF s

\* The stack once a section is entered.
LEMMA PathOfSection ==
  ASSUME Base, StackOK, Section
  PROVE  IsPath(stack', turn)
<1>1. /\ Phase = "section" /\ IsDocument(doc) /\ turn \in Headings /\ stack \in Seq(Nat)
      /\ stack' = Append(Popped(Level(turn)), turn)
  BY InputFacts DEF Base, TypeOK, LoopsOK, Section, Phase
<1>2. PICK h2 \in Headings : h2 = turn
  BY <1>1
<1>3. \/ stack = <<>> /\ h2 = Smallest(Headings)
      \/ \E h \in Headings : /\ IsPath(stack, h) /\ h < h2
                             /\ \A x \in Headings : x > h => x >= h2
  <2>1. CASE section \in Headings /\ turn = LastOf(section) + 1 /\ IsPath(stack, section)
    <3>1. PICK h \in Headings : h = section
      BY <2>1
    <3>2. h < h2 /\ \A x \in Headings : x > h => x >= h2
      <4>1. /\ LastOf(h) \in h .. Len(doc.paragraphs) /\ h \in Nat
            /\ \A x \in Headings : x > h => x > LastOf(h)
            /\ \A x \in Headings : x \in Nat
        BY <1>1, SectionEnds, HeadingFacts
      <4> QED BY <1>2, <2>1, <3>1, <4>1
    <3> QED BY <2>1, <3>1, <3>2
  <2>2. CASE stack = <<>> /\ turn = Smallest(Headings)
    BY <1>2, <2>2
  <2> QED BY <1>1, <2>1, <2>2 DEF StackOK
<1>4. IsPath(Append(Popped(Level(h2)), h2), h2)
  BY <1>1, <1>3, NextPath
<1> QED BY <1>1, <1>2, <1>4

\* The stack is the path of the section in every step.
LEMMA StackStep ==
  ASSUME Base, StackOK, [Next]_vars
  PROVE  StackOK'
<1>0. doc' = doc /\ Headings' = Headings /\ (\A s, h : IsPath(s, h)' <=> IsPath(s, h))
      /\ \A h : LastOf(h)' = LastOf(h)
  BY DocStays, PathFrame, DocFrame
<1>1. CASE Start
  <2>1. Phase' \in {"section", "page", "fallback"} /\ stack' = stack /\ stack = <<>>
        /\ (Phase' = "section" => turn' = Smallest(Headings))
    BY <1>1 DEF Start, Split, Phase, Base, LoopsOK, outline
  <2> QED BY <1>0, <2>1 DEF StackOK, InSection, Smallest
<1>2. CASE Section
  <2>1. IsPath(stack', turn) /\ section' = turn /\ turn \in Headings /\ IsDocument(doc)
    BY <1>2, PathOfSection, InputFacts DEF Section, Base, LoopsOK, Phase
  <2>2. PICK h \in Headings : h = turn
    BY <2>1
  <2>3. IsPath(stack, section)'
    BY <1>0, <2>1
  <2>4. CASE NextSection(turn)
    <3>1. stage' \in {"done", "section"} /\ turn' = LastOf(h) + 1
      BY <2>1, <2>2, <2>4, NextSectionFacts
    <3> QED BY <1>0, <2>1, <2>2, <2>3, <3>1 DEF StackOK, Phase, InSection
  <2>5. CASE stage' = "group"
    BY <2>3, <2>5 DEF StackOK, Phase, InSection
  <2> QED BY <1>2, <2>4, <2>5 DEF Section
<1>3. CASE EndOfSection
  <2>1. /\ Phase = "accumulate" /\ section' = section /\ stack' = stack /\ IsDocument(doc)
        /\ IsPath(stack, section) /\ section \in Headings
    BY <1>3, InputFacts DEF EndOfSection, outline, Phase, Base, LoopsOK, StackOK, InSection
  <2>2. PICK h \in Headings : h = section
    BY <2>1
  <2>3. stage' \in {"done", "section"} /\ turn' = LastOf(h) + 1
    BY <1>3, <2>1, <2>2, NextSectionFacts DEF EndOfSection
  <2> QED BY <1>0, <2>1, <2>2, <2>3 DEF StackOK, Phase, InSection
<1>4. CASE Group \/ Grouped \/ Refine \/ Accumulate
  <2>1. /\ section' = section /\ stack' = stack /\ Phase \in InSection /\ Phase' \in InSection
    BY <1>4 DEF Group, Grouped, Refine, Accumulate, outline, Split, Phase, InSection
  <2> QED BY <1>0, <2>1 DEF StackOK, InSection
<1>5. CASE Window \/ UNCHANGED vars
  <2>1. /\ section' = section /\ stack' = stack /\ turn' = turn
    BY <1>5 DEF Window, vars, outline, Phase
  <2>2. Phase' = Phase
    BY <1>5 DEF Window, vars, split, Phase
  <2> QED BY <1>0, <2>1, <2>2 DEF StackOK, Smallest
<1>6. CASE Overrun \/ PagePart \/ Emit \/ EndOfPages
  <2>1. Phase' \notin InSection \union {"section"}
    BY <1>6 DEF Overrun, PagePart, Emit, EndOfPages, Split, Phase, InSection
  <2> QED BY <2>1 DEF StackOK, InSection
<1> QED BY <1>1, <1>2, <1>3, <1>4, <1>5, <1>6, Zenon DEF Next, Step, Finished

\* So a chunk has the path of its section.
LEMMA PathsStep ==
  ASSUME Base, RefinedOK, AccumulatedOK, StackOK, PathsOK, [Next]_vars
  PROVE  PathsOK'
<1>0. doc' = doc /\ \A s, h : IsPath(s, h)' <=> IsPath(s, h)
  BY DocStays, PathFrame
<1>1. CASE chunks' = chunks
  BY <1>0, <1>1 DEF PathsOK
<1>2. CASE Emit
  <2>1. PICK n \in Nat, k \in Nat :
    /\ DOMAIN chunks = 1 .. n /\ DOMAIN chunks' = 1 .. n + k
    /\ \A i \in 1 .. n : chunks'[i] = chunks[i]
    /\ \A i \in 1 .. n + k :
         \/ i \in 1 .. n
         \/ /\ i - n \in 1 .. k
            /\ chunks'[i] = [index |-> i - 1, pieces |-> <<pieces[i - n]>>, path |-> <<>>, page |-> page]
    BY <1>2, EmittedChunks
  <2>2. \A i \in DOMAIN chunks' : chunks'[i].path # <<>> => i \in DOMAIN chunks /\ chunks'[i] = chunks[i]
    BY <2>1
  <2> QED BY <1>0, <2>2 DEF PathsOK
<1>3. ASSUME NEW ps \in Seq(Piece), NEW path \in Seq(Nat),
             chunks' = Append(chunks, Chunk(1, ps, path)), path = stack',
             Section \/ Accumulate \/ EndOfSection
      PROVE  PathsOK'
  <2>1. PICK n \in Nat :
    /\ DOMAIN chunks = 1 .. n /\ DOMAIN chunks' = 1 .. n + 1
    /\ \A i \in 1 .. n : chunks'[i] = chunks[i]
    /\ chunks'[n + 1] = [index |-> n, pieces |-> ps, path |-> path, page |-> page]
    BY <1>3, AppendedChunk
  <2>2. \E h : IsPath(path, h)
    <3>1. CASE Section
      BY <1>3, <3>1, PathOfSection
    <3>2. CASE Accumulate \/ EndOfSection
      <4>1. stack' = stack /\ Phase = "accumulate"
        BY <3>2 DEF Accumulate, EndOfSection, outline, Phase
      <4> QED BY <1>3, <4>1 DEF StackOK, InSection
    <3> QED BY <1>3, <3>1, <3>2
  <2>3. IsPath(path, path[Len(path)])
    BY <2>2 DEF IsPath
  <2>4. \A i \in DOMAIN chunks' : i \in DOMAIN chunks \/ i = n + 1
    BY <2>1
  <2>5. chunks'[n + 1].path = path
    BY <2>1
  <2>6. ASSUME NEW i \in DOMAIN chunks', chunks'[i].path # <<>>
        PROVE  IsPath(chunks[i].path, chunks[i].path[Len(chunks[i].path)])'
    <3>1. PICK p : p = chunks'[i].path
      OBVIOUS
    <3>2. IsPath(p, p[Len(p)])
      <4>1. CASE i \in DOMAIN chunks
        BY <2>1, <2>6, <3>1, <4>1 DEF PathsOK
      <4>2. CASE i = n + 1
        BY <2>3, <2>5, <3>1, <4>2
      <4> QED BY <2>4, <4>1, <4>2
    <3>3. IsPath(p, p[Len(p)])'
      BY <1>0, <3>2
    <3> QED BY <3>1, <3>3
  <2> QED BY <2>6 DEF PathsOK
<1> QED BY <1>1, <1>2, <1>3, ChunksAdded

\* Whatever the headings, the path of a chunk is its heading and the headings
\* above it, in the order of the text.
THEOREM EveryPathIsAncestors == Spec => []PathsAreAncestors
<1>1. Init => StackOK /\ PathsOK
  BY DEF Init, StackOK, PathsOK, Phase, InSection
<1>2. Base /\ StackOK /\ [Next]_vars => StackOK'
  BY StackStep
<1>3. Base /\ RefinedOK /\ AccumulatedOK /\ StackOK /\ PathsOK /\ [Next]_vars => PathsOK'
  BY PathsStep
<1>4. PathsOK => PathsAreAncestors
  BY DEF PathsOK, PathsAreAncestors, IsPath
<1> QED BY <1>1, <1>2, <1>3, <1>4, BaseInvariant, RefinedInvariant, AccumulatedInvariant,
           PTL DEF Spec

-------------------------------------------------------------------------------
(* Code fences stay together *)

\* Odd and even.
LEMMA Parity ==
  ASSUME NEW n \in Nat
  PROVE  /\ n % 2 \in {0, 1} /\ 0 % 2 = 0
         /\ n % 2 = 0 <=> (n + 1) % 2 = 1
OBVIOUS

\* One paragraph more.
LEMMA ClosedMore ==
  ASSUME IsDocument(doc), NEW i \in 1 .. Len(doc.paragraphs)
  PROVE  /\ Closed(i) \in BOOLEAN /\ Closed(i - 1) \in BOOLEAN
         /\ doc.paragraphs[i].odd \in BOOLEAN
         /\ doc.paragraphs[i].odd => (Closed(i) <=> ~Closed(i - 1))
         /\ ~doc.paragraphs[i].odd => (Closed(i) <=> Closed(i - 1))
<1>0. i \in Nat /\ doc.paragraphs[i].odd \in BOOLEAN
  BY ParagraphFacts
<1>1. IsFiniteSet(Odds(i - 1)) /\ Cardinality(Odds(i - 1)) \in Nat
  <2>1. IsFiniteSet(1 .. i - 1)
    <3>1. 1 \in Int /\ i - 1 \in Int
      BY <1>0
    <3> QED BY <3>1, FS_Interval
  <2>2. Odds(i - 1) \subseteq 1 .. i - 1
    BY DEF Odds
  <2> QED BY <2>1, <2>2, FS_Subset, FS_CardinalityType
<1>2. (\A x : x \in 1 .. i <=> x \in 1 .. i - 1 \/ x = i) /\ i \notin 1 .. i - 1
  BY <1>0
<1> DEFINE c == Cardinality(Odds(i - 1))
<1>3. CASE doc.paragraphs[i].odd
  <2>1. Odds(i) = Odds(i - 1) \union {i} /\ i \notin Odds(i - 1)
    BY <1>2, <1>3 DEF Odds
  <2>2. Cardinality(Odds(i)) = c + 1
    BY <1>1, <2>1, FS_AddElement
  <2>3. (c % 2 = 0) <=> ~((c + 1) % 2 = 0)
    <3> HIDE DEF c
    <3>1. c \in Nat /\ c + 1 \in Nat
      BY <1>1 DEF c
    <3> QED BY <3>1, Parity
  <2> QED BY <1>0, <1>3, <2>2, <2>3 DEF Closed, Odds
<1>4. CASE ~doc.paragraphs[i].odd
  <2>1. Odds(i) = Odds(i - 1)
    BY <1>2, <1>4 DEF Odds
  <2> QED BY <1>0, <1>4, <2>1 DEF Closed, Odds
<1> QED BY <1>0, <1>3, <1>4

\* A code block begins and ends in one section.
LEMMA FencedFacts ==
  ASSUME IsDocument(doc), Sound, NEW i \in DOMAIN doc.paragraphs, NEW j \in DOMAIN doc.paragraphs,
         Fenced(i, j)
  PROVE  /\ i \in 1 .. Len(doc.paragraphs) /\ j \in 1 .. Len(doc.paragraphs) /\ i < j
         /\ \A h \in Headings : i < h => j < h
         /\ \A h \in Headings : h <= i /\ i <= LastOf(h) => j <= LastOf(h)
<1>1. /\ i \in 1 .. Len(doc.paragraphs) /\ j \in 1 .. Len(doc.paragraphs) /\ i < j
      /\ Len(doc.paragraphs) \in Nat
  BY ParagraphFacts DEF Fenced
<1>2. ASSUME NEW h \in Headings, i < h PROVE j < h
  <2>1. h \in 1 .. Len(doc.paragraphs)
    BY SectionEnds
  <2> SUFFICES ASSUME h <= j PROVE FALSE
    BY <1>1, <2>1
  <2>2. h - 1 \in i .. j /\ h - 1 # j
    BY <1>1, <1>2, <2>1
  <2>3. Closed(h - 1)
    BY DEF Sound
  <2> QED BY <2>2, <2>3 DEF Fenced
<1>3. ASSUME NEW h \in Headings, h <= i, i <= LastOf(h) PROVE j <= LastOf(h)
  <2>1. /\ LastOf(h) \in h .. Len(doc.paragraphs) /\ h \in 1 .. Len(doc.paragraphs)
        /\ LastOf(h) < Len(doc.paragraphs) => LastOf(h) + 1 \in Headings
    BY SectionEnds
  <2>2. CASE LastOf(h) < Len(doc.paragraphs)
    <3>1. j < LastOf(h) + 1
      BY <1>1, <1>2, <1>3, <2>1, <2>2
    <3> QED BY <1>1, <2>1, <3>1
  <2>3. CASE LastOf(h) = Len(doc.paragraphs)
    BY <1>1, <2>3
  <2> QED BY <1>1, <2>1, <2>2, <2>3
<1> QED BY <1>1, <1>2, <1>3

\* A piece that is the whole of a section has all its code blocks.
LEMMA SectionTogether ==
  ASSUME IsDocument(doc), NEW h \in Headings, NEW i \in h .. LastOf(h), NEW j \in h .. LastOf(h)
  PROVE  SectionText(h)[1] <= doc.paragraphs[i].from /\ doc.paragraphs[j].to <= SectionText(h)[2]
<1> DEFINE P == doc.paragraphs
<1>1. /\ h \in 1 .. Len(P) /\ LastOf(h) \in 1 .. Len(P) /\ Len(P) \in Nat
      /\ SectionText(h)[1] = P[h].from /\ SectionText(h)[2] = P[LastOf(h)].to
  BY SectionFacts, ParagraphFacts
<1>2. i \in 1 .. Len(P) /\ j \in 1 .. Len(P)
  BY <1>1
<1>3. P[h].from <= P[i].from
  <2>1. CASE h = i
    BY <1>1, <2>1, ParagraphFacts
  <2>2. CASE h < i
    <3>1. P[h].to < P[i].from
      BY <1>1, <1>2, <2>2, ParagraphsInOrder
    <3> QED BY <1>1, <1>2, <3>1, ParagraphFacts
  <2> QED BY <1>1, <2>1, <2>2
<1>4. P[j].to <= P[LastOf(h)].to
  <2>1. CASE j = LastOf(h)
    BY <1>1, <2>1, ParagraphFacts
  <2>2. CASE j < LastOf(h)
    <3>1. P[j].to < P[LastOf(h)].from
      BY <1>1, <1>2, <2>2, ParagraphsInOrder
    <3> QED BY <1>1, <1>2, <3>1, ParagraphFacts
  <2> QED BY <1>1, <2>1, <2>2
<1> QED BY <1>1, <1>3, <1>4

\* What is a code block does not change.
LEMMA FenceFrame ==
  ASSUME doc' = doc, config' = config
  PROVE  /\ Sound' <=> Sound
         /\ \A x : Closed(x)' <=> Closed(x)
         /\ \A i, j : (Small(i, j)' <=> Small(i, j)) /\ Code(i, j)' = Code(i, j)
<1>1. \A x : Closed(x)' <=> Closed(x)
  BY DEF Closed
<1>2. Headings' = Headings
  BY DEF Headings
<1>3. \A i, j : Code(i, j)' = Code(i, j)
  BY DEF Code
<1> QED BY <1>1, <1>2, <1>3 DEF Sound, Small, Fenced, Size

\* Grouping follows the fences: a block is open exactly while a fence is.
LEMMA OpenGroup ==
  ASSUME Base, OpenOK, Sound, Group
  PROVE  OpenOK'
<1>1. /\ Phase = "group" /\ turn <= LastOf(section) /\ turn' = turn + 1
      /\ inside' = FenceOpen(doc.paragraphs[turn].odd) /\ inside \in BOOLEAN
      /\ doc' = doc /\ config' = config /\ section' = section /\ IsDocument(doc)
      /\ section \in Headings /\ turn \in section .. LastOf(section) + 1 /\ turn \in Nat
      /\ open \in Nat /\ (inside <=> open # 0)
      /\ (open # 0 => open \in section .. turn - 1)
  BY InputFacts DEF Group, outline, Phase, Base, TypeOK, LoopsOK, BlocksOK, InSection
<1>2. PICK h \in Headings, t \in Nat : h = section /\ t = turn
  BY <1>1
<1>3. /\ t \in 1 .. Len(doc.paragraphs) /\ h \in Nat /\ LastOf(h) \in Nat
  <2>1. /\ h \in 1 .. Len(doc.paragraphs) /\ LastOf(h) \in h .. Len(doc.paragraphs)
        /\ Len(doc.paragraphs) \in Nat
    BY <1>1, SectionFacts, ParagraphFacts
  <2> QED BY <1>1, <1>2, <2>1
<1>4. inside <=> ~Closed(t - 1)
  BY <1>1, <1>2 DEF OpenOK
<1>5. inside' <=> ~Closed(t)
  <2>1. inside' <=> ~(inside <=> doc.paragraphs[t].odd)
    BY <1>1, <1>2, <1>3, ClosedMore, Zenon DEF FenceOpen
  <2> QED BY <1>1, <1>3, <1>4, <2>1, ClosedMore, Zenon
<1>6. \A x : Closed(x)' <=> Closed(x)
  BY <1>1, FenceFrame
<1>7. ASSUME open' # 0 PROVE Closed(open' - 1) /\ \A x \in open' .. t : ~Closed(x)
  <2>1. open' = (IF open = 0 THEN t ELSE open) /\ inside'
    BY <1>2, <1>7 DEF Group
  <2>2. CASE open = 0
    <3>1. open' = t /\ Closed(t - 1) /\ ~Closed(t)
      BY <1>1, <1>4, <1>5, <2>1, <2>2
    <3> QED BY <1>3, <3>1
  <2>3. CASE open # 0
    <3>1. open' = open /\ Closed(open - 1) /\ (\A x \in open .. t - 1 : ~Closed(x)) /\ ~Closed(t)
      BY <1>1, <1>2, <1>5, <2>1, <2>3 DEF OpenOK
    <3>2. \A x \in open .. t : x = t \/ x \in open .. t - 1
      BY <1>1
    <3> QED BY <3>1, <3>2
  <2> QED BY <2>2, <2>3
<1>8. turn' - 1 = t
  BY <1>1, <1>2
<1>9. (turn <= LastOf(section) => (inside <=> ~Closed(turn - 1)))'
  BY <1>5, <1>6, <1>8
<1>10. (open # 0 => Closed(open - 1) /\ \A x \in open .. turn - 1 : ~Closed(x))'
  BY <1>6, <1>7, <1>8
<1> QED BY <1>9, <1>10 DEF OpenOK

\* A section begins without an open fence.
LEMMA OpenStep ==
  ASSUME Base, OpenOK, [Next]_vars
  PROVE  OpenOK'
<1>0. doc' = doc /\ config' = config /\ (Sound' <=> Sound) /\ \A x : Closed(x)' <=> Closed(x)
  BY DocStays, FenceFrame
<1>1. CASE Section
  <2>1. /\ open' = 0 /\ ~inside' /\ turn \in Headings /\ (Phase' = "group" => turn' = turn)
    BY <1>1 DEF Section, fence, Phase, NextSection, Base, LoopsOK
  <2>2. Sound => Closed(turn - 1)
    BY <2>1 DEF Sound
  <2> QED BY <1>0, <2>1, <2>2 DEF OpenOK
<1>2. CASE UNCHANGED vars
  <2>1. /\ Phase' = Phase /\ turn' = turn /\ section' = section /\ open' = open /\ inside' = inside
        /\ LastOf(section)' = LastOf(section)
    BY <1>2 DEF vars, outline, fence, split, Phase, LastOf, Headings
  <2> QED BY <1>0, <2>1 DEF OpenOK
<1>3. CASE Start \/ Window \/ Overrun \/ Grouped \/ Refine \/ Accumulate \/ EndOfSection
           \/ PagePart \/ Emit \/ EndOfPages
  <2>1. Phase' # "group"
    <3>1. CASE Window
      <4>1. user \in Splitting
        BY <3>1 DEF Base, TypeOK, LoopsOK, Window
      <4>2. user' = user /\ stage' \in {"split", user}
        BY <3>1 DEF Window
      <4> QED BY <4>1, <4>2 DEF Phase, Splitting
    <3>2. CASE ~Window
      BY <1>3, <3>2 DEF Start, Overrun, Grouped, Refine, Accumulate, EndOfSection, PagePart, Emit,
                EndOfPages, NextSection, Split, Phase
    <3> QED BY <3>1, <3>2
  <2> QED BY <2>1 DEF OpenOK
<1>4. CASE Group
  BY <1>0, <1>4, OpenGroup DEF OpenOK
<1> QED BY <1>1, <1>2, <1>3, <1>4, Zenon DEF Next, Step, Finished

\* A text that fits is one piece.
LEMMA WholeStep ==
  ASSUME Base, WholeOK, [Next]_vars
  PROVE  WholeOK'
<1>1. CASE Window
  <2>1. /\ span' = span /\ config' = config
        /\ pieces' = IF Size(span) = 0 THEN <<>>
                     ELSE IF Size(span) <= config.max THEN <<span>>
                     ELSE pieces \o Strip(at, Smallest({at + config.max - 1, span[2]}))
    BY <1>1 DEF Window
  <2>2. span \in Piece
    BY DEF Base, TypeOK
  <2>3. Size(span) \in Int /\ Size(span)' = Size(span)
    BY <2>1, <2>2, SizeType DEF Size
  <2> QED BY <2>1, <2>3 DEF WholeOK
<1>2. CASE UNCHANGED vars
  BY <1>2 DEF vars, split, WholeOK, Size
<1>3. CASE ~Window /\ ~UNCHANGED vars
  <2>1. stage' # "refine"
    BY <1>3 DEF Next, Step, Finished, Start, Overrun, Section, Group, Grouped, Refine, Accumulate,
       EndOfSection, PagePart, Emit, EndOfPages, NextSection, Split, Base, TypeOK, Stages
  <2> QED BY <2>1 DEF WholeOK
<1> QED BY <1>1, <1>2, <1>3

\* What is together stays together.
LEMMA TogetherStays ==
  ASSUME Base, RefinedOK, AccumulatedOK, [Next]_vars, NEW i, NEW j, Together(i, j)
  PROVE  Together(i, j)'
<1>1. PICK p : Stored(p) /\ p[1] <= doc.paragraphs[i].from /\ doc.paragraphs[j].to <= p[2]
  BY DEF Together
<1>2. Stored(p)' /\ doc' = doc
  BY <1>1, StoredStays, DocStays
<1> QED BY <1>1, <1>2 DEF Together

\* A short section has its code blocks in one piece; a long one has still to be grouped.
LEMMA FenceSection ==
  ASSUME Base, RefinedOK, AccumulatedOK, FencesOK, ByHeadings, Sound, Section,
         NEW i \in DOMAIN doc.paragraphs, NEW j \in DOMAIN doc.paragraphs, Small(i, j)
  PROVE  FenceOK(i, j)'
<1>0. [Next]_vars
  BY DEF Next, Step
<1>1. /\ Phase = "section" /\ IsDocument(doc) /\ section' = turn /\ doc' = doc /\ turn \in Nat
      /\ turn \in Headings /\ FenceOK(i, j) /\ (Together(i, j) => Together(i, j)')
  BY <1>0, InputFacts, TogetherStays DEF Base, TypeOK, LoopsOK, Section, Phase, FencesOK
<1>2. PICK h \in Headings : h = turn
  BY <1>1
<1>3. /\ i \in 1 .. Len(doc.paragraphs) /\ j \in 1 .. Len(doc.paragraphs) /\ i < j
      /\ h <= i /\ i <= LastOf(h) => j <= LastOf(h)
      /\ h \in 1 .. Len(doc.paragraphs) /\ LastOf(h) \in h .. Len(doc.paragraphs)
      /\ Len(doc.paragraphs) \in Nat
  BY <1>1, FencedFacts, SectionEnds, ParagraphFacts DEF Small
<1>4. i < h => Together(i, j)'
  BY <1>1, <1>2 DEF FenceOK
<1>5. CASE chunks' = Append(chunks, Chunk(1, <<SectionText(turn)>>, stack')) /\ NextSection(turn)
  <2>1. PICK path : path = stack'
    OBVIOUS
  <2>2. path \in Seq(Nat)
    <3>1. Popped(Level(turn)) \in Seq(Nat)
      BY PoppedFacts DEF Base, TypeOK
    <3>2. stack' = Append(Popped(Level(turn)), turn)
      BY DEF Section
    <3> QED BY <1>1, <2>1, <3>1, <3>2, AppendFacts
  <2>3. PICK p \in Piece : p = SectionText(turn)
    BY <1>1, <1>2, SectionFacts DEF Piece
  <2>4. <<p>> \in Seq(Piece) /\ 1 \in DOMAIN <<p>> /\ <<p>>[1] = p
    OBVIOUS
  <2>5. chunks' = Append(chunks, Chunk(1, <<p>>, path))
    BY <1>5, <2>1, <2>3
  <2>6. Stored(p)'
    BY <2>2, <2>4, <2>5, StoredByAppend
  <2>7. ASSUME h <= i, i <= LastOf(h) PROVE Together(i, j)'
    <3>1. i \in h .. LastOf(h) /\ j \in h .. LastOf(h)
      BY <1>3, <2>7
    <3>2. p[1] <= doc.paragraphs[i].from /\ doc.paragraphs[j].to <= p[2]
      BY <1>1, <1>2, <2>3, <3>1, SectionTogether
    <3> QED BY <1>1, <2>6, <3>2 DEF Together
  <2>8. /\ turn' = LastOf(h) + 1 /\ stage' \in {"done", "section"}
        /\ stage' = "done" => LastOf(h) = Len(doc.paragraphs)
    BY <1>1, <1>2, <1>5, NextSectionFacts
  <2>9. i <= LastOf(h) => Together(i, j)'
    BY <1>3, <1>4, <2>7
  <2>10. Phase' = stage' /\ (i < LastOf(h) + 1 => i <= LastOf(h))
    BY <1>3, <2>8 DEF Phase
  <2> QED BY <1>3, <2>8, <2>9, <2>10 DEF FenceOK, InSection
<1>6. CASE stage' = "group" /\ UNCHANGED <<turn, chunks>>
  <2>1. Phase' = "group" /\ section' = h /\ turn' = h
    BY <1>1, <1>2, <1>6 DEF Phase
  <2>2. ~(h <= i /\ j < h)
    BY <1>3
  <2> QED BY <1>4, <1>6, <2>1, <2>2 DEF FenceOK, InSection
<1> QED BY <1>5, <1>6 DEF Section

\* The paragraph that ends a code block ends its block.
LEMMA FenceGroup ==
  ASSUME Base, RefinedOK, AccumulatedOK, OpenOK, FencesOK, ByHeadings, Sound, Group,
         NEW i \in DOMAIN doc.paragraphs, NEW j \in DOMAIN doc.paragraphs, Small(i, j)
  PROVE  FenceOK(i, j)'
<1>0. [Next]_vars
  BY DEF Next, Step
<1>1. /\ stage = "group" /\ Phase = "group" /\ Phase' = "group" /\ stage' = "group"
      /\ turn <= LastOf(section) /\ turn' = turn + 1 /\ turn \in Nat
      /\ IsDocument(doc) /\ section' = section /\ doc' = doc /\ config' = config
      /\ blocks \in Seq(Piece) /\ section \in Headings /\ open \in Nat
      /\ inside' = FenceOpen(doc.paragraphs[turn].odd) /\ inside \in BOOLEAN
      /\ (inside <=> open # 0)
      /\ (open # 0 => open \in section .. turn - 1)
      /\ FenceOK(i, j) /\ (Together(i, j) => Together(i, j)')
  BY <1>0, InputFacts, TogetherStays
     DEF Base, TypeOK, LoopsOK, BlocksOK, InSection, Group, outline, Phase, FencesOK
<1>2. PICK h \in Headings, t \in Nat : h = section /\ t = turn
  BY <1>1
<1>3. /\ i \in 1 .. Len(doc.paragraphs) /\ j \in 1 .. Len(doc.paragraphs) /\ i < j
      /\ h \in 1 .. Len(doc.paragraphs) /\ LastOf(h) \in h .. Len(doc.paragraphs)
      /\ Len(doc.paragraphs) \in Nat
  BY <1>1, FencedFacts, SectionEnds, ParagraphFacts DEF Small
<1>4. i < section => Together(i, j)'
  BY <1>1 DEF FenceOK, InSection
<1>5. Code(i, j)' = Code(i, j)
  BY <1>1, FenceFrame
<1>6. DOMAIN blocks \subseteq DOMAIN blocks' /\ \A n \in DOMAIN blocks : blocks'[n] = blocks[n]
  <2>1. CASE blocks' = blocks
    BY <2>1
  <2>2. CASE ~(blocks' = blocks)
    <3>1. PICK a : blocks' = Append(blocks, <<doc.paragraphs[a].from, doc.paragraphs[turn].to>>)
                   /\ a = (IF open = 0 THEN turn ELSE open)
      BY <2>2 DEF Group
    <3>2. turn \in 1 .. Len(doc.paragraphs) /\ (open # 0 => open \in 1 .. Len(doc.paragraphs))
      <4>1. turn \in section .. LastOf(section) + 1
        BY <1>1 DEF Base, LoopsOK
      <4>2. turn \in h .. LastOf(h)
        BY <1>1, <1>2, <1>3, <4>1
      <4>3. open # 0 => open \in h .. turn - 1
        BY <1>1, <1>2
      <4> QED BY <1>1, <1>3, <4>2, <4>3
    <3>3. <<doc.paragraphs[a].from, doc.paragraphs[turn].to>> \in Piece
      <4>1. a \in 1 .. Len(doc.paragraphs)
        BY <3>1, <3>2
      <4>2. doc.paragraphs[a].from \in Nat /\ doc.paragraphs[turn].to \in Nat
        BY <1>1, <3>2, <4>1, ParagraphFacts
      <4> QED BY <4>2 DEF Piece
    <3> QED BY <1>1, <3>1, <3>3, AppendFacts
  <2> QED BY <2>1, <2>2
<1>7. ASSUME section <= i, j < turn PROVE Among(blocks, Code(i, j))'
  <2>1. PICK n \in DOMAIN blocks : blocks[n] = Code(i, j)
    BY <1>1, <1>7 DEF FenceOK, Among
  <2> QED BY <1>5, <1>6, <2>1 DEF Among
<1>8. ASSUME section <= i, j = turn PROVE Among(blocks, Code(i, j))'
  <2>1. /\ Closed(i - 1) /\ Closed(j) /\ \A x \in i .. j - 1 : ~Closed(x)
    <3>1. \A x \in i .. j : Closed(x) <=> x = j
      BY DEF Small, Fenced
    <3>2. j \in i .. j /\ \A x \in i .. j - 1 : x \in i .. j /\ x # j
      BY <1>3
    <3> QED BY <3>1, <3>2 DEF Small, Fenced
  <2>2. i \in i .. j - 1 /\ j - 1 \in i .. j - 1
    BY <1>3
  <2>3. inside <=> ~Closed(turn - 1)
    BY <1>1 DEF OpenOK
  <2>4. inside /\ open # 0
    BY <1>1, <1>8, <2>1, <2>2, <2>3
  <2>5. Closed(open - 1) /\ \A x \in open .. turn - 1 : ~Closed(x)
    BY <1>1, <2>4 DEF OpenOK
  <2>6. open = i
    <3>1. ~(open < i)
      <4> SUFFICES ASSUME open < i PROVE FALSE
        OBVIOUS
      <4>1. i - 1 \in open .. turn - 1
        BY <1>1, <1>3, <1>8
      <4> QED BY <2>1, <2>5, <4>1
    <3>2. ~(i < open)
      <4> SUFFICES ASSUME i < open PROVE FALSE
        OBVIOUS
      <4>1. open - 1 \in i .. j - 1
        BY <1>1, <1>2, <1>3, <1>8, <2>4
      <4> QED BY <2>1, <2>5, <4>1
    <3> QED BY <1>1, <1>3, <3>1, <3>2
  <2>7. ~inside'
    <3>1. doc.paragraphs[j].odd
      BY <1>1, <1>3, <2>1, <2>2, ClosedMore
    <3> QED BY <1>1, <1>8, <2>4, <3>1 DEF FenceOpen
  <2>8. blocks' = Append(blocks, Code(i, j))
    BY <1>8, <2>4, <2>6, <2>7 DEF Group, Code
  <2>9. Code(i, j) \in Piece
    BY <1>1, <1>3, ParagraphFacts DEF Piece, Code
  <2>10. Len(blocks) + 1 \in DOMAIN blocks' /\ blocks'[Len(blocks) + 1] = Code(i, j)
    BY <1>1, <2>8, <2>9, AppendFacts
  <2> QED BY <1>5, <2>10 DEF Among
<1>9. ASSUME section <= i, j < turn' PROVE Among(blocks, Code(i, j))'
  <2>1. j < turn \/ j = turn
    BY <1>1, <1>3, <1>9
  <2> QED BY <1>7, <1>8, <1>9, <2>1
<1> QED BY <1>1, <1>4, <1>9 DEF FenceOK

\* A block that fits is not split.
LEMMA FenceRefine ==
  ASSUME Base, RefinedOK, AccumulatedOK, WholeOK, FencesOK, ByHeadings, Sound, Refine,
         NEW i \in DOMAIN doc.paragraphs, NEW j \in DOMAIN doc.paragraphs, Small(i, j)
  PROVE  FenceOK(i, j)'
<1>0. [Next]_vars
  BY DEF Next, Step
<1>1. /\ stage = "refine" /\ Phase = "refine" /\ Phase' \in {"refine", "accumulate"} /\ stage' # "done"
      /\ refined' = refined \o pieces /\ blocks' = blocks
      /\ IsDocument(doc) /\ section' = section /\ doc' = doc /\ config' = config
      /\ blocks \in Seq(Piece) /\ refined \in Seq(Piece) /\ pieces \in Seq(Piece)
      /\ section \in Headings /\ turn \in DOMAIN blocks /\ span = blocks[turn] /\ turn \in Nat
      /\ FenceOK(i, j) /\ (Together(i, j) => Together(i, j)')
      /\ BlocksReach(LastOf(section))
  BY <1>0, InputFacts, TogetherStays
     DEF Base, TypeOK, LoopsOK, BlocksOK, InSection, Refine, Split, outline, fence, Phase, FencesOK
<1>2. Code(i, j)' = Code(i, j) /\ LastOf(section)' = LastOf(section)
  BY <1>1, FenceFrame, DocFrame
<1>3. i < section => Together(i, j)'
  BY <1>1 DEF FenceOK, InSection
<1>4. \A p : Among(refined, p) \/ Among(pieces, p) => Among(refined, p)'
  <2> SUFFICES ASSUME NEW p, Among(refined, p) \/ Among(pieces, p)
               PROVE  \E n \in DOMAIN (refined \o pieces) : (refined \o pieces)[n] = p
    BY <1>1 DEF Among
  <2>1. /\ DOMAIN refined = 1 .. Len(refined) /\ DOMAIN pieces = 1 .. Len(pieces)
        /\ DOMAIN (refined \o pieces) = 1 .. Len(refined) + Len(pieces)
        /\ Len(refined) \in Nat /\ Len(pieces) \in Nat
        /\ \A n \in 1 .. Len(refined) : (refined \o pieces)[n] = refined[n]
        /\ \A n \in 1 .. Len(pieces) : (refined \o pieces)[Len(refined) + n] = pieces[n]
    BY <1>1, ConcatFacts
  <2>2. CASE Among(refined, p)
    <3>1. PICK n \in 1 .. Len(refined) : refined[n] = p
      BY <2>1, <2>2 DEF Among
    <3>2. n \in 1 .. Len(refined) + Len(pieces)
      BY <2>1
    <3> QED BY <2>1, <3>1, <3>2
  <2>3. CASE Among(pieces, p)
    <3>1. PICK n \in 1 .. Len(pieces) : pieces[n] = p
      BY <2>1, <2>3 DEF Among
    <3>2. Len(refined) + n \in 1 .. Len(refined) + Len(pieces)
      BY <2>1
    <3> QED BY <2>1, <3>1, <3>2
  <2> QED BY <2>2, <2>3
<1>5. ASSUME i \in section .. LastOf(section)
      PROVE  \/ Among(refined, Code(i, j))'
             \/ /\ Phase' = "refine"
                /\ \E n \in DOMAIN blocks : n >= turn' /\ blocks[n] = Code(i, j)
  <2>1. CASE Among(refined, Code(i, j))
    BY <1>2, <1>4, <2>1
  <2>2. CASE \E n \in DOMAIN blocks : n >= turn /\ blocks[n] = Code(i, j)
    <3>1. PICK n \in DOMAIN blocks : n >= turn /\ blocks[n] = Code(i, j)
      BY <2>2
    <3>2. DOMAIN blocks = 1 .. Len(blocks) /\ Len(blocks) \in Nat
      BY <1>1, SeqFacts
    <3>3. CASE n = turn
      <4>1. span[1] \in Nat /\ span[2] \in Nat /\ span[1] <= span[2]
        BY <1>1, BlockFacts
      <4>2. Size(span) > 0
        BY <4>1 DEF Size
      <4>3. Size(span) <= config.max
        BY <1>1, <3>1, <3>3 DEF Small
      <4>4. pieces = <<span>>
        BY <1>1, <4>2, <4>3 DEF WholeOK
      <4>5. 1 \in DOMAIN pieces /\ pieces[1] = Code(i, j)
        BY <1>1, <3>1, <3>3, <4>4
      <4> QED BY <1>2, <1>4, <4>5 DEF Among
    <3>4. CASE n > turn
      <4>1. turn < Len(blocks)
        BY <1>1, <3>1, <3>2, <3>4
      <4>2. turn' = turn + 1 /\ Phase' = "refine"
        BY <4>1 DEF Refine, Split, Phase
      <4>3. n >= turn'
        BY <1>1, <3>2, <3>4, <4>2
      <4> QED BY <3>1, <4>2, <4>3
    <3> QED BY <1>1, <3>1, <3>2, <3>3, <3>4
  <2> QED BY <1>1, <1>5, <2>1, <2>2 DEF FenceOK
<1>6. ASSUME Phase' = "accumulate", (i \in section .. LastOf(section))'
      PROVE  Among(refined, Code(i, j))'
  BY <1>1, <1>2, <1>5, <1>6
<1>7. ASSUME Phase' = "refine", (i \in section .. LastOf(section))'
      PROVE  \/ Among(refined, Code(i, j))'
             \/ (\E n \in DOMAIN blocks : n >= turn /\ blocks[n] = Code(i, j))'
  BY <1>1, <1>2, <1>5, <1>7
<1> QED BY <1>1, <1>3, <1>6, <1>7 DEF FenceOK

\* What is refined is in chunks at the end of the section.
LEMMA FenceEndOfSection ==
  ASSUME Base, RefinedOK, AccumulatedOK, KeptOK, FencesOK, ByHeadings, Sound, EndOfSection,
         NEW i \in DOMAIN doc.paragraphs, NEW j \in DOMAIN doc.paragraphs, Small(i, j)
  PROVE  FenceOK(i, j)'
<1>0. [Next]_vars
  BY DEF Next, Step
<1>1. /\ Phase = "accumulate" /\ turn > Len(refined) /\ NextSection(section)
      /\ doc' = doc /\ turn \in 1 .. Len(refined) + 1 /\ IsDocument(doc)
      /\ section \in Headings /\ refined \in Seq(Piece) /\ accumulated \in Seq(Piece)
      /\ stack \in Seq(Nat) /\ chunks \in Seq(ChunkRecord)
      /\ chunks' = chunks \o <<Chunk(1, accumulated, stack)>>
      /\ FenceOK(i, j) /\ (Together(i, j) => Together(i, j)')
  BY <1>0, InputFacts, TogetherStays
     DEF Base, TypeOK, LoopsOK, InSection, EndOfSection, Rest, Phase, FencesOK
<1>2. PICK h \in Headings : h = section
  BY <1>1
<1>3. chunks' = Append(chunks, Chunk(1, accumulated, stack))
  BY <1>1
<1>4. /\ i \in 1 .. Len(doc.paragraphs) /\ h \in 1 .. Len(doc.paragraphs)
      /\ LastOf(h) \in h .. Len(doc.paragraphs) /\ Len(doc.paragraphs) \in Nat
  BY <1>1, FencedFacts, SectionEnds, ParagraphFacts DEF Small
<1>5. \A n \in DOMAIN refined : \A p : p = refined[n] => Stored(p)'
  <2> SUFFICES ASSUME NEW n \in DOMAIN refined, NEW p, p = refined[n] PROVE Stored(p)'
    OBVIOUS
  <2>1. DOMAIN refined = 1 .. Len(refined) /\ Len(refined) \in Nat
    BY <1>1, SeqFacts
  <2>2. n \in 1 .. turn - 1
    BY <1>1, <2>1
  <2>3. Pending(p) \/ Stored(p)
    BY <1>1, <2>2 DEF KeptOK
  <2>4. Pending(p) => Stored(p)'
    BY <1>1, <1>3, StoredByAppend DEF Pending
  <2> QED BY <1>0, <2>3, <2>4, StoredStays
<1>6. i < h => Together(i, j)'
  BY <1>1, <1>2 DEF FenceOK, InSection
<1>7. ASSUME i \in h .. LastOf(h) PROVE Together(i, j)'
  <2>1. PICK n \in DOMAIN refined : refined[n] = Code(i, j)
    BY <1>1, <1>2, <1>7 DEF FenceOK, Among
  <2>2. PICK p : p = refined[n]
    OBVIOUS
  <2>3. Stored(p)'
    BY <1>5, <2>2
  <2>4. p[1] = doc.paragraphs[i].from /\ p[2] = doc.paragraphs[j].to
    BY <2>1, <2>2 DEF Code
  <2>5. doc.paragraphs[i].from <= doc.paragraphs[i].from /\ doc.paragraphs[j].to <= doc.paragraphs[j].to
    BY <1>1, FencedFacts, ParagraphFacts DEF Small
  <2> QED BY <1>1, <2>3, <2>4, <2>5 DEF Together
<1>8. i <= LastOf(h) => Together(i, j)'
  BY <1>4, <1>6, <1>7
<1>9. /\ turn' = LastOf(h) + 1 /\ stage' \in {"done", "section"}
      /\ stage' = "done" => LastOf(h) = Len(doc.paragraphs)
  BY <1>1, <1>2, NextSectionFacts
<1>10. Phase' = stage' /\ (i < LastOf(h) + 1 => i <= LastOf(h))
  BY <1>4, <1>9 DEF Phase
<1> QED BY <1>4, <1>8, <1>9, <1>10 DEF FenceOK, InSection

\* Every step keeps the fences.
LEMMA FencesStep ==
  ASSUME Base, RefinedOK, AccumulatedOK, KeptOK, OpenOK, WholeOK, FencesOK, [Next]_vars
  PROVE  FencesOK'
<1>0. /\ doc' = doc /\ config' = config /\ (ByHeadings' <=> ByHeadings) /\ (Sound' <=> Sound)
      /\ \A a, b : (Small(a, b)' <=> Small(a, b)) /\ Code(a, b)' = Code(a, b)
      /\ \A h : LastOf(h)' = LastOf(h)
  BY DocStays, FenceFrame, DocFrame
<1> SUFFICES ASSUME ByHeadings, Sound, NEW i \in DOMAIN doc.paragraphs,
                    NEW j \in DOMAIN doc.paragraphs, Small(i, j)
             PROVE  FenceOK(i, j)'
  BY <1>0 DEF FencesOK
<1>1. /\ FenceOK(i, j) /\ (Together(i, j) => Together(i, j)') /\ IsDocument(doc)
      /\ i \in 1 .. Len(doc.paragraphs) /\ j \in 1 .. Len(doc.paragraphs) /\ i < j
      /\ Len(doc.paragraphs) \in Nat
      /\ \A h \in Headings : h <= i /\ i <= LastOf(h) => j <= LastOf(h)
  <2>1. IsDocument(doc)
    BY InputFacts DEF Base
  <2> QED BY <2>1, TogetherStays, FencedFacts, ParagraphFacts DEF FencesOK, Small
<1>2. CASE Start
  <2>1. Phase' = "section" /\ turn' = Smallest(Headings)
    BY <1>2 DEF Start, ByHeadings, Split, Phase
  <2>2. Headings \in SUBSET Nat /\ Headings # {}
    BY <1>1, ParagraphFacts DEF ByHeadings, Headings
  <2>3. \A h \in Headings : turn' <= h
    BY <2>1, <2>2, SmallestOf
  <2>4. PICK h \in Headings : h <= i
    BY DEF Small, Fenced
  <2>5. turn' \in Nat /\ ~(i < turn')
    <3>1. Smallest(Headings) \in Headings
      BY <2>2, SmallestOf
    <3>2. turn' \in Nat /\ h \in Nat /\ turn' <= h
      BY <2>1, <2>2, <2>3, <2>4, <3>1
    <3> QED BY <1>1, <2>4, <3>2
  <2>6. stage' # "done"
    BY <1>2 DEF Start, Split
  <2> QED BY <2>1, <2>5, <2>6 DEF FenceOK, InSection
<1>3. CASE Window
  <2>1. /\ turn' = turn /\ section' = section /\ stage = "split" /\ user \in Splitting
        /\ stage' \in {"split", user} /\ Phase' = Phase /\ Phase = user /\ stage' # "done"
        /\ blocks' = blocks /\ refined' = refined
    BY <1>3 DEF Window, outline, fence, Phase, Base, TypeOK, LoopsOK, Splitting
  <2> QED BY <1>0, <1>1, <2>1 DEF FenceOK, Among, InSection, Splitting
<1>4. CASE UNCHANGED vars
  <2>1. /\ turn' = turn /\ section' = section /\ stage' = stage /\ Phase' = Phase
        /\ blocks' = blocks /\ refined' = refined
    BY <1>4 DEF vars, outline, split, fence, Phase
  <2> QED BY <1>0, <1>1, <2>1 DEF FenceOK, Among
<1>5. CASE Overrun
  BY <1>5 DEF Overrun, Phase, FenceOK, InSection
<1>6. CASE Grouped
  <2>1. /\ Phase = "group" /\ Phase' = "refine" /\ turn > LastOf(section) /\ turn' = 1
        /\ section' = section /\ blocks' = blocks /\ refined' = refined /\ stage' # "done"
        /\ turn \in Nat /\ section \in Headings /\ blocks \in Seq(Piece)
    BY <1>6 DEF Grouped, Split, outline, Phase, Base, TypeOK, LoopsOK, InSection
  <2>2. PICK h \in Headings : h = section
    BY <2>1
  <2>3. LastOf(h) \in Nat /\ h \in Nat
    BY <1>1, SectionFacts
  <2>4. ASSUME i \in section .. LastOf(section) PROVE Among(blocks, Code(i, j))
    <3>1. section <= i /\ i <= LastOf(section)
      BY <2>2, <2>3, <2>4
    <3>2. j <= LastOf(section)
      BY <1>1, <2>1, <3>1
    <3>3. j < turn
      BY <1>1, <2>1, <2>2, <2>3, <3>2
    <3> QED BY <1>1, <2>1, <3>1, <3>3 DEF FenceOK
  <2>5. \A n \in DOMAIN blocks : n >= 1
    BY <2>1, SeqFacts
  <2>6. i < section => Together(i, j)'
    BY <1>1, <2>1 DEF FenceOK, InSection
  <2>7. ASSUME (i \in section .. LastOf(section))'
        PROVE  (\E n \in DOMAIN blocks : n >= turn /\ blocks[n] = Code(i, j))'
    BY <1>0, <2>1, <2>4, <2>5, <2>7 DEF Among
  <2> QED BY <1>0, <2>1, <2>6, <2>7 DEF FenceOK
<1>7. CASE Accumulate
  <2>1. /\ Phase = "accumulate" /\ Phase' = "accumulate" /\ stage' # "done"
        /\ section' = section /\ refined' = refined
    BY <1>7 DEF Accumulate, outline, Phase
  <2> QED BY <1>0, <1>1, <2>1 DEF FenceOK, Among, InSection
<1>8. CASE PagePart \/ Emit \/ EndOfPages
  <2>1. Phase \in {"page", "emit", "fallback"}
    BY <1>8 DEF PagePart, Emit, EndOfPages, Phase
  <2> QED BY <2>1 DEF Base, LoopsOK, ByPages, ByHeadings
<1> QED BY <1>2, <1>3, <1>4, <1>5, <1>6, <1>7, <1>8, FenceSection, FenceGroup, FenceRefine,
           FenceEndOfSection, Zenon DEF Next, Step, Finished

\* A code block that fits into a chunk is in one, in one piece, when no heading is
\* found in code: grouping, splitting and accumulating tear no other.
THEOREM EveryFenceStaysTogether == Spec => []FencesStayTogether
<1>1. Init => OpenOK /\ WholeOK /\ FencesOK
  <2>1. Init => Phase = "start" /\ stage = "start"
    BY DEF Init, Phase
  <2> QED BY <2>1 DEF OpenOK, WholeOK, FencesOK, FenceOK, InSection
<1>2. Base /\ OpenOK /\ [Next]_vars => OpenOK'
  BY OpenStep
<1>3. Base /\ WholeOK /\ [Next]_vars => WholeOK'
  BY WholeStep
<1>4. Base /\ RefinedOK /\ AccumulatedOK /\ KeptOK /\ OpenOK /\ WholeOK /\ FencesOK /\ [Next]_vars
        => FencesOK'
  BY FencesStep
<1>5. FencesOK => FencesStayTogether
  <2> SUFFICES ASSUME FencesOK, doc.format = "markdown", stage = "done", Sound,
                      NEW i \in DOMAIN doc.paragraphs, NEW j \in DOMAIN doc.paragraphs,
                      Fenced(i, j), Size(Code(i, j)) <= config.max
               PROVE  \E n \in DOMAIN chunks : \E m \in DOMAIN chunks[n].pieces :
                        LET p == chunks[n].pieces[m]
                        IN  p[1] <= Code(i, j)[1] /\ Code(i, j)[2] <= p[2]
    BY DEF FencesStayTogether, Sound
  <2>1. ByHeadings
    BY DEF ByHeadings, Fenced
  <2>2. Together(i, j)
    BY <2>1 DEF FencesOK, FenceOK, Small
  <2>3. PICK p : Stored(p) /\ p[1] <= doc.paragraphs[i].from /\ doc.paragraphs[j].to <= p[2]
    BY <2>2 DEF Together
  <2> QED BY <2>3 DEF Stored, Code
<1> QED BY <1>1, <1>2, <1>3, <1>4, <1>5, BaseInvariant, RefinedInvariant, AccumulatedInvariant,
           KeptInvariant, PTL DEF Spec

-------------------------------------------------------------------------------
(* The pages are numbered *)

\* The last marker before a part, and the pages with text since.
LEMMA SinceFacts ==
  ASSUME IsDocument(doc), NEW x \in Nat \ {0}, x - 1 <= Len(doc.parts)
  PROVE  /\ Since(x) \in 0 .. x - 1
         /\ (Since(x) # 0 => Since(x) \in MarksBefore(x) /\ doc.parts[Since(x)].number \in Nat)
         /\ \A m \in MarksBefore(x) : m <= Since(x)
         /\ IsFiniteSet(TextsSince(x)) /\ Cardinality(TextsSince(x)) \in Nat
         /\ PageOf(x) \in Nat
<1>1. MarksBefore(x) \in SUBSET Nat /\ \A m \in MarksBefore(x) : m \in 1 .. x - 1
  BY DEF MarksBefore
<1>2. MarksBefore(x) # {} =>
        Largest(MarksBefore(x)) \in MarksBefore(x)
        /\ \A m \in MarksBefore(x) : m <= Largest(MarksBefore(x))
  <2> SUFFICES ASSUME MarksBefore(x) # {}
               PROVE  Largest(MarksBefore(x)) \in MarksBefore(x)
                      /\ \A m \in MarksBefore(x) : m <= Largest(MarksBefore(x))
    OBVIOUS
  <2>1. \A m \in MarksBefore(x) : m <= x
    BY <1>1
  <2> QED BY <1>1, <2>1, LargestOf
<1>3. /\ Since(x) \in 0 .. x - 1 /\ (Since(x) # 0 => Since(x) \in MarksBefore(x))
      /\ \A m \in MarksBefore(x) : m <= Since(x)
  BY <1>1, <1>2 DEF Since
<1>4. Since(x) # 0 => doc.parts[Since(x)].number \in Nat
  <2> SUFFICES ASSUME Since(x) # 0 PROVE doc.parts[Since(x)].number \in Nat
    OBVIOUS
  <2>1. doc.parts \in Seq([from : Nat, to : Nat, number : Nat])
    BY DEF IsDocument
  <2>2. DOMAIN doc.parts = 1 .. Len(doc.parts) /\ Len(doc.parts) \in Nat
    BY <2>1, SeqFacts, Zenon
  <2>3. Since(x) \in DOMAIN doc.parts
    BY <1>3, <2>2
  <2> QED BY <2>3, PartFacts
<1>5. IsFiniteSet(TextsSince(x)) /\ Cardinality(TextsSince(x)) \in Nat
  <2>1. IsFiniteSet(Since(x) + 1 .. x - 1)
    BY <1>3, FS_Interval
  <2>2. TextsSince(x) \subseteq Since(x) + 1 .. x - 1
    BY DEF TextsSince
  <2> QED BY <2>1, <2>2, FS_Subset, FS_CardinalityType
<1> QED BY <1>3, <1>4, <1>5 DEF PageOf

\* The page after a part: what a marker says, or one more after a page of text.
LEMMA PageMore ==
  ASSUME IsDocument(doc), NEW x \in DOMAIN doc.parts
  PROVE  PageOf(x + 1) = IF doc.parts[x].number > 0 THEN doc.parts[x].number
                         ELSE IF HasText(x) THEN PageOf(x) + 1 ELSE PageOf(x)
<1>1. /\ x \in 1 .. Len(doc.parts) /\ Len(doc.parts) \in Nat
      /\ doc.parts[x].from \in Nat /\ doc.parts[x].to \in Nat /\ doc.parts[x].number \in Nat
  BY PartFacts
<1>2. /\ x \in Nat \ {0} /\ x + 1 \in Nat \ {0} /\ x - 1 <= Len(doc.parts)
      /\ x + 1 - 1 <= Len(doc.parts) /\ x + 1 - 1 = x
  BY <1>1
<1>3. /\ Since(x) \in 0 .. x - 1 /\ Since(x + 1) \in 0 .. x
      /\ (Since(x) # 0 => Since(x) \in MarksBefore(x))
      /\ (Since(x + 1) # 0 => Since(x + 1) \in MarksBefore(x + 1))
      /\ \A m \in MarksBefore(x) : m <= Since(x)
      /\ \A m \in MarksBefore(x + 1) : m <= Since(x + 1)
      /\ IsFiniteSet(TextsSince(x)) /\ Cardinality(TextsSince(x)) \in Nat
      /\ PageOf(x) \in Nat
  <2>1. /\ Since(x) \in 0 .. x - 1
        /\ (Since(x) # 0 => Since(x) \in MarksBefore(x))
        /\ \A m \in MarksBefore(x) : m <= Since(x)
        /\ IsFiniteSet(TextsSince(x)) /\ Cardinality(TextsSince(x)) \in Nat
        /\ PageOf(x) \in Nat
    BY <1>2, SinceFacts
  <2>2. PICK y \in Nat \ {0} : y = x + 1
    BY <1>2
  <2>3. /\ Since(y) \in 0 .. y - 1
        /\ (Since(y) # 0 => Since(y) \in MarksBefore(y))
        /\ \A m \in MarksBefore(y) : m <= Since(y)
    BY <1>2, <2>2, SinceFacts
  <2> QED BY <1>2, <2>1, <2>2, <2>3
<1>4. \A m : m \in 1 .. x <=> m \in 1 .. x - 1 \/ m = x
  BY <1>2
<1>5. CASE doc.parts[x].number > 0
  <2>1. x \in MarksBefore(x + 1)
    BY <1>2, <1>5 DEF MarksBefore
  <2>2. Since(x + 1) = x
    BY <1>2, <1>3, <2>1
  <2>3. TextsSince(x + 1) = {}
    <3>1. PICK z : z = x + 1
      OBVIOUS
    <3>2. Since(z) + 1 .. z - 1 = {}
      BY <1>2, <2>2, <3>1
    <3>3. TextsSince(z) \subseteq Since(z) + 1 .. z - 1
      BY DEF TextsSince
    <3> QED BY <3>1, <3>2, <3>3
  <2>4. Cardinality(TextsSince(x + 1)) = 0
    BY <2>3, FS_EmptySet
  <2> QED BY <1>1, <1>2, <1>5, <2>2, <2>4 DEF PageOf
<1>6. CASE ~(doc.parts[x].number > 0)
  <2>1. MarksBefore(x + 1) = MarksBefore(x)
    BY <1>2, <1>4, <1>6 DEF MarksBefore
  <2>2. Since(x + 1) = Since(x)
    BY <2>1 DEF Since
  <2>3. doc.parts[x].number = 0
    BY <1>1, <1>6
  <2>4. \A m : m \in Since(x) + 1 .. x <=> m \in Since(x) + 1 .. x - 1 \/ m = x
    BY <1>2, <1>3
  <2>5. CASE HasText(x)
    <3>1. TextsSince(x + 1) = TextsSince(x) \union {x}
      BY <1>2, <2>2, <2>4, <2>5 DEF TextsSince, HasText
    <3>2. x \notin TextsSince(x)
      BY <1>2, <1>3 DEF TextsSince
    <3>3. Cardinality(TextsSince(x + 1)) = Cardinality(TextsSince(x)) + 1
      BY <1>3, <3>1, <3>2, FS_AddElement
    <3>4. \/ Since(x) = 0
          \/ doc.parts[Since(x)].number \in Nat
      BY <1>2, SinceFacts
    <3> QED BY <1>3, <1>6, <2>2, <2>5, <3>3, <3>4 DEF PageOf
  <2>6. CASE ~HasText(x)
    <3>1. TextsSince(x + 1) = TextsSince(x)
      BY <1>2, <2>2, <2>3, <2>4, <2>6 DEF TextsSince, HasText
    <3> QED BY <1>6, <2>2, <2>6, <3>1 DEF PageOf
  <2> QED BY <2>5, <2>6
<1> QED BY <1>5, <1>6

\* Page numbers depend on the document alone.
LEMMA PagedFrame ==
  ASSUME doc' = doc
  PROVE  /\ \A c : OnItsPage(c)' <=> OnItsPage(c)
         /\ SomeText' <=> SomeText
         /\ \A x : PageOf(x)' = PageOf(x)
<1>1. \A x : MarksBefore(x)' = MarksBefore(x) /\ HasText(x)' = HasText(x)
  BY DEF MarksBefore, HasText
<1>2. \A x : Since(x)' = Since(x)
  BY DEF Since, MarksBefore
<1>3. \A x : TextsSince(x)' = TextsSince(x)
  BY <1>2 DEF TextsSince
<1>4. \A x : PageOf(x)' = PageOf(x)
  BY <1>2, <1>3 DEF PageOf
<1> QED BY <1>1, <1>4 DEF OnItsPage, SomeText

\* The chunks of a page have its number, and the next page has the next.
LEMMA PagesEmit ==
  ASSUME Base, PagesOK, Emit
  PROVE  PagesOK'
<1>1. /\ IsDocument(doc) /\ Phase = stage /\ doc' = doc /\ turn' = turn /\ turn \in Nat \ {0}
      /\ stage \in {"emit", "fallback"}
  BY InputFacts DEF Base, TypeOK, Emit, Phase
<1>f. /\ \A c : OnItsPage(c)' <=> OnItsPage(c)
      /\ SomeText' <=> SomeText
      /\ (\A x : PageOf(x)' = PageOf(x)) /\ (ByPages' <=> ByPages)
  BY <1>1, PagedFrame, DocFrame
<1>2. CASE stage = "fallback"
  <2>1. Phase' = "done" /\ ~(ByPages /\ SomeText)
    BY <1>1, <1>2 DEF Emit, Phase, PagesOK
  <2> QED BY <1>f, <2>1 DEF PagesOK
<1>3. CASE stage = "emit"
  <2>1. Phase' = "page" /\ page' = page + 1 /\ page = PageOf(turn - 1)
    BY <1>1, <1>3 DEF Emit, Phase, PageAfter, PagesOK
  <2>2. /\ turn - 1 \in DOMAIN doc.parts /\ HasText(turn - 1)
        /\ span = <<doc.parts[turn - 1].from, doc.parts[turn - 1].to>>
        /\ ByPages
    BY <1>1, <1>3 DEF Base, LoopsOK
  <2>3. PICK y \in DOMAIN doc.parts : y = turn - 1
    BY <2>2
  <2>4. /\ y \in 1 .. Len(doc.parts) /\ Len(doc.parts) \in Nat /\ y + 1 = turn
        /\ doc.parts[y].from \in Nat /\ doc.parts[y].to \in Nat /\ doc.parts[y].number = 0
    BY <1>1, <2>2, <2>3, PartFacts DEF HasText
  <2>5. PageOf(turn) = page + 1 /\ turn \in 1 .. Len(doc.parts) + 1
    <3>1. PageOf(y + 1) = PageOf(y) + 1
      BY <1>1, <2>2, <2>3, <2>4, PageMore
    <3> QED BY <2>1, <2>3, <2>4, <3>1
  <2>6. PICK n \in Nat, k \in Nat :
    /\ DOMAIN chunks = 1 .. n /\ DOMAIN pieces = 1 .. k /\ DOMAIN chunks' = 1 .. n + k
    /\ \A i \in 1 .. n : chunks'[i] = chunks[i]
    /\ \A i \in 1 .. n + k :
         \/ i \in 1 .. n
         \/ /\ i - n \in 1 .. k
            /\ chunks'[i] = [index |-> i - 1, pieces |-> <<pieces[i - n]>>, path |-> <<>>, page |-> page]
    BY EmittedChunks
  <2>7. \A j \in 1 .. k : /\ doc.parts[y].from <= pieces[j][1]
                          /\ pieces[j][1] <= doc.parts[y].to
    <3>1. pieces \in Seq(Piece) /\ Within(pieces, span[1], span[2])
      BY <1>1, <1>3 DEF Base, TypeOK, SplitOK, Splitting
    <3> SUFFICES ASSUME NEW j \in 1 .. k
                 PROVE  doc.parts[y].from <= pieces[j][1] /\ pieces[j][1] <= doc.parts[y].to
      OBVIOUS
    <3>2. span[1] <= pieces[j][1] /\ pieces[j][1] <= pieces[j][2] /\ pieces[j][2] <= span[2]
      BY <2>6, <3>1 DEF Within
    <3>3. pieces[j][1] \in Int /\ pieces[j][2] \in Int
      BY <2>6, <3>1, SeqFacts DEF Piece
    <3>4. span[1] = doc.parts[y].from /\ span[2] = doc.parts[y].to
      BY <2>2, <2>3
    <3> QED BY <2>4, <3>2, <3>3, <3>4
  <2>8. \A i \in DOMAIN chunks' : OnItsPage(chunks'[i])
    <3> SUFFICES ASSUME NEW i \in 1 .. n + k PROVE OnItsPage(chunks'[i])
      BY <2>6
    <3>1. CASE i \in 1 .. n
      BY <2>2, <2>6, <3>1 DEF PagesOK, SomeText
    <3>2. CASE i - n \in 1 .. k /\ chunks'[i] = [index |-> i - 1, pieces |-> <<pieces[i - n]>>, path |-> <<>>, page |-> page]
      <4>1. chunks'[i].page = PageOf(y) /\ chunks'[i].pieces[1] = pieces[i - n]
        BY <2>1, <2>3, <3>2
      <4>2. HasText(y)
        BY <2>2, <2>3
      <4> QED BY <2>7, <3>2, <4>1, <4>2 DEF OnItsPage
    <3> QED BY <2>6, <3>1, <3>2
  <2>9. (\A i \in DOMAIN chunks : OnItsPage(chunks[i]))'
    <3>1. ASSUME NEW i \in DOMAIN chunks', NEW c, c = chunks'[i] PROVE OnItsPage(c)'
      BY <1>f, <2>8, <3>1
    <3> QED BY <3>1 DEF OnItsPage
  <2> QED BY <1>1, <1>f, <2>1, <2>5, <2>9 DEF PagesOK
<1> QED BY <1>1, <1>2, <1>3

\* page_num is the number of the part that is next, in every step.
LEMMA PagesStep ==
  ASSUME Base, RefinedOK, AccumulatedOK, KeptOK, PagesOK, [Next]_vars
  PROVE  PagesOK'
<1>f. /\ doc' = doc
      /\ \A c : OnItsPage(c)' <=> OnItsPage(c)
      /\ SomeText' <=> SomeText
      /\ (\A x : PageOf(x)' = PageOf(x)) /\ (ByPages' <=> ByPages)
      /\ (\A x : HasText(x)' <=> HasText(x))
      /\ IsDocument(doc)
  BY DocStays, PagedFrame, DocFrame, InputFacts DEF Base
<1>c. ASSUME chunks' = chunks
      PROVE  (ByPages /\ SomeText => \A i \in DOMAIN chunks : OnItsPage(chunks[i]))'
  BY <1>c, <1>f DEF PagesOK
<1>n. Len(doc.parts) \in Nat /\ DOMAIN doc.parts = 1 .. Len(doc.parts)
  <2>1. doc.parts \in Seq([from : Nat, to : Nat, number : Nat])
    BY <1>f DEF IsDocument
  <2> QED BY <2>1, SeqFacts, Zenon
<1>1. CASE Start
  <2>1. /\ chunks' = chunks /\ page' = page /\ page = 1 /\ turn = 1
        /\ Phase' \in {"section", "page", "fallback"}
        /\ (Phase' = "page" => turn' = turn) /\ (Phase' = "fallback" => ~ByPages)
    BY <1>1, <1>n DEF Start, Split, Phase, Base, LoopsOK, ByPages
  <2>2. PageOf(1) = 1
    <3>1. MarksBefore(1) = {}
      BY DEF MarksBefore
    <3>2. Since(1) = 0
      BY <3>1 DEF Since
    <3>3. TextsSince(1) = {}
      BY <3>2 DEF TextsSince
    <3> QED BY <3>2, <3>3, FS_EmptySet DEF PageOf
  <2>3. 1 \in 1 .. Len(doc.parts) + 1
    BY <1>n
  <2> QED BY <1>f, <1>c, <2>1, <2>2, <2>3 DEF PagesOK
<1>2. CASE Window \/ UNCHANGED vars
  <2>1. chunks' = chunks /\ page' = page /\ turn' = turn
    BY <1>2 DEF Window, vars
  <2>2. Phase' = Phase
    BY <1>2 DEF Window, vars, split, Phase
  <2> QED BY <1>f, <1>c, <2>1, <2>2 DEF PagesOK
<1>3. CASE Overrun \/ Group \/ Grouped \/ Refine
  <2>1. chunks' = chunks /\ Phase' \in {"endless", "group", "refine", "accumulate"}
    BY <1>3 DEF Overrun, Group, Grouped, Refine, Split, Phase
  <2> QED BY <1>c, <2>1 DEF PagesOK
<1>4. CASE Section \/ Accumulate \/ EndOfSection
  <2>1. Phase \in Sectioning /\ Phase' \notin {"page", "emit", "fallback"}
    BY <1>4 DEF Section, Accumulate, EndOfSection, NextSection, Phase, Sectioning
  <2>2. ~ByPages
    BY <2>1 DEF Base, LoopsOK, ByHeadings, ByPages
  <2> QED BY <1>f, <2>1, <2>2 DEF PagesOK
<1>5. CASE PagePart
  <2>1. /\ Phase = "page" /\ turn \in DOMAIN doc.parts /\ turn' = turn + 1 /\ chunks' = chunks
        /\ page = PageOf(turn) /\ turn \in Nat
    BY <1>5, <1>n DEF PagePart, Phase, Base, TypeOK, PagesOK
  <2>2. PICK t \in DOMAIN doc.parts : t = turn
    BY <2>1
  <2>3. PageOf(t + 1) = IF doc.parts[t].number > 0 THEN doc.parts[t].number
                         ELSE IF HasText(t) THEN PageOf(t) + 1 ELSE PageOf(t)
    BY <1>f, PageMore
  <2>4. doc.parts[t].number \in Nat /\ doc.parts[t].from \in Nat /\ doc.parts[t].to \in Nat
    BY <1>f, PartFacts
  <2>5. turn' = t + 1 /\ turn' - 1 = t /\ turn' \in 1 .. Len(doc.parts) + 1
    BY <1>n, <2>1, <2>2
  <2>6. CASE doc.parts[t].number > 0 /\ page' = doc.parts[t].number /\ stage' = stage
    <3>1. Phase' = "page"
      BY <1>5, <2>6 DEF PagePart, Phase
    <3> QED BY <1>f, <1>c, <2>1, <2>3, <2>5, <2>6, <3>1 DEF PagesOK
  <2>7. CASE doc.parts[t].number = 0 /\ doc.parts[t].to < doc.parts[t].from /\ page' = page /\ stage' = stage
    <3>1. Phase' = "page"
      BY <1>5, <2>7 DEF PagePart, Phase
    <3>2. ~HasText(t) /\ ~(doc.parts[t].number > 0)
      BY <2>4, <2>7 DEF HasText
    <3> QED BY <1>f, <1>c, <2>1, <2>2, <2>3, <2>5, <2>7, <3>1, <3>2 DEF PagesOK
  <2>8. CASE stage' = "split" /\ user' = "emit" /\ page' = page
    <3>1. Phase' = "emit"
      BY <2>8 DEF Phase
    <3> QED BY <1>f, <1>c, <2>1, <2>2, <2>5, <2>8, <3>1 DEF PagesOK
  <2> QED BY <1>5, <2>2, <2>6, <2>7, <2>8 DEF PagePart, Marked, Split
<1>6. CASE EndOfPages
  <2>1. CASE chunks # <<>> /\ stage' = "done" /\ chunks' = chunks
    <3>1. Phase' = "done"
      BY <2>1 DEF Phase
    <3> QED BY <1>c, <2>1, <3>1 DEF PagesOK
  <2>2. CASE chunks = <<>> /\ chunks' = chunks /\ Split(<<1, doc.length>>, "fallback")
    <3>1. /\ Phase' = "fallback" /\ Phase = "page" /\ turn > Len(doc.parts) /\ turn \in Nat
      BY <1>6, <2>2 DEF EndOfPages, Split, Phase, Base, TypeOK
    <3>2. Covered = {}
      BY <2>2 DEF Covered
    <3>3. ASSUME NEW x \in DOMAIN doc.parts, HasText(x) PROVE FALSE
      <4>1. x < turn
        BY <1>n, <3>1
      <4>2. PartKept(x)
        BY <3>1, <3>3, <4>1 DEF KeptOK
      <4>3. doc.parts[x].from \in doc.parts[x].from .. doc.parts[x].to /\ doc.parts[x].from \notin doc.blank
        BY <1>f, <3>3, PartFacts
      <4> QED BY <3>2, <4>2, <4>3 DEF PartKept
    <3>4. ~SomeText
      BY <3>3 DEF SomeText
    <3> QED BY <1>f, <1>c, <2>2, <3>1, <3>4 DEF PagesOK
  <2> QED BY <1>6, <2>1, <2>2 DEF EndOfPages
<1> QED BY <1>1, <1>2, <1>3, <1>4, <1>5, <1>6, PagesEmit, Zenon DEF Next, Step, Finished

\* Two parts have no position in common.
LEMMA OnePart ==
  ASSUME IsDocument(doc), NEW x \in DOMAIN doc.parts, NEW y \in DOMAIN doc.parts, NEW b \in Int,
         doc.parts[x].from <= b, b <= doc.parts[x].to,
         doc.parts[y].from <= b, b <= doc.parts[y].to
  PROVE  x = y
<1>1. /\ x \in Nat /\ y \in Nat
      /\ doc.parts[x].from \in Nat /\ doc.parts[x].to \in Nat
      /\ doc.parts[y].from \in Nat /\ doc.parts[y].to \in Nat
      /\ (x < y => doc.parts[x].to < doc.parts[y].from)
      /\ (y < x => doc.parts[y].to < doc.parts[x].from)
  BY PartFacts
<1> QED BY <1>1

\* The page of a chunk is that of the part it comes from: the last number marked
\* before it, or 1, and one more for each page with text in between.
THEOREM EveryPageIsNumbered == Spec => []PagesAreNumbered
<1>1. Init => PagesOK
  <2>1. ASSUME Init PROVE PagesOK
    <3>1. Phase = "start" /\ chunks = <<>>
      BY <2>1 DEF Init, Phase
    <3> QED BY <3>1 DEF PagesOK
  <2> QED BY <2>1
<1>2. Base /\ RefinedOK /\ AccumulatedOK /\ KeptOK /\ PagesOK /\ [Next]_vars => PagesOK'
  BY PagesStep
<1>3. Base /\ OrderOK /\ PagesOK => PagesAreNumbered
  <2> SUFFICES ASSUME Base, OrderOK, PagesOK, doc.format = "pdf",
                      NEW i \in DOMAIN chunks, NEW x \in DOMAIN doc.parts,
                      Len(doc.parts) > 1, doc.parts[x].number = 0,
                      doc.parts[x].from <= chunks[i].pieces[1][1],
                      chunks[i].pieces[1][1] <= doc.parts[x].to
               PROVE  chunks[i].page = PageAt(x)
    BY DEF PagesAreNumbered, PageAt
  <2>1. IsDocument(doc) /\ chunks[i].pieces[1][1] \in Int
    BY InputFacts, ChunkBegins DEF Base, OrderOK, Ordered
  <2>2. HasText(x) /\ ByPages
    <3>1. doc.parts[x].from \in Nat /\ doc.parts[x].to \in Nat
      BY <2>1, PartFacts
    <3> QED BY <2>1, <3>1 DEF HasText, ByPages
  <2>3. PICK y \in DOMAIN doc.parts :
          /\ HasText(y) /\ chunks[i].page = PageOf(y)
          /\ doc.parts[y].from <= chunks[i].pieces[1][1]
          /\ chunks[i].pieces[1][1] <= doc.parts[y].to
    BY <2>2 DEF PagesOK, SomeText, OnItsPage
  <2>4. x = y
    BY <2>1, <2>3, OnePart
  <2>5. { m \in 1 .. x : doc.parts[m].number > 0 } = MarksBefore(x)
    <3>1. x \in Nat
      BY <2>1, PartFacts
    <3>2. \A m \in 1 .. x : m \in 1 .. x - 1 \/ m = x
      BY <3>1
    <3>3. \A m \in 1 .. x - 1 : m \in 1 .. x
      BY <3>1
    <3>4. ~(doc.parts[x].number > 0)
      OBVIOUS
    <3> QED BY <3>2, <3>3, <3>4 DEF MarksBefore
  <2>6. PageAt(x) = PageOf(x)
    BY <2>5, Zenon DEF PageAt, PageOf, Since, TextsSince
  <2> QED BY <2>3, <2>4, <2>6
<1> QED BY <1>1, <1>2, <1>3, BaseInvariant, RefinedInvariant, AccumulatedInvariant, OrderInvariant,
           KeptInvariant, PTL DEF Spec
===============================================================================
