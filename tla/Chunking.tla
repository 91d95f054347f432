-------------------------------- MODULE Chunking --------------------------------
(***************************************************************************)
(* DocumentChunkingService (src/src/knowledge_fabric/chunking/service.py): *)
(* chunk_document and its loops, one step per turn.                        *)
(*                                                                         *)
(* A text is the positions 1 .. length; all that is known of a character   *)
(* is whether it is blank.  A piece of text is a pair of positions         *)
(* <<first, last>>, and a chunk a sequence of pieces, which the code joins *)
(* by a blank line of Joint characters.                                    *)
(***************************************************************************)
EXTENDS Integers, Sequences, FiniteSets

CONSTANTS
  Documents,  \* the documents to chunk
  Configs,    \* the configurations [max, overlap]
  MaxPieces   \* bound: windows a split makes before it counts as endless

Joint == 2    \* the two newlines between paragraphs, and between joined blocks

\* The constructor's checks, which a ChunkingConfig given as such does not meet.
Validated(c) == c.max > 0 /\ c.overlap >= 0 /\ c.overlap < c.max

\* A text that strip() has been applied to.  Its paragraphs are what blank lines
\* separate; its parts are what page markers separate, of which one with text
\* is stripped too.
IsDocument(d) ==
  /\ d.length \in Nat /\ d.blank \subseteq 2 .. d.length - 1
  /\ d.paragraphs \in Seq([from : Nat, to : Nat, level : Nat, odd : BOOLEAN])
  /\ \A i \in DOMAIN d.paragraphs : LET p == d.paragraphs[i] IN
       /\ p.from \in 1 .. p.to /\ p.from \notin d.blank
       /\ IF i = Len(d.paragraphs) THEN p.to = d.length
          ELSE LET next == d.paragraphs[i + 1]
               IN  p.to < next.from /\ p.to + 1 .. next.from - 1 \subseteq d.blank
  /\ d.parts \in Seq([from : Nat, to : Nat, number : Nat])
  /\ \A i \in DOMAIN d.parts : LET p == d.parts[i] IN
       /\ p.number = 0 /\ p.from <= p.to =>
            p.from \in 1 .. d.length \ d.blank /\ p.to <= d.length
       /\ \A j \in DOMAIN d.parts : i < j => p.to < d.parts[j].from

ASSUME ChunkingAssumption ==
  /\ MaxPieces \in Nat
  /\ \A c \in Configs : c.max \in Nat \ {0} /\ c.overlap \in Nat
  /\ \A d \in Documents : IsDocument(d)

VARIABLES
  doc, config,      \* what is chunked, and how
  stage,            \* the loop it is in
  turn,             \* the section, page part, paragraph or block that is next
  section, stack,   \* the heading of this section, and the heading stack
  open, inside,     \* the fence block being collected, and whether a fence is open
  blocks, refined,  \* the section's blocks, before and after splitting long ones
  accumulated,      \* accumulated_text, as its blocks
  page,             \* page_num
  span, at, pieces, user,  \* the split in progress, and the loop it is for
  chunks

outline == <<section, stack>>
fence   == <<open, inside, blocks>>
split   == <<span, at, pieces, user>>
vars    == <<doc, config, stage, turn, section, stack, open, inside, blocks, refined,
             accumulated, page, span, at, pieces, user, chunks>>

-------------------------------------------------------------------------------
Smallest(S) == CHOOSE x \in S : \A y \in S : x <= y
Largest(S) == CHOOSE x \in S : \A y \in S : x >= y

Size(piece) == piece[2] - piece[1] + 1
Total(ps) ==
  LET sum[i \in 0 .. Len(ps)] ==
        IF i = 0 THEN 0
        ELSE sum[i - 1] + Size(ps[i]) + (IF i > 1 THEN Joint ELSE 0)
  IN  sum[Len(ps)]

\* strip(): the sequence of the trimmed piece, or none when it is blank.
Strip(a, b) ==
  LET inked == (a .. b) \ doc.blank
  IN  IF inked = {} THEN <<>> ELSE << <<Smallest(inked), Largest(inked)>> >>

Headings == { i \in DOMAIN doc.paragraphs : doc.paragraphs[i].level > 0 }
Level(i) == doc.paragraphs[i].level

\* The paragraphs of the section that heading h opens.
LastOf(h) == Smallest({ i - 1 : i \in {x \in Headings : x > h} }
                        \union {Len(doc.paragraphs)})
SectionText(h) == <<doc.paragraphs[h].from, doc.paragraphs[LastOf(h)].to>>

\* Mutant: a heading stays on the stack beside one of its own level.
Popped_Above(level) ==
  SubSeq(stack, 1, Largest({0} \union {n \in DOMAIN stack : Level(stack[n]) <= level}))

\* The stack without the headings at its end that are not above this level.
Popped(level) ==
  SubSeq(stack, 1, Largest({0} \union {n \in DOMAIN stack : Level(stack[n]) < level}))

\* Mutant: the chunks of each page are numbered from 0.
Chunk_Restarts(n, ps, path) == [index |-> n - 1, pieces |-> ps, path |-> path, page |-> page]

\* The n-th chunk of those that are added now.
Chunk(n, ps, path) ==
  [index |-> Len(chunks) + n - 1, pieces |-> ps, path |-> path, page |-> page]

Init ==
  /\ doc \in Documents /\ config \in Configs
  /\ stage = "start" /\ turn = 1
  /\ section = 0 /\ stack = <<>>
  /\ open = 0 /\ inside = FALSE
  /\ blocks = <<>> /\ refined = <<>> /\ accumulated = <<>>
  /\ page = 1
  /\ span = <<1, 0>> /\ at = 1 /\ pieces = <<>> /\ user = "none"
  /\ chunks = <<>>

-------------------------------------------------------------------------------
(* _split_with_overlap *)

\* The loop `for` is to have the pieces of a text.
Split(text, for) ==
  /\ stage' = "split" /\ user' = for
  /\ span' = text /\ at' = text[1] /\ pieces' = <<>>

\* Mutant: the next window starts one character earlier.
NextStart_Early(end) == end - config.overlap
NextStart(end) == end + 1 - config.overlap

\* One turn of the loop: a window, or the whole text when it fits.
Window ==
  LET end == Smallest({at + config.max - 1, span[2]})
  IN  /\ stage = "split"
      /\ Len(pieces) < MaxPieces
      /\ pieces' = IF Size(span) = 0 THEN <<>>
                   ELSE IF Size(span) <= config.max THEN <<span>>
                   ELSE pieces \o Strip(at, end)
      /\ IF end = span[2] THEN stage' = user /\ UNCHANGED at
         ELSE at' = Largest({span[1], NextStart(end)}) /\ UNCHANGED stage
      /\ UNCHANGED <<doc, config, turn, outline, fence, refined, accumulated, page,
                     span, user, chunks>>

\* The loop is taken to be endless.
Overrun ==
  /\ stage = "split" /\ Len(pieces) = MaxPieces
  /\ stage' = "endless"
  /\ UNCHANGED <<doc, config, turn, outline, fence, refined, accumulated, page,
                 split, chunks>>

-------------------------------------------------------------------------------
(* chunk_document: by headings, by pages, or by windows alone *)

Start ==
  /\ stage = "start"
  /\ \/ /\ doc.format = "markdown" /\ Headings # {}
        /\ stage' = "section" /\ turn' = Smallest(Headings)
        /\ UNCHANGED split
     \/ /\ doc.format = "pdf" /\ Len(doc.parts) > 1
        /\ stage' = "page" /\ UNCHANGED <<turn, split>>
     \/ /\ doc.format = "markdown" => Headings = {}
        /\ doc.format = "pdf" => Len(doc.parts) <= 1
        /\ Split(<<1, doc.length>>, "fallback") /\ UNCHANGED turn
  /\ UNCHANGED <<doc, config, outline, fence, refined, accumulated, page, chunks>>

\* The end of a section: the next heading's, or none.
NextSection(h) ==
  /\ turn' = LastOf(h) + 1
  /\ stage' = IF turn' > Len(doc.paragraphs) THEN "done" ELSE "section"

\* One section: a short one is a chunk, a long one is cut into blocks.
Section ==
  /\ stage = "section"
  /\ section' = turn
  /\ stack' = Append(Popped(Level(turn)), turn)
  /\ IF Size(SectionText(turn)) <= config.max
       THEN /\ chunks' = Append(chunks, Chunk(1, <<SectionText(turn)>>, stack'))
            /\ NextSection(turn)
       ELSE stage' = "group" /\ UNCHANGED <<turn, chunks>>
  /\ UNCHANGED <<doc, config, fence, refined, accumulated, page, split>>

\* Mutant: a fence is over at the end of each paragraph.
FenceOpen_Forgets(odd) == odd
FenceOpen(odd) == inside # odd

\* _split_section_into_blocks: paragraphs are collected while a code fence is
\* open; one that stays open ends with its section.
Group ==
  LET p     == doc.paragraphs[turn]
      first == IF open = 0 THEN turn ELSE open
  IN  /\ stage = "group" /\ turn <= LastOf(section)
      /\ turn' = turn + 1
      /\ inside' = FenceOpen(p.odd)
      /\ IF inside' /\ turn < LastOf(section)
           THEN open' = first /\ UNCHANGED blocks
           ELSE open' = 0 /\ blocks' = Append(blocks, <<doc.paragraphs[first].from, p.to>>)
      /\ UNCHANGED <<doc, config, stage, outline, refined, accumulated, page, split, chunks>>

\* Blocks that are too long are split, one after the other.
Grouped ==
  /\ stage = "group" /\ turn > LastOf(section)
  /\ inside' = FALSE /\ turn' = 1
  /\ Split(blocks[1], "refine")
  /\ UNCHANGED <<doc, config, outline, open, blocks, refined, accumulated, page, chunks>>

Refine ==
  /\ stage = "refine"
  /\ refined' = refined \o pieces
  /\ IF turn < Len(blocks)
       THEN turn' = turn + 1 /\ Split(blocks[turn'], "refine")
       ELSE turn' = 1 /\ stage' = "accumulate" /\ UNCHANGED split
  /\ UNCHANGED <<doc, config, outline, fence, accumulated, page, chunks>>

\* Mutant: the separator is not counted.
Fits_NoSeparator(block) ==
  accumulated = <<>> \/ Total(accumulated) + Size(block) <= config.max

\* One character is counted for the separator, which has two.
Fits(block) ==
  accumulated = <<>> \/ Total(accumulated) + 1 + Size(block) <= config.max

\* Blocks are joined as long as they fit into a chunk.
Accumulate ==
  /\ stage = "accumulate" /\ turn <= Len(refined)
  /\ turn' = turn + 1
  /\ IF Fits(refined[turn])
       THEN accumulated' = Append(accumulated, refined[turn]) /\ UNCHANGED chunks
       ELSE /\ chunks' = Append(chunks, Chunk(1, accumulated, stack))
            /\ accumulated' = <<refined[turn]>>
  /\ UNCHANGED <<doc, config, stage, outline, fence, refined, page, split>>

\* Mutant: what is left at the end of a section is forgotten.
Rest_Forgotten == <<>>
Rest == <<Chunk(1, accumulated, stack)>>

EndOfSection ==
  /\ stage = "accumulate" /\ turn > Len(refined)
  /\ chunks' = chunks \o Rest
  /\ accumulated' = <<>> /\ blocks' = <<>> /\ refined' = <<>>
  /\ NextSection(section)
  /\ UNCHANGED <<doc, config, outline, open, inside, page, split>>

-------------------------------------------------------------------------------
(* Windows as chunks, with page numbers or without *)

Marked(part) == part.number

\* One part between page markers.  A part of digits is a page number: what the
\* marker says, or a page on which there is nothing else.
PagePart ==
  /\ stage = "page" /\ turn <= Len(doc.parts)
  /\ turn' = turn + 1
  /\ LET part == doc.parts[turn] IN
     \/ /\ part.number > 0
        /\ page' = Marked(part) /\ UNCHANGED <<stage, split>>
     \/ /\ part.number = 0 /\ part.to < part.from
        /\ UNCHANGED <<page, stage, split>>
     \/ /\ part.number = 0 /\ part.from <= part.to
        /\ Split(<<part.from, part.to>>, "emit") /\ UNCHANGED page
  /\ UNCHANGED <<doc, config, outline, fence, refined, accumulated, chunks>>

\* Mutant: pages are counted by markers only.
PageAfter_Marked == page
PageAfter == page + 1

Emit ==
  /\ stage \in {"emit", "fallback"}
  /\ chunks' = chunks \o [i \in DOMAIN pieces |-> Chunk(i, <<pieces[i]>>, <<>>)]
  /\ IF stage = "emit" THEN stage' = "page" /\ page' = PageAfter
     ELSE stage' = "done" /\ UNCHANGED page
  /\ UNCHANGED <<doc, config, turn, outline, fence, refined, accumulated, split>>

\* A document whose pages are all empty falls back to windows.
EndOfPages ==
  /\ stage = "page" /\ turn > Len(doc.parts)
  /\ IF chunks # <<>> THEN stage' = "done" /\ UNCHANGED split
     ELSE Split(<<1, doc.length>>, "fallback")
  /\ UNCHANGED <<doc, config, turn, outline, fence, refined, accumulated, page, chunks>>

-------------------------------------------------------------------------------
Step ==
  \/ Start \/ Window \/ Overrun
  \/ Section \/ Group \/ Grouped \/ Refine \/ Accumulate \/ EndOfSection
  \/ PagePart \/ Emit \/ EndOfPages

Finished == stage \in {"done", "endless"} /\ UNCHANGED vars

Next == Step \/ Finished

\* A loop in a running process goes on.
Spec == Init /\ [][Next]_vars /\ WF_vars(Step)

-------------------------------------------------------------------------------
(* Properties *)

Covered ==
  UNION { UNION { p[1] .. p[2] : p \in {c.pieces[j] : j \in DOMAIN c.pieces} } :
            c \in {chunks[i] : i \in DOMAIN chunks} }

\* What the chunks owe the reader: the text from the first heading on, the text
\* of all pages, or all of it.  (What stands before the first heading, and a page
\* of digits only, is not chunked.)
Owed ==
  CASE doc.format = "markdown" /\ Headings # {} ->
         doc.paragraphs[Smallest(Headings)].from .. doc.length
    [] doc.format = "pdf" /\ Len(doc.parts) > 1 ->
         { x \in 1 .. doc.length : \E i \in DOMAIN doc.parts :
             LET p == doc.parts[i] IN p.number = 0 /\ x \in p.from .. p.to }
    [] OTHER -> 1 .. doc.length

\* No character is lost between windows, blocks and sections.
NothingLost == stage = "done" => Owed \ doc.blank \subseteq Covered

\* The joint of two blocks is counted as one character and has two: a chunk has
\* at most max_chars + 1 characters, and at most max_chars when nothing is joined.
ChunksFit ==
  \A i \in DOMAIN chunks :
    /\ Total(chunks[i].pieces) <= config.max + 1
    /\ Len(chunks[i].pieces) = 1 => Total(chunks[i].pieces) <= config.max

\* Chunks are numbered 0, 1, 2, ... across sections and pages, in the order of
\* the text: chunk_index is the key under which the repository stores them.
ChunksInOrder ==
  \A i \in DOMAIN chunks :
    /\ chunks[i].index = i - 1
    /\ i > 1 => chunks[i - 1].pieces[1][1] <= chunks[i].pieces[1][1]

\* The reference: heading a is above heading b when every heading from the one
\* after a to b itself is deeper than a.
Above(a, b) ==
  a < b /\ \A x \in Headings : a < x /\ x <= b => Level(a) < Level(x)

\* The heading path of a chunk is its heading below all headings above it.
PathsAreAncestors ==
  \A i \in DOMAIN chunks : LET path == chunks[i].path IN
    path # <<>> =>
      LET h == path[Len(path)]
      IN  /\ { path[n] : n \in DOMAIN path } = { a \in Headings : Above(a, h) } \union {h}
          /\ \A m, n \in DOMAIN path : m < n => path[m] < path[n]

\* An even number of the first n paragraphs have an odd number of fences.
Closed(n) == Cardinality({ x \in 1 .. n : doc.paragraphs[x].odd }) % 2 = 0

\* Paragraphs i to j are a fenced code block below some heading.
Fenced(i, j) ==
  /\ i < j /\ Closed(i - 1) /\ \A x \in i .. j : Closed(x) <=> x = j
  /\ \E h \in Headings : h <= i
Code(i, j) == <<doc.paragraphs[i].from, doc.paragraphs[j].to>>

\* A fenced code block that a chunk has room for is in one chunk, in one piece
\* (service.py:182), when no heading is found in code.  Without that it is false:
\* a line of code that begins with #, as a comment does, is a heading to
\* chunk_document, and ends the section in the middle of the fence.
FencesStayTogether ==
  /\ doc.format = "markdown" /\ stage = "done"
  /\ \A h \in Headings : Closed(h - 1)
  => \A i, j \in DOMAIN doc.paragraphs :
       Fenced(i, j) /\ Size(Code(i, j)) <= config.max =>
         \E n \in DOMAIN chunks : \E m \in DOMAIN chunks[n].pieces :
           LET p == chunks[n].pieces[m]
           IN  p[1] <= Code(i, j)[1] /\ Code(i, j)[2] <= p[2]

\* A chunk's page is the last number marked before it, or 1, plus the pages with
\* text in between; blank pages and markers count for nothing.
PagesAreNumbered ==
  doc.format = "pdf" /\ stage = "done" =>
    \A i \in DOMAIN chunks : \A x \in DOMAIN doc.parts :
      LET p     == doc.parts[x]
          marks == { m \in 1 .. x : doc.parts[m].number > 0 }
          since == IF marks = {} THEN 0 ELSE Largest(marks)
          texts == { m \in since + 1 .. x - 1 : doc.parts[m].from <= doc.parts[m].to }
      IN  Len(doc.parts) > 1 /\ p.number = 0
          /\ p.from <= chunks[i].pieces[1][1] /\ chunks[i].pieces[1][1] <= p.to
          => chunks[i].page = (IF since = 0 THEN 1 ELSE doc.parts[since].number)
                              + Cardinality(texts)

\* With a configuration that the constructor accepts chunking comes to an end.
\* (With overlap_chars >= max_chars, which a ChunkingConfig can have, the windows
\* of a long text do not advance.)
ChunkingEnds == Validated(config) ~> stage = "done"
===============================================================================
