------------------------------- MODULE MCChunking -------------------------------
(***************************************************************************)
(* Documents for TLC: all Markdown texts of three short paragraphs, all    *)
(* sequences of four headings, texts without structure with blanks in any  *)
(* place, and paged texts with marked, empty and numeric pages.            *)
(***************************************************************************)
EXTENDS Chunking

\* A text from the lengths of its parts, `gap` characters apart.
From(lens, gap) ==
  LET start[i \in 1 .. Len(lens)] ==
        IF i = 1 THEN 1 ELSE start[i - 1] + lens[i - 1] + gap
  IN  start
Reach(lens, gap) ==
  IF lens = <<>> THEN 0 ELSE From(lens, gap)[Len(lens)] + lens[Len(lens)] - 1

Markdown(ps) ==
  LET lens == [i \in DOMAIN ps |-> ps[i].len]
      begin == From(lens, Joint)
  IN  [format |-> "markdown", parts |-> <<>>, length |-> Reach(lens, Joint),
       blank |-> UNION { begin[i] - Joint .. begin[i] - 1 : i \in 2 .. Len(ps) },
       paragraphs |-> [i \in DOMAIN ps |->
         [from |-> begin[i], to |-> begin[i] + lens[i] - 1, level |-> ps[i].level, odd |-> ps[i].odd]]]

Paragraph == [len : {1, 4, 7}, level : {0, 1, 2}, odd : BOOLEAN]
Heading == [len : {2}, level : {1, 2, 3}, odd : {FALSE}]
Plain == [len : {1, 3}, level : {0}, odd : BOOLEAN]

Texts ==
  { [format |-> "text", parts |-> <<>>, paragraphs |-> <<>>, length |-> n, blank |-> b] :
      n \in {0, 1, 5}, b \in {{}} }
  \union
  { [format |-> "text", parts |-> <<>>, paragraphs |-> <<>>, length |-> 13, blank |-> b] :
      b \in SUBSET {2, 5, 6, 7, 8, 12} }

\* Pages of 0, 3 or 9 characters, or with a number.
Part == [len : {0, 3, 9}, number : {0}] \union [len : {1}, number : {1, 7}]
Paged(ps) ==
  LET lens == [i \in DOMAIN ps |-> ps[i].len]
      begin == From(lens, 1)
  IN  [format |-> "pdf", paragraphs |-> <<>>, length |-> Reach(lens, 1), blank |-> {},
       parts |-> [i \in DOMAIN ps |->
         [from |-> begin[i], to |-> begin[i] + lens[i] - 1, number |-> ps[i].number]]]

MCDocuments ==
  { Markdown(ps) : ps \in [1 .. 3 -> Paragraph] } \union
  { Markdown(ps) : ps \in [1 .. 4 -> Heading] } \union
  { Markdown(<<[len |-> 2, level |-> 1, odd |-> FALSE]>> \o ps) : ps \in [1 .. 4 -> Plain] }
  \union Texts \union
  { Paged(ps) : ps \in [1 .. 3 -> Part] \union [1 .. 1 -> Part] }

MCConfigs == { [max |-> 5, overlap |-> 2], [max |-> 4, overlap |-> 3], [max |-> 3, overlap |-> 3] }
===============================================================================
