------------------------------ MODULE MCChunker ------------------------------
(* Small instances of ClauseRecords for TLC: paragraphs of up to four lines,  *)
(* headings, tables and page furniture.                                       *)
EXTENDS ClauseRecords

Paragraph(lines) == [role |-> "body", table |-> FALSE, lines |-> lines]
Heading(lines) == [role |-> "heading", table |-> FALSE, lines |-> lines]
Table(lines) == [role |-> "body", table |-> TRUE, lines |-> lines]
Footer(lines) == [role |-> "noise", table |-> FALSE, lines |-> lines]

MixedBlocks ==
  {Paragraph(<<"plain">>), Paragraph(<<"blank">>),
   Paragraph(<<"plain", "prose", "numbered">>), Paragraph(<<"prose", "plain">>),
   Paragraph(<<"bare", "plain">>), Paragraph(<<"plain", "bare", "counted">>),
   Paragraph(<<"blank", "title", "plain">>), Paragraph(<<"title", "numbered", "blank", "numbered">>),
   Heading(<<"plain">>), Heading(<<"plain", "numbered">>),
   Table(<<"numbered", "numbered">>), Footer(<<"numbered">>)}

\* A line of text is not a fragment, a title or a number alone is; three lines
\* and more make a long clause.
LineSizes ==
  [k \in Kinds |-> CASE k = "blank" -> 0 [] k \in {"title", "bare"} -> 2 [] k = "plain" -> 5
                     [] OTHER -> 4]
=============================================================================
