--------------------------- MODULE DocumentLayout ---------------------------
(***************************************************************************)
(* _to_layout: what the layout service found, paragraphs and tables apart, *)
(* becomes one sequence of blocks, sorted by page and by height on it.     *)
(*                                                                         *)
(* The document is a single column of elements in the order a reader meets *)
(* them, which is also the order of their heights.  The service places an  *)
(* element in a box, or only on a page (its polygon is degenerate, or its  *)
(* page is not listed), or nowhere.                                        *)
(*                                                                         *)
(* A line of text is its kind: "numbered" (4.2 and text), "counted" (text  *)
(* that happens to begin with a number: 30 days of ...), "bare" (a number  *)
(* alone on its line), "title" (a named marker on a line in capitals),     *)
(* "prose" (a named marker in running text), "plain" or "blank".  A named  *)
(* marker has its word and its number on one line.                         *)
(***************************************************************************)
EXTENDS Integers, Sequences, FiniteSets, SequencesExt, FiniteSetsExt

CONSTANTS
  Blocks,      \* blocks the service may find
  MaxBlocks,   \* bound: elements of a document
  Pages,       \* bound: its pages
  MaxUnplaced  \* bound: elements that are not placed in a box

Kinds == {"numbered", "counted", "bare", "title", "prose", "plain", "blank"}
Role == {"heading", "body", "noise"}
Placements == {"box", "page", "nowhere"}

ASSUME BlocksAssumption ==
  Blocks \subseteq [role : Role, table : BOOLEAN, lines : Seq(Kinds) \ {<<>>}]
ASSUME DocumentAssumption == {MaxBlocks, Pages, MaxUnplaced} \subseteq Nat

VARIABLES
  document,  \* the elements: block, true page and placement
  blocks     \* DocumentLayout.blocks

Unplaced(elements) == {i \in DOMAIN elements : elements[i].placed # "box"}

Documents ==
  {elements \in BoundedSeq([block : Blocks, page : 1..Pages, placed : Placements], MaxBlocks) :
     /\ \A i \in 1..(Len(elements) - 1) : elements[i].page <= elements[i + 1].page
     /\ Cardinality(Unplaced(elements)) <= MaxUnplaced}

\* box_for: the first page stands in for an unknown one.  A block's height is
\* the place of its element, or zero without a box.
Block(i) ==
  LET e == document[i] IN
  [role |-> e.block.role, table |-> e.block.table, lines |-> e.block.lines,
   page |-> IF e.placed = "nowhere" THEN 1 ELSE e.page,
   boxed |-> e.placed = "box",
   y |-> IF e.placed = "box" THEN i ELSE 0,
   of |-> i]

\* Numbers in their order, and a sequence's elements at the positions in them.
Ascending(numbers) ==
  CHOOSE s \in SetToSeqs(numbers) : \A i, j \in DOMAIN s : i < j => s[i] < s[j]

Only(s, positions) ==
  LET order == Ascending(positions) IN [k \in DOMAIN order |-> s[order[k]]]

\* Paragraphs first, then tables.
Collected ==
  LET elements == [i \in DOMAIN document |-> Block(i)]
      tables == {i \in DOMAIN document : elements[i].table}
  IN Only(elements, DOMAIN document \ tables) \o Only(elements, tables)

\* Mutant: within a page the collections stay apart.
ByPage(b, c) == b.page < c.page

Precedes(b, c) == b.page < c.page \/ (b.page = c.page /\ b.y < c.y)

\* The sort is stable.
Before(found, i, j) ==
  \/ Precedes(found[i], found[j])
  \/ ~Precedes(found[j], found[i]) /\ i < j

Sorted(found) ==
  LET order == CHOOSE s \in SetToSeqs(DOMAIN found) :
                 \A i, j \in DOMAIN s : i < j => Before(found, s[i], s[j])
  IN [k \in DOMAIN found |-> found[order[k]]]

ToLayout == blocks' = Sorted(Collected) /\ UNCHANGED document
=============================================================================
