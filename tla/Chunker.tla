------------------------------- MODULE Chunker -------------------------------
(***************************************************************************)
(* to_clauses: the blocks of an analyzed document (DocumentLayout) become  *)
(* clause chunks.  Blocks are exploded at lines that open a clause, the    *)
(* parts are gathered into groups, one per clause marker, and every group  *)
(* that is not a mere fragment becomes a chunk, or several if it is long   *)
(* (ClauseWindows).  A group's text is as long as its lines.               *)
(***************************************************************************)
EXTENDS DocumentLayout, ClauseWindows

CONSTANTS
  Size,        \* Size[k]: characters of a line of kind k
  MIN_CLAUSE_CHARS

ASSUME SizeAssumption ==
  /\ Size \in [Kinds -> Nat] /\ Size["blank"] = 0
  /\ \A k \in Kinds \ {"blank"} : Size[k] > 0
ASSUME MinimumAssumption == MIN_CLAUSE_CHARS \in Nat \ {0}

VARIABLES
  parts,    \* exploded
  at,       \* parts grouped so far
  current,  \* the group being gathered
  opened,   \* whether it was opened by a marker
  groups,   \* the groups, with whether a marker opened them
  chunked,  \* groups dealt with
  chunks,   \* the chunks, in the order of their ordinals
  pc        \* "analyze", "explode", "group", "chunk", "split" or "chunks"

layoutVars == <<document, blocks>>
groupVars == <<parts, at, current, opened, groups>>
chunkVars == <<chunked, chunks>>
vars == <<layoutVars, groupVars, splitVars, chunkVars, pc>>

\* A part: lines from..to of a block.
Lines(part) == SubSeq(blocks[part.block].lines, part.from, part.to)
Printed(part) == {i \in part.from..part.to : blocks[part.block].lines[i] # "blank"}
Blank(part) == Printed(part) = {}
Opening(part) == blocks[part.block].lines[Min(Printed(part))]
PartSize(part) == FoldLeft(LAMBDA sum, k : sum + Size[k], 0, Lines(part))
GroupSize(group) == FoldLeft(LAMBDA sum, part : sum + PartSize(part), 0, group.parts)

TypeOK ==
  /\ document \in Documents
  /\ \A b \in DOMAIN blocks : blocks[b] = Block(blocks[b].of)
  /\ \A part \in Range(parts) :
       /\ part.block \in DOMAIN blocks
       /\ 1 <= part.from /\ part.from <= part.to
       /\ part.to <= Len(blocks[part.block].lines)
  /\ at \in 0..Len(parts)
  /\ Range(current) \subseteq Range(parts)
  /\ opened \in BOOLEAN
  /\ \A group \in Range(groups) :
       group.parts # <<>> /\ Range(group.parts) \subseteq Range(parts)
  /\ chunked \in 0..Len(groups)
  /\ \A i \in DOMAIN chunks : chunks[i].group \in 1..chunked
  /\ pc \in {"analyze", "explode", "group", "chunk", "split", "chunks"}

Init ==
  /\ document \in Documents /\ blocks = <<>>
  /\ parts = <<>> /\ at = 0
  /\ current = <<>> /\ opened = FALSE /\ groups = <<>>
  /\ SplitInit
  /\ chunked = 0 /\ chunks = <<>>
  /\ pc = "analyze"

Analyze ==
  /\ pc = "analyze" /\ ToLayout /\ pc' = "explode"
  /\ UNCHANGED <<groupVars, splitVars, chunkVars>>

-----------------------------------------------------------------------------
\* _explode_block.

\* Mutant: a named marker in running text splits the block as well.
SplitsAtProse(k) == k \in {"numbered", "counted", "title", "prose"}

\* Mutant: numbers inside a block are not looked at.
OnlyTitles(k) == k = "title"

\* _NUMBERED takes a number for a marker if text follows it: on the same line,
\* since it sees a single one, and whether the text is a clause or a sentence
\* that goes on.
line_starts_clause(k) == k \in {"numbered", "counted", "title"}

\* The first lines of the segments, in order.
Cuts(lines) ==
  Ascending({i \in DOMAIN lines : i = 1 \/ line_starts_clause(lines[i])})

\* A block in a single segment stays whole, blank or not.
Exploded(b) ==
  LET lines == blocks[b].lines
      cuts == Cuts(lines) \o <<Len(lines) + 1>>
      segments == [i \in 1..(Len(cuts) - 1) |->
        [block |-> b, from |-> cuts[i], to |-> cuts[i + 1] - 1, first |-> i = 1]]
  IN IF blocks[b].table \/ Len(segments) < 2
     THEN <<[block |-> b, from |-> 1, to |-> Len(lines), first |-> TRUE]>>
     ELSE Only(segments, {i \in DOMAIN segments : ~Blank(segments[i])})

\* body_blocks leaves page furniture out.
BodyBlocks == Ascending({b \in DOMAIN blocks : blocks[b].role # "noise"})

Explode ==
  /\ pc = "explode"
  /\ parts' = FoldLeft(LAMBDA done, b : done \o Exploded(b), <<>>, BodyBlocks)
  /\ pc' = "group"
  /\ UNCHANGED <<layoutVars, at, current, opened, groups, splitVars, chunkVars>>

-----------------------------------------------------------------------------
\* The groups.

\* clause_marker: here _NUMBERED sees all lines, so that the text after a number
\* may be on a later one.  A segment keeps its block's role only if it is the
\* first.
Marked(part) ==
  /\ ~blocks[part.block].table
  /\ \/ Opening(part) \in {"numbered", "counted", "title", "prose"}
     \/ Opening(part) = "bare" /\ Printed(part) # {Min(Printed(part))}
     \/ part.first /\ blocks[part.block].role = "heading"

\* A marker closes the group so far, if there is one, and opens the next.
Open(part) ==
  /\ groups' = IF current = <<>> THEN groups
               ELSE Append(groups, [parts |-> current, opened |-> opened])
  /\ current' = <<part>> /\ opened' = TRUE

\* One turn of the loop.
Group ==
  /\ pc = "group" /\ at < Len(parts)
  /\ at' = at + 1
  /\ LET part == parts[at + 1] IN
     \/ Blank(part) /\ UNCHANGED <<current, opened, groups>>
     \/ ~Blank(part) /\ Marked(part) /\ Open(part)
     \/ /\ ~Blank(part) /\ ~Marked(part)
        /\ current' = Append(current, part) /\ UNCHANGED <<opened, groups>>
  /\ UNCHANGED <<layoutVars, parts, splitVars, chunkVars, pc>>

\* Mutant: the group the loop ends in is forgotten.
ForgetLast ==
  /\ pc = "group" /\ at = Len(parts) /\ pc' = "chunk"
  /\ UNCHANGED <<layoutVars, groupVars, splitVars, chunkVars>>

CloseLast ==
  /\ pc = "group" /\ at = Len(parts)
  /\ groups' = IF current = <<>> THEN groups
               ELSE Append(groups, [parts |-> current, opened |-> opened])
  /\ pc' = "chunk"
  /\ UNCHANGED <<layoutVars, parts, at, current, opened, splitVars, chunkVars>>

-----------------------------------------------------------------------------
\* The chunks.

Fragment(group) == GroupSize(group) < MIN_CLAUSE_CHARS

\* One group: dropped as a fragment, or split.
ChunkGroup ==
  /\ pc = "chunk" /\ chunked < Len(groups)
  /\ LET group == groups[chunked + 1] IN
     \/ /\ Fragment(group) /\ chunked' = chunked + 1
        /\ UNCHANGED <<splitVars, pc>>
     \/ /\ ~Fragment(group) /\ Call(GroupSize(group)) /\ pc' = "split"
        /\ UNCHANGED chunked
  /\ UNCHANGED <<layoutVars, groupVars, chunks>>

Split ==
  /\ pc = "split" /\ (LeaveWhole \/ Cut)
  /\ UNCHANGED <<layoutVars, groupVars, chunkVars, pc>>

NoBox == [page |-> 0, top |-> 0, bottom |-> 0]

\* Mutant: the first box stands for all of them.
FirstBox(group) ==
  LET boxed == {i \in DOMAIN group.parts : blocks[group.parts[i].block].boxed}
      first == blocks[group.parts[Min(boxed)].block]
  IN IF boxed = {} THEN NoBox ELSE [page |-> first.page, top |-> first.y, bottom |-> first.y]

\* _merge_boxes: the smallest box around the boxes on the page of the first of
\* them.  A segment has the box of the block it was split from.
MergedBox(group) ==
  LET block(i) == blocks[group.parts[i].block]
      boxed == {i \in DOMAIN group.parts : block(i).boxed}
      page == block(Min(boxed)).page
      heights == {block(i).y : i \in {j \in boxed : block(j).page = page}}
  IN IF boxed = {} THEN NoBox
     ELSE [page |-> page, top |-> Min(heights), bottom |-> Max(heights)]

Page(group) == blocks[group.parts[1].block].page

\* The next ordinal, for each window of the group.
Ordinal(window) == Len(chunks) + window - 1

\* The windows of a group become chunks; the first carries its box.
EndSplit ==
  /\ pc = "split" /\ splitting = "done" /\ pc' = "chunk"
  /\ chunked' = chunked + 1
  /\ LET group == groups[chunked + 1] IN
     chunks' = chunks \o [w \in DOMAIN windows |->
       [ordinal |-> Ordinal(w), group |-> chunked + 1, page |-> Page(group),
        box |-> IF w = 1 THEN MergedBox(group) ELSE NoBox]]
  /\ UNCHANGED <<layoutVars, groupVars, splitVars>>

Return ==
  /\ pc = "chunk" /\ chunked = Len(groups) /\ pc' = "chunks"
  /\ UNCHANGED <<layoutVars, groupVars, splitVars, chunkVars>>

Next ==
  \/ Analyze \/ Explode \/ Group \/ CloseLast
  \/ ChunkGroup \/ Split \/ EndSplit \/ Return

Spec == Init /\ [][Next]_vars

-----------------------------------------------------------------------------
(* Properties *)

\* The lines of the contract's text that are not blank.
TextLines ==
  UNION {{<<b, i>> : i \in {j \in DOMAIN blocks[b].lines : blocks[b].lines[j] # "blank"}} :
         b \in Range(BodyBlocks)}

Holds(group, line) ==
  \E part \in Range(group.parts) : part.block = line[1] /\ line[2] \in part.from..part.to

GroupsOf(line) == {g \in DOMAIN groups : Holds(groups[g], line)}

\* The properties of groups are stated once, when the groups are complete.
Grouped == pc = "chunk" /\ chunked = 0

\* A line of the text is in exactly one clause, and clauses follow the document:
\* of two lines that were placed in boxes, the one a reader meets first is not
\* in a later clause.
EveryLineInOneClause ==
  Grouped =>
    /\ \A line \in TextLines : Cardinality(GroupsOf(line)) = 1
    /\ \A p, q \in TextLines :
         /\ blocks[p[1]].boxed /\ blocks[q[1]].boxed
         /\ \/ blocks[p[1]].of < blocks[q[1]].of
            \/ p[1] = q[1] /\ p[2] < q[2]
         => \A g \in GroupsOf(p), h \in GroupsOf(q) : g <= h

\* A table stays with the clause that introduced it: the one that the text above
\* it ends in, if both were placed in boxes on one page.
TablesFollowTheirClause ==
  Grouped => \A p, q \in TextLines :
    /\ blocks[p[1]].boxed /\ blocks[q[1]].boxed
    /\ blocks[q[1]].table /\ blocks[p[1]].of + 1 = blocks[q[1]].of
    /\ blocks[p[1]].page = blocks[q[1]].page
    /\ \A line \in TextLines : line[1] = p[1] => line[2] <= p[2]
    => GroupsOf(p) = GroupsOf(q)

\* Whether a line has a marker that counts wherever in a block it stands, or a
\* number alone that heads its block and has text of its own below it.
MarksClause(line) ==
  LET lines == blocks[line[1]].lines IN
  \/ lines[line[2]] \in {"numbered", "title"}
  \/ /\ lines[line[2]] = "bare"
     /\ \A i \in 1..(line[2] - 1) : lines[i] = "blank"
     /\ \E k \in (line[2] + 1)..Len(lines) :
          /\ lines[k] \in {"bare", "prose", "plain"}
          /\ \A i \in (line[2] + 1)..(k - 1) : lines[i] = "blank"

\* However coarse the analyzer's paragraphs are, a line that begins with its
\* clause number, or is a title, opens a clause of its own: it is the first line
\* of its clause, unless it is in a table.  A clause number alone on its line
\* does so at the head of a block only; inside one it opens nothing.
NumberedLinesOpen ==
  Grouped => \A line \in TextLines :
    ~blocks[line[1]].table /\ MarksClause(line) =>
      \A g \in GroupsOf(line), other \in TextLines :
        Holds(groups[g], other) /\ other # line =>
          other[1] > line[1] \/ (other[1] = line[1] /\ other[2] > line[2])

\* Inside a block a clause is cut only before a line that is a title or begins
\* with a number: not before a named marker in running text, a number alone, or
\* plain text.  (It is cut before a sentence's line that begins with a number.)
\* Of tables only one that nothing precedes begins a clause.
CutsAreAtMarkers ==
  Grouped => \A g \in DOMAIN groups :
    LET part == groups[g].parts[1] IN
    /\ part.first \/ Opening(part) \in {"numbered", "counted", "title"}
    /\ blocks[part.block].table => g = 1

\* A box shows a block that was placed on its page, within its height.
Shows(box, block) ==
  block.boxed /\ block.page = box.page /\ block.y \in box.top..box.bottom

\* A citation leads to where its clause opens.  The chunk's page is the page of
\* the clause's opening block as far as the service knew it.  A box shows all
\* that the clause has on its page, and only blocks the clause has lines of; one
\* that it shares with other clauses is the first or the last of them.  If the
\* opening block was boxed, the box shows it, on the chunk's page.
CitationsPointHome ==
  pc = "chunks" => \A i \in DOMAIN chunks :
    LET g == chunks[i].group
        own == {part.block : part \in Range(groups[g].parts)}
        opening == blocks[groups[g].parts[1].block]
        box == chunks[i].box
    IN /\ document[opening.of].placed # "nowhere" =>
            chunks[i].page = document[opening.of].page
       /\ box # NoBox => \A b \in own :
            blocks[b].boxed /\ blocks[b].page = box.page => Shows(box, blocks[b])
       /\ \A line \in TextLines : Shows(box, blocks[line[1]]) =>
            /\ line[1] \in own
            /\ GroupsOf(line) = {g} \/ blocks[line[1]].y \in {box.top, box.bottom}
       /\ opening.boxed /\ box # NoBox =>
            box.page = chunks[i].page /\ Shows(box, opening)
       /\ opening.boxed => \E j \in 1..i :
            chunks[j].group = g /\ chunks[j].box # NoBox
=============================================================================
