------------------------------ MODULE Extraction ------------------------------
(***************************************************************************)
(* extract_obligations: the clauses of a contract are packed into batches  *)
(* that overlap, the model is asked about one batch after the other, and   *)
(* what it answers is checked against the clauses of that batch, freed of  *)
(* duplicates and numbered.                                                *)
(*                                                                         *)
(* A clause is its position in the document.  An answer names the duty it  *)
(* describes and the clauses it cites; a citation of a clause that does    *)
(* not exist is a citation of Fabricated.                                  *)
(***************************************************************************)
EXTENDS Integers, Sequences, FiniteSets, SequencesExt

CONSTANTS
  Documents,   \* contracts: the text length of each clause, in order
  Overhead,    \* characters a clause costs beside its text: its id and 32
  MaxChars,    \* MAX_BATCH_CHARS
  Overlap,     \* BATCH_OVERLAP_CLAUSES
  Duties,      \* duties the model may describe
  Key,         \* Key[d]: the dedupe key of duty d
  Cites,       \* sets of clauses the model may cite for a duty
  MaxAnswers   \* bound: different obligations the model returns for a contract

Fabricated == 0
Answer == [duty : Duties, cites : Cites]

ASSUME DocumentsAssumption == Documents \subseteq Seq(Nat \ {0})
ASSUME SizesAssumption == {Overhead, MaxChars} \subseteq Nat \ {0}
\* The slice current[-0:] would be the whole batch.
ASSUME OverlapAssumption == Overlap \in Nat \ {0} /\ MaxAnswers \in Nat
ASSUME KeyAssumption == DOMAIN Key = Duties
ASSUME CitesAssumption == \A cites \in Cites : cites # {} /\ cites \subseteq Nat

VARIABLES
  text,        \* the contract
  phase,       \* "batch", "ask", "take", "done" or "raised"
  read,        \* clauses packed so far
  current,     \* the batch being packed
  size,        \* what _batch believes the current batch measures
  batches,     \* the batches
  turn,        \* the batch the model is asked about
  answers,     \* answers of the batch not looked at yet
  seen,        \* keys of the obligations kept
  obligations, \* result.obligations: duty, citations, and the batch they are from
  rejected,    \* result.rejected: how many
  heard        \* every answer given, with the batch it was given for

packing == <<read, current, size, batches>>
result == <<seen, obligations, rejected>>
vars == <<text, phase, packing, turn, answers, result, heard>>

Clauses == 1..Len(text)

TypeOK ==
  /\ text \in Documents
  /\ phase \in {"batch", "ask", "take", "done", "raised"}
  /\ read \in 0..Len(text)
  /\ current \in Seq(Clauses)
  /\ size \in Nat
  /\ batches \in Seq(Seq(Clauses))
  /\ turn \in 1..(Len(batches) + 1)
  /\ answers \in Seq(Answer)
  /\ seen \subseteq Range(Key)
  /\ obligations \in Seq([duty : Duties, cites : SUBSET Clauses, batch : Nat])
  /\ rejected \in Nat

Init ==
  /\ text \in Documents
  /\ phase = "batch" /\ read = 0
  /\ current = <<>> /\ size = 0 /\ batches = <<>>
  /\ turn = 1 /\ answers = <<>>
  /\ seen = {} /\ obligations = <<>> /\ rejected = 0 /\ heard = {}

-----------------------------------------------------------------------------
\* _batch.

ClauseSize(c) == text[c] + Overhead
TextSize(batch) == FoldLeft(LAMBDA sum, c : sum + text[c], 0, batch)
FullSize(batch) == TextSize(batch) + Overhead * Len(batch)

\* Mutant: one clause fewer is repeated.
CarriesOneFewer(batch) ==
  IF Len(batch) < Overlap THEN batch ELSE SubSeq(batch, Len(batch) - Overlap + 2, Len(batch))

\* The clauses repeated at the head of the next batch.
Carried(batch) ==
  IF Len(batch) <= Overlap THEN batch ELSE SubSeq(batch, Len(batch) - Overlap + 1, Len(batch))

\* Mutant: a clause is measured without its id and heading.
OverflowsByText(c) == current # <<>> /\ size + text[c] > MaxChars

Overflows(c) == current # <<>> /\ size + ClauseSize(c) > MaxChars

\* One turn of the loop.  The carried clauses are measured by their text alone.
Pack ==
  /\ phase = "batch" /\ read < Len(text)
  /\ read' = read + 1
  /\ LET c == read + 1
         head == IF Overflows(c) THEN Carried(current) ELSE current
     IN /\ batches' = IF Overflows(c) THEN Append(batches, current) ELSE batches
        /\ current' = Append(head, c)
        /\ size' = (IF Overflows(c) THEN TextSize(head) ELSE size) + ClauseSize(c)
  /\ UNCHANGED <<text, phase, turn, answers, result, heard>>

\* Mutant: what is left over after the loop is not sent.
DropsTheRest ==
  /\ phase = "batch" /\ read = Len(text)
  /\ phase' = "ask"
  /\ UNCHANGED <<text, packing, turn, answers, result, heard>>

PackRest ==
  /\ phase = "batch" /\ read = Len(text)
  /\ phase' = "ask"
  /\ batches' = IF current = <<>> THEN batches ELSE Append(batches, current)
  /\ UNCHANGED <<text, read, current, size, turn, answers, result, heard>>

-----------------------------------------------------------------------------
\* The model, and what becomes of its answers.

Ask ==
  /\ phase = "ask" /\ turn <= Len(batches)
  /\ \E response \in BoundedSeq(Answer, MaxAnswers - Cardinality(heard)) :
       /\ answers' = response
       /\ heard' = heard \cup {[answer |-> a, batch |-> turn] : a \in Range(response)}
  /\ phase' = "take"
  /\ UNCHANGED <<text, packing, turn, result>>

\* The call fails, or the model declines to answer: no result at all.
AskRaises ==
  /\ phase = "ask" /\ turn <= Len(batches)
  /\ phase' = "raised"
  /\ UNCHANGED <<text, packing, turn, answers, result, heard>>

\* Mutant: any clause of the contract may be cited.
WholeContract(k) == Clauses

\* The clauses the model was given.
ValidIds(k) == Range(batches[k])

\* validate_citations.
Grounded(a, k) == a.cites \subseteq ValidIds(k)

Taken == phase = "take" /\ answers # <<>>

\* Mutant: a key counts as seen before the answer is validated.
RejectRemembering ==
  /\ Taken /\ ~Grounded(Head(answers), turn)
  /\ answers' = Tail(answers)
  /\ rejected' = rejected + 1
  /\ seen' = seen \cup {Key[Head(answers).duty]}
  /\ UNCHANGED <<text, phase, packing, turn, obligations, heard>>

Reject ==
  /\ Taken /\ ~Grounded(Head(answers), turn)
  /\ answers' = Tail(answers)
  /\ rejected' = rejected + 1
  /\ UNCHANGED <<text, phase, packing, turn, seen, obligations, heard>>

SkipDuplicate ==
  /\ Taken /\ Grounded(Head(answers), turn) /\ Key[Head(answers).duty] \in seen
  /\ answers' = Tail(answers)
  /\ UNCHANGED <<text, phase, packing, turn, result, heard>>

\* The obligation's id is its position in the result.
Keep ==
  /\ Taken /\ Grounded(Head(answers), turn) /\ Key[Head(answers).duty] \notin seen
  /\ answers' = Tail(answers)
  /\ seen' = seen \cup {Key[Head(answers).duty]}
  /\ obligations' = Append(obligations,
       [duty |-> Head(answers).duty, cites |-> Head(answers).cites, batch |-> turn])
  /\ UNCHANGED <<text, phase, packing, turn, rejected, heard>>

EndBatch ==
  /\ phase = "take" /\ answers = <<>>
  /\ turn' = turn + 1 /\ phase' = "ask"
  /\ UNCHANGED <<text, packing, answers, result, heard>>

Return ==
  /\ phase = "ask" /\ turn > Len(batches)
  /\ phase' = "done"
  /\ UNCHANGED <<text, packing, turn, answers, result, heard>>

Next ==
  \/ Pack \/ PackRest
  \/ Ask \/ AskRaises
  \/ Reject \/ SkipDuplicate \/ Keep
  \/ EndBatch \/ Return

Spec == Init /\ [][Next]_vars

-----------------------------------------------------------------------------
(* Properties *)

Batched == phase # "batch"

\* Every clause is shown to the model, and shown in the document's order: the
\* batches are runs of consecutive clauses that together leave none out.
EveryClauseIsShown ==
  Batched =>
    /\ Clauses = UNION {Range(batches[k]) : k \in DOMAIN batches}
    /\ \A k \in DOMAIN batches : \A i \in 1..(Len(batches[k]) - 1) :
         batches[k][i + 1] = batches[k][i] + 1

\* A duty spread over Overlap + 1 neighbouring clauses is seen whole in some
\* batch, wherever the seams fall and however long the clauses are ("has a
\* chance of being seen whole at least once").
SeamsAreBridged ==
  Batched => \A c \in Clauses : c + Overlap <= Len(text) =>
    \E k \in DOMAIN batches : c..(c + Overlap) \subseteq Range(batches[k])

\* A request is bounded: a batch exceeds the limit at most by what the carried
\* clauses cost beside their text, unless it is one clause with its overlap.
BatchesAreBounded ==
  Batched => \A k \in DOMAIN batches :
    \/ Len(batches[k]) <= Overlap + 1
    \/ FullSize(batches[k]) <= MaxChars + Overlap * Overhead

\* What is kept is grounded: all its citations were in one request, the one
\* that produced it; what was fabricated or cited across batches never gets in.
KeptIsGrounded ==
  \A i \in DOMAIN obligations :
    /\ obligations[i].cites \subseteq Range(batches[obligations[i].batch])
    /\ Fabricated \notin obligations[i].cites

\* A duty the model grounded in any one batch is in the result once, even if it
\* was rejected in another batch, before or after, or returned from both of two
\* batches that overlap.
GroundedIsKept ==
  phase = "done" => \A h \in heard : Grounded(h.answer, h.batch) =>
    \E i \in DOMAIN obligations : \A j \in DOMAIN obligations :
      Key[obligations[j].duty] = Key[h.answer.duty] <=> j = i
=============================================================================
