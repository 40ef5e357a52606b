-------------------------- MODULE ExtractionProofs --------------------------
(***************************************************************************)
(* What Extraction's runs check on small contracts, proved for every       *)
(* contract, batch size and overlap, and for every model.                  *)
(***************************************************************************)
EXTENDS Extraction, NatLemmas, SequenceTheorems

-----------------------------------------------------------------------------
(* The length of a batch's text.                                            *)

IsTextSize(h, batch) ==
  h = [s \in SUBSET (DOMAIN batch) |->
         IF s = {} THEN 0 ELSE h[s \ {Max(s)}] + text[batch[Max(s)]]]

LEMMA TextSizeIsSum ==
  ASSUME NEW batch
  PROVE  TextSize(batch) = (CHOOSE h : IsTextSize(h, batch))[DOMAIN batch]
  BY DEF TextSize, FoldLeft, MapThenFoldSet, IsTextSize

Lengths(batch) == [i \in 1..Len(batch) |-> text[batch[i]]]

LEMMA TextSizeAddsLengths ==
  ASSUME NEW batch \in Seq(Clauses)
  PROVE  \E h : IsSum(h, Lengths(batch), Len(batch)) /\ TextSize(batch) = h[1..Len(batch)]
  <1>1. Len(batch) \in Nat /\ DOMAIN batch = 1..Len(batch)
    BY LenProperties
  <1>2. ASSUME NEW h PROVE IsTextSize(h, batch) <=> IsSum(h, Lengths(batch), Len(batch))
    <2>1. ASSUME NEW s \in SUBSET (1..Len(batch)), s # {}
          PROVE  Lengths(batch)[Max(s)] = text[batch[Max(s)]]
      <3>1. Max(s) \in s
        BY <1>1, <2>1, MaxIsGreatest
      <3> QED
        BY <2>1, <3>1 DEF Lengths
    <2> DEFINE f == [s \in SUBSET (1..Len(batch)) |->
                       IF s = {} THEN 0 ELSE h[s \ {Max(s)}] + text[batch[Max(s)]]]
               g == [s \in SUBSET (1..Len(batch)) |->
                       IF s = {} THEN 0 ELSE h[s \ {Max(s)}] + Lengths(batch)[Max(s)]]
    <2>2. f = g
      BY <2>1
    <2> QED
      BY <1>1, <2>2 DEF IsTextSize, IsSum
  <1>3. \E h : IsSum(h, Lengths(batch), Len(batch))
    BY <1>1, SumExists
  <1>4. \E h : IsTextSize(h, batch)
    BY <1>2, <1>3
  <1>5. IsTextSize(CHOOSE h : IsTextSize(h, batch), batch)
    BY <1>4
  <1> QED
    BY <1>1, <1>2, <1>5, TextSizeIsSum

\* A clause adds the length of its text to that of its batch.
LEMMA TextSizeGrows ==
  ASSUME text \in Seq(Nat), NEW batch \in Seq(Clauses)
  PROVE  /\ TextSize(batch) \in Nat
         /\ TextSize(<<>>) = 0
         /\ \A c \in Clauses : TextSize(Append(batch, c)) = TextSize(batch) + text[c]
  <1>1. PICK n \in Nat : n = Len(batch)
    BY LenProperties
  <1>2. \A i \in 1..n : batch[i] \in Clauses
    BY <1>1, ElementOfSeq
  <1>3. \A i \in 1..n : Lengths(batch)[i] = text[batch[i]] /\ Lengths(batch)[i] \in Nat
    BY <1>1, <1>2, ElementOfSeq DEF Lengths, Clauses
  <1>4. PICK h : IsSum(h, Lengths(batch), n) /\ TextSize(batch) = h[1..n]
    BY <1>1, TextSizeAddsLengths
  <1>5. TextSize(<<>>) = 0
    <2>1. <<>> \in Seq(Clauses) /\ Len(<<>>) = 0 /\ 1..0 = {}
      OBVIOUS
    <2>2. PICK e : IsSum(e, Lengths(<<>>), 0) /\ TextSize(<<>>) = e[{}]
      BY <2>1, TextSizeAddsLengths
    <2> QED
      BY <2>2 DEF IsSum
  <1>6. ASSUME NEW c \in Clauses
        PROVE  TextSize(Append(batch, c)) = TextSize(batch) + text[c]
    <2> DEFINE longer == Append(batch, c)
    <2>1. /\ longer \in Seq(Clauses) /\ Len(longer) = n + 1
          /\ \A i \in 1..n : longer[i] = batch[i]
          /\ longer[n + 1] = c
      BY <1>1
    <2> HIDE DEF longer
    <2>2. /\ \A i \in 1..n : Lengths(batch)[i] = Lengths(longer)[i] /\ Lengths(batch)[i] \in Nat
          /\ Lengths(longer)[n + 1] = text[c]
      BY <1>1, <1>3, <2>1 DEF Lengths
    <2>3. PICK g : IsSum(g, Lengths(longer), n + 1) /\ TextSize(longer) = g[1..(n + 1)]
      BY <2>1, TextSizeAddsLengths
    <2>4. h[1..n] \in Nat /\ g[1..(n + 1)] = h[1..n] + Lengths(longer)[n + 1]
      <3> DEFINE v == Lengths(batch)
                 w == Lengths(longer)
      <3>1. \A i \in 1..n : v[i] = w[i] /\ v[i] \in Nat
        BY <2>2
      <3>2. IsSum(h, v, n) /\ IsSum(g, w, n + 1)
        BY <1>4, <2>3
      <3> HIDE DEF v, w
      <3>3. h[1..n] \in Nat /\ g[1..(n + 1)] = h[1..n] + w[n + 1]
        BY <3>1, <3>2, SumGrows
      <3> QED
        BY <3>3 DEF w
    <2> QED
      BY <1>4, <2>2, <2>3, <2>4 DEF longer
  <1>7. TextSize(batch) \in Nat
    <2>1. n <= n
      OBVIOUS
    <2>2. h[1..n] \in Nat
      BY <1>3, <1>4, <2>1, SumOfPrefix
    <2> QED
      BY <1>4, <2>2
  <1> QED
    BY <1>5, <1>6, <1>7

-----------------------------------------------------------------------------
(* The invariants behind the properties.                                   *)

Consecutive(batch) == \A i \in DOMAIN batch : batch[i] = batch[1] + i - 1

Shown == UNION {Range(batches[k]) : k \in DOMAIN batches}
Group(c) == c..(c + Overlap)
InABatch(c) == \E k \in DOMAIN batches : Group(c) \subseteq Range(batches[k])

\* Packing: the current batch ends at the clause read last, and unless it
\* holds more clauses than are carried it begins with the first clause.
\* Together with the finished batches it holds every clause read, and every
\* group of neighbours read so far is whole in one of them.
PackingInv ==
  /\ Consecutive(current)
  /\ current = <<>> => read = 0
  /\ current # <<>> => current[Len(current)] = read
  /\ Len(current) \in 1..Overlap => current[1] = 1
  /\ 1..read = Shown \cup Range(current)
  /\ \A c \in Clauses : c + Overlap <= read =>
       InABatch(c) \/ Group(c) \subseteq Range(current)

PackedInv ==
  /\ \A k \in DOMAIN batches : Consecutive(batches[k])
  /\ ~Batched => PackingInv
  /\ Batched => Clauses = Shown
  /\ Batched => \A c \in Clauses : c + Overlap <= Len(text) => InABatch(c)

\* What _batch believes of the current batch falls short of its size by what
\* the carried clauses cost beside their text, and exceeds the limit only
\* while the batch is one clause with its overlap.
SizeInv ==
  /\ ~Batched => /\ FullSize(current) <= size + Overlap * Overhead
                 /\ Len(current) <= Overlap + 1 \/ size <= MaxChars
  /\ \A k \in DOMAIN batches :
       \/ Len(batches[k]) <= Overlap + 1
       \/ FullSize(batches[k]) <= MaxChars + Overlap * Overhead

\* Nothing is answered before all is packed; what is kept was grounded in a
\* batch there is.
KeptInv ==
  /\ ~Batched => obligations = <<>>
  /\ phase = "take" => turn <= Len(batches)
  /\ \A i \in DOMAIN obligations :
       /\ obligations[i].batch \in DOMAIN batches
       /\ obligations[i].cites \subseteq Range(batches[obligations[i].batch])

\* The keys seen are the keys kept, each kept once; a grounded answer has its
\* key among them or is still to be looked at.
HeardInv ==
  /\ ~Batched => heard = {}
  /\ seen = {Key[obligations[i].duty] : i \in DOMAIN obligations}
  /\ \A i, j \in DOMAIN obligations :
       Key[obligations[i].duty] = Key[obligations[j].duty] => i = j
  /\ \A h \in heard : Grounded(h.answer, h.batch) =>
       \/ Key[h.answer.duty] \in seen
       \/ phase = "take" /\ h.batch = turn /\ h.answer \in Range(answers)

-----------------------------------------------------------------------------
(* Sequences. *)

LEMMA RangeIs ==
  ASSUME NEW S, NEW s \in Seq(S)
  PROVE  /\ Range(s) \subseteq S
         /\ \A x : x \in Range(s) <=> \E i \in 1..Len(s) : s[i] = x
         /\ IsFiniteSet(Range(s))
         /\ \A x \in S : Range(Append(s, x)) = Range(s) \cup {x}
  <1>1. DOMAIN s = 1..Len(s) /\ Len(s) \in Nat /\ s \in [1..Len(s) -> S]
    BY LenProperties
  <1>2. Range(s) \subseteq S /\ \A x : x \in Range(s) <=> \E i \in 1..Len(s) : s[i] = x
    BY <1>1 DEF Range
  <1>3. IsFiniteSet(Range(s))
    <2>1. IsFiniteSet(DOMAIN s)
      BY <1>1, FS_Interval
    <2>2. IsFiniteSet({s[i] : i \in DOMAIN s})
      BY <1>1, <2>1, ImageIsNoLarger
    <2> QED
      BY <2>2 DEF Range
  <1>4. ASSUME NEW x \in S PROVE Range(Append(s, x)) = Range(s) \cup {x}
    <2>1. /\ DOMAIN Append(s, x) = 1..(Len(s) + 1)
          /\ \A i \in 1..Len(s) : Append(s, x)[i] = s[i]
          /\ Append(s, x)[Len(s) + 1] = x
      BY <1>1
    <2> QED
      BY <1>1, <2>1 DEF Range
  <1> QED
    BY <1>2, <1>3, <1>4

LEMMA CarriedIsASuffix ==
  ASSUME NEW S, NEW s \in Seq(S)
  PROVE  /\ Carried(s) \in Seq(S)
         /\ Len(Carried(s)) = IF Len(s) <= Overlap THEN Len(s) ELSE Overlap
         /\ \A i \in 1..Len(Carried(s)) : Carried(s)[i] = s[Len(s) - Len(Carried(s)) + i]
  <1>1. Overlap \in Nat \ {0}
    BY OverlapAssumption
  <1>2. CASE Len(s) <= Overlap
    BY <1>2 DEF Carried
  <1>3. CASE ~(Len(s) <= Overlap)
    <2> DEFINE m == Len(s) - Overlap + 1
    <2>1. m \in Int /\ Len(s) \in Int /\ m <= Len(s) /\ \A i \in m..Len(s) : s[i] \in S
      BY <1>1, <1>3, ElementOfSeq
    <2>2. /\ SubSeq(s, m, Len(s)) \in Seq(S)
          /\ Len(SubSeq(s, m, Len(s))) = Len(s) - m + 1
          /\ \A i \in 1..(Len(s) - m + 1) : SubSeq(s, m, Len(s))[i] = s[m + i - 1]
      BY <2>1, SubSeqProperties
    <2>3. Carried(s) = SubSeq(s, m, Len(s)) /\ Len(s) - m + 1 = Overlap
      BY <1>1, <1>3 DEF Carried
    <2> QED
      BY <1>1, <1>3, <2>2, <2>3
  <1> QED
    BY <1>2, <1>3

-----------------------------------------------------------------------------
(* Types. *)

TypeInv ==
  /\ TypeOK
  /\ phase = "take" => turn <= Len(batches)
  /\ IsFiniteSet(heard)

LEMMA TypeInvInit == Init => TypeInv
  <1> SUFFICES ASSUME Init PROVE TypeInv
    OBVIOUS
  <1>1. text \in Seq(Nat \ {0})
    BY DocumentsAssumption DEF Init
  <1>2. Len(text) \in Nat
    BY <1>1
  <1>3. IsFiniteSet(heard)
    BY FS_EmptySet DEF Init
  <1> QED
    BY <1>2, <1>3 DEF Init, TypeInv, TypeOK

\* A turn of packing.
LEMMA TypeInvPack ==
  ASSUME TypeInv, Pack
  PROVE  TypeInv'
  <1> DEFINE c == read + 1
             head == IF Overflows(c) THEN Carried(current) ELSE current
  <1>1. text \in Seq(Nat \ {0}) /\ Len(text) \in Nat /\ c \in Clauses /\ text[c] \in Nat
    BY DocumentsAssumption DEF TypeInv, TypeOK, Pack, Clauses
  <1>2. head \in Seq(Clauses)
    BY CarriedIsASuffix DEF TypeInv, TypeOK
  <1>3. TextSize(head) \in Nat /\ ClauseSize(c) \in Nat
    <2>1. text \in Seq(Nat)
      BY <1>1
    <2>2. TextSize(head) \in Nat
      BY <1>2, <2>1, TextSizeGrows
    <2> QED
      BY <1>1, <2>2, SizesAssumption DEF ClauseSize
  <1> HIDE DEF head
  <1>4. /\ read' = c /\ current' = Append(head, c)
        /\ batches' = IF Overflows(c) THEN Append(batches, current) ELSE batches
        /\ size' = (IF Overflows(c) THEN TextSize(head) ELSE size) + ClauseSize(c)
        /\ UNCHANGED <<text, phase, turn, answers, result, heard>>
    BY DEF Pack, head
  <1> HIDE DEF c
  <1>5. Clauses' = Clauses
    BY <1>4 DEF Clauses
  <1>6. read' \in 0..Len(text)
    BY <1>1, <1>4 DEF Clauses
  <1>7. current' \in Seq(Clauses)
    BY <1>1, <1>2, <1>4
  <1>8. size' \in Nat
    <2>1. size \in Nat
      BY DEF TypeInv, TypeOK
    <2> QED
      BY <1>3, <1>4, <2>1
  <1>9. batches' \in Seq(Seq(Clauses)) /\ Len(batches') >= Len(batches) /\ Len(batches') \in Nat
    BY <1>4 DEF TypeInv, TypeOK
  <1>10. turn' \in 1..(Len(batches') + 1)
    BY <1>4, <1>9 DEF TypeInv, TypeOK
  <1>11. /\ phase' = "batch" /\ IsFiniteSet(heard')
         /\ text' \in Documents /\ answers' \in Seq(Answer) /\ seen' \subseteq Range(Key)
         /\ obligations' \in Seq([duty : Duties, cites : SUBSET Clauses, batch : Nat])
         /\ rejected' \in Nat /\ Len(text') = Len(text)
    BY <1>4 DEF TypeInv, TypeOK, Pack, result
  <1> QED
    BY <1>5, <1>6, <1>7, <1>8, <1>9, <1>10, <1>11 DEF TypeInv, TypeOK

\* What the model is asked and answers, and the rest of the packing.
LEMMA TypeInvOthers ==
  ASSUME TypeInv,
         PackRest \/ Ask \/ AskRaises \/ EndBatch \/ Return \/ UNCHANGED vars
  PROVE  TypeInv'
  <1> USE DEF TypeInv, TypeOK, packing, result, Clauses
  <1>1. CASE PackRest
    <2> HIDE DEF Clauses
    <2>1. /\ batches \in Seq(Seq(Clauses)) /\ current \in Seq(Clauses)
          /\ batches' = batches \/ batches' = Append(batches, current)
      BY <1>1 DEF PackRest
    <2>2. batches' \in Seq(Seq(Clauses)) /\ Len(batches') >= Len(batches) /\ Len(batches') \in Nat
      <3> DEFINE B == Seq(Clauses)
      <3>1. batches \in Seq(B) /\ current \in B
        BY <2>1
      <3> HIDE DEF B
      <3>2. /\ Len(batches) \in Nat
            /\ Append(batches, current) \in Seq(B)
            /\ Len(Append(batches, current)) = Len(batches) + 1
        BY <3>1, AppendProperties, LenProperties
      <3> HIDE DEF TypeInv
      <3> QED
        BY <2>1, <3>1, <3>2 DEF B
    <2> QED
      BY <1>1, <2>2 DEF PackRest, Clauses
  <1>2. CASE Ask
    <2>1. PICK response \in BoundedSeq(Answer, MaxAnswers - Cardinality(heard)) :
            /\ answers' = response
            /\ heard' = heard \cup {[answer |-> a, batch |-> turn] : a \in Range(response)}
      BY <1>2 DEF Ask
    <2>2. response \in Seq(Answer)
      <3>1. Cardinality(heard) \in Nat /\ MaxAnswers \in Nat
        BY FS_CardinalityType, OverlapAssumption
      <3>2. PICK m \in 0..(MaxAnswers - Cardinality(heard)) : response \in [1..m -> Answer]
        BY DEF BoundedSeq, SeqOf
      <3>3. m \in Nat
        BY <3>1, <3>2
      <3> QED
        BY <3>2, <3>3, SeqDef
    <2>3. IsFiniteSet(heard')
      <3> DEFINE f == [a \in Range(response) |-> [answer |-> a, batch |-> turn]]
      <3>1. IsFiniteSet(Range(response))
        BY <2>2, RangeIs
      <3>2. IsFiniteSet({f[a] : a \in DOMAIN f})
        BY <3>1, ImageIsNoLarger
      <3>3. {f[a] : a \in DOMAIN f} = {[answer |-> a, batch |-> turn] : a \in Range(response)}
        OBVIOUS
      <3> QED
        BY <2>1, <3>2, <3>3, FS_Union
    <2> QED
      BY <1>2, <2>1, <2>2, <2>3 DEF Ask
  <1>3. CASE AskRaises
    BY <1>3 DEF AskRaises
  <1>4. CASE EndBatch
    BY <1>4 DEF EndBatch
  <1>5. CASE Return
    BY <1>5 DEF Return
  <1>6. CASE UNCHANGED vars
    BY <1>6 DEF vars
  <1> QED
    BY <1>1, <1>2, <1>3, <1>4, <1>5, <1>6

\* One answer is taken: rejected, skipped or kept.
LEMMA TypeInvTake ==
  ASSUME TypeInv, Reject \/ SkipDuplicate \/ Keep
  PROVE  TypeInv'
  <1> USE DEF TypeInv, TypeOK, Clauses
  <1>1. /\ UNCHANGED <<text, packing, turn, heard>> /\ phase' = "take" /\ phase = "take"
        /\ answers # <<>> /\ answers' = Tail(answers)
    BY DEF Reject, SkipDuplicate, Keep, Taken
  <1>2. Head(answers) \in Answer /\ answers' \in Seq(Answer)
    BY <1>1
  <1>3. CASE Reject
    BY <1>1, <1>2, <1>3 DEF Reject, packing
  <1>4. CASE SkipDuplicate
    BY <1>1, <1>2, <1>4 DEF SkipDuplicate, packing, result
  <1>5. CASE Keep
    <2> DEFINE a == Head(answers)
               kept == [duty |-> a.duty, cites |-> a.cites, batch |-> turn]
    <2>1. a.duty \in Duties /\ Key[a.duty] \in Range(Key)
      BY <1>2, KeyAssumption DEF Answer, Range
    <2>2. a.cites \subseteq Clauses
      <3>1. batches[turn] \in Seq(Clauses)
        BY <1>1, ElementOfSeq
      <3>2. Range(batches[turn]) \subseteq Clauses
        BY <3>1, RangeIs
      <3> QED
        BY <1>5, <3>2 DEF Keep, Grounded, ValidIds
    <2> HIDE DEF a
    <2>3. kept \in [duty : Duties, cites : SUBSET Clauses, batch : Nat]
      BY <2>1, <2>2
    <2>4. obligations' = Append(obligations, kept) /\ seen' = seen \cup {Key[a.duty]}
      BY <1>5 DEF Keep, a
    <2> HIDE DEF kept
    <2>5. obligations' \in Seq([duty : Duties, cites : SUBSET Clauses, batch : Nat])
      BY <2>3, <2>4
    <2> QED
      BY <1>1, <1>2, <1>5, <2>1, <2>4, <2>5 DEF Keep, packing
  <1> QED
    BY <1>3, <1>4, <1>5

LEMMA AlwaysTyped == Spec => []TypeInv
  <1>1. TypeInv /\ [Next]_vars => TypeInv'
    BY TypeInvPack, TypeInvOthers, TypeInvTake DEF Next
  <1> QED
    BY TypeInvInit, <1>1, PTL DEF Spec

\* Every variable keeps its type: whatever is kept cites clauses of the
\* contract, and the loop over the batches does not run past their end.
THEOREM ExtractionTypeCorrect == Spec => []TypeOK
  <1>1. TypeInv => TypeOK
    BY DEF TypeInv
  <1> QED
    BY AlwaysTyped, <1>1, PTL

-----------------------------------------------------------------------------
(* What a step does to the batches. *)

LEMMA PackStep ==
  ASSUME TypeInv, Pack
  PROVE  \E head \in Seq(Clauses) :
           /\ read + 1 \in Clauses /\ read \in Nat
           /\ read' = read + 1 /\ current' = Append(head, read + 1)
           /\ ~Batched /\ ~Batched' /\ text' = text /\ Clauses' = Clauses
           /\ \/ /\ head = current /\ batches' = batches
                 /\ current = <<>> \/ size + ClauseSize(read + 1) <= MaxChars
                 /\ size' = size + ClauseSize(read + 1)
              \/ /\ head = Carried(current) /\ batches' = Append(batches, current)
                 /\ current # <<>>
                 /\ size' = TextSize(head) + ClauseSize(read + 1)
  <1> DEFINE c == read + 1
             head == IF Overflows(c) THEN Carried(current) ELSE current
  <1>1. text \in Seq(Nat \ {0}) /\ Len(text) \in Nat /\ c \in Clauses /\ text[c] \in Nat
        /\ read \in Nat /\ size \in Nat /\ MaxChars \in Nat /\ Overhead \in Nat
    <2>1. text \in Seq(Nat \ {0}) /\ size \in Nat /\ read \in 0..Len(text) /\ read < Len(text)
      BY DocumentsAssumption DEF TypeInv, TypeOK, Pack
    <2>2. Len(text) \in Nat /\ read \in Nat /\ c \in Clauses
      BY <2>1 DEF Clauses
    <2>3. text[c] \in Nat
      BY <2>1, <2>2, ElementOfSeq DEF Clauses
    <2> QED
      BY <2>1, <2>2, <2>3, SizesAssumption
  <1>2. head \in Seq(Clauses)
    BY CarriedIsASuffix DEF TypeInv, TypeOK
  <1>3. /\ read' = c /\ current' = Append(head, c)
        /\ ~Batched /\ ~Batched' /\ text' = text /\ Clauses' = Clauses
        /\ batches' = IF Overflows(c) THEN Append(batches, current) ELSE batches
        /\ size' = (IF Overflows(c) THEN TextSize(head) ELSE size) + ClauseSize(c)
    BY DEF Pack, Batched, Clauses
  <1>4. ~Overflows(c) => current = <<>> \/ size + ClauseSize(c) <= MaxChars
    BY <1>1 DEF Overflows, ClauseSize
  <1>5. Overflows(c) => current # <<>>
    BY DEF Overflows
  <1>6. IF Overflows(c) THEN head = Carried(current) ELSE head = current
    OBVIOUS
  <1> HIDE DEF head
  <1> QED
    BY <1>1, <1>2, <1>3, <1>4, <1>5, <1>6

\* The other steps leave the batches alone, but for the rest that is sent.
LEMMA OtherStep ==
  ASSUME [Next]_vars, ~Pack, ~PackRest
  PROVE  UNCHANGED <<text, packing>> /\ (Batched' <=> Batched)
  <1>1. CASE Ask \/ AskRaises
    BY <1>1 DEF Ask, AskRaises, Batched
  <1>2. CASE Reject \/ SkipDuplicate \/ Keep
    BY <1>2 DEF Reject, SkipDuplicate, Keep, Taken, Batched
  <1>3. CASE EndBatch \/ Return
    BY <1>3 DEF EndBatch, Return, Batched
  <1>4. CASE UNCHANGED vars
    BY <1>4 DEF vars, Batched
  <1> QED
    BY <1>1, <1>2, <1>3, <1>4 DEF Next

\* A batch more.
LEMMA AppendedBatch ==
  ASSUME NEW S, NEW s \in Seq(S), NEW x \in S
  PROVE  /\ DOMAIN s = 1..Len(s) /\ Len(s) \in Nat
         /\ DOMAIN Append(s, x) = 1..(Len(s) + 1)
         /\ \A k \in 1..Len(s) : Append(s, x)[k] = s[k]
         /\ Append(s, x)[Len(s) + 1] = x
  OBVIOUS

-----------------------------------------------------------------------------
(* Every clause is shown, and every group of neighbours in one request.      *)

LEMMA ConsecutiveRange ==
  ASSUME NEW S \in SUBSET Nat, NEW s \in Seq(S), s # <<>>, Consecutive(s)
  PROVE  /\ Len(s) \in Nat /\ Len(s) >= 1 /\ s[1] \in Nat
         /\ s[Len(s)] = s[1] + Len(s) - 1
         /\ Range(s) = s[1]..s[Len(s)]
  <1>1. Len(s) \in Nat /\ Len(s) >= 1 /\ DOMAIN s = 1..Len(s)
    BY EmptySeq, LenProperties
  <1>2. s[1] \in Nat
    <2>1. 1 \in 1..Len(s)
      BY <1>1
    <2>2. s[1] \in S
      BY <2>1, ElementOfSeq
    <2> QED
      BY <2>2
  <1>3. \A i \in 1..Len(s) : s[i] = s[1] + i - 1
    BY <1>1 DEF Consecutive
  <1>4. s[Len(s)] = s[1] + Len(s) - 1
    BY <1>1, <1>3
  <1>5. Range(s) = {s[1] + i - 1 : i \in 1..Len(s)}
    BY <1>1, <1>3 DEF Range
  <1>6. ASSUME NEW x \in s[1]..s[Len(s)] PROVE x \in Range(s)
    <2>1. x - s[1] + 1 \in 1..Len(s) /\ x = s[1] + (x - s[1] + 1) - 1
      BY <1>1, <1>2, <1>4
    <2> QED
      BY <1>5, <2>1
  <1>7. Range(s) \subseteq s[1]..s[Len(s)]
    BY <1>1, <1>2, <1>4, <1>5
  <1> QED
    BY <1>1, <1>2, <1>4, <1>6, <1>7

\* What is carried over: consecutive clauses up to the last one read, of the
\* current batch.
LEMMA HeadOfTheNext ==
  ASSUME NEW S \in SUBSET Nat, NEW s \in Seq(S), Consecutive(s),
         NEW head, head = s \/ head = Carried(s)
  PROVE  /\ Consecutive(head)
         /\ Len(head) \in Nat /\ (Len(head) < Overlap => head = s)
         /\ Range(head) \subseteq Range(s)
         /\ head = <<>> <=> s = <<>>
         /\ s # <<>> => head[Len(head)] = s[Len(s)]
  <1>1. CASE head = s
    BY <1>1, LenProperties
  <1>2. CASE head = Carried(s) /\ Len(s) <= Overlap
    <2>1. head = s
      BY <1>2 DEF Carried
    <2> QED
      BY <2>1, <1>1
  <1>3. CASE head = Carried(s) /\ ~(Len(s) <= Overlap)
    <2> DEFINE off == Len(s) - Overlap
    <2>1. /\ head \in Seq(S) /\ Len(head) = Overlap /\ Overlap \in Nat /\ Overlap >= 1
          /\ Len(s) \in Nat /\ DOMAIN s = 1..Len(s)
      BY <1>3, CarriedIsASuffix, OverlapAssumption
    <2>2. \A i \in 1..Overlap : head[i] = s[off + i]
      BY <1>3, <2>1, CarriedIsASuffix
    <2>3. DOMAIN head = 1..Overlap /\ off \in Nat /\ off >= 1 /\ off + Overlap = Len(s)
      BY <1>3, <2>1
    <2>4. \A i \in 1..Overlap : s[off + i] = s[1] + (off + i) - 1
      BY <2>1, <2>3 DEF Consecutive
    <2>5. s[1] \in Nat
      <3>1. 1 \in 1..Len(s)
        BY <2>1, <2>3
      <3>2. s[1] \in S
        BY <3>1, ElementOfSeq
      <3> QED
        BY <3>2
    <2> HIDE DEF off
    <2>6. Consecutive(head)
      <3>1. \A i \in 1..Overlap : head[i] = s[1] + (off + i) - 1
        BY <2>2, <2>4
      <3>2. head[1] = s[1] + (off + 1) - 1
        BY <2>1, <3>1
      <3>3. \A i \in 1..Overlap : head[i] = head[1] + i - 1
        BY <2>1, <2>3, <2>5, <3>1, <3>2
      <3> QED
        BY <2>3, <3>3 DEF Consecutive
    <2>7. Range(head) \subseteq Range(s)
      <3>1. \A i \in 1..Overlap : off + i \in 1..Len(s)
        BY <2>1, <2>3
      <3> QED
        BY <2>1, <2>2, <2>3, <3>1 DEF Range
    <2>8. head # <<>> /\ s # <<>> /\ head[Len(head)] = s[Len(s)]
      BY <2>1, <2>2, <2>3
    <2> QED
      BY <1>3, <2>1, <2>6, <2>7, <2>8
  <1> QED
    BY <1>1, <1>2, <1>3

LEMMA PackingStep ==
  ASSUME TypeInv, PackedInv, Pack
  PROVE  PackingInv'
  <1> DEFINE c == read + 1
  <1>1. PICK head \in Seq(Clauses) :
          /\ c \in Clauses /\ read \in Nat /\ read' = c /\ current' = Append(head, c)
          /\ ~Batched /\ Clauses' = Clauses
          /\ head = current \/ head = Carried(current)
          /\ \/ head = current /\ batches' = batches
             \/ batches' = Append(batches, current)
    BY PackStep
  <1> HIDE DEF c
  <1> DEFINE n == Len(head)
  <1>2. PackingInv /\ Consecutive(current) /\ current \in Seq(Clauses) /\ Clauses \in SUBSET Nat
        /\ batches \in Seq(Seq(Clauses)) /\ Overlap \in Nat /\ Overlap >= 1
    <2>1. current \in Seq(Clauses) /\ batches \in Seq(Seq(Clauses))
      BY DEF TypeInv, TypeOK
    <2>2. PackingInv /\ Consecutive(current)
      BY <1>1 DEF PackedInv, PackingInv
    <2>3. Clauses \in SUBSET Nat /\ Overlap \in Nat /\ Overlap >= 1
      BY OverlapAssumption DEF Clauses
    <2> QED
      BY <2>1, <2>2, <2>3
  <1>3. /\ Consecutive(head) /\ n \in Nat /\ (n < Overlap => head = current)
        /\ Range(head) \subseteq Range(current)
        /\ head = <<>> <=> current = <<>>
        /\ current # <<>> => head[n] = current[Len(current)]
    BY <1>1, <1>2, HeadOfTheNext
  <1>4. head = <<>> => n = 0 /\ c = 1
    BY <1>1, <1>2, <1>3 DEF PackingInv, c
  <1>5. head # <<>> => n >= 1 /\ head[n] = read /\ head[1] \in Nat /\ head[n] = head[1] + n - 1
    BY <1>1, <1>2, <1>3, ConsecutiveRange DEF PackingInv
  <1>6. /\ current' \in Seq(Clauses) /\ Len(current') = n + 1 /\ DOMAIN current' = 1..(n + 1)
        /\ \A i \in 1..n : current'[i] = head[i]
        /\ current'[n + 1] = c /\ current' # <<>>
    BY <1>1, <1>3
  <1>7. Consecutive(current')
    <2>1. CASE head = <<>>
      BY <1>4, <1>6, <2>1 DEF Consecutive
    <2>2. CASE head # <<>>
      <3>1. \A i \in 1..n : head[i] = head[1] + i - 1
        BY <1>1, <1>3 DEF Consecutive
      <3>2. current'[1] = head[1] /\ c = head[1] + (n + 1) - 1
        BY <1>1, <1>3, <1>5, <1>6, <2>2 DEF c
      <3> QED
        BY <1>3, <1>6, <3>1, <3>2 DEF Consecutive
    <2> QED
      BY <2>1, <2>2
  <1>8. Range(current') = Range(head) \cup {c} /\ Range(current') = current'[1]..c
        /\ current'[1] \in Nat /\ c = current'[1] + n
    <2>1. Range(current') = current'[1]..c /\ current'[1] \in Nat /\ c = current'[1] + n
      <3>1. /\ current'[1] \in Nat /\ current'[Len(current')] = current'[1] + Len(current') - 1
            /\ Range(current') = current'[1]..current'[Len(current')]
        BY <1>2, <1>6, <1>7, ConsecutiveRange
      <3> QED
        BY <1>3, <1>6, <3>1
    <2> QED
      BY <1>1, <2>1, RangeIs
  <1>9. n + 1 \in 1..Overlap => current'[1] = 1
    <2> SUFFICES ASSUME n + 1 \in 1..Overlap PROVE current'[1] = 1
      OBVIOUS
    <2>1. head = current
      BY <1>2, <1>3
    <2>2. CASE head = <<>>
      BY <1>4, <1>6, <2>2
    <2>3. CASE head # <<>>
      <3>1. n \in 1..Overlap /\ 1 \in 1..n
        BY <1>2, <1>3, <1>5, <2>3
      <3> QED
        BY <1>2, <1>6, <2>1, <3>1 DEF PackingInv
    <2> QED
      BY <2>2, <2>3
  <1>10. /\ \A k \in DOMAIN batches : k \in DOMAIN batches' /\ batches'[k] = batches[k]
         /\ \/ Shown' = Shown /\ head = current
            \/ /\ Shown' = Shown \cup Range(current)
               /\ \E k \in DOMAIN batches' : batches'[k] = current
    <2>1. CASE batches' = batches /\ head = current
      BY <2>1 DEF Shown
    <2>2. CASE batches' = Append(batches, current)
      <3> DEFINE L == Len(batches)
      <3>1. /\ DOMAIN batches = 1..L /\ L \in Nat /\ DOMAIN batches' = 1..(L + 1)
            /\ \A k \in 1..L : batches'[k] = batches[k]
            /\ batches'[L + 1] = current
        BY <1>2, <2>2, AppendedBatch
      <3>2. Shown' = UNION {Range(batches'[k]) : k \in DOMAIN batches'}
        BY DEF Shown
      <3> HIDE DEF L
      <3>3. \A k \in DOMAIN batches' : k \in 1..L \/ k = L + 1
        BY <3>1
      <3>4. L + 1 \in DOMAIN batches' /\ \A k \in 1..L : k \in DOMAIN batches'
        BY <3>1
      <3>5. Shown' = Shown \cup Range(current)
        BY <3>1, <3>2, <3>3, <3>4 DEF Shown
      <3> QED
        BY <3>1, <3>4, <3>5
    <2> QED
      BY <1>1, <2>1, <2>2
  <1>11. 1..c = Shown' \cup Range(current')
    <2>1. 1..read = Shown \cup Range(current)
      BY <1>2 DEF PackingInv
    <2>2. 1..c = (1..read) \cup {c}
      BY <1>1 DEF c
    <2> QED
      BY <1>3, <1>8, <1>10, <2>1, <2>2
  <1>12. ASSUME NEW g \in Clauses, g + Overlap <= c
         PROVE  InABatch(g)' \/ Group(g) \subseteq Range(current')
    <2>1. CASE g + Overlap <= read
      <3>1. CASE InABatch(g)
        BY <1>10, <3>1 DEF InABatch
      <3>2. CASE Group(g) \subseteq Range(current)
        BY <1>8, <1>10, <3>2 DEF InABatch
      <3> QED
        BY <1>2, <2>1, <3>1, <3>2 DEF PackingInv
    <2>2. CASE ~(g + Overlap <= read)
      <3>1. g + Overlap = c /\ g \in Nat /\ g >= 1 /\ c \in Nat
        BY <1>1, <1>2, <1>12, <2>2 DEF c, Clauses
      <3>2. current'[1] <= g
        <4>1. CASE n + 1 <= Overlap
          BY <1>3, <1>9, <3>1, <4>1
        <4>2. CASE ~(n + 1 <= Overlap)
          BY <1>2, <1>3, <1>8, <3>1, <4>2
        <4> QED
          BY <4>1, <4>2
      <3> QED
        BY <1>8, <3>1, <3>2 DEF Group
    <2> QED
      BY <2>1, <2>2
  <1>13. \A g \in Clauses' : g + Overlap <= read' => InABatch(g)' \/ Group(g)' \subseteq Range(current')
    BY <1>1, <1>12 DEF Group
  <1> QED
    BY <1>1, <1>6, <1>7, <1>9, <1>11, <1>13 DEF PackingInv, Consecutive

LEMMA PackedInvInit == Init => PackedInv
  <1> SUFFICES ASSUME Init PROVE PackedInv
    OBVIOUS
  <1>1. text \in Seq(Nat \ {0}) /\ Len(text) \in Nat
    BY DocumentsAssumption DEF Init
  <1>2. current = <<>> /\ batches = <<>> /\ read = 0 /\ ~Batched
    BY DEF Init, Batched
  <1>3. /\ DOMAIN current = {} /\ DOMAIN batches = {} /\ Len(current) = 0
        /\ Range(current) = {} /\ Shown = {}
    BY <1>2 DEF Range, Shown
  <1>4. \A c \in Clauses : ~(c + Overlap <= 0)
    BY <1>1, OverlapAssumption DEF Clauses
  <1> QED
    BY <1>2, <1>3, <1>4, OverlapAssumption DEF PackedInv, PackingInv, Consecutive

LEMMA PackedInvNext ==
  ASSUME TypeInv, PackedInv, [Next]_vars
  PROVE  PackedInv'
  <1>1. /\ text \in Seq(Nat \ {0}) /\ Len(text) \in Nat
        /\ current \in Seq(Clauses) /\ batches \in Seq(Seq(Clauses))
    BY DocumentsAssumption DEF TypeInv, TypeOK
  <1>2. CASE Pack
    <2>1. PackingInv' /\ ~Batched /\ ~Batched' /\ Consecutive(current)
      BY <1>2, PackingStep, PackStep DEF PackedInv, PackingInv
    <2>2. batches' = batches \/ batches' = Append(batches, current)
      BY <1>2, PackStep
    <2>3. \A k \in DOMAIN batches' : Consecutive(batches'[k])
      <3>1. \A k \in DOMAIN batches : Consecutive(batches[k])
        BY DEF PackedInv
      <3>2. CASE batches' = batches
        BY <3>1, <3>2
      <3>3. CASE batches' = Append(batches, current)
        <4>1. /\ DOMAIN batches = 1..Len(batches) /\ Len(batches) \in Nat
              /\ DOMAIN batches' = 1..(Len(batches) + 1)
              /\ \A k \in 1..Len(batches) : batches'[k] = batches[k]
              /\ batches'[Len(batches) + 1] = current
          BY <1>1, <3>3, AppendedBatch
        <4>2. \A k \in DOMAIN batches' : k \in 1..Len(batches) \/ k = Len(batches) + 1
          BY <4>1
        <4> QED
          BY <2>1, <3>1, <4>1, <4>2
      <3> QED
        BY <2>2, <3>2, <3>3
    <2> QED
      BY <2>1, <2>3 DEF PackedInv
  <1>3. CASE PackRest
    <2>1. /\ text' = text /\ ~Batched /\ Batched' /\ read = Len(text)
          /\ batches' = IF current = <<>> THEN batches ELSE Append(batches, current)
      BY <1>3 DEF PackRest, Batched
    <2>2. PackingInv /\ Clauses' = Clauses /\ Len(text') = Len(text)
      BY <2>1 DEF PackedInv, Clauses
    <2>3. CASE current = <<>>
      <3>1. Len(text) = 0 /\ Clauses = {} /\ batches' = batches
        BY <2>1, <2>2, <2>3 DEF PackingInv, Clauses
      <3>2. Shown' = Shown /\ Shown = {}
        <4>1. 1..read = Shown \cup Range(current)
          BY <2>2 DEF PackingInv
        <4>2. 1..read = {}
          BY <2>1, <3>1
        <4> QED
          BY <3>1, <4>1, <4>2 DEF Shown
      <3> QED
        BY <2>1, <2>2, <3>1, <3>2 DEF PackedInv
    <2>4. CASE current # <<>>
      <3> DEFINE L == Len(batches)
      <3>1. /\ DOMAIN batches = 1..L /\ L \in Nat /\ DOMAIN batches' = 1..(L + 1)
            /\ \A k \in 1..L : batches'[k] = batches[k]
            /\ batches'[L + 1] = current
        BY <1>1, <2>1, <2>4, AppendedBatch
      <3> HIDE DEF L
      <3>2. \A k \in DOMAIN batches' : k \in 1..L \/ k = L + 1
        BY <3>1
      <3>3. L + 1 \in DOMAIN batches' /\ \A k \in 1..L : k \in DOMAIN batches'
        BY <3>1
      <3>4. \A k \in DOMAIN batches' : Consecutive(batches'[k])
        BY <2>2, <3>1, <3>2 DEF PackedInv, PackingInv
      <3>5. Shown' = Shown \cup Range(current)
        <4>1. Shown' = UNION {Range(batches'[k]) : k \in DOMAIN batches'}
          BY DEF Shown
        <4> QED
          BY <3>1, <3>2, <3>3, <4>1 DEF Shown
      <3>6. Clauses' = Shown'
        BY <2>1, <2>2, <3>5 DEF PackingInv, Clauses
      <3>7. ASSUME NEW c \in Clauses, c + Overlap <= Len(text) PROVE InABatch(c)'
        <4>1. InABatch(c) \/ Group(c) \subseteq Range(current)
          BY <2>1, <2>2, <3>7 DEF PackingInv
        <4>2. CASE InABatch(c)
          BY <3>1, <3>3, <4>2 DEF InABatch
        <4>3. CASE Group(c) \subseteq Range(current)
          BY <3>1, <3>3, <4>3 DEF InABatch
        <4> QED
          BY <4>1, <4>2, <4>3
      <3> QED
        BY <2>1, <2>2, <3>4, <3>6, <3>7 DEF PackedInv
    <2> QED
      BY <2>3, <2>4
  <1>4. CASE ~Pack /\ ~PackRest
    <2>1. UNCHANGED <<text, packing>> /\ (Batched' <=> Batched)
      BY <1>4, OtherStep
    <2> QED
      BY <2>1 DEF packing, PackedInv, PackingInv, Consecutive, Shown, InABatch, Clauses
  <1> QED
    BY <1>2, <1>3, <1>4

LEMMA AlwaysPacked == Spec => []PackedInv
  <1>1. TypeInv /\ PackedInv /\ [Next]_vars => PackedInv'
    BY PackedInvNext
  <1> QED
    BY PackedInvInit, AlwaysTyped, <1>1, PTL DEF Spec

\* Whatever the lengths of the clauses, none is left out of the requests, and
\* each request shows consecutive clauses in the document's order.
THEOREM NoClauseIsLeftOut == Spec => []EveryClauseIsShown
  <1>1. TypeInv /\ PackedInv => EveryClauseIsShown
    <2> SUFFICES ASSUME TypeInv, PackedInv, Batched PROVE EveryClauseIsShown
      BY DEF EveryClauseIsShown
    <2>1. Clauses = UNION {Range(batches[k]) : k \in DOMAIN batches}
      BY DEF PackedInv, Shown
    <2>2. ASSUME NEW k \in DOMAIN batches, NEW i \in 1..(Len(batches[k]) - 1)
          PROVE  batches[k][i + 1] = batches[k][i] + 1
      <3> DEFINE b == batches[k]
      <3>1. b \in Seq(Clauses)
        BY ElementOfSeq DEF TypeInv, TypeOK
      <3>2. Consecutive(b)
        BY DEF PackedInv
      <3> HIDE DEF b
      <3>3. DOMAIN b = 1..Len(b) /\ Len(b) \in Nat /\ b[1] \in Int
        <4>1. Len(b) \in Nat /\ DOMAIN b = 1..Len(b)
          BY <3>1
        <4>2. 1 \in 1..Len(b)
          BY <4>1 DEF b
        <4>3. b[1] \in Clauses
          BY <3>1, <4>2, ElementOfSeq
        <4> QED
          BY <4>1, <4>3 DEF Clauses
      <3>4. i \in DOMAIN b /\ i + 1 \in DOMAIN b
        BY <3>3 DEF b
      <3>5. b[i] = b[1] + i - 1 /\ b[i + 1] = b[1] + (i + 1) - 1
        BY <3>2, <3>4 DEF Consecutive
      <3>6. b[i + 1] = b[i] + 1
        BY <3>3, <3>4, <3>5
      <3> QED
        BY <3>6 DEF b
    <2> QED
      BY <2>1, <2>2 DEF EveryClauseIsShown
  <1> QED
    BY AlwaysTyped, AlwaysPacked, <1>1, PTL

\* Wherever the seams fall, Overlap + 1 neighbouring clauses are whole in some
\* request.
THEOREM GroupsAreSeenWhole == Spec => []SeamsAreBridged
  <1>1. PackedInv => SeamsAreBridged
    BY DEF PackedInv, SeamsAreBridged, InABatch, Group
  <1> QED
    BY AlwaysPacked, <1>1, PTL

-----------------------------------------------------------------------------
(* The size of a request. *)

LEMMA SizesStay ==
  ASSUME text' = text, NEW b
  PROVE  FullSize(b)' = FullSize(b)
  BY DEF FullSize, TextSize, FoldLeft, MapThenFoldSet

LEMMA FullSizeGrows ==
  ASSUME text \in Seq(Nat), NEW batch \in Seq(Clauses)
  PROVE  /\ FullSize(batch) \in Nat
         /\ FullSize(batch) = TextSize(batch) + Overhead * Len(batch)
         /\ \A c \in Clauses : FullSize(Append(batch, c)) = FullSize(batch) + ClauseSize(c)
  <1>1. PICK n \in Nat : n = Len(batch)
    BY LenProperties
  <1>2. TextSize(batch) \in Nat /\ Overhead \in Nat
    BY TextSizeGrows, SizesAssumption
  <1>3. Overhead * n \in Nat /\ Overhead * (n + 1) = Overhead * n + Overhead
    BY <1>2
  <1>4. ASSUME NEW c \in Clauses
        PROVE  FullSize(Append(batch, c)) = FullSize(batch) + ClauseSize(c)
    <2>1. TextSize(Append(batch, c)) = TextSize(batch) + text[c]
      BY TextSizeGrows
    <2>2. Len(Append(batch, c)) = n + 1
      BY <1>1
    <2>3. text[c] \in Nat
      BY ElementOfSeq DEF Clauses
    <2> QED
      BY <1>1, <1>2, <1>3, <2>1, <2>2, <2>3 DEF FullSize, ClauseSize
  <1> QED
    BY <1>1, <1>2, <1>3, <1>4 DEF FullSize

LEMMA SizeInvInit == Init => SizeInv
  <1> SUFFICES ASSUME Init PROVE SizeInv
    OBVIOUS
  <1>1. text \in Seq(Nat)
    BY DocumentsAssumption, SeqMonotonic DEF Init
  <1>2. current = <<>> /\ Len(current) = 0 /\ size = 0 /\ DOMAIN batches = {}
    BY DEF Init
  <1>3. TextSize(<<>>) = 0
    <2>1. <<>> \in Seq(Clauses)
      BY EmptySeq
    <2> QED
      BY <1>1, <2>1, TextSizeGrows
  <1>4. Overhead \in Nat /\ Overlap \in Nat
    BY SizesAssumption, OverlapAssumption
  <1>5. Overhead * 0 = 0 /\ Overlap * Overhead \in Nat
    BY <1>4
  <1>6. FullSize(current) = 0
    BY <1>2, <1>3, <1>5 DEF FullSize
  <1> QED
    BY <1>2, <1>4, <1>5, <1>6 DEF SizeInv

\* The bound on the size of one batch.
Bounded(batch) ==
  Len(batch) <= Overlap + 1 \/ FullSize(batch) <= MaxChars + Overlap * Overhead

LEMMA SizeInvNext ==
  ASSUME TypeInv, SizeInv, [Next]_vars
  PROVE  SizeInv'
  <1>1. /\ text \in Seq(Nat) /\ current \in Seq(Clauses) /\ batches \in Seq(Seq(Clauses))
        /\ size \in Nat
    BY DocumentsAssumption, SeqMonotonic DEF TypeInv, TypeOK
  <1>2. /\ Overhead \in Nat /\ Overlap \in Nat /\ MaxChars \in Nat
        /\ Overlap * Overhead \in Nat /\ Overhead * Overlap = Overlap * Overhead
    BY SizesAssumption, OverlapAssumption
  <1>3. \A k \in DOMAIN batches : Bounded(batches[k])
    BY DEF SizeInv, Bounded
  <1>4. ~Batched => Bounded(current)
    BY <1>1, <1>2, FullSizeGrows DEF SizeInv, Bounded
  <1>5. ASSUME text' = text,
               batches' = batches \/ (~Batched /\ batches' = Append(batches, current))
        PROVE  \A k \in DOMAIN batches' : Bounded(batches'[k])
    <2>1. CASE batches' = batches
      BY <1>3, <2>1
    <2>2. CASE ~Batched /\ batches' = Append(batches, current)
      <3> DEFINE L == Len(batches)
      <3>1. /\ DOMAIN batches = 1..L /\ L \in Nat /\ DOMAIN batches' = 1..(L + 1)
            /\ \A k \in 1..L : batches'[k] = batches[k]
            /\ batches'[L + 1] = current
        BY <1>1, <2>2, AppendedBatch
      <3> HIDE DEF L
      <3>2. \A k \in DOMAIN batches' : k \in 1..L \/ k = L + 1
        BY <3>1
      <3> QED
        BY <1>3, <1>4, <2>2, <3>1, <3>2
    <2> QED
      BY <1>5, <2>1, <2>2
  <1>6. ASSUME text' = text, \A k \in DOMAIN batches' : Bounded(batches'[k])
        PROVE  \A k \in DOMAIN batches' :
                 \/ Len(batches'[k]) <= Overlap + 1
                 \/ (FullSize(batches[k]) <= MaxChars + Overlap * Overhead)'
    <2> TAKE k \in DOMAIN batches'
    <2>1. PICK b : b = batches'[k]
      OBVIOUS
    <2>2. Bounded(b) /\ FullSize(b)' = FullSize(b)
      BY <1>6, <2>1, SizesStay
    <2>3. (FullSize(batches[k]))' = FullSize(b)
      BY <2>1, <2>2 DEF FullSize, TextSize, FoldLeft, MapThenFoldSet
    <2> QED
      BY <2>1, <2>2, <2>3 DEF Bounded
  <1>7. CASE Pack
    <2> DEFINE c == read + 1
    <2>1. PICK head \in Seq(Clauses) :
            /\ c \in Clauses /\ current' = Append(head, c)
            /\ ~Batched /\ ~Batched' /\ text' = text
            /\ \/ /\ head = current /\ batches' = batches
                  /\ current = <<>> \/ size + ClauseSize(c) <= MaxChars
                  /\ size' = size + ClauseSize(c)
               \/ /\ head = Carried(current) /\ batches' = Append(batches, current)
                  /\ size' = TextSize(head) + ClauseSize(c)
      BY <1>7, PackStep
    <2> HIDE DEF c
    <2>2. text[c] \in Nat /\ ClauseSize(c) \in Nat
      <3>1. c \in 1..Len(text)
        BY <2>1 DEF Clauses
      <3>2. text[c] \in Nat
        BY <1>1, <3>1, ElementOfSeq
      <3> QED
        BY <3>2, SizesAssumption DEF ClauseSize
    <2>3. Len(head) \in Nat /\ Len(Append(head, c)) = Len(head) + 1
      BY <2>1
    <2>4. /\ FullSize(head) = TextSize(head) + Overhead * Len(head) /\ FullSize(head) \in Nat
          /\ FullSize(Append(head, c)) = FullSize(head) + ClauseSize(c)
          /\ TextSize(head) \in Nat
      BY <1>1, <2>1, FullSizeGrows, TextSizeGrows
    <2>5. /\ FullSize(Append(head, c)) <= size' + Overlap * Overhead
          /\ Len(Append(head, c)) <= Overlap + 1 \/ size' <= MaxChars
      <3>1. CASE /\ head = current
                 /\ current = <<>> \/ size + ClauseSize(c) <= MaxChars
                 /\ size' = size + ClauseSize(c)
        <4>1. FullSize(head) <= size + Overlap * Overhead
          BY <2>1, <3>1 DEF SizeInv
        <4>2. current = <<>> => Len(head) = 0
          BY <3>1
        <4> QED
          BY <1>1, <1>2, <2>2, <2>3, <2>4, <3>1, <4>1, <4>2
      <3>2. CASE head = Carried(current) /\ size' = TextSize(head) + ClauseSize(c)
        <4>1. Len(head) <= Overlap
          BY <1>1, <1>2, <2>3, <3>2, CarriedIsASuffix
        <4>2. Overhead * Len(head) <= Overlap * Overhead /\ Overhead * Len(head) \in Nat
          BY <1>2, <2>3, <4>1
        <4> QED
          BY <1>2, <2>2, <2>3, <2>4, <3>2, <4>1, <4>2
      <3> QED
        BY <2>1, <3>1, <3>2
    <2>6. PICK b : b = Append(head, c)
      OBVIOUS
    <2>7. (FullSize(current))' = FullSize(Append(head, c))
      <3>1. FullSize(b)' = FullSize(b)
        BY <2>1, SizesStay
      <3> QED
        BY <2>1, <2>6, <3>1 DEF FullSize, TextSize, FoldLeft, MapThenFoldSet
    <2> QED
      BY <1>5, <1>6, <2>1, <2>5, <2>7 DEF SizeInv
  <1>8. CASE PackRest
    <2>1. /\ text' = text /\ ~Batched /\ Batched'
          /\ batches' = batches \/ batches' = Append(batches, current)
      BY <1>8 DEF PackRest, Batched
    <2> QED
      BY <1>5, <1>6, <2>1 DEF SizeInv
  <1>9. CASE ~Pack /\ ~PackRest
    <2>1. UNCHANGED <<text, packing>> /\ (Batched' <=> Batched)
      BY <1>9, OtherStep
    <2>2. (FullSize(current))' = FullSize(current)
      BY <2>1 DEF packing, FullSize, TextSize, FoldLeft, MapThenFoldSet
    <2> QED
      BY <1>5, <1>6, <2>1, <2>2 DEF packing, SizeInv
  <1> QED
    BY <1>7, <1>8, <1>9

\* A request is never longer than the limit by more than what the carried
\* clauses cost beside their text, unless it is one clause with its overlap.
THEOREM RequestsAreBounded == Spec => []BatchesAreBounded
  <1>1. TypeInv /\ SizeInv /\ [Next]_vars => SizeInv'
    BY SizeInvNext
  <1>2. SizeInv => BatchesAreBounded
    BY DEF SizeInv, BatchesAreBounded
  <1> QED
    BY SizeInvInit, AlwaysTyped, <1>1, <1>2, PTL DEF Spec

-----------------------------------------------------------------------------
(* What is kept of the answers. *)

\* Once the clauses are packed the batches stay as they are.
LEMMA BatchesStay ==
  ASSUME [Next]_vars, Batched
  PROVE  batches' = batches /\ Batched'
  <1>1. ~Pack /\ ~PackRest
    BY DEF Pack, PackRest, Batched
  <1> QED
    BY <1>1, OtherStep DEF packing

LEMMA KeptInvInit == Init => KeptInv
  BY DEF Init, KeptInv, Batched

\* The obligation kept, and the key remembered.
LEMMA KeepStep ==
  ASSUME TypeInv, Keep
  PROVE  LET a == Head(answers)
             kept == [duty |-> a.duty, cites |-> a.cites, batch |-> turn]
         IN /\ obligations' = Append(obligations, kept)
            /\ DOMAIN obligations = 1..Len(obligations) /\ Len(obligations) \in Nat
            /\ DOMAIN obligations' = 1..(Len(obligations) + 1)
            /\ \A i \in 1..Len(obligations) : obligations'[i] = obligations[i]
            /\ obligations'[Len(obligations) + 1] = kept
            /\ a.cites \subseteq Range(batches[turn])
            /\ Key[a.duty] \notin seen /\ seen' = seen \cup {Key[a.duty]}
  <1>1. obligations \in Seq([duty : Duties, cites : SUBSET Clauses, batch : Nat])
    BY DEF TypeInv, TypeOK
  <1>2. DOMAIN obligations = 1..Len(obligations) /\ Len(obligations) \in Nat
    BY <1>1
  <1>3. Head(answers).cites \subseteq Range(batches[turn])
    BY DEF Keep, Grounded, ValidIds
  <1> QED
    BY <1>2, <1>3 DEF Keep

LEMMA KeptInvNext ==
  ASSUME TypeInv, KeptInv, [Next]_vars
  PROVE  KeptInv'
  <1>1. CASE Pack \/ PackRest
    <2>1. obligations' = <<>> /\ phase' # "take"
      BY <1>1 DEF Pack, PackRest, KeptInv, Batched, result
    <2> QED
      BY <2>1 DEF KeptInv
  <1>2. CASE Keep
    <2>1. phase = "take" /\ Batched /\ turn <= Len(batches) /\ turn' = turn
      BY <1>2 DEF Keep, Taken, KeptInv, Batched
    <2>2. batches' = batches /\ Batched'
      BY <2>1, BatchesStay
    <2>3. turn \in DOMAIN batches
      BY <2>1 DEF TypeInv, TypeOK
    <2>4. ASSUME NEW i \in DOMAIN obligations'
          PROVE  /\ obligations'[i].batch \in DOMAIN batches
                 /\ obligations'[i].cites \subseteq Range(batches[obligations'[i].batch])
      <3> DEFINE a == Head(answers)
                 L == Len(obligations)
      <3>1. /\ DOMAIN obligations = 1..L /\ L \in Nat /\ i \in 1..(L + 1)
            /\ \A n \in 1..L : obligations'[n] = obligations[n]
            /\ obligations'[L + 1] = [duty |-> a.duty, cites |-> a.cites, batch |-> turn]
            /\ a.cites \subseteq Range(batches[turn])
        BY <1>2, <2>4, KeepStep
      <3> HIDE DEF a, L
      <3>2. CASE i \in 1..L
        BY <3>1, <3>2 DEF KeptInv
      <3>3. CASE i = L + 1
        BY <2>3, <3>1, <3>3
      <3> QED
        BY <3>1, <3>2, <3>3
    <2> QED
      BY <2>1, <2>2, <2>4 DEF KeptInv
  <1>3. CASE Batched /\ ~Keep
    <2>1. batches' = batches /\ Batched'
      BY <1>3, BatchesStay
    <2>2. obligations' = obligations /\ (phase' = "take" => turn' <= Len(batches))
      <3>1. CASE Ask \/ AskRaises
        BY <3>1 DEF Ask, AskRaises, result
      <3>2. CASE Reject \/ SkipDuplicate
        BY <3>2 DEF Reject, SkipDuplicate, Taken, KeptInv, result
      <3>3. CASE EndBatch \/ Return
        BY <3>3 DEF EndBatch, Return, result
      <3>4. CASE UNCHANGED vars
        BY <3>4 DEF vars, result, KeptInv
      <3> QED
        BY <1>3, <3>1, <3>2, <3>3, <3>4 DEF Next, Pack, PackRest, Batched
    <2> QED
      BY <2>1, <2>2 DEF KeptInv
  <1>4. CASE UNCHANGED vars
    BY <1>4 DEF vars, packing, result, KeptInv, Batched
  <1>5. CASE ~Batched
    BY <1>1, <1>4, <1>5 DEF Next, Ask, AskRaises, Reject, SkipDuplicate, Keep, Taken,
                            EndBatch, Return, Batched
  <1> QED
    BY <1>2, <1>3, <1>5

\* What is kept cites only clauses of the one request that produced it, and so
\* no clause that does not exist.
THEOREM KeptIsFromOneRequest == Spec => []KeptIsGrounded
  <1>1. TypeInv /\ KeptInv /\ [Next]_vars => KeptInv'
    BY KeptInvNext
  <1>2. TypeInv /\ KeptInv => KeptIsGrounded
    <2> SUFFICES ASSUME TypeInv, KeptInv, NEW i \in DOMAIN obligations
                 PROVE  /\ obligations[i].cites \subseteq Range(batches[obligations[i].batch])
                        /\ Fabricated \notin obligations[i].cites
      BY DEF KeptIsGrounded
    <2> DEFINE k == obligations[i].batch
    <2>1. k \in DOMAIN batches /\ obligations[i].cites \subseteq Range(batches[k])
      BY DEF KeptInv
    <2>2. batches[k] \in Seq(Clauses)
      BY <2>1, ElementOfSeq DEF TypeInv, TypeOK
    <2>3. Range(batches[k]) \subseteq Clauses
      BY <2>2, RangeIs
    <2>4. Fabricated \notin Clauses
      BY DEF Fabricated, Clauses
    <2> QED
      BY <2>1, <2>3, <2>4
  <1> QED
    BY KeptInvInit, AlwaysTyped, <1>1, <1>2, PTL DEF Spec

LEMMA HeardInvInit == Init => HeardInv
  BY DEF Init, HeardInv, Batched

\* An answer less to look at.
LEMMA TakenAnswer ==
  ASSUME NEW S, NEW s \in Seq(S), s # <<>>
  PROVE  \A x \in Range(s) : x = Head(s) \/ x \in Range(Tail(s))
  <1> SUFFICES ASSUME NEW x \in Range(s), x # Head(s) PROVE x \in Range(Tail(s))
    OBVIOUS
  <1>1. PICK i \in 1..Len(s) : s[i] = x
    BY RangeIs
  <1>2. /\ Tail(s) \in Seq(S) /\ Len(Tail(s)) = Len(s) - 1 /\ Len(s) \in Nat
        /\ \A n \in 1..Len(Tail(s)) : Tail(s)[n] = s[n + 1]
    BY HeadTailProperties, LenProperties
  <1>3. i # 1
    BY <1>1
  <1>4. i - 1 \in 1..Len(Tail(s)) /\ Tail(s)[i - 1] = x
    BY <1>1, <1>2, <1>3
  <1> QED
    BY <1>2, <1>4, RangeIs

LEMMA HeardInvNext ==
  ASSUME TypeInv, HeardInv, [Next]_vars
  PROVE  HeardInv'
  <1> USE DEF Grounded, ValidIds
  <1>1. CASE Pack \/ PackRest
    <2>1. UNCHANGED <<seen, obligations>> /\ heard' = {}
      BY <1>1 DEF Pack, PackRest, HeardInv, Batched, result
    <2> QED
      BY <2>1 DEF HeardInv
  <1>2. CASE Ask
    <2>1. UNCHANGED <<batches, seen, obligations, turn>> /\ Batched' /\ phase = "ask" /\ phase' = "take"
      BY <1>2 DEF Ask, Batched, packing, result
    <2>2. heard' = heard \cup {[answer |-> a, batch |-> turn] : a \in Range(answers')}
      BY <1>2 DEF Ask
    <2>3. ASSUME NEW h \in heard', Grounded(h.answer, h.batch)'
          PROVE  Key[h.answer.duty] \in seen
                 \/ (h.batch = turn /\ h.answer \in Range(answers'))
      <3>1. CASE h \in heard
        BY <2>1, <2>3, <3>1 DEF HeardInv
      <3>2. CASE h \in {[answer |-> a, batch |-> turn] : a \in Range(answers')}
        BY <3>2
      <3> QED
        BY <2>2, <3>1, <3>2
    <2> QED
      BY <2>1, <2>3 DEF HeardInv
  <1>3. CASE AskRaises \/ Return \/ EndBatch
    <2>1. UNCHANGED <<batches, seen, obligations, heard>> /\ Batched'
      BY <1>3 DEF AskRaises, Return, EndBatch, Batched, packing, result
    <2>2. phase = "take" => Range(answers) = {}
      BY <1>3 DEF AskRaises, Return, EndBatch, Range
    <2>3. \A h \in heard : Grounded(h.answer, h.batch) => Key[h.answer.duty] \in seen
      BY <2>2 DEF HeardInv
    <2> QED
      BY <2>1, <2>3 DEF HeardInv
  <1>4. CASE Reject \/ SkipDuplicate \/ Keep
    <2> DEFINE a == Head(answers)
    <2>1. /\ UNCHANGED <<batches, heard, turn>> /\ Batched' /\ phase' = "take" /\ phase = "take"
          /\ answers' = Tail(answers) /\ answers \in Seq(Answer) /\ answers # <<>>
      BY <1>4 DEF Reject, SkipDuplicate, Keep, Taken, Batched, packing, TypeInv, TypeOK
    <2>2. \A x \in Range(answers) : x = a \/ x \in Range(answers')
      BY <2>1, TakenAnswer
    <2>3. CASE Reject
      <3>1. UNCHANGED <<seen, obligations>> /\ ~Grounded(a, turn)
        BY <2>3 DEF Reject
      <3> HIDE DEF a
      <3>2. ASSUME NEW h \in heard, Grounded(h.answer, h.batch)
            PROVE  Key[h.answer.duty] \in seen \/ (h.batch = turn /\ h.answer \in Range(answers'))
        BY <2>2, <3>1, <3>2 DEF HeardInv
      <3> QED
        BY <2>1, <3>1, <3>2 DEF HeardInv
    <2>4. CASE SkipDuplicate
      <3>1. UNCHANGED <<seen, obligations>> /\ Key[a.duty] \in seen
        BY <2>4 DEF SkipDuplicate, result
      <3> HIDE DEF a
      <3>2. ASSUME NEW h \in heard, Grounded(h.answer, h.batch)
            PROVE  Key[h.answer.duty] \in seen \/ (h.batch = turn /\ h.answer \in Range(answers'))
        BY <2>2, <3>1, <3>2 DEF HeardInv
      <3> QED
        BY <2>1, <3>1, <3>2 DEF HeardInv
    <2>5. CASE Keep
      <3> DEFINE L == Len(obligations)
      <3>1. /\ DOMAIN obligations = 1..L /\ L \in Nat /\ DOMAIN obligations' = 1..(L + 1)
            /\ \A i \in 1..L : obligations'[i] = obligations[i]
            /\ obligations'[L + 1].duty = a.duty
            /\ Key[a.duty] \notin seen /\ seen' = seen \cup {Key[a.duty]}
        BY <2>5, KeepStep
      <3> HIDE DEF a, L
      <3>2. \A i \in DOMAIN obligations' : i \in 1..L \/ i = L + 1
        BY <3>1
      <3>3. L + 1 \in DOMAIN obligations' /\ \A i \in 1..L : i \in DOMAIN obligations'
        BY <3>1
      <3>4. seen' = {Key[obligations'[i].duty] : i \in DOMAIN obligations'}
        BY <3>1, <3>2, <3>3 DEF HeardInv
      <3>5. ASSUME NEW i \in DOMAIN obligations', NEW j \in DOMAIN obligations',
                   Key[obligations'[i].duty] = Key[obligations'[j].duty]
            PROVE  i = j
        <4>1. \A k \in 1..L : Key[obligations'[k].duty] \in seen
          BY <3>1 DEF HeardInv
        <4>2. CASE i \in 1..L /\ j \in 1..L
          BY <3>1, <3>5, <4>2 DEF HeardInv
        <4>3. CASE i = L + 1 /\ j \in 1..L
          BY <3>1, <3>5, <4>1, <4>3
        <4>4. CASE i \in 1..L /\ j = L + 1
          BY <3>1, <3>5, <4>1, <4>4
        <4> QED
          BY <3>2, <4>2, <4>3, <4>4
      <3>6. ASSUME NEW h \in heard, Grounded(h.answer, h.batch)
            PROVE  Key[h.answer.duty] \in seen' \/ (h.batch = turn /\ h.answer \in Range(answers'))
        BY <2>2, <3>1, <3>6 DEF HeardInv
      <3> QED
        BY <2>1, <3>4, <3>5, <3>6 DEF HeardInv
    <2> QED
      BY <1>4, <2>3, <2>4, <2>5
  <1>5. CASE UNCHANGED vars
    BY <1>5 DEF vars, packing, result, HeardInv, Batched
  <1> QED
    BY <1>1, <1>2, <1>3, <1>4, <1>5 DEF Next

\* A duty that the model grounded in any request is in the result, once, when
\* extraction returns: a rejection in one request does not shut it out of
\* another, and an overlap does not bring it in twice.
THEOREM GroundedAnswersAreKept == Spec => []GroundedIsKept
  <1>1. TypeInv /\ HeardInv /\ [Next]_vars => HeardInv'
    BY HeardInvNext
  <1>2. HeardInv => GroundedIsKept
    <2> SUFFICES ASSUME HeardInv, phase = "done", NEW h \in heard, Grounded(h.answer, h.batch)
                 PROVE  \E i \in DOMAIN obligations : \A j \in DOMAIN obligations :
                          Key[obligations[j].duty] = Key[h.answer.duty] <=> j = i
      BY DEF GroundedIsKept
    <2>1. Key[h.answer.duty] \in seen
      BY DEF HeardInv
    <2>2. PICK i \in DOMAIN obligations : Key[obligations[i].duty] = Key[h.answer.duty]
      BY <2>1 DEF HeardInv
    <2> QED
      BY <2>2 DEF HeardInv
  <1> QED
    BY HeardInvInit, AlwaysTyped, <1>1, <1>2, PTL DEF Spec
=============================================================================
