------------------------- MODULE ClauseRecordsProofs -------------------------
(***************************************************************************)
(* What _split_long guarantees for every clause, window size and overlap;  *)
(* what the embedded records are, for every document, batch size and order *)
(* of the answers; and which clause every line of every document ends up   *)
(* in, with the page and the box the citation of that clause names.        *)
(***************************************************************************)
EXTENDS ClauseRecords, NatLemmas, SequenceTheorems

\* How far the text has been put into windows.
Covered == IF windows = <<>> THEN 0 ELSE windows[Len(windows)].to

\* Inductive: what is covered so far survives, and the next window repeats the
\* last OVERLAP_CHARS of it, so that what the next window adds survives as well.
Survives(a, b) == \E i \in DOMAIN windows : windows[i].from <= a /\ b <= windows[i].to

IInv ==
  /\ WindowsTypeOK
  /\ WindowsFit
  /\ windows = <<>> => start = 0 /\ (splitting = "cutting" \/ length = 0)
  /\ length <= MAX_CLAUSE_CHARS /\ splitting = "cutting" => windows = <<>>
  /\ splitting = "cutting" /\ windows # <<>> => start + OVERLAP_CHARS = Covered /\ Covered < length
  /\ splitting = "done" => Covered = length
  /\ \A a \in Nat : \A b \in (a + 1)..(a + OVERLAP_CHARS + 1) :
       b <= Covered => Survives(a, b)

LEMMA Quarter == MAX_CLAUSE_CHARS \div 4 \in Nat /\ MAX_CLAUSE_CHARS \div 4 < MAX_CLAUSE_CHARS
BY WindowAssumption

LEMMA EndsAreAhead ==
  ASSUME WindowsTypeOK, splitting = "cutting", NEW end \in Ends
  PROVE  /\ end \in Nat /\ end <= length /\ end - start <= MAX_CLAUSE_CHARS
         /\ Reach = length \/ end >= start + MAX_CLAUSE_CHARS - (MAX_CLAUSE_CHARS \div 4)
         /\ end >= length => end = length
         /\ end > start
<1> DEFINE Q == MAX_CLAUSE_CHARS \div 4
<1>1. Q \in Nat /\ Q < MAX_CLAUSE_CHARS
  BY Quarter
<1>2. length \in Nat \ {0} /\ start \in Nat /\ start < length
  BY DEF WindowsTypeOK
<1>3. Reach \in Nat /\ Reach <= length /\ Reach - start <= MAX_CLAUSE_CHARS /\ Reach > start
      /\ (Reach < length => Reach = start + MAX_CLAUSE_CHARS)
  BY <1>2, WindowAssumption DEF Reach
<1> HIDE DEF Q
<1>4. CASE end = Reach
  <2>1. Reach < length => end >= start + MAX_CLAUSE_CHARS - Q
    BY <1>1, <1>2, <1>3, <1>4, WindowAssumption
  <2> QED
    BY <1>2, <1>3, <1>4, <2>1 DEF Q
<1>5. CASE Reach < length /\ end \in SentenceEnds
  <2>1. PICK p \in (Reach - Q)..(Reach - 2) : end = p + 1
    BY <1>5 DEF SentenceEnds, Q
  <2>2. p \in Int /\ p >= Reach - Q /\ p <= Reach - 2
    BY <1>1, <1>3
  <2>3. end > start + MAX_CLAUSE_CHARS - Q /\ end < Reach /\ end > start
    BY <1>1, <1>2, <1>3, <1>5, <2>1, <2>2, WindowAssumption
  <2> QED
    BY <1>1, <1>2, <1>3, <2>1, <2>2, <2>3, WindowAssumption DEF Q
<1> QED
  BY <1>4, <1>5, <1>3, <1>2 DEF Ends

LEMMA NextStartRepeatsTheOverlap ==
  ASSUME WindowsTypeOK, splitting = "cutting", NEW end \in Ends, end < length
  PROVE  /\ NextStart(end) = end - OVERLAP_CHARS
         /\ NextStart(end) - start
              >= MAX_CLAUSE_CHARS - (MAX_CLAUSE_CHARS \div 4) - OVERLAP_CHARS
         /\ NextStart(end) \in 0..(length - 1) /\ NextStart(end) > start
<1> DEFINE Q == MAX_CLAUSE_CHARS \div 4
<1>1. Q \in Nat /\ Q < MAX_CLAUSE_CHARS /\ OVERLAP_CHARS < MAX_CLAUSE_CHARS - Q
  BY Quarter, WindowAssumption
<1>2. /\ length \in Nat /\ start \in Nat /\ start < length
  BY DEF WindowsTypeOK
<1>3. end \in Nat /\ (Reach = length \/ end >= start + MAX_CLAUSE_CHARS - Q)
  BY EndsAreAhead
<1>4. Reach < length
  <2>1. Reach = length => Ends = {length}
    BY <1>2 DEF Ends
  <2> QED
    BY <1>2, <2>1, WindowAssumption DEF Reach
<1> HIDE DEF Q
<1>5. end - OVERLAP_CHARS >= start + 1 /\ end - OVERLAP_CHARS - start >= MAX_CLAUSE_CHARS - Q - OVERLAP_CHARS
  BY <1>1, <1>2, <1>3, <1>4, WindowAssumption
<1>6. NextStart(end) = end - OVERLAP_CHARS
  BY <1>2, <1>3, <1>5, WindowAssumption DEF NextStart
<1> QED
  BY <1>2, <1>3, <1>5, <1>6, WindowAssumption DEF Q

LEMMA InitHolds == SplitInit => IInv
BY WindowAssumption DEF SplitInit, IInv, WindowsTypeOK, WindowsFit, Covered, Survives

\* What a step that appends the window from `start' to `end' does to the
\* stretches.
LEMMA AppendKeepsStretches ==
  ASSUME IInv, splitting = "cutting", NEW end \in 1..length, end > start,
         end >= Covered, end - start <= MAX_CLAUSE_CHARS,
         windows' = Append(windows, [from |-> start, to |-> end])
  PROVE  /\ windows' \in Seq([from : Nat, to : 1..length])
         /\ windows' # <<>> /\ Covered' = end
         /\ WindowsFit'
         /\ \A a \in Nat : \A b \in (a + 1)..(a + OVERLAP_CHARS + 1) :
              b <= Covered' => Survives(a, b)'
<1>1. /\ windows \in Seq([from : Nat, to : 1..length])
      /\ start \in Nat /\ length \in Nat /\ OVERLAP_CHARS \in Nat
  BY WindowAssumption DEF IInv, WindowsTypeOK
<1> DEFINE w == [from |-> start, to |-> end]
<1>2. w \in [from : Nat, to : 1..length] /\ w.from = start /\ w.to = end
  BY <1>1
<1> HIDE DEF w
<1>3. windows' = Append(windows, w)
  BY DEF w
<1>4. /\ windows' \in Seq([from : Nat, to : 1..length])
      /\ Len(windows') = Len(windows) + 1 /\ windows'[Len(windows) + 1] = w
      /\ \A i \in DOMAIN windows : windows'[i] = windows[i] /\ i \in DOMAIN windows'
      /\ DOMAIN windows' = 1..(Len(windows) + 1) /\ DOMAIN windows = 1..Len(windows)
      /\ Len(windows) \in Nat
  BY <1>1, <1>2, <1>3
<1>5. windows' # <<>> /\ Covered' = end
  BY <1>2, <1>4 DEF Covered
<1>6. WindowsFit'
  <2> SUFFICES ASSUME NEW i \in DOMAIN windows'
               PROVE  windows'[i].to - windows'[i].from <= MAX_CLAUSE_CHARS
    BY DEF WindowsFit
  <2> QED
    BY <1>2, <1>4 DEF IInv, WindowsFit
<1>7. ASSUME NEW a \in Nat, NEW b \in (a + 1)..(a + OVERLAP_CHARS + 1), b <= end
      PROVE  Survives(a, b)'
  <2>1. CASE b <= Covered
    BY <2>1, <1>4, <1>7 DEF IInv, Survives
  <2>2. CASE ~(b <= Covered)
    <3>1. Covered \in Nat /\ (windows = <<>> => start = 0)
          /\ (windows # <<>> => start + OVERLAP_CHARS = Covered)
      BY <1>1 DEF IInv, Covered
    <3>2. start <= a
      BY <1>1, <1>7, <2>2, <3>1
    <3>3. windows'[Len(windows) + 1].from <= a /\ b <= windows'[Len(windows) + 1].to
      BY <1>2, <1>4, <1>7, <3>2
    <3>4. Len(windows) + 1 \in DOMAIN windows'
      BY <1>4
    <3>5. \E i \in DOMAIN windows' : windows'[i].from <= a /\ b <= windows'[i].to
      BY <3>3, <3>4
    <3> QED
      BY <3>5 DEF Survives
  <2> QED
    BY <2>1, <2>2
<1> QED
  BY <1>4, <1>5, <1>6, <1>7

LEMMA StepHolds == IInv /\ [SplitNext]_splitVars => IInv'
<1> SUFFICES ASSUME IInv, [SplitNext]_splitVars PROVE IInv'
  OBVIOUS
<1>0. /\ WindowsTypeOK /\ OVERLAP_CHARS \in Nat /\ length \in Nat /\ start \in Nat
      /\ splitting = "cutting" => length \in Nat \ {0}
  BY WindowAssumption DEF IInv, WindowsTypeOK
<1>4. ASSUME NEW n \in Nat \ {0}, Call(n) PROVE IInv'
  BY <1>4, WindowAssumption
     DEF Call, IInv, WindowsTypeOK, WindowsFit, Covered, Survives
<1>1. CASE LeaveWhole
  <2>1. windows = <<>> /\ start = 0 /\ splitting = "cutting" /\ splitting' = "done"
        /\ length' = length /\ start' = start
    BY <1>1 DEF IInv, LeaveWhole
  <2>2. windows' = Append(windows, [from |-> start, to |-> length])
    BY <1>1, <2>1 DEF LeaveWhole
  <2>3. /\ windows' \in Seq([from : Nat, to : 1..length])
        /\ windows' # <<>> /\ Covered' = length
        /\ WindowsFit'
        /\ \A a \in Nat : \A b \in (a + 1)..(a + OVERLAP_CHARS + 1) :
             b <= Covered' => Survives(a, b)'
    <3>1. length \in 1..length /\ length > start /\ length >= Covered
          /\ length - start <= MAX_CLAUSE_CHARS
      BY <1>0, <1>1, <2>1 DEF LeaveWhole, Covered
    <3> QED
      BY <2>1, <2>2, <3>1, AppendKeepsStretches
  <2> QED
    BY <1>0, <2>1, <2>3 DEF IInv, WindowsTypeOK
<1>2. CASE Cut
  <2>1. PICK end \in Ends :
          /\ windows' = Append(windows, [from |-> start, to |-> end])
          /\ IF IsLast(end)
             THEN splitting' = "done" /\ UNCHANGED start
             ELSE start' = NextStart(end) /\ UNCHANGED splitting
    BY <1>2 DEF Cut
  <2>2. splitting = "cutting" /\ length' = length
    BY <1>2 DEF Cut
  <2>3. end \in 1..length /\ end > start /\ end - start <= MAX_CLAUSE_CHARS
    BY <1>0, <2>2, EndsAreAhead
  <2>4. end >= Covered
    <3>1. windows # <<>> => start + OVERLAP_CHARS = Covered /\ Covered < length
      BY <2>2 DEF IInv
    <3>2. CASE Reach = length
      <4>1. end = length
        BY <1>0, <3>2 DEF Ends
      <4> QED
        BY <1>0, <3>1, <4>1 DEF Covered
    <3>3. CASE Reach # length
      <4> DEFINE Q == MAX_CLAUSE_CHARS \div 4
      <4>1. end \in Nat /\ end >= start + MAX_CLAUSE_CHARS - Q
        BY <1>0, <2>2, <3>3, EndsAreAhead
      <4>2. Q \in Nat /\ OVERLAP_CHARS < MAX_CLAUSE_CHARS - Q /\ MAX_CLAUSE_CHARS \in Nat
        BY Quarter, WindowAssumption
      <4> HIDE DEF Q
      <4> QED
        BY <1>0, <3>1, <4>1, <4>2 DEF Covered
    <3> QED
      BY <3>2, <3>3
  <2>5. /\ windows' \in Seq([from : Nat, to : 1..length])
        /\ windows' # <<>> /\ Covered' = end
        /\ WindowsFit'
        /\ \A a \in Nat : \A b \in (a + 1)..(a + OVERLAP_CHARS + 1) :
             b <= Covered' => Survives(a, b)'
    BY <2>1, <2>2, <2>3, <2>4, AppendKeepsStretches
  <2>6. CASE IsLast(end)
    BY <1>0, <2>1, <2>2, <2>3, <2>5, <2>6 DEF IInv, WindowsTypeOK, IsLast
  <2>7. CASE ~IsLast(end)
    <3>1. end < length
      BY <1>0, <2>3, <2>7 DEF IsLast
    <3>2. start' = end - OVERLAP_CHARS /\ start' \in 0..(length - 1) /\ splitting' = splitting
      BY <1>0, <2>1, <2>2, <2>7, <3>1, NextStartRepeatsTheOverlap
    <3>3. length' > MAX_CLAUSE_CHARS
      BY <1>2, <2>2 DEF Cut
    <3>4. WindowsTypeOK'
      BY <1>0, <2>2, <2>5, <3>2 DEF WindowsTypeOK
    <3>5. start' + OVERLAP_CHARS = Covered' /\ Covered' < length'
      BY <1>0, <2>2, <2>3, <2>5, <3>1, <3>2
    <3>6. ~(length' <= MAX_CLAUSE_CHARS)
      BY <1>0, <2>2, <3>3, WindowAssumption
    <3> QED
      BY <2>2, <2>5, <3>2, <3>4, <3>5, <3>6 DEF IInv
  <2> QED
    BY <2>6, <2>7
<1>3. CASE UNCHANGED splitVars
  BY <1>3 DEF IInv, splitVars, WindowsTypeOK, WindowsFit, Covered, Survives
<1> QED
  BY <1>1, <1>2, <1>3, <1>4 DEF SplitNext

LEMMA SplitFits == SplitSpec => []WindowsFit
<1>1. IInv => WindowsFit
  BY DEF IInv
<1> QED
  BY <1>1, InitHolds, StepHolds, PTL DEF SplitSpec

LEMMA SplitLosesNothing == SplitSpec => []StretchesSurvive
<1>1. IInv => StretchesSurvive
  <2> SUFFICES ASSUME IInv, splitting = "done", NEW a \in 0..(length - 1),
                      NEW b \in (a + 1)..(a + OVERLAP_CHARS + 1), b <= length
               PROVE  \E i \in DOMAIN windows : windows[i].from <= a /\ b <= windows[i].to
    BY DEF StretchesSurvive
  <2>1. a \in Nat /\ b <= Covered
    BY DEF IInv, WindowsTypeOK
  <2>2. Survives(a, b)
    BY <2>1 DEF IInv
  <2> QED
    BY <2>2 DEF Survives
<1> QED
  BY <1>1, InitHolds, StepHolds, PTL DEF SplitSpec

-----------------------------------------------------------------------------
\* How far the next window starts after the last one.
LeastStep == MAX_CLAUSE_CHARS - (MAX_CLAUSE_CHARS \div 4) - OVERLAP_CHARS

\* Inductive with IInv: windows advance, and so will the next one.
AInv ==
  /\ WindowsAdvance
  /\ splitting = "cutting" /\ windows # <<>> =>
       start - windows[Len(windows)].from >= LeastStep

\* A window that starts a step after the last one and ends later keeps them
\* advancing.
LEMMA AppendAdvances ==
  ASSUME WindowsTypeOK, AInv, splitting = "cutting", NEW end \in 1..length,
         windows # <<>> => end > Covered,
         windows' = Append(windows, [from |-> start, to |-> end])
  PROVE  WindowsAdvance'
<1> DEFINE w == [from |-> start, to |-> end]
<1>1. /\ windows \in Seq([from : Nat, to : 1..length])
      /\ w \in [from : Nat, to : 1..length] /\ w.from = start /\ w.to = end
      /\ start \in Nat /\ length \in Nat
  BY DEF WindowsTypeOK
<1> HIDE DEF w
<1>2. windows' = Append(windows, w)
  BY DEF w
<1>3. /\ Len(windows) \in Nat /\ Len(windows') = Len(windows) + 1
      /\ windows'[Len(windows) + 1] = w
      /\ \A i \in 1..Len(windows) : windows'[i] = windows[i]
      /\ \A i \in 1..Len(windows) : windows[i].from \in Nat /\ windows[i].to \in Nat
  <2>1. /\ Len(windows) \in Nat
        /\ \A i \in 1..Len(windows) : windows[i] \in [from : Nat, to : 1..length]
    <3> DEFINE W == [from : Nat, to : 1..length]
    <3>1. windows \in Seq(W)
      BY <1>1
    <3> HIDE DEF W
    <3>2. Len(windows) \in Nat /\ \A i \in 1..Len(windows) : windows[i] \in W
      BY <3>1
    <3> QED
      BY <3>2 DEF W
  <2>2. /\ Len(windows') = Len(windows) + 1 /\ windows'[Len(windows) + 1] = w
        /\ \A i \in 1..Len(windows) : windows'[i] = windows[i]
    BY <1>1, <1>2
  <2> QED
    BY <1>1, <2>1, <2>2
<1> SUFFICES ASSUME NEW i \in 1..(Len(windows') - 1)
             PROVE  /\ windows'[i].to < windows'[i + 1].to
                    /\ windows'[i + 1].from - windows'[i].from >= LeastStep
  BY DEF WindowsAdvance, LeastStep
<1>4. CASE i < Len(windows)
  <2>1. i \in 1..(Len(windows) - 1) /\ i + 1 \in 1..Len(windows)
    BY <1>3, <1>4
  <2> QED
    BY <1>3, <2>1 DEF AInv, WindowsAdvance, LeastStep
<1>5. CASE i = Len(windows)
  <2>1. windows # <<>> /\ i \in 1..Len(windows)
    BY <1>1, <1>3, <1>5
  <2>2. windows'[i] = windows[Len(windows)] /\ windows'[i + 1] = w
    BY <1>3, <1>5, <2>1
  <2> QED
    BY <1>1, <2>1, <2>2 DEF AInv, Covered
<1> QED
  BY <1>3, <1>4, <1>5

LEMMA StepAdvances == IInv /\ AInv /\ [SplitNext]_splitVars => AInv'
<1> SUFFICES ASSUME IInv, AInv, [SplitNext]_splitVars PROVE AInv'
  OBVIOUS
<1>0. WindowsTypeOK /\ length \in Nat /\ start \in Nat
  BY DEF IInv, WindowsTypeOK
<1>1. ASSUME NEW n \in Nat \ {0}, Call(n) PROVE AInv'
  BY <1>1 DEF Call, AInv, WindowsAdvance
<1>2. CASE LeaveWhole
  BY <1>2 DEF LeaveWhole, AInv, WindowsAdvance
<1>3. CASE Cut
  <2>1. PICK end \in Ends :
          /\ windows' = Append(windows, [from |-> start, to |-> end])
          /\ IF IsLast(end)
             THEN splitting' = "done" /\ UNCHANGED start
             ELSE start' = NextStart(end) /\ UNCHANGED splitting
    BY <1>3 DEF Cut
  <2>2. splitting = "cutting" /\ length' = length
    BY <1>3 DEF Cut
  <2>3. /\ end \in 1..length
        /\ Reach = length \/ end >= start + MAX_CLAUSE_CHARS - (MAX_CLAUSE_CHARS \div 4)
    BY <1>0, <2>2, EndsAreAhead
  <2>4. ASSUME windows # <<>> PROVE end > Covered
    <3>1. start + OVERLAP_CHARS = Covered /\ Covered < length
      BY <2>2, <2>4 DEF IInv
    <3>2. CASE Reach = length
      <4>1. end = length
        BY <1>0, <3>2 DEF Ends
      <4> QED
        BY <3>1, <4>1
    <3>3. CASE Reach # length
      <4> DEFINE Q == MAX_CLAUSE_CHARS \div 4
      <4>1. end >= start + MAX_CLAUSE_CHARS - Q
        BY <2>3, <3>3
      <4>2. Q \in Nat /\ OVERLAP_CHARS < MAX_CLAUSE_CHARS - Q
        BY Quarter, WindowAssumption
      <4> HIDE DEF Q
      <4> QED
        BY <1>0, <2>3, <3>1, <4>1, <4>2, WindowAssumption
    <3> QED
      BY <3>2, <3>3
  <2>5. WindowsAdvance'
    BY <1>0, <2>1, <2>2, <2>3, <2>4, AppendAdvances
  <2>6. ASSUME splitting' = "cutting"
        PROVE  start' - windows'[Len(windows')].from >= LeastStep
    <3>1. ~IsLast(end) /\ start' = NextStart(end)
      BY <2>1, <2>6
    <3>2. NextStart(end) - start >= LeastStep
      BY <1>0, <2>2, <2>3, <3>1, NextStartRepeatsTheOverlap DEF IsLast, LeastStep
    <3>3. windows'[Len(windows')].from = start
      BY <1>0, <2>1 DEF WindowsTypeOK
    <3> QED
      BY <3>1, <3>2, <3>3
  <2> QED
    BY <2>5, <2>6 DEF AInv
<1>4. CASE UNCHANGED splitVars
  BY <1>4 DEF AInv, WindowsAdvance, splitVars
<1> QED
  BY <1>1, <1>2, <1>3, <1>4 DEF SplitNext

LEMMA SplitAdvances == SplitSpec => []WindowsAdvance
<1>1. SplitInit => AInv
  BY DEF SplitInit, AInv, WindowsAdvance
<1>2. AInv => WindowsAdvance
  BY DEF AInv
<1> QED
  BY <1>1, <1>2, InitHolds, StepHolds, StepAdvances, PTL DEF SplitSpec

-----------------------------------------------------------------------------
(* Sorted numbers.                                                          *)

LEMMA AscendingSorts ==
  ASSUME NEW S \in SUBSET Int, IsFiniteSet(S)
  PROVE  /\ Cardinality(S) \in Nat
         /\ Ascending(S) \in [1..Cardinality(S) -> S]
         /\ \A i, j \in 1..Cardinality(S) : i < j => Ascending(S)[i] < Ascending(S)[j]
         /\ \A x \in S : \E i \in 1..Cardinality(S) : Ascending(S)[i] = x
<1> DEFINE R == {r \in S \X S : r[1] < r[2]}
           n == Cardinality(S)
<1>0. n \in Nat
  BY FS_CardinalityType
<1>1. PICK s : Lists(s, S, R)
  <2>1. Orders(R, S)
    BY DEF Orders
  <2> HIDE DEF R
  <2> QED
    BY <2>1, OrderedList
<1>2. s \in [1..n -> S] /\ \A i, j \in 1..n : i # j => s[i] # s[j]
  BY <1>1 DEF Lists
<1>3. \A i, j \in 1..n : i < j => s[i] < s[j]
  BY <1>1 DEF Lists
<1> DEFINE P(f) == \A i, j \in DOMAIN f : i < j => f[i] < f[j]
<1>4. s \in SetToSeqs(S) /\ P(s)
  BY <1>2, <1>3 DEF SetToSeqs
<1> DEFINE a == Ascending(S)
<1>5. a \in SetToSeqs(S) /\ P(a)
  BY <1>4 DEF Ascending
<1>6. a \in [1..n -> S] /\ \A i, j \in 1..n : i # j => a[i] # a[j]
  BY <1>5 DEF SetToSeqs
<1>7. a \in Surjection(1..n, S)
  <2>1. IsFiniteSet(1..n) /\ Cardinality(1..n) = n
    BY <1>0, FS_Interval
  <2>2. a \in Injection(1..n, S)
    BY <1>6 DEF Injection, IsInjective
  <2> QED
    BY <2>1, <2>2, FS_Injection
<1>8. \A i, j \in 1..n : i < j => a[i] < a[j]
  BY <1>5, <1>6
<1> QED
  BY <1>0, <1>6, <1>7, <1>8 DEF Surjection

\* The numbers below n, sorted.
LEMMA AscendingBelow ==
  ASSUME NEW n \in Nat, NEW i \in 1..n
  PROVE  Ascending(0..(n - 1))[i] = i - 1
<1> DEFINE S == 0..(n - 1)
           a == Ascending(S)
           Wrong == {k \in 1..n : a[k] # k - 1}
<1>1. S \in SUBSET Int /\ IsFiniteSet(S) /\ Cardinality(S) = n
  <2>1. IsFiniteSet(S) /\ Cardinality(S) = n
    BY FS_Interval
  <2> QED
    BY <2>1
<1>2. /\ a \in [1..n -> S]
      /\ \A k, m \in 1..n : k < m => a[k] < a[m]
      /\ \A x \in S : \E k \in 1..n : a[k] = x
  <2> HIDE DEF S
  <2> QED
    BY <1>1, AscendingSorts
<1> HIDE DEF a
<1> SUFFICES ASSUME Wrong # {} PROVE FALSE
  BY DEF a
<1>3. PICK k \in Wrong : \A m \in Wrong : k <= m
  <2>1. Wrong \in SUBSET Nat
    OBVIOUS
  <2> HIDE DEF Wrong
  <2> QED
    BY <2>1, LeastElement
<1>4. k \in 1..n /\ a[k] # k - 1 /\ \A m \in 1..n : m < k => a[m] = m - 1
  BY <1>3
<1>5. PICK m \in 1..n : a[m] = k - 1
  BY <1>2, <1>4
<1>6. k < m
  BY <1>4, <1>5
<1>7. a[k] \in S /\ a[k] < k - 1
  BY <1>2, <1>4, <1>5, <1>6
<1>8. a[k] + 1 \in 1..n /\ a[k] + 1 < k
  BY <1>4, <1>7
<1>9. a[a[k] + 1] = a[k]
  BY <1>4, <1>7, <1>8
<1> QED
  BY <1>2, <1>4, <1>7, <1>8, <1>9

-----------------------------------------------------------------------------
(* The records.                                                             *)

IsSequence(s) == \E S : s \in Seq(S)

\* Inductive.  A vector can only go astray if one is missing, and then there are
\* too few: as long as there are as many as texts were sent, each is in its place.
RInv ==
  /\ IsSequence(windows) /\ IsSequence(chunks) /\ IsSequence(vectors)
  /\ \A i \in 1..Len(chunks) : chunks[i].ordinal = i - 1
  /\ embedded \in 0..Len(chunks)
  /\ pc # "chunks" => embedded = 0
  /\ Len(vectors) <= embedded
  /\ Len(vectors) = embedded => \A i \in 1..embedded : vectors[i] = i
  /\ ingest = "stored" => pc = "chunks"
  /\ RecordsHaveTheirVectors

LEMMA SequenceFacts ==
  ASSUME NEW s, IsSequence(s)
  PROVE  Len(s) \in Nat /\ DOMAIN s = 1..Len(s) /\ (Len(s) = 0 <=> s = <<>>)
BY DEF IsSequence

LEMMA FunctionIsSequence ==
  ASSUME NEW n \in Nat, NEW s, s = [i \in 1..n |-> s[i]]
  PROVE  IsSequence(s) /\ Len(s) = n
<1> DEFINE T == {s[i] : i \in 1..n}
<1>1. \A i \in 1..n : s[i] \in T
  OBVIOUS
<1> HIDE DEF T
<1>2. s \in Seq(T) /\ Len(s) = n
  <2>1. s \in [1..n -> T]
    BY <1>1
  <2> QED
    BY <2>1
<1> QED
  BY <1>2 DEF IsSequence

Joins(u, s, t) ==
  /\ IsSequence(u) /\ Len(u) = Len(s) + Len(t)
  /\ \A i \in 1..Len(s) : u[i] = s[i]
  /\ \A i \in 1..Len(t) : u[Len(s) + i] = t[i]

LEMMA ConcatJoins ==
  ASSUME NEW s, IsSequence(s), NEW t, IsSequence(t)
  PROVE  Joins(s \o t, s, t)
<1>1. PICK S, T : s \in Seq(S) /\ t \in Seq(T)
  BY DEF IsSequence
<1> DEFINE U == S \cup T
<1>2. s \in Seq(U) /\ t \in Seq(U)
  <2>1. S \subseteq U /\ T \subseteq U
    OBVIOUS
  <2> HIDE DEF U
  <2> QED
    BY <1>1, <2>1, SeqMonotonic
<1> HIDE DEF U
<1>3. /\ s \o t \in Seq(U) /\ Len(s \o t) = Len(s) + Len(t)
      /\ \A i \in 1..Len(s) : (s \o t)[i] = s[i]
      /\ \A i \in 1..Len(t) : (s \o t)[Len(s) + i] = t[i]
  BY <1>2
<1> QED
  BY <1>3 DEF IsSequence, Joins

LEMMA AppendFacts ==
  ASSUME NEW s, IsSequence(s), NEW e
  PROVE  IsSequence(Append(s, e))
<1>1. PICK S : s \in Seq(S)
  BY DEF IsSequence
<1>2. s \in Seq(S \cup {e}) /\ e \in S \cup {e}
  <2> DEFINE T == S \cup {e}
  <2>1. S \subseteq T /\ e \in T
    OBVIOUS
  <2> HIDE DEF T
  <2>2. s \in Seq(T)
    BY <1>1, <2>1
  <2> QED
    BY <2>1, <2>2 DEF T
<1>3. Append(s, e) \in Seq(S \cup {e})
  BY <1>2, AppendProperties
<1> QED
  BY <1>3 DEF IsSequence

LEMMA ShortSequences == IsSequence(<<>>) /\ \A e : IsSequence(<<e>>)
<1>1. \A e : <<e>> \in Seq({e})
  OBVIOUS
<1> QED
  BY <1>1, EmptySeq DEF IsSequence

LEMMA RInvInit == RecordsInit => RInv
BY ShortSequences
   DEF RecordsInit, Init, SplitInit, RInv, RecordsHaveTheirVectors

\* While the chunks are made, nothing has been embedded.
LEMMA RInvPrepare ==
  ASSUME RInv, Prepare
  PROVE  RInv'
<1>1. UNCHANGED <<embedded, vectors, records, ingest>> /\ pc # "chunks" /\ Next
  BY DEF Prepare, embedVars, Next, Analyze, Explode, Group, CloseLast, ChunkGroup, Split,
         EndSplit, Return
<1>2. embedded = 0 /\ ingest # "stored"
  BY <1>1 DEF RInv
<1>3. IsSequence(windows)' /\ IsSequence(chunks)'
      /\ \A i \in 1..Len(chunks') : chunks'[i].ordinal = i - 1
  <2>1. CASE UNCHANGED <<windows, chunks>>
    BY <2>1 DEF RInv, IsSequence
  <2>2. CASE ChunkGroup
    <3>1. chunks' = chunks /\ (windows' = windows \/ windows' = <<>>)
      BY <2>2 DEF ChunkGroup, Call, splitVars
    <3> QED
      BY <3>1, ShortSequences DEF RInv, IsSequence
  <2>3. CASE Split
    <3>1. chunks' = chunks /\ (LeaveWhole \/ Cut)
      BY <2>3 DEF Split, chunkVars
    <3>2. \E e : windows' = Append(windows, e) \/ windows' = <<e>>
      <4>1. CASE LeaveWhole
        BY <4>1 DEF LeaveWhole
      <4>2. CASE Cut
        BY <4>2 DEF Cut
      <4> QED
        BY <3>1, <4>1, <4>2
    <3> QED
      <4>1. IsSequence(windows')
        BY <3>2, AppendFacts, ShortSequences DEF RInv
      <4> QED
        BY <3>1, <4>1 DEF RInv
  <2>4. CASE EndSplit
    <3> DEFINE n == Len(windows)
               box(w) == IF w = 1 THEN MergedBox(groups[chunked + 1]) ELSE NoBox
               t == [w \in 1..n |->
                      [ordinal |-> Ordinal(w), group |-> chunked + 1,
                       page |-> Page(groups[chunked + 1]), box |-> box(w)]]
    <3>1. n \in Nat /\ DOMAIN windows = 1..n
      BY SequenceFacts DEF RInv
    <3>2. chunks' = chunks \o t /\ windows' = windows
      BY <2>4, <3>1 DEF EndSplit, splitVars
    <3>3. \A w \in 1..n : t[w].ordinal = Len(chunks) + w - 1
      BY DEF Ordinal
    <3>4. IsSequence(t) /\ Len(t) = n
      <4>1. t = [w \in 1..n |-> t[w]]
        OBVIOUS
      <4> HIDE DEF t, n
      <4> QED
        BY <3>1, <4>1, FunctionIsSequence
    <3> HIDE DEF t, n
    <3>5. /\ IsSequence(chunks') /\ Len(chunks') = Len(chunks) + n
          /\ \A i \in 1..Len(chunks) : chunks'[i] = chunks[i]
          /\ \A i \in 1..n : chunks'[Len(chunks) + i] = t[i]
      <4>1. IsSequence(chunks)
        BY DEF RInv
      <4>2. Joins(chunks', chunks, t)
        BY <3>2, <3>4, <4>1, ConcatJoins
      <4> QED
        BY <3>4, <4>2 DEF Joins
    <3>6. Len(chunks) \in Nat
      BY SequenceFacts DEF RInv
    <3>7. ASSUME NEW i \in 1..Len(chunks') PROVE chunks'[i].ordinal = i - 1
      <4>1. CASE i <= Len(chunks)
        BY <3>5, <3>6, <4>1 DEF RInv
      <4>2. CASE i > Len(chunks)
        <5>1. i - Len(chunks) \in 1..n /\ Len(chunks) + (i - Len(chunks)) = i
          BY <3>1, <3>5, <3>6, <4>2
        <5>2. chunks'[i] = t[i - Len(chunks)]
          BY <3>5, <5>1
        <5>3. t[i - Len(chunks)].ordinal = Len(chunks) + (i - Len(chunks)) - 1
          BY <3>3, <5>1
        <5> QED
          BY <5>1, <5>2, <5>3
      <4> QED
        BY <3>1, <3>5, <3>6, <4>1, <4>2
    <3> QED
      BY <3>2, <3>5, <3>7 DEF RInv, IsSequence
  <2> QED
    BY <1>1, <2>1, <2>2, <2>3, <2>4
       DEF Next, Analyze, Explode, Group, CloseLast, Return, splitVars, chunkVars
<1> QED
  <2>1. Len(chunks') \in Nat
    BY <1>3, SequenceFacts
  <2> QED
    BY <1>1, <1>2, <1>3, <2>1 DEF RInv, IsSequence, RecordsHaveTheirVectors

\* The answer to a whole batch, in the order of the indexes, is the batch.
LEMMA WholeAnswer ==
  ASSUME NEW n \in Nat, NEW data \in [1..n -> 0..(n - 1)], IsInjective(data),
         NEW k \in 1..n
  PROVE  ByIndex(data)[k] = k - 1
<1>1. /\ IsFiniteSet(0..(n - 1)) /\ Cardinality(0..(n - 1)) = n
      /\ IsFiniteSet(1..n) /\ Cardinality(1..n) = n
  BY FS_Interval
<1>2. data \in Injection(1..n, 0..(n - 1))
  BY DEF Injection
<1>3. data \in Surjection(1..n, 0..(n - 1))
  BY <1>1, <1>2, FS_Injection
<1>4. Range(data) = 0..(n - 1)
  BY <1>3 DEF Surjection, Range
<1> QED
  BY <1>4, AscendingBelow DEF ByIndex

LEMMA RInvEmbed ==
  ASSUME RInv, EmbedBatch
  PROVE  RInv'
<1> DEFINE n == BatchSize
<1>1. PICK data \in Responses :
        vectors' = vectors \o [k \in DOMAIN data |-> embedded + ByIndex(data)[k] + 1]
  BY DEF EmbedBatch
<1>2. /\ embedded' = embedded + n /\ chunks' = chunks /\ windows' = windows
      /\ pc = "chunks" /\ pc' = pc /\ ingest = "running" /\ ingest' = ingest
      /\ embedded < Len(chunks)
  BY DEF EmbedBatch, Chunked, vars, splitVars, chunkVars
<1>3. Len(chunks) \in Nat /\ embedded \in Nat /\ Len(vectors) \in Nat
  BY SequenceFacts DEF RInv
<1>4. n \in Nat /\ embedded + n <= Len(chunks)
  BY <1>2, <1>3, BatchAssumption DEF BatchSize
<1> HIDE DEF n
<1>5. PICK m \in 0..n : data \in [1..m -> 0..(n - 1)]
  BY <1>4 DEF Responses, BoundedSeq, SeqOf, n
<1>6. IsInjective(data)
  BY DEF Responses
<1> DEFINE t == [k \in 1..m |-> embedded + ByIndex(data)[k] + 1]
<1>7. vectors' = vectors \o t /\ IsSequence(t) /\ Len(t) = m
  <2>1. vectors' = vectors \o t /\ t = [k \in 1..m |-> t[k]] /\ m \in Nat
    BY <1>1, <1>4, <1>5
  <2> HIDE DEF t
  <2> QED
    BY <2>1, FunctionIsSequence
<1>8. m = n => \A k \in 1..n : t[k] = embedded + k
  <2> SUFFICES ASSUME m = n, NEW k \in 1..n PROVE t[k] = embedded + k
    OBVIOUS
  <2>1. ByIndex(data)[k] = k - 1
    BY <1>4, <1>5, <1>6, WholeAnswer
  <2> QED
    BY <1>3, <1>4, <2>1
<1> HIDE DEF t
<1>9. /\ IsSequence(vectors') /\ Len(vectors') = Len(vectors) + m
      /\ \A i \in 1..Len(vectors) : vectors'[i] = vectors[i]
      /\ \A i \in 1..m : vectors'[Len(vectors) + i] = t[i]
  <2>1. IsSequence(vectors)
    BY DEF RInv
  <2>2. Joins(vectors', vectors, t)
    BY <1>7, <2>1, ConcatJoins
  <2> QED
    BY <1>7, <2>2 DEF Joins
<1>10. Len(vectors) <= embedded /\ Len(vectors') <= embedded'
  BY <1>2, <1>3, <1>4, <1>5, <1>9 DEF RInv
<1>11. ASSUME Len(vectors') = embedded', NEW i \in 1..embedded'
       PROVE  vectors'[i] = i
  <2>1. Len(vectors) = embedded /\ m = n
    BY <1>2, <1>3, <1>4, <1>5, <1>9, <1>10, <1>11
  <2>2. CASE i <= embedded
    BY <1>3, <1>9, <2>1, <2>2 DEF RInv
  <2>3. CASE i > embedded
    <3>1. i - embedded \in 1..n /\ embedded + (i - embedded) = i
      BY <1>2, <1>3, <1>4, <2>3
    <3>2. vectors'[i] = t[i - embedded]
      BY <1>9, <2>1, <3>1
    <3> QED
      BY <1>8, <2>1, <3>1, <3>2
  <2> QED
    BY <1>2, <1>3, <1>4, <2>2, <2>3
<1> QED
  BY <1>2, <1>3, <1>4, <1>9, <1>10, <1>11 DEF RInv, IsSequence, RecordsHaveTheirVectors

LEMMA RInvAttach ==
  ASSUME RInv, Attach
  PROVE  RInv'
<1>1. /\ UNCHANGED <<embedded, vectors, chunks, windows, pc>> /\ pc = "chunks"
      /\ chunks # <<>> /\ embedded = Len(chunks)
  BY DEF Attach, Chunked, vars, splitVars, chunkVars, embedVars
<1>2. CASE Len(vectors) # Len(chunks)
  BY <1>1, <1>2 DEF Attach, RInv, IsSequence, RecordsHaveTheirVectors
<1>3. CASE Len(vectors) = Len(chunks)
  <2>1. Len(chunks) \in Nat /\ DOMAIN chunks = 1..Len(chunks) /\ Len(chunks) # 0
    BY <1>1, SequenceFacts DEF RInv
  <2> DEFINE n == Len(chunks)
             r == [i \in 1..n |-> [ordinal |-> chunks[i].ordinal, vector |-> vectors[i]]]
  <2>2. records' = r
    BY <1>3, <2>1 DEF Attach
  <2>3. \A i \in 1..n : r[i] = [ordinal |-> i - 1, vector |-> i]
    BY <1>1, <1>3 DEF RInv
  <2>4. DOMAIN r = 1..n /\ IsSequence(r) /\ Len(r) = n
    <3>1. DOMAIN r = 1..n /\ r = [i \in 1..n |-> r[i]]
      OBVIOUS
    <3> HIDE DEF r
    <3> QED
      BY <2>1, <3>1, FunctionIsSequence
  <2> HIDE DEF r
  <2>5. r # <<>>
    BY <2>1, <2>4, SequenceFacts
  <2>6. RecordsHaveTheirVectors'
    BY <1>1, <2>2, <2>3, <2>4, <2>5 DEF RecordsHaveTheirVectors
  <2> QED
    BY <1>1, <2>6 DEF RInv, IsSequence
<1> QED
  BY <1>2, <1>3

LEMMA RInvNext == RInv /\ [RecordsNext]_recordVars => RInv'
<1> SUFFICES ASSUME RInv, [RecordsNext]_recordVars PROVE RInv'
  OBVIOUS
<1>1. CASE Refuse \/ EmbedRaises
  BY <1>1 DEF Refuse, EmbedRaises, Chunked, RInv, IsSequence, RecordsHaveTheirVectors,
              vars, splitVars, chunkVars, embedVars
<1>2. CASE UNCHANGED recordVars
  BY <1>2 DEF RInv, IsSequence, RecordsHaveTheirVectors,
              recordVars, vars, splitVars, chunkVars, embedVars
<1> QED
  BY <1>1, <1>2, RInvPrepare, RInvEmbed, RInvAttach DEF RecordsNext

\* Whatever order the vectors of a batch arrive in, and however many are missing,
\* clauses that are stored have their ordinals and the vectors of their own text.
THEOREM RecordsAreWhole == RecordsSpec => []RecordsHaveTheirVectors
<1>1. RInv => RecordsHaveTheirVectors
  BY DEF RInv
<1> QED
  BY <1>1, RInvInit, RInvNext, PTL DEF RecordsSpec

-----------------------------------------------------------------------------
(* The blocks: what was found, in the order of the pages.                   *)

LaidOut ==
  [role : Role, table : BOOLEAN, lines : Seq(Kinds) \ {<<>>},
   page : Nat, boxed : BOOLEAN, y : Nat, of : Nat]

Elements == [block : Blocks, page : 1..Pages, placed : Placements]

LEMMA DocumentIs ==
  ASSUME document \in Documents
  PROVE  /\ IsSequence(document)
         /\ \A i \in 1..Len(document) : document[i] \in Elements
         /\ \A i, j \in 1..Len(document) : i <= j => document[i].page <= document[j].page
<1>1. PICK m \in 0..MaxBlocks : document \in [1..m -> Elements]
  BY DEF Documents, BoundedSeq, SeqOf, Elements
<1>2. m \in Nat /\ Len(document) = m /\ IsSequence(document)
  <2>1. m \in Nat
    BY <1>1, DocumentAssumption
  <2>2. document = [i \in 1..m |-> document[i]]
    BY <1>1
  <2> QED
    BY <2>1, <2>2, FunctionIsSequence
<1>3. \A i \in 1..m : document[i] \in Elements
  BY <1>1
<1>4. \A i \in 1..m : document[i].page \in Int
  BY <1>3, DocumentAssumption DEF Elements
<1>5. \A i \in 1..(m - 1) : document[i].page <= document[i + 1].page
  BY <1>2 DEF Documents
<1> DEFINE S == {d \in Nat : \A i \in 1..m : i + d <= m => document[i].page <= document[i + d].page}
<1>6. 0 \in S
  BY <1>2, <1>4
<1>7. ASSUME NEW d \in Nat, d \in S PROVE d + 1 \in S
  <2> SUFFICES ASSUME NEW i \in 1..m, i + (d + 1) <= m
               PROVE  document[i].page <= document[i + (d + 1)].page
    OBVIOUS
  <2>1. i + d \in 1..(m - 1) /\ i + d \in 1..m /\ i + d + 1 \in 1..m /\ i + d <= m
    BY <1>2
  <2>2. document[i].page <= document[i + d].page
    BY <1>7, <2>1
  <2>3. document[i + d].page <= document[i + d + 1].page
    BY <1>5, <2>1
  <2>4. i + d + 1 = i + (d + 1)
    OBVIOUS
  <2> QED
    BY <1>4, <2>1, <2>2, <2>3, <2>4
<1> HIDE DEF S
<1>8. Nat \subseteq S
  BY <1>6, <1>7, Induction
<1>9. ASSUME NEW i \in 1..m, NEW j \in 1..m, i <= j
      PROVE  document[i].page <= document[j].page
  <2>1. j - i \in S /\ i + (j - i) = j
    BY <1>2, <1>8, <1>9
  <2> QED
    BY <1>2, <2>1 DEF S
<1> QED
  BY <1>2, <1>3, <1>9

LEMMA BlockIs ==
  ASSUME document \in Documents, NEW i \in 1..Len(document)
  PROVE  Block(i) \in LaidOut /\ Block(i).of = i
<1>1. document[i] \in Elements /\ document[i].block \in Blocks
  BY DocumentIs DEF Elements
<1>2. document[i].block \in [role : Role, table : BOOLEAN, lines : Seq(Kinds) \ {<<>>}]
  BY <1>1, BlocksAssumption
<1>3. document[i].page \in Nat /\ i \in Nat
  <2>1. document[i].page \in 1..Pages
    BY <1>1 DEF Elements
  <2> QED
    BY <2>1, DocumentAssumption, DocumentIs, SequenceFacts
<1> QED
  BY <1>2, <1>3 DEF Block, LaidOut

\* What is found is laid out, each element at most once.
Found(found) ==
  /\ IsSequence(found)
  /\ \A k \in 1..Len(found) : found[k].of \in 1..Len(document) /\ found[k] = Block(found[k].of)
  /\ \A j, k \in 1..Len(found) : j # k => found[j].of # found[k].of

LEMMA OnlyIs ==
  ASSUME NEW s, NEW P \in SUBSET Int, IsFiniteSet(P)
  PROVE  /\ IsSequence(Only(s, P)) /\ Len(Only(s, P)) = Cardinality(P)
         /\ Cardinality(P) \in Nat
         /\ \A k \in 1..Cardinality(P) :
              Ascending(P)[k] \in P /\ Only(s, P)[k] = s[Ascending(P)[k]]
<1> DEFINE n == Cardinality(P)
           a == Ascending(P)
           o == [k \in 1..n |-> s[a[k]]]
<1>1. n \in Nat /\ a \in [1..n -> P]
  BY AscendingSorts
<1>2. Only(s, P) = o
  BY <1>1 DEF Only
<1>3. IsSequence(o) /\ Len(o) = n
  <2>1. o = [k \in 1..n |-> o[k]]
    OBVIOUS
  <2> HIDE DEF o
  <2> QED
    BY <1>1, <2>1, FunctionIsSequence
<1> QED
  BY <1>1, <1>2, <1>3

LEMMA CollectedIsFound ==
  ASSUME document \in Documents
  PROVE  Found(Collected)
<1> DEFINE n == Len(document)
           e == [i \in DOMAIN document |-> Block(i)]
           T == {i \in DOMAIN document : e[i].table}
           U == DOMAIN document \ T
           s == Only(e, U)
           t == Only(e, T)
<1>1. n \in Nat /\ DOMAIN document = 1..n
  BY DocumentIs, SequenceFacts
<1>2. /\ T \in SUBSET Int /\ IsFiniteSet(T) /\ T \subseteq 1..n
      /\ U \in SUBSET Int /\ IsFiniteSet(U) /\ U \subseteq 1..n
  <2>1. IsFiniteSet(1..n)
    BY <1>1, FS_Interval
  <2>2. T \subseteq 1..n /\ U \subseteq 1..n
    BY <1>1
  <2> HIDE DEF T, U
  <2>3. IsFiniteSet(T) /\ IsFiniteSet(U)
    BY <2>1, <2>2, FS_Subset
  <2> QED
    BY <1>1, <2>2, <2>3
<1>3. \A i \in 1..n : e[i] = Block(i) /\ e[i].of = i
  BY <1>1, BlockIs
<1>4. Collected = s \o t /\ U \cap T = {}
  BY DEF Collected
<1> HIDE DEF e, T, U
<1> DEFINE p == Cardinality(U)
           q == Cardinality(T)
<1>5. /\ IsSequence(s) /\ Len(s) = p /\ p \in Nat
      /\ \A k \in 1..p : Ascending(U)[k] \in U /\ s[k] = e[Ascending(U)[k]]
      /\ \A j, k \in 1..p : j < k => Ascending(U)[j] < Ascending(U)[k]
  BY <1>2, OnlyIs, AscendingSorts
<1>6. /\ IsSequence(t) /\ Len(t) = q /\ q \in Nat
      /\ \A k \in 1..q : Ascending(T)[k] \in T /\ t[k] = e[Ascending(T)[k]]
      /\ \A j, k \in 1..q : j < k => Ascending(T)[j] < Ascending(T)[k]
  BY <1>2, OnlyIs, AscendingSorts
<1>7. Joins(Collected, s, t)
  BY <1>4, <1>5, <1>6, ConcatJoins
<1> HIDE DEF s, t, p, q
<1> DEFINE from(k) == IF k <= p THEN Ascending(U)[k] ELSE Ascending(T)[k - p]
<1>8. /\ IsSequence(Collected) /\ Len(Collected) = p + q
      /\ \A k \in 1..(p + q) : k > p => k - p \in 1..q /\ p + (k - p) = k
  BY <1>5, <1>6, <1>7 DEF Joins
<1>9. ASSUME NEW k \in 1..(p + q)
      PROVE  from(k) \in 1..n /\ Collected[k] = Block(from(k)) /\ Collected[k].of = from(k)
  <2>1. CASE k <= p
    <3>1. k \in 1..p /\ Collected[k] = s[k]
      BY <1>5, <1>7, <2>1 DEF Joins
    <3> QED
      BY <1>2, <1>3, <1>5, <2>1, <3>1
  <2>2. CASE k > p
    <3>1. k - p \in 1..q /\ Collected[k] = t[k - p]
      BY <1>5, <1>6, <1>7, <1>8, <2>2 DEF Joins
    <3>2. from(k) = Ascending(T)[k - p]
      BY <1>5, <1>6, <2>2
    <3>3. from(k) \in 1..n /\ t[k - p] = e[from(k)]
      BY <1>2, <1>6, <3>1, <3>2
    <3> QED
      BY <1>3, <3>1, <3>3
  <2> QED
    BY <1>5, <1>6, <2>1, <2>2
<1>10. ASSUME NEW j \in 1..(p + q), NEW k \in 1..(p + q), j < k
       PROVE  from(j) # from(k)
  <2>1. CASE k <= p
    <3>1. j \in 1..p /\ k \in 1..p /\ j <= p
      BY <1>5, <1>10, <2>1
    <3>2. Ascending(U)[j] \in Int /\ Ascending(U)[k] \in Int /\ Ascending(U)[j] < Ascending(U)[k]
      BY <1>2, <1>5, <1>10, <3>1
    <3> QED
      BY <2>1, <3>1, <3>2
  <2>2. CASE j > p
    <3>1. j - p \in 1..q /\ k - p \in 1..q /\ j - p < k - p /\ ~(j <= p) /\ ~(k <= p)
      BY <1>5, <1>6, <1>8, <1>10, <2>2
    <3>2. /\ Ascending(T)[j - p] \in Int /\ Ascending(T)[k - p] \in Int
          /\ Ascending(T)[j - p] < Ascending(T)[k - p]
      BY <1>2, <1>6, <3>1
    <3> QED
      BY <3>1, <3>2
  <2>3. CASE j <= p /\ k > p
    <3>1. j \in 1..p /\ k - p \in 1..q /\ ~(k <= p)
      BY <1>5, <1>6, <1>8, <2>3
    <3>2. from(j) \in U /\ from(k) \in T
      BY <1>5, <1>6, <2>3, <3>1
    <3> QED
      BY <1>4, <3>2
  <2> QED
    BY <1>5, <1>6, <2>1, <2>2, <2>3
<1> HIDE DEF from
<1>11. ASSUME NEW j \in 1..(p + q), NEW k \in 1..(p + q), j # k
       PROVE  from(j) # from(k)
  <2>1. j < k \/ k < j
    BY <1>5, <1>6, <1>11
  <2> QED
    BY <1>10, <2>1
<1> QED
  BY <1>8, <1>9, <1>11 DEF Found

\* The page comes first, then the height; and of equals, the place.
LEMMA SortedIsFound ==
  ASSUME document \in Documents, NEW found, Found(found)
  PROVE  /\ Found(Sorted(found))
         /\ \A j, k \in 1..Len(Sorted(found)) :
              j < k => ~Precedes(Sorted(found)[k], Sorted(found)[j])
<1> DEFINE n == Len(found)
           S == DOMAIN found
           R == {r \in S \X S : Before(found, r[1], r[2])}
<1>1. n \in Nat /\ S = 1..n /\ IsFiniteSet(S) /\ Cardinality(S) = n
  <2>1. n \in Nat /\ S = 1..n
    BY SequenceFacts DEF Found
  <2>2. IsFiniteSet(1..n) /\ Cardinality(1..n) = n
    <3> HIDE DEF n
    <3> QED
      BY <2>1, FS_Interval
  <2> QED
    BY <2>1, <2>2
<1>2. \A k \in S : found[k].page \in Nat /\ found[k].y \in Nat
  BY <1>1, BlockIs DEF Found, LaidOut
<1>3. Orders(R, S)
  <2>1. S \subseteq Nat
    BY <1>1
  <2> HIDE DEF S
  <2>2. ASSUME NEW i \in S PROVE ~Before(found, i, i)
    BY <1>2, <2>1, <2>2 DEF Before, Precedes
  <2>3. ASSUME NEW i \in S, NEW j \in S
        PROVE  i = j \/ Before(found, i, j) \/ Before(found, j, i)
    BY <1>2, <2>1 DEF Before, Precedes
  <2>4. ASSUME NEW i \in S, NEW j \in S, NEW k \in S, Before(found, i, j), Before(found, j, k)
        PROVE  Before(found, i, k)
    <3>1. /\ found[i].page \in Nat /\ found[i].y \in Nat /\ i \in Nat
          /\ found[j].page \in Nat /\ found[j].y \in Nat /\ j \in Nat
          /\ found[k].page \in Nat /\ found[k].y \in Nat /\ k \in Nat
      BY <1>2, <2>1
    <3> QED
      BY <2>4, <3>1 DEF Before, Precedes
  <2> QED
    BY <2>2, <2>3, <2>4 DEF Orders
<1>4. PICK s : Lists(s, S, R)
  <2> HIDE DEF R, S
  <2> QED
    BY <1>1, <1>3, OrderedList
<1> DEFINE P(f) == \A i, j \in DOMAIN f : i < j => Before(found, f[i], f[j])
           o == CHOOSE f \in SetToSeqs(S) : P(f)
<1>5. s \in SetToSeqs(S) /\ P(s)
  <2>1. s \in [1..n -> S] /\ \A i, j \in 1..n : i # j => s[i] # s[j]
    BY <1>1, <1>4 DEF Lists
  <2>2. \A i, j \in 1..n : i < j => Before(found, s[i], s[j])
    BY <1>1, <1>4 DEF Lists
  <2> QED
    BY <1>1, <2>1, <2>2 DEF SetToSeqs
<1>6. o \in SetToSeqs(S) /\ P(o)
  BY <1>5
<1>7. Sorted(found) = [k \in S |-> found[o[k]]]
  BY DEF Sorted
<1> HIDE DEF o
<1>8. /\ o \in [1..n -> S] /\ \A i, j \in 1..n : i # j => o[i] # o[j]
      /\ \A i, j \in 1..n : i < j => Before(found, o[i], o[j])
  BY <1>1, <1>6 DEF SetToSeqs
<1> DEFINE r == Sorted(found)
<1>9. \A k \in 1..n : r[k] = found[o[k]] /\ o[k] \in 1..n
  BY <1>1, <1>7, <1>8
<1>10. IsSequence(r) /\ Len(r) = n
  <2>1. r = [k \in 1..n |-> r[k]]
    BY <1>1, <1>7
  <2> HIDE DEF r
  <2> QED
    BY <1>1, <2>1, FunctionIsSequence
<1> HIDE DEF r
<1>11. Found(r)
  <2>1. ASSUME NEW k \in 1..n
        PROVE  r[k].of \in 1..Len(document) /\ r[k] = Block(r[k].of)
    BY <1>9 DEF Found
  <2>2. ASSUME NEW j \in 1..n, NEW k \in 1..n, j # k PROVE r[j].of # r[k].of
    <3>1. o[j] # o[k] /\ o[j] \in 1..n /\ o[k] \in 1..n
      BY <1>8, <1>9, <2>2
    <3>2. r[j] = found[o[j]] /\ r[k] = found[o[k]]
      BY <1>9
    <3>3. found[o[j]].of # found[o[k]].of
      BY <3>1 DEF Found
    <3> QED
      BY <3>2, <3>3
  <2> QED
    BY <1>10, <2>1, <2>2 DEF Found
<1>12. ASSUME NEW j \in 1..n, NEW k \in 1..n, j < k PROVE ~Precedes(r[k], r[j])
  <2>1. Before(found, o[j], o[k]) /\ r[j] = found[o[j]] /\ r[k] = found[o[k]]
        /\ o[j] \in S /\ o[k] \in S
    BY <1>1, <1>8, <1>9, <1>12
  <2>2. /\ r[j].page \in Nat /\ r[j].y \in Nat /\ r[k].page \in Nat /\ r[k].y \in Nat
    BY <1>2, <2>1
  <2> QED
    BY <2>1, <2>2 DEF Before, Precedes
<1> QED
  BY <1>10, <1>11, <1>12 DEF r

BlocksInv ==
  /\ document \in Documents
  /\ Found(blocks)
  /\ \A b, c \in 1..Len(blocks) : b < c => ~Precedes(blocks[c], blocks[b])

LEMMA BlockFacts ==
  ASSUME BlocksInv
  PROVE  /\ Len(blocks) \in Nat /\ DOMAIN blocks = 1..Len(blocks)
         /\ \A b \in 1..Len(blocks) :
              /\ blocks[b] \in LaidOut
              /\ Len(blocks[b].lines) \in Nat \ {0}
              /\ DOMAIN blocks[b].lines = 1..Len(blocks[b].lines)
              /\ \A i \in 1..Len(blocks[b].lines) : blocks[b].lines[i] \in Kinds
<1>1. Len(blocks) \in Nat /\ DOMAIN blocks = 1..Len(blocks)
  BY SequenceFacts DEF BlocksInv, Found
<1>2. ASSUME NEW b \in 1..Len(blocks)
      PROVE  /\ blocks[b] \in LaidOut
             /\ Len(blocks[b].lines) \in Nat \ {0}
             /\ DOMAIN blocks[b].lines = 1..Len(blocks[b].lines)
             /\ \A i \in 1..Len(blocks[b].lines) : blocks[b].lines[i] \in Kinds
  <2>1. blocks[b] \in LaidOut
    BY BlockIs DEF BlocksInv, Found
  <2>2. blocks[b].lines \in Seq(Kinds) /\ blocks[b].lines # <<>>
    BY <2>1 DEF LaidOut
  <2> DEFINE l == blocks[b].lines
  <2>3. Len(l) \in Nat /\ DOMAIN l = 1..Len(l) /\ Len(l) # 0 /\ \A i \in 1..Len(l) : l[i] \in Kinds
    <3>1. l \in Seq(Kinds) /\ l # <<>>
      BY <2>2
    <3> HIDE DEF l
    <3> QED
      BY <3>1
  <2> QED
    BY <2>1, <2>3
<1> QED
  BY <1>1, <1>2

-----------------------------------------------------------------------------
(* The parts.                                                               *)

Starts(b, i) == line_starts_clause(blocks[b].lines[i])

\* A part is a stretch of a block of the text.  It begins with the block, or
\* with a line that opens a clause, and has no other such line unless it is a
\* table, which stays whole.
IsPart(part) ==
  /\ part.block \in 1..Len(blocks) /\ blocks[part.block].role # "noise"
  /\ part.from \in 1..Len(blocks[part.block].lines)
  /\ part.to \in part.from..Len(blocks[part.block].lines)
  /\ (part.first /\ part.from = 1) \/ Starts(part.block, part.from)
  /\ blocks[part.block].table =>
       part.from = 1 /\ part.to = Len(blocks[part.block].lines)
  /\ ~blocks[part.block].table =>
       \A i \in (part.from + 1)..part.to : ~Starts(part.block, i)

Earlier(p, q) == p.block < q.block \/ (p.block = q.block /\ p.to < q.from)

ArePartsInOrder(P) ==
  /\ IsSequence(P)
  /\ \A k \in 1..Len(P) : IsPart(P[k])
  /\ \A j, k \in 1..Len(P) : j < k => Earlier(P[j], P[k])

AllShown(P, b) ==
  \A i \in 1..Len(blocks[b].lines) : blocks[b].lines[i] # "blank" =>
    \E k \in 1..Len(P) : P[k].block = b /\ i \in P[k].from..P[k].to

LEMMA WholePart ==
  ASSUME BlocksInv, NEW b \in 1..Len(blocks), blocks[b].role # "noise",
         NEW whole, whole = [block |-> b, from |-> 1, to |-> Len(blocks[b].lines), first |-> TRUE],
         \/ blocks[b].table
         \/ \A i \in 2..Len(blocks[b].lines) : ~Starts(b, i)
  PROVE  /\ ArePartsInOrder(<<whole>>) /\ AllShown(<<whole>>, b)
         /\ \A k \in 1..Len(<<whole>>) : <<whole>>[k].block = b
<1> DEFINE P == <<whole>>
<1>1. IsSequence(P) /\ Len(P) = 1 /\ P[1] = whole
  BY ShortSequences
<1> HIDE DEF P
<1>2. Len(blocks[b].lines) \in Nat \ {0}
  BY BlockFacts
<1>3. IsPart(whole) /\ whole.block = b
  BY <1>2 DEF IsPart
<1>4. ArePartsInOrder(P)
  <2>1. ASSUME NEW k \in 1..Len(P) PROVE IsPart(P[k])
    <3>1. k = 1
      BY <1>1
    <3> QED
      BY <1>1, <1>3, <3>1
  <2>2. \A j, k \in 1..Len(P) : j < k => Earlier(P[j], P[k])
    BY <1>1
  <2> QED
    BY <1>1, <2>1, <2>2 DEF ArePartsInOrder
<1>5. AllShown(P, b)
  BY <1>1, <1>2 DEF AllShown
<1> QED
  BY <1>1, <1>3, <1>4, <1>5 DEF P

CutAt(b) == {i \in DOMAIN blocks[b].lines : i = 1 \/ line_starts_clause(blocks[b].lines[i])}

\* The lines that open a segment, in order, from the first line to the end.
CutsThrough(cuts, n, b) ==
  /\ n \in Nat \ {0} /\ Len(cuts) = n + 1
  /\ \A k \in 1..n : cuts[k] \in CutAt(b)
  /\ cuts[1] = 1 /\ cuts[n + 1] = Len(blocks[b].lines) + 1
  /\ \A k \in 1..(n + 1) : cuts[k] \in Nat
  /\ \A j, k \in 1..(n + 1) : j < k => cuts[j] < cuts[k]
  /\ \A i \in CutAt(b) : \E k \in 1..n : cuts[k] = i

Segments(cuts, n, b) ==
  [k \in 1..n |-> [block |-> b, from |-> cuts[k], to |-> cuts[k + 1] - 1, first |-> k = 1]]

LEMMA CutsAre ==
  ASSUME BlocksInv, NEW b \in 1..Len(blocks)
  PROVE  CutsThrough(Cuts(blocks[b].lines) \o <<Len(blocks[b].lines) + 1>>,
                     Cardinality(CutAt(b)), b)
<1> DEFINE C == CutAt(b)
           n == Cardinality(C)
           l == Len(blocks[b].lines)
           a == Ascending(C)
           cuts == a \o <<l + 1>>
<1>1. l \in Nat \ {0} /\ C \subseteq 1..l /\ 1 \in C
  BY BlockFacts DEF CutAt
<1>2. Cuts(blocks[b].lines) = a
  BY DEF Cuts, CutAt
<1> HIDE DEF C, l
<1>3. C \in SUBSET Int /\ IsFiniteSet(C)
  <2>1. IsFiniteSet(1..l) /\ C \in SUBSET (1..l)
    BY <1>1, FS_Interval
  <2>2. IsFiniteSet(C)
    BY <2>1, FS_Subset
  <2> QED
    BY <1>1, <2>2
<1>4. /\ n \in Nat /\ a \in [1..n -> C]
      /\ \A i, j \in 1..n : i < j => a[i] < a[j]
      /\ \A x \in C : \E i \in 1..n : a[i] = x
  BY <1>3, AscendingSorts
<1>5. IsSequence(a) /\ Len(a) = n
  <2>1. a = [i \in 1..n |-> a[i]]
    BY <1>4
  <2> QED
    BY <1>4, <2>1, FunctionIsSequence
<1> HIDE DEF a, n
<1>6. Joins(cuts, a, <<l + 1>>)
  BY <1>5, ShortSequences, ConcatJoins
<1> HIDE DEF cuts
<1>7. /\ Len(cuts) = n + 1 /\ cuts[n + 1] = l + 1
      /\ \A k \in 1..n : cuts[k] = a[k] /\ cuts[k] \in C
  BY <1>4, <1>5, <1>6 DEF Joins
<1>8. n # 0
  BY <1>1, <1>4
<1>9. ASSUME NEW j \in 1..(n + 1), NEW k \in 1..(n + 1), j < k PROVE cuts[j] < cuts[k]
  <2>1. j \in 1..n
    BY <1>4, <1>9
  <2>2. CASE k \in 1..n
    BY <1>4, <1>7, <1>9, <2>1, <2>2
  <2>3. CASE k = n + 1
    <3>1. cuts[j] \in 1..l /\ cuts[k] = l + 1
      BY <1>1, <1>7, <2>1, <2>3
    <3> QED
      BY <1>1, <3>1
  <2> QED
    BY <1>4, <2>2, <2>3
<1>10. cuts[1] = 1
  <2>1. PICK k \in 1..n : a[k] = 1
    BY <1>1, <1>4
  <2>2. ~(1 < k)
    <3>1. 1 \in 1..n
      BY <1>4, <1>8
    <3>2. a[1] \in C
      BY <1>4, <3>1
    <3>3. a[1] \in 1..l
      BY <1>1, <3>2
    <3> QED
      BY <1>1, <1>4, <2>1, <3>1, <3>3
  <2> QED
    BY <1>4, <1>7, <1>8, <2>1, <2>2
<1>11. \A i \in C : \E k \in 1..n : cuts[k] = i
  BY <1>4, <1>7
<1>12. \A k \in 1..(n + 1) : cuts[k] \in Nat
  <2> SUFFICES ASSUME NEW k \in 1..(n + 1) PROVE cuts[k] \in Nat
    OBVIOUS
  <2>1. CASE k = n + 1
    BY <1>1, <1>7, <2>1
  <2>2. CASE k # n + 1
    <3>1. k \in 1..n
      BY <1>4, <2>2
    <3>2. cuts[k] \in 1..l
      BY <1>1, <1>7, <3>1
    <3> QED
      BY <3>2
  <2> QED
    BY <2>1, <2>2
<1>13. CutsThrough(cuts, n, b)
  BY <1>4, <1>7, <1>8, <1>9, <1>10, <1>11, <1>12 DEF C, l, CutsThrough
<1> QED
  BY <1>2, <1>13 DEF cuts, C, l, n

LEMMA SegmentsArePartsInOrder ==
  ASSUME BlocksInv, NEW b \in 1..Len(blocks), blocks[b].role # "noise", ~blocks[b].table,
         NEW n, NEW cuts, CutsThrough(cuts, n, b)
  PROVE  LET segments == Segments(cuts, n, b) IN
         /\ \A k \in 1..n : segments[k].block = b /\ IsPart(segments[k])
         /\ \A j, k \in 1..n : j < k => Earlier(segments[j], segments[k])
         /\ \A i \in 1..Len(blocks[b].lines) :
              \E k \in 1..n : i \in segments[k].from..segments[k].to
<1> DEFINE l == Len(blocks[b].lines)
           segments == Segments(cuts, n, b)
<1>0. l \in Nat \ {0} /\ DOMAIN blocks[b].lines = 1..l
  BY BlockFacts
<1>1. /\ n \in Nat \ {0}
      /\ \A k \in 1..n : cuts[k] \in CutAt(b) /\ cuts[k] \in 1..l
      /\ cuts[1] = 1 /\ cuts[n + 1] = l + 1
      /\ \A k \in 1..(n + 1) : cuts[k] \in Nat
      /\ \A j, k \in 1..(n + 1) : j < k => cuts[j] < cuts[k]
      /\ \A i \in CutAt(b) : \E k \in 1..n : cuts[k] = i
  BY <1>0 DEF CutsThrough, CutAt
<1>3. \A k \in 1..n : /\ k \in 1..(n + 1) /\ k + 1 \in 1..(n + 1) /\ k < k + 1
                      /\ cuts[k] \in Nat /\ cuts[k + 1] \in Nat /\ cuts[k] < cuts[k + 1]
  <2> SUFFICES ASSUME NEW k \in 1..n
               PROVE  /\ k \in 1..(n + 1) /\ k + 1 \in 1..(n + 1) /\ k < k + 1
                      /\ cuts[k] \in Nat /\ cuts[k + 1] \in Nat /\ cuts[k] < cuts[k + 1]
    OBVIOUS
  <2>1. k \in 1..(n + 1) /\ k + 1 \in 1..(n + 1) /\ k < k + 1
    BY <1>1
  <2> QED
    BY <1>1, <2>1
<1>4. \A k \in 1..n : /\ segments[k].block = b /\ segments[k].from = cuts[k]
                      /\ segments[k].to = cuts[k + 1] - 1 /\ segments[k].first = (k = 1)
  BY DEF Segments
<1> HIDE DEF l, segments
<1>5. ASSUME NEW k \in 1..n PROVE IsPart(segments[k])
  <2>1. cuts[k] \in 1..l /\ cuts[k + 1] - 1 \in cuts[k]..l
    <3>1. cuts[k] \in 1..l /\ cuts[k + 1] \in Nat /\ cuts[k] < cuts[k + 1]
      BY <1>1, <1>3
    <3>2. cuts[k + 1] <= l + 1
      <4>1. k + 1 \in 1..(n + 1) /\ n + 1 \in 1..(n + 1) /\ (k + 1 < n + 1 \/ k + 1 = n + 1)
        BY <1>1
      <4>2. cuts[k + 1] < cuts[n + 1] \/ cuts[k + 1] = cuts[n + 1]
        BY <1>1, <4>1
      <4> QED
        BY <1>0, <1>1, <3>1, <4>2
    <3> QED
      BY <1>0, <3>1, <3>2
  <2>2. (k = 1 /\ cuts[k] = 1) \/ Starts(b, cuts[k])
    <3> SUFFICES ASSUME k # 1 PROVE Starts(b, cuts[k])
      BY <1>1
    <3>1. 1 \in 1..(n + 1) /\ 1 < k
      BY <1>1
    <3>2. cuts[k] # 1
      BY <1>1, <1>3, <3>1
    <3> QED
      BY <1>1, <3>2 DEF CutAt, Starts
  <2>3. ASSUME NEW i \in (cuts[k] + 1)..(cuts[k + 1] - 1), Starts(b, i)
        PROVE  FALSE
    <3>1. i \in 1..l /\ cuts[k] < i /\ i < cuts[k + 1]
      BY <1>0, <1>3, <2>1
    <3>2. i \in CutAt(b)
      BY <1>0, <2>3, <3>1 DEF CutAt, Starts
    <3>3. PICK m \in 1..n : cuts[m] = i
      BY <1>1, <3>2
    <3>4. m \in 1..(n + 1) /\ k \in 1..(n + 1) /\ k + 1 \in 1..(n + 1) /\ cuts[k] \in Nat
          /\ cuts[k + 1] \in Nat /\ cuts[m] \in Nat
      BY <1>3
    <3>5. ~(m < k) /\ m # k
      <4>1. m < k => cuts[m] < cuts[k]
        BY <1>1, <3>4
      <4>2. cuts[k] < cuts[m]
        BY <3>1, <3>3
      <4> QED
        BY <3>4, <4>1, <4>2
    <3>6. ~(k + 1 < m) /\ m # k + 1
      <4>1. k + 1 < m => cuts[k + 1] < cuts[m]
        BY <1>1, <3>4
      <4>2. cuts[m] < cuts[k + 1]
        BY <3>1, <3>3
      <4> QED
        BY <3>4, <4>1, <4>2
    <3> QED
      BY <1>1, <3>5, <3>6
  <2> QED
    BY <1>4, <2>1, <2>2, <2>3 DEF IsPart, l
<1>6. ASSUME NEW j \in 1..n, NEW k \in 1..n, j < k PROVE Earlier(segments[j], segments[k])
  <2>1. j + 1 \in 1..(n + 1) /\ k \in 1..(n + 1) /\ (j + 1 < k \/ j + 1 = k)
    BY <1>1, <1>6
  <2>2. cuts[j + 1] <= cuts[k] /\ cuts[j + 1] \in Nat /\ cuts[k] \in Nat
    <3>1. cuts[j + 1] < cuts[k] \/ cuts[j + 1] = cuts[k]
      BY <1>1, <2>1
    <3>2. cuts[j + 1] \in Nat /\ cuts[k] \in Nat
      BY <1>1, <2>1
    <3> QED
      BY <3>1, <3>2
  <2> QED
    BY <1>4, <2>2 DEF Earlier
<1>7. ASSUME NEW i \in 1..l PROVE \E k \in 1..n : i \in segments[k].from..segments[k].to
  <2> DEFINE S == {k \in 1..n : cuts[k] <= i}
  <2>1. PICK k \in S : \A m \in S : k >= m
    <3>1. S \in SUBSET (0..n) /\ 1 \in S
      BY <1>0, <1>1
    <3> HIDE DEF S
    <3> QED
      BY <1>1, <3>1, GreatestElement
  <2>2. i < cuts[k + 1]
    <3>1. CASE k = n
      BY <1>0, <1>1, <3>1
    <3>2. CASE k # n
      <4>1. k + 1 \in 1..n /\ ~(k >= k + 1)
        BY <1>1, <3>2
      <4>2. k + 1 \notin S
        BY <2>1, <4>1
      <4> QED
        BY <1>0, <1>3, <4>1, <4>2
    <3> QED
      BY <3>1, <3>2
  <2>3. i \in cuts[k]..(cuts[k + 1] - 1)
    BY <1>0, <1>3, <2>1, <2>2
  <2> QED
    BY <1>4, <2>3
<1> QED
  BY <1>1, <1>4, <1>5, <1>6, <1>7 DEF l, segments

\* What a block becomes.
LEMMA ExplodedIs ==
  ASSUME BlocksInv, NEW b \in 1..Len(blocks), blocks[b].role # "noise"
  PROVE  /\ ArePartsInOrder(Exploded(b)) /\ AllShown(Exploded(b), b)
         /\ \A k \in 1..Len(Exploded(b)) : Exploded(b)[k].block = b
<1> DEFINE l == Len(blocks[b].lines)
           n == Cardinality(CutAt(b))
           cuts == Cuts(blocks[b].lines) \o <<l + 1>>
           segments == Segments(cuts, n, b)
           whole == [block |-> b, from |-> 1, to |-> l, first |-> TRUE]
           P == {k \in 1..n : ~Blank(segments[k])}
<1>1. l \in Nat \ {0} /\ DOMAIN blocks[b].lines = 1..l
  BY BlockFacts
<1>2. CutsThrough(cuts, n, b)
  BY CutsAre
<1>3. Exploded(b) = IF blocks[b].table \/ n < 2 THEN <<whole>> ELSE Only(segments, P)
  <2> DEFINE given == [i \in 1..(Len(cuts) - 1) |->
               [block |-> b, from |-> cuts[i], to |-> cuts[i + 1] - 1, first |-> i = 1]]
  <2>1. Exploded(b) = IF blocks[b].table \/ Len(given) < 2 THEN <<whole>>
                      ELSE Only(given, {i \in DOMAIN given : ~Blank(given[i])})
    BY DEF Exploded
  <2>2. Len(cuts) - 1 = n /\ n \in Nat
    <3> HIDE DEF cuts, n
    <3> QED
      BY <1>2 DEF CutsThrough
  <2>3. given = segments /\ DOMAIN segments = 1..n
    BY <2>2 DEF Segments
  <2>4. Len(segments) = n
    <3>1. segments = [k \in 1..n |-> segments[k]]
      BY DEF Segments
    <3> HIDE DEF segments, n
    <3> QED
      BY <2>2, <3>1, FunctionIsSequence
  <2> HIDE DEF given, segments, n
  <2> QED
    BY <2>1, <2>3, <2>4
<1>4. CASE blocks[b].table \/ n < 2
  <2>1. blocks[b].table \/ \A i \in 2..l : ~Starts(b, i)
    <3> SUFFICES ASSUME n < 2, NEW i \in 2..l, Starts(b, i) PROVE FALSE
      BY <1>4
    <3>1. i \in CutAt(b)
      BY <1>1 DEF CutAt, Starts
    <3> HIDE DEF n, cuts
    <3>2. n = 1
      BY <1>2 DEF CutsThrough
    <3>3. PICK k \in 1..n : cuts[k] = i
      BY <1>2, <3>1 DEF CutsThrough
    <3> QED
      BY <1>2, <3>2, <3>3 DEF CutsThrough
  <2>2. Exploded(b) = <<whole>>
    BY <1>3, <1>4
  <2> HIDE DEF whole
  <2> QED
    BY <2>1, <2>2, WholePart DEF whole
<1>5. CASE ~blocks[b].table /\ ~(n < 2)
  <2>1. /\ n \in Nat
        /\ \A k \in 1..n : segments[k].block = b /\ IsPart(segments[k])
        /\ \A j, k \in 1..n : j < k => Earlier(segments[j], segments[k])
        /\ \A i \in 1..l : \E k \in 1..n : i \in segments[k].from..segments[k].to
    <3>1. n \in Nat
      BY <1>2 DEF CutsThrough
    <3> HIDE DEF cuts, n
    <3> QED
      BY <1>2, <1>5, <3>1, SegmentsArePartsInOrder
  <2> HIDE DEF cuts, segments, n
  <2> DEFINE X == Only(segments, P)
             m == Cardinality(P)
             a == Ascending(P)
  <2>2. P \in SUBSET Int /\ IsFiniteSet(P) /\ P \subseteq 1..n
    <3>1. P \in SUBSET (1..n)
      OBVIOUS
    <3>2. IsFiniteSet(1..n)
      BY <2>1, FS_Interval
    <3> HIDE DEF P
    <3>3. IsFiniteSet(P)
      BY <3>1, <3>2, FS_Subset
    <3> QED
      BY <2>1, <3>1, <3>3
  <2> HIDE DEF P
  <2>3. /\ IsSequence(X) /\ Len(X) = m /\ m \in Nat
        /\ \A k \in 1..m : a[k] \in P /\ X[k] = segments[a[k]]
        /\ \A j, k \in 1..m : j < k => a[j] < a[k]
        /\ \A x \in P : \E k \in 1..m : a[k] = x
    BY <2>2, OnlyIs, AscendingSorts
  <2> HIDE DEF X, m, a
  <2>4. ArePartsInOrder(X)
    <3>1. ASSUME NEW k \in 1..m PROVE IsPart(X[k])
      BY <2>1, <2>2, <2>3
    <3>2. ASSUME NEW j \in 1..m, NEW k \in 1..m, j < k PROVE Earlier(X[j], X[k])
      <4>1. a[j] \in 1..n /\ a[k] \in 1..n /\ a[j] < a[k]
        BY <2>2, <2>3, <3>2
      <4> QED
        BY <2>1, <2>3, <4>1
    <3> QED
      BY <2>3, <3>1, <3>2 DEF ArePartsInOrder
  <2>5. AllShown(X, b)
    <3> SUFFICES ASSUME NEW i \in 1..l, blocks[b].lines[i] # "blank"
                 PROVE  \E k \in 1..Len(X) : X[k].block = b /\ i \in X[k].from..X[k].to
      BY DEF AllShown
    <3>1. PICK s \in 1..n : i \in segments[s].from..segments[s].to
      BY <2>1
    <3>2. segments[s].block = b
      BY <2>1
    <3>3. i \in Printed(segments[s])
      BY <3>1, <3>2 DEF Printed
    <3>4. s \in P
      BY <3>3 DEF P, Blank
    <3>5. PICK k \in 1..m : a[k] = s
      BY <2>3, <3>4
    <3>6. X[k] = segments[s] /\ k \in 1..Len(X)
      BY <2>3, <3>5
    <3> QED
      BY <3>1, <3>2, <3>6
  <2>6. ASSUME NEW k \in 1..Len(X) PROVE X[k].block = b
    <3>1. k \in 1..m /\ a[k] \in 1..n /\ X[k] = segments[a[k]]
      BY <2>2, <2>3
    <3> QED
      BY <2>1, <3>1
  <2>7. Exploded(b) = X
    BY <1>3, <1>5 DEF X
  <2> QED
    BY <2>4, <2>5, <2>6, <2>7
<1> QED
  BY <1>4, <1>5

-----------------------------------------------------------------------------
(* FoldLeft joins sequences by way of a function on the subsets of its      *)
(* domain: h is that function for v[1], ..., v[n].                          *)

IsJoin(h, v, n) ==
  h = [s \in SUBSET (1..n) |-> IF s = {} THEN <<>> ELSE h[s \ {Max(s)}] \o v[Max(s)]]

LEMMA JoinExists ==
  ASSUME NEW v
  PROVE  \A n \in Nat : \E h : IsJoin(h, v, n)
<1> DEFINE S == {n \in Nat : \E h : IsJoin(h, v, n)}
<1>1. 0 \in S
  <2> DEFINE h == [s \in SUBSET (1..0) |-> <<>>]
  <2>1. IsJoin(h, v, 0)
    <3>1. \A s \in SUBSET (1..0) : s = {}
      OBVIOUS
    <3>2. h = [s \in SUBSET (1..0) |-> IF s = {} THEN <<>> ELSE h[s \ {Max(s)}] \o v[Max(s)]]
      BY <3>1
    <3> QED
      BY <3>2 DEF IsJoin
  <2> QED
    BY <2>1
<1>2. ASSUME NEW n \in Nat, n \in S PROVE n + 1 \in S
  <2>1. PICK h : IsJoin(h, v, n)
    BY <1>2
  <2> DEFINE g == [s \in SUBSET (1..(n + 1)) |->
                     IF n + 1 \in s THEN h[s \ {n + 1}] \o v[n + 1] ELSE h[s]]
  <2>2. ASSUME NEW s \in SUBSET (1..(n + 1))
        PROVE  g[s] = IF s = {} THEN <<>> ELSE g[s \ {Max(s)}] \o v[Max(s)]
    <3>1. CASE s = {}
      BY <2>1, <3>1 DEF IsJoin
    <3>2. CASE n + 1 \in s
      <4>1. Max(s) = n + 1
        <5>1. Max(s) \in s /\ \A x \in s : Max(s) >= x
          <6>1. n + 1 \in Nat /\ s # {}
            BY <3>2
          <6> QED
            BY <6>1, MaxIsGreatest
        <5> HIDE DEF g
        <5>2. Max(s) \in 1..(n + 1) /\ Max(s) >= n + 1
          BY <3>2, <5>1
        <5> QED
          BY <5>2
      <4>2. s \ {n + 1} \in SUBSET (1..n) /\ n + 1 \notin s \ {n + 1}
        OBVIOUS
      <4> QED
        BY <3>2, <4>1, <4>2
    <3>3. CASE s # {} /\ n + 1 \notin s
      <4>1. s \in SUBSET (1..n)
        BY <3>3
      <4>2. Max(s) \in s
        BY <3>3, MaxIsGreatest
      <4>3. h[s] = h[s \ {Max(s)}] \o v[Max(s)]
        BY <2>1, <3>3, <4>1 DEF IsJoin
      <4> QED
        BY <3>3, <4>2, <4>3
    <3> QED
      BY <3>1, <3>2, <3>3
  <2>3. IsJoin(g, v, n + 1)
    BY <2>2 DEF IsJoin
  <2> QED
    BY <2>3
<1> HIDE DEF S
<1>3. Nat \subseteq S
  BY <1>1, <1>2, Induction
<1> QED
  BY <1>3 DEF S

Grows(h, v, n) ==
  /\ h[1..0] = <<>>
  /\ \A k \in 0..(n - 1) : h[1..(k + 1)] = h[1..k] \o v[k + 1]

LEMMA JoinGrows ==
  ASSUME NEW n \in Nat, NEW v, NEW h, IsJoin(h, v, n)
  PROVE  Grows(h, v, n)
<1>1. h[{}] = <<>> /\ \A s \in SUBSET (1..n) : s # {} => h[s] = h[s \ {Max(s)}] \o v[Max(s)]
  BY DEF IsJoin
<1>2. 1..0 = {}
  OBVIOUS
<1>3. ASSUME NEW k \in 0..(n - 1) PROVE h[1..(k + 1)] = h[1..k] \o v[k + 1]
  <2> DEFINE s == 1..(k + 1)
  <2>1. s \in SUBSET (1..n) /\ s # {} /\ s \ {k + 1} = 1..k
    <3>1. k \in Nat /\ k + 1 <= n
      OBVIOUS
    <3>2. k + 1 \in s
      BY <3>1
    <3>3. s \ {k + 1} = 1..k
      BY <3>1
    <3>4. s \subseteq 1..n
      BY <3>1
    <3> QED
      BY <3>2, <3>3, <3>4
  <2>2. Max(s) = k + 1
    <3>1. k + 1 \in s /\ \A x \in s : x <= k + 1 /\ x \in Nat
      OBVIOUS
    <3> HIDE DEF s
    <3>2. Max(s) \in s /\ \A x \in s : Max(s) >= x
      BY <2>1, MaxIsGreatest
    <3> QED
      BY <3>1, <3>2
  <2> HIDE DEF s
  <2> QED
    BY <1>1, <2>1, <2>2 DEF s
<1> QED
  BY <1>1, <1>2, <1>3 DEF Grows

AllParts == FoldLeft(LAMBDA done, b : done \o Exploded(b), <<>>, BodyBlocks)

IsAllParts(h) ==
  h = [s \in SUBSET (DOMAIN BodyBlocks) |->
         IF s = {} THEN <<>> ELSE h[s \ {Max(s)}] \o Exploded(BodyBlocks[Max(s)])]

LEMMA AllPartsIsAJoin ==
  AllParts = (CHOOSE h : IsAllParts(h))[DOMAIN BodyBlocks]
BY DEF AllParts, FoldLeft, MapThenFoldSet, IsAllParts

LEMMA BodyBlocksAre ==
  ASSUME BlocksInv
  PROVE  /\ IsSequence(BodyBlocks) /\ Len(BodyBlocks) \in Nat
         /\ DOMAIN BodyBlocks = 1..Len(BodyBlocks)
         /\ \A k \in 1..Len(BodyBlocks) :
              BodyBlocks[k] \in 1..Len(blocks) /\ blocks[BodyBlocks[k]].role # "noise"
         /\ \A j, k \in 1..Len(BodyBlocks) : j < k => BodyBlocks[j] < BodyBlocks[k]
         /\ \A b \in 1..Len(blocks) : blocks[b].role # "noise" =>
              \E k \in 1..Len(BodyBlocks) : BodyBlocks[k] = b
<1> DEFINE B == {b \in DOMAIN blocks : blocks[b].role # "noise"}
           n == Cardinality(B)
<1>1. B \in SUBSET (1..Len(blocks)) /\ IsFiniteSet(1..Len(blocks)) /\ Len(blocks) \in Nat
      /\ DOMAIN blocks = 1..Len(blocks)
  BY BlockFacts, FS_Interval
<1>2. IsFiniteSet(B) /\ B \in SUBSET Int
  <2> HIDE DEF B
  <2>1. IsFiniteSet(B)
    BY <1>1, FS_Subset
  <2> QED
    BY <1>1, <2>1
<1>3. BodyBlocks = Ascending(B)
  BY DEF BodyBlocks
<1>4. \A b \in B : b \in 1..Len(blocks) /\ blocks[b].role # "noise"
  BY <1>1
<1>5. \A b \in 1..Len(blocks) : blocks[b].role # "noise" => b \in B
  BY <1>1
<1> HIDE DEF B
<1>6. /\ n \in Nat /\ BodyBlocks \in [1..n -> B]
      /\ \A j, k \in 1..n : j < k => BodyBlocks[j] < BodyBlocks[k]
      /\ \A b \in B : \E k \in 1..n : BodyBlocks[k] = b
  BY <1>2, <1>3, AscendingSorts
<1> HIDE DEF n
<1>7. IsSequence(BodyBlocks) /\ Len(BodyBlocks) = n
  <2>1. BodyBlocks = [k \in 1..n |-> BodyBlocks[k]]
    BY <1>6
  <2> QED
    BY <1>6, <2>1, FunctionIsSequence
<1> QED
  BY <1>4, <1>5, <1>6, <1>7

\* All parts are in order, and show every line of the text.
LEMMA AllPartsAre ==
  ASSUME BlocksInv
  PROVE  /\ ArePartsInOrder(AllParts)
         /\ \A b \in 1..Len(blocks) : blocks[b].role # "noise" => AllShown(AllParts, b)
<1> DEFINE n == Len(BodyBlocks)
           v == [k \in 1..n |-> Exploded(BodyBlocks[k])]
<1>1. /\ n \in Nat /\ DOMAIN BodyBlocks = 1..n
      /\ \A k \in 1..n :
           BodyBlocks[k] \in 1..Len(blocks) /\ blocks[BodyBlocks[k]].role # "noise"
      /\ \A j, k \in 1..n : j < k => BodyBlocks[j] < BodyBlocks[k]
      /\ \A b \in 1..Len(blocks) : blocks[b].role # "noise" =>
           \E k \in 1..n : BodyBlocks[k] = b
  BY BodyBlocksAre
<1>2. PICK h : IsJoin(h, v, n) /\ AllParts = h[1..n]
  <2>1. ASSUME NEW h PROVE IsAllParts(h) <=> IsJoin(h, v, n)
    <3>1. ASSUME NEW s \in SUBSET (1..n), s # {} PROVE v[Max(s)] = Exploded(BodyBlocks[Max(s)])
      <4>1. Max(s) \in s
        <5> HIDE DEF n, v
        <5> QED
          BY <1>1, <3>1, MaxIsGreatest
      <4> QED
        BY <3>1, <4>1
    <3> DEFINE f == [s \in SUBSET (1..n) |->
                       IF s = {} THEN <<>> ELSE h[s \ {Max(s)}] \o Exploded(BodyBlocks[Max(s)])]
               g == [s \in SUBSET (1..n) |->
                       IF s = {} THEN <<>> ELSE h[s \ {Max(s)}] \o v[Max(s)]]
    <3> HIDE DEF n, v
    <3>2. f = g
      BY <3>1
    <3> QED
      BY <1>1, <3>2 DEF IsAllParts, IsJoin
  <2> HIDE DEF n, v
  <2>2. \E h : IsAllParts(h)
    BY <1>1, <2>1, JoinExists
  <2>3. IsAllParts(CHOOSE h : IsAllParts(h))
    BY <2>2
  <2> QED
    BY <1>1, <2>1, <2>3, AllPartsIsAJoin
<1> DEFINE P(k) == h[1..k]
<1>3. P(0) = <<>> /\ \A k \in 0..(n - 1) : P(k + 1) = P(k) \o Exploded(BodyBlocks[k + 1])
  <2>1. \A k \in 0..(n - 1) : v[k + 1] = Exploded(BodyBlocks[k + 1])
    BY <1>1
  <2> HIDE DEF n, v
  <2> QED
    <3>1. h[1..0] = <<>> /\ \A k \in 0..(n - 1) : h[1..(k + 1)] = h[1..k] \o v[k + 1]
      <4>1. Grows(h, v, n)
        BY <1>1, <1>2, JoinGrows
      <4> QED
        BY <4>1 DEF Grows
    <3> QED
      BY <2>1, <3>1
<1> HIDE DEF P, n, v
<1> DEFINE Right(k) ==
             /\ ArePartsInOrder(P(k))
             /\ \A i \in 1..Len(P(k)) : \E j \in 1..k : P(k)[i].block = BodyBlocks[j]
             /\ \A j \in 1..k : AllShown(P(k), BodyBlocks[j])
           S == {k \in Nat : k <= n => Right(k)}
<1>4. 0 \in S
  <2>1. IsSequence(P(0)) /\ Len(P(0)) = 0
    BY <1>3, ShortSequences
  <2> QED
    BY <2>1 DEF ArePartsInOrder
<1>5. ASSUME NEW k \in Nat, k \in S PROVE k + 1 \in S
  <2> SUFFICES ASSUME k + 1 <= n PROVE Right(k + 1)
    OBVIOUS
  <2> DEFINE b == BodyBlocks[k + 1]
             p == P(k)
             e == Exploded(b)
             r == P(k + 1)
  <2>1. Right(k) /\ k + 1 \in 1..n /\ k \in 0..(n - 1)
    <3>1. k <= n /\ k + 1 \in 1..n /\ k \in 0..(n - 1)
      BY <1>1
    <3> HIDE DEF Right
    <3> QED
      BY <1>5, <3>1
  <2>2. /\ ArePartsInOrder(e) /\ AllShown(e, b)
        /\ \A i \in 1..Len(e) : e[i].block = b
    BY <1>1, <2>1, ExplodedIs
  <2>3. /\ ArePartsInOrder(p)
        /\ \A i \in 1..Len(p) : \E j \in 1..k : p[i].block = BodyBlocks[j]
        /\ \A j \in 1..k : AllShown(p, BodyBlocks[j])
    BY <2>1
  <2>4. r = p \o e
    BY <1>3, <2>1
  <2>5. \A j \in 1..k : BodyBlocks[j] < b /\ j \in 1..n
    BY <1>1, <2>1
  <2> HIDE DEF p, e, r
  <2>6. /\ IsSequence(p) /\ Len(p) \in Nat /\ IsSequence(e) /\ Len(e) \in Nat
        /\ IsSequence(r) /\ Len(r) = Len(p) + Len(e)
        /\ \A i \in 1..Len(p) : r[i] = p[i]
        /\ \A i \in 1..Len(e) : r[Len(p) + i] = e[i]
    <3>1. IsSequence(p) /\ IsSequence(e)
      BY <2>2, <2>3 DEF ArePartsInOrder
    <3>2. Joins(r, p, e)
      BY <2>4, <3>1, ConcatJoins
    <3> QED
      BY <3>1, <3>2, SequenceFacts DEF Joins
  <2>7. ASSUME NEW i \in 1..Len(r)
        PROVE  \/ i \in 1..Len(p) /\ r[i] = p[i]
               \/ i > Len(p) /\ i - Len(p) \in 1..Len(e) /\ r[i] = e[i - Len(p)]
    <3>1. CASE i <= Len(p)
      BY <2>6, <3>1
    <3>2. CASE i > Len(p)
      <4>1. i - Len(p) \in 1..Len(e) /\ Len(p) + (i - Len(p)) = i
        BY <2>6, <3>2
      <4> QED
        BY <2>6, <3>2, <4>1
    <3> QED
      BY <2>6, <3>1, <3>2
  <2>8. ArePartsInOrder(r)
    <3>1. ASSUME NEW i \in 1..Len(r) PROVE IsPart(r[i])
      BY <2>2, <2>3, <2>7 DEF ArePartsInOrder
    <3>2. ASSUME NEW i \in 1..Len(r), NEW j \in 1..Len(r), i < j PROVE Earlier(r[i], r[j])
      <4>1. CASE j \in 1..Len(p) /\ r[j] = p[j]
        <5>1. i \in 1..Len(p) /\ r[i] = p[i]
          BY <2>6, <3>2, <4>1
        <5> QED
          BY <2>3, <3>2, <4>1, <5>1 DEF ArePartsInOrder
      <4>2. CASE j > Len(p) /\ j - Len(p) \in 1..Len(e) /\ r[j] = e[j - Len(p)]
        <5>1. CASE i \in 1..Len(p) /\ r[i] = p[i]
          <6>1. r[i].block < b /\ r[j].block = b
            BY <2>2, <2>3, <2>5, <4>2, <5>1
          <6> QED
            BY <6>1 DEF Earlier
        <5>2. CASE i > Len(p) /\ i - Len(p) \in 1..Len(e) /\ r[i] = e[i - Len(p)]
          <6>1. i - Len(p) < j - Len(p)
            BY <2>6, <3>2
          <6> QED
            BY <2>2, <4>2, <5>2, <6>1 DEF ArePartsInOrder
        <5> QED
          BY <2>7, <5>1, <5>2
      <4> QED
        BY <2>7, <4>1, <4>2
    <3> QED
      BY <2>6, <3>1, <3>2 DEF ArePartsInOrder
  <2>9. ASSUME NEW i \in 1..Len(r) PROVE \E j \in 1..(k + 1) : r[i].block = BodyBlocks[j]
    <3>1. CASE i \in 1..Len(p) /\ r[i] = p[i]
      BY <2>3, <3>1
    <3>2. CASE i - Len(p) \in 1..Len(e) /\ r[i] = e[i - Len(p)]
      BY <2>2, <3>2
    <3> QED
      BY <2>7, <3>1, <3>2
  <2>10. ASSUME NEW j \in 1..(k + 1) PROVE AllShown(r, BodyBlocks[j])
    <3> SUFFICES ASSUME NEW i \in 1..Len(blocks[BodyBlocks[j]].lines),
                        blocks[BodyBlocks[j]].lines[i] # "blank"
                 PROVE  \E m \in 1..Len(r) :
                          r[m].block = BodyBlocks[j] /\ i \in r[m].from..r[m].to
      BY DEF AllShown
    <3>1. CASE j \in 1..k
      <4>1. PICK m \in 1..Len(p) : p[m].block = BodyBlocks[j] /\ i \in p[m].from..p[m].to
        BY <2>3, <3>1 DEF AllShown
      <4>2. m \in 1..Len(r) /\ r[m] = p[m]
        BY <2>6
      <4> QED
        BY <4>1, <4>2
    <3>2. CASE j = k + 1
      <4>1. PICK m \in 1..Len(e) : e[m].block = BodyBlocks[j] /\ i \in e[m].from..e[m].to
        BY <2>2, <3>2 DEF AllShown
      <4>2. Len(p) + m \in 1..Len(r) /\ r[Len(p) + m] = e[m]
        BY <2>6
      <4> QED
        BY <4>1, <4>2
    <3> QED
      BY <3>1, <3>2
  <2> QED
    BY <2>8, <2>9, <2>10 DEF r
<1> HIDE DEF S
<1>6. Nat \subseteq S
  BY <1>4, <1>5, Induction
<1>7. Right(n) /\ AllParts = P(n)
  <2> HIDE DEF Right
  <2>1. n \in S /\ n <= n
    BY <1>1, <1>6
  <2> QED
    BY <1>2, <2>1 DEF S, P
<1> QED
  BY <1>1, <1>7

-----------------------------------------------------------------------------
(* The groups, the one being gathered included.                             *)

AllGroups ==
  IF pc = "group" /\ current # <<>>
  THEN Append(groups, [parts |-> current, opened |-> opened]) ELSE groups

AreGroups(G) ==
  IsSequence(G) /\ \A g \in 1..Len(G) : IsSequence(G[g].parts) /\ Len(G[g].parts) # 0

\* Nothing else, and nothing less, than the first n parts that are not blank.
FromParts(G, n) ==
  \A g \in 1..Len(G) : \A k \in 1..Len(G[g].parts) :
    \E i \in 1..n : G[g].parts[k] = parts[i] /\ ~Blank(parts[i])

HaveParts(G, n) ==
  \A i \in 1..n : ~Blank(parts[i]) =>
    \E g \in 1..Len(G) : \E k \in 1..Len(G[g].parts) : G[g].parts[k] = parts[i]

InOrder(G) ==
  \A g, h \in 1..Len(G) : \A k \in 1..Len(G[g].parts), m \in 1..Len(G[h].parts) :
    g < h \/ (g = h /\ k < m) => Earlier(G[g].parts[k], G[h].parts[m])

OpenedByMarkers(G) ==
  /\ \A g \in 1..Len(G) : \A k \in 2..Len(G[g].parts) : ~Marked(G[g].parts[k])
  /\ \A g \in 2..Len(G) : Marked(G[g].parts[1])

Gathered(G, n) ==
  AreGroups(G) /\ FromParts(G, n) /\ HaveParts(G, n) /\ InOrder(G) /\ OpenedByMarkers(G)

LEMMA BlankSkipped ==
  ASSUME NEW G, NEW n \in Nat, Gathered(G, n), Blank(parts[n + 1])
  PROVE  Gathered(G, n + 1)
<1>1. FromParts(G, n + 1)
  <2> SUFFICES ASSUME NEW g \in 1..Len(G), NEW k \in 1..Len(G[g].parts)
               PROVE  \E i \in 1..(n + 1) : G[g].parts[k] = parts[i] /\ ~Blank(parts[i])
    BY DEF FromParts
  <2>1. PICK i \in 1..n : G[g].parts[k] = parts[i] /\ ~Blank(parts[i])
    BY DEF Gathered, FromParts
  <2>2. i \in 1..(n + 1)
    OBVIOUS
  <2> QED
    BY <2>1, <2>2
<1>2. HaveParts(G, n + 1)
  BY DEF Gathered, HaveParts
<1> QED
  BY <1>1, <1>2 DEF Gathered

EndsWith(t, s, e) ==
  /\ IsSequence(t) /\ Len(s) \in Nat /\ Len(t) = Len(s) + 1 /\ t[Len(s) + 1] = e
  /\ \A i \in 1..Len(s) : t[i] = s[i]

LEMMA Appended ==
  ASSUME NEW s, IsSequence(s), NEW e
  PROVE  EndsWith(Append(s, e), s, e)
<1>1. PICK S : s \in Seq(S)
  BY DEF IsSequence
<1> DEFINE T == S \cup {e}
<1>2. s \in Seq(T) /\ e \in T
  <2>1. S \subseteq T /\ e \in T
    OBVIOUS
  <2> HIDE DEF T
  <2> QED
    BY <1>1, <2>1, SeqMonotonic
<1> HIDE DEF T
<1> QED
  BY <1>2, AppendProperties DEF IsSequence, EndsWith

\* A part opens a group of its own: the first, or as it is marked.
LEMMA GroupOpened ==
  ASSUME ArePartsInOrder(parts), NEW n \in Nat, n + 1 \in 1..Len(parts), ~Blank(parts[n + 1]),
         NEW G, Gathered(G, n), Len(G) = 0 \/ Marked(parts[n + 1]),
         NEW e, IsSequence(e.parts), Len(e.parts) = 1, e.parts[1] = parts[n + 1],
         NEW H, EndsWith(H, G, e)
  PROVE  Gathered(H, n + 1)
<1>1. AreGroups(G) /\ FromParts(G, n) /\ HaveParts(G, n) /\ InOrder(G) /\ OpenedByMarkers(G)
  BY DEF Gathered
<1> DEFINE part == parts[n + 1]
           l == Len(G) + 1
<1>2. /\ IsSequence(H) /\ Len(G) \in Nat /\ Len(H) = l /\ H[l] = e
      /\ \A g \in 1..Len(G) : H[g] = G[g]
  BY DEF EndsWith
<1>3. IsSequence(e.parts) /\ Len(e.parts) = 1 /\ e.parts[1] = part
  OBVIOUS
<1> HIDE DEF part
<1>4. ASSUME NEW g \in 1..l
      PROVE  \/ g \in 1..Len(G) /\ H[g] = G[g]
             \/ g = l /\ H[g] = e
  <2>1. g \in 1..Len(G) \/ g = l
    BY <1>2
  <2> QED
    BY <1>2, <2>1
<1>5. AreGroups(H)
  BY <1>1, <1>2, <1>3, <1>4 DEF AreGroups
<1>6. FromParts(H, n + 1)
  <2> SUFFICES ASSUME NEW g \in 1..l, NEW k \in 1..Len(H[g].parts)
               PROVE  \E i \in 1..(n + 1) : H[g].parts[k] = parts[i] /\ ~Blank(parts[i])
    BY <1>2 DEF FromParts
  <2>1. CASE g \in 1..Len(G) /\ H[g] = G[g]
    BY <1>1, <2>1 DEF FromParts
  <2>2. CASE H[g] = e
    <3>1. H[g].parts[k] = part
      BY <1>3, <2>2
    <3> QED
      BY <3>1 DEF part
  <2> QED
    BY <1>4, <2>1, <2>2
<1>7. HaveParts(H, n + 1)
  <2> SUFFICES ASSUME NEW i \in 1..(n + 1), ~Blank(parts[i])
               PROVE  \E g \in 1..l : \E k \in 1..Len(H[g].parts) : H[g].parts[k] = parts[i]
    BY <1>2 DEF HaveParts
  <2>1. CASE i \in 1..n
    <3>1. PICK g \in 1..Len(G) : \E k \in 1..Len(G[g].parts) : G[g].parts[k] = parts[i]
      BY <1>1, <2>1 DEF HaveParts
    <3>2. g \in 1..l /\ H[g] = G[g]
      BY <1>2
    <3> QED
      BY <3>1, <3>2
  <2>2. CASE i = n + 1
    <3>1. l \in 1..l /\ 1 \in 1..Len(H[l].parts) /\ H[l].parts[1] = parts[i]
      BY <1>2, <1>3, <2>2 DEF part
    <3> QED
      BY <3>1
  <2> QED
    BY <2>1, <2>2
<1>8. InOrder(H)
  <2> SUFFICES ASSUME NEW g \in 1..l, NEW h \in 1..l,
                      NEW k \in 1..Len(H[g].parts), NEW m \in 1..Len(H[h].parts),
                      g < h \/ (g = h /\ k < m)
               PROVE  Earlier(H[g].parts[k], H[h].parts[m])
    BY <1>2 DEF InOrder
  <2>1. CASE h \in 1..Len(G) /\ H[h] = G[h]
    <3>1. g \in 1..Len(G) /\ H[g] = G[g]
      BY <1>2, <2>1
    <3> QED
      BY <1>1, <2>1, <3>1 DEF InOrder
  <2>2. CASE h = l /\ H[h] = e
    <3>1. m = 1 /\ H[h].parts[m] = part
      BY <1>3, <2>2
    <3>2. g \in 1..Len(G) /\ H[g] = G[g]
      <4>1. k \in 1..1 \/ g # h
        BY <1>3, <2>2
      <4> QED
        BY <1>2, <1>4, <2>2, <3>1, <4>1
    <3>3. PICK i \in 1..n : H[g].parts[k] = parts[i]
      BY <1>1, <3>2 DEF FromParts
    <3>4. Earlier(parts[i], parts[n + 1])
      BY DEF ArePartsInOrder
    <3> QED
      BY <3>1, <3>3, <3>4 DEF part
  <2> QED
    BY <1>4, <2>1, <2>2
<1>9. OpenedByMarkers(H)
  <2>1. ASSUME NEW g \in 1..l, NEW k \in 2..Len(H[g].parts) PROVE ~Marked(H[g].parts[k])
    BY <1>1, <1>3, <1>4 DEF OpenedByMarkers
  <2>2. ASSUME NEW g \in 2..l PROVE Marked(H[g].parts[1])
    <3>1. CASE g \in 1..Len(G) /\ H[g] = G[g]
      BY <1>1, <3>1 DEF OpenedByMarkers
    <3>2. CASE g = l /\ H[g] = e
      BY <1>2, <1>3, <3>2 DEF part
    <3> QED
      BY <1>2, <1>4, <3>1, <3>2
  <2> QED
    BY <1>2, <2>1, <2>2 DEF OpenedByMarkers
<1> QED
  BY <1>5, <1>6, <1>7, <1>8, <1>9 DEF Gathered

\* A part that is not marked goes with the last group.
LEMMA GroupLengthened ==
  ASSUME ArePartsInOrder(parts), NEW n \in Nat, n + 1 \in 1..Len(parts),
         ~Blank(parts[n + 1]), ~Marked(parts[n + 1]),
         NEW F, NEW e, NEW d, EndsWith(d.parts, e.parts, parts[n + 1]),
         NEW G, EndsWith(G, F, e), Gathered(G, n),
         NEW H, EndsWith(H, F, d)
  PROVE  Gathered(H, n + 1)
<1>1. AreGroups(G) /\ FromParts(G, n) /\ HaveParts(G, n) /\ InOrder(G) /\ OpenedByMarkers(G)
  BY DEF Gathered
<1> DEFINE part == parts[n + 1]
           l == Len(F) + 1
           q == Len(e.parts)
<1>2. /\ IsSequence(H) /\ Len(F) \in Nat /\ Len(H) = l /\ H[l] = d
      /\ \A g \in 1..Len(F) : H[g] = F[g]
  BY DEF EndsWith
<1>3. /\ Len(G) = l /\ G[l] = e
      /\ \A g \in 1..Len(F) : G[g] = F[g]
  BY DEF EndsWith
<1>4. IsSequence(e.parts) /\ q # 0
  BY <1>1, <1>2, <1>3 DEF AreGroups
<1>5. /\ IsSequence(d.parts) /\ q \in Nat /\ Len(d.parts) = q + 1 /\ d.parts[q + 1] = part
      /\ \A k \in 1..q : d.parts[k] = e.parts[k]
  BY DEF EndsWith
<1> HIDE DEF part, q
<1>6. ASSUME NEW g \in 1..l
      PROVE  \/ g \in 1..Len(F) /\ H[g] = G[g]
             \/ g = l /\ H[g] = d /\ G[g] = e
  <2>1. g \in 1..Len(F) \/ g = l
    BY <1>2
  <2> QED
    BY <1>2, <1>3, <2>1
<1>7. ASSUME NEW g \in 1..l
      PROVE  /\ IsSequence(H[g].parts) /\ Len(G[g].parts) \in Nat \ {0}
             /\ Len(H[g].parts) \in Nat /\ Len(G[g].parts) <= Len(H[g].parts)
             /\ \A k \in 1..Len(G[g].parts) : H[g].parts[k] = G[g].parts[k]
             /\ \A k \in 1..Len(H[g].parts) :
                  \/ k \in 1..Len(G[g].parts)
                  \/ g = l /\ k = q + 1 /\ H[g].parts[k] = part
  <2>1. CASE g \in 1..Len(F) /\ H[g] = G[g]
    <3>1. IsSequence(G[g].parts) /\ Len(G[g].parts) # 0
      BY <1>1, <1>2, <1>3 DEF AreGroups
    <3>2. Len(G[g].parts) \in Nat
      BY <3>1, SequenceFacts
    <3> QED
      BY <2>1, <3>1, <3>2
  <2>2. CASE g = l /\ H[g] = d /\ G[g] = e
    BY <1>4, <1>5, <2>2 DEF q
  <2> QED
    BY <1>6, <2>1, <2>2
<1>8. AreGroups(H)
  BY <1>2, <1>7 DEF AreGroups
<1>9. FromParts(H, n + 1)
  <2> SUFFICES ASSUME NEW g \in 1..l, NEW k \in 1..Len(H[g].parts)
               PROVE  \E i \in 1..(n + 1) : H[g].parts[k] = parts[i] /\ ~Blank(parts[i])
    BY <1>2 DEF FromParts
  <2>1. CASE k \in 1..Len(G[g].parts)
    <3>1. H[g].parts[k] = G[g].parts[k]
      BY <1>7, <2>1
    <3> QED
      BY <1>1, <1>3, <2>1, <3>1 DEF FromParts
  <2>2. CASE H[g].parts[k] = part
    BY <2>2 DEF part
  <2> QED
    BY <1>7, <2>1, <2>2
<1>10. HaveParts(H, n + 1)
  <2> SUFFICES ASSUME NEW i \in 1..(n + 1), ~Blank(parts[i])
               PROVE  \E g \in 1..l : \E k \in 1..Len(H[g].parts) : H[g].parts[k] = parts[i]
    BY <1>2 DEF HaveParts
  <2>1. CASE i \in 1..n
    <3>1. PICK g \in 1..l : \E k \in 1..Len(G[g].parts) : G[g].parts[k] = parts[i]
      BY <1>1, <1>3, <2>1 DEF HaveParts
    <3>2. PICK k \in 1..Len(G[g].parts) : G[g].parts[k] = parts[i]
      BY <3>1
    <3>3. Len(G[g].parts) \in Nat /\ Len(H[g].parts) \in Nat
          /\ Len(G[g].parts) <= Len(H[g].parts) /\ H[g].parts[k] = parts[i]
      BY <1>7, <3>2
    <3>4. k \in 1..Len(H[g].parts)
      BY <3>2, <3>3
    <3> QED
      BY <3>3, <3>4
  <2>2. CASE i = n + 1
    <3>1. l \in 1..l /\ q + 1 \in 1..Len(H[l].parts) /\ H[l].parts[q + 1] = parts[i]
      BY <1>2, <1>5, <2>2 DEF part
    <3> QED
      BY <3>1
  <2> QED
    BY <2>1, <2>2
<1>11. InOrder(H)
  <2> SUFFICES ASSUME NEW g \in 1..l, NEW h \in 1..l,
                      NEW k \in 1..Len(H[g].parts), NEW m \in 1..Len(H[h].parts),
                      g < h \/ (g = h /\ k < m)
               PROVE  Earlier(H[g].parts[k], H[h].parts[m])
    BY <1>2 DEF InOrder
  <2>0. k \in 1..Len(G[g].parts)
    <3>1. CASE g = l /\ k = q + 1
      <4>1. g = h /\ k < m
        BY <1>2, <3>1
      <4>2. m \in 1..(q + 1)
        BY <1>2, <1>5, <3>1, <4>1
      <4> QED
        BY <1>5, <3>1, <4>1, <4>2
    <3> QED
      BY <1>7, <3>1
  <2>1. CASE m \in 1..Len(G[h].parts)
    <3>1. H[g].parts[k] = G[g].parts[k] /\ H[h].parts[m] = G[h].parts[m]
      BY <1>7, <2>0, <2>1
    <3> QED
      BY <1>1, <1>3, <2>0, <2>1, <3>1 DEF InOrder
  <2>2. CASE H[h].parts[m] = part
    <3>1. PICK i \in 1..n : H[g].parts[k] = parts[i]
      <4>1. \E i \in 1..n : G[g].parts[k] = parts[i]
        BY <1>1, <1>3, <2>0 DEF FromParts
      <4> QED
        BY <1>7, <2>0, <4>1
    <3>2. Earlier(parts[i], parts[n + 1])
      BY DEF ArePartsInOrder
    <3> QED
      BY <2>2, <3>1, <3>2 DEF part
  <2> QED
    BY <1>7, <2>1, <2>2
<1>12. OpenedByMarkers(H)
  <2>1. ASSUME NEW g \in 1..l, NEW k \in 2..Len(H[g].parts) PROVE ~Marked(H[g].parts[k])
    <3>1. k \in 1..Len(H[g].parts)
      BY <1>7
    <3>2. CASE k \in 1..Len(G[g].parts)
      <4>1. Len(G[g].parts) \in Nat /\ H[g].parts[k] = G[g].parts[k]
        BY <1>7, <3>2
      <4>2. k \in 2..Len(G[g].parts)
        BY <3>2, <4>1
      <4> QED
        BY <1>1, <1>3, <4>1, <4>2 DEF OpenedByMarkers
    <3>3. CASE H[g].parts[k] = part
      BY <3>3 DEF part
    <3> QED
      BY <1>7, <3>1, <3>2, <3>3
  <2>2. ASSUME NEW g \in 2..l PROVE Marked(H[g].parts[1])
    <3>1. g \in 1..l /\ 1 \in 1..Len(G[g].parts)
      <4>1. g \in 1..l
        BY <1>2
      <4> QED
        BY <1>7, <4>1
    <3>2. H[g].parts[1] = G[g].parts[1]
      BY <1>7, <3>1
    <3> QED
      BY <1>1, <1>3, <3>2 DEF OpenedByMarkers
  <2> QED
    BY <1>2, <2>1, <2>2 DEF OpenedByMarkers
<1> QED
  BY <1>8, <1>9, <1>10, <1>11, <1>12 DEF Gathered

-----------------------------------------------------------------------------
(* The invariant of chunking.                                               *)

TextParts ==
  /\ ArePartsInOrder(parts)
  /\ \A b \in 1..Len(blocks) : blocks[b].role # "noise" => AllShown(parts, b)

\* Inductive.
GInv ==
  /\ document \in Documents
  /\ pc \in {"analyze", "explode"} =>
       parts = <<>> /\ at = 0 /\ current = <<>> /\ groups = <<>>
  /\ pc # "analyze" => BlocksInv
  /\ pc \notin {"analyze", "explode"} =>
       TextParts /\ at \in 0..Len(parts) /\ Gathered(AllGroups, at)
  /\ pc = "group" => /\ IsSequence(current) /\ IsSequence(groups)
                     /\ current = <<>> => groups = <<>>
  /\ pc \notin {"analyze", "explode", "group"} => at = Len(parts)

LEMMA GInvInit == Init => GInv
BY DEF Init, GInv

LEMMA BlocksStay ==
  ASSUME UNCHANGED <<document, blocks>>
  PROVE  /\ BlocksInv' <=> BlocksInv
         /\ \A p : (Blank(p)' <=> Blank(p)) /\ (Marked(p)' <=> Marked(p))
         /\ \A p : IsPart(p)' <=> IsPart(p)
         /\ \A P, b : AllShown(P, b)' <=> AllShown(P, b)
<1>1. \A i : Block(i)' = Block(i)
  BY DEF Block
<1>2. BlocksInv' <=> BlocksInv
  BY <1>1 DEF BlocksInv, Found
<1>3. \A p : Printed(p)' = Printed(p)
  BY DEF Printed
<1>4. \A p : (Blank(p)' <=> Blank(p)) /\ (Marked(p)' <=> Marked(p))
  BY <1>3 DEF Blank, Marked, Opening
<1>5. \A p : IsPart(p)' <=> IsPart(p)
  BY DEF IsPart, Starts
<1>6. \A P, b : AllShown(P, b)' <=> AllShown(P, b)
  BY DEF AllShown
<1> QED
  BY <1>2, <1>4, <1>5, <1>6

LEMMA PartsStay ==
  ASSUME UNCHANGED <<document, blocks, parts>>
  PROVE  /\ TextParts' <=> TextParts
         /\ \A G, n : Gathered(G, n)' <=> Gathered(G, n)
<1>1. TextParts' <=> TextParts
  BY BlocksStay DEF TextParts, ArePartsInOrder
<1>2. ASSUME NEW G, NEW n PROVE Gathered(G, n)' <=> Gathered(G, n)
  <2>1. FromParts(G, n)' <=> FromParts(G, n)
    BY BlocksStay DEF FromParts
  <2>2. HaveParts(G, n)' <=> HaveParts(G, n)
    BY BlocksStay DEF HaveParts
  <2>3. OpenedByMarkers(G)' <=> OpenedByMarkers(G)
    BY BlocksStay DEF OpenedByMarkers
  <2> QED
    BY <2>1, <2>2, <2>3 DEF Gathered
<1> QED
  BY <1>1, <1>2

LEMMA GInvAnalyze ==
  ASSUME GInv, Analyze
  PROVE  GInv'
<1>1. /\ document \in Documents /\ document' = document /\ pc' = "explode"
      /\ parts' = <<>> /\ at' = 0 /\ current' = <<>> /\ groups' = <<>>
      /\ blocks' = Sorted(Collected)
  BY DEF GInv, Analyze, ToLayout, groupVars
<1>2. BlocksInv'
  <2>1. /\ Found(Sorted(Collected))
        /\ \A j, k \in 1..Len(Sorted(Collected)) :
             j < k => ~Precedes(Sorted(Collected)[k], Sorted(Collected)[j])
    BY <1>1, CollectedIsFound, SortedIsFound
  <2>2. \A f : Found(f)' <=> Found(f)
    <3>1. \A i : Block(i)' = Block(i)
      BY <1>1 DEF Block
    <3> QED
      BY <1>1, <3>1 DEF Found
  <2> QED
    BY <1>1, <2>1, <2>2 DEF BlocksInv
<1> QED
  BY <1>1, <1>2 DEF GInv

LEMMA GInvExplode ==
  ASSUME GInv, Explode
  PROVE  GInv'
<1>1. /\ pc = "explode" /\ pc' = "group" /\ parts' = AllParts
      /\ UNCHANGED <<document, blocks, at, current, groups>>
      /\ document \in Documents /\ BlocksInv /\ at = 0 /\ current = <<>> /\ groups = <<>>
  BY DEF GInv, Explode, layoutVars, AllParts
<1>2. ArePartsInOrder(AllParts)
      /\ \A b \in 1..Len(blocks) : blocks[b].role # "noise" => AllShown(AllParts, b)
  BY <1>1, AllPartsAre
<1>3. TextParts'
  BY <1>1, <1>2, BlocksStay DEF TextParts, ArePartsInOrder
<1>4. Len(parts') \in Nat
  BY <1>1, <1>2, SequenceFacts DEF ArePartsInOrder
<1>5. AllGroups' = <<>> /\ IsSequence(<<>>) /\ Len(<<>>) = 0
  BY <1>1, ShortSequences DEF AllGroups
<1>6. Gathered(AllGroups, at)'
  BY <1>1, <1>5
     DEF Gathered, AreGroups, FromParts, HaveParts, InOrder, OpenedByMarkers
<1> QED
  BY <1>1, <1>3, <1>4, <1>5, <1>6, BlocksStay DEF GInv

LEMMA GInvGroup ==
  ASSUME GInv, Group
  PROVE  GInv'
<1> DEFINE part == parts[at + 1]
           cur == [parts |-> current, opened |-> opened]
           cur2 == [parts |-> current', opened |-> opened']
<1>1. /\ pc = "group" /\ pc' = "group" /\ at < Len(parts) /\ at' = at + 1
      /\ UNCHANGED <<document, blocks, parts>>
      /\ \/ Blank(part) /\ UNCHANGED <<current, opened, groups>>
         \/ ~Blank(part) /\ Marked(part) /\ Open(part)
         \/ /\ ~Blank(part) /\ ~Marked(part)
            /\ current' = Append(current, part) /\ UNCHANGED <<opened, groups>>
  BY DEF Group, layoutVars
<1>2. /\ document \in Documents /\ BlocksInv /\ TextParts /\ at \in 0..Len(parts)
      /\ Gathered(AllGroups, at) /\ IsSequence(current) /\ IsSequence(groups)
      /\ current = <<>> => groups = <<>>
  BY <1>1 DEF GInv
<1>3. /\ at \in Nat /\ at + 1 \in 1..Len(parts) /\ at + 1 \in 0..Len(parts)
      /\ ArePartsInOrder(parts)
  <2>1. ArePartsInOrder(parts) /\ IsSequence(parts)
    BY <1>2 DEF TextParts, ArePartsInOrder
  <2>2. Len(parts) \in Nat
    BY <2>1, SequenceFacts
  <2> QED
    BY <1>1, <1>2, <2>1, <2>2
<1>4. AllGroups = IF current # <<>> THEN Append(groups, cur) ELSE groups
  BY <1>1 DEF AllGroups
<1>5. AllGroups' = IF current' # <<>> THEN Append(groups', cur2) ELSE groups'
  BY <1>1 DEF AllGroups
<1>6. current = <<>> => Len(AllGroups) = 0
  BY <1>2, <1>4, SequenceFacts
<1>7. /\ Gathered(AllGroups', at + 1)
      /\ IsSequence(current') /\ IsSequence(groups') /\ (current' = <<>> => groups' = <<>>)
  <2>1. CASE Blank(part) /\ UNCHANGED <<current, opened, groups>>
    <3>1. Gathered(AllGroups, at + 1)
      BY <1>2, <1>3, <2>1, BlankSkipped
    <3>2. AllGroups' = AllGroups
      BY <1>4, <1>5, <2>1
    <3> QED
      BY <1>2, <2>1, <3>1, <3>2
  <2>2. CASE ~Blank(part) /\ Marked(part) /\ Open(part)
    <3>1. current' = <<part>> /\ groups' = AllGroups
      BY <1>4, <2>2 DEF Open
    <3>2. IsSequence(current') /\ Len(current') = 1 /\ current'[1] = part
      BY <3>1, ShortSequences
    <3> HIDE DEF part
    <3>3. AllGroups' = Append(AllGroups, cur2)
      <4>1. current' # <<>>
        BY <3>2, SequenceFacts
      <4> QED
        BY <1>5, <3>1, <4>1
    <3>4. IsSequence(AllGroups)
      BY <1>2 DEF Gathered, AreGroups
    <3>5. EndsWith(AllGroups', AllGroups, cur2)
      BY <3>3, <3>4, Appended
    <3>6. cur2.parts = current'
      OBVIOUS
    <3> HIDE DEF cur2
    <3>7. Gathered(AllGroups', at + 1)
      BY <1>2, <1>3, <2>2, <3>2, <3>5, <3>6, GroupOpened DEF part
    <3> QED
      BY <3>1, <3>2, <3>4, <3>7, SequenceFacts
  <2>3. CASE /\ ~Blank(part) /\ ~Marked(part)
             /\ current' = Append(current, part) /\ UNCHANGED <<opened, groups>>
    <3>1. EndsWith(current', current, part)
      BY <1>2, <2>3, Appended
    <3>2. IsSequence(current') /\ current' # <<>>
      BY <3>1, SequenceFacts DEF EndsWith
    <3>3. groups' = groups /\ AllGroups' = Append(groups, cur2)
      BY <1>5, <2>3, <3>2
    <3>4. EndsWith(AllGroups', groups, cur2)
      BY <1>2, <3>3, Appended
    <3>5. cur2.parts = current' /\ cur.parts = current
      OBVIOUS
    <3>6. CASE current = <<>>
      <4>1. Len(current') = 1 /\ current'[1] = part
        BY <1>2, <3>1, <3>6, SequenceFacts DEF EndsWith
      <4>2. AllGroups = groups
        BY <1>4, <3>6
      <4> HIDE DEF cur2, part
      <4>3. Gathered(AllGroups', at + 1)
        BY <1>2, <1>3, <1>6, <2>3, <3>2, <3>4, <3>5, <3>6, <4>1, <4>2, GroupOpened DEF part
      <4> QED
        BY <1>2, <2>3, <3>2, <4>3
    <3>7. CASE current # <<>>
      <4>1. EndsWith(AllGroups, groups, cur)
        BY <1>2, <1>4, <3>7, Appended
      <4>2. EndsWith(cur2.parts, cur.parts, part)
        BY <3>1, <3>5
      <4> HIDE DEF cur, cur2, part
      <4>3. Gathered(AllGroups', at + 1)
        BY <1>2, <1>3, <2>3, <3>4, <4>1, <4>2, GroupLengthened DEF part
      <4> QED
        BY <1>2, <2>3, <3>2, <3>3, <4>3
    <3> QED
      BY <3>6, <3>7
  <2> QED
    BY <1>1, <2>1, <2>2, <2>3
<1>8. BlocksInv' /\ TextParts' /\ Gathered(AllGroups, at)'
  BY <1>1, <1>2, <1>7, BlocksStay, PartsStay
<1> QED
  BY <1>1, <1>2, <1>3, <1>7, <1>8 DEF GInv

LEMMA GInvNext == GInv /\ [Next]_vars => GInv'
<1> SUFFICES ASSUME GInv, [Next]_vars PROVE GInv'
  OBVIOUS
<1>1. CASE CloseLast
  <2>1. /\ pc = "group" /\ pc' = "chunk" /\ at = Len(parts)
        /\ UNCHANGED <<document, blocks, parts, at>>
        /\ groups' = IF current = <<>> THEN groups
                     ELSE Append(groups, [parts |-> current, opened |-> opened])
    BY <1>1 DEF CloseLast, layoutVars
  <2>2. AllGroups' = AllGroups
    BY <2>1 DEF AllGroups
  <2>3. BlocksInv' /\ TextParts' /\ Gathered(AllGroups, at)'
    BY <2>1, <2>2, BlocksStay, PartsStay DEF GInv
  <2> QED
    BY <2>1, <2>3 DEF GInv
<1>2. CASE ChunkGroup \/ Split \/ EndSplit \/ Return \/ UNCHANGED vars
  <2>1. /\ UNCHANGED <<document, blocks, parts, at, current, groups>>
        /\ \/ pc \in {"chunk", "split"} /\ pc' \in {"chunk", "split", "chunks"}
           \/ pc' = pc /\ opened' = opened
    BY <1>2 DEF ChunkGroup, Split, EndSplit, Return, vars, layoutVars, groupVars
  <2>2. AllGroups' = AllGroups
    BY <2>1 DEF AllGroups
  <2>3. /\ BlocksInv' <=> BlocksInv
        /\ TextParts' <=> TextParts
        /\ Gathered(AllGroups, at)' <=> Gathered(AllGroups, at)
    BY <2>1, <2>2, BlocksStay, PartsStay
  <2> QED
    BY <2>1, <2>3 DEF GInv
<1> QED
  BY <1>1, <1>2, GInvAnalyze, GInvExplode, GInvGroup DEF Next

-----------------------------------------------------------------------------
(* Where lines are.                                                         *)

\* The groups are complete.
Closed == pc \in {"chunk", "split", "chunks"}

Has(part, line) == part.block = line[1] /\ line[2] \in part.from..part.to

\* The k-th part of group g.
IsAt(part, g, k) ==
  g \in 1..Len(groups) /\ k \in 1..Len(groups[g].parts) /\ part = groups[g].parts[k]

LEMMA GroupedFacts ==
  ASSUME GInv, Closed
  PROVE  /\ BlocksInv /\ TextParts /\ Len(parts) \in Nat
         /\ Gathered(groups, Len(parts))
         /\ DOMAIN groups = 1..Len(groups) /\ Len(groups) \in Nat
         /\ \A g \in 1..Len(groups) :
              /\ Len(groups[g].parts) \in Nat \ {0}
              /\ DOMAIN groups[g].parts = 1..Len(groups[g].parts)
              /\ groups[g].parts # <<>>
<1>1. BlocksInv /\ TextParts /\ at = Len(parts) /\ Gathered(AllGroups, at) /\ AllGroups = groups
  BY DEF GInv, Closed, AllGroups
<1>2. Len(parts) \in Nat
  BY <1>1, SequenceFacts DEF TextParts, ArePartsInOrder
<1>3. AreGroups(groups)
  BY <1>1 DEF Gathered
<1> QED
  BY <1>1, <1>2, <1>3, SequenceFacts DEF AreGroups

\* What is in a group is a part that is not blank.
LEMMA PartAt ==
  ASSUME GInv, Closed, NEW part, NEW g, NEW k, IsAt(part, g, k)
  PROVE  /\ IsPart(part) /\ ~Blank(part)
         /\ \E i \in 1..Len(parts) : part = parts[i]
         /\ part.block \in 1..Len(blocks) /\ part.from \in Nat /\ part.to \in Nat
         /\ 1 <= part.from /\ part.from <= part.to /\ part.to <= Len(blocks[part.block].lines)
<1>1. PICK i \in 1..Len(parts) : part = parts[i] /\ ~Blank(parts[i])
  <2>1. FromParts(groups, Len(parts))
    BY GroupedFacts DEF Gathered
  <2> QED
    BY <2>1 DEF IsAt, FromParts
<1>2. IsPart(parts[i])
  BY GroupedFacts DEF TextParts, ArePartsInOrder
<1>3. Len(blocks[part.block].lines) \in Nat
  BY <1>1, <1>2, GroupedFacts, BlockFacts DEF IsPart
<1> QED
  BY <1>1, <1>2, <1>3 DEF IsPart

LEMMA LineFacts ==
  ASSUME GInv, Closed, NEW line \in TextLines
  PROVE  /\ line[1] \in 1..Len(blocks) /\ blocks[line[1]].role # "noise"
         /\ line[2] \in 1..Len(blocks[line[1]].lines)
         /\ line[2] \in Nat
         /\ blocks[line[1]].lines[line[2]] # "blank"
         /\ line = <<line[1], line[2]>>
<1>1. BlocksInv
  BY GroupedFacts
<1>2. PICK b \in Range(BodyBlocks) : \E i \in DOMAIN blocks[b].lines :
        line = <<b, i>> /\ blocks[b].lines[i] # "blank"
  BY DEF TextLines
<1>4. PICK i \in DOMAIN blocks[b].lines : line = <<b, i>> /\ blocks[b].lines[i] # "blank"
  BY <1>2
<1>3. b \in 1..Len(blocks) /\ blocks[b].role # "noise"
  BY <1>1, BodyBlocksAre DEF Range
<1> QED
  BY <1>1, <1>3, <1>4, BlockFacts

LEMMA LineIsText ==
  ASSUME GInv, Closed, NEW b \in 1..Len(blocks), blocks[b].role # "noise",
         NEW i \in 1..Len(blocks[b].lines), blocks[b].lines[i] # "blank"
  PROVE  <<b, i>> \in TextLines
<1>1. BlocksInv
  BY GroupedFacts
<1>2. b \in Range(BodyBlocks)
  BY <1>1, BodyBlocksAre DEF Range
<1>3. DOMAIN blocks[b].lines = 1..Len(blocks[b].lines)
  BY <1>1, BlockFacts
<1> QED
  BY <1>2, <1>3 DEF TextLines

LEMMA LineIsPlaced ==
  ASSUME GInv, Closed, NEW line \in TextLines
  PROVE  \E part, g, k : IsAt(part, g, k) /\ Has(part, line)
<1>1. /\ line[1] \in 1..Len(blocks) /\ blocks[line[1]].role # "noise"
      /\ line[2] \in 1..Len(blocks[line[1]].lines)
      /\ blocks[line[1]].lines[line[2]] # "blank"
  BY LineFacts
<1>2. PICK i \in 1..Len(parts) : parts[i].block = line[1] /\ line[2] \in parts[i].from..parts[i].to
  BY <1>1, GroupedFacts DEF TextParts, AllShown
<1>3. ~Blank(parts[i])
  BY <1>1, <1>2 DEF Blank, Printed
<1>4. PICK g \in 1..Len(groups) : \E k \in 1..Len(groups[g].parts) : groups[g].parts[k] = parts[i]
  BY <1>3, GroupedFacts DEF Gathered, HaveParts
<1>5. PICK k \in 1..Len(groups[g].parts) : groups[g].parts[k] = parts[i]
  BY <1>4
<1>6. IsAt(parts[i], g, k) /\ Has(parts[i], line)
  BY <1>2, <1>5 DEF IsAt, Has
<1> QED
  BY <1>6

LEMMA HoldsAt ==
  ASSUME GInv, Closed, NEW line
  PROVE  /\ \A g \in 1..Len(groups) : Holds(groups[g], line) <=>
              \E part, k : IsAt(part, g, k) /\ Has(part, line)
         /\ \A g \in GroupsOf(line) : g \in 1..Len(groups)
              /\ \E part, k : IsAt(part, g, k) /\ Has(part, line)
         /\ \A part, g, k : IsAt(part, g, k) /\ Has(part, line) => g \in GroupsOf(line)
<1>1. ASSUME NEW g \in 1..Len(groups)
      PROVE  Holds(groups[g], line) <=> \E part, k : IsAt(part, g, k) /\ Has(part, line)
  <2>1. DOMAIN groups[g].parts = 1..Len(groups[g].parts)
    BY GroupedFacts
  <2>2. Range(groups[g].parts) = {groups[g].parts[k] : k \in 1..Len(groups[g].parts)}
    BY <2>1 DEF Range
  <2> QED
    BY <2>2 DEF Holds, Has, IsAt
<1>2. DOMAIN groups = 1..Len(groups)
  BY GroupedFacts
<1> QED
  BY <1>1, <1>2 DEF GroupsOf, IsAt

LEMMA PlacesInOrder ==
  ASSUME GInv, Closed,
         NEW p, NEW g, NEW k, IsAt(p, g, k), NEW q, NEW h, NEW m, IsAt(q, h, m)
  PROVE  /\ g \in Nat /\ h \in Nat /\ k \in Nat /\ m \in Nat
         /\ g < h \/ (g = h /\ k < m) => Earlier(p, q)
<1>1. Len(groups) \in Nat /\ Len(groups[g].parts) \in Nat /\ Len(groups[h].parts) \in Nat
  BY GroupedFacts DEF IsAt
<1>2. InOrder(groups)
  BY GroupedFacts DEF Gathered
<1> QED
  BY <1>1, <1>2 DEF IsAt, InOrder

\* Lines are in the order of the groups.
LEMMA LinesInOrder ==
  ASSUME GInv, Closed,
         NEW p \in TextLines, NEW a, NEW g, NEW k, IsAt(a, g, k), Has(a, p),
         NEW q \in TextLines, NEW c, NEW h, NEW m, IsAt(c, h, m), Has(c, q),
         p[1] < q[1] \/ (p[1] = q[1] /\ p[2] <= q[2])
  PROVE  g < h \/ (g = h /\ k <= m)
<1>1. g \in Nat /\ h \in Nat /\ k \in Nat /\ m \in Nat
      /\ (h < g \/ (h = g /\ m < k) => Earlier(c, a))
  BY PlacesInOrder
<1>2. /\ p[1] \in Nat /\ p[2] \in Nat /\ q[1] \in Nat /\ q[2] \in Nat
  <2>1. Len(blocks) \in Nat
    BY GroupedFacts, BlockFacts
  <2> QED
    BY <2>1, LineFacts
<1>3. a.from \in Nat /\ a.to \in Nat /\ c.from \in Nat /\ c.to \in Nat
  BY PartAt
<1>4. ~Earlier(c, a)
  BY <1>2, <1>3 DEF Earlier, Has
<1> QED
  BY <1>1, <1>4

LEMMA OneGroup ==
  ASSUME GInv, Closed, NEW line \in TextLines,
         NEW part, NEW g, NEW k, IsAt(part, g, k), Has(part, line)
  PROVE  GroupsOf(line) = {g}
<1>1. g \in GroupsOf(line)
  BY HoldsAt
<1>2. ASSUME NEW h \in GroupsOf(line) PROVE h = g
  <2>1. PICK c, m : IsAt(c, h, m) /\ Has(c, line)
    BY HoldsAt
  <2>2. line[2] <= line[2]
    BY LineFacts
  <2>3. g \in Nat /\ h \in Nat
    BY <2>1, PlacesInOrder
  <2>4. g < h \/ g = h
    BY <2>1, <2>2, LinesInOrder
  <2>5. h < g \/ g = h
    BY <2>1, <2>2, LinesInOrder
  <2> QED
    BY <2>3, <2>4, <2>5
<1> QED
  BY <1>1, <1>2

\* Blocks that were placed in boxes are in the order of their elements.
LEMMA BoxesInOrder ==
  ASSUME BlocksInv, NEW b \in 1..Len(blocks), NEW c \in 1..Len(blocks),
         blocks[b].boxed, blocks[c].boxed, blocks[b].of < blocks[c].of
  PROVE  b < c
<1>1. /\ blocks[b].of \in 1..Len(document) /\ blocks[b] = Block(blocks[b].of)
      /\ blocks[c].of \in 1..Len(document) /\ blocks[c] = Block(blocks[c].of)
      /\ document \in Documents /\ Len(blocks) \in Nat
  BY BlockFacts DEF BlocksInv, Found
<1>2. /\ blocks[b].page = document[blocks[b].of].page /\ blocks[b].y = blocks[b].of
      /\ blocks[c].page = document[blocks[c].of].page /\ blocks[c].y = blocks[c].of
  <2>1. ASSUME NEW i, Block(i).boxed PROVE Block(i).page = document[i].page /\ Block(i).y = i
    BY <2>1 DEF Block
  <2> QED
    BY <1>1, <2>1
<1>3. Len(document) \in Nat
  BY <1>1, DocumentIs, SequenceFacts
<1>4. document[blocks[b].of].page <= document[blocks[c].of].page
  BY <1>1, <1>3, DocumentIs
<1>5. blocks[b].page \in Nat /\ blocks[c].page \in Nat
  BY BlockFacts DEF LaidOut
<1>6. Precedes(blocks[b], blocks[c])
  BY <1>2, <1>4, <1>5 DEF Precedes
<1>7. b # c /\ ~(c < b)
  BY <1>1, <1>3, <1>6 DEF BlocksInv
<1> QED
  BY <1>1, <1>7

LEMMA AlwaysGathered == RecordsSpec => []GInv
<1>1. GInv /\ [RecordsNext]_recordVars => GInv'
  BY GInvNext DEF RecordsNext, Prepare, Refuse, EmbedBatch, Attach, EmbedRaises, recordVars
<1>2. RecordsInit => GInv
  BY GInvInit DEF RecordsInit
<1> QED
  BY <1>1, <1>2, PTL DEF RecordsSpec

\* A line of the text is in exactly one clause, and clauses follow the document.
THEOREM LinesAreInOneClause == RecordsSpec => []EveryLineInOneClause
<1>1. GInv => EveryLineInOneClause
  <2> SUFFICES ASSUME GInv, Closed
               PROVE  /\ \A line \in TextLines : Cardinality(GroupsOf(line)) = 1
                      /\ \A p, q \in TextLines :
                           /\ blocks[p[1]].boxed /\ blocks[q[1]].boxed
                           /\ \/ blocks[p[1]].of < blocks[q[1]].of
                              \/ p[1] = q[1] /\ p[2] < q[2]
                           => \A g \in GroupsOf(p), h \in GroupsOf(q) : g <= h
    BY DEF EveryLineInOneClause, Grouped, Closed
  <2>1. ASSUME NEW line \in TextLines PROVE Cardinality(GroupsOf(line)) = 1
    <3>1. PICK part, g, k : IsAt(part, g, k) /\ Has(part, line)
      BY LineIsPlaced
    <3>2. GroupsOf(line) = {g}
      BY <3>1, OneGroup
    <3> QED
      BY <3>2, FS_Singleton
  <2>2. ASSUME NEW p \in TextLines, NEW q \in TextLines,
               blocks[p[1]].boxed, blocks[q[1]].boxed,
               \/ blocks[p[1]].of < blocks[q[1]].of
               \/ p[1] = q[1] /\ p[2] < q[2],
               NEW g \in GroupsOf(p), NEW h \in GroupsOf(q)
        PROVE  g <= h
    <3>1. PICK a, k : IsAt(a, g, k) /\ Has(a, p)
      BY HoldsAt
    <3>2. PICK c, m : IsAt(c, h, m) /\ Has(c, q)
      BY HoldsAt
    <3>3. p[1] < q[1] \/ (p[1] = q[1] /\ p[2] <= q[2])
      <4>1. p[2] \in Nat /\ q[2] \in Nat
        BY LineFacts
      <4>2. blocks[p[1]].of < blocks[q[1]].of => p[1] < q[1]
        BY <2>2, GroupedFacts, LineFacts, BoxesInOrder
      <4> QED
        BY <2>2, <4>1, <4>2
    <3>4. g < h \/ g = h
      BY <3>1, <3>2, <3>3, LinesInOrder
    <3>5. g \in Nat /\ h \in Nat
      BY <3>1, <3>2, PlacesInOrder
    <3> QED
      BY <3>4, <3>5
  <2> QED
    BY <2>1, <2>2
<1> QED
  BY <1>1, AlwaysGathered, PTL

LEMMA OpeningIs ==
  ASSUME NEW part, part.from \in Nat, part.to \in Nat, NEW i \in part.from..part.to,
         blocks[part.block].lines[i] # "blank",
         \A j \in part.from..(i - 1) : blocks[part.block].lines[j] = "blank"
  PROVE  Min(Printed(part)) = i /\ Opening(part) = blocks[part.block].lines[i]
<1> DEFINE S == Printed(part)
<1>1. i \in S /\ \A j \in S : j \in Int /\ i <= j
  BY DEF Printed
<1> HIDE DEF S
<1>2. Min(S) \in S /\ \A j \in S : Min(S) <= j
  BY <1>1 DEF Min
<1>3. Min(S) = i
  <2>1. Min(S) \in Int /\ i \in Int /\ i <= Min(S) /\ Min(S) <= i
    BY <1>1, <1>2
  <2> HIDE DEF S
  <2> QED
    BY <2>1
<1> QED
  BY <1>3 DEF Opening, S

\* Nothing but blank lines separates a number alone from the text it is the
\* number of, so that both are in one part.
LEMMA NumberAndText ==
  ASSUME GInv, Closed, NEW line \in TextLines,
         NEW part, NEW g, NEW k, IsAt(part, g, k), Has(part, line),
         NEW i, i \in (line[2] + 1)..Len(blocks[line[1]].lines),
         blocks[line[1]].lines[i] \in {"bare", "prose", "plain"},
         \A j \in (line[2] + 1)..(i - 1) : blocks[line[1]].lines[j] = "blank"
  PROVE  i \in Printed(part)
<1> DEFINE b == line[1]
           next == <<b, i>>
<1>1. /\ b \in 1..Len(blocks) /\ blocks[b].role # "noise" /\ b \in Nat
      /\ line[2] \in Nat /\ line[2] \in 1..Len(blocks[b].lines)
      /\ Len(blocks[b].lines) \in Nat /\ i \in Nat
  <2>1. Len(blocks) \in Nat /\ b \in 1..Len(blocks)
    BY GroupedFacts, BlockFacts, LineFacts
  <2>2. Len(blocks[b].lines) \in Nat
    BY <2>1, GroupedFacts, BlockFacts
  <2> QED
    BY <2>1, <2>2, LineFacts
<1>2. next \in TextLines /\ next[1] = b /\ next[2] = i
  BY <1>1, LineIsText
<1> HIDE DEF next
<1>3. PICK c, h, m : IsAt(c, h, m) /\ Has(c, next)
  BY <1>2, LineIsPlaced
<1>4. /\ IsPart(c) /\ c.from \in Nat /\ c.to \in Nat
      /\ part.from \in Nat /\ part.to \in Nat /\ part.block = b /\ c.block = b
  BY <1>2, <1>3, PartAt DEF Has
<1>5. ASSUME i > part.to PROVE FALSE
  <2>1. g < h \/ (g = h /\ k <= m)
    BY <1>1, <1>2, <1>3, LinesInOrder
  <2>2. c # part
    BY <1>2, <1>3, <1>4, <1>5 DEF Has
  <2>3. g \in Nat /\ h \in Nat /\ k \in Nat /\ m \in Nat
    BY <1>3, PlacesInOrder
  <2>4. g < h \/ (g = h /\ k < m)
    BY <1>3, <2>1, <2>2, <2>3 DEF IsAt
  <2>5. Earlier(part, c)
    BY <1>3, <2>4, PlacesInOrder
  <2>6. c.from \in (line[2] + 1)..i
    BY <1>1, <1>2, <1>3, <1>4, <2>5 DEF Earlier, Has
  <2>7. Starts(b, c.from)
    BY <1>1, <1>4, <2>6 DEF IsPart
  <2>8. blocks[b].lines[c.from] \in {"bare", "prose", "plain", "blank"}
    BY <1>1, <1>4, <2>6
  <2> QED
    BY <2>7, <2>8 DEF Starts, line_starts_clause
<1>6. i \in part.from..part.to
  BY <1>1, <1>4, <1>5 DEF Has
<1> QED
  BY <1>4, <1>6 DEF Printed

\* A line with a marker is the opening of its part.
LEMMA MarkerOpensPart ==
  ASSUME GInv, Closed, NEW line \in TextLines, ~blocks[line[1]].table, MarksClause(line),
         NEW part, NEW g, NEW k, IsAt(part, g, k), Has(part, line)
  PROVE  Min(Printed(part)) = line[2] /\ Marked(part)
<1> DEFINE lines == blocks[line[1]].lines
<1>1. /\ IsPart(part) /\ part.from \in Nat /\ part.to \in Nat /\ 1 <= part.from
      /\ part.block = line[1] /\ line[2] \in part.from..part.to
      /\ line[2] \in Nat /\ lines[line[2]] # "blank"
  BY PartAt, LineFacts DEF Has
<1>2. CASE lines[line[2]] \in {"numbered", "title"}
  <2>1. line[2] = part.from
    <3>1. Starts(part.block, line[2]) /\ ~blocks[part.block].table
      BY <1>1, <1>2 DEF Starts, line_starts_clause
    <3> QED
      BY <1>1, <3>1 DEF IsPart
  <2>2. Min(Printed(part)) = line[2] /\ Opening(part) = lines[line[2]]
    BY <1>1, <2>1, OpeningIs
  <2> QED
    BY <1>1, <1>2, <2>2 DEF Marked
<1>3. CASE /\ lines[line[2]] = "bare"
           /\ \A i \in 1..(line[2] - 1) : lines[i] = "blank"
           /\ \E i \in (line[2] + 1)..Len(lines) :
                /\ lines[i] \in {"bare", "prose", "plain"}
                /\ \A j \in (line[2] + 1)..(i - 1) : lines[j] = "blank"
  <2>1. Min(Printed(part)) = line[2] /\ Opening(part) = lines[line[2]]
    <3>1. \A j \in part.from..(line[2] - 1) : j \in 1..(line[2] - 1)
      BY <1>1
    <3>2. \A j \in part.from..(line[2] - 1) : blocks[part.block].lines[j] = "blank"
      BY <1>1, <1>3, <3>1
    <3> QED
      BY <1>1, <3>2, OpeningIs
  <2>2. PICK i \in (line[2] + 1)..Len(lines) :
               /\ lines[i] \in {"bare", "prose", "plain"}
               /\ \A j \in (line[2] + 1)..(i - 1) : lines[j] = "blank"
    BY <1>3
  <2>3. i \in Printed(part)
    BY <2>2, NumberAndText
  <2>4. i # line[2]
    BY <1>1, <2>2
  <2> QED
    BY <1>1, <1>3, <2>1, <2>3, <2>4 DEF Marked
<1> QED
  BY <1>2, <1>3 DEF MarksClause

\* A line that begins with its clause number, a title, and a number that heads
\* its block is the first line of its clause, however coarse the paragraphs are.
THEOREM NumbersOpenClauses == RecordsSpec => []NumberedLinesOpen
<1>1. GInv => NumberedLinesOpen
  <2> SUFFICES ASSUME GInv, Closed, NEW line \in TextLines,
                      ~blocks[line[1]].table, MarksClause(line),
                      NEW g \in GroupsOf(line), NEW other \in TextLines,
                      Holds(groups[g], other), other # line
               PROVE  other[1] > line[1] \/ (other[1] = line[1] /\ other[2] > line[2])
    BY DEF NumberedLinesOpen, Grouped, Closed
  <2>1. PICK part, k : IsAt(part, g, k) /\ Has(part, line)
    BY HoldsAt
  <2>2. g \in 1..Len(groups)
    BY HoldsAt
  <2>3. PICK c, m : IsAt(c, g, m) /\ Has(c, other)
    BY <2>2, HoldsAt
  <2>4. /\ part.from \in Nat /\ part.to \in Nat /\ c.from \in Nat /\ c.to \in Nat
    BY <2>1, <2>3, PartAt
  <2>5. Min(Printed(part)) = line[2] /\ Marked(part)
    BY <2>1, MarkerOpensPart
  <2>6. k = 1 /\ m \in Nat \ {0}
    <3>1. OpenedByMarkers(groups)
      BY GroupedFacts DEF Gathered
    <3>2. k \in 1..Len(groups[g].parts) /\ m \in 1..Len(groups[g].parts)
          /\ Len(groups[g].parts) \in Nat
      BY <2>1, <2>3, GroupedFacts DEF IsAt
    <3>3. k \notin 2..Len(groups[g].parts)
      BY <2>1, <2>5, <3>1 DEF OpenedByMarkers, IsAt
    <3> QED
      BY <3>2, <3>3
  <2>7. /\ line[1] \in Nat /\ line[2] \in Nat /\ other[1] \in Nat /\ other[2] \in Nat
        /\ line = <<line[1], line[2]>> /\ other = <<other[1], other[2]>>
    <3>1. Len(blocks) \in Nat
      BY GroupedFacts, BlockFacts
    <3> QED
      BY <3>1, LineFacts
  <2>8. CASE m = 1
    <3>1. c = part
      BY <2>1, <2>3, <2>6, <2>8 DEF IsAt
    <3>2. other[1] = line[1]
      BY <2>1, <2>3, <3>1 DEF Has
    <3>3. other[2] \in Printed(part)
      BY <2>3, <3>1, LineFacts DEF Has, Printed
    <3>4. other[2] >= line[2]
      <4> DEFINE S == Printed(part)
      <4>1. S \subseteq Nat /\ other[2] \in S
        BY <2>4, <3>3 DEF Printed
      <4> HIDE DEF S
      <4>2. PICK x \in S : \A y \in S : x <= y
        BY <4>1, LeastElement
      <4>3. \A y \in S : Min(S) <= y
        BY <4>2 DEF Min
      <4> QED
        BY <2>5, <4>1, <4>3 DEF S
    <3>5. other[2] # line[2]
      BY <2>7, <3>2
    <3> QED
      BY <2>7, <3>2, <3>4, <3>5
  <2>9. CASE m # 1
    <3>1. Earlier(part, c)
      BY <2>1, <2>3, <2>6, <2>9, PlacesInOrder
    <3> QED
      BY <2>1, <2>3, <2>4, <2>7, <3>1 DEF Earlier, Has
  <2> QED
    BY <2>8, <2>9
<1> QED
  BY <1>1, AlwaysGathered, PTL

\* Only a line that opens a clause, or the first part of a block, begins a clause.
THEOREM OnlyMarkersCut == RecordsSpec => []CutsAreAtMarkers
<1>1. GInv => CutsAreAtMarkers
  <2> SUFFICES ASSUME GInv, Closed, NEW g \in DOMAIN groups,
                      NEW part, part = groups[g].parts[1]
               PROVE  /\ part.first \/ Opening(part) \in {"numbered", "counted", "title"}
                      /\ blocks[part.block].table => g = 1
    BY DEF CutsAreAtMarkers, Grouped, Closed
  <2>1. g \in 1..Len(groups) /\ IsAt(part, g, 1)
    BY GroupedFacts DEF IsAt
  <2>2. IsPart(part) /\ part.from \in Nat /\ part.to \in Nat /\ part.from <= part.to
    BY <2>1, PartAt
  <2>3. part.first \/ Opening(part) \in {"numbered", "counted", "title"}
    <3>1. CASE Starts(part.block, part.from)
      <4>1. blocks[part.block].lines[part.from] \in {"numbered", "counted", "title"}
        BY <3>1 DEF Starts, line_starts_clause
      <4>2. part.from \in part.from..part.to /\ part.from..(part.from - 1) = {}
        BY <2>2
      <4>3. Opening(part) = blocks[part.block].lines[part.from]
        BY <2>2, <4>1, <4>2, OpeningIs
      <4> QED
        BY <4>1, <4>3
    <3> QED
      BY <2>2, <3>1 DEF IsPart
  <2>4. ASSUME g # 1 PROVE ~blocks[part.block].table
    <3>1. g \in 2..Len(groups)
      BY <2>1, <2>4, GroupedFacts
    <3>2. Marked(part)
      BY <3>1, GroupedFacts DEF Gathered, OpenedByMarkers
    <3> QED
      BY <3>2 DEF Marked
  <2> QED
    BY <2>3, <2>4
<1> QED
  BY <1>1, AlwaysGathered, PTL

\* Between an element and the next one, both in boxes on one page, nothing is put.
LEMMA NothingBetween ==
  ASSUME BlocksInv, NEW b \in 1..Len(blocks), NEW c \in 1..Len(blocks),
         blocks[b].boxed, blocks[c].boxed, blocks[b].of + 1 = blocks[c].of,
         blocks[b].page = blocks[c].page,
         NEW d \in 1..Len(blocks), b < d, d < c
  PROVE  FALSE
<1>1. /\ blocks[b].of \in 1..Len(document) /\ blocks[b] = Block(blocks[b].of)
      /\ blocks[c].of \in 1..Len(document) /\ blocks[c] = Block(blocks[c].of)
      /\ blocks[d].of \in 1..Len(document) /\ blocks[d] = Block(blocks[d].of)
      /\ document \in Documents
  BY DEF BlocksInv, Found
<1>2. /\ blocks[b].y = blocks[b].of /\ blocks[c].y = blocks[c].of
      /\ blocks[d].y \in {0, blocks[d].of}
  <2>1. ASSUME NEW i PROVE Block(i).y \in {0, i} /\ (Block(i).boxed => Block(i).y = i)
    BY DEF Block
  <2> QED
    BY <1>1, <2>1
<1>3. /\ blocks[b].page \in Nat /\ blocks[d].page \in Nat /\ blocks[c].page \in Nat
      /\ blocks[b].y \in Nat /\ blocks[d].y \in Nat /\ blocks[c].y \in Nat
  BY BlockFacts DEF LaidOut
<1>4. ~Precedes(blocks[d], blocks[b]) /\ ~Precedes(blocks[c], blocks[d])
  BY DEF BlocksInv
<1>5. blocks[b].y <= blocks[d].y /\ blocks[d].y <= blocks[c].y
  BY <1>3, <1>4 DEF Precedes
<1>6. Len(document) \in Nat
  BY <1>1, DocumentIs, SequenceFacts
<1>7. blocks[d].of = blocks[b].of \/ blocks[d].of = blocks[c].of
  BY <1>1, <1>2, <1>5, <1>6
<1>8. b # d /\ c # d
  BY BlockFacts
<1> QED
  BY <1>7, <1>8 DEF BlocksInv, Found

\* A table stays with the clause that the text above it ends in.
THEOREM TablesStay == RecordsSpec => []TablesFollowTheirClause
<1>1. GInv => TablesFollowTheirClause
  <2> SUFFICES ASSUME GInv, Closed, NEW p \in TextLines, NEW q \in TextLines,
                      blocks[p[1]].boxed, blocks[q[1]].boxed,
                      blocks[q[1]].table, blocks[p[1]].of + 1 = blocks[q[1]].of,
                      blocks[p[1]].page = blocks[q[1]].page,
                      \A line \in TextLines : line[1] = p[1] => line[2] <= p[2]
               PROVE  GroupsOf(p) = GroupsOf(q)
    BY DEF TablesFollowTheirClause, Grouped, Closed
  <2> DEFINE b == p[1]
             c == q[1]
  <2>1. /\ BlocksInv /\ b \in 1..Len(blocks) /\ c \in 1..Len(blocks) /\ Len(blocks) \in Nat
        /\ b \in Nat /\ c \in Nat /\ p[2] \in Nat /\ blocks[b].role # "noise"
    <3>1. BlocksInv /\ Len(blocks) \in Nat
      BY GroupedFacts, BlockFacts
    <3> QED
      BY <3>1, LineFacts
  <2>2. b < c
    <3>1. blocks[b].of \in 1..Len(document) /\ Len(document) \in Nat
      BY <2>1, DocumentIs, SequenceFacts DEF BlocksInv, Found
    <3>2. blocks[b].of < blocks[c].of
      BY <3>1
    <3> QED
      BY <2>1, <3>2, BoxesInOrder
  <2>3. PICK a, g, k : IsAt(a, g, k) /\ Has(a, p)
    BY LineIsPlaced
  <2>4. PICK e, h, m : IsAt(e, h, m) /\ Has(e, q)
    BY LineIsPlaced
  <2>5. GroupsOf(p) = {g} /\ GroupsOf(q) = {h}
    BY <2>3, <2>4, OneGroup
  <2>6. g < h \/ g = h
    BY <2>2, <2>3, <2>4, LinesInOrder
  <2>7. ASSUME g < h PROVE FALSE
    <3>1. /\ g \in Nat \ {0} /\ h \in 2..Len(groups)
          /\ m \in 1..Len(groups[h].parts) /\ Len(groups[h].parts) \in Nat \ {0}
      BY <2>3, <2>4, <2>7, GroupedFacts DEF IsAt
    <3>2. e.block = c /\ e.from = 1 /\ ~Marked(e)
      BY <2>4, PartAt DEF IsPart, Has, Marked
    <3>3. m # 1
      BY <2>4, <3>1, <3>2, GroupedFacts DEF Gathered, OpenedByMarkers, IsAt
    <3> DEFINE x == groups[h].parts[1]
    <3>4. IsAt(x, h, 1)
      BY <2>4, <3>1 DEF IsAt
    <3> HIDE DEF x
    <3>5. /\ x.block \in 1..Len(blocks) /\ x.block \in Nat /\ x.from \in Nat /\ x.to \in Nat
          /\ 1 <= x.from /\ x.from <= x.to /\ x.to <= Len(blocks[x.block].lines) /\ ~Blank(x)
      BY <2>1, <3>4, PartAt
    <3>6. Earlier(a, x)
      BY <2>3, <2>7, <3>4, PlacesInOrder
    <3>7. Earlier(x, e)
      <4>1. 1 < m
        BY <3>1, <3>3
      <4> QED
        BY <2>4, <3>4, <4>1, PlacesInOrder
    <3>8. x.block < c /\ b <= x.block
      BY <2>1, <2>3, <3>2, <3>5, <3>6, <3>7 DEF Earlier, Has
    <3>9. x.block = b
      <4>1. ~(b < x.block)
        BY <2>1, <3>5, <3>8, NothingBetween
      <4> QED
        BY <2>1, <3>5, <3>8, <4>1
    <3>10. PICK i : i \in x.from..x.to /\ blocks[b].lines[i] # "blank"
      BY <3>5, <3>9 DEF Blank, Printed
    <3>11. <<b, i>> \in TextLines
      <4>1. Len(blocks[b].lines) \in Nat
        BY <2>1, BlockFacts
      <4>2. i \in 1..Len(blocks[b].lines)
        BY <3>5, <3>9, <3>10, <4>1
      <4> QED
        BY <2>1, <3>10, <4>2, LineIsText
    <3>12. i <= p[2]
      <4>1. <<b, i>>[1] = p[1] /\ <<b, i>>[2] = i
        OBVIOUS
      <4> QED
        BY <3>11, <4>1
    <3>13. p[2] <= a.to /\ a.to < x.from /\ a.to \in Nat /\ a.from \in Nat
      BY <2>1, <2>3, <3>6, <3>9, PartAt DEF Earlier, Has
    <3> QED
      BY <2>1, <3>5, <3>10, <3>12, <3>13
  <2> QED
    BY <2>5, <2>6, <2>7
<1> QED
  BY <1>1, AlwaysGathered, PTL

-----------------------------------------------------------------------------
(* The chunks.                                                              *)

\* A chunk has the page of its group, and the first of a group's chunks its box.
Cites(i) ==
  LET group == groups[chunks[i].group]
  IN /\ chunks[i].group \in 1..Len(groups)
     /\ chunks[i].page = Page(group)
     /\ chunks[i].box \in {NoBox, MergedBox(group)}
     /\ \E j \in 1..i : /\ chunks[j].group = chunks[i].group
                        /\ chunks[j].box = MergedBox(group)

LEMMA CitesStay ==
  ASSUME UNCHANGED <<blocks, groups, chunks>>
  PROVE  \A i : Cites(i)' = Cites(i)
BY DEF Cites, Page, MergedBox

\* Inductive with GInv and RInv: every chunk cites its group.
CInv ==
  /\ chunked \in Nat
  /\ pc \notin {"chunk", "split", "chunks"} => chunks = <<>>
  /\ pc = "split" => chunked < Len(groups) /\ (splitting = "done" => windows # <<>>)
  /\ \A i \in 1..Len(chunks) : Cites(i)

LEMMA CInvInit == RecordsInit => CInv
<1>1. Len(<<>>) = 0
  OBVIOUS
<1> QED
  BY <1>1 DEF RecordsInit, Init, CInv

LEMMA CInvEndSplit ==
  ASSUME GInv, RInv, CInv, EndSplit
  PROVE  CInv'
<1> DEFINE n == Len(windows)
           g == chunked + 1
           t == [w \in 1..n |->
                  [ordinal |-> Ordinal(w), group |-> g, page |-> Page(groups[g]),
                   box |-> IF w = 1 THEN MergedBox(groups[g]) ELSE NoBox]]
<1>1. n \in Nat \ {0} /\ DOMAIN windows = 1..n
  BY SequenceFacts DEF RInv, CInv, EndSplit
<1>2. /\ chunks' = chunks \o t /\ chunked' = g /\ pc' = "chunk"
      /\ UNCHANGED <<blocks, groups>>
  BY <1>1 DEF EndSplit, layoutVars, groupVars
<1>3. chunked \in Nat /\ g \in 1..Len(groups)
  <2>1. Len(groups) \in Nat
    BY GroupedFacts DEF Closed, EndSplit
  <2> QED
    BY <2>1 DEF CInv, EndSplit
<1>4. IsSequence(t) /\ Len(t) = n
  <2>1. t = [w \in 1..n |-> t[w]]
    OBVIOUS
  <2> HIDE DEF t, n
  <2> QED
    BY <1>1, <2>1, FunctionIsSequence
<1>5. \A w \in 1..n : /\ t[w].group = g /\ t[w].page = Page(groups[g])
                      /\ t[w].box = IF w = 1 THEN MergedBox(groups[g]) ELSE NoBox
  OBVIOUS
<1> HIDE DEF t, n
<1>6. IsSequence(chunks) /\ Len(chunks) \in Nat
  BY SequenceFacts DEF RInv
<1>7. Joins(chunks', chunks, t)
  BY <1>2, <1>4, <1>6, ConcatJoins
<1> DEFINE c == chunks'
           l == Len(chunks)
<1>8. /\ Len(c) = l + n
      /\ \A i \in 1..l : c[i] = chunks[i]
      /\ \A w \in 1..n : c[l + w] = t[w]
  BY <1>4, <1>7 DEF Joins
<1> HIDE DEF c, l
<1>9. l \in Nat
  BY <1>6 DEF l
<1>10. ASSUME NEW i \in 1..Len(c)
       PROVE  /\ c[i].group \in 1..Len(groups)
              /\ c[i].page = Page(groups[c[i].group])
              /\ c[i].box \in {NoBox, MergedBox(groups[c[i].group])}
              /\ \E j \in 1..i : /\ c[j].group = c[i].group
                                 /\ c[j].box = MergedBox(groups[c[i].group])
  <2>1. CASE i <= l
    <3>1. i \in 1..l
      BY <1>9, <2>1
    <3>2. \A j \in 1..i : c[j] = chunks[j]
      BY <1>8, <1>9, <3>1
    <3>3. i \in 1..i
      BY <3>1
    <3> QED
      BY <3>1, <3>2, <3>3 DEF CInv, Cites, l
  <2>2. CASE i > l
    <3>1. i - l \in 1..n /\ l + (i - l) = i /\ 1 \in 1..n /\ l + 1 \in 1..i
      BY <1>1, <1>8, <1>9, <2>2
    <3>2. c[i] = t[i - l] /\ c[l + 1] = t[1]
      BY <1>8, <3>1
    <3>3. c[l + 1].group = g /\ c[l + 1].box = MergedBox(groups[g])
      BY <1>5, <3>1, <3>2
    <3>4. c[i].group = g /\ c[i].page = Page(groups[g])
          /\ c[i].box \in {NoBox, MergedBox(groups[g])}
      BY <1>5, <3>1, <3>2
    <3> QED
      BY <1>3, <3>1, <3>3, <3>4
  <2> QED
    BY <1>9, <2>1, <2>2
<1>11. ASSUME NEW i \in 1..Len(chunks') PROVE Cites(i)'
  <2>1. /\ c[i].group \in 1..Len(groups)
        /\ c[i].page = Page(groups[c[i].group])
        /\ c[i].box \in {NoBox, MergedBox(groups[c[i].group])}
        /\ \E j \in 1..i : /\ c[j].group = c[i].group
                           /\ c[j].box = MergedBox(groups[c[i].group])
    BY <1>10 DEF c
  <2>2. c = chunks' /\ groups' = groups /\ blocks' = blocks
    BY <1>2 DEF c
  <2> HIDE DEF c
  <2>3. Page(groups[chunks[i].group])' = Page(groups[c[i].group])
    BY <2>2 DEF Page
  <2>4. MergedBox(groups[chunks[i].group])' = MergedBox(groups[c[i].group])
    BY <2>2 DEF MergedBox, NoBox
  <2> QED
    BY <2>1, <2>2, <2>3, <2>4 DEF Cites
<1> QED
  BY <1>2, <1>3, <1>11 DEF CInv

LEMMA CInvNext == GInv /\ RInv /\ CInv /\ [RecordsNext]_recordVars => CInv'
<1> SUFFICES ASSUME GInv, RInv, CInv, [RecordsNext]_recordVars PROVE CInv'
  OBVIOUS
<1>1. CASE Analyze \/ Explode \/ Group \/ CloseLast
  <2>1. UNCHANGED <<chunks, chunked>> /\ chunks = <<>> /\ pc' # "split"
    BY <1>1 DEF CInv, Analyze, Explode, Group, CloseLast, chunkVars
  <2>2. Len(chunks) = 0
    BY <2>1
  <2> QED
    BY <2>1, <2>2 DEF CInv
<1>2. CASE ChunkGroup
  <2>1. /\ UNCHANGED <<blocks, groups, chunks>> /\ pc = "chunk" /\ chunked < Len(groups)
        /\ \/ chunked' = chunked + 1 /\ pc' = "chunk"
           \/ chunked' = chunked /\ pc' = "split" /\ splitting' = "cutting"
    BY <1>2 DEF ChunkGroup, Call, layoutVars, groupVars
  <2> QED
    BY <2>1, CitesStay DEF CInv
<1>3. CASE Split
  <2>1. /\ UNCHANGED <<blocks, groups, chunks, chunked, pc>> /\ pc = "split"
        /\ LeaveWhole \/ Cut
    BY <1>3 DEF Split, layoutVars, groupVars, chunkVars
  <2>2. windows' # <<>>
    <3>1. CASE LeaveWhole
      BY <3>1 DEF LeaveWhole
    <3>2. CASE Cut
      <4>1. PICK e : windows' = Append(windows, e)
        BY <3>2 DEF Cut
      <4>2. EndsWith(windows', windows, e)
        BY <4>1, Appended DEF RInv
      <4> QED
        BY <4>2, SequenceFacts DEF EndsWith
    <3> QED
      BY <2>1, <3>1, <3>2
  <2> QED
    BY <2>1, <2>2, CitesStay DEF CInv
<1>4. CASE Return \/ UNCHANGED vars
  <2>1. /\ UNCHANGED <<blocks, groups, chunks, chunked, windows, splitting>>
        /\ pc' = pc \/ (pc = "chunk" /\ pc' = "chunks")
    BY <1>4 DEF Return, vars, layoutVars, groupVars, chunkVars, splitVars
  <2> QED
    BY <2>1, CitesStay DEF CInv
<1>5. Next \/ UNCHANGED vars
  BY DEF RecordsNext, Prepare, Refuse, EmbedBatch, Attach, EmbedRaises, recordVars
<1> QED
  BY <1>1, <1>2, <1>3, <1>4, <1>5, CInvEndSplit DEF Next

\* A block with a box is as high on the page as its element is in the document.
LEMMA HeightIs ==
  ASSUME BlocksInv, NEW b \in 1..Len(blocks)
  PROVE  /\ blocks[b].of \in 1..Len(document) /\ Len(document) \in Nat
         /\ blocks[b].boxed => blocks[b].y = blocks[b].of
         /\ document[blocks[b].of].placed # "nowhere" =>
              blocks[b].page = document[blocks[b].of].page
         /\ \A c \in 1..Len(blocks) : blocks[c].of = blocks[b].of => c = b
<1>1. blocks[b].of \in 1..Len(document) /\ blocks[b] = Block(blocks[b].of)
  BY DEF BlocksInv, Found
<1>2. ASSUME NEW i
      PROVE  /\ Block(i).boxed => Block(i).y = i
             /\ document[i].placed # "nowhere" => Block(i).page = document[i].page
  BY DEF Block
<1>3. Len(document) \in Nat
  BY DocumentIs, SequenceFacts DEF BlocksInv
<1>4. \A c \in 1..Len(blocks) : blocks[c].of = blocks[b].of => c = b
  BY DEF BlocksInv, Found
<1> QED
  BY <1>1, <1>2, <1>3, <1>4

BlockAt(g, k) == groups[g].parts[k].block

BoxOf(g, k) == blocks[groups[g].parts[k].block]

\* The box of a group runs from one of its blocks to another, around all that
\* are on the page of its first block with a box.
LEMMA MergedBoxIs ==
  ASSUME GInv, Closed, NEW g \in 1..Len(groups), NEW box, box = MergedBox(groups[g])
  PROVE  \/ box = NoBox /\ \A k \in 1..Len(groups[g].parts) : ~BoxOf(g, k).boxed
         \/ /\ box # NoBox
            /\ \E k \in 1..Len(groups[g].parts) :
                 BoxOf(g, k).boxed /\ BoxOf(g, k).page = box.page /\ BoxOf(g, k).y = box.top
            /\ \E k \in 1..Len(groups[g].parts) :
                 BoxOf(g, k).boxed /\ BoxOf(g, k).page = box.page /\ BoxOf(g, k).y = box.bottom
            /\ \A k \in 1..Len(groups[g].parts) :
                 BoxOf(g, k).boxed /\ BoxOf(g, k).page = box.page => Shows(box, BoxOf(g, k))
            /\ BoxOf(g, 1).boxed => box.page = BoxOf(g, 1).page
<1> DEFINE n == Len(groups[g].parts)
           boxed == {k \in 1..n : BoxOf(g, k).boxed}
           page == BoxOf(g, Min(boxed)).page
           heights == {BoxOf(g, k).y : k \in {j \in boxed : BoxOf(g, j).page = page}}
<1>1. DOMAIN groups[g].parts = 1..n /\ n \in Nat \ {0}
  BY GroupedFacts
<1>2. box = IF boxed = {} THEN NoBox
            ELSE [page |-> page, top |-> Min(heights), bottom |-> Max(heights)]
  BY <1>1 DEF MergedBox, BoxOf
<1>3. Len(document) \in Nat /\
      \A k \in 1..n : BoxOf(g, k).boxed => BoxOf(g, k).y \in 1..Len(document)
  <2>1. ASSUME NEW k \in 1..n
        PROVE  /\ Len(document) \in Nat
               /\ BoxOf(g, k).boxed => BoxOf(g, k).y \in 1..Len(document)
    <3>1. IsAt(groups[g].parts[k], g, k)
      BY <2>1 DEF IsAt
    <3>2. groups[g].parts[k].block \in 1..Len(blocks)
      BY <3>1, PartAt
    <3> QED
      BY <3>2, HeightIs, GroupedFacts DEF BoxOf
  <2> QED
    BY <1>1, <2>1
<1>4. CASE boxed = {}
  BY <1>2, <1>4
<1>5. CASE boxed # {}
  <2>1. Min(boxed) \in boxed /\ \A k \in boxed : Min(boxed) <= k
    <3>1. boxed \in SUBSET Nat
      BY <1>1
    <3> HIDE DEF boxed
    <3>2. \E m \in boxed : \A k \in boxed : m <= k
      BY <1>5, <3>1, LeastElement
    <3> QED
      BY <3>2 DEF Min
  <2>2. heights \in SUBSET (1..Len(document)) /\ heights # {}
    <3>1. Min(boxed) \in {j \in boxed : BoxOf(g, j).page = page}
      BY <2>1
    <3> QED
      BY <1>3, <3>1
  <2>3. /\ box.page = page /\ box.top = Min(heights) /\ box.bottom = Max(heights)
    <3> HIDE DEF boxed, page, heights
    <3> QED
      BY <1>2, <1>5
  <2>4. \A k \in 1..n : BoxOf(g, k).boxed /\ BoxOf(g, k).page = page => BoxOf(g, k).y \in heights
    OBVIOUS
  <2>5. \A y \in heights : \E k \in 1..n :
          BoxOf(g, k).boxed /\ BoxOf(g, k).page = page /\ BoxOf(g, k).y = y
    OBVIOUS
  <2>6. BoxOf(g, 1).boxed => page = BoxOf(g, 1).page
    <3> SUFFICES ASSUME BoxOf(g, 1).boxed PROVE Min(boxed) = 1
      OBVIOUS
    <3>1. 1 \in boxed /\ \A k \in boxed : k \in Int /\ 1 <= k
      BY <1>1
    <3> HIDE DEF boxed
    <3>2. Min(boxed) \in Int /\ Min(boxed) <= 1 /\ 1 <= Min(boxed)
      BY <2>1, <3>1
    <3> QED
      BY <3>2
  <2> HIDE DEF boxed, page, heights
  <2>7. /\ Min(heights) \in heights /\ Max(heights) \in heights
        /\ \A y \in heights : Min(heights) <= y /\ y <= Max(heights)
    <3>1. Max(heights) \in heights /\ \A y \in heights : Max(heights) >= y
      BY <1>3, <2>2, MaxIsGreatest
    <3>2. heights \in SUBSET Nat
      BY <1>3, <2>2
    <3>3. \E m \in heights : \A y \in heights : m <= y
      BY <2>2, <3>2, LeastElement
    <3>4. Min(heights) \in heights /\ \A y \in heights : Min(heights) <= y
      BY <3>3 DEF Min
    <3> QED
      BY <3>1, <3>2, <3>4
  <2>8. box # NoBox
    <3>1. box.top # 0
      BY <1>3, <2>2, <2>3, <2>7
    <3> QED
      BY <3>1 DEF NoBox
  <2>9. ASSUME NEW k \in 1..n, BoxOf(g, k).boxed, BoxOf(g, k).page = page
        PROVE  Shows(box, BoxOf(g, k))
    <3>1. BoxOf(g, k).y \in heights
      BY <2>4, <2>9
    <3>2. \A y \in heights : y \in Nat
      BY <1>3, <2>2
    <3>3. /\ Min(heights) \in Nat /\ Max(heights) \in Nat /\ BoxOf(g, k).y \in Nat
          /\ Min(heights) <= BoxOf(g, k).y /\ BoxOf(g, k).y <= Max(heights)
      BY <2>7, <3>1, <3>2
    <3> QED
      BY <2>3, <2>9, <3>3 DEF Shows
  <2> QED
    BY <2>3, <2>5, <2>6, <2>7, <2>8, <2>9
<1> QED
  BY <1>4, <1>5

\* What lies between two blocks of a clause, all of them in boxes, is of that
\* clause.
LEMMA BetweenIsInGroup ==
  ASSUME GInv, Closed, NEW g, NEW p, NEW k, IsAt(p, g, k), NEW q, NEW m, IsAt(q, g, m),
         NEW line \in TextLines, blocks[line[1]].boxed,
         blocks[p.block].boxed, blocks[q.block].boxed,
         blocks[p.block].of < blocks[line[1]].of, blocks[line[1]].of < blocks[q.block].of
  PROVE  GroupsOf(line) = {g}
<1>1. PICK c, h, x : IsAt(c, h, x) /\ Has(c, line)
  BY LineIsPlaced
<1>2. /\ BlocksInv /\ p.block \in 1..Len(blocks) /\ q.block \in 1..Len(blocks)
      /\ line[1] \in 1..Len(blocks) /\ Len(blocks) \in Nat /\ c.block = line[1]
  BY <1>1, GroupedFacts, PartAt, LineFacts, BlockFacts DEF Has
<1>3. p.block < c.block /\ c.block < q.block
  BY <1>2, BoxesInOrder
<1>4. ~Earlier(c, p) /\ ~Earlier(q, c)
  BY <1>2, <1>3 DEF Earlier
<1>5. g \in Nat /\ h \in Nat
  BY <1>1, PlacesInOrder
<1>6. ~(h < g) /\ ~(g < h)
  BY <1>1, <1>4, PlacesInOrder
<1>7. h = g
  BY <1>5, <1>6
<1> QED
  BY <1>1, <1>7, OneGroup

\* A box shows blocks of its clause, and shares its first and last at most.
LEMMA ShownIsOwn ==
  ASSUME GInv, Closed, NEW g \in 1..Len(groups), NEW box, box \in {NoBox, MergedBox(groups[g])},
         NEW line \in TextLines, Shows(box, blocks[line[1]])
  PROVE  /\ \E k \in 1..Len(groups[g].parts) : groups[g].parts[k].block = line[1]
         /\ GroupsOf(line) = {g} \/ blocks[line[1]].y \in {box.top, box.bottom}
<1> DEFINE b == line[1]
           n == Len(groups[g].parts)
<1>0. \A c, d \in 1..Len(blocks) :
        /\ blocks[c].boxed => blocks[c].y = blocks[c].of /\ blocks[c].of \in Nat
        /\ blocks[c].of = blocks[d].of => c = d
  <2> SUFFICES ASSUME NEW c \in 1..Len(blocks), NEW d \in 1..Len(blocks)
               PROVE  /\ blocks[c].boxed => blocks[c].y = blocks[c].of /\ blocks[c].of \in Nat
                      /\ blocks[c].of = blocks[d].of => c = d
    OBVIOUS
  <2> QED
    BY GroupedFacts, HeightIs
<1>1. /\ BlocksInv /\ b \in 1..Len(blocks)
      /\ blocks[b].of \in Nat \ {0} /\ blocks[b].y = blocks[b].of /\ blocks[b].boxed
  <2>1. BlocksInv /\ b \in 1..Len(blocks)
    BY GroupedFacts, LineFacts
  <2> QED
    BY <2>1, HeightIs DEF Shows
<1>2. box # NoBox
  BY <1>1 DEF Shows, NoBox
<1>3. PICK k \in 1..n : BoxOf(g, k).boxed /\ BoxOf(g, k).page = box.page /\ BoxOf(g, k).y = box.top
  BY <1>2, MergedBoxIs
<1>4. PICK m \in 1..n : BoxOf(g, m).boxed /\ BoxOf(g, m).page = box.page /\ BoxOf(g, m).y = box.bottom
  BY <1>2, MergedBoxIs
<1> DEFINE p == groups[g].parts[k]
           q == groups[g].parts[m]
<1>5. IsAt(p, g, k) /\ IsAt(q, g, m)
  BY DEF IsAt
<1> HIDE DEF p, q
<1>6. p.block \in 1..Len(blocks) /\ q.block \in 1..Len(blocks)
  BY <1>5, PartAt
<1>7. /\ blocks[p.block].boxed /\ blocks[p.block].of = box.top /\ box.top \in Nat
      /\ blocks[q.block].boxed /\ blocks[q.block].of = box.bottom /\ box.bottom \in Nat
  <2>1. blocks[p.block].boxed /\ blocks[p.block].y = box.top
    BY <1>3 DEF p, BoxOf
  <2>2. blocks[q.block].boxed /\ blocks[q.block].y = box.bottom
    BY <1>4 DEF q, BoxOf
  <2> QED
    BY <1>0, <1>6, <2>1, <2>2
<1>8. blocks[b].of \in box.top..box.bottom
  BY <1>1 DEF Shows
<1>9. CASE blocks[b].of = box.top
  <2>1. p.block = b
    BY <1>0, <1>1, <1>6, <1>7, <1>9
  <2> QED
    BY <1>1, <1>9, <2>1 DEF p
<1>10. CASE blocks[b].of = box.bottom
  <2>1. q.block = b
    BY <1>0, <1>1, <1>6, <1>7, <1>10
  <2> QED
    BY <1>1, <1>10, <2>1 DEF q
<1>11. CASE box.top < blocks[b].of /\ blocks[b].of < box.bottom
  <2>1. GroupsOf(line) = {g}
    BY <1>1, <1>5, <1>7, <1>11, BetweenIsInGroup
  <2>2. PICK c, x : IsAt(c, g, x) /\ Has(c, line)
    BY <2>1, HoldsAt
  <2> QED
    BY <2>1, <2>2 DEF IsAt, Has
<1> QED
  BY <1>7, <1>8, <1>9, <1>10, <1>11

\* A citation leads to where its clause opens.
THEOREM CitationsLeadHome == RecordsSpec => []CitationsPointHome
<1>1. GInv /\ RInv /\ CInv => CitationsPointHome
  <2> SUFFICES ASSUME GInv, RInv, CInv, pc = "chunks", NEW i \in DOMAIN chunks
               PROVE  LET g == chunks[i].group
                          own == {part.block : part \in Range(groups[g].parts)}
                          opening == blocks[groups[g].parts[1].block]
                          box == chunks[i].box
                      IN /\ document[opening.of].placed # "nowhere" =>
                              chunks[i].page = document[opening.of].page
                         /\ box # NoBox => \A b \in own :
                              blocks[b].boxed /\ blocks[b].page = box.page =>
                                Shows(box, blocks[b])
                         /\ \A line \in TextLines : Shows(box, blocks[line[1]]) =>
                              /\ line[1] \in own
                              /\ GroupsOf(line) = {g} \/ blocks[line[1]].y \in {box.top, box.bottom}
                         /\ opening.boxed /\ box # NoBox =>
                              box.page = chunks[i].page /\ Shows(box, opening)
                         /\ opening.boxed => \E j \in 1..i :
                              chunks[j].group = g /\ chunks[j].box # NoBox
    BY DEF CitationsPointHome
  <2> DEFINE g == chunks[i].group
             own == {part.block : part \in Range(groups[g].parts)}
             opening == blocks[groups[g].parts[1].block]
             box == chunks[i].box
             n == Len(groups[g].parts)
             merged == MergedBox(groups[g])
  <2>1. Closed /\ i \in 1..Len(chunks)
    BY SequenceFacts DEF Closed, RInv
  <2>2. /\ g \in 1..Len(groups) /\ chunks[i].page = opening.page /\ box \in {NoBox, merged}
        /\ \E j \in 1..i : chunks[j].group = g /\ chunks[j].box = merged
    BY <2>1 DEF CInv, Cites, Page
  <2> HIDE DEF merged, g, box, own, opening
  <2>3. n \in Nat \ {0} /\ DOMAIN groups[g].parts = 1..n
    BY <2>1, <2>2, GroupedFacts
  <2>4. own = {BlockAt(g, k) : k \in 1..n}
    BY <2>3 DEF Range, BlockAt, own
  <2>5. document[opening.of].placed # "nowhere" => chunks[i].page = document[opening.of].page
    <3>1. IsAt(groups[g].parts[1], g, 1)
      BY <2>2, <2>3 DEF IsAt
    <3>2. groups[g].parts[1].block \in 1..Len(blocks)
      BY <2>1, <3>1, PartAt
    <3> QED
      BY <2>1, <2>2, <3>2, HeightIs, GroupedFacts DEF opening
  <2>6. ASSUME box # NoBox
        PROVE  /\ \A k \in 1..n : BoxOf(g, k).boxed /\ BoxOf(g, k).page = box.page =>
                    Shows(box, BoxOf(g, k))
               /\ opening.boxed => box.page = opening.page /\ Shows(box, opening)
    <3>1. box = MergedBox(groups[g])
      BY <2>2, <2>6 DEF merged
    <3>2. /\ \A k \in 1..n : BoxOf(g, k).boxed /\ BoxOf(g, k).page = box.page =>
               Shows(box, BoxOf(g, k))
          /\ BoxOf(g, 1).boxed => box.page = BoxOf(g, 1).page
      BY <2>1, <2>2, <2>6, <3>1, MergedBoxIs
    <3>3. opening = BoxOf(g, 1) /\ 1 \in 1..n
      BY <2>3 DEF BoxOf, opening
    <3> HIDE DEF n
    <3> QED
      BY <3>2, <3>3
  <2>7. ASSUME NEW line \in TextLines, Shows(box, blocks[line[1]])
        PROVE  /\ line[1] \in own
               /\ GroupsOf(line) = {g} \/ blocks[line[1]].y \in {box.top, box.bottom}
    <3>1. box \in {NoBox, MergedBox(groups[g])}
      BY <2>2 DEF merged
    <3> QED
      BY <2>1, <2>2, <2>4, <2>7, <3>1, ShownIsOwn DEF BlockAt, n
  <2>8. opening.boxed => merged # NoBox
    <3>1. opening = BoxOf(g, 1) /\ 1 \in 1..n
      BY <2>3 DEF BoxOf, opening
    <3> QED
      BY <2>1, <2>2, <3>1, MergedBoxIs DEF merged
  <2>9. \A k \in 1..n : blocks[BlockAt(g, k)] = BoxOf(g, k)
    BY DEF BlockAt, BoxOf
  <2> HIDE DEF n
  <2>10. box # NoBox => \A b \in own :
           blocks[b].boxed /\ blocks[b].page = box.page => Shows(box, blocks[b])
    BY <2>4, <2>6, <2>9
  <2>11. opening.boxed /\ box # NoBox => box.page = chunks[i].page /\ Shows(box, opening)
    BY <2>2, <2>6
  <2>12. opening.boxed => \E j \in 1..i : chunks[j].group = g /\ chunks[j].box # NoBox
    BY <2>2, <2>8
  <2> QED
    BY <2>5, <2>7, <2>10, <2>11, <2>12 DEF g, own, opening, box
<1> QED
  BY <1>1, RInvInit, RInvNext, CInvInit, CInvNext, AlwaysGathered, PTL DEF RecordsSpec

-----------------------------------------------------------------------------
(* to_clauses calls _split_long for clauses that are not empty, and for one *)
(* after another.                                                           *)

IsSizes(h, lines) ==
  h = [s \in SUBSET (DOMAIN lines) |->
         IF s = {} THEN 0 ELSE h[s \ {Max(s)}] + Size[lines[Max(s)]]]

SizesOf(lines) == [i \in 1..Len(lines) |-> Size[lines[i]]]

LEMMA PartSizeIsSum ==
  ASSUME NEW part
  PROVE  PartSize(part) = (CHOOSE h : IsSizes(h, Lines(part)))[DOMAIN Lines(part)]
BY DEF PartSize, FoldLeft, MapThenFoldSet, IsSizes

LEMMA PartSizeIsNat ==
  ASSUME BlocksInv, NEW part, IsPart(part)
  PROVE  PartSize(part) \in Nat
<1> DEFINE l == Lines(part)
           n == Len(l)
           v == SizesOf(l)
<1>1. l \in Seq(Kinds)
  <2> DEFINE lines == blocks[part.block].lines
  <2>1. lines \in Seq(Kinds) /\ Len(lines) \in Nat
    BY BlockFacts DEF IsPart, LaidOut
  <2>2. part.from \in 1..Len(lines) /\ part.to \in part.from..Len(lines)
    BY DEF IsPart
  <2> HIDE DEF lines
  <2>3. part.from \in 1..(Len(lines) + 1) /\ part.to \in (part.from - 1)..Len(lines)
    BY <2>1, <2>2
  <2>4. SubSeq(lines, part.from, part.to) \in Seq(Kinds)
    BY <2>1, <2>3, SubSeqProperties
  <2> QED
    BY <2>4 DEF Lines, lines
<1> HIDE DEF l
<1>2. n \in Nat /\ DOMAIN l = 1..n /\ \A i \in 1..n : l[i] \in Kinds
  BY <1>1
<1>3. \A i \in 1..n : v[i] \in Nat
  BY <1>2, SizeAssumption DEF SizesOf
<1>4. ASSUME NEW h PROVE IsSizes(h, l) <=> IsSum(h, v, n)
  <2>1. ASSUME NEW s \in SUBSET (1..n), s # {}
        PROVE  v[Max(s)] = Size[l[Max(s)]]
    <3>1. Max(s) \in s
      BY <1>2, <2>1, MaxIsGreatest
    <3> QED
      BY <2>1, <3>1 DEF SizesOf
  <2> DEFINE f == [s \in SUBSET (1..n) |->
                     IF s = {} THEN 0 ELSE h[s \ {Max(s)}] + Size[l[Max(s)]]]
             g == [s \in SUBSET (1..n) |->
                     IF s = {} THEN 0 ELSE h[s \ {Max(s)}] + v[Max(s)]]
  <2>2. f = g
    BY <2>1
  <2> QED
    BY <1>2, <2>2 DEF IsSizes, IsSum
<1>5. \E h : IsSum(h, v, n)
  BY <1>2, SumExists
<1>6. IsSizes(CHOOSE h : IsSizes(h, l), l)
  BY <1>4, <1>5
<1>7. (CHOOSE h : IsSizes(h, l))[1..n] \in Nat
  BY <1>2, <1>3, <1>4, <1>6, SumIsNat
<1> QED
  BY <1>2, <1>7, PartSizeIsSum DEF l

IsTotal(h, list) ==
  h = [s \in SUBSET (DOMAIN list) |->
         IF s = {} THEN 0 ELSE h[s \ {Max(s)}] + PartSize(list[Max(s)])]

PartSizesOf(list) == [i \in 1..Len(list) |-> PartSize(list[i])]

LEMMA GroupSizeIsSum ==
  ASSUME NEW group
  PROVE  GroupSize(group) = (CHOOSE h : IsTotal(h, group.parts))[DOMAIN group.parts]
BY DEF GroupSize, FoldLeft, MapThenFoldSet, IsTotal

LEMMA GroupSizeIsNat ==
  ASSUME GInv, Closed, NEW g \in 1..Len(groups)
  PROVE  GroupSize(groups[g]) \in Nat
<1> DEFINE P == groups[g].parts
           n == Len(P)
           v == PartSizesOf(P)
<1>1. n \in Nat /\ DOMAIN P = 1..n
  BY GroupedFacts
<1>2. \A i \in 1..n : v[i] \in Nat
  <2> SUFFICES ASSUME NEW i \in 1..n PROVE PartSize(P[i]) \in Nat
    BY DEF PartSizesOf
  <2>1. IsAt(P[i], g, i)
    BY DEF IsAt
  <2>2. IsPart(P[i]) /\ BlocksInv
    BY <2>1, PartAt, GroupedFacts
  <2> QED
    BY <2>2, PartSizeIsNat
<1> HIDE DEF P
<1>3. ASSUME NEW h PROVE IsTotal(h, P) <=> IsSum(h, v, n)
  <2>1. ASSUME NEW s \in SUBSET (1..n), s # {}
        PROVE  v[Max(s)] = PartSize(P[Max(s)])
    <3>1. Max(s) \in s
      BY <1>1, <2>1, MaxIsGreatest
    <3> QED
      BY <2>1, <3>1 DEF PartSizesOf
  <2> DEFINE f == [s \in SUBSET (1..n) |->
                     IF s = {} THEN 0 ELSE h[s \ {Max(s)}] + PartSize(P[Max(s)])]
             e == [s \in SUBSET (1..n) |->
                     IF s = {} THEN 0 ELSE h[s \ {Max(s)}] + v[Max(s)]]
  <2>2. f = e
    BY <2>1
  <2> QED
    BY <1>1, <2>2 DEF IsTotal, IsSum
<1>4. \E h : IsSum(h, v, n)
  BY <1>1, SumExists
<1>5. IsTotal(CHOOSE h : IsTotal(h, P), P)
  BY <1>3, <1>4
<1>6. (CHOOSE h : IsTotal(h, P))[1..n] \in Nat
  BY <1>1, <1>2, <1>3, <1>5, SumIsNat
<1> QED
  BY <1>1, <1>6, GroupSizeIsSum DEF P

\* Whatever the document, what its clauses' texts go through is what SplitSpec
\* says of _split_long: each is cut to the end before the next is begun.
THEOREM ClausesAreSplit == RecordsSpec => SplitSpec
<1>1. RecordsInit => SplitInit
  BY DEF RecordsInit, Init
<1>2. GInv /\ CInv /\ [RecordsNext]_recordVars => [SplitNext]_splitVars
  <2> SUFFICES ASSUME GInv, CInv, [RecordsNext]_recordVars PROVE [SplitNext]_splitVars
    OBVIOUS
  <2>1. CASE ChunkGroup
    <3>1. CASE UNCHANGED splitVars
      BY <3>1
    <3>2. CASE Call(GroupSize(groups[chunked + 1])) /\ ~Fragment(groups[chunked + 1])
      <4> DEFINE n == GroupSize(groups[chunked + 1])
      <4>1. chunked + 1 \in 1..Len(groups) /\ Closed
        <5>1. Closed /\ chunked \in Nat /\ chunked < Len(groups)
          BY <2>1 DEF ChunkGroup, Closed, CInv
        <5>2. Len(groups) \in Nat
          BY <5>1, GroupedFacts
        <5> QED
          BY <5>1, <5>2
      <4>2. n \in Nat /\ ~(n < MIN_CLAUSE_CHARS)
        BY <3>2, <4>1, GroupSizeIsNat DEF Fragment
      <4> HIDE DEF n
      <4>3. n \in Nat \ {0}
        BY <4>2, MinimumAssumption
      <4>4. Call(n)
        BY <3>2 DEF n
      <4> QED
        BY <4>3, <4>4 DEF SplitNext
    <3> QED
      BY <2>1, <3>1, <3>2 DEF ChunkGroup
  <2>2. CASE Split
    BY <2>2 DEF Split, SplitNext
  <2>3. CASE ~(ChunkGroup \/ Split)
    <3>1. \/ Analyze \/ Explode \/ Group \/ CloseLast \/ EndSplit \/ Return
          \/ UNCHANGED vars
      BY <2>3 DEF RecordsNext, Prepare, Refuse, EmbedBatch, Attach, EmbedRaises,
                  recordVars, Next
    <3>2. UNCHANGED splitVars
      BY <3>1 DEF Analyze, Explode, Group, CloseLast, EndSplit, Return, vars
    <3> QED
      BY <3>2
  <2> QED
    BY <2>1, <2>2, <2>3
<1> QED
  BY <1>1, <1>2, RInvInit, RInvNext, CInvInit, CInvNext, AlwaysGathered, PTL
     DEF RecordsSpec, SplitSpec

\* For every document, window size and overlap, no window is too long.
THEOREM WindowsAlwaysFit == RecordsSpec => []WindowsFit
BY ClausesAreSplit, SplitFits, PTL

\* When a clause is cut, every stretch of OVERLAP_CHARS characters, and of one
\* more, is whole in some window.
THEOREM NoTextIsLost == RecordsSpec => []StretchesSurvive
BY ClausesAreSplit, SplitLosesNothing, PTL

\* Windows are few: each ends later than the one before it, and starts at least
\* three quarters of a window, less the overlap, after it.
THEOREM WindowsKeepAdvancing == RecordsSpec => []WindowsAdvance
BY ClausesAreSplit, SplitAdvances, PTL

-----------------------------------------------------------------------------
(* Types.                                                                   *)

MadeOf(s, P) ==
  IsSequence(s) /\ \A k \in 1..Len(s) : \E i \in 1..Len(P) : s[k] = P[i]

AreMadeOf(G, P) ==
  IsSequence(G) /\ \A g \in 1..Len(G) : G[g].parts # <<>> /\ MadeOf(G[g].parts, P)

\* Inductive with GInv, RInv and CInv: groups are made of parts, and chunks are of
\* groups that were dealt with.
ShapeInv ==
  /\ pc \in {"analyze", "explode", "group", "chunk", "split", "chunks"} /\ opened \in BOOLEAN
  /\ pc = "analyze" => blocks = <<>>
  /\ MadeOf(current, parts) /\ AreMadeOf(groups, parts)
  /\ ~Closed => chunked = 0 /\ chunks = <<>>
  /\ chunked \in 0..Len(groups)
  /\ \A i \in 1..Len(chunks) : chunks[i].group \in 1..chunked

LEMMA MoreIsMade ==
  ASSUME NEW t, NEW s, NEW e, NEW P, EndsWith(t, s, e), MadeOf(s, P),
         NEW i \in 1..Len(P), e = P[i]
  PROVE  MadeOf(t, P) /\ t # <<>>
<1>1. Len(t) = Len(s) + 1 /\ Len(s) \in Nat /\ IsSequence(t)
  BY DEF EndsWith
<1>2. ASSUME NEW k \in 1..Len(t) PROVE \E j \in 1..Len(P) : t[k] = P[j]
  <2>1. CASE k \in 1..Len(s)
    BY <2>1 DEF EndsWith, MadeOf
  <2>2. CASE k = Len(s) + 1
    BY <2>2 DEF EndsWith
  <2> QED
    BY <1>1, <2>1, <2>2
<1> QED
  BY <1>1, <1>2, SequenceFacts DEF MadeOf

LEMMA ClosedIsMade ==
  ASSUME NEW t, NEW s, NEW e, NEW P, EndsWith(t, s, e), AreMadeOf(s, P),
         e.parts # <<>>, MadeOf(e.parts, P)
  PROVE  AreMadeOf(t, P)
<1>1. Len(t) = Len(s) + 1 /\ Len(s) \in Nat /\ IsSequence(t)
  BY DEF EndsWith
<1>2. ASSUME NEW k \in 1..Len(t) PROVE t[k].parts # <<>> /\ MadeOf(t[k].parts, P)
  <2>1. CASE k \in 1..Len(s)
    BY <2>1 DEF EndsWith, AreMadeOf
  <2>2. CASE k = Len(s) + 1
    BY <2>2 DEF EndsWith
  <2> QED
    BY <1>1, <2>1, <2>2
<1> QED
  BY <1>1, <1>2 DEF AreMadeOf

LEMMA ShapeInit == RecordsInit => ShapeInv
<1>1. IsSequence(<<>>) /\ Len(<<>>) = 0
  BY ShortSequences
<1>2. MadeOf(<<>>, <<>>) /\ AreMadeOf(<<>>, <<>>)
  BY <1>1 DEF MadeOf, AreMadeOf
<1> SUFFICES ASSUME RecordsInit PROVE ShapeInv
  OBVIOUS
<1>3. /\ pc = "analyze" /\ opened = FALSE /\ blocks = <<>> /\ parts = <<>> /\ current = <<>>
      /\ groups = <<>> /\ chunked = 0 /\ chunks = <<>>
  BY DEF RecordsInit, Init
<1>4. MadeOf(current, parts) /\ AreMadeOf(groups, parts)
  BY <1>2, <1>3
<1>5. chunked \in 0..Len(groups)
  BY <1>1, <1>3
<1>6. \A i \in 1..Len(chunks) : chunks[i].group \in 1..chunked
  BY <1>1, <1>3
<1>7. pc \in {"analyze", "explode", "group", "chunk", "split", "chunks"} /\ opened \in BOOLEAN
  BY <1>3
<1> QED
  BY <1>3, <1>4, <1>5, <1>6, <1>7 DEF ShapeInv

\* The group being gathered joins the others.
LEMMA ClosingKeepsShape ==
  ASSUME ShapeInv, NEW G,
         G = IF current = <<>> THEN groups
             ELSE Append(groups, [parts |-> current, opened |-> opened])
  PROVE  AreMadeOf(G, parts)
<1>1. CASE current = <<>>
  BY <1>1 DEF ShapeInv
<1>2. CASE current # <<>>
  <2> DEFINE e == [parts |-> current, opened |-> opened]
  <2>1. e.parts = current /\ G = Append(groups, e)
    BY <1>2
  <2> HIDE DEF e
  <2>2. IsSequence(groups)
    BY DEF ShapeInv, AreMadeOf
  <2>3. EndsWith(G, groups, e)
    BY <2>1, <2>2, Appended
  <2> QED
    BY <1>2, <2>1, <2>3, ClosedIsMade DEF ShapeInv
<1> QED
  BY <1>1, <1>2

LEMMA ShapeNext == GInv /\ RInv /\ CInv /\ ShapeInv /\ [RecordsNext]_recordVars => ShapeInv'
<1> SUFFICES ASSUME GInv, RInv, CInv, ShapeInv, [RecordsNext]_recordVars PROVE ShapeInv'
  OBVIOUS
<1>a. IsSequence(groups) /\ Len(groups) \in Nat
  BY SequenceFacts DEF ShapeInv, AreMadeOf
<1>b. Len(<<>>) = 0 /\ IsSequence(<<>>)
  BY ShortSequences
<1>1. CASE Analyze \/ Explode
  <2>1. /\ pc \in {"analyze", "explode"} /\ pc' \in {"explode", "group"}
        /\ UNCHANGED <<current, opened, groups, chunked, chunks>>
        /\ current = <<>> /\ groups = <<>>
    BY <1>1 DEF Analyze, Explode, GInv, groupVars, chunkVars
  <2>2. MadeOf(current, parts)' /\ AreMadeOf(groups, parts)'
    BY <1>b, <2>1 DEF MadeOf, AreMadeOf
  <2> QED
    BY <2>1, <2>2 DEF ShapeInv, Closed
<1>2. CASE Group
  <2> DEFINE part == parts[at + 1]
  <2>1. /\ pc = "group" /\ UNCHANGED <<pc, blocks, parts, chunked, chunks>>
        /\ \/ UNCHANGED <<current, opened, groups>>
           \/ Open(part)
           \/ current' = Append(current, part) /\ UNCHANGED <<opened, groups>>
    BY <1>2 DEF Group, layoutVars, chunkVars
  <2>2. at + 1 \in 1..Len(parts) /\ chunked = 0 /\ chunks = <<>>
    <3>1. Len(parts) \in Nat /\ at \in 0..Len(parts) /\ at < Len(parts)
      BY <1>2, <2>1, SequenceFacts DEF Group, GInv, TextParts, ArePartsInOrder
    <3> QED
      BY <2>1, <3>1 DEF ShapeInv, Closed
  <2>3. CASE UNCHANGED <<current, opened, groups>>
    BY <2>1, <2>3 DEF ShapeInv, Closed
  <2>4. CASE Open(part)
    <3>1. current' = <<part>> /\ opened' = TRUE
          /\ groups' = IF current = <<>> THEN groups
                       ELSE Append(groups, [parts |-> current, opened |-> opened])
      BY <2>4 DEF Open
    <3>2. AreMadeOf(groups', parts)
      BY <3>1, ClosingKeepsShape
    <3>3. MadeOf(<<part>>, parts)
      <4>1. IsSequence(<<part>>) /\ Len(<<part>>) = 1 /\ <<part>>[1] = part
        BY ShortSequences
      <4> HIDE DEF part
      <4>2. \A k \in 1..Len(<<part>>) : <<part>>[k] = part
        BY <4>1
      <4> QED
        BY <2>2, <4>1, <4>2 DEF MadeOf, part
    <3>4. Len(groups') \in Nat
      BY <3>2, SequenceFacts DEF AreMadeOf
    <3> QED
      BY <1>b, <2>1, <2>2, <3>1, <3>2, <3>3, <3>4 DEF ShapeInv, Closed
  <2>5. CASE current' = Append(current, part) /\ UNCHANGED <<opened, groups>>
    <3>1. EndsWith(current', current, part)
      BY <2>5, Appended DEF ShapeInv, MadeOf
    <3>2. MadeOf(current', parts)
      BY <2>2, <3>1, MoreIsMade DEF ShapeInv
    <3> QED
      BY <2>1, <2>5, <3>2 DEF ShapeInv, Closed
  <2> QED
    BY <2>1, <2>3, <2>4, <2>5
<1>3. CASE CloseLast
  <2>1. /\ pc = "group" /\ pc' = "chunk"
        /\ UNCHANGED <<blocks, parts, current, opened, chunked, chunks>>
        /\ groups' = IF current = <<>> THEN groups
                     ELSE Append(groups, [parts |-> current, opened |-> opened])
    BY <1>3 DEF CloseLast, layoutVars, chunkVars
  <2>2. AreMadeOf(groups', parts)
    BY <2>1, ClosingKeepsShape
  <2>3. Len(groups') \in Nat
    BY <2>2, SequenceFacts DEF AreMadeOf
  <2>4. chunked = 0 /\ chunks = <<>>
    BY <2>1 DEF ShapeInv, Closed
  <2> QED
    BY <1>b, <2>1, <2>2, <2>3, <2>4 DEF ShapeInv, Closed
<1>4. CASE EndSplit
  <2>1. /\ pc = "split" /\ pc' = "chunk" /\ chunked' = chunked + 1
        /\ UNCHANGED <<blocks, parts, current, opened, groups>>
        /\ chunked < Len(groups) /\ chunked \in Nat
    BY <1>4 DEF EndSplit, layoutVars, groupVars, CInv
  <2>2. chunks' = chunks \o [w \in DOMAIN windows |->
          [ordinal |-> Ordinal(w), group |-> chunked + 1, page |-> Page(groups[chunked + 1]),
           box |-> IF w = 1 THEN MergedBox(groups[chunked + 1]) ELSE NoBox]]
    BY <1>4 DEF EndSplit
  <2> DEFINE n == Len(windows)
             t == [w \in 1..n |->
                    [ordinal |-> Ordinal(w), group |-> chunked + 1,
                     page |-> Page(groups[chunked + 1]),
                     box |-> IF w = 1 THEN MergedBox(groups[chunked + 1]) ELSE NoBox]]
  <2>3. n \in Nat /\ DOMAIN windows = 1..n
    BY SequenceFacts DEF RInv
  <2>4. \A w \in 1..n : t[w].group = chunked + 1
    OBVIOUS
  <2>5. IsSequence(t) /\ Len(t) = n
    <3>1. t = [w \in 1..n |-> t[w]]
      OBVIOUS
    <3> HIDE DEF t, n
    <3> QED
      BY <2>3, <3>1, FunctionIsSequence
  <2>6. chunks' = chunks \o t
    BY <2>2, <2>3
  <2> HIDE DEF t, n
  <2>7. IsSequence(chunks) /\ Len(chunks) \in Nat
    BY SequenceFacts DEF RInv
  <2>8. Joins(chunks', chunks, t)
    BY <2>5, <2>6, <2>7, ConcatJoins
  <2>9. ASSUME NEW i \in 1..Len(chunks') PROVE chunks'[i].group \in 1..chunked'
    <3> DEFINE l == Len(chunks)
    <3>1. /\ Len(chunks') = l + n
          /\ \A j \in 1..l : chunks'[j] = chunks[j]
          /\ \A w \in 1..n : chunks'[l + w] = t[w]
      BY <2>5, <2>8 DEF Joins
    <3>2. CASE i \in 1..l
      <4>1. chunks'[i] = chunks[i] /\ chunks[i].group \in 1..chunked
        BY <3>1, <3>2 DEF ShapeInv
      <4> QED
        BY <2>1, <4>1
    <3>3. CASE i \notin 1..l
      <4>1. i - l \in 1..n /\ l + (i - l) = i
        BY <2>3, <2>7, <3>1, <3>3
      <4>2. chunks'[i].group = chunked + 1
        BY <2>4, <3>1, <4>1
      <4> QED
        BY <2>1, <4>2
    <3> QED
      BY <3>2, <3>3
  <2>10. chunked' \in 0..Len(groups')
    BY <1>a, <2>1
  <2> QED
    BY <2>1, <2>9, <2>10 DEF ShapeInv, Closed
<1>5. CASE ChunkGroup
  <2>1. /\ pc = "chunk" /\ chunked < Len(groups)
        /\ UNCHANGED <<blocks, parts, current, opened, groups, chunks>>
        /\ chunked' \in {chunked, chunked + 1} /\ pc' \in {"chunk", "split"}
    BY <1>5 DEF ChunkGroup, layoutVars, groupVars
  <2>2. chunked \in Nat /\ chunked' \in 0..Len(groups) /\ chunked <= chunked'
    BY <1>a, <2>1 DEF ShapeInv
  <2>3. \A i \in 1..Len(chunks) : chunks[i].group \in 1..chunked'
    BY <2>2 DEF ShapeInv
  <2> QED
    BY <2>1, <2>2, <2>3 DEF ShapeInv, Closed
<1>6. CASE Split \/ Return \/ UNCHANGED vars
  <2>1. /\ UNCHANGED <<blocks, parts, current, opened, groups, chunked, chunks>>
        /\ pc' = pc \/ (pc = "chunk" /\ pc' = "chunks")
    BY <1>6 DEF Split, Return, vars, layoutVars, groupVars, chunkVars
  <2> QED
    BY <2>1 DEF ShapeInv, Closed
<1>7. Next \/ UNCHANGED vars
  BY DEF RecordsNext, Prepare, Refuse, EmbedBatch, Attach, EmbedRaises, recordVars
<1> QED
  BY <1>1, <1>2, <1>3, <1>4, <1>5, <1>6, <1>7 DEF Next

\* Blocks, parts, groups and chunks keep their shapes: a part is a stretch of a
\* block, a group is made of parts, and a chunk is of a group dealt with.
THEOREM ChunkerTypeCorrect == RecordsSpec => []TypeOK
<1>1. GInv /\ RInv /\ ShapeInv => TypeOK
  <2> SUFFICES ASSUME GInv, RInv, ShapeInv PROVE TypeOK
    OBVIOUS
  <2>0. DOMAIN <<>> = {} /\ Len(<<>>) = 0
    OBVIOUS
  <2>1. \A b \in DOMAIN blocks : blocks[b] = Block(blocks[b].of)
    <3>1. CASE pc = "analyze"
      BY <2>0, <3>1 DEF ShapeInv
    <3>2. CASE pc # "analyze"
      BY <3>2, BlockFacts DEF GInv, BlocksInv, Found
    <3> QED
      BY <3>1, <3>2
  <2>2. /\ Len(parts) \in Nat /\ DOMAIN parts = 1..Len(parts) /\ at \in 0..Len(parts)
        /\ \A part \in Range(parts) :
             /\ part.block \in DOMAIN blocks
             /\ 1 <= part.from /\ part.from <= part.to
             /\ part.to <= Len(blocks[part.block].lines)
    <3>1. CASE pc \in {"analyze", "explode"}
      <4>1. parts = <<>> /\ at = 0
        BY <3>1 DEF GInv
      <4>2. Range(parts) = {}
        BY <2>0, <4>1 DEF Range
      <4> QED
        BY <2>0, <4>1, <4>2
    <3>2. CASE pc \notin {"analyze", "explode"}
      <4>1. BlocksInv /\ ArePartsInOrder(parts) /\ at \in 0..Len(parts)
        BY <3>2 DEF GInv, TextParts
      <4>2. Len(parts) \in Nat /\ DOMAIN parts = 1..Len(parts)
        BY <4>1, SequenceFacts DEF ArePartsInOrder
      <4>3. \A part : IsPart(part) =>
              /\ part.block \in DOMAIN blocks
              /\ 1 <= part.from /\ part.from <= part.to
              /\ part.to <= Len(blocks[part.block].lines)
        BY <4>1, BlockFacts DEF IsPart
      <4> QED
        BY <4>1, <4>2, <4>3 DEF ArePartsInOrder, Range
    <3> QED
      BY <3>1, <3>2
  <2>3. ASSUME NEW s, MadeOf(s, parts) PROVE Range(s) \subseteq Range(parts)
    <3>1. DOMAIN s = 1..Len(s)
      BY <2>3, SequenceFacts DEF MadeOf
    <3> QED
      BY <2>2, <2>3, <3>1 DEF MadeOf, Range
  <2>4. \A group \in Range(groups) :
          group.parts # <<>> /\ Range(group.parts) \subseteq Range(parts)
    <3>1. DOMAIN groups = 1..Len(groups)
      BY SequenceFacts DEF ShapeInv, AreMadeOf
    <3> QED
      BY <2>3, <3>1 DEF ShapeInv, AreMadeOf, Range
  <2>5. DOMAIN chunks = 1..Len(chunks)
    BY SequenceFacts DEF RInv
  <2> QED
    BY <2>1, <2>2, <2>3, <2>4, <2>5 DEF TypeOK, ShapeInv, GInv
<1> QED
  BY <1>1, RInvInit, RInvNext, CInvInit, CInvNext, ShapeInit, ShapeNext, AlwaysGathered, PTL
     DEF RecordsSpec
=============================================================================
