---------------------------- MODULE ClauseWindows ----------------------------
(***************************************************************************)
(* _split_long, called for one clause after another: an over-long clause   *)
(* is cut into overlapping windows, each at a sentence end if there is one *)
(* in its last quarter.  A window is the                                   *)
(* positions from `from' up to, not including, `to'; white space at its    *)
(* ends is stripped, which nothing here depends on.                        *)
(***************************************************************************)
EXTENDS Integers, Sequences

CONSTANTS
  MAX_CLAUSE_CHARS,
  OVERLAP_CHARS

\* 2400 and 300: what a window adds is more than what it repeats.
ASSUME WindowAssumption ==
  /\ MAX_CLAUSE_CHARS \in Nat \ {0} /\ OVERLAP_CHARS \in Nat
  /\ OVERLAP_CHARS < MAX_CLAUSE_CHARS - (MAX_CLAUSE_CHARS \div 4)

VARIABLES
  length,   \* of the clause; 0 before the first
  start,    \* where the next window starts
  windows,
  splitting \* "cutting" or "done"

splitVars == <<length, start, windows, splitting>>

WindowsTypeOK ==
  /\ length \in Nat
  /\ start \in Nat
  /\ windows \in Seq([from : Nat, to : 1..length])
  /\ splitting \in {"cutting", "done"}
  /\ splitting = "cutting" => length # 0 /\ start < length

SplitInit ==
  /\ length = 0 /\ start = 0
  /\ windows = <<>>
  /\ splitting = "done"

\* The next clause, of n characters.
Call(n) ==
  /\ splitting = "done"
  /\ length' = n /\ start' = 0
  /\ windows' = <<>>
  /\ splitting' = "cutting"

\* How far a window can reach.
Reach == IF start + MAX_CLAUSE_CHARS < length THEN start + MAX_CLAUSE_CHARS ELSE length

\* Where the text happens to have ". " in the last quarter of the window; the
\* cut comes after the full stop.
SentenceEnds ==
  {p + 1 : p \in (Reach - (MAX_CLAUSE_CHARS \div 4))..(Reach - 2)}

Ends == {Reach} \cup (IF Reach < length THEN SentenceEnds ELSE {})

\* Mutant: the next window starts where this one ended.
NoOverlap(end) == end

\* Mutant: the overlap is taken off twice.
RepeatsTwice(end) ==
  IF end - 2 * OVERLAP_CHARS > start + 1 THEN end - 2 * OVERLAP_CHARS ELSE start + 1

NextStart(end) ==
  IF end - OVERLAP_CHARS > start + 1 THEN end - OVERLAP_CHARS ELSE start + 1

IsLast(end) == end >= length

\* A clause that fits is left whole.
LeaveWhole ==
  /\ splitting = "cutting" /\ length <= MAX_CLAUSE_CHARS
  /\ windows' = <<[from |-> 0, to |-> length]>>
  /\ splitting' = "done"
  /\ UNCHANGED <<length, start>>

\* Mutant: only the excess over a window is skipped.
CutByTheRest ==
  /\ splitting = "cutting" /\ length > MAX_CLAUSE_CHARS
  /\ windows' = Append(windows, [from |-> start, to |-> length])
  /\ IF IsLast(start + MAX_CLAUSE_CHARS)
     THEN splitting' = "done" /\ UNCHANGED start
     ELSE start' = NextStart(start + MAX_CLAUSE_CHARS) /\ UNCHANGED splitting
  /\ UNCHANGED length

Cut ==
  /\ splitting = "cutting" /\ length > MAX_CLAUSE_CHARS
  /\ \E end \in Ends :
       /\ windows' = Append(windows, [from |-> start, to |-> end])
       /\ IF IsLast(end)
          THEN splitting' = "done" /\ UNCHANGED start
          ELSE start' = NextStart(end) /\ UNCHANGED splitting
  /\ UNCHANGED length

\* Whatever clauses it is called for.
SplitNext == (\E n \in Nat \ {0} : Call(n)) \/ LeaveWhole \/ Cut
SplitSpec == SplitInit /\ [][SplitNext]_splitVars

-----------------------------------------------------------------------------
(* Properties *)

\* "MAX_CLAUSE_CHARS" is a maximum: no window is longer.
WindowsFit ==
  \A i \in DOMAIN windows : windows[i].to - windows[i].from <= MAX_CLAUSE_CHARS

\* No text is lost, and what straddles a cut can be found whole: every stretch
\* of OVERLAP_CHARS characters, and of one more, lies within one window.
StretchesSurvive ==
  splitting = "done" => \A a \in 0..(length - 1) : \A b \in (a + 1)..(a + OVERLAP_CHARS + 1) :
    b <= length => \E i \in DOMAIN windows : windows[i].from <= a /\ b <= windows[i].to

\* No window repeats what another one holds already, and a window starts at least
\* three quarters of its size, less the overlap, after the one before it: there
\* are few.
WindowsAdvance ==
  \A i \in 1..(Len(windows) - 1) :
    /\ windows[i].to < windows[i + 1].to
    /\ windows[i + 1].from - windows[i].from
         >= MAX_CLAUSE_CHARS - (MAX_CLAUSE_CHARS \div 4) - OVERLAP_CHARS
=============================================================================
