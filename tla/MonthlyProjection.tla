------------------------- MODULE MonthlyProjection --------------------------
(***************************************************************************)
(* next_occurrence for a rule counted in calendar months, as the loop it   *)
(* is: jump close to the target, then step from occurrence to occurrence.  *)
(* (The closed form for rules counted in days is NextOccurrence, in        *)
(* DueDates.)                                                              *)
(*                                                                         *)
(* A date is its month, counted from year 0, and its day of the month.     *)
(***************************************************************************)
EXTENDS Integers

CONSTANTS
  Dates,      \* the dates an anchor or `after' may be
  Rules,      \* the rules: an occurrence every so many months
  GuardLimit  \* the loop gives up beyond this many steps (1200)

\* calendar.monthrange(year, month)[1].
DaysIn(index) ==
  LET year == index \div 12
      month == (index % 12) + 1
      leap == year % 4 = 0 /\ (year % 100 # 0 \/ year % 400 = 0)
  IN IF month = 2 THEN IF leap THEN 29 ELSE 28
     ELSE IF month \in {4, 6, 9, 11} THEN 30 ELSE 31

Date == {date \in [index : Nat, day : 1..31] : date.day <= DaysIn(date.index)}

ASSUME DatesAssumption == Dates \subseteq [index : Nat, day : 1..31]
ASSUME DatesAreReal == \A date \in Dates : date.day <= DaysIn(date.index)
ASSUME RulesAssumption == Rules \subseteq Nat \ {0}
ASSUME GuardAssumption == GuardLimit \in Nat /\ GuardLimit >= 2

VARIABLES
  anchor, after, months, \* the arguments
  candidate, guard,      \* the locals
  pc                     \* "start", "loop", "returned" or "raised"

vars == <<anchor, after, months, candidate, guard, pc>>

Earlier(a, b) == a.index < b.index \/ (a.index = b.index /\ a.day < b.day)
NotAfter(a, b) == a = b \/ Earlier(a, b)

\* Mutant: the day rolls over into the following month.
RollsOver(start, n) ==
  LET index == start.index + n IN
  IF start.day <= DaysIn(index) THEN [index |-> index, day |-> start.day]
  ELSE [index |-> index + 1, day |-> start.day - DaysIn(index)]

add_months(start, n) ==
  LET index == start.index + n IN
  [index |-> index,
   day |-> IF start.day <= DaysIn(index) THEN start.day ELSE DaysIn(index)]

TypeOK ==
  /\ anchor \in Dates /\ after \in Dates /\ months \in Rules
  /\ candidate \in Date
  /\ guard \in Nat
  /\ pc \in {"start", "loop", "returned", "raised"}

Init ==
  /\ anchor \in Dates /\ after \in Dates /\ months \in Rules
  /\ candidate = anchor
  /\ guard = 0
  /\ pc = "start"

Estimate == after.index - anchor.index

\* Mutant: one occurrence too many is skipped.
JumpsTooFar == (Estimate \div months) + 1

\* Mutant: no jump at all.
NoJump == 0

\* How many occurrences the jump skips: max(estimate // months - 1, 0).
Skipped == IF Estimate \div months >= 1 THEN (Estimate \div months) - 1 ELSE 0

Jump ==
  /\ pc = "start" /\ pc' = "loop"
  /\ candidate' = IF NotAfter(anchor, after)
                  THEN add_months(anchor, months * Skipped) ELSE anchor
  /\ UNCHANGED <<anchor, after, months, guard>>

MoreToGo == NotAfter(candidate, after)

Step ==
  /\ pc = "loop" /\ MoreToGo
  /\ candidate' = add_months(candidate, months)
  /\ guard' = guard + 1
  /\ pc' = IF guard' > GuardLimit THEN "raised" ELSE "loop"
  /\ UNCHANGED <<anchor, after, months>>

Return ==
  /\ pc = "loop" /\ ~MoreToGo
  /\ pc' = "returned"
  /\ UNCHANGED <<anchor, after, months, candidate, guard>>

Next == Jump \/ Step \/ Return
Spec == Init /\ [][Next]_vars

-----------------------------------------------------------------------------
(* Properties *)

\* The occurrences the rule has: each projected from the anchor itself.
Occurrence(k) == add_months(anchor, months * k)

\* The docstring's "first occurrence strictly after `after', projected from
\* `anchor'".
Expected ==
  LET k == CHOOSE k \in 0..(IF Estimate < 0 THEN 0 ELSE Estimate + 1) :
             /\ ~NotAfter(Occurrence(k), after)
             /\ \A j \in 0..(k - 1) : NotAfter(Occurrence(j), after)
  IN Occurrence(k)

\* The jump lands within two occurrences of the answer, however old the
\* contract: the loop's guard never trips, and no scan raises for a rule.
GuardNeverTrips == guard <= 2 /\ pc # "raised"

\* For an anchor every month has a day for, the result is exactly the
\* docstring's.
ExactUpToThe28th == pc = "returned" /\ anchor.day <= 28 => candidate = Expected

\* For the other anchors the result is never later than one rule period after
\* the docstring's, never in a month the rule does not name, and never on a
\* later day of the month than the anchor's.
DriftIsBounded ==
  pc = "returned" =>
    /\ candidate.index \in {Expected.index, Expected.index + months}
    /\ (candidate.index - anchor.index) % months = 0
    /\ candidate.day <= anchor.day

\* The result is the docstring's, whatever the anchor.
ResultIsFirstOccurrence == pc = "returned" => candidate = Expected
=============================================================================
