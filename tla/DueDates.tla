------------------------------ MODULE DueDates ------------------------------
(***************************************************************************)
(* What date an obligation is judged against, and what the calendar makes  *)
(* of it: the pure half of the obligation scanner.  A day is an integer.   *)
(*                                                                         *)
(* An obligation's timing, as the extractor stored it, is a record: `due'  *)
(* is its fixed date or NoDate; `recurrence' is the verdict of             *)
(* parse_recurrence on its phrase ("none": no phrase, "unschedulable": a   *)
(* phrase anchored to an event or not understood, "periodic": every        *)
(* `period' days).  `anchor' is the day the contract's clock starts.       *)
(* Periods counted in calendar months are the subject of MonthlyProjection.*)
(***************************************************************************)
EXTENDS Integers

CONSTANTS
  NoDate,       \* stands for None where a date is optional
  DueSoonDays   \* settings.due_soon_days

ASSUME NoDateAssumption == NoDate \notin Int
ASSUME DueSoonAssumption == DueSoonDays \in Nat

TERMINAL_STATES == {"SATISFIED", "WAIVED", "SUPERSEDED"}
ObligationState == {"OPEN", "DUE_SOON", "OVERDUE"} \cup TERMINAL_STATES

OptionalDay == Int \cup {NoDate}

Timing ==
  [due : OptionalDay, recurrence : {"none", "unschedulable", "periodic"},
   anchor : Int, period : Nat \ {0}]

\* A duty the scanner reports as unscheduled instead of dating it.
Unscheduled(t) == t.due = NoDate /\ t.recurrence = "unschedulable"

\* Mutant: counts periods from `after', so the phase of the rule is lost.
CountsFromAfter(t, after) ==
  IF t.anchor > after THEN t.anchor ELSE after + t.period

\* The first occurrence strictly after day `after', in closed form.
NextOccurrence(t, after) ==
  IF t.anchor > after
  THEN t.anchor
  ELSE t.anchor + t.period * (((after - t.anchor) \div t.period) + 1)

effective_due_date(t, today) ==
  IF t.due # NoDate THEN t.due
  ELSE IF t.recurrence = "periodic" THEN NextOccurrence(t, today - 1)
  ELSE NoDate

\* Mutant: a duty that falls due today is already called overdue.
OverdueOnTheDay(due, today) ==
  IF due = NoDate THEN "OPEN"
  ELSE IF due <= today THEN "OVERDUE"
  ELSE IF due <= today + DueSoonDays THEN "DUE_SOON"
  ELSE "OPEN"

\* Mutant: the warning window is granted after the date as well.
OverdueAfterTheWindow(due, today) ==
  IF due = NoDate THEN "OPEN"
  ELSE IF due + DueSoonDays < today THEN "OVERDUE"
  ELSE IF due <= today + DueSoonDays THEN "DUE_SOON"
  ELSE "OPEN"

next_state(due, today) ==
  IF due = NoDate THEN "OPEN"
  ELSE IF due < today THEN "OVERDUE"
  ELSE IF due <= today + DueSoonDays THEN "DUE_SOON"
  ELSE "OPEN"
=============================================================================
