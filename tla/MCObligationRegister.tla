------------------------ MODULE MCObligationRegister ------------------------
(* Small instances of ObligationRegister for TLC. *)
EXTENDS ObligationRegister, TLC

CONSTANTS o1, o2, r1, r2

Timed(due, recurrence) ==
  [due |-> due, recurrence |-> recurrence, anchor |-> -1, period |-> 2]

\* A fixed date, a schedulable rule, a rule nobody can schedule, a standing
\* duty, and a fixed date that overrides a rule.
Fixed == Timed(1, "none")
Recurring == Timed(NoDate, "periodic")
Unschedulable == Timed(NoDate, "unschedulable")
Standing == Timed(NoDate, "none")
FixedAndRecurring == Timed(1, "periodic")

AllTimings == {Fixed, Recurring, Unschedulable, Standing, FixedAndRecurring}
MainTimings == {Fixed, Recurring}
ScanTimings == {Fixed, Recurring, Unschedulable}

SomeObligations == {o1, o2}
SomeRequests == {r1, r2}
RequestsAreAlike == Permutations(SomeRequests)
Symmetric == Permutations(SomeObligations) \cup Permutations(SomeRequests)
=============================================================================
