---------------------- MODULE MonthlyProjectionProofs -----------------------
(***************************************************************************)
(* Theorems about MonthlyProjection, for any dates, any rule and any guard *)
(* of at least two steps.                                                  *)
(***************************************************************************)
EXTENDS MonthlyProjection, NatLemmas

LEMMA DaysInRange == ASSUME NEW i \in Nat PROVE DaysIn(i) \in 28..31
  BY DEF DaysIn

\* add_months lands in the month it should, on a day that month has.
LEMMA AddMonthsIsADate ==
  ASSUME NEW d \in Date, NEW n \in Nat
  PROVE  add_months(d, n) \in Date /\ add_months(d, n).index = d.index + n
  <1>1. d.index \in Nat /\ d.day \in 1..31 /\ d.index + n \in Nat
    BY DEF Date
  <1>2. DaysIn(d.index + n) \in 28..31
    BY <1>1, DaysInRange
  <1> QED
    BY <1>1, <1>2 DEF add_months, Date

LEMMA DatesAreDates == Dates \subseteq Date
  BY DatesAssumption, DatesAreReal DEF Date

\* The jump lands less than two periods before the month of `after'.
LEMMA JumpLandsClose ==
  ASSUME TypeOK, Estimate \in Nat
  PROVE  /\ months * Skipped \in Nat
         /\ anchor.index + months * Skipped + 2 * months > after.index
  <1>1. anchor.index \in Nat /\ after.index \in Nat /\ months \in Nat \ {0}
    BY DatesAreDates, RulesAssumption DEF TypeOK, Date
  <1> DEFINE q == Estimate \div months
  <1>2. q \in Nat /\ months * (q + 1) > Estimate
    BY <1>1, OneMorePeriod
  <1>3. Skipped = IF q >= 1 THEN q - 1 ELSE 0
    BY DEF Skipped
  <1>4. Estimate = after.index - anchor.index
    BY DEF Estimate
  <1> HIDE DEF q
  <1>5. CASE q >= 1
    <2>1. q - 1 \in Nat /\ Skipped = q - 1
      BY <1>2, <1>3, <1>5
    <2>2. months * (q - 1) + 2 * months = months * (q + 1)
      BY <1>1, <1>2
    <2>3. months * (q - 1) \in Nat
      BY <1>1, <2>1
    <2> QED
      BY <1>1, <1>2, <1>4, <2>1, <2>2, <2>3
  <1>6. CASE ~(q >= 1)
    <2>1. q = 0 /\ Skipped = 0
      BY <1>2, <1>3, <1>6
    <2>2. months * (q + 1) = months /\ months * Skipped = 0
      BY <1>1, <2>1
    <2> QED
      BY <1>1, <1>2, <1>4, <2>2
  <1> QED
    BY <1>5, <1>6

\* Inductive: after so many steps, the candidate is at most that many periods
\* short of being in a later month than `after'.
Progress ==
  /\ guard \in 0..2 /\ pc # "raised"
  /\ pc = "start" => guard = 0 /\ candidate = anchor
  /\ pc = "loop" /\ guard = 0 => candidate.index + 2 * months > after.index
  /\ pc = "loop" /\ guard = 1 => candidate.index + months > after.index
  /\ pc = "loop" /\ guard = 2 => candidate.index > after.index

Inv == TypeOK /\ Progress

LEMMA InvInit == Init => Inv
  BY DatesAreDates DEF Init, Inv, TypeOK, Progress

LEMMA InvNext == Inv /\ [Next]_vars => Inv'
  <1> SUFFICES ASSUME Inv, [Next]_vars PROVE Inv'
    OBVIOUS
  <1>a. TypeOK /\ Progress
    BY DEF Inv
  <1>b. /\ anchor \in Date /\ after \in Date /\ months \in Nat \ {0}
        /\ anchor.index \in Nat /\ after.index \in Nat
        /\ candidate \in Date /\ candidate.index \in Nat
    BY <1>a, DatesAreDates, RulesAssumption DEF TypeOK, Date
  <1>1. CASE Jump
    <2>1. /\ pc = "start" /\ pc' = "loop" /\ guard = 0 /\ guard' = 0
          /\ UNCHANGED <<anchor, after, months>>
      BY <1>1, <1>a DEF Jump, Progress
    <2>2. candidate' \in Date /\ candidate'.index + 2 * months > after.index
      <3>1. CASE NotAfter(anchor, after)
        <4>1. Estimate \in Nat
          BY <1>b, <3>1 DEF Estimate, NotAfter, Earlier
        <4>2. /\ months * Skipped \in Nat
              /\ anchor.index + months * Skipped + 2 * months > after.index
          BY <1>a, <4>1, JumpLandsClose
        <4>3. candidate' = add_months(anchor, months * Skipped)
          BY <1>1, <3>1 DEF Jump
        <4>4. candidate' \in Date /\ candidate'.index = anchor.index + months * Skipped
          BY <1>b, <4>2, <4>3, AddMonthsIsADate
        <4> QED
          BY <4>2, <4>4
      <3>2. CASE ~NotAfter(anchor, after)
        <4>1. candidate' = anchor
          BY <1>1, <3>2 DEF Jump
        <4>2. anchor.index >= after.index
          BY <1>b, <3>2 DEF NotAfter, Earlier
        <4> QED
          BY <1>b, <4>1, <4>2
      <3> QED
        BY <3>1, <3>2
    <2> QED
      BY <1>a, <2>1, <2>2 DEF Inv, TypeOK, Progress
  <1>2. CASE Step
    <2>1. /\ pc = "loop" /\ candidate.index <= after.index
          /\ candidate' = add_months(candidate, months)
          /\ guard' = guard + 1
          /\ pc' = IF guard' > GuardLimit THEN "raised" ELSE "loop"
          /\ UNCHANGED <<anchor, after, months>>
      BY <1>2, <1>b DEF Step, MoreToGo, NotAfter, Earlier
    <2>2. candidate' \in Date /\ candidate'.index = candidate.index + months
      BY <1>b, <2>1, AddMonthsIsADate
    <2>3. guard \in {0, 1}
      BY <1>a, <1>b, <2>1 DEF Progress
    <2>4. guard' \in {1, 2} /\ pc' = "loop"
      BY <2>1, <2>3, GuardAssumption
    <2>5. guard' = 1 => candidate'.index + months > after.index
      BY <1>a, <1>b, <2>1, <2>2, <2>3 DEF Progress
    <2>6. guard' = 2 => candidate'.index > after.index
      BY <1>a, <1>b, <2>1, <2>2, <2>3 DEF Progress
    <2> QED
      BY <1>a, <2>1, <2>2, <2>4, <2>5, <2>6 DEF Inv, TypeOK, Progress
  <1>3. CASE Return
    <2>1. /\ pc' = "returned" /\ ~NotAfter(candidate, after)
          /\ UNCHANGED <<anchor, after, months, candidate, guard>>
      BY <1>3 DEF Return, MoreToGo
    <2> QED
      BY <1>a, <2>1 DEF Inv, TypeOK, Progress
  <1>4. CASE UNCHANGED vars
    BY <1>4, <1>a DEF vars, Inv, TypeOK, Progress
  <1> QED
    BY <1>1, <1>2, <1>3, <1>4 DEF Next

LEMMA InvHolds == Spec => []Inv
  BY InvInit, InvNext, PTL DEF Spec

\* Every date the projection passes through is one the calendar has.
THEOREM CandidateIsADate == Spec => []TypeOK
  <1>1. Inv => TypeOK
    BY DEF Inv
  <1> QED
    BY <1>1, InvHolds, PTL

\* The guard of next_occurrence ("did not converge") is dead code: two steps
\* are enough for any anchor, any date and any rule.
THEOREM GuardIsNeverReached == Spec => []GuardNeverTrips
  <1>1. Inv => GuardNeverTrips
    BY DEF Inv, Progress, GuardNeverTrips
  <1> QED
    BY <1>1, InvHolds, PTL

-----------------------------------------------------------------------------
(* The result against the docstring's.                                     *)

\* Inductive: the candidate is in the month of some occurrence j, on no later
\* day than that occurrence, and the occurrence before it did not fall in a
\* later month than `after'.  Up to the 28th the candidate is the occurrence,
\* and the one before it was not after `after'.
IsReached(j) ==
  /\ candidate.index = anchor.index + months * j
  /\ candidate.day <= Occurrence(j).day
  /\ anchor.day <= 28 => candidate = Occurrence(j)
  /\ j > 0 => /\ anchor.index + months * (j - 1) <= after.index
              /\ anchor.day <= 28 => NotAfter(Occurrence(j - 1), after)

Reached ==
  /\ pc # "start" => \E j \in Nat : IsReached(j)
  /\ pc = "returned" => ~NotAfter(candidate, after)

LEMMA Arguments ==
  ASSUME Inv
  PROVE  /\ anchor \in Date /\ after \in Date /\ months \in Nat \ {0}
         /\ anchor.index \in Nat /\ anchor.day \in 1..31
         /\ after.index \in Nat /\ after.day \in 1..31
         /\ candidate \in Date /\ candidate.index \in Nat /\ candidate.day \in 1..31
  BY DatesAreDates, RulesAssumption DEF Inv, TypeOK, Date

\* An occurrence is in its month, on the anchor's day or the month's last.
LEMMA OccurrenceIs ==
  ASSUME Inv, NEW k \in Nat
  PROVE  /\ months * k \in Nat /\ months * (k + 1) = months * k + months
         /\ Occurrence(k) \in Date
         /\ Occurrence(k).index = anchor.index + months * k
         /\ Occurrence(k).day \in 1..31 /\ Occurrence(k).day <= anchor.day
         /\ anchor.day <= 28 => Occurrence(k).day = anchor.day
  <1>1. anchor \in Date /\ months \in Nat /\ anchor.index \in Nat /\ anchor.day \in 1..31
    BY Arguments
  <1>2. months * k \in Nat /\ months * (k + 1) = months * k + months
    BY <1>1
  <1>3. Occurrence(k) \in Date /\ Occurrence(k).index = anchor.index + months * k
    BY <1>1, <1>2, AddMonthsIsADate DEF Occurrence
  <1>4. DaysIn(anchor.index + months * k) \in 28..31
    BY <1>1, <1>2, DaysInRange
  <1> DEFINE n == months * k
  <1>5. Occurrence(k).day = IF anchor.day <= DaysIn(anchor.index + n) THEN anchor.day
                            ELSE DaysIn(anchor.index + n)
    BY DEF Occurrence, add_months
  <1> QED
    BY <1>1, <1>2, <1>3, <1>4, <1>5

\* A product with one more factor is larger.
LEMMA TimesGrows ==
  ASSUME NEW m \in Nat \ {0}, NEW i \in Nat, NEW j \in Nat, i < j
  PROVE  m * i \in Nat /\ m * j \in Nat /\ m * i + m <= m * j /\ j <= m * j
  <1>1. m * (j - i) >= m /\ m * j >= j
    BY SMT
  <1>2. m * (j - i) = m * j - m * i
    BY SMT
  <1>3. m * i \in Nat /\ m * j \in Nat
    BY SMT
  <1> QED
    BY <1>1, <1>2, <1>3

LEMMA ReachedByJump ==
  ASSUME Inv, Jump
  PROVE  \E j \in Nat : /\ candidate' = Occurrence(j)
                        /\ j > 0 => anchor.index + months * (j - 1) < after.index
  <1>1. months \in Nat \ {0} /\ anchor.index \in Nat /\ after.index \in Nat /\ anchor \in Date
    BY Arguments
  <1>2. CASE NotAfter(anchor, after)
    <2>1. Estimate \in Nat /\ Estimate = after.index - anchor.index
      BY <1>1, <1>2 DEF Estimate, NotAfter, Earlier
    <2> DEFINE q == Estimate \div months
    <2>2. q \in Nat /\ months * q <= Estimate
      BY <1>1, <2>1, OneMorePeriod
    <2>3. Skipped = IF q >= 1 THEN q - 1 ELSE 0
      BY DEF Skipped
    <2> HIDE DEF q
    <2>4. Skipped \in Nat /\ candidate' = Occurrence(Skipped)
      BY <1>2, <2>2, <2>3 DEF Jump, Occurrence
    <2>5. ASSUME Skipped > 0 PROVE anchor.index + months * (Skipped - 1) < after.index
      <3>1. Skipped - 1 \in Nat /\ Skipped - 1 < q
        BY <2>2, <2>3, <2>5
      <3>2. months * (Skipped - 1) + months <= months * q
            /\ months * (Skipped - 1) \in Nat /\ months * q \in Nat
        BY <1>1, <2>2, <3>1, TimesGrows
      <3> QED
        BY <1>1, <2>1, <2>2, <3>2
    <2> QED
      BY <2>4, <2>5
  <1>3. CASE ~NotAfter(anchor, after)
    <2>1. candidate' = anchor
      BY <1>3 DEF Jump
    <2>2. anchor \in [index : Nat, day : 1..31] /\ anchor.day <= DaysIn(anchor.index)
      BY <1>1 DEF Date
    <2>3. months * 0 = 0 /\ anchor.index + 0 = anchor.index
      BY <1>1
    <2>4. Occurrence(0) = [index |-> anchor.index, day |-> anchor.day]
      BY <2>2, <2>3 DEF Occurrence, add_months
    <2>5. Occurrence(0) = anchor
      BY <2>2, <2>4
    <2> QED
      BY <2>1, <2>5
  <1> QED
    BY <1>2, <1>3

LEMMA ReachedNext ==
  ASSUME Inv, Reached, [Next]_vars
  PROVE  Reached'
  <1>1. /\ anchor.index \in Nat /\ anchor.day \in 1..31 /\ months \in Nat \ {0}
        /\ after.index \in Nat /\ candidate \in Date
        /\ candidate.index \in Nat /\ candidate.day \in 1..31
    BY Arguments
  <1>2. CASE Jump
    <2>1. PICK j \in Nat : /\ candidate' = Occurrence(j)
                           /\ j > 0 => anchor.index + months * (j - 1) < after.index
      BY <1>2, ReachedByJump
    <2>2. UNCHANGED <<anchor, after, months>>
      BY <1>2 DEF Jump
    <2>3. Occurrence(j).index = anchor.index + months * j /\ Occurrence(j).day \in 1..31
      BY OccurrenceIs
    <2>4. ASSUME j > 0 PROVE NotAfter(Occurrence(j - 1), after)
      <3>1. Occurrence(j - 1).index = anchor.index + months * (j - 1)
        BY <2>4, OccurrenceIs
      <3> QED
        BY <2>1, <2>4, <3>1 DEF NotAfter, Earlier
    <2>5. j > 0 => months * (j - 1) \in Nat
      BY <1>1
    <2>6. /\ candidate'.index = anchor.index + months * j
          /\ candidate'.day <= Occurrence(j).day
          /\ candidate' = Occurrence(j)
          /\ j > 0 => /\ anchor.index + months * (j - 1) <= after.index
                      /\ NotAfter(Occurrence(j - 1), after)
      BY <1>1, <2>1, <2>3, <2>4, <2>5
    <2>7. IsReached(j)'
      BY <2>2, <2>6 DEF IsReached, Occurrence
    <2> QED
      BY <1>2, <2>7 DEF Reached, Jump
  <1>3. CASE Step
    <2>1. /\ pc = "loop" /\ NotAfter(candidate, after)
          /\ candidate' = add_months(candidate, months)
          /\ UNCHANGED <<anchor, after, months>>
      BY <1>3 DEF Step, MoreToGo
    <2>2. PICK j \in Nat : IsReached(j)
      BY <2>1 DEF Reached
    <2>3. /\ months * j \in Nat /\ months * (j + 1) = months * j + months
          /\ Occurrence(j).day <= anchor.day /\ Occurrence(j).day \in 1..31
      BY OccurrenceIs
    <2> DEFINE index == anchor.index + months * (j + 1)
    <2>4. /\ candidate.index + months = index /\ index \in Nat
          /\ candidate.day <= anchor.day
          /\ anchor.day <= 28 => candidate = Occurrence(j)
      BY <1>1, <2>2, <2>3 DEF IsReached
    <2>5. DaysIn(index) \in 28..31
      BY <2>4, DaysInRange
    <2>6. Occurrence(j + 1) = [index |-> index,
                               day |-> IF anchor.day <= DaysIn(index) THEN anchor.day
                                       ELSE DaysIn(index)]
      BY DEF Occurrence, add_months
    <2> HIDE DEF index
    <2>7. candidate' = [index |-> index,
                        day |-> IF candidate.day <= DaysIn(index) THEN candidate.day
                                ELSE DaysIn(index)]
      BY <2>1, <2>4 DEF add_months
    <2>8. candidate'.index = index /\ candidate'.day <= Occurrence(j + 1).day
      BY <1>1, <2>4, <2>5, <2>6, <2>7
    <2>9. anchor.day <= 28 => candidate' = Occurrence(j + 1)
      <3>1. anchor.day <= 28 => candidate.day = anchor.day
        BY <2>4, OccurrenceIs
      <3> QED
        BY <2>5, <2>6, <2>7, <3>1
    <2>10. /\ anchor.index + months * j <= after.index
           /\ anchor.day <= 28 => NotAfter(Occurrence(j), after)
      <3>1. candidate.index <= after.index
        BY <1>1, <2>1 DEF NotAfter, Earlier
      <3> QED
        BY <2>1, <2>2, <2>4, <3>1 DEF IsReached
    <2>11. j + 1 \in Nat /\ (j + 1) - 1 = j
      OBVIOUS
    <2>12. IsReached(j + 1)'
      BY <2>1, <2>8, <2>9, <2>10, <2>11 DEF IsReached, Occurrence, index
    <2> QED
      BY <1>3, <2>11, <2>12 DEF Reached, Step
  <1>4. CASE Return \/ UNCHANGED vars
    <2>1. /\ UNCHANGED <<anchor, after, months, candidate>>
          /\ pc' # "start" => pc # "start"
          /\ pc' = "returned" => ~NotAfter(candidate, after)
      BY <1>4 DEF Return, vars, MoreToGo, Reached
    <2> QED
      BY <2>1 DEF Reached, IsReached, Occurrence, NotAfter, Earlier
  <1> QED
    BY <1>2, <1>3, <1>4 DEF Next

LEMMA ReachedHolds == Spec => []Reached
  <1>1. Init => Reached
    BY DEF Init, Reached
  <1>2. Inv /\ Reached /\ [Next]_vars => Reached'
    BY ReachedNext
  <1> QED
    BY <1>1, <1>2, InvHolds, PTL DEF Spec

\* The docstring's occurrence is the candidate's, or the one before it; up to
\* the 28th it is the candidate's.
LEMMA ExpectedIs ==
  ASSUME Inv, NEW j \in Nat, IsReached(j), ~NotAfter(candidate, after)
  PROVE  \E k \in Nat : /\ Expected = Occurrence(k)
                        /\ k = j \/ k + 1 = j
                        /\ anchor.day <= 28 => k = j
  <1>1. /\ anchor.index \in Nat /\ months \in Nat \ {0} /\ after.index \in Nat
        /\ after \in Date /\ candidate \in Date
        /\ candidate.index \in Nat /\ candidate.day \in 1..31 /\ after.day \in 1..31
    BY Arguments
  <1>2. \A k \in Nat : /\ Occurrence(k).index = anchor.index + months * k
                       /\ Occurrence(k).day \in 1..31 /\ Occurrence(k) \in Date
    BY OccurrenceIs
  <1>3. ~NotAfter(Occurrence(j), after)
    <2>1. candidate.index = Occurrence(j).index /\ candidate.day <= Occurrence(j).day
      BY <1>2 DEF IsReached
    <2>2. candidate.index > after.index
          \/ (candidate.index = after.index /\ candidate.day >= after.day)
      BY <1>1 DEF NotAfter, Earlier
    <2>3. candidate # after
      BY DEF NotAfter
    <2>4. ASSUME Occurrence(j) = after PROVE FALSE
      <3>1. candidate.index = after.index /\ candidate.day = after.day
        BY <1>1, <2>1, <2>2, <2>4
      <3>2. candidate = after
        BY <1>1, <3>1 DEF Date
      <3> QED
        BY <2>3, <3>2
    <2>5. ~Earlier(Occurrence(j), after)
      <3> DEFINE o == Occurrence(j)
      <3>1. o.index \in Nat /\ o.day \in 1..31 /\ candidate.index = o.index
            /\ candidate.day <= o.day
        BY <1>1, <1>2, <2>1
      <3> HIDE DEF o
      <3>2. ~Earlier(o, after)
        BY <1>1, <2>2, <3>1 DEF Earlier
      <3> QED
        BY <3>2 DEF o
    <2> QED
      BY <2>4, <2>5 DEF NotAfter
  <1>4. ASSUME NEW i \in Nat, i + 1 < j PROVE NotAfter(Occurrence(i), after)
    <2>1. j > 0 /\ j - 1 \in Nat /\ i < j - 1
      BY <1>4
    <2>2. anchor.index + months * (j - 1) <= after.index
      BY <2>1 DEF IsReached
    <2>3. months * i + months <= months * (j - 1) /\ months * i \in Nat /\ months * (j - 1) \in Nat
      BY <1>1, <2>1, TimesGrows
    <2>4. Occurrence(i).index < after.index
      <3> DEFINE x == months * i
                 y == months * (j - 1)
      <3>1. x + months <= y /\ x \in Nat /\ y \in Nat /\ anchor.index + y <= after.index
        BY <2>2, <2>3
      <3>2. Occurrence(i).index = anchor.index + x
        BY <1>2
      <3> HIDE DEF x, y
      <3> QED
        BY <1>1, <3>1, <3>2
    <2> QED
      BY <2>4 DEF NotAfter, Earlier
  <1> DEFINE bound == IF Estimate < 0 THEN 0 ELSE Estimate + 1
             First(k) == /\ ~NotAfter(Occurrence(k), after)
                         /\ \A i \in 0..(k - 1) : NotAfter(Occurrence(i), after)
             chosen == CHOOSE k \in 0..bound : First(k)
  <1>5. bound \in Nat /\ j <= bound
    <2>1. Estimate = after.index - anchor.index /\ Estimate \in Int
      BY <1>1 DEF Estimate
    <2>2. bound \in Nat
      BY <2>1
    <2>3. CASE j > 0
      <3>1. anchor.index + months * (j - 1) <= after.index
        BY <2>3 DEF IsReached
      <3>2. j - 1 <= months * (j - 1) /\ months * (j - 1) \in Nat
        <4>1. j - 1 \in Nat
          BY <2>3
        <4>2. CASE j - 1 = 0
          BY <1>1, <4>2
        <4>3. CASE 0 < j - 1
          BY <1>1, <4>1, <4>3, TimesGrows
        <4> QED
          BY <4>1, <4>2, <4>3
      <3>3. j - 1 <= Estimate /\ ~(Estimate < 0)
        BY <1>1, <2>1, <3>1, <3>2
      <3> QED
        BY <2>1, <2>2, <3>3
    <2>4. CASE j = 0
      BY <2>2, <2>4
    <2> QED
      BY <2>3, <2>4
  <1> HIDE DEF bound
  <1>6. \E k \in 0..bound : First(k)
    <2> DEFINE S == {k \in Nat : ~NotAfter(Occurrence(k), after)}
    <2>1. j \in S
      BY <1>3
    <2>2. PICK k \in S : \A i \in S : k <= i
      <3>1. S \in SUBSET Nat /\ S # {}
        BY <2>1
      <3> HIDE DEF S
      <3> QED
        BY <3>1, LeastElement
    <2>3. k \in Nat /\ k <= j /\ ~NotAfter(Occurrence(k), after)
      BY <2>1, <2>2
    <2>4. \A i \in 0..(k - 1) : NotAfter(Occurrence(i), after)
      BY <2>2, <2>3
    <2> QED
      BY <1>5, <2>3, <2>4
  <1>7. chosen \in 0..bound /\ First(chosen)
    <2> HIDE DEF First
    <2> QED
      BY <1>6
  <1>8. Expected = Occurrence(chosen)
    BY DEF Expected, bound
  <1> HIDE DEF chosen
  <1>9. chosen \in Nat /\ chosen <= j
    BY <1>3, <1>5, <1>7
  <1>10. chosen = j \/ chosen + 1 = j
    BY <1>4, <1>7, <1>9
  <1>11. anchor.day <= 28 => chosen = j
    <2> SUFFICES ASSUME anchor.day <= 28, chosen + 1 = j PROVE FALSE
      BY <1>10
    <2>1. j > 0 /\ j - 1 = chosen
      BY <1>9
    <2>2. NotAfter(Occurrence(j - 1), after)
      BY <2>1 DEF IsReached
    <2> QED
      BY <1>7, <2>1, <2>2
  <1> QED
    BY <1>8, <1>9, <1>10, <1>11

\* For an anchor up to the 28th of its month the projection is what its
\* docstring says, for every pair of dates and every rule.
THEOREM ProjectionIsExact == Spec => []ExactUpToThe28th
  <1>1. Inv /\ Reached => ExactUpToThe28th
    <2> SUFFICES ASSUME Inv, Reached, pc = "returned", anchor.day <= 28
                 PROVE  candidate = Expected
      BY DEF ExactUpToThe28th
    <2>1. PICK j \in Nat : IsReached(j)
      BY DEF Reached
    <2>2. Expected = Occurrence(j)
      BY <2>1, ExpectedIs DEF Reached
    <2> QED
      BY <2>1, <2>2 DEF IsReached
  <1> QED
    BY <1>1, InvHolds, ReachedHolds, PTL

\* For every other anchor the drift is bounded by one period of the rule, stays
\* in the months the rule names, and never moves to a later day of the month.
THEOREM DriftStaysBounded == Spec => []DriftIsBounded
  <1>1. Inv /\ Reached => DriftIsBounded
    <2> SUFFICES ASSUME Inv, Reached, pc = "returned"
                 PROVE  /\ candidate.index \in {Expected.index, Expected.index + months}
                        /\ (candidate.index - anchor.index) % months = 0
                        /\ candidate.day <= anchor.day
      BY DEF DriftIsBounded
    <2>1. PICK j \in Nat : IsReached(j)
      BY DEF Reached
    <2>2. PICK k \in Nat : Expected = Occurrence(k) /\ (k = j \/ k + 1 = j)
      BY <2>1, ExpectedIs DEF Reached
    <2>3. /\ anchor.index \in Nat /\ anchor.day \in 1..31 /\ months \in Nat \ {0}
          /\ candidate.day \in 1..31
      BY Arguments
    <2>4. candidate.index = anchor.index + months * j /\ candidate.day <= Occurrence(j).day
      BY <2>1 DEF IsReached
    <2>5. /\ months * k \in Nat /\ months * (k + 1) = months * k + months
          /\ Occurrence(k).index = anchor.index + months * k
          /\ Occurrence(j).day <= anchor.day /\ Occurrence(j).day \in 1..31
      BY OccurrenceIs
    <2>6. candidate.index \in {Expected.index, Expected.index + months}
      <3>1. CASE k = j
        BY <2>2, <2>4, <2>5, <3>1
      <3>2. CASE k + 1 = j
        <4> DEFINE x == months * k
        <4>1. x \in Nat /\ months * j = x + months /\ Expected.index = anchor.index + x
          BY <2>2, <2>5, <3>2
        <4>2. candidate.index = anchor.index + (x + months)
          BY <2>4, <4>1
        <4> HIDE DEF x
        <4> QED
          BY <2>3, <4>1, <4>2
      <3> QED
        BY <2>2, <3>1, <3>2
    <2>7. (candidate.index - anchor.index) % months = 0
      <3>1. months * j \in Nat /\ (months * j) % months = 0
        BY <2>3, MultipleDivides
      <3> DEFINE x == months * j
      <3>2. candidate.index - anchor.index = x
        BY <2>3, <2>4, <3>1
      <3> QED
        BY <3>1, <3>2
    <2> QED
      BY <2>3, <2>4, <2>5, <2>6, <2>7
  <1> QED
    BY <1>1, InvHolds, ReachedHolds, PTL
=============================================================================
