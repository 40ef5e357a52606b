---------------------- MODULE ObligationRegisterProofs ----------------------
(***************************************************************************)
(* Theorems about ObligationRegister, for any number of obligations and    *)
(* requests, any timings, any calendar and any number of faults; and about *)
(* the pure operators of DueDates it is built on.                          *)
(***************************************************************************)
EXTENDS ObligationRegister, NatLemmas

(* Dates *)

\* next_occurrence returns a day strictly after `after' ("the first occurrence
\* strictly after", its docstring): the scanner's projection of a recurring
\* duty is never in the past.
THEOREM NextOccurrenceIsAfter ==
  ASSUME NEW t \in Timing, NEW after \in Int
  PROVE  NextOccurrence(t, after) \in Int /\ NextOccurrence(t, after) > after
  <1>1. t.anchor \in Int /\ t.period \in Nat \ {0}
    BY DEF Timing
  <1>2. CASE t.anchor > after
    BY <1>1, <1>2 DEF NextOccurrence
  <1>3. CASE ~(t.anchor > after)
    <2>1. after - t.anchor \in Nat
      BY <1>1, <1>3
    <2>2. t.period * (((after - t.anchor) \div t.period) + 1) \in Nat
      BY <1>1, <2>1, OneMorePeriod
    <2>3. t.period * (((after - t.anchor) \div t.period) + 1) > after - t.anchor
      BY <1>1, <2>1, OneMorePeriod
    <2> DEFINE ahead == t.period * (((after - t.anchor) \div t.period) + 1)
    <2>4. NextOccurrence(t, after) = t.anchor + ahead
      BY <1>3 DEF NextOccurrence
    <2>5. ahead \in Nat /\ ahead > after - t.anchor
      BY <2>2, <2>3
    <2> HIDE DEF ahead
    <2> QED
      BY <1>1, <2>4, <2>5
  <1> QED
    BY <1>2, <1>3

\* And it skips none: the occurrence one period earlier is not after `after'.
THEOREM NextOccurrenceIsFirst ==
  ASSUME NEW t \in Timing, NEW after \in Int, NextOccurrence(t, after) # t.anchor
  PROVE  NextOccurrence(t, after) - t.period <= after
  <1>1. t.anchor \in Int /\ t.period \in Nat \ {0} /\ ~(t.anchor > after)
    BY DEF Timing, NextOccurrence
  <1>2. after - t.anchor \in Nat
    BY <1>1
  <1> DEFINE q == (after - t.anchor) \div t.period
  <1>3. q \in Nat /\ t.period * q <= after - t.anchor
    BY <1>1, <1>2, OneMorePeriod
  <1>4. NextOccurrence(t, after) = t.anchor + t.period * (q + 1)
    BY <1>1 DEF NextOccurrence
  <1> HIDE DEF q
  <1>5. t.period * (q + 1) = t.period * q + t.period
    BY <1>1, <1>3
  <1>6. t.period * q \in Int
    BY <1>1, <1>3
  <1> QED
    BY <1>1, <1>3, <1>4, <1>5, <1>6

\* effective_due_date yields a day or none; a duty with no fixed date is never
\* projected into the past.
LEMMA DueDateType ==
  ASSUME NEW t \in Timing, NEW day \in Int
  PROVE  /\ effective_due_date(t, day) \in OptionalDay
         /\ t.due = NoDate /\ effective_due_date(t, day) # NoDate
              => effective_due_date(t, day) >= day
  <1>1. NextOccurrence(t, day - 1) \in Int /\ NextOccurrence(t, day - 1) > day - 1
    BY NextOccurrenceIsAfter
  <1>2. t.due \in OptionalDay
    BY DEF Timing
  <1> QED
    BY <1>1, <1>2 DEF effective_due_date, OptionalDay

\* next_state says OVERDUE of past dates only, and DUE_SOON of dates within
\* the window only.
LEMMA NextStateMeaning ==
  ASSUME NEW due \in OptionalDay, NEW day \in Int
  PROVE  /\ next_state(due, day) \in {"OPEN", "DUE_SOON", "OVERDUE"}
         /\ next_state(due, day) = "OVERDUE" => due # NoDate /\ due < day
         /\ next_state(due, day) = "DUE_SOON"
              => due # NoDate /\ due <= day + DueSoonDays
  BY DEF next_state, OptionalDay

-----------------------------------------------------------------------------
(* Rows and changes *)

LEMMA RowIsNotNoRow == NoRow \notin Row
  BY NoRowAssumption, TimingsAssumption DEF Row

LEMMA FreshIsARow ==
  ASSUME NEW t \in Timings
  PROVE  Fresh(t) \in Row /\ ~IsTerminal(Fresh(t))
  BY DEF Fresh, Row, ObligationState, TERMINAL_STATES, OptionalDay, IsTerminal

\* The scan's verdict on a copy is a row with the same terms, open or flagged.
LEMMA EvaluatedIsARow ==
  ASSUME NEW row \in Row, scanDay \in Int
  PROVE  /\ Evaluated(row) \in Row
         /\ Evaluated(row).timing = row.timing
         /\ Evaluated(row).state \in CalendarState
         /\ Evaluated(row).state =
              next_state(effective_due_date(row.timing, scanDay), scanDay)
         /\ Evaluated(row).nextDue = effective_due_date(row.timing, scanDay)
  <1>1. row.timing \in Timing
    BY TimingsAssumption DEF Row
  <1> DEFINE due == effective_due_date(row.timing, scanDay)
  <1>2. due \in OptionalDay
    BY <1>1, DueDateType
  <1> HIDE DEF due
  <1>3. next_state(due, scanDay) \in CalendarState
    BY <1>2, NextStateMeaning DEF CalendarState
  <1>4. Evaluated(row) = [row EXCEPT !.state = next_state(due, scanDay), !.nextDue = due]
    BY DEF Evaluated, due
  <1> QED
    BY <1>2, <1>3, <1>4 DEF Row, CalendarState, ObligationState, due

LEMMA ChangesAreChanges ==
  /\ \A o \in Obligations, s \in CalendarState : <<Scanner, o, s>> \in Change
  /\ \A r \in Requests, o \in Obligations, d \in Decision : <<r, o, d>> \in Change
  BY DEF Change, CalendarState, Decision, ObligationState, TERMINAL_STATES

LEMMA CountedIsATally ==
  ASSUME NEW tally \in [Change -> Nat], NEW c \in Change
  PROVE  /\ Counted(tally, c) \in [Change -> Nat]
         /\ Counted(tally, c)[c] = tally[c] + 1
         /\ \A d \in Change : d # c => Counted(tally, c)[d] = tally[d]
  BY DEF Counted

-----------------------------------------------------------------------------
(* Types *)

LEMMA TypeOKInit == Init => TypeOK
  <1> SUFFICES ASSUME Init PROVE TypeOK
    OBVIOUS
  <1>1. rows \in [Obligations -> Stored]
    BY FreshIsARow DEF Init, Stored
  <1> QED
    BY <1>1, BoundsAssumption
       DEF Init, TypeOK, Stored, IsTerminal, Steps, CalendarState

LEMMA TypeOKNext == TypeOK /\ [Next]_vars => TypeOK'
  <1> SUFFICES ASSUME TypeOK, [Next]_vars PROVE TypeOK'
    OBVIOUS
  <1> USE DEF TypeOK, IsTerminal
  <1>1. CASE DayPasses
    BY <1>1, BoundsAssumption DEF DayPasses, scanVars, requestVars, faults
  <1>2. CASE ScanStart
    BY <1>2 DEF ScanStart, requestVars, faults
  <1>3. ASSUME NEW o \in Obligations, ScanFetch(o) PROVE TypeOK'
    BY <1>3 DEF ScanFetch, requestVars, faults, Active
  <1>4. ASSUME NEW o \in Obligations, ScanPass(o) PROVE TypeOK'
    BY <1>4 DEF ScanPass, requestVars, faults, Stored
  <1>5. ASSUME NEW o \in Obligations, ScanWrite(o) PROVE TypeOK'
    <2> DEFINE new == Evaluated(held[o])
    <2>1. held[o] \in Row /\ scanDay \in Int
      BY <1>5 DEF ScanWrite, Stored
    <2>2. new \in Row /\ new.state \in CalendarState
      BY <2>1, EvaluatedIsARow
    <2>3. <<Scanner, o, new.state>> \in Change
      BY <2>2, ChangesAreChanges
    <2>4. rows' \in [Obligations -> Stored]
      BY <1>5, <2>2 DEF ScanWrite, Stored
    <2>5. wrote' \in [Change -> Nat]
      BY <1>5, <2>3, CountedIsATally DEF ScanWrite
    <2>6. /\ moved' \subseteq Obligations \X CalendarState
          /\ toAudit' \subseteq {Scanner} \X Obligations \X CalendarState
      BY <1>5, <2>2 DEF ScanWrite
    <2>7. /\ held' \in [Obligations -> Stored]
          /\ \A p \in Obligations : ~IsTerminal(held'[p])
      BY <1>5 DEF ScanWrite, Stored
    <2> HIDE DEF new
    <2> QED
      BY <1>5, <2>4, <2>5, <2>6, <2>7 DEF ScanWrite, requestVars, faults
  <1>6. CASE ScanAudit
    <2>1. \A c \in toAudit : c \in Change
      BY ChangesAreChanges
    <2>2. logged' \in [Change -> Nat]
      BY <1>6, <2>1, CountedIsATally DEF ScanAudit
    <2> QED
      BY <1>6, <2>2 DEF ScanAudit, requestVars, faults
  <1>7. CASE ScanFinish
    <2>1. told' \in [Obligations -> CalendarState] /\ lost' \in 0..MaxLost
      BY <1>7, BoundsAssumption DEF ScanFinish, CalendarState
    <2> QED
      BY <1>7, <2>1 DEF ScanFinish, requestVars
  <1>8. CASE ScanCrash
    BY <1>8, BoundsAssumption DEF ScanCrash, requestVars, Stored
  <1>9. ASSUME NEW r \in Requests, DecideRead(r) PROVE TypeOK'
    <2>1. Asked(r) \in Obligations
      BY DEF Asked
    <2>2. /\ step' \in [Requests -> Steps]
          /\ seen' \in [Requests -> Stored]
          /\ \A q \in Requests : step'[q] = "write" => seen'[q] # NoRow
      BY <1>9, <2>1 DEF DecideRead, Steps
    <2> QED
      BY <1>9, <2>2 DEF DecideRead, scanVars, faults
  <1>10. ASSUME NEW r \in Requests, DecideWrite(r) PROVE TypeOK'
    <2>1. Asked(r) \in Obligations /\ asks[r].decision \in Decision
      BY DEF Asked
    <2>2. seen[r] \in Row
      BY <1>10 DEF DecideWrite, Stored
    <2>3. [seen[r] EXCEPT !.state = asks[r].decision] \in Row
      BY <2>1, <2>2 DEF Row, Decision, ObligationState, TERMINAL_STATES
    <2>4. rows' \in [Obligations -> Stored]
      BY <1>10, <2>3 DEF DecideWrite, Stored
    <2>5. wrote' \in [Change -> Nat]
      BY <1>10, <2>1, ChangesAreChanges, CountedIsATally DEF DecideWrite, Ruling
    <2>6. /\ step' \in [Requests -> Steps] /\ seen' \in [Requests -> Stored]
          /\ \A q \in Requests : step'[q] = "write" => seen'[q] # NoRow
      BY <1>10 DEF DecideWrite, Steps, Stored
    <2> QED
      BY <1>10, <2>4, <2>5, <2>6 DEF DecideWrite, scanVars, faults
  <1>11. ASSUME NEW r \in Requests, DecideAudit(r) PROVE TypeOK'
    <2>1. Asked(r) \in Obligations /\ asks[r].decision \in Decision
      BY DEF Asked
    <2>2. logged' \in [Change -> Nat]
      BY <1>11, <2>1, ChangesAreChanges, CountedIsATally DEF DecideAudit, Ruling
    <2> QED
      BY <1>11, <2>2 DEF DecideAudit, scanVars, faults, Steps
  <1>12. ASSUME NEW r \in Requests, DecideFail(r) PROVE TypeOK'
    BY <1>12, BoundsAssumption DEF DecideFail, scanVars, Steps, Stored
  <1>13. ASSUME NEW o \in Obligations, Reextract(o) PROVE TypeOK'
    <2>1. rows' \in [Obligations -> Stored]
      BY <1>13, FreshIsARow DEF Reextract, Stored
    <2> QED
      BY <1>13, <2>1, BoundsAssumption DEF Reextract, scanVars, requestVars
  <1>14. CASE UNCHANGED vars
    BY <1>14 DEF vars, scanVars, requestVars, faults
  <1> QED
    BY <1>1, <1>2, <1>3, <1>4, <1>5, <1>6, <1>7, <1>8, <1>9, <1>10, <1>11,
       <1>12, <1>13, <1>14 DEF Next, ScanStep

\* Every variable keeps its type, and no process acts on the copy of a row it
\* should not have taken.
THEOREM TypeCorrect == Spec => []TypeOK
  BY TypeOKInit, TypeOKNext, PTL DEF Spec

-----------------------------------------------------------------------------
(* The trail never overstates *)

\* Inductive: whoever is about to record a change has made it once more often
\* than it is recorded.
LedgerInv ==
  /\ AuditNeverOverstates
  /\ \A c \in toAudit : logged[c] < wrote[c]
  /\ \A r \in Requests : step[r] = "audit" => logged[Ruling(r)] < wrote[Ruling(r)]

LEMMA RulingIsAChange ==
  ASSUME TypeOK, NEW r \in Requests
  PROVE  Ruling(r) \in Change
  BY ChangesAreChanges DEF TypeOK, Ruling, Asked

LEMMA PendingAreChanges ==
  ASSUME TypeOK
  PROVE  \A c \in toAudit : c \in Change /\ c[1] = Scanner
  BY ChangesAreChanges DEF TypeOK

LEMMA LedgerInit == Init => LedgerInv
  <1> SUFFICES ASSUME Init PROVE LedgerInv
    OBVIOUS
  <1>1. \A r \in Requests : step[r] = "new"
    BY DEF Init
  <1>2. \A c \in Change : logged[c] = 0 /\ wrote[c] = 0
    BY DEF Init
  <1> QED
    BY <1>1, <1>2 DEF Init, LedgerInv, AuditNeverOverstates

LEMMA LedgerNext == TypeOK /\ LedgerInv /\ [Next]_vars => LedgerInv'
  <1> SUFFICES ASSUME TypeOK, LedgerInv, [Next]_vars PROVE LedgerInv'
    OBVIOUS
  <1>a. wrote \in [Change -> Nat] /\ logged \in [Change -> Nat]
    BY DEF TypeOK
  <1>b. \A c \in Change : logged[c] <= wrote[c]
    BY DEF LedgerInv, AuditNeverOverstates
  <1>c. \A r \in Requests : Ruling(r) \in Change /\ Ruling(r)[1] = r
    BY RulingIsAChange DEF Ruling
  <1>d. \A r \in Requests : asks' = asks => Ruling(r)' = Ruling(r)
    BY DEF Ruling, Asked
  <1>1. CASE UNCHANGED <<wrote, logged, step, asks>> /\ toAudit' \subseteq toAudit
    BY <1>1, <1>d DEF LedgerInv, AuditNeverOverstates
  <1>2. ASSUME NEW o \in Obligations, ScanWrite(o) PROVE LedgerInv'
    <2> DEFINE new == Evaluated(held[o])
               change == <<Scanner, o, new.state>>
    <2>1. new.state \in CalendarState
      BY <1>2, EvaluatedIsARow DEF ScanWrite, TypeOK, Stored
    <2>2. change \in Change /\ change[1] = Scanner
      BY <2>1, ChangesAreChanges
    <2>3. /\ wrote' = IF new.state # held[o].state \/ Overrides(o, new)
                      THEN Counted(wrote, change) ELSE wrote
          /\ toAudit = {}
          /\ toAudit' = IF new.state # held[o].state THEN {change} ELSE {}
          /\ UNCHANGED <<logged, step, asks>>
      BY <1>2 DEF ScanWrite, Transition, requestVars
    <2> HIDE DEF new, change
    <2>4. CASE new.state = held[o].state /\ ~Overrides(o, new)
      BY <2>3, <2>4, <1>1
    <2>5. CASE new.state # held[o].state \/ Overrides(o, new)
      <3>1. /\ wrote'[change] = wrote[change] + 1
            /\ \A c \in Change : c # change => wrote'[c] = wrote[c]
        BY <1>a, <2>2, <2>3, <2>5, CountedIsATally
      <3>2. AuditNeverOverstates'
        BY <1>a, <1>b, <2>2, <2>3, <3>1 DEF AuditNeverOverstates
      <3>3. \A c \in toAudit' : logged'[c] < wrote'[c]
        BY <1>a, <1>b, <2>2, <2>3, <2>5, <3>1
      <3>4. \A r \in Requests : step'[r] = "audit"
              => logged'[Ruling(r)'] < wrote'[Ruling(r)']
        <4> SUFFICES ASSUME NEW r \in Requests, step'[r] = "audit"
                     PROVE  logged'[Ruling(r)'] < wrote'[Ruling(r)']
          OBVIOUS
        <4>1. Ruling(r) # change
          BY <1>c, <2>2, ScannerAssumption
        <4> QED
          BY <1>c, <1>d, <2>3, <3>1, <4>1 DEF LedgerInv
      <3> QED
        BY <3>2, <3>3, <3>4 DEF LedgerInv
    <2> QED
      BY <2>4, <2>5
  <1>3. CASE ScanAudit
    <2>1. PICK c \in toAudit : logged' = Counted(logged, c)
      BY <1>3 DEF ScanAudit
    <2>2. toAudit' = {} /\ UNCHANGED <<wrote, step, asks>>
      BY <1>3 DEF ScanAudit, requestVars
    <2>3. c \in Change /\ c[1] = Scanner /\ logged[c] < wrote[c]
      BY PendingAreChanges DEF LedgerInv
    <2>4. /\ logged'[c] = logged[c] + 1
          /\ \A d \in Change : d # c => logged'[d] = logged[d]
      BY <1>a, <2>1, <2>3, CountedIsATally
    <2>5. AuditNeverOverstates'
      BY <1>a, <1>b, <2>2, <2>3, <2>4 DEF AuditNeverOverstates
    <2>6. \A r \in Requests : step'[r] = "audit"
            => logged'[Ruling(r)'] < wrote'[Ruling(r)']
      <3> SUFFICES ASSUME NEW r \in Requests, step'[r] = "audit"
                   PROVE  logged'[Ruling(r)'] < wrote'[Ruling(r)']
        OBVIOUS
      <3>1. Ruling(r) # c
        BY <1>c, <2>3, ScannerAssumption
      <3> QED
        BY <1>c, <1>d, <2>2, <2>4, <3>1 DEF LedgerInv
    <2> QED
      BY <2>2, <2>5, <2>6 DEF LedgerInv
  <1>4. ASSUME NEW r \in Requests, DecideWrite(r) PROVE LedgerInv'
    <2>1. /\ wrote' = Counted(wrote, Ruling(r))
          /\ step' = [step EXCEPT ![r] = "audit"]
          /\ UNCHANGED <<logged, toAudit, asks>>
      BY <1>4 DEF DecideWrite, scanVars
    <2>2. /\ wrote'[Ruling(r)] = wrote[Ruling(r)] + 1
          /\ \A c \in Change : c # Ruling(r) => wrote'[c] = wrote[c]
      BY <1>a, <1>c, <2>1, CountedIsATally
    <2>3. AuditNeverOverstates'
      BY <1>a, <1>b, <1>c, <2>1, <2>2 DEF AuditNeverOverstates
    <2>4. \A c \in toAudit' : logged'[c] < wrote'[c]
      <3> SUFFICES ASSUME NEW c \in toAudit PROVE logged'[c] < wrote'[c]
        BY <2>1
      <3>1. c \in Change /\ c # Ruling(r)
        BY <1>c, PendingAreChanges, ScannerAssumption
      <3> QED
        BY <2>1, <2>2, <3>1 DEF LedgerInv
    <2>5. \A q \in Requests : step'[q] = "audit"
            => logged'[Ruling(q)'] < wrote'[Ruling(q)']
      <3> SUFFICES ASSUME NEW q \in Requests, step'[q] = "audit"
                   PROVE  logged'[Ruling(q)] < wrote'[Ruling(q)]
        BY <1>d, <2>1
      <3>1. CASE q = r
        BY <1>a, <1>b, <1>c, <2>1, <2>2, <3>1
      <3>2. CASE q # r
        <4>1. Ruling(q) # Ruling(r) /\ step[q] = "audit"
          BY <1>c, <2>1, <3>2 DEF TypeOK
        <4> QED
          BY <1>c, <2>1, <2>2, <4>1 DEF LedgerInv
      <3> QED
        BY <3>1, <3>2
    <2> QED
      BY <2>3, <2>4, <2>5 DEF LedgerInv
  <1>5. ASSUME NEW r \in Requests, DecideAudit(r) PROVE LedgerInv'
    <2>1. /\ logged' = Counted(logged, Ruling(r))
          /\ step' = [step EXCEPT ![r] = "ok"]
          /\ step[r] = "audit"
          /\ UNCHANGED <<wrote, toAudit, asks>>
      BY <1>5 DEF DecideAudit, scanVars
    <2>2. /\ logged'[Ruling(r)] = logged[Ruling(r)] + 1
          /\ \A c \in Change : c # Ruling(r) => logged'[c] = logged[c]
      BY <1>a, <1>c, <2>1, CountedIsATally
    <2>3. logged[Ruling(r)] < wrote[Ruling(r)]
      BY <2>1 DEF LedgerInv
    <2>4. AuditNeverOverstates'
      BY <1>a, <1>b, <1>c, <2>1, <2>2, <2>3 DEF AuditNeverOverstates
    <2>5. \A c \in toAudit' : logged'[c] < wrote'[c]
      <3> SUFFICES ASSUME NEW c \in toAudit PROVE logged'[c] < wrote'[c]
        BY <2>1
      <3>1. c \in Change /\ c # Ruling(r)
        BY <1>c, PendingAreChanges, ScannerAssumption
      <3> QED
        BY <2>1, <2>2, <3>1 DEF LedgerInv
    <2>6. \A q \in Requests : step'[q] = "audit"
            => logged'[Ruling(q)'] < wrote'[Ruling(q)']
      <3> SUFFICES ASSUME NEW q \in Requests, step'[q] = "audit"
                   PROVE  logged'[Ruling(q)] < wrote'[Ruling(q)]
        BY <1>d, <2>1
      <3>1. q # r /\ step[q] = "audit"
        BY <2>1 DEF TypeOK
      <3>2. Ruling(q) # Ruling(r)
        BY <1>c, <3>1
      <3> QED
        BY <1>c, <2>1, <2>2, <3>1, <3>2 DEF LedgerInv
    <2> QED
      BY <2>4, <2>5, <2>6 DEF LedgerInv
  <1>6. ASSUME NEW r \in Requests, DecideRead(r) \/ DecideFail(r) PROVE LedgerInv'
    <2>1. UNCHANGED <<wrote, logged, toAudit, asks>>
      BY <1>6 DEF DecideRead, DecideFail, scanVars
    <2>2. \A q \in Requests : step'[q] = "audit" => step[q] = "audit"
      BY <1>6 DEF DecideRead, DecideFail, TypeOK
    <2> QED
      BY <1>d, <2>1, <2>2 DEF LedgerInv, AuditNeverOverstates
  <1>7. ASSUME NEW o \in Obligations, ScanFetch(o) \/ ScanPass(o) \/ Reextract(o)
        PROVE  LedgerInv'
    BY <1>7, <1>1 DEF ScanFetch, ScanPass, Reextract, scanVars, requestVars
  <1>8. CASE DayPasses \/ ScanStart \/ ScanFinish \/ ScanCrash
    BY <1>8, <1>1 DEF DayPasses, ScanStart, ScanFinish, ScanCrash, scanVars,
                      requestVars
  <1>9. CASE UNCHANGED vars
    BY <1>9, <1>1 DEF vars, scanVars, requestVars
  <1> QED
    BY <1>2, <1>3, <1>4, <1>5, <1>6, <1>7, <1>8, <1>9 DEF Next, ScanStep

\* The audit container never records a change more often than the obligations
\* container underwent it, whatever dies and whoever overlaps: record follows
\* upsert in scan and in _record_decision.
THEOREM TrailNeverOverstates == Spec => []AuditNeverOverstates
  <1>1. Init => TypeOK /\ LedgerInv
    BY TypeOKInit, LedgerInit
  <1>2. TypeOK /\ LedgerInv /\ [Next]_vars => (TypeOK /\ LedgerInv)'
    BY TypeOKNext, LedgerNext
  <1>3. LedgerInv => AuditNeverOverstates
    BY DEF LedgerInv
  <1> QED
    BY <1>1, <1>2, <1>3, PTL DEF Spec

-----------------------------------------------------------------------------
(* A shown flag is true *)

\* What FlagsAreTrue asks of one row on one day.
TrueOn(row, day) ==
  /\ row.state = "OVERDUE" => row.timing.due # NoDate /\ row.timing.due < day
  /\ row.state = "DUE_SOON" => row.nextDue # NoDate /\ row.nextDue <= day + DueSoonDays

\* The scan's verdict is true on the scan's day: a recurring duty is projected
\* to that day or later, so only a fixed date can make it overdue.
LEMMA VerdictIsTrue ==
  ASSUME NEW row \in Row, scanDay \in Int
  PROVE  TrueOn(Evaluated(row), scanDay)
  <1> DEFINE due == effective_due_date(row.timing, scanDay)
  <1>1. row.timing \in Timing /\ row.timing.due \in OptionalDay
    BY TimingsAssumption DEF Row, Timing
  <1>2. due \in OptionalDay /\ (row.timing.due = NoDate /\ due # NoDate => due >= scanDay)
    BY <1>1, DueDateType
  <1>3. row.timing.due # NoDate => due = row.timing.due
    BY DEF effective_due_date
  <1>4. /\ Evaluated(row).timing = row.timing
        /\ Evaluated(row).state = next_state(due, scanDay)
        /\ Evaluated(row).nextDue = due
    BY EvaluatedIsARow
  <1> HIDE DEF due
  <1>5. /\ next_state(due, scanDay) = "OVERDUE" => due # NoDate /\ due < scanDay
        /\ next_state(due, scanDay) = "DUE_SOON"
             => due # NoDate /\ due <= scanDay + DueSoonDays
    BY <1>2, NextStateMeaning
  <1>6. due # NoDate => due \in Int
    BY <1>2 DEF OptionalDay
  <1> QED
    BY <1>1, <1>2, <1>3, <1>4, <1>5, <1>6 DEF TrueOn

\* Time only makes a flag truer.
LEMMA TruthLasts ==
  ASSUME NEW row \in Row, NEW d1 \in Int, NEW d2 \in Int, d1 <= d2, TrueOn(row, d1)
  PROVE  TrueOn(row, d2)
  <1>1. row.timing.due \in OptionalDay /\ row.nextDue \in OptionalDay
    BY TimingsAssumption DEF Row, Timing
  <1> QED
    BY <1>1, DueSoonAssumption DEF TrueOn, OptionalDay

LEMMA FlagsAreTrueNext == TypeOK /\ FlagsAreTrue /\ [Next]_vars => FlagsAreTrue'
  <1> SUFFICES ASSUME TypeOK, FlagsAreTrue, [Next]_vars,
                      NEW o \in Obligations, rows'[o] # NoRow
               PROVE  TrueOn(rows'[o], today')
    BY DEF FlagsAreTrue, TrueOn
  <1>a. rows[o] # NoRow => rows[o] \in Row /\ TrueOn(rows[o], today)
    BY DEF TypeOK, Stored, FlagsAreTrue, TrueOn
  <1>b. today \in Int /\ scanDay \in Int /\ scanDay <= today
    BY DEF TypeOK
  <1>1. CASE rows'[o] = rows[o] /\ today' = today
    BY <1>1, <1>a
  <1>2. CASE DayPasses
    <2>1. rows'[o] = rows[o] /\ today' = today + 1
      BY <1>2 DEF DayPasses
    <2> QED
      BY <2>1, <1>a, <1>b, TruthLasts
  <1>3. ASSUME NEW p \in Obligations, ScanWrite(p)
        PROVE  TrueOn(rows'[o], today')
    <2>1. rows' = [rows EXCEPT ![p] = Evaluated(held[p])] /\ today' = today
      BY <1>3 DEF ScanWrite
    <2>2. held[p] \in Row
      BY <1>3 DEF ScanWrite, TypeOK, Stored
    <2>3. Evaluated(held[p]) \in Row /\ TrueOn(Evaluated(held[p]), scanDay)
      BY <1>b, <2>2, EvaluatedIsARow, VerdictIsTrue
    <2>4. TrueOn(Evaluated(held[p]), today)
      BY <1>b, <2>3, TruthLasts
    <2>5. rows'[o] = IF o = p THEN Evaluated(held[p]) ELSE rows[o]
      BY <2>1 DEF TypeOK
    <2> QED
      BY <1>a, <2>1, <2>4, <2>5
  <1>4. ASSUME NEW r \in Requests, DecideWrite(r)
        PROVE  TrueOn(rows'[o], today')
    <2> DEFINE new == [seen[r] EXCEPT !.state = asks[r].decision]
    <2>1. seen[r] \in Row /\ asks[r].decision \in Decision
      BY <1>4 DEF DecideWrite, TypeOK, Stored
    <2>2. new.state \in Decision
      BY <2>1 DEF Row
    <2>3. TrueOn(new, today)
      BY <2>2 DEF TrueOn, Decision
    <2>4. rows'[o] = IF o = Asked(r) THEN new ELSE rows[o]
      BY <1>4 DEF DecideWrite, TypeOK
    <2>5. today' = today
      BY <1>4 DEF DecideWrite
    <2> HIDE DEF new
    <2> QED
      BY <1>a, <2>3, <2>4, <2>5
  <1>5. ASSUME NEW p \in Obligations, Reextract(p)
        PROVE  TrueOn(rows'[o], today')
    <2>1. PICK row \in {NoRow} \cup {Fresh(t) : t \in Timings} :
            rows' = [rows EXCEPT ![p] = row]
      BY <1>5 DEF Reextract
    <2>2. today' = today
      BY <1>5 DEF Reextract
    <2>3. rows'[o] = IF o = p THEN row ELSE rows[o]
      BY <2>1 DEF TypeOK
    <2>4. row # NoRow => TrueOn(row, today)
      BY <2>1 DEF Fresh, TrueOn
    <2> QED
      BY <1>a, <2>2, <2>3, <2>4
  <1>6. CASE ScanStart \/ ScanAudit \/ ScanFinish \/ ScanCrash
    BY <1>6, <1>1 DEF ScanStart, ScanAudit, ScanFinish, ScanCrash
  <1>7. ASSUME NEW p \in Obligations, ScanFetch(p) \/ ScanPass(p)
        PROVE  TrueOn(rows'[o], today')
    BY <1>7, <1>1 DEF ScanFetch, ScanPass
  <1>8. ASSUME NEW r \in Requests, DecideRead(r) \/ DecideAudit(r) \/ DecideFail(r)
        PROVE  TrueOn(rows'[o], today')
    BY <1>8, <1>1 DEF DecideRead, DecideAudit, DecideFail
  <1>9. CASE UNCHANGED vars
    BY <1>9, <1>1 DEF vars
  <1> QED
    BY <1>2, <1>3, <1>4, <1>5, <1>6, <1>7, <1>8, <1>9 DEF Next, ScanStep

\* No obligation is ever shown OVERDUE before its fixed date has passed, no
\* recurring one is shown OVERDUE at all, and DUE_SOON is shown within the
\* window only, through stale copies, crashes and re-extractions.
THEOREM FlagsStayTrue == Spec => []FlagsAreTrue
  <1>1. Init => FlagsAreTrue
    BY DEF Init, FlagsAreTrue, Fresh
  <1> QED
    BY <1>1, TypeOKInit, TypeOKNext, FlagsAreTrueNext, PTL DEF Spec

-----------------------------------------------------------------------------
(* Outside the races, closed stays closed *)

\* A request about to write read its obligation open.
DecidesOnOpen == \A r \in Requests : step[r] = "write" => Active(seen[r])

LEMMA DecidesOnOpenNext ==
  TypeOK /\ DecidesOnOpen /\ [Next]_vars => DecidesOnOpen'
  <1> SUFFICES ASSUME TypeOK, DecidesOnOpen, [Next]_vars PROVE DecidesOnOpen'
    OBVIOUS
  <1>1. CASE UNCHANGED <<step, seen>>
    BY <1>1 DEF DecidesOnOpen, Active
  <1>2. ASSUME NEW r \in Requests, DecideRead(r) PROVE DecidesOnOpen'
    <2>1. \A q \in Requests : q # r => step'[q] = step[q] /\ seen'[q] = seen[q]
      BY <1>2 DEF DecideRead, TypeOK
    <2>2. step'[r] = "write" => Active(seen'[r])
      BY <1>2 DEF DecideRead, Conflict, Active, TypeOK
    <2> QED
      BY <2>1, <2>2 DEF DecidesOnOpen, Active
  <1>3. ASSUME NEW r \in Requests, DecideWrite(r) \/ DecideAudit(r) \/ DecideFail(r)
        PROVE  DecidesOnOpen'
    <2>1. \A q \in Requests :
            step'[q] = "write" => step[q] = "write" /\ seen'[q] = seen[q]
      BY <1>3 DEF DecideWrite, DecideAudit, DecideFail, TypeOK
    <2> QED
      BY <2>1 DEF DecidesOnOpen, Active
  <1>4. ASSUME NEW o \in Obligations,
               ScanFetch(o) \/ ScanPass(o) \/ ScanWrite(o) \/ Reextract(o)
        PROVE  DecidesOnOpen'
    BY <1>4, <1>1 DEF ScanFetch, ScanPass, ScanWrite, Reextract, requestVars
  <1>5. CASE DayPasses \/ ScanStart \/ ScanAudit \/ ScanFinish \/ ScanCrash
    BY <1>5, <1>1 DEF DayPasses, ScanStart, ScanAudit, ScanFinish, ScanCrash, requestVars
  <1>6. CASE UNCHANGED vars
    BY <1>6, <1>1 DEF vars, requestVars
  <1> QED
    BY <1>2, <1>3, <1>4, <1>5, <1>6 DEF Next, ScanStep

\* What ClosedStaysClosed says of one step.
ClosedUnchanged ==
  \A o \in Obligations :
    IsTerminal(rows[o]) /\ ~Racing(o) /\ reextracted' = reextracted
      => rows'[o] = rows[o]

LEMMA StepsLeaveClosedAlone ==
  TypeOK /\ DecidesOnOpen /\ [Next]_vars => [ClosedUnchanged]_vars
  <1> SUFFICES ASSUME TypeOK, DecidesOnOpen, [Next]_vars,
                      NEW o \in Obligations, ~Racing(o), reextracted' = reextracted
               PROVE  rows'[o] = rows[o]
    BY DEF ClosedUnchanged
  <1>1. ASSUME NEW p \in Obligations, ScanWrite(p) PROVE rows'[o] = rows[o]
    <2>1. held[p] # NoRow
      BY <1>1 DEF ScanWrite
    <2>2. p # o
      BY <2>1 DEF Racing
    <2> QED
      BY <1>1, <2>2 DEF ScanWrite, TypeOK
  <1>2. ASSUME NEW r \in Requests, DecideWrite(r) PROVE rows'[o] = rows[o]
    <2>1. step[r] = "write" /\ Active(seen[r])
      BY <1>2 DEF DecideWrite, DecidesOnOpen
    <2>2. Asked(r) # o
      BY <2>1 DEF Racing
    <2> QED
      BY <1>2, <2>2 DEF DecideWrite, TypeOK
  <1>3. ASSUME NEW p \in Obligations, Reextract(p) PROVE rows'[o] = rows[o]
    BY <1>3 DEF Reextract, TypeOK
  <1>4. ASSUME NEW p \in Obligations, ScanFetch(p) \/ ScanPass(p)
        PROVE  rows'[o] = rows[o]
    BY <1>4 DEF ScanFetch, ScanPass
  <1>5. ASSUME NEW r \in Requests, DecideRead(r) \/ DecideAudit(r) \/ DecideFail(r)
        PROVE  rows'[o] = rows[o]
    BY <1>5 DEF DecideRead, DecideAudit, DecideFail
  <1>6. CASE DayPasses \/ ScanStart \/ ScanAudit \/ ScanFinish \/ ScanCrash
    BY <1>6 DEF DayPasses, ScanStart, ScanAudit, ScanFinish, ScanCrash
  <1>7. CASE UNCHANGED vars
    BY <1>7 DEF vars
  <1> QED
    BY <1>1, <1>2, <1>3, <1>4, <1>5, <1>6, <1>7 DEF Next, ScanStep

\* Once closed, an obligation is changed only by a writer that copied it while
\* it was open, or by re-extraction: the guards of list_active and
\* _record_decision are enough for everything but the races.
THEOREM ClosedObligationsStay == Spec => ClosedStaysClosed
  <1>1. Init => DecidesOnOpen
    BY DEF Init, DecidesOnOpen
  <1>2. ClosedStaysClosed <=> [][ClosedUnchanged]_vars
    BY PTL DEF ClosedStaysClosed, ClosedUnchanged
  <1> QED
    BY <1>1, <1>2, TypeOKInit, TypeOKNext, DecidesOnOpenNext,
       StepsLeaveClosedAlone, PTL DEF Spec

-----------------------------------------------------------------------------
(* What the trail may miss is bounded *)

Auditing == {r \in Requests : step[r] = "audit"}
Pending == toAudit \cup {Ruling(r) : r \in Auditing}

\* The records that are missing from the trail and that nobody is about to
\* write: the k-th one missing of the change c.
Lost == {p \in Change \X (Nat \ {0}) :
           logged[p[1]] + p[2] + (IF p[1] \in Pending THEN 1 ELSE 0) <= wrote[p[1]]}

\* The copies that no longer have the state of their row: what a scan stores
\* over such a row may be a change it takes for none.
Stale == {o \in Obligations : held[o] # NoRow /\ Overrides(o, held[o])}

\* Inductive: the scanner is about to write one record at most, and a request
\* that has not written yet has made no change;
LossShape ==
  /\ \A c, d \in toAudit : c = d
  /\ IsFiniteSet(toAudit) /\ IsFiniteSet(Auditing) /\ IsFiniteSet(Decided)
  /\ \A r \in Requests : step[r] \in {"new", "write"} => wrote[Ruling(r)] = 0

\* and a record that is lost, or may still be for a stale copy, is the last one
\* of a writer that died, or goes with a decision or a re-extraction.
LossInv ==
  /\ IsFiniteSet(Lost) /\ IsFiniteSet(Stale)
  /\ Cardinality(Lost) + Cardinality(Stale)
       <= crashes + Cardinality(Decided) + reextracted

\* A set that grows by one element at most, that does not grow, that shrinks.
LEMMA OneMore ==
  ASSUME NEW S, NEW T, NEW x, IsFiniteSet(S), T \subseteq S \cup {x}
  PROVE  IsFiniteSet(T) /\ Cardinality(T) <= Cardinality(S) + 1
  <1>1. /\ IsFiniteSet(S \cup {x}) /\ Cardinality(S \cup {x}) <= Cardinality(S) + 1
        /\ Cardinality(S) \in Nat
    BY FS_AddElement, FS_CardinalityType
  <1>2. IsFiniteSet(T) /\ Cardinality(T) <= Cardinality(S \cup {x}) /\ Cardinality(T) \in Nat
    BY <1>1, FS_Subset, FS_CardinalityType
  <1> QED
    BY <1>1, <1>2, FS_CardinalityType

LEMMA NoneMore ==
  ASSUME NEW S, NEW T, IsFiniteSet(S), T \subseteq S
  PROVE  IsFiniteSet(T) /\ Cardinality(T) <= Cardinality(S)
  BY FS_Subset

LEMMA OneLess ==
  ASSUME NEW S, NEW T, NEW x \in S, IsFiniteSet(S), T \subseteq S \ {x}
  PROVE  IsFiniteSet(T) /\ Cardinality(T) + 1 <= Cardinality(S)
  <1>1. /\ IsFiniteSet(S \ {x}) /\ Cardinality(S \ {x}) = Cardinality(S) - 1
        /\ Cardinality(S) \in Nat
    BY FS_RemoveElement, FS_CardinalityType
  <1>2. IsFiniteSet(T) /\ Cardinality(T) <= Cardinality(S \ {x}) /\ Cardinality(T) \in Nat
    BY <1>1, FS_Subset, FS_CardinalityType
  <1> QED
    BY <1>1, <1>2

LEMMA LossInit == Init => LossShape /\ LossInv
  <1> SUFFICES ASSUME Init PROVE LossShape /\ LossInv
    OBVIOUS
  <1>1. Auditing = {} /\ toAudit = {} /\ Stale = {}
    BY DEF Init, Auditing, Stale
  <1>2. \A c \in Change : wrote[c] = 0 /\ logged[c] = 0
    BY DEF Init
  <1>3. Lost = {}
    BY <1>2 DEF Lost
  <1>4. \A r \in Requests : Ruling(r) \in Change
    BY TypeOKInit, RulingIsAChange
  <1>5. Decided = {}
    BY <1>2, <1>4 DEF Decided
  <1>6. LossShape
    BY <1>1, <1>2, <1>4, <1>5, FS_EmptySet DEF LossShape
  <1>7. crashes = 0 /\ reextracted = 0
    BY DEF Init
  <1> QED
    BY <1>1, <1>3, <1>5, <1>6, <1>7, FS_EmptySet DEF LossInv

\* A request's change is its own: nobody else's write is counted as it.
LEMMA RulingsApart ==
  ASSUME TypeOK
  PROVE  /\ \A r \in Requests : Ruling(r) \in Change /\ Ruling(r)[1] = r
         /\ \A r \in Requests, c \in toAudit : Ruling(r) # c
         /\ \A r \in Requests : r # Scanner
  BY RulingIsAChange, PendingAreChanges, ScannerAssumption DEF Ruling

\* What a scan's write does to the ledger.
LEMMA ScanWriteCounts ==
  ASSUME TypeOK, NEW o \in Obligations, ScanWrite(o)
  PROVE  LET new == Evaluated(held[o])
             change == <<Scanner, o, new.state>>
         IN /\ change \in Change /\ change[1] = Scanner
            /\ toAudit = {}
            /\ toAudit' = IF new.state # held[o].state THEN {change} ELSE {}
            /\ wrote' \in [Change -> Nat]
            /\ \A c \in Change : c # change => wrote'[c] = wrote[c]
            /\ wrote'[change] = IF new.state # held[o].state \/ Overrides(o, new)
                                THEN wrote[change] + 1 ELSE wrote[change]
            /\ rows' = [rows EXCEPT ![o] = new] /\ held' = [held EXCEPT ![o] = NoRow]
            /\ new # NoRow /\ held[o] # NoRow
            /\ UNCHANGED <<logged, step, asks, crashes, reextracted>>
  <1> DEFINE new == Evaluated(held[o])
             change == <<Scanner, o, new.state>>
  <1>1. held[o] \in Row /\ held[o] # NoRow /\ scanDay \in Int
    BY DEF ScanWrite, TypeOK, Stored
  <1>2. new.state \in CalendarState /\ new \in Row
    BY <1>1, EvaluatedIsARow
  <1>3. change \in Change /\ change[1] = Scanner
    BY <1>2, ChangesAreChanges
  <1>4. /\ wrote' = IF new.state # held[o].state \/ Overrides(o, new)
                    THEN Counted(wrote, change) ELSE wrote
        /\ toAudit = {}
        /\ toAudit' = IF new.state # held[o].state THEN {change} ELSE {}
        /\ rows' = [rows EXCEPT ![o] = new] /\ held' = [held EXCEPT ![o] = NoRow]
        /\ UNCHANGED <<logged, step, asks, crashes, reextracted>>
    BY DEF ScanWrite, Transition, requestVars, faults
  <1>5. new # NoRow
    BY <1>2, RowIsNotNoRow
  <1>6. wrote \in [Change -> Nat]
    BY DEF TypeOK
  <1> HIDE DEF new, change
  <1> QED
    BY <1>1, <1>3, <1>4, <1>5, <1>6, CountedIsATally DEF new, change

LEMMA LossShapeNext == TypeOK /\ LossShape /\ [Next]_vars => LossShape'
  <1> SUFFICES ASSUME TypeOK, LossShape, [Next]_vars PROVE LossShape'
    OBVIOUS
  <1>a. /\ wrote \in [Change -> Nat] /\ step \in [Requests -> Steps]
        /\ \A r \in Requests : Ruling(r) \in Change /\ Ruling(r)[1] = r /\ r # Scanner
    BY RulingsApart DEF TypeOK
  <1>d. asks' = asks => \A r \in Requests : Ruling(r)' = Ruling(r)
    BY DEF Ruling, Asked
  <1>1. CASE UNCHANGED <<wrote, step, asks>> /\ toAudit' \subseteq toAudit
    <2>1. Auditing' = Auditing /\ Decided' = Decided
      BY <1>1, <1>d DEF Auditing, Decided
    <2>2. IsFiniteSet(toAudit')
      BY <1>1, NoneMore DEF LossShape
    <2> QED
      BY <1>1, <1>d, <2>1, <2>2 DEF LossShape
  <1>2. ASSUME NEW o \in Obligations, ScanWrite(o) PROVE LossShape'
    <2>1. PICK change \in Change :
            /\ change[1] = Scanner /\ toAudit' \subseteq {change}
            /\ \A c \in Change : c # change => wrote'[c] = wrote[c]
            /\ UNCHANGED <<step, asks>>
      BY <1>2, ScanWriteCounts
    <2>2. \A r \in Requests : wrote'[Ruling(r)'] = wrote[Ruling(r)]
      BY <1>a, <1>d, <2>1
    <2>3. Auditing' = Auditing /\ Decided' = Decided
      BY <2>1, <2>2 DEF Auditing, Decided
    <2>4. IsFiniteSet(toAudit')
      BY <2>1, NoneMore, FS_Singleton
    <2> QED
      BY <2>1, <2>2, <2>3, <2>4 DEF LossShape
  <1>3. ASSUME NEW r \in Requests, DecideWrite(r) PROVE LossShape'
    <2>1. /\ wrote' = Counted(wrote, Ruling(r))
          /\ step' = [step EXCEPT ![r] = "audit"]
          /\ UNCHANGED <<toAudit, asks>>
      BY <1>3 DEF DecideWrite, scanVars
    <2>2. /\ wrote'[Ruling(r)] = wrote[Ruling(r)] + 1
          /\ \A c \in Change : c # Ruling(r) => wrote'[c] = wrote[c]
      BY <1>a, <2>1, CountedIsATally
    <2>3. \A q \in Requests : q # r => wrote'[Ruling(q)'] = wrote[Ruling(q)]
      BY <1>a, <1>d, <2>1, <2>2
    <2>4. Auditing' \subseteq Auditing \cup {r} /\ Decided' \subseteq Decided \cup {r}
      BY <1>a, <2>1, <2>3 DEF Auditing, Decided
    <2>5. IsFiniteSet(Auditing') /\ IsFiniteSet(Decided')
      BY <2>4, OneMore DEF LossShape
    <2> QED
      BY <1>a, <2>1, <2>3, <2>5 DEF LossShape
  <1>4. ASSUME NEW r \in Requests, DecideRead(r) \/ DecideAudit(r) \/ DecideFail(r)
        PROVE  LossShape'
    <2>1. UNCHANGED <<wrote, toAudit, asks>>
      BY <1>4 DEF DecideRead, DecideAudit, DecideFail, scanVars
    <2>2. \A q \in Requests :
            /\ step'[q] = "audit" => step[q] = "audit"
            /\ step'[q] \in {"new", "write"} => step[q] \in {"new", "write"}
      BY <1>4, <1>a DEF DecideRead, DecideAudit, DecideFail
    <2>3. Decided' = Decided /\ Auditing' \subseteq Auditing
      BY <1>d, <2>1, <2>2 DEF Decided, Auditing
    <2>4. IsFiniteSet(Auditing')
      BY <2>3, NoneMore DEF LossShape
    <2> QED
      BY <1>d, <2>1, <2>2, <2>3, <2>4 DEF LossShape
  <1>5. ASSUME NEW o \in Obligations, ScanFetch(o) \/ ScanPass(o) \/ Reextract(o)
        PROVE  LossShape'
    BY <1>5, <1>1 DEF ScanFetch, ScanPass, Reextract, scanVars, requestVars
  <1>6. CASE DayPasses \/ ScanStart \/ ScanAudit \/ ScanFinish \/ ScanCrash \/ UNCHANGED vars
    BY <1>6, <1>1 DEF DayPasses, ScanStart, ScanAudit, ScanFinish, ScanCrash, vars,
                      scanVars, requestVars
  <1> QED
    BY <1>2, <1>3, <1>4, <1>5, <1>6 DEF Next, ScanStep

LEMMA LossNext == TypeOK /\ LossShape /\ LossInv /\ [Next]_vars => LossInv'
  <1> SUFFICES ASSUME TypeOK, LossShape, LossInv, [Next]_vars PROVE LossInv'
    OBVIOUS
  <1>a. /\ wrote \in [Change -> Nat] /\ logged \in [Change -> Nat]
        /\ held \in [Obligations -> Stored] /\ rows \in [Obligations -> Stored]
        /\ step \in [Requests -> Steps]
    BY DEF TypeOK
  <1>b. \A r \in Requests : Ruling(r) \in Change /\ Ruling(r)[1] = r /\ r # Scanner
    BY RulingsApart
  <1>c. \A c \in toAudit : c \in Change /\ c[1] = Scanner
    BY PendingAreChanges
  <1>d. asks' = asks => \A r \in Requests : Ruling(r)' = Ruling(r)
    BY DEF Ruling, Asked
  <1>n. /\ crashes \in Nat /\ reextracted \in Nat
        /\ Cardinality(Lost) \in Nat /\ Cardinality(Stale) \in Nat
        /\ Cardinality(Decided) \in Nat
    BY BoundsAssumption, FS_CardinalityType DEF TypeOK, LossInv, LossShape
  \* A step that loses nothing.
  <1>e. ASSUME Lost' \subseteq Lost, Stale' \subseteq Stale, Decided' = Decided,
               crashes' = crashes, reextracted' = reextracted
        PROVE  LossInv'
    <2>1. /\ IsFiniteSet(Lost') /\ Cardinality(Lost') <= Cardinality(Lost)
          /\ IsFiniteSet(Stale') /\ Cardinality(Stale') <= Cardinality(Stale)
      BY <1>e, NoneMore DEF LossInv
    <2>2. Cardinality(Lost') \in Nat /\ Cardinality(Stale') \in Nat
      BY <2>1, FS_CardinalityType
    <2> QED
      BY <1>n, <1>e, <2>1, <2>2 DEF LossInv
  \* A crash that loses one record.
  <1>f. ASSUME NEW x, Lost' \subseteq Lost \cup {x}, Stale' \subseteq Stale,
               Decided' = Decided, crashes' = crashes + 1, reextracted' = reextracted
        PROVE  LossInv'
    <2>1. /\ IsFiniteSet(Lost') /\ Cardinality(Lost') <= Cardinality(Lost) + 1
          /\ IsFiniteSet(Stale') /\ Cardinality(Stale') <= Cardinality(Stale)
      BY <1>f, OneMore, NoneMore DEF LossInv
    <2>2. Cardinality(Lost') \in Nat /\ Cardinality(Stale') \in Nat
      BY <2>1, FS_CardinalityType
    <2> QED
      BY <1>n, <1>f, <2>1, <2>2 DEF LossInv
  \* A write that loses the record its stale copy stood for.
  <1>g. ASSUME NEW x, Lost' \subseteq Lost \cup {x}, NEW o \in Stale,
               Stale' \subseteq Stale \ {o}, Decided' = Decided,
               crashes' = crashes, reextracted' = reextracted
        PROVE  LossInv'
    <2>1. /\ IsFiniteSet(Lost') /\ Cardinality(Lost') <= Cardinality(Lost) + 1
          /\ IsFiniteSet(Stale') /\ Cardinality(Stale') + 1 <= Cardinality(Stale)
      BY <1>g, OneMore, OneLess DEF LossInv
    <2>2. Cardinality(Lost') \in Nat /\ Cardinality(Stale') \in Nat
      BY <2>1, FS_CardinalityType
    <2> QED
      BY <1>n, <1>g, <2>1, <2>2 DEF LossInv
  \* A decision or a re-extraction that makes one copy stale.
  <1>h. ASSUME NEW o, Lost' \subseteq Lost, Stale' \subseteq Stale \cup {o},
               crashes' = crashes,
               \/ /\ Cardinality(Decided') = Cardinality(Decided) + 1
                  /\ reextracted' = reextracted
               \/ Decided' = Decided /\ reextracted' = reextracted + 1
        PROVE  LossInv'
    <2>1. /\ IsFiniteSet(Lost') /\ Cardinality(Lost') <= Cardinality(Lost)
          /\ IsFiniteSet(Stale') /\ Cardinality(Stale') <= Cardinality(Stale) + 1
      BY <1>h, OneMore, NoneMore DEF LossInv
    <2>2. Cardinality(Lost') \in Nat /\ Cardinality(Stale') \in Nat
      BY <2>1, FS_CardinalityType
    <2> QED
      BY <1>n, <1>h, <2>1, <2>2 DEF LossInv
  <1>1. CASE UNCHANGED <<wrote, logged, step, asks, toAudit, crashes, reextracted>>
             /\ Stale' \subseteq Stale
    <2>1. Auditing' = Auditing /\ Decided' = Decided
      BY <1>1, <1>d DEF Auditing, Decided
    <2>2. Pending' = Pending
      BY <1>1, <1>d, <2>1 DEF Pending, Auditing
    <2>3. Lost' = Lost
      BY <1>1, <2>2 DEF Lost
    <2> QED
      BY <1>1, <1>e, <2>1, <2>3
  <1>s. UNCHANGED <<rows, held>> => Stale' = Stale
    BY DEF Stale, Overrides
  <1>2. ASSUME NEW o \in Obligations, ScanWrite(o) PROVE LossInv'
    <2> DEFINE new == Evaluated(held[o])
               change == <<Scanner, o, new.state>>
    <2>1. /\ change \in Change /\ change[1] = Scanner
          /\ toAudit = {}
          /\ toAudit' = IF new.state # held[o].state THEN {change} ELSE {}
          /\ wrote' \in [Change -> Nat]
          /\ \A c \in Change : c # change => wrote'[c] = wrote[c]
          /\ wrote'[change] = IF new.state # held[o].state \/ Overrides(o, new)
                              THEN wrote[change] + 1 ELSE wrote[change]
          /\ rows' = [rows EXCEPT ![o] = new] /\ held' = [held EXCEPT ![o] = NoRow]
          /\ new # NoRow /\ held[o] # NoRow
          /\ UNCHANGED <<logged, step, asks, crashes, reextracted>>
      BY <1>2, ScanWriteCounts
    <2> HIDE DEF new, change
    <2>2. Auditing' = Auditing
      BY <2>1 DEF Auditing
    <2>3. Decided' = Decided
      <3>1. \A r \in Requests : wrote'[Ruling(r)'] = wrote[Ruling(r)]
        BY <1>b, <1>d, <2>1
      <3> QED
        BY <3>1 DEF Decided
    <2>4. Stale' \subseteq Stale \ {o}
      <3> SUFFICES ASSUME NEW p \in Stale' PROVE p \in Stale \ {o}
        OBVIOUS
      <3>1. p \in Obligations /\ held'[p] # NoRow
            /\ (rows'[p] = NoRow \/ rows'[p].state # held'[p].state)
        BY DEF Stale, Overrides
      <3>2. p # o
        BY <1>a, <2>1, <3>1
      <3>3. held'[p] = held[p] /\ rows'[p] = rows[p]
        BY <1>a, <2>1, <3>2
      <3> QED
        BY <3>1, <3>2, <3>3 DEF Stale, Overrides
    <2>5. change \notin Pending /\ Pending' = Pending \cup toAudit'
      BY <1>b, <1>d, <2>1, <2>2 DEF Pending, Auditing
    <2>6. CASE new.state # held[o].state \/ ~Overrides(o, new)
      <3>1. Lost' \subseteq Lost
        <4> SUFFICES ASSUME NEW p \in Lost' PROVE p \in Lost
          OBVIOUS
        <4>1. /\ p \in Change \X (Nat \ {0})
              /\ logged[p[1]] + p[2] + (IF p[1] \in Pending' THEN 1 ELSE 0) <= wrote'[p[1]]
          BY <2>1 DEF Lost
        <4>2. CASE p[1] = change
          BY <1>a, <2>1, <2>5, <2>6, <4>1, <4>2 DEF Lost
        <4>3. CASE p[1] # change
          BY <1>a, <2>1, <2>5, <4>1, <4>3 DEF Lost
        <4> QED
          BY <4>2, <4>3
      <3> QED
        BY <1>e, <2>1, <2>3, <2>4, <3>1
    <2>7. CASE new.state = held[o].state /\ Overrides(o, new)
      <3>1. o \in Stale
        BY <2>1, <2>7 DEF Stale, Overrides
      <3> DEFINE x == <<change, wrote'[change] - logged[change]>>
      <3>2. Lost' \subseteq Lost \cup {x}
        <4> SUFFICES ASSUME NEW p \in Lost' PROVE p \in Lost \cup {x}
          OBVIOUS
        <4>1. /\ p \in Change \X (Nat \ {0})
              /\ logged[p[1]] + p[2] + (IF p[1] \in Pending' THEN 1 ELSE 0) <= wrote'[p[1]]
          BY <2>1 DEF Lost
        <4>2. Pending' = Pending
          BY <2>1, <2>5, <2>7
        <4>3. CASE p[1] = change
          <5>1. p = <<change, p[2]>> /\ p[2] \in Nat
            BY <4>1, <4>3
          <5>2. logged[change] \in Nat /\ wrote[change] \in Nat
                /\ wrote'[change] = wrote[change] + 1
            BY <1>a, <2>1, <2>7
          <5>3. logged[change] + p[2] <= wrote[change] + 1
            <6>1. p[1] \notin Pending'
              BY <2>5, <4>2, <4>3
            <6>2. logged[change] + p[2] + 0 <= wrote'[change]
              BY <4>1, <4>3, <6>1
            <6> QED
              BY <5>1, <5>2, <6>2
          <5>4. CASE logged[change] + p[2] <= wrote[change]
            <6>1. p \in Lost
              BY <2>5, <4>1, <4>3, <5>2, <5>4 DEF Lost
            <6> QED
              BY <6>1
          <5>5. CASE p[2] = wrote'[change] - logged[change]
            BY <5>1, <5>5
          <5> QED
            BY <5>1, <5>2, <5>3, <5>4, <5>5
        <4>4. CASE p[1] # change
          <5>1. p \in Lost
            BY <2>1, <4>1, <4>2, <4>4 DEF Lost
          <5> QED
            BY <5>1
        <4> QED
          BY <4>3, <4>4
      <3> HIDE DEF x
      <3> QED
        BY <1>g, <2>1, <2>3, <2>4, <3>1, <3>2
    <2> QED
      BY <2>6, <2>7
  <1>3. CASE ScanAudit
    <2>1. PICK c \in toAudit : logged' = Counted(logged, c)
      BY <1>3 DEF ScanAudit
    <2>2. /\ toAudit' = {} /\ toAudit = {c}
          /\ UNCHANGED <<wrote, step, asks, rows, held, crashes, reextracted>>
      BY <1>3 DEF ScanAudit, requestVars, faults, LossShape
    <2>3. c \in Change /\ c[1] = Scanner
      BY <1>c
    <2>4. /\ logged'[c] = logged[c] + 1
          /\ \A d \in Change : d # c => logged'[d] = logged[d]
      BY <1>a, <2>1, <2>3, CountedIsATally
    <2>5. Auditing' = Auditing /\ Decided' = Decided
      BY <1>d, <2>2 DEF Auditing, Decided
    <2>6. Pending = Pending' \cup {c}
      BY <1>d, <2>2, <2>5 DEF Pending, Auditing
    <2>7. Lost' \subseteq Lost
      BY <1>a, <2>2, <2>3, <2>4, <2>6 DEF Lost
    <2> QED
      BY <1>e, <1>s, <2>2, <2>5, <2>7
  \* What a writer that dies leaves unrecorded.
  <1>x. ASSUME NEW c, UNCHANGED <<wrote, logged>>, Pending \subseteq Pending' \cup {c}
        PROVE  Lost' \subseteq Lost \cup {<<c, wrote[c] - logged[c]>>}
    <2> SUFFICES ASSUME NEW p \in Lost' PROVE p \in Lost \cup {<<c, wrote[c] - logged[c]>>}
      OBVIOUS
    <2>1. /\ p \in Change \X (Nat \ {0})
          /\ logged[p[1]] + p[2] + (IF p[1] \in Pending' THEN 1 ELSE 0) <= wrote[p[1]]
      BY <1>x DEF Lost
    <2>2. logged[p[1]] \in Nat /\ wrote[p[1]] \in Nat /\ p[2] \in Nat /\ p = <<p[1], p[2]>>
      BY <1>a, <2>1
    <2>3. CASE p[1] # c \/ logged[p[1]] + p[2] + 1 <= wrote[p[1]]
      <3>1. p \in Lost
        BY <1>x, <2>1, <2>2, <2>3 DEF Lost
      <3> QED
        BY <3>1
    <2>4. CASE p[1] = c /\ p[2] = wrote[c] - logged[c]
      BY <2>2, <2>4
    <2> QED
      BY <2>1, <2>2, <2>3, <2>4
  <1>4. CASE ScanCrash
    <2>1. /\ crashes' = crashes + 1 /\ toAudit' = {} /\ reextracted' = reextracted
          /\ held' = [o \in Obligations |-> NoRow]
          /\ UNCHANGED <<wrote, logged, step, asks>>
      BY <1>4 DEF ScanCrash, requestVars
    <2>2. Auditing' = Auditing /\ Decided' = Decided
      BY <1>d, <2>1 DEF Auditing, Decided
    <2>3. PICK c : toAudit \subseteq {c}
      <3>1. toAudit = {} \/ \E c \in toAudit : toAudit \subseteq {c}
        BY DEF LossShape
      <3> QED
        BY <3>1
    <2>4. Pending \subseteq Pending' \cup {c}
      BY <1>d, <2>1, <2>2, <2>3 DEF Pending, Auditing
    <2>5. Lost' \subseteq Lost \cup {<<c, wrote[c] - logged[c]>>}
      BY <1>x, <2>1, <2>4
    <2>6. Stale' = {}
      BY <2>1 DEF Stale
    <2> QED
      BY <1>f, <2>1, <2>2, <2>5, <2>6
  <1>5. ASSUME NEW r \in Requests, DecideWrite(r) PROVE LossInv'
    <2>1. /\ wrote' = Counted(wrote, Ruling(r)) /\ step[r] = "write"
          /\ step' = [step EXCEPT ![r] = "audit"]
          /\ rows' = [rows EXCEPT ![Asked(r)] = [seen[r] EXCEPT !.state = asks[r].decision]]
          /\ UNCHANGED <<logged, toAudit, asks, held, crashes, reextracted>>
      BY <1>5 DEF DecideWrite, scanVars, faults
    <2>2. /\ wrote'[Ruling(r)] = wrote[Ruling(r)] + 1
          /\ \A c \in Change : c # Ruling(r) => wrote'[c] = wrote[c]
      BY <1>a, <1>b, <2>1, CountedIsATally
    <2>3. Auditing' = Auditing \cup {r} /\ r \notin Auditing
      BY <1>a, <2>1 DEF Auditing
    <2>4. Pending' = Pending \cup {Ruling(r)}
      BY <1>d, <2>1, <2>3 DEF Pending, Auditing
    <2>5. Ruling(r) \notin Pending
      BY <1>b, <1>c, <2>3 DEF Pending, Auditing
    <2>6. Lost' \subseteq Lost
      BY <1>a, <1>b, <2>1, <2>2, <2>4, <2>5 DEF Lost
    <2>7. Stale' \subseteq Stale \cup {Asked(r)}
      <3> SUFFICES ASSUME NEW p \in Stale', p # Asked(r) PROVE p \in Stale
        OBVIOUS
      <3>1. p \in Obligations /\ held'[p] # NoRow
            /\ (rows'[p] = NoRow \/ rows'[p].state # held'[p].state)
        BY DEF Stale, Overrides
      <3>2. rows'[p] = rows[p]
        BY <1>a, <2>1, <3>1
      <3> QED
        BY <2>1, <3>1, <3>2 DEF Stale, Overrides
    <2>8. Cardinality(Decided') = Cardinality(Decided) + 1
      <3>1. wrote[Ruling(r)] = 0
        BY <2>1 DEF LossShape
      <3>2. \A q \in Requests : q # r => wrote'[Ruling(q)'] = wrote[Ruling(q)]
        BY <1>b, <1>d, <2>1, <2>2
      <3>3. Decided' = Decided \cup {r} /\ r \notin Decided
        BY <1>a, <1>b, <1>d, <2>1, <2>2, <3>1, <3>2 DEF Decided
      <3> QED
        BY <3>3, FS_AddElement DEF LossShape
    <2> QED
      BY <1>h, <2>1, <2>6, <2>7, <2>8
  <1>6. ASSUME NEW r \in Requests, DecideAudit(r) \/ DecideFail(r) PROVE LossInv'
    <2>1. /\ step' \in {[step EXCEPT ![r] = "ok"], [step EXCEPT ![r] = "failed"]}
          /\ UNCHANGED <<wrote, toAudit, asks, rows, held, reextracted>>
      BY <1>6 DEF DecideAudit, DecideFail, scanVars, faults
    <2>2. Auditing' = Auditing \ {r} /\ Decided' = Decided
      BY <1>a, <1>d, <2>1 DEF Auditing, Decided
    <2>4. Pending \subseteq Pending' \cup {Ruling(r)}
      BY <1>d, <2>1, <2>2 DEF Pending, Auditing
    <2>5. CASE DecideFail(r)
      <3>1. logged' = logged /\ crashes' = crashes + 1
        BY <2>5 DEF DecideFail
      <3>2. Lost' \subseteq Lost \cup {<<Ruling(r), wrote[Ruling(r)] - logged[Ruling(r)]>>}
        BY <1>x, <2>1, <2>4, <3>1
      <3> QED
        BY <1>f, <1>s, <2>1, <2>2, <3>1, <3>2
    <2>6. CASE DecideAudit(r)
      <3>1. /\ logged' = Counted(logged, Ruling(r)) /\ crashes' = crashes
            /\ step[r] = "audit"
        BY <2>6 DEF DecideAudit, faults
      <3>2. /\ logged'[Ruling(r)] = logged[Ruling(r)] + 1
            /\ \A c \in Change : c # Ruling(r) => logged'[c] = logged[c]
        BY <1>a, <1>b, <3>1, CountedIsATally
      <3>3. Ruling(r) \in Pending
        BY <3>1 DEF Pending, Auditing
      <3>4. Lost' \subseteq Lost
        BY <1>a, <1>b, <2>1, <2>4, <3>2, <3>3 DEF Lost
      <3> QED
        BY <1>e, <1>s, <2>1, <2>2, <3>1, <3>4
    <2> QED
      BY <1>6, <2>5, <2>6
  <1>7. ASSUME NEW r \in Requests, DecideRead(r) PROVE LossInv'
    <2>1. UNCHANGED <<wrote, logged, toAudit, asks, rows, held, crashes, reextracted>>
      BY <1>7 DEF DecideRead, scanVars, faults
    <2>2. Auditing' = Auditing /\ Decided' = Decided
      BY <1>7, <1>a, <1>d, <2>1 DEF DecideRead, Auditing, Decided
    <2>3. Pending' = Pending
      BY <1>d, <2>1, <2>2 DEF Pending, Auditing
    <2>4. Lost' = Lost
      BY <2>1, <2>3 DEF Lost
    <2> QED
      BY <1>e, <1>s, <2>1, <2>2, <2>4
  <1>8. ASSUME NEW o \in Obligations, ScanFetch(o) \/ ScanPass(o) PROVE LossInv'
    <2>1. /\ rows' = rows
          /\ \A p \in Obligations :
               held'[p] = held[p] \/ held'[p] = rows[p] \/ held'[p] = NoRow
          /\ UNCHANGED <<wrote, logged, step, asks, toAudit, crashes, reextracted>>
      BY <1>8, <1>a DEF ScanFetch, ScanPass, requestVars, faults
    <2>2. Stale' \subseteq Stale
      BY <2>1 DEF Stale, Overrides
    <2> QED
      BY <1>1, <2>1, <2>2
  <1>9. ASSUME NEW o \in Obligations, Reextract(o) PROVE LossInv'
    <2>1. /\ \A p \in Obligations : p # o => rows'[p] = rows[p]
          /\ held' = held /\ reextracted' = reextracted + 1
          /\ UNCHANGED <<wrote, logged, step, asks, toAudit, crashes>>
      BY <1>9, <1>a DEF Reextract, scanVars, requestVars
    <2>2. Stale' \subseteq Stale \cup {o}
      BY <2>1 DEF Stale, Overrides
    <2>3. Auditing' = Auditing /\ Decided' = Decided
      BY <1>d, <2>1 DEF Auditing, Decided
    <2>4. Pending' = Pending
      BY <1>d, <2>1, <2>3 DEF Pending, Auditing
    <2>5. Lost' = Lost
      BY <2>1, <2>4 DEF Lost
    <2> QED
      BY <1>h, <2>1, <2>2, <2>3, <2>5
  <1>10. CASE DayPasses \/ ScanStart \/ ScanFinish \/ UNCHANGED vars
    BY <1>10, <1>1, <1>s DEF DayPasses, ScanStart, ScanFinish, vars, scanVars,
                             requestVars, faults
  <1> QED
    BY <1>2, <1>3, <1>4, <1>5, <1>6, <1>7, <1>8, <1>9, <1>10 DEF Next, ScanStep

\* The audit container misses at most one record for each writer that is between
\* its row and its record, one for each that died there, and one for each
\* decision and re-extraction, whose trace in a row a scan may wipe out with a
\* copy it read before.
THEOREM LossesAreBounded == Spec => []AuditLossBounded
  <1>1. TypeOK /\ LossShape /\ LossInv => AuditLossBounded
    <2> SUFFICES ASSUME TypeOK, LossShape, LossInv PROVE AuditLossBounded
      OBVIOUS
    <2> DEFINE Rulings == {Ruling(r) : r \in Auditing}
    <2>1. IsFiniteSet(Rulings) /\ Cardinality(Rulings) <= Cardinality(Auditing)
      <3> DEFINE f == [r \in Auditing |-> Ruling(r)]
      <3>1. DOMAIN f = Auditing /\ Rulings = {f[r] : r \in DOMAIN f}
        OBVIOUS
      <3> HIDE DEF f, Rulings
      <3>2. f = [r \in DOMAIN f |-> f[r]]
        BY <3>1 DEF f
      <3> QED
        BY <3>1, <3>2, ImageIsNoLarger DEF LossShape
    <2>2. IsFiniteSet(Pending) /\ Cardinality(Pending) <= Cardinality(toAudit) + Cardinality(Auditing)
      <3>1. Pending = toAudit \cup Rulings
        BY DEF Pending
      <3> HIDE DEF Rulings
      <3>2. /\ Cardinality(toAudit) \in Nat /\ Cardinality(Auditing) \in Nat
            /\ Cardinality(Rulings) \in Nat
        BY <2>1, FS_CardinalityType DEF LossShape
      <3>3. /\ IsFiniteSet(toAudit \cup Rulings)
            /\ Cardinality(toAudit \cup Rulings) <= Cardinality(toAudit) + Cardinality(Rulings)
            /\ Cardinality(toAudit \cup Rulings) \in Nat
        BY <2>1, UnionIsNoLarger, FS_CardinalityType DEF LossShape
      <3> QED
        BY <2>1, <3>1, <3>2, <3>3
    <2> DEFINE f == [c \in Pending |-> <<c, wrote[c] - logged[c]>>]
               Due == {f[c] : c \in DOMAIN f}
    <2>3. IsFiniteSet(Due) /\ Cardinality(Due) <= Cardinality(Pending)
      <3>1. DOMAIN f = Pending
        OBVIOUS
      <3>2. f = [c \in DOMAIN f |-> f[c]]
        OBVIOUS
      <3> HIDE DEF f
      <3> QED
        BY <2>2, <3>1, <3>2, ImageIsNoLarger
    <2>4. Missing \subseteq Lost \cup Due
      <3> SUFFICES ASSUME NEW p \in Missing PROVE p \in Lost \cup Due
        OBVIOUS
      <3>1. PICK c \in Change : p \in {c} \X (1..(wrote[c] - logged[c]))
        BY DEF Missing
      <3>2. /\ p = <<c, p[2]>> /\ p[1] = c /\ p[2] \in 1..(wrote[c] - logged[c])
            /\ wrote[c] \in Nat /\ logged[c] \in Nat
        BY <3>1 DEF TypeOK
      <3>3. p[2] \in Nat \ {0} /\ logged[c] + p[2] <= wrote[c]
        BY <3>2
      <3>4. CASE c \notin Pending \/ logged[c] + p[2] + 1 <= wrote[c]
        <4>1. p \in Lost
          BY <3>2, <3>3, <3>4 DEF Lost
        <4> QED
          BY <4>1
      <3>5. CASE c \in Pending /\ p[2] = wrote[c] - logged[c]
        <4>1. p = f[c] /\ c \in DOMAIN f
          BY <3>2, <3>5
        <4> QED
          BY <4>1
      <3> QED
        BY <3>2, <3>3, <3>4, <3>5
    <2> HIDE DEF f, Due
    <2>5. /\ IsFiniteSet(Lost \cup Due)
          /\ Cardinality(Lost \cup Due) <= Cardinality(Lost) + Cardinality(Due)
      BY <2>3, UnionIsNoLarger DEF LossInv
    <2>6. IsFiniteSet(Missing) /\ Cardinality(Missing) <= Cardinality(Lost \cup Due)
      BY <2>4, <2>5, NoneMore
    <2>7. /\ Cardinality(Missing) \in Nat /\ Cardinality(Lost \cup Due) \in Nat
          /\ Cardinality(Lost) \in Nat /\ Cardinality(Due) \in Nat
          /\ Cardinality(Pending) \in Nat /\ Cardinality(Stale) \in Nat
          /\ Cardinality(toAudit) \in Nat /\ Cardinality(Auditing) \in Nat
          /\ Cardinality(Decided) \in Nat /\ crashes \in Nat /\ reextracted \in Nat
      BY <2>2, <2>3, <2>5, <2>6, FS_CardinalityType, BoundsAssumption
         DEF LossInv, LossShape, TypeOK
    <2>8. InFlight = Cardinality(toAudit) + Cardinality(Auditing)
      BY DEF InFlight, Auditing
    <2> QED
      BY <2>2, <2>3, <2>5, <2>6, <2>7, <2>8 DEF AuditLossBounded, LossInv
  <1> QED
    BY <1>1, TypeOKInit, TypeOKNext, LossInit, LossShapeNext, LossNext, PTL DEF Spec

-----------------------------------------------------------------------------
(* Dates come from the terms *)

Dated(row) ==
  row # NoRow /\ row.nextDue # NoDate =>
    LET t == row.timing IN
    IF t.due # NoDate THEN row.nextDue = t.due
    ELSE /\ t.recurrence = "periodic"
         /\ row.nextDue >= t.anchor
         /\ (row.nextDue - t.anchor) % t.period = 0

\* Inductive: so does the date in every copy some process holds.
DatedInv ==
  /\ \A o \in Obligations : Dated(rows[o]) /\ Dated(held[o])
  /\ \A r \in Requests : Dated(seen[r])

\* next_occurrence stays in phase with the anchor.
THEOREM NextOccurrenceInPhase ==
  ASSUME NEW t \in Timing, NEW after \in Int
  PROVE  /\ NextOccurrence(t, after) >= t.anchor
         /\ (NextOccurrence(t, after) - t.anchor) % t.period = 0
  <1>1. t.anchor \in Int /\ t.period \in Nat \ {0}
    BY DEF Timing
  <1>2. CASE t.anchor > after
    <2>1. NextOccurrence(t, after) = t.anchor
      BY <1>2 DEF NextOccurrence
    <2>2. (t.period * 0) % t.period = 0 /\ t.period * 0 = 0
      BY <1>1, MultipleDivides
    <2> QED
      BY <1>1, <2>1, <2>2
  <1>3. CASE ~(t.anchor > after)
    <2> DEFINE q == (after - t.anchor) \div t.period
               ahead == t.period * (q + 1)
    <2>1. NextOccurrence(t, after) = t.anchor + ahead
      BY <1>3 DEF NextOccurrence
    <2>2. q \in Nat
      BY <1>1, <1>3, OneMorePeriod
    <2>3. ahead \in Nat /\ ahead % t.period = 0
      BY <1>1, <2>2, MultipleDivides
    <2> HIDE DEF ahead
    <2>4. t.anchor + ahead - t.anchor = ahead
      BY <1>1, <2>3
    <2> QED
      BY <1>1, <2>1, <2>3, <2>4
  <1> QED
    BY <1>2, <1>3

LEMMA EvaluatedIsDated ==
  ASSUME NEW row \in Row, scanDay \in Int
  PROVE  Dated(Evaluated(row))
  <1>1. row.timing \in Timing
    BY TimingsAssumption DEF Row
  <1>2. /\ Evaluated(row).timing = row.timing
        /\ Evaluated(row).nextDue = effective_due_date(row.timing, scanDay)
    BY EvaluatedIsARow
  <1>3. /\ NextOccurrence(row.timing, scanDay - 1) >= row.timing.anchor
        /\ (NextOccurrence(row.timing, scanDay - 1) - row.timing.anchor) % row.timing.period = 0
    BY <1>1, NextOccurrenceInPhase
  <1> QED
    BY <1>2, <1>3 DEF Dated, effective_due_date

LEMMA DatedInit == Init => DatedInv
  <1>1. Dated(NoRow) /\ \A t \in Timings : Dated(Fresh(t))
    BY DEF Dated, Fresh
  <1> QED
    BY <1>1 DEF Init, DatedInv

LEMMA DatedNext == TypeOK /\ DatedInv /\ [Next]_vars => DatedInv'
  <1> SUFFICES ASSUME TypeOK, DatedInv, [Next]_vars PROVE DatedInv'
    OBVIOUS
  <1>a. DatedInv' <=> /\ \A o \in Obligations : Dated(rows'[o]) /\ Dated(held'[o])
                      /\ \A r \in Requests : Dated(seen'[r])
    BY DEF DatedInv, Dated
  <1>b. Dated(NoRow)
    BY DEF Dated
  <1>c. /\ rows \in [Obligations -> Stored] /\ held \in [Obligations -> Stored]
        /\ seen \in [Requests -> Stored]
    BY DEF TypeOK
  <1>1. CASE UNCHANGED <<rows, held, seen>>
    BY <1>1, <1>a DEF DatedInv
  <1>2. ASSUME NEW o \in Obligations, ScanWrite(o) PROVE DatedInv'
    <2>1. held[o] \in Row /\ scanDay \in Int
      BY <1>2 DEF ScanWrite, TypeOK, Stored
    <2>2. Dated(Evaluated(held[o]))
      BY <2>1, EvaluatedIsDated
    <2>3. /\ rows' = [rows EXCEPT ![o] = Evaluated(held[o])]
          /\ held' = [held EXCEPT ![o] = NoRow]
          /\ seen' = seen
      BY <1>2 DEF ScanWrite, requestVars
    <2> QED
      BY <1>a, <1>b, <1>c, <2>2, <2>3 DEF DatedInv
  <1>3. ASSUME NEW o \in Obligations, ScanFetch(o) \/ ScanPass(o) PROVE DatedInv'
    <2>1. /\ rows' = rows /\ seen' = seen
          /\ held' \in {held, [held EXCEPT ![o] = rows[o]], [held EXCEPT ![o] = NoRow]}
      BY <1>3 DEF ScanFetch, ScanPass, requestVars
    <2> QED
      BY <1>a, <1>b, <1>c, <2>1 DEF DatedInv
  <1>4. CASE ScanCrash
    <2>1. /\ rows' = rows /\ seen' = seen
          /\ held' = [o \in Obligations |-> NoRow]
      BY <1>4 DEF ScanCrash, requestVars
    <2> QED
      BY <1>a, <1>b, <2>1 DEF DatedInv
  <1>5. ASSUME NEW r \in Requests, DecideRead(r) PROVE DatedInv'
    <2>1. /\ rows' = rows /\ held' = held
          /\ seen' \in {seen, [seen EXCEPT ![r] = rows[Asked(r)]]}
      BY <1>5 DEF DecideRead, scanVars
    <2>2. Asked(r) \in Obligations
      BY DEF TypeOK, Asked
    <2> QED
      BY <1>a, <1>c, <2>1, <2>2 DEF DatedInv
  <1>6. ASSUME NEW r \in Requests, DecideWrite(r) PROVE DatedInv'
    <2> DEFINE row == [seen[r] EXCEPT !.state = asks[r].decision]
    <2>1. /\ rows' = [rows EXCEPT ![Asked(r)] = row]
          /\ held' = held /\ seen' = [seen EXCEPT ![r] = NoRow]
          /\ seen[r] \in Row
      BY <1>6 DEF DecideWrite, scanVars, TypeOK, Stored
    <2>2. Dated(row)
      BY <2>1, RowIsNotNoRow DEF DatedInv, Dated, Row
    <2> HIDE DEF row
    <2> QED
      BY <1>a, <1>b, <1>c, <2>1, <2>2 DEF DatedInv
  <1>7. ASSUME NEW o \in Obligations, Reextract(o) PROVE DatedInv'
    <2>1. PICK row \in {NoRow} \cup {Fresh(t) : t \in Timings} :
            rows' = [rows EXCEPT ![o] = row]
      BY <1>7 DEF Reextract
    <2>2. held' = held /\ seen' = seen
      BY <1>7 DEF Reextract, scanVars, requestVars
    <2>3. Dated(row)
      BY DEF Dated, Fresh
    <2> QED
      BY <1>a, <1>c, <2>1, <2>2, <2>3 DEF DatedInv
  <1>8. ASSUME NEW r \in Requests, DecideAudit(r) \/ DecideFail(r) PROVE DatedInv'
    <2>1. /\ rows' = rows /\ held' = held
          /\ seen' \in {seen, [seen EXCEPT ![r] = NoRow]}
      BY <1>8 DEF DecideAudit, DecideFail, scanVars
    <2> QED
      BY <1>a, <1>b, <1>c, <2>1 DEF DatedInv
  <1>9. CASE DayPasses \/ ScanStart \/ ScanAudit \/ ScanFinish \/ UNCHANGED vars
    BY <1>9, <1>1 DEF DayPasses, ScanStart, ScanAudit, ScanFinish, vars, scanVars,
                      requestVars
  <1> QED
    BY <1>2, <1>3, <1>4, <1>5, <1>6, <1>7, <1>8, <1>9 DEF Next, ScanStep

\* A date in the register is the obligation's own: races, crashes and
\* re-extractions never give a row a date its own terms do not.
THEOREM DatesAreTheTerms == Spec => []DatesComeFromTheTerms
  <1>1. DatedInv => DatesComeFromTheTerms
    BY DEF DatedInv, Dated, DatesComeFromTheTerms
  <1> QED
    BY <1>1, TypeOKInit, TypeOKNext, DatedInit, DatedNext, PTL DEF Spec
-----------------------------------------------------------------------------
(* A scan leaves nothing behind *)

UpToDate(row) ==
  Active(row) /\ ~Unscheduled(row.timing) => row = Evaluated(row)

\* Inductive: how the scanner's variables hang together,
ScanShape ==
  /\ phase # "list" => unread = {}
  /\ phase # "loop" => moved = {} /\ toAudit = {}
  /\ phase = "idle" => \A o \in Obligations : held[o] = NoRow
  /\ \A o \in unread : held[o] = NoRow

\* and what its copies are worth: a copy is the row as it still stands, unless
\* the row was closed meanwhile; a row without a copy is dealt with.
CopiesInv ==
  reextracted = 0 => \A o \in Obligations :
    /\ held[o] # NoRow => rows[o] = held[o] \/ IsTerminal(rows[o])
    /\ phase # "idle" /\ o \notin unread /\ held[o] = NoRow => UpToDate(rows[o])

\* To evaluate a row twice is to evaluate it once, and a row the loop passes
\* over is as the evaluation would leave it.
LEMMA EvaluatedIsUpToDate ==
  ASSUME NEW row \in Row, scanDay \in Int
  PROVE  /\ UpToDate(Evaluated(row))
         /\ ~NeedsWrite(row) => UpToDate(row)
  <1>1. /\ Evaluated(row) \in Row
        /\ Evaluated(row).timing = row.timing
        /\ Evaluated(row).state =
             next_state(effective_due_date(row.timing, scanDay), scanDay)
        /\ Evaluated(row).nextDue = effective_due_date(row.timing, scanDay)
    BY EvaluatedIsARow
  <1>2. Evaluated(Evaluated(row)) = Evaluated(row)
    BY <1>1 DEF Evaluated, Row
  <1>3. Evaluated(row).state = row.state /\ Evaluated(row).nextDue = row.nextDue
          => Evaluated(row) = row
    BY DEF Evaluated, Row
  <1> QED
    BY <1>2, <1>3 DEF UpToDate, NeedsWrite, Active

LEMMA ClosedIsUpToDate ==
  ASSUME NEW row
  PROVE  /\ row = NoRow \/ IsTerminal(row) => UpToDate(row)
         /\ ~Active(row) => UpToDate(row)
  BY DEF IsTerminal, UpToDate, Active

LEMMA ScanInit == Init => ScanShape /\ CopiesInv
  BY DEF Init, ScanShape, CopiesInv

LEMMA ScanShapeNext == TypeOK /\ ScanShape /\ [Next]_vars => ScanShape'
  <1> SUFFICES ASSUME TypeOK, ScanShape, [Next]_vars PROVE ScanShape'
    OBVIOUS
  <1> USE DEF ScanShape
  <1>1. CASE UNCHANGED scanVars
    BY <1>1 DEF scanVars
  <1>2. CASE ScanStart
    BY <1>2 DEF ScanStart
  <1>3. ASSUME NEW o \in Obligations, ScanFetch(o) PROVE ScanShape'
    BY <1>3 DEF ScanFetch, TypeOK
  <1>4. ASSUME NEW o \in Obligations, ScanPass(o) PROVE ScanShape'
    BY <1>4 DEF ScanPass, TypeOK
  <1>5. ASSUME NEW o \in Obligations, ScanWrite(o) PROVE ScanShape'
    BY <1>5 DEF ScanWrite, TypeOK
  <1>6. CASE ScanAudit
    BY <1>6 DEF ScanAudit
  <1>7. CASE ScanFinish
    BY <1>7 DEF ScanFinish, Scanned
  <1>8. CASE ScanCrash
    BY <1>8 DEF ScanCrash
  <1>9. CASE DayPasses \/ UNCHANGED vars
    BY <1>1, <1>9 DEF DayPasses, vars
  <1>10. ASSUME NEW r \in Requests,
                DecideRead(r) \/ DecideWrite(r) \/ DecideAudit(r) \/ DecideFail(r)
         PROVE  ScanShape'
    BY <1>1, <1>10 DEF DecideRead, DecideWrite, DecideAudit, DecideFail
  <1>11. ASSUME NEW o \in Obligations, Reextract(o) PROVE ScanShape'
    BY <1>1, <1>11 DEF Reextract
  <1> QED
    BY <1>2, <1>3, <1>4, <1>5, <1>6, <1>7, <1>8, <1>9, <1>10, <1>11 DEF Next, ScanStep

LEMMA CopiesNext == TypeOK /\ ScanShape /\ CopiesInv /\ [Next]_vars => CopiesInv'
  <1> SUFFICES ASSUME TypeOK, ScanShape, CopiesInv, [Next]_vars, reextracted' = 0
               PROVE  \A o \in Obligations :
                        /\ held'[o] # NoRow => rows'[o] = held'[o] \/ IsTerminal(rows'[o])
                        /\ phase' # "idle" /\ o \notin unread' /\ held'[o] = NoRow
                             => UpToDate(rows[o])'
    BY DEF CopiesInv, IsTerminal
  <1>a. /\ rows \in [Obligations -> Stored] /\ held \in [Obligations -> Stored]
        /\ scanDay \in Int /\ reextracted \in Nat
    BY BoundsAssumption DEF TypeOK
  <1>b. scanDay' = scanDay =>
          \A o \in Obligations : UpToDate(rows[o])' <=> UpToDate(rows'[o])
    BY DEF UpToDate, Evaluated, Active
  <1>1. CASE UNCHANGED <<rows, scanVars, reextracted>>
    BY <1>1, <1>b DEF scanVars, CopiesInv
  <1>2. CASE ScanStart
    BY <1>2 DEF ScanStart, ScanShape
  <1>3. ASSUME NEW p \in Obligations, ScanFetch(p)
        PROVE  \A o \in Obligations :
                 /\ held'[o] # NoRow => rows'[o] = held'[o] \/ IsTerminal(rows'[o])
                 /\ phase' # "idle" /\ o \notin unread' /\ held'[o] = NoRow
                      => UpToDate(rows[o])'
    <2>1. /\ rows' = rows /\ scanDay' = scanDay /\ reextracted = 0
          /\ held' = IF Active(rows[p]) THEN [held EXCEPT ![p] = rows[p]] ELSE held
          /\ phase = "list" /\ unread' = unread \ {p}
      BY <1>3 DEF ScanFetch, faults
    <2>2. Active(rows[p]) => rows[p] # NoRow
      BY DEF Active
    <2> QED
      BY <1>a, <1>b, <2>1, <2>2, ClosedIsUpToDate DEF CopiesInv
  <1>4. ASSUME NEW p \in Obligations, ScanPass(p)
        PROVE  \A o \in Obligations :
                 /\ held'[o] # NoRow => rows'[o] = held'[o] \/ IsTerminal(rows'[o])
                 /\ phase' # "idle" /\ o \notin unread' /\ held'[o] = NoRow
                      => UpToDate(rows[o])'
    <2>1. /\ rows' = rows /\ scanDay' = scanDay /\ reextracted = 0
          /\ held' = [held EXCEPT ![p] = NoRow]
          /\ unread' = unread /\ phase # "idle"
          /\ held[p] # NoRow /\ ~NeedsWrite(held[p])
      BY <1>4 DEF ScanPass, faults
    <2>2. UpToDate(held[p])
      BY <1>a, <2>1, EvaluatedIsUpToDate DEF Stored
    <2>3. UpToDate(rows[p])
      BY <2>1, <2>2, ClosedIsUpToDate DEF CopiesInv
    <2> QED
      BY <1>a, <1>b, <2>1, <2>3 DEF CopiesInv
  <1>5. ASSUME NEW p \in Obligations, ScanWrite(p)
        PROVE  \A o \in Obligations :
                 /\ held'[o] # NoRow => rows'[o] = held'[o] \/ IsTerminal(rows'[o])
                 /\ phase' # "idle" /\ o \notin unread' /\ held'[o] = NoRow
                      => UpToDate(rows[o])'
    <2>1. /\ rows' = [rows EXCEPT ![p] = Evaluated(held[p])]
          /\ scanDay' = scanDay /\ reextracted = 0
          /\ held' = [held EXCEPT ![p] = NoRow]
          /\ unread' = unread /\ phase # "idle"
          /\ held[p] # NoRow
      BY <1>5 DEF ScanWrite, faults
    <2>2. UpToDate(Evaluated(held[p]))
      BY <1>a, <2>1, EvaluatedIsUpToDate DEF Stored
    <2> QED
      BY <1>a, <1>b, <2>1, <2>2 DEF CopiesInv
  <1>6. CASE ScanFinish \/ ScanCrash
    <2>1. phase' = "idle" /\ \A o \in Obligations : held'[o] = NoRow
      BY <1>6 DEF ScanFinish, ScanCrash, Scanned
    <2> QED
      BY <2>1
  <1>7. ASSUME NEW r \in Requests, DecideWrite(r)
        PROVE  \A o \in Obligations :
                 /\ held'[o] # NoRow => rows'[o] = held'[o] \/ IsTerminal(rows'[o])
                 /\ phase' # "idle" /\ o \notin unread' /\ held'[o] = NoRow
                      => UpToDate(rows[o])'
    <2> DEFINE row == [seen[r] EXCEPT !.state = asks[r].decision]
    <2>1. /\ rows' = [rows EXCEPT ![Asked(r)] = row]
          /\ UNCHANGED <<phase, scanDay, unread, held>> /\ reextracted = 0
      BY <1>7 DEF DecideWrite, scanVars, faults
    <2>2. seen[r] \in Row /\ asks[r].decision \in TERMINAL_STATES
      BY <1>7 DEF DecideWrite, TypeOK, Stored, Decision, TERMINAL_STATES
    <2>3. row \in Row /\ row.state \in TERMINAL_STATES
      BY <2>2 DEF Row, ObligationState
    <2>4. IsTerminal(row)
      BY <2>3, RowIsNotNoRow DEF IsTerminal
    <2> HIDE DEF row
    <2> QED
      BY <1>a, <1>b, <2>1, <2>4, ClosedIsUpToDate DEF CopiesInv
  <1>8. ASSUME NEW r \in Requests, DecideRead(r) \/ DecideAudit(r) \/ DecideFail(r)
        PROVE  UNCHANGED <<rows, scanVars, reextracted>>
    BY <1>8 DEF DecideRead, DecideAudit, DecideFail, faults
  <1>9. CASE DayPasses \/ UNCHANGED vars
    BY <1>1, <1>9 DEF DayPasses, vars, faults
  <1>10. CASE ScanAudit
    BY <1>10, <1>b DEF ScanAudit, faults, CopiesInv
  <1>11. ASSUME NEW o \in Obligations, Reextract(o) PROVE FALSE
    BY <1>11, <1>a DEF Reextract
  <1> QED
    BY <1>1, <1>2, <1>3, <1>4, <1>5, <1>6, <1>7, <1>8, <1>9, <1>10, <1>11
       DEF Next, ScanStep

\* A scan that has dealt with its last copy leaves no active row out of date,
\* whatever was decided between its fetches and its writes.
THEOREM ScanLeavesNothingBehind == Spec => []ScanIsComplete
  <1>1. TypeOK /\ ScanShape /\ CopiesInv => ScanIsComplete
    BY DEF ScanShape, CopiesInv, ScanIsComplete, Scanned, UpToDate
  <1> QED
    BY <1>1, TypeOKInit, TypeOKNext, ScanInit, ScanShapeNext, CopiesNext, PTL DEF Spec
-----------------------------------------------------------------------------
(* The notices keep up *)

Untouched(o) == \A p \in moved : p[1] # o
Known(o, row) ==
  Active(row) /\ row.state # "OPEN" /\ Untouched(o) => told[o] = row.state

\* Inductive: the scanner moves an obligation once at most,
MovedInv ==
  /\ \A p, q \in moved : p[1] = q[1] => p = q
  /\ \A p \in moved : held[p[1]] = NoRow

\* and as long as nothing went wrong, what it has moved is what the row says,
\* and every other flag, in the register or on a copy, is known already.
NoticeInv ==
  crashes = 0 /\ lost = 0 /\ reextracted = 0 /\ Cardinality(Obligations) <= NoticeLimit =>
    /\ \A o \in Obligations : Known(o, rows[o]) /\ Known(o, held[o])
    /\ \A p \in moved : Active(rows[p[1]]) => rows[p[1]].state = p[2]

LEMMA NoticeInit == Init => MovedInv /\ NoticeInv
  <1> SUFFICES ASSUME Init PROVE MovedInv /\ NoticeInv
    OBVIOUS
  <1>1. \A o \in Obligations : rows[o].state = "OPEN" /\ held[o] = NoRow
    BY DEF Init, Fresh
  <1>2. moved = {}
    BY DEF Init
  <1> QED
    BY <1>1, <1>2 DEF MovedInv, NoticeInv, Known, Active

LEMMA MovedNext == TypeOK /\ ScanShape /\ MovedInv /\ [Next]_vars => MovedInv'
  <1> SUFFICES ASSUME TypeOK, ScanShape, MovedInv, [Next]_vars PROVE MovedInv'
    OBVIOUS
  <1>a. /\ moved \subseteq Obligations \X CalendarState
        /\ held \in [Obligations -> Stored]
    BY DEF TypeOK
  <1>1. CASE UNCHANGED <<moved, held>>
    BY <1>1 DEF MovedInv
  <1>2. CASE moved' = {}
    BY <1>2 DEF MovedInv
  <1>3. ASSUME NEW o \in Obligations, ScanFetch(o) PROVE MovedInv'
    BY <1>2, <1>3 DEF ScanFetch, ScanShape
  <1>4. ASSUME NEW o \in Obligations, ScanPass(o) PROVE MovedInv'
    BY <1>4, <1>a DEF ScanPass, MovedInv
  <1>5. ASSUME NEW o \in Obligations, ScanWrite(o) PROVE MovedInv'
    <2> DEFINE change == <<o, Evaluated(held[o]).state>>
    <2>1. /\ moved' \in {moved, moved \cup {change}}
          /\ held' = [held EXCEPT ![o] = NoRow]
          /\ held[o] # NoRow
      BY <1>5 DEF ScanWrite
    <2>2. change[1] = o
      OBVIOUS
    <2> HIDE DEF change
    <2> QED
      BY <1>a, <2>1, <2>2 DEF MovedInv
  <1>6. CASE ScanFinish \/ ScanCrash
    BY <1>2, <1>6 DEF ScanFinish, ScanCrash
  <1>7. CASE DayPasses \/ ScanStart \/ ScanAudit \/ UNCHANGED vars
    BY <1>1, <1>7 DEF DayPasses, ScanStart, ScanAudit, vars, scanVars
  <1>8. ASSUME NEW r \in Requests,
               DecideRead(r) \/ DecideWrite(r) \/ DecideAudit(r) \/ DecideFail(r)
        PROVE  MovedInv'
    BY <1>1, <1>8 DEF DecideRead, DecideWrite, DecideAudit, DecideFail, scanVars
  <1>9. ASSUME NEW o \in Obligations, Reextract(o) PROVE MovedInv'
    BY <1>1, <1>9 DEF Reextract, scanVars
  <1> QED
    BY <1>3, <1>4, <1>5, <1>6, <1>7, <1>8, <1>9 DEF Next, ScanStep

\* With room for every obligation, a notice names all that moved.
LEMMA NoticesNameAll ==
  ASSUME TypeOK, Cardinality(Obligations) <= NoticeLimit, NEW named, Names(named)
  PROVE  named = Newly("OVERDUE") \cup Newly("DUE_SOON")
  <1> DEFINE flagged == Newly("OVERDUE") \cup Newly("DUE_SOON")
  <1>1. named \subseteq flagged /\ flagged \subseteq Obligations
    BY DEF Names, Newly
  <1>2. CASE Cardinality(named) = NoticeLimit
    <2>1. /\ Cardinality(named) <= Cardinality(Obligations)
          /\ Cardinality(named) = Cardinality(Obligations) => named = Obligations
      BY <1>1, ObligationsAssumption, FS_Subset
    <2>2. Cardinality(Obligations) \in Nat
      BY ObligationsAssumption, FS_CardinalityType
    <2> QED
      BY <1>1, <1>2, <2>1, <2>2, BoundsAssumption
  <1> QED
    BY <1>2 DEF Names

LEMMA NoticeNext ==
  TypeOK /\ ScanShape /\ MovedInv /\ NoticeInv /\ [Next]_vars => NoticeInv'
  <1> SUFFICES ASSUME TypeOK, ScanShape, MovedInv, NoticeInv, [Next]_vars,
                      crashes' = 0, lost' = 0, reextracted' = 0,
                      Cardinality(Obligations) <= NoticeLimit
               PROVE  /\ \A o \in Obligations : Known(o, rows[o])' /\ Known(o, held[o])'
                      /\ \A p \in moved' : Active(rows'[p[1]]) => rows'[p[1]].state = p[2]
    BY DEF NoticeInv, Active
  <1> DEFINE Goal == /\ \A o \in Obligations : Known(o, rows[o])' /\ Known(o, held[o])'
                     /\ \A p \in moved' : Active(rows'[p[1]]) => rows'[p[1]].state = p[2]
  <1>a. /\ rows \in [Obligations -> Stored] /\ held \in [Obligations -> Stored]
        /\ told \in [Obligations -> CalendarState]
        /\ moved \subseteq Obligations \X CalendarState
        /\ scanDay \in Int
        /\ crashes \in Nat /\ lost \in Nat /\ reextracted \in Nat
        /\ \A o \in Obligations : ~IsTerminal(held[o])
    BY BoundsAssumption DEF TypeOK
  <1>b. \A o \in Obligations :
          /\ Known(o, rows[o])' <=>
               (Active(rows'[o]) /\ rows'[o].state # "OPEN" /\ (\A p \in moved' : p[1] # o)
                  => told'[o] = rows'[o].state)
          /\ Known(o, held[o])' <=>
               (Active(held'[o]) /\ held'[o].state # "OPEN" /\ (\A p \in moved' : p[1] # o)
                  => told'[o] = held'[o].state)
    BY DEF Known, Untouched, Active
  <1>c. ~Active(NoRow)
    BY DEF Active
  <1>1. CASE UNCHANGED <<rows, held, moved, told, faults>>
    BY <1>1, <1>b DEF faults, NoticeInv, Known, Untouched
  <1>2. ASSUME NEW o \in Obligations, ScanFetch(o) PROVE Goal
    <2>1. /\ held' \in {held, [held EXCEPT ![o] = rows[o]]} /\ moved = {}
          /\ UNCHANGED <<rows, moved, told, faults>>
      BY <1>2 DEF ScanFetch, ScanShape
    <2> QED
      BY <1>a, <1>b, <2>1 DEF faults, NoticeInv, Known, Untouched
  <1>3. ASSUME NEW o \in Obligations, ScanPass(o) PROVE Goal
    <2>1. /\ held' = [held EXCEPT ![o] = NoRow]
          /\ UNCHANGED <<rows, moved, told, faults>>
      BY <1>3 DEF ScanPass
    <2> QED
      BY <1>a, <1>b, <1>c, <2>1 DEF faults, NoticeInv, Known, Untouched
  <1>4. ASSUME NEW o \in Obligations, ScanWrite(o) PROVE Goal
    <2> DEFINE new == Evaluated(held[o])
               change == <<o, new.state>>
    <2>1. /\ rows' = [rows EXCEPT ![o] = new]
          /\ held' = [held EXCEPT ![o] = NoRow]
          /\ moved' = IF new.state # held[o].state THEN moved \cup {change} ELSE moved
          /\ held[o] # NoRow
          /\ told' = told /\ faults' = faults
      BY <1>4 DEF ScanWrite, Transition
    <2>2. Untouched(o)
      BY <2>1 DEF MovedInv, Untouched
    <2>3. change[1] = o /\ change[2] = new.state
      OBVIOUS
    <2>4. new.state # held[o].state \/ new.state = "OPEN" \/ told[o] = new.state
      BY <1>a, <2>1, <2>2 DEF faults, NoticeInv, Known, IsTerminal, Active
    <2>5. NoticeInv /\ crashes = 0 /\ lost = 0 /\ reextracted = 0
      BY <2>1 DEF faults
    <2> HIDE DEF new, change
    <2>6. \A p \in moved' : Active(rows'[p[1]]) => rows'[p[1]].state = p[2]
      BY <1>a, <2>1, <2>2, <2>3, <2>5 DEF NoticeInv, Untouched
    <2>7. ASSUME NEW q \in Obligations PROVE Known(q, rows[q])' /\ Known(q, held[q])'
      <3>1. CASE q = o
        BY <1>a, <1>b, <1>c, <2>1, <2>3, <2>4, <3>1
      <3>2. CASE q # o
        <4>1. rows'[q] = rows[q] /\ held'[q] = held[q] /\ told'[q] = told[q]
          BY <1>a, <2>1, <3>2
        <4>2. (\A p \in moved' : p[1] # q) => Untouched(q)
          BY <2>1 DEF Untouched
        <4> QED
          BY <1>b, <2>5, <4>1, <4>2 DEF NoticeInv, Known
      <3> QED
        BY <3>1, <3>2
    <2> QED
      BY <2>6, <2>7
  <1>5. CASE ScanFinish
    <2>1. PICK named \in SUBSET Obligations :
            /\ Names(named)
            /\ told' = [o \in Obligations |->
                          IF o \notin named THEN told[o]
                          ELSE IF o \in Newly("OVERDUE") THEN "OVERDUE" ELSE "DUE_SOON"]
      BY <1>5, <1>a DEF ScanFinish
    <2>2. named = Newly("OVERDUE") \cup Newly("DUE_SOON")
      BY <2>1, NoticesNameAll
    <2>3. /\ moved' = {} /\ rows' = rows /\ held' = held
          /\ \A o \in Obligations : held[o] = NoRow
          /\ crashes = 0 /\ lost = 0 /\ reextracted = 0
      BY <1>5, <1>a DEF ScanFinish, Scanned
    <2>4. ASSUME NEW o \in Obligations, Active(rows[o]), rows[o].state # "OPEN"
          PROVE  told'[o] = rows[o].state
      <3>1. CASE o \in Newly("OVERDUE")
        BY <2>1, <2>2, <2>3, <2>4, <3>1 DEF NoticeInv, Newly
      <3>2. CASE o \notin Newly("OVERDUE") /\ o \in Newly("DUE_SOON")
        BY <2>1, <2>2, <2>3, <2>4, <3>2 DEF NoticeInv, Newly
      <3>3. CASE o \notin named
        <4>1. Untouched(o)
          <5> SUFFICES ASSUME NEW p \in moved, p[1] = o PROVE FALSE
            BY DEF Untouched
          <5>1. p = <<o, p[2]>> /\ p[2] \in CalendarState
            BY <1>a
          <5>2. p[2] = "OPEN"
            BY <2>2, <3>3, <5>1 DEF Newly, CalendarState
          <5> QED
            BY <2>3, <2>4, <5>1, <5>2 DEF NoticeInv
        <4> QED
          BY <2>1, <2>3, <2>4, <3>3, <4>1 DEF NoticeInv, Known
      <3> QED
        BY <2>2, <3>1, <3>2, <3>3
    <2> QED
      BY <1>b, <1>c, <2>3, <2>4
  <1>6. ASSUME NEW r \in Requests, DecideWrite(r) PROVE Goal
    <2> DEFINE row == [seen[r] EXCEPT !.state = asks[r].decision]
    <2>1. /\ rows' = [rows EXCEPT ![Asked(r)] = row]
          /\ UNCHANGED <<held, moved, told, faults>>
      BY <1>6 DEF DecideWrite, scanVars
    <2>2. ~Active(row)
      <3>1. seen[r] \in Row /\ asks[r].decision \in TERMINAL_STATES
        BY <1>6 DEF DecideWrite, TypeOK, Stored, Decision, TERMINAL_STATES
      <3> QED
        BY <3>1 DEF Row, Active
    <2> HIDE DEF row
    <2> QED
      BY <1>a, <1>b, <2>1, <2>2 DEF faults, NoticeInv, Known, Untouched
  <1>7. CASE ScanCrash
    BY <1>7, <1>a DEF ScanCrash
  <1>8. ASSUME NEW o \in Obligations, Reextract(o) PROVE FALSE
    BY <1>8, <1>a DEF Reextract
  <1>9. ASSUME NEW r \in Requests, DecideRead(r) \/ DecideAudit(r) PROVE Goal
    BY <1>1, <1>9 DEF DecideRead, DecideAudit, scanVars
  <1>10. ASSUME NEW r \in Requests, DecideFail(r) PROVE FALSE
    BY <1>10, <1>a DEF DecideFail
  <1>11. CASE DayPasses \/ ScanStart \/ ScanAudit \/ UNCHANGED vars
    BY <1>1, <1>11 DEF DayPasses, ScanStart, ScanAudit, vars, scanVars
  <1> QED
    BY <1>2, <1>3, <1>4, <1>5, <1>6, <1>7, <1>8, <1>9, <1>10, <1>11
       DEF Next, ScanStep

\* As long as no scan died, no notice was lost, nothing was extracted again and
\* the notice has room, whoever reads the notices knows of every flag.
THEOREM ReadersOfNoticesKnow == Spec => []NoticesKeepUp
  <1>1. TypeOK /\ ScanShape /\ NoticeInv => NoticesKeepUp
    <2> SUFFICES ASSUME TypeOK, ScanShape, NoticeInv,
                        phase = "idle", crashes + lost + reextracted = 0,
                        Cardinality(Obligations) <= NoticeLimit
                 PROVE  \A o \in Obligations :
                          Active(rows[o]) /\ rows[o].state # "OPEN" => told[o] = rows[o].state
      BY DEF NoticesKeepUp
    <2>1. crashes = 0 /\ lost = 0 /\ reextracted = 0
      BY BoundsAssumption DEF TypeOK
    <2> QED
      BY <2>1 DEF ScanShape, NoticeInv, Known, Untouched
  <1> QED
    BY <1>1, TypeOKInit, TypeOKNext, ScanInit, ScanShapeNext, NoticeInit, MovedNext,
       NoticeNext, PTL DEF Spec
=============================================================================
