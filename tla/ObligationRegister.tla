------------------------- MODULE ObligationRegister -------------------------
(***************************************************************************)
(* The obligation register and everything that writes to it at once:       *)
(*   - the daily scanner job, which fetches the active rows, re-evaluates  *)
(*     each fetched copy against the calendar and upserts the whole copy;  *)
(*   - the API's satisfy and waive requests, which read a row, decide, and *)
(*     upsert the whole copy they read;                                    *)
(*   - ingest, when a contract is extracted again.                         *)
(* No lock, etag or transaction spans a read and the write that follows    *)
(* it, so every await is a step of its own.  A row change and its audit    *)
(* record are two writes, to two containers.                               *)
(***************************************************************************)
EXTENDS DueDates, FiniteSets

CONSTANTS
  Obligations,     \* obligation ids
  Requests,        \* satisfy and waive requests
  Timings,         \* the timings an extraction may give an obligation
  NoRow,           \* stands for a row that does not exist
  Scanner,         \* the scanner, as the author of a change
  NoticeLimit,     \* the most obligations a notice names
  MaxDay,          \* bound: the last day of the calendar
  MaxCrashes,      \* bound: writers that die before they are done
  MaxLost,         \* bound: notices the webhook does not take
  MaxReextractions \* bound: rows rewritten by ingest

ASSUME ObligationsAssumption == IsFiniteSet(Obligations)
ASSUME TimingsAssumption == Timings \subseteq Timing
ASSUME NoRowAssumption ==
  NoRow \notin [timing : Timing, state : ObligationState, nextDue : OptionalDay]
ASSUME ScannerAssumption == Scanner \notin Requests
ASSUME BoundsAssumption ==
  {NoticeLimit, MaxDay, MaxCrashes, MaxLost, MaxReextractions} \subseteq Nat

Row == [timing : Timings, state : ObligationState, nextDue : OptionalDay]
Stored == Row \cup {NoRow}
Fresh(t) == [timing |-> t, state |-> "OPEN", nextDue |-> NoDate]
IsTerminal(row) == row # NoRow /\ row.state \in TERMINAL_STATES

Decision == {"SATISFIED", "WAIVED"}
CalendarState == {"OPEN", "DUE_SOON", "OVERDUE"}

\* Who moved which obligation to which state: an audit record, as stored.
Change == (Requests \cup {Scanner}) \X Obligations \X ObligationState

VARIABLES
  today,       \* the date datetime.now(UTC) gives
  rows,        \* the obligations container
  wrote,       \* how often each change was made to the container: the writer
               \* stored a state the row did not have, or its copy did not
  logged,      \* the audit container: how often each change is recorded
  phase,       \* scanner: "idle", "list" (fetching), "loop"
  scanDay,     \* scanner: `today', read once when the scan starts
  unread,      \* scanner: rows list_active has still to visit
  held,        \* scanner: the copies it fetched and has not dealt with
  moved,       \* scanner: result.transitions
  toAudit,     \* scanner: the change it must record before going on
  told,        \* the last flag a delivered notice gave each obligation (none: "OPEN")
  asks,        \* request: what it asks for
  step,        \* request: how far it has come
  seen,        \* request: the copy it read
  crashes, lost, reextracted   \* faults and re-extractions so far

scanVars == <<phase, scanDay, unread, held, moved, toAudit>>
requestVars == <<asks, step, seen>>
faults == <<crashes, lost, reextracted>>
vars == <<today, rows, wrote, logged, scanVars, told, requestVars, faults>>

Asked(r) == asks[r].obligation
Steps == {"new", "write", "audit", "ok", "conflict", "notfound", "failed"}

TypeOK ==
  /\ today \in 0..MaxDay
  /\ rows \in [Obligations -> Stored]
  /\ wrote \in [Change -> Nat]
  /\ logged \in [Change -> Nat]
  /\ phase \in {"idle", "list", "loop"}
  /\ scanDay \in 0..today
  /\ unread \subseteq Obligations
  /\ held \in [Obligations -> Stored]
  /\ \A o \in Obligations : ~IsTerminal(held[o])
  /\ moved \subseteq Obligations \X CalendarState
  /\ toAudit \subseteq {Scanner} \X Obligations \X CalendarState
  /\ told \in [Obligations -> CalendarState]
  /\ asks \in [Requests -> [obligation : Obligations, decision : Decision]]
  /\ step \in [Requests -> Steps]
  /\ seen \in [Requests -> Stored]
  /\ \A r \in Requests : step[r] = "write" => seen[r] # NoRow
  /\ crashes \in 0..MaxCrashes
  /\ lost \in 0..MaxLost
  /\ reextracted \in 0..MaxReextractions

Init ==
  /\ today = 0
  /\ \E timing \in [Obligations -> Timings] :
       rows = [o \in Obligations |-> Fresh(timing[o])]
  /\ wrote = [c \in Change |-> 0]
  /\ logged = wrote
  /\ phase = "idle" /\ scanDay = 0
  /\ unread = {} /\ moved = {} /\ toAudit = {}
  /\ held = [o \in Obligations |-> NoRow]
  /\ told = [o \in Obligations |-> "OPEN"]
  /\ asks \in [Requests -> [obligation : Obligations, decision : Decision]]
  /\ step = [r \in Requests |-> "new"]
  /\ seen = [r \in Requests |-> NoRow]
  /\ crashes = 0 /\ lost = 0 /\ reextracted = 0

Counted(tally, c) == [tally EXCEPT ![c] = @ + 1]

-----------------------------------------------------------------------------
\* The calendar.

DayPasses ==
  /\ today < MaxDay
  /\ today' = today + 1
  /\ UNCHANGED <<rows, wrote, logged, scanVars, told, requestVars, faults>>

-----------------------------------------------------------------------------
\* The scanner.

\* One execution at a time; a replica that died is started again, and the
\* schedule starts a new one every day.
ScanStart ==
  /\ phase = "idle"
  /\ phase' = "list"
  /\ scanDay' = today
  /\ unread' = Obligations
  /\ UNCHANGED <<today, rows, wrote, logged, held, moved, toAudit, told,
                 requestVars, faults>>

\* Mutant: the query does not leave terminal rows out.
ListsEveryRow(row) == row # NoRow

Active(row) == row # NoRow /\ row.state \notin TERMINAL_STATES

\* The query's pages arrive one after the other, each row as it is then.
ScanFetch(o) ==
  /\ phase = "list" /\ o \in unread
  /\ unread' = unread \ {o}
  /\ held' = IF Active(rows[o]) THEN [held EXCEPT ![o] = rows[o]] ELSE held
  /\ phase' = IF unread' = {} THEN "loop" ELSE "list"
  /\ UNCHANGED <<today, rows, wrote, logged, scanDay, moved, toAudit, told,
                 requestVars, faults>>

\* The copy as the scan leaves it.
Evaluated(row) ==
  LET due == effective_due_date(row.timing, scanDay)
  IN [row EXCEPT !.state = next_state(due, scanDay), !.nextDue = due]

\* Mutant: an unchanged state is taken for an unchanged row.
WritesOnNewState(row) ==
  /\ row.state \notin TERMINAL_STATES
  /\ ~Unscheduled(row.timing)
  /\ Evaluated(row).state # row.state

\* What the loop goes through before it writes: a copy that is closed, has an
\* unschedulable rule or is up to date is left alone.
NeedsWrite(row) ==
  /\ row.state \notin TERMINAL_STATES
  /\ ~Unscheduled(row.timing)
  /\ \/ Evaluated(row).state # row.state
     \/ Evaluated(row).nextDue # row.nextDue

\* Mutant: every write is reported as a transition.
EveryWriteIsATransition(row) == TRUE

\* Mutant: only obligations that become overdue are reported.
OnlyOverdueIsATransition(row) ==
  row.state # "OVERDUE" /\ Evaluated(row).state = "OVERDUE"

Transition(row) == Evaluated(row).state # row.state

\* Storing `row' over what the register has for o by now changes its state.
Overrides(o, row) == rows[o] = NoRow \/ rows[o].state # row.state

\* The loop body for a fetched copy nothing is to be done about.
ScanPass(o) ==
  /\ phase = "loop" /\ toAudit = {}
  /\ held[o] # NoRow /\ ~NeedsWrite(held[o])
  /\ held' = [held EXCEPT ![o] = NoRow]
  /\ UNCHANGED <<today, rows, wrote, logged, phase, scanDay, unread, moved,
                 toAudit, told, requestVars, faults>>

\* The loop body up to the upsert, which replaces the row whatever it has
\* become since it was fetched.  What it reports is the difference from its
\* copy; the row may change its state without one.
ScanWrite(o) ==
  /\ phase = "loop" /\ toAudit = {}
  /\ held[o] # NoRow /\ NeedsWrite(held[o])
  /\ LET new == Evaluated(held[o])
         change == <<Scanner, o, new.state>>
     IN /\ rows' = [rows EXCEPT ![o] = new]
        /\ wrote' = IF new.state # held[o].state \/ Overrides(o, new)
                    THEN Counted(wrote, change) ELSE wrote
        /\ IF Transition(held[o])
           THEN moved' = moved \cup {<<o, new.state>>} /\ toAudit' = {change}
           ELSE UNCHANGED <<moved, toAudit>>
  /\ held' = [held EXCEPT ![o] = NoRow]
  /\ UNCHANGED <<today, logged, phase, scanDay, unread, told, requestVars,
                 faults>>

ScanAudit ==
  /\ \E c \in toAudit : logged' = Counted(logged, c)
  /\ toAudit' = {}
  /\ UNCHANGED <<today, rows, wrote, phase, scanDay, unread, held, moved, told,
                 requestVars, faults>>

Scanned == phase = "loop" /\ toAudit = {} /\ \A o \in Obligations : held[o] = NoRow

Newly(s) == {o \in Obligations : <<o, s>> \in moved}

\* The obligations a notice names: newly overdue ones before those due soon,
\* up to its limit.  A return to OPEN is not named.
Names(named) ==
  LET overdue == Newly("OVERDUE")
      flagged == overdue \cup Newly("DUE_SOON")
  IN /\ named \subseteq flagged
     /\ overdue \subseteq named \/ named \subseteq overdue
     /\ named = flagged \/ Cardinality(named) = NoticeLimit

\* The end of scan and of main: a notice if anything moved, whose delivery
\* failure is swallowed; then the process exits.
ScanFinish ==
  /\ Scanned
  /\ \/ /\ \E named \in SUBSET Obligations :
             /\ Names(named)
             /\ told' = [o \in Obligations |->
                           IF o \notin named THEN told[o]
                           ELSE IF o \in Newly("OVERDUE") THEN "OVERDUE" ELSE "DUE_SOON"]
        /\ UNCHANGED lost
     \/ moved # {} /\ lost < MaxLost /\ lost' = lost + 1 /\ UNCHANGED told
  /\ phase' = "idle"
  /\ moved' = {} /\ scanDay' = 0
  /\ UNCHANGED <<today, rows, wrote, logged, unread, held, toAudit,
                 requestVars, crashes, reextracted>>

\* An exception no handler catches, or the replica killed: what the process
\* held in memory is gone.
ScanCrash ==
  /\ phase # "idle" /\ crashes < MaxCrashes
  /\ crashes' = crashes + 1
  /\ phase' = "idle"
  /\ scanDay' = 0 /\ unread' = {} /\ moved' = {} /\ toAudit' = {}
  /\ held' = [o \in Obligations |-> NoRow]
  /\ UNCHANGED <<today, rows, wrote, logged, told, requestVars, lost,
                 reextracted>>

-----------------------------------------------------------------------------
\* The API's satisfy and waive.

\* Mutant: a decision on a terminal obligation is not refused.
NeverConflicts(row, decision) == FALSE

Conflict(row, decision) ==
  row.state \in TERMINAL_STATES /\ row.state # decision

DecideRead(r) ==
  /\ step[r] = "new"
  /\ LET row == rows[Asked(r)] IN
     \/ row = NoRow /\ step' = [step EXCEPT ![r] = "notfound"] /\ UNCHANGED seen
     \/ /\ row # NoRow /\ row.state = asks[r].decision
        /\ step' = [step EXCEPT ![r] = "ok"] /\ UNCHANGED seen
     \/ /\ row # NoRow /\ Conflict(row, asks[r].decision)
        /\ step' = [step EXCEPT ![r] = "conflict"] /\ UNCHANGED seen
     \/ /\ row # NoRow /\ row.state # asks[r].decision
        /\ ~Conflict(row, asks[r].decision)
        /\ step' = [step EXCEPT ![r] = "write"]
        /\ seen' = [seen EXCEPT ![r] = row]
  /\ UNCHANGED <<today, rows, wrote, logged, scanVars, told, asks, faults>>

Ruling(r) == <<r, Asked(r), asks[r].decision>>

DecideWrite(r) ==
  /\ step[r] = "write"
  /\ rows' = [rows EXCEPT ![Asked(r)] = [seen[r] EXCEPT !.state = asks[r].decision]]
  /\ wrote' = Counted(wrote, Ruling(r))
  /\ step' = [step EXCEPT ![r] = "audit"]
  /\ seen' = [seen EXCEPT ![r] = NoRow]
  /\ UNCHANGED <<today, logged, scanVars, told, asks, faults>>

DecideAudit(r) ==
  /\ step[r] = "audit"
  /\ logged' = Counted(logged, Ruling(r))
  /\ step' = [step EXCEPT ![r] = "ok"]
  /\ UNCHANGED <<today, rows, wrote, scanVars, told, asks, seen, faults>>

\* The store refuses a call, or the replica dies, in the middle of a request.
DecideFail(r) ==
  /\ step[r] \in {"write", "audit"} /\ crashes < MaxCrashes
  /\ crashes' = crashes + 1
  /\ step' = [step EXCEPT ![r] = "failed"]
  /\ seen' = [seen EXCEPT ![r] = NoRow]
  /\ UNCHANGED <<today, rows, wrote, logged, scanVars, told, asks, lost,
                 reextracted>>

-----------------------------------------------------------------------------
\* Ingest extracts the contract again: ids are indexes into the new list, so
\* an id is overwritten with a fresh obligation, or pruned with the tail.

Reextract(o) ==
  /\ reextracted < MaxReextractions
  /\ reextracted' = reextracted + 1
  /\ \E row \in {NoRow} \cup {Fresh(t) : t \in Timings} :
       rows' = [rows EXCEPT ![o] = row]
  /\ UNCHANGED <<today, wrote, logged, scanVars, told, requestVars, crashes, lost>>

-----------------------------------------------------------------------------
ScanStep ==
  \/ ScanStart
  \/ \E o \in Obligations : ScanFetch(o) \/ ScanPass(o) \/ ScanWrite(o)
  \/ ScanAudit
  \/ ScanFinish

Next ==
  \/ DayPasses
  \/ ScanStep
  \/ ScanCrash
  \/ \E r \in Requests :
       DecideRead(r) \/ DecideWrite(r) \/ DecideAudit(r) \/ DecideFail(r)
  \/ \E o \in Obligations : Reextract(o)

Spec == Init /\ [][Next]_vars

\* The schedule starts a scan every day, and a started scan is executed.
\* Nothing makes a day pass, a user ask, or ingest run.
FairSpec == Spec /\ WF_vars(ScanStep)

-----------------------------------------------------------------------------
(* Safety *)

\* The trail never overstates: a change is recorded at most as often as it was
\* made (the comment in scan: the other order "is the worse failure").
AuditNeverOverstates == \A c \in Change : logged[c] <= wrote[c]

\* What the trail may miss is bounded: one record for each writer that is
\* between its row and its record now, or that died there; and one for each
\* decision and each re-extraction, which a scan that holds an older copy may
\* undo by storing that copy with a new date and no new state, a change of
\* state it does not see and does not record.
Missing == UNION {{c} \X (1..(wrote[c] - logged[c])) : c \in Change}
InFlight == Cardinality(toAudit) + Cardinality({r \in Requests : step[r] = "audit"})
Decided == {r \in Requests : wrote[Ruling(r)] > 0}
AuditLossBounded ==
  Cardinality(Missing) <= InFlight + crashes + Cardinality(Decided) + reextracted

\* A date in the register comes from the obligation's own terms: its fixed
\* date, or its anchor plus a whole number of periods.  An unschedulable rule
\* never gets an invented one.
DatesComeFromTheTerms ==
  \A o \in Obligations :
    rows[o] # NoRow /\ rows[o].nextDue # NoDate =>
      LET t == rows[o].timing IN
      IF t.due # NoDate THEN rows[o].nextDue = t.due
      ELSE /\ t.recurrence = "periodic"
           /\ rows[o].nextDue >= t.anchor
           /\ (rows[o].nextDue - t.anchor) % t.period = 0

\* A flag, once shown, is true whatever the register went through to get it:
\* nothing is OVERDUE before its fixed date has passed, a recurring duty is
\* never OVERDUE, and DUE_SOON means due within the window or already past.
FlagsAreTrue ==
  \A o \in Obligations : rows[o] # NoRow =>
    /\ rows[o].state = "OVERDUE" =>
         rows[o].timing.due # NoDate /\ rows[o].timing.due < today
    /\ rows[o].state = "DUE_SOON" =>
         rows[o].nextDue # NoDate /\ rows[o].nextDue <= today + DueSoonDays

\* A scan leaves nothing behind: when it has dealt with its last copy, every
\* row that is still active says what the calendar says of it on the scan's
\* day, decisions taken meanwhile notwithstanding (ingest aside).
ScanIsComplete ==
  Scanned /\ reextracted = 0 =>
    \A o \in Obligations :
      Active(rows[o]) /\ ~Unscheduled(rows[o].timing) =>
        rows[o] = Evaluated(rows[o])

\* With no crash, no lost notice, no re-extraction and room in the notice,
\* whoever reads the notices knows of every flag in the register between two
\* scans, and knows the current one.
NoticesKeepUp ==
  (/\ phase = "idle" /\ crashes + lost + reextracted = 0
   /\ Cardinality(Obligations) <= NoticeLimit)
  => \A o \in Obligations :
       Active(rows[o]) /\ rows[o].state # "OPEN" => told[o] = rows[o].state

-----------------------------------------------------------------------------
(* Action properties *)

\* Some writer acts on a copy taken before the obligation was closed.
Racing(o) ==
  \/ held[o] # NoRow
  \/ \E r \in Requests : step[r] = "write" /\ Asked(r) = o /\ Active(seen[r])

\* Outside those races, and short of re-extraction, a closed obligation stays
\* as it was closed.
ClosedStaysClosed ==
  [][\A o \in Obligations :
       IsTerminal(rows[o]) /\ ~Racing(o) /\ reextracted' = reextracted
         => rows'[o] = rows[o]]_vars

\* "Terminal states are never revisited": no step of the scanner changes an
\* obligation that is closed.
ScannerLeavesClosedAlone ==
  [][\A o \in Obligations :
       IsTerminal(rows[o]) /\ held' # held => rows'[o] = rows[o]]_vars

-----------------------------------------------------------------------------
(* Liveness *)

PastDueUnflagged(o) ==
  /\ Active(rows[o])
  /\ rows[o].timing.due # NoDate /\ rows[o].timing.due < today
  /\ rows[o].state # "OVERDUE"

\* An obligation whose date has passed is eventually flagged (or closed, or
\* gone), through crashes, races and re-extractions.
PastDueIsFlagged ==
  \A o \in Obligations : PastDueUnflagged(o) ~> ~PastDueUnflagged(o)
=============================================================================
