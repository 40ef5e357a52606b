----------------------------- MODULE Replacement -----------------------------
(***************************************************************************)
(* How a run of run_ingest replaces what an earlier run stored for the     *)
(* same contract, row by row: first its clauses, then, when the model has  *)
(* answered, its obligations, each by upserting the new rows and deleting  *)
(* the ones beyond them.  Row ids are indexes, so a new row overwrites the *)
(* old one with its index.  A reader asks for an obligation's evidence:    *)
(* it reads the obligation, then the contract's clauses.  And the scanner, *)
(* or a decision, holds a copy of an obligation it has read and writes it  *)
(* back whole, whatever has become of the row since.                       *)
(*                                                                         *)
(* A row is the run that wrote it.  Runs are numbered in the order they    *)
(* start.                                                                  *)
(***************************************************************************)
EXTENDS Integers, Sequences

CONSTANTS
  MaxRuns,      \* bound: how often the contract is ingested
  Slots,        \* row indexes, from 0 (clause ordinals, obligation indexes)
  Results,      \* what a run may find: a number of clauses, and for each
                \* obligation the ordinal of the clause it cites
  MaxFailures,  \* bound: runs that end in the middle
  MaxOverlaps,  \* bound: runs started while another is under way
  MaxCopies     \* bound: copies of a row that are written back

Runs == 1..MaxRuns
NoRow == 0

ASSUME BoundsAssumption == {MaxRuns, MaxFailures, MaxOverlaps, MaxCopies} \subseteq Nat
ASSUME SlotsAssumption == Slots \subseteq Nat /\ 0 \in Slots
\* validate_citations: a clause outside the request cannot be cited.  run_ingest
\* raises before it stores an empty set of clauses.
ASSUME ResultsAssumption ==
  \A found \in Results :
    /\ found \in [clauses : Nat \ {0}, cites : Seq(Slots)]
    /\ 0..(found.clauses - 1) \subseteq Slots
    /\ 0..(Len(found.cites) - 1) \subseteq Slots
    /\ \A k \in 1..Len(found.cites) : found.cites[k] \in 0..(found.clauses - 1)

Containers == {"clauses", "obligations"}
Active == {"upsert", "delete", "between"}

VARIABLES
  rows,     \* the two containers, restricted to the contract
  result,   \* run: what it found
  phase,    \* run: "waiting", "upsert", "delete", "between", "done" or "failed"
  on,       \* run: the container it is replacing
  next,     \* run: rows it has upserted to that container
  stale,    \* run: rows its query found beyond the new ones
  reader,   \* reader: "idle", "read", "whole" or "dangling"
  seen,     \* reader: the obligation it read: its index, its run, its citation
  copy,     \* scanner, decision: the row it holds, its index and run, or NoCopy
  copies,   \* copies written back so far
  revived,  \* indexes whose obligation was last written from a copy that the row
            \* had changed under (a history variable)
  failures, overlaps

NoCopy == [index |-> 0, run |-> NoRow]

runVars == <<phase, on, next, stale>>
readVars == <<reader, seen>>
copyVars == <<copy, copies>>
faults == <<failures, overlaps>>
vars == <<rows, result, runVars, readVars, copyVars, revived, faults>>

Count(r, container) ==
  IF container = "clauses" THEN result[r].clauses ELSE Len(result[r].cites)

Citation(r, i) == result[r].cites[i + 1]

Stored(container) == {i \in Slots : rows[container][i] # NoRow}

TypeOK ==
  /\ rows \in [Containers -> [Slots -> Runs \cup {NoRow}]]
  /\ result \in [Runs -> Results]
  /\ phase \in [Runs -> Active \cup {"waiting", "done", "failed"}]
  /\ on \in [Runs -> Containers]
  /\ next \in [Runs -> Nat]
  /\ \A r \in Runs : next[r] <= Count(r, on[r])
  /\ stale \in [Runs -> SUBSET Slots]
  /\ reader \in {"idle", "read", "whole", "dangling"}
  /\ seen \in [index : Slots, run : Runs \cup {NoRow}, cites : Slots]
  /\ copy \in [index : Slots, run : Runs] \cup {NoCopy}
  /\ copies \in 0..MaxCopies
  /\ revived \subseteq Stored("obligations")
  /\ failures \in 0..MaxFailures
  /\ overlaps \in 0..MaxOverlaps

Init ==
  /\ rows = [container \in Containers |-> [i \in Slots |-> NoRow]]
  /\ result \in [Runs -> Results]
  /\ phase = [r \in Runs |-> "waiting"]
  /\ on = [r \in Runs |-> "clauses"]
  /\ next = [r \in Runs |-> 0]
  /\ stale = [r \in Runs |-> {}]
  /\ reader = "idle"
  /\ seen = [index |-> 0, run |-> NoRow, cites |-> 0]
  /\ copy = NoCopy /\ copies = 0 /\ revived = {}
  /\ failures = 0 /\ overlaps = 0

-----------------------------------------------------------------------------
\* A run.

Running == {r \in Runs : phase[r] \in Active}

Start(r) ==
  /\ phase[r] = "waiting" /\ \A q \in 1..(r - 1) : phase[q] # "waiting"
  /\ Running # {} => overlaps < MaxOverlaps
  /\ overlaps' = IF Running = {} THEN overlaps ELSE overlaps + 1
  /\ phase' = [phase EXCEPT ![r] = "upsert"]
  /\ UNCHANGED <<rows, result, on, next, stale, readVars, copyVars, revived, failures>>

\* A row written by a run, or deleted, is no copy.
Settled(container, i) == revived' = IF container = "obligations" THEN revived \ {i} ELSE revived

Upsert(r) ==
  /\ phase[r] = "upsert" /\ next[r] < Count(r, on[r])
  /\ rows' = [rows EXCEPT ![on[r]][next[r]] = r]
  /\ next' = [next EXCEPT ![r] = @ + 1]
  /\ Settled(on[r], next[r])
  /\ UNCHANGED <<result, phase, on, stale, readVars, copyVars, faults>>

\* Mutant: the first stale row is spared.
BeyondByMore(r) == {i \in Stored(on[r]) : i > Count(r, on[r])}

\* Mutant: the whole set is dropped.
Everything(r) == Stored(on[r])

Beyond(r) == {i \in Stored(on[r]) : i >= Count(r, on[r])}

\* The query for what the new set no longer has.
Query(r) ==
  /\ phase[r] = "upsert" /\ next[r] = Count(r, on[r])
  /\ stale' = [stale EXCEPT ![r] = Beyond(r)]
  /\ phase' = [phase EXCEPT ![r] = "delete"]
  /\ UNCHANGED <<rows, result, on, next, readVars, copyVars, revived, faults>>

\* One delete; a row that is gone already is not an error.
Delete(r) ==
  /\ phase[r] = "delete"
  /\ \E i \in stale[r] :
       /\ rows' = [rows EXCEPT ![on[r]][i] = NoRow]
       /\ stale' = [stale EXCEPT ![r] = @ \ {i}]
       /\ Settled(on[r], i)
  /\ UNCHANGED <<result, phase, on, next, readVars, copyVars, faults>>

\* The container is replaced: on to the extraction, or to READY.
Replaced(r) ==
  /\ phase[r] = "delete" /\ stale[r] = {}
  /\ phase' = [phase EXCEPT ![r] = IF on[r] = "clauses" THEN "between" ELSE "done"]
  /\ UNCHANGED <<rows, result, on, next, stale, readVars, copyVars, revived, faults>>

\* The model's answer is in; the obligations are replaced next.
Extracted(r) ==
  /\ phase[r] = "between"
  /\ phase' = [phase EXCEPT ![r] = "upsert"]
  /\ on' = [on EXCEPT ![r] = "obligations"]
  /\ next' = [next EXCEPT ![r] = 0]
  /\ UNCHANGED <<rows, result, stale, readVars, copyVars, revived, faults>>

\* A call fails, the model declines, or the replica is killed.
Fail(r) ==
  /\ phase[r] \in Active /\ failures < MaxFailures
  /\ failures' = failures + 1
  /\ phase' = [phase EXCEPT ![r] = "failed"]
  /\ UNCHANGED <<rows, result, on, next, stale, readVars, copyVars, revived, overlaps>>

-----------------------------------------------------------------------------
\* obligation_evidence.

ReadObligation ==
  /\ reader # "read"
  /\ \E i \in Stored("obligations") :
       LET r == rows["obligations"][i] IN
       seen' = [index |-> i, run |-> r, cites |-> Citation(r, i)]
  /\ reader' = "read"
  /\ UNCHANGED <<rows, result, runVars, copyVars, revived, faults>>

\* Mutant: ordinals are taken to start at one.
ReadsFromOne ==
  /\ reader = "read"
  /\ reader' = IF seen.cites + 1 \in Stored("clauses") THEN "whole" ELSE "dangling"
  /\ UNCHANGED <<rows, result, runVars, seen, copyVars, revived, faults>>

ReadClauses ==
  /\ reader = "read"
  /\ reader' = IF seen.cites \in Stored("clauses") THEN "whole" ELSE "dangling"
  /\ UNCHANGED <<rows, result, runVars, seen, copyVars, revived, faults>>

-----------------------------------------------------------------------------
\* A write of one obligation: the scanner's, or a decision's.

ReadCopy ==
  /\ copy = NoCopy /\ copies < MaxCopies
  /\ \E i \in Stored("obligations") : copy' = [index |-> i, run |-> rows["obligations"][i]]
  /\ UNCHANGED <<rows, result, runVars, readVars, copies, revived, faults>>

\* upsert writes the row whether it is still there or not.
WriteCopy ==
  /\ copy # NoCopy
  /\ rows' = [rows EXCEPT !["obligations"][copy.index] = copy.run]
  /\ revived' = IF rows["obligations"][copy.index] = copy.run THEN revived
                ELSE revived \cup {copy.index}
  /\ copy' = NoCopy /\ copies' = copies + 1
  /\ UNCHANGED <<result, runVars, readVars, faults>>

Next ==
  \/ \E r \in Runs :
       Start(r) \/ Upsert(r) \/ Query(r) \/ Delete(r) \/ Replaced(r) \/ Extracted(r) \/ Fail(r)
  \/ ReadObligation
  \/ ReadClauses
  \/ ReadCopy
  \/ WriteCopy

Spec == Init /\ [][Next]_vars

-----------------------------------------------------------------------------
(* Properties *)

\* Both containers hold exactly what a run found, but for copies written back.
HoldsExactly(r) ==
  \A container \in Containers, i \in Slots :
    \/ rows[container][i] = IF i < Count(r, container) THEN r ELSE NoRow
    \/ container = "obligations" /\ i \in revived

\* No run is under way, and the last that ran is r.
LastRun(r) ==
  /\ Running = {} /\ phase[r] # "waiting"
  /\ \A q \in Runs : q > r => phase[q] = "waiting"

\* "Replace wholesale": when a run has ended well, and runs did not overlap,
\* both containers hold its results and nothing else, whatever earlier runs
\* left behind half done; except for obligations that somebody who had read them
\* before wrote back.
RerunReplacesEverything ==
  overlaps = 0 => \A r \in Runs : LastRun(r) /\ phase[r] = "done" => HoldsExactly(r)

\* What the port says, without the exception: "a re-extraction after a prompt
\* change must not leave the previous run's obligations beside the new ones".
NoOldObligations ==
  \A r \in Runs : LastRun(r) /\ phase[r] = "done" =>
    \A i \in Stored("obligations") : rows["obligations"][i] = r

\* "There is never a window where a reader sees zero clauses for a contract
\* that has some", even with runs that overlap.
NeverBare == [][Stored("clauses") # {} => Stored("clauses")' # {}]_vars

\* A citation that does not resolve has a cause the reader can be told: a run
\* under way, a run that ended in the middle, overlapping runs, an obligation
\* written back from an old copy, or one replaced since it was read.
DanglingHasACause ==
  [][reader = "read" /\ reader' = "dangling" =>
       \/ Running # {} \/ overlaps > 0
       \/ \E r \in Runs : LastRun(r) /\ phase[r] = "failed"
       \/ seen.index \in revived \/ rows["obligations"][seen.index] # seen.run]_vars
=============================================================================
