------------------------- MODULE ReplacementProofs -------------------------
(***************************************************************************)
(* Theorems about Replacement, for any number of runs, results, failures,  *)
(* overlaps and copies.                                                    *)
(***************************************************************************)
EXTENDS Replacement, NatLemmas

-----------------------------------------------------------------------------
(* Types *)

\* What a run found is a result: its clauses and obligations have slots, and an
\* obligation cites one of the clauses found with it.
LEMMA ResultsAreResults ==
  ASSUME result \in [Runs -> Results], NEW r \in Runs
  PROVE  /\ \A c \in Containers : Count(r, c) \in Nat
         /\ \A c \in Containers : \A i \in Nat : i < Count(r, c) => i \in Slots
         /\ Count(r, "clauses") >= 1
         /\ \A i \in Nat : i < Count(r, "obligations") =>
              Citation(r, i) \in Nat /\ Citation(r, i) < Count(r, "clauses")
  <1>1. /\ result[r].clauses \in Nat \ {0} /\ result[r].cites \in Seq(Slots)
        /\ 0..(result[r].clauses - 1) \subseteq Slots
        /\ 0..(Len(result[r].cites) - 1) \subseteq Slots
        /\ \A k \in 1..Len(result[r].cites) : result[r].cites[k] \in 0..(result[r].clauses - 1)
    BY ResultsAssumption
  <1>2. Len(result[r].cites) \in Nat
    BY <1>1
  <1>3. ASSUME NEW i \in Nat, i < Len(result[r].cites)
        PROVE  /\ Citation(r, i) \in 0..(result[r].clauses - 1)
               /\ i \in 0..(Len(result[r].cites) - 1)
    BY <1>1, <1>2, <1>3 DEF Citation
  <1>4. /\ Count(r, "clauses") = result[r].clauses
        /\ Count(r, "obligations") = Len(result[r].cites)
    BY DEF Count
  <1>5. \A i \in Nat : i < result[r].clauses => i \in Slots
    BY <1>1
  <1>6. \A i \in Nat : i < Len(result[r].cites) => i \in Slots
    BY <1>1, <1>3
  <1>7. \A i \in Nat : i < Len(result[r].cites) =>
          Citation(r, i) \in Nat /\ Citation(r, i) < result[r].clauses
    BY <1>1, <1>3
  <1>8. ASSUME NEW c \in Containers
        PROVE  Count(r, c) \in Nat /\ \A i \in Nat : i < Count(r, c) => i \in Slots
    <2>1. CASE c = "clauses"
      BY <1>1, <1>4, <1>5, <2>1
    <2>2. CASE c = "obligations"
      BY <1>2, <1>4, <1>6, <2>2
    <2> QED
      BY <2>1, <2>2 DEF Containers
  <1>9. Count(r, "clauses") >= 1
    BY <1>1, <1>4
  <1> QED
    BY <1>4, <1>7, <1>8, <1>9

\* A write of one row changes no other.
LEMMA OneRow ==
  ASSUME rows \in [Containers -> [Slots -> Runs \cup {NoRow}]],
         NEW c \in Containers, NEW i \in Slots, NEW v \in Runs \cup {NoRow},
         rows' = [rows EXCEPT ![c][i] = v]
  PROVE  /\ rows' \in [Containers -> [Slots -> Runs \cup {NoRow}]]
         /\ rows'[c][i] = v
         /\ \A d \in Containers, j \in Slots :
              d # c \/ j # i => rows'[d][j] = rows[d][j]
  OBVIOUS

\* Inductive with the types: a row is one its run did find.
Genuine ==
  /\ \A c \in Containers, i \in Slots : rows[c][i] # NoRow => i < Count(rows[c][i], c)
  /\ copy # NoCopy => copy.index < Count(copy.run, "obligations") /\ copies < MaxCopies

TypeInv == TypeOK /\ Genuine

LEMMA TypeInvInit == Init => TypeInv
  <1> SUFFICES ASSUME Init PROVE TypeInv
    OBVIOUS
  <1>1. \A r \in Runs : 0 <= Count(r, on[r])
    BY ResultsAreResults DEF Init, Containers
  <1> QED
    BY <1>1, BoundsAssumption, SlotsAssumption
       DEF Init, TypeInv, TypeOK, Genuine, Containers, Active, Stored, Runs, NoRow, NoCopy

LEMMA TypeInvNext == TypeInv /\ [Next]_vars => TypeInv'
  <1> SUFFICES ASSUME TypeInv, [Next]_vars PROVE TypeInv'
    OBVIOUS
  <1> USE DEF TypeInv, TypeOK
  <1>a. result' = result /\ \A r \in Runs, c \in Containers : Count(r, c)' = Count(r, c)
    BY DEF Next, Start, Upsert, Query, Delete, Replaced, Extracted, Fail, ReadObligation,
           ReadClauses, ReadCopy, WriteCopy, vars, Count
  <1>b. /\ \A r \in Runs, c \in Containers : Count(r, c) \in Nat
        /\ \A r \in Runs, c \in Containers : \A i \in Nat : i < Count(r, c) => i \in Slots
    BY ResultsAreResults
  <1>c. {"clauses", "obligations"} = Containers /\ NoRow \notin Runs
    BY DEF Containers, Runs, NoRow
  <1>d. \A i \in Slots : i \in Stored("obligations") <=> rows["obligations"][i] # NoRow
    BY DEF Stored
  <1>1. ASSUME NEW r \in Runs, Start(r) \/ Query(r) \/ Replaced(r) \/ Fail(r)
        PROVE  TypeInv'
    <2>1. /\ UNCHANGED <<rows, on, next, readVars, copyVars, revived>>
          /\ phase' \in [Runs -> Active \cup {"waiting", "done", "failed"}]
      BY <1>1 DEF Start, Query, Replaced, Fail, Active
    <2>2. stale' \in [Runs -> SUBSET Slots]
      BY <1>1 DEF Start, Query, Replaced, Fail, Beyond, Stored
    <2>3. failures' \in 0..MaxFailures /\ overlaps' \in 0..MaxOverlaps
      BY <1>1, BoundsAssumption DEF Start, Query, Replaced, Fail, faults
    <2> QED
      BY <1>a, <2>1, <2>2, <2>3 DEF readVars, copyVars, Stored, Genuine, Count
  <1>2. ASSUME NEW r \in Runs, Upsert(r) PROVE TypeInv'
    <2> DEFINE c == on[r]
               i == next[r]
    <2>1. c \in Containers /\ i \in Nat /\ i < Count(r, c) /\ i \in Slots
      BY <1>2, <1>b DEF Upsert
    <2>2. rows' = [rows EXCEPT ![c][i] = r]
      BY <1>2 DEF Upsert
    <2>3. /\ rows' \in [Containers -> [Slots -> Runs \cup {NoRow}]]
          /\ rows'[c][i] = r
          /\ \A d \in Containers, j \in Slots : d # c \/ j # i => rows'[d][j] = rows[d][j]
      BY <2>1, <2>2, OneRow
    <2>4. next' \in [Runs -> Nat] /\ \A q \in Runs : next'[q] <= Count(q, on[q])
      BY <1>2, <1>b, <2>1 DEF Upsert
    <2>5. /\ UNCHANGED <<phase, on, stale, readVars, copyVars, faults>>
          /\ revived' = IF c = "obligations" THEN revived \ {i} ELSE revived
      BY <1>2 DEF Upsert, Settled
    <2>6. \A d \in Containers, j \in Slots : rows'[d][j] # NoRow => j < Count(rows'[d][j], d)
      BY <2>1, <2>3 DEF Genuine
    <2> HIDE DEF c, i
    <2>7. revived' \subseteq Stored("obligations")'
      BY <1>c, <1>d, <2>1, <2>3, <2>5 DEF Stored
    <2> QED
      BY <1>a, <1>c, <2>3, <2>4, <2>5, <2>6, <2>7 DEF readVars, copyVars, faults, Genuine, Count
  <1>3. ASSUME NEW r \in Runs, Delete(r) PROVE TypeInv'
    <2>1. PICK i \in stale[r] :
            /\ rows' = [rows EXCEPT ![on[r]][i] = NoRow]
            /\ stale' = [stale EXCEPT ![r] = @ \ {i}]
            /\ revived' = IF on[r] = "obligations" THEN revived \ {i} ELSE revived
      BY <1>3 DEF Delete, Settled
    <2> DEFINE c == on[r]
    <2>2. c \in Containers /\ i \in Slots
      BY <2>1
    <2>3. /\ rows' \in [Containers -> [Slots -> Runs \cup {NoRow}]]
          /\ rows'[c][i] = NoRow
          /\ \A d \in Containers, j \in Slots : d # c \/ j # i => rows'[d][j] = rows[d][j]
      BY <2>1, <2>2, OneRow
    <2>4. UNCHANGED <<phase, on, next, readVars, copyVars, faults>>
      BY <1>3 DEF Delete
    <2>5. \A d \in Containers, j \in Slots : rows'[d][j] # NoRow => j < Count(rows'[d][j], d)
      BY <2>2, <2>3 DEF Genuine
    <2>6. revived' \subseteq Stored("obligations")'
      BY <1>c, <1>d, <2>1, <2>2, <2>3 DEF Stored
    <2> QED
      BY <1>a, <1>c, <2>1, <2>2, <2>3, <2>4, <2>5, <2>6
         DEF readVars, copyVars, faults, Genuine, Count
  <1>4. ASSUME NEW r \in Runs, Extracted(r) PROVE TypeInv'
    <2>1. /\ UNCHANGED <<rows, stale, readVars, copyVars, revived, faults>>
          /\ phase' \in [Runs -> Active \cup {"waiting", "done", "failed"}]
          /\ on' \in [Runs -> Containers]
          /\ next' \in [Runs -> Nat]
      BY <1>4, <1>b, <1>c DEF Extracted, Active
    <2>2. \A q \in Runs : next'[q] <= Count(q, on'[q])
      BY <1>4, <1>b, <1>c, <2>1 DEF Extracted
    <2> QED
      BY <1>a, <2>1, <2>2 DEF readVars, copyVars, faults, Stored, Genuine, Count
  <1>5. CASE ReadObligation
    <2>1. PICK i \in Stored("obligations") :
            seen' = [index |-> i, run |-> rows["obligations"][i],
                     cites |-> Citation(rows["obligations"][i], i)]
      BY <1>5 DEF ReadObligation
    <2>2. /\ i \in Slots /\ rows["obligations"][i] \in Runs
          /\ i < Count(rows["obligations"][i], "obligations")
      BY <1>c DEF Stored, Genuine
    <2>3. Citation(rows["obligations"][i], i) \in Slots
      BY <1>c, <2>2, SlotsAssumption, ResultsAreResults
    <2>4. seen' \in [index : Slots, run : Runs \cup {NoRow}, cites : Slots]
      BY <2>1, <2>2, <2>3
    <2> QED
      BY <1>5, <1>a, <2>4 DEF ReadObligation, runVars, copyVars, faults, Stored, Genuine, Count
  <1>6. CASE ReadClauses
    BY <1>6, <1>a DEF ReadClauses, runVars, copyVars, faults, Stored, Genuine, Count
  <1>7. CASE ReadCopy
    <2>1. PICK i \in Stored("obligations") : copy' = [index |-> i, run |-> rows["obligations"][i]]
      BY <1>7 DEF ReadCopy
    <2>2. /\ i \in Slots /\ rows["obligations"][i] \in Runs
          /\ i < Count(rows["obligations"][i], "obligations")
      BY <1>c DEF Stored, Genuine
    <2>3. /\ copy' \in [index : Slots, run : Runs]
          /\ copy'.index < Count(copy'.run, "obligations")
      BY <2>1, <2>2
    <2> QED
      BY <1>7, <1>a, <2>3 DEF ReadCopy, runVars, readVars, faults, Stored, Genuine, Count
  <1>8. CASE WriteCopy
    <2>1. /\ copy.index \in Slots /\ copy.run \in Runs
          /\ rows' = [rows EXCEPT !["obligations"][copy.index] = copy.run]
          /\ copy' = NoCopy /\ copies' = copies + 1 /\ copies < MaxCopies
          /\ revived' \subseteq revived \cup {copy.index}
          /\ UNCHANGED <<runVars, readVars, faults>>
      BY <1>8 DEF WriteCopy, Genuine
    <2>2. /\ rows' \in [Containers -> [Slots -> Runs \cup {NoRow}]]
          /\ rows'["obligations"][copy.index] = copy.run
          /\ \A d \in Containers, j \in Slots :
               d # "obligations" \/ j # copy.index => rows'[d][j] = rows[d][j]
      BY <1>c, <2>1, OneRow
    <2>3. \A d \in Containers, j \in Slots : rows'[d][j] # NoRow => j < Count(rows'[d][j], d)
      BY <1>8, <2>1, <2>2 DEF Genuine, WriteCopy
    <2>4. revived' \subseteq Stored("obligations")'
      BY <1>c, <1>d, <2>1, <2>2 DEF Stored
    <2> QED
      BY <1>a, <2>1, <2>2, <2>3, <2>4, BoundsAssumption
         DEF runVars, readVars, faults, Genuine, Count
  <1>9. CASE UNCHANGED vars
    BY <1>9, <1>a DEF vars, runVars, readVars, copyVars, faults, Stored, Genuine, Count
  <1> QED
    BY <1>1, <1>2, <1>3, <1>4, <1>5, <1>6, <1>7, <1>8, <1>9 DEF Next

\* Every variable keeps its type, and a row is always one that its run found.
THEOREM ReplacementTypeCorrect == Spec => []TypeOK
  <1>1. TypeInv => TypeOK
    BY DEF TypeInv
  <1> QED
    BY <1>1, TypeInvInit, TypeInvNext, PTL DEF Spec
-----------------------------------------------------------------------------
(* The order of runs *)

Last(r) == phase[r] # "waiting" /\ \A q \in Runs : q > r => phase[q] = "waiting"

\* Inductive: runs start in their order, what is stored or held is of a run that
\* has started, and without overlaps the run under way is the last that did.
OrderInv ==
  /\ \A q, r \in Runs : q < r /\ phase[r] # "waiting" => phase[q] # "waiting"
  /\ \A c \in Containers, i \in Slots : rows[c][i] # NoRow => phase[rows[c][i]] # "waiting"
  /\ copy # NoCopy => phase[copy.run] # "waiting"
  /\ overlaps = 0 => \A r \in Running : Last(r)

LEMMA OrderInit == Init => OrderInv
  BY DEF Init, OrderInv, Running, Active, NoRow

LEMMA OrderNext == TypeInv /\ OrderInv /\ [Next]_vars => OrderInv'
  <1> SUFFICES ASSUME TypeInv, OrderInv, [Next]_vars PROVE OrderInv'
    OBVIOUS
  <1> USE DEF OrderInv, Running, Last
  <1>a. /\ TypeOK /\ overlaps \in Nat /\ NoRow \notin Runs
        /\ \A r \in Runs : r \in Int
        /\ phase \in [Runs -> Active \cup {"waiting", "done", "failed"}]
        /\ "waiting" \notin Active /\ "upsert" \in Active
    BY BoundsAssumption DEF TypeInv, TypeOK, Runs, NoRow, Active
  <1>1. ASSUME NEW r \in Runs, Start(r) PROVE OrderInv'
    <2>1. /\ phase[r] = "waiting" /\ \A q \in Runs : q < r => phase[q] # "waiting"
          /\ phase' = [phase EXCEPT ![r] = "upsert"]
          /\ UNCHANGED <<rows, copy>>
          /\ overlaps' = 0 => Running = {}
      BY <1>1, <1>a DEF Start, Runs, copyVars
    <2>2. \A q, s \in Runs : q < s /\ phase'[s] # "waiting" => phase'[q] # "waiting"
      BY <1>a, <2>1
    <2>3. overlaps' = 0 => \A q \in Runs : phase'[q] \in Active => q = r
      BY <1>a, <2>1
    <2>4. \A q \in Runs : q > r => phase'[q] = "waiting"
      BY <1>a, <2>1
    <2>5. \A c \in Containers, j \in Slots : rows'[c][j] # NoRow => phase'[rows'[c][j]] # "waiting"
      BY <1>a, <2>1 DEF TypeOK
    <2>6. copy' # NoCopy => phase'[copy'.run] # "waiting"
      BY <1>a, <2>1 DEF TypeOK
    <2> QED
      BY <1>a, <2>1, <2>2, <2>3, <2>4, <2>5, <2>6
  <1>2. ASSUME NEW r \in Runs, Query(r) \/ Replaced(r) \/ Extracted(r) \/ Fail(r)
        PROVE  OrderInv'
    <2>1. /\ phase[r] \in Active
          /\ \E new \in {"delete", "between", "done", "upsert", "failed"} :
               phase' = [phase EXCEPT ![r] = new]
          /\ UNCHANGED <<rows, copy, overlaps>>
      BY <1>2 DEF Query, Replaced, Extracted, Fail, Active, copyVars, faults
    <2>2. /\ \A q \in Runs : phase'[q] = "waiting" <=> phase[q] = "waiting"
          /\ \A q \in Runs : phase'[q] \in Active => phase[q] \in Active
      BY <1>a, <2>1
    <2>3. \A c \in Containers, j \in Slots : rows'[c][j] # NoRow => phase'[rows'[c][j]] # "waiting"
      BY <1>a, <2>1, <2>2 DEF TypeOK
    <2>4. copy' # NoCopy => phase'[copy'.run] # "waiting"
      BY <1>a, <2>1, <2>2 DEF TypeOK
    <2> QED
      BY <2>1, <2>2, <2>3, <2>4
  <1>3. ASSUME NEW r \in Runs, Upsert(r) \/ Delete(r) PROVE OrderInv'
    <2>1. UNCHANGED <<phase, copy, overlaps>> /\ phase[r] # "waiting"
      BY <1>3 DEF Upsert, Delete, copyVars, faults
    <2>2. \A c \in Containers, j \in Slots : rows'[c][j] \in {rows[c][j], r, NoRow}
      <3>1. CASE Upsert(r)
        BY <3>1, <1>a DEF Upsert, TypeOK
      <3>2. CASE Delete(r)
        BY <3>2, <1>a DEF Delete, TypeOK
      <3> QED
        BY <1>3, <3>1, <3>2
    <2> QED
      BY <2>1, <2>2
  <1>4. CASE ReadCopy
    <2>1. PICK j \in Stored("obligations") : copy' = [index |-> j, run |-> rows["obligations"][j]]
      BY <1>4 DEF ReadCopy
    <2>2. phase[copy'.run] # "waiting"
      BY <2>1 DEF Stored, Containers
    <2> QED
      BY <1>4, <2>2 DEF ReadCopy, runVars, faults
  <1>5. CASE WriteCopy
    <2>1. /\ copy' = NoCopy /\ phase[copy.run] # "waiting"
          /\ UNCHANGED <<phase, overlaps>>
          /\ \A c \in Containers, j \in Slots : rows'[c][j] \in {rows[c][j], copy.run}
      BY <1>5, <1>a DEF WriteCopy, TypeOK, runVars, faults
    <2> QED
      BY <2>1
  <1>6. CASE ReadObligation \/ ReadClauses \/ UNCHANGED vars
    BY <1>6 DEF ReadObligation, ReadClauses, vars, runVars, copyVars, faults
  <1> QED
    BY <1>1, <1>2, <1>3, <1>4, <1>5, <1>6 DEF Next

\* Two runs cannot both be the last that started.
LEMMA LastIsOne ==
  ASSUME NEW q \in Runs, NEW r \in Runs, Last(q), Last(r)
  PROVE  q = r
  BY DEF Last, Runs

-----------------------------------------------------------------------------
(* What is deleted *)

\* Inductive: what a run deletes is beyond its own rows, and clause 0 is never deleted.
StaleInv ==
  /\ \A r \in Runs : phase[r] = "delete" =>
       next[r] = Count(r, on[r]) /\ \A i \in stale[r] : i >= Count(r, on[r])
  /\ \A r \in Runs : phase[r] = "waiting" => on[r] = "clauses" /\ next[r] = 0
  /\ \A r \in Runs : phase[r] \in {"between", "done"} =>
       (on[r] = "clauses" <=> phase[r] = "between")
  /\ \A r \in Runs : on[r] = "clauses" /\ next[r] > 0 => rows["clauses"][0] # NoRow
  /\ \A i \in Slots : rows["clauses"][i] # NoRow => rows["clauses"][0] # NoRow

LEMMA StaleInit == Init => StaleInv
  BY DEF Init, StaleInv, Containers

LEMMA StaleNext == TypeInv /\ OrderInv /\ StaleInv /\ [Next]_vars => StaleInv'
  <1> SUFFICES ASSUME TypeInv, OrderInv, StaleInv, [Next]_vars PROVE StaleInv'
    OBVIOUS
  <1> DEFINE Goal ==
        /\ \A r \in Runs : phase'[r] = "delete" =>
             next'[r] = Count(r, on'[r]) /\ \A i \in stale'[r] : i >= Count(r, on'[r])
        /\ \A r \in Runs : phase'[r] = "waiting" => on'[r] = "clauses" /\ next'[r] = 0
        /\ \A r \in Runs : phase'[r] \in {"between", "done"} =>
             (on'[r] = "clauses" <=> phase'[r] = "between")
        /\ \A r \in Runs : on'[r] = "clauses" /\ next'[r] > 0 => rows'["clauses"][0] # NoRow
        /\ \A i \in Slots : rows'["clauses"][i] # NoRow => rows'["clauses"][0] # NoRow
  <1>a. /\ TypeOK /\ NoRow \notin Runs /\ "waiting" \notin Active
        /\ "clauses" \in Containers /\ "obligations" \in Containers
    BY DEF TypeInv, Runs, NoRow, Active, Containers
  <1>b. Goal => StaleInv'
    <2>1. result' = result
      BY DEF Next, Start, Upsert, Query, Delete, Replaced, Extracted, Fail, ReadObligation,
             ReadClauses, ReadCopy, WriteCopy, vars
    <2> QED
      BY <2>1 DEF StaleInv, Count
  <1>c. /\ \A r \in Runs, c \in Containers : Count(r, c) \in Nat
        /\ \A r \in Runs, c \in Containers : \A i \in Nat : i < Count(r, c) => i \in Slots
        /\ \A r \in Runs : Count(r, "clauses") >= 1
        /\ 0 \in Slots /\ Slots \subseteq Nat
    BY <1>a, ResultsAreResults, SlotsAssumption DEF TypeOK, StaleInv
  <1>1. ASSUME NEW r \in Runs, Start(r) \/ Query(r) \/ Replaced(r) \/ Extracted(r) \/ Fail(r)
        PROVE  Goal
    <2>1. rows' = rows
      BY <1>1 DEF Start, Query, Replaced, Extracted, Fail
    <2>2. \A q \in Runs : q # r => phase'[q] = phase[q] /\ on'[q] = on[q]
                                   /\ next'[q] = next[q] /\ stale'[q] = stale[q]
      BY <1>1, <1>a DEF Start, Query, Replaced, Extracted, Fail, TypeOK
    <2>3. /\ phase'[r] = "delete" =>
               next'[r] = Count(r, on'[r]) /\ \A i \in stale'[r] : i >= Count(r, on'[r])
          /\ phase'[r] # "waiting"
          /\ phase'[r] \in {"between", "done"} => (on'[r] = "clauses" <=> phase'[r] = "between")
      BY <1>1, <1>a DEF Start, Query, Replaced, Extracted, Fail, TypeOK, Beyond, Active
    <2>4. on'[r] = "clauses" /\ next'[r] > 0 => on[r] = "clauses" /\ next[r] > 0
      BY <1>1, <1>a DEF Start, Query, Replaced, Extracted, Fail, TypeOK
    <2>5. ASSUME NEW q \in Runs
          PROVE  /\ phase'[q] = "delete" =>
                      next'[q] = Count(q, on'[q]) /\ \A i \in stale'[q] : i >= Count(q, on'[q])
                 /\ phase'[q] = "waiting" => on'[q] = "clauses" /\ next'[q] = 0
                 /\ phase'[q] \in {"between", "done"} =>
                      (on'[q] = "clauses" <=> phase'[q] = "between")
                 /\ on'[q] = "clauses" /\ next'[q] > 0 => rows'["clauses"][0] # NoRow
      <3>1. CASE q = r
        BY <2>1, <2>3, <2>4, <3>1 DEF StaleInv
      <3>2. CASE q # r
        BY <2>1, <2>2, <3>2 DEF StaleInv
      <3> QED
        BY <3>1, <3>2
    <2> QED
      BY <2>1, <2>5 DEF StaleInv
  <1>2. ASSUME NEW r \in Runs, Upsert(r) PROVE Goal
    <2>1. /\ rows' = [rows EXCEPT ![on[r]][next[r]] = r]
          /\ next' = [next EXCEPT ![r] = @ + 1]
          /\ phase[r] = "upsert" /\ next[r] < Count(r, on[r])
          /\ UNCHANGED <<phase, on, stale>>
      BY <1>2 DEF Upsert
    <2>2. on[r] \in Containers /\ next[r] \in Nat /\ next[r] \in Slots
      BY <1>a, <1>c, <2>1 DEF TypeOK, StaleInv
    <2>3. /\ rows'[on[r]][next[r]] = r
          /\ \A d \in Containers, j \in Slots :
               d # on[r] \/ j # next[r] => rows'[d][j] = rows[d][j]
      BY <1>a, <2>1, <2>2, OneRow DEF TypeOK, StaleInv
    <2>4. rows["clauses"][0] # NoRow => rows'["clauses"][0] # NoRow
      BY <1>a, <1>c, <2>2, <2>3
    <2>5. on[r] = "clauses" => rows'["clauses"][0] # NoRow
      BY <1>a, <1>c, <2>2, <2>3, <2>4 DEF StaleInv
    <2>6. \A i \in Slots : rows'["clauses"][i] # NoRow => rows'["clauses"][0] # NoRow
      BY <1>a, <2>2, <2>3, <2>4, <2>5 DEF StaleInv
    <2>7. \A q \in Runs : on'[q] = "clauses" /\ next'[q] > 0 => rows'["clauses"][0] # NoRow
      BY <1>a, <2>1, <2>4, <2>5 DEF TypeOK, StaleInv
    <2>8. \A q \in Runs : phase'[q] # "upsert" => next'[q] = next[q]
      BY <1>a, <2>1 DEF TypeOK, StaleInv
    <2>9. \A q \in Runs : phase'[q] = "delete" =>
            next'[q] = Count(q, on'[q]) /\ \A i \in stale'[q] : i >= Count(q, on'[q])
      BY <1>a, <2>1, <2>8 DEF TypeOK, StaleInv
    <2> QED
      BY <1>a, <2>1, <2>6, <2>7, <2>8, <2>9 DEF TypeOK, StaleInv
  <1>3. ASSUME NEW r \in Runs, Delete(r) PROVE Goal
    <2>1. PICK i \in stale[r] :
            /\ rows' = [rows EXCEPT ![on[r]][i] = NoRow]
            /\ stale' = [stale EXCEPT ![r] = @ \ {i}]
      BY <1>3 DEF Delete
    <2>2. phase[r] = "delete" /\ UNCHANGED <<phase, on, next>>
      BY <1>3 DEF Delete
    <2>3. on[r] \in Containers /\ i \in Slots /\ i >= Count(r, on[r])
      BY <1>a, <2>1, <2>2 DEF TypeOK, StaleInv
    <2>4. \A d \in Containers, j \in Slots :
            (d # on[r] \/ j # i => rows'[d][j] = rows[d][j])
            /\ (rows'[d][j] # NoRow => rows[d][j] # NoRow)
      BY <1>a, <2>1, <2>3, OneRow DEF TypeOK, StaleInv
    <2>5. rows'["clauses"][0] = rows["clauses"][0]
      BY <1>a, <1>c, <2>3, <2>4
    <2> QED
      BY <1>a, <2>1, <2>2, <2>4, <2>5 DEF TypeOK, StaleInv
  <1>4. ASSUME WriteCopy PROVE Goal
    <2>1. rows'["clauses"] = rows["clauses"] /\ UNCHANGED runVars
      BY <1>4, <1>a DEF WriteCopy, TypeOK
    <2> QED
      BY <1>a, <2>1 DEF runVars, TypeOK, StaleInv
  <1>5. ASSUME ReadObligation \/ ReadClauses \/ ReadCopy \/ UNCHANGED vars PROVE Goal
    BY <1>5, <1>a, <1>b DEF ReadObligation, ReadClauses, ReadCopy, vars, runVars, TypeOK,
                         StaleInv
  <1> QED
    BY <1>b, <1>1, <1>2, <1>3, <1>4, <1>5 DEF Next

ClausesStay == Stored("clauses") # {} => Stored("clauses")' # {}

\* "There is never a window where a reader sees zero clauses for a contract that
\* has some": through failures, overlapping runs and results that shrink.
THEOREM NeverWithoutClauses == Spec => NeverBare
  <1>1. TypeInv /\ StaleInv /\ StaleInv' => ClausesStay \/ rows'["clauses"][0] = NoRow
    <2> SUFFICES ASSUME TypeInv, rows'["clauses"][0] # NoRow PROVE Stored("clauses")' # {}
      BY DEF ClausesStay
    <2> QED
      BY SlotsAssumption DEF Stored
  <1>2. TypeInv /\ StaleInv /\ [Next]_vars /\ Stored("clauses") # {} => rows'["clauses"][0] # NoRow
    <2> SUFFICES ASSUME TypeInv, StaleInv, [Next]_vars, Stored("clauses") # {}
                 PROVE  rows'["clauses"][0] # NoRow
      OBVIOUS
    <2>a. /\ TypeOK /\ rows["clauses"][0] # NoRow /\ "clauses" \in Containers
          /\ NoRow \notin Runs /\ 0 \in Slots
      <3>1. \E i \in Slots : rows["clauses"][i] # NoRow
        BY DEF Stored
      <3>2. rows["clauses"][0] # NoRow
        BY <3>1 DEF StaleInv
      <3> QED
        BY <3>2, SlotsAssumption DEF TypeInv, Containers, NoRow, Runs
    <2>1. ASSUME NEW r \in Runs, Delete(r) PROVE rows'["clauses"][0] # NoRow
      <3>1. PICK i \in stale[r] : rows' = [rows EXCEPT ![on[r]][i] = NoRow]
        BY <2>1 DEF Delete
      <3>2. on[r] \in Containers /\ i \in Slots /\ i >= Count(r, on[r])
        BY <2>1, <2>a DEF Delete, StaleInv, TypeOK
      <3>3. on[r] = "clauses" => i # 0
        BY <2>a, <3>2, ResultsAreResults DEF TypeOK
      <3> QED
        BY <2>a, <3>1, <3>2, <3>3, OneRow DEF TypeOK
    <2>2. ASSUME NEW r \in Runs, Upsert(r) PROVE rows'["clauses"][0] # NoRow
      BY <2>2, <2>a DEF Upsert, TypeOK
    <2>3. CASE WriteCopy
      BY <2>3, <2>a DEF WriteCopy, TypeOK
    <2> QED
      BY <2>a, <2>1, <2>2, <2>3
         DEF Next, Start, Query, Replaced, Extracted, Fail, ReadObligation, ReadClauses,
             ReadCopy, vars
  <1>3. TypeInv /\ StaleInv /\ StaleInv' /\ [Next]_vars => ClausesStay
    BY <1>1, <1>2 DEF ClausesStay
  <1>4. NeverBare <=> [][ClausesStay]_vars
    BY PTL DEF NeverBare, ClausesStay
  <1> QED
    BY <1>3, <1>4, TypeInvInit, TypeInvNext, OrderInit, OrderNext, StaleInit, StaleNext, PTL
       DEF Spec
-----------------------------------------------------------------------------
(* A run replaces everything *)

Exempt(c, i) == c = "obligations" /\ i \in revived
Exact(r, c) ==
  \A i \in Slots : rows[c][i] = (IF i < Count(r, c) THEN r ELSE NoRow) \/ Exempt(c, i)

\* Inductive: how far the last run has come: the rows it has written are its own, and once
\* it has asked what to delete, any other row is on its list.
ProgressInv(r) ==
  /\ phase[r] \in {"upsert", "delete"} =>
       \A i \in Slots : i < next[r] => rows[on[r]][i] = r \/ Exempt(on[r], i)
  /\ phase[r] = "delete" =>
       \A i \in Slots : i >= Count(r, on[r]) /\ rows[on[r]][i] # NoRow
                          => i \in stale[r] \/ Exempt(on[r], i)
  /\ phase[r] = "between" \/ on[r] = "obligations" => Exact(r, "clauses")
  /\ phase[r] = "done" => Exact(r, "obligations")

ReplaceInv == overlaps = 0 => \A r \in Runs : Last(r) => ProgressInv(r)

LEMMA ReplaceInit == Init => ReplaceInv
  BY DEF Init, ReplaceInv, Last

LEMMA ReplaceNext ==
  TypeInv /\ OrderInv /\ OrderInv' /\ StaleInv /\ ReplaceInv /\ [Next]_vars => ReplaceInv'
  <1> SUFFICES ASSUME TypeInv, OrderInv, OrderInv', StaleInv, ReplaceInv, [Next]_vars,
                      overlaps' = 0, NEW r \in Runs, Last(r)'
               PROVE  ProgressInv(r)'
    BY DEF ReplaceInv
  <1> DEFINE Spared(c, i) == c = "obligations" /\ i \in revived'
             ExactNow(c) == \A i \in Slots :
               rows'[c][i] = (IF i < Count(r, c) THEN r ELSE NoRow) \/ Spared(c, i)
             Goal ==
               /\ phase'[r] \in {"upsert", "delete"} =>
                    \A i \in Slots : i < next'[r] => rows'[on'[r]][i] = r \/ Spared(on'[r], i)
               /\ phase'[r] = "delete" =>
                    \A i \in Slots : i >= Count(r, on'[r]) /\ rows'[on'[r]][i] # NoRow
                                       => i \in stale'[r] \/ Spared(on'[r], i)
               /\ phase'[r] = "between" \/ on'[r] = "obligations" => ExactNow("clauses")
               /\ phase'[r] = "done" => ExactNow("obligations")
  <1> SUFFICES Goal
    <2>1. result' = result
      BY DEF Next, Start, Upsert, Query, Delete, Replaced, Extracted, Fail, ReadObligation,
             ReadClauses, ReadCopy, WriteCopy, vars
    <2> QED
      BY <2>1 DEF ProgressInv, Exact, Exempt, Count
  <1>a. /\ TypeOK /\ overlaps \in Nat /\ "waiting" \notin Active
        /\ "clauses" \in Containers /\ "obligations" \in Containers
        /\ NoRow \notin Runs
    BY BoundsAssumption DEF TypeInv, TypeOK, Active, Containers, NoRow, Runs
  <1>b. Slots \subseteq Nat /\ \A c \in Containers : Count(r, c) \in Nat
    BY <1>a, SlotsAssumption, ResultsAreResults DEF TypeOK
  \* Whoever is under way is the last that started, which is r.
  <1>c. ASSUME NEW q \in Runs, phase[q] \in Active, overlaps = 0,
               \A p \in Runs : phase'[p] = "waiting" <=> phase[p] = "waiting"
        PROVE  q = r /\ ProgressInv(r)
    <2>1. Last(q) /\ Last(r)
      BY <1>c DEF OrderInv, Running, Last
    <2> QED
      BY <1>c, <2>1, LastIsOne DEF ReplaceInv
  <1>1. ASSUME NEW q \in Runs, Start(q) PROVE Goal
    <2>1. /\ phase' = [phase EXCEPT ![q] = "upsert"] /\ phase[q] = "waiting"
          /\ UNCHANGED <<on, next>>
      BY <1>1 DEF Start
    <2>2. q = r
      <3>1. q \in Running'
        BY <1>a, <2>1 DEF Running, Active, TypeOK
      <3>2. Last(q)'
        BY <3>1 DEF OrderInv
      <3> QED
        BY <3>2 DEF Last, Runs
    <2>3. phase'[r] = "upsert" /\ on'[r] = "clauses" /\ next'[r] = 0
      BY <1>a, <2>1, <2>2 DEF StaleInv, TypeOK
    <2> QED
      BY <1>b, <2>3
  <1>2. ASSUME NEW q \in Runs, Upsert(q) PROVE Goal
    <2>1. /\ phase[q] = "upsert" /\ next[q] < Count(q, on[q])
          /\ rows' = [rows EXCEPT ![on[q]][next[q]] = q]
          /\ next' = [next EXCEPT ![q] = @ + 1]
          /\ revived' = IF on[q] = "obligations" THEN revived \ {next[q]} ELSE revived
          /\ UNCHANGED <<phase, on, stale, overlaps>>
      BY <1>2 DEF Upsert, Settled, faults
    <2>2. q = r /\ ProgressInv(r)
      BY <1>c, <2>1 DEF Active
    <2>3. on[r] \in Containers /\ next[r] \in Nat /\ next[r] \in Slots
      BY <1>a, <2>1, <2>2, ResultsAreResults DEF TypeOK
    <2>4. /\ rows'[on[r]][next[r]] = r
          /\ \A d \in Containers, j \in Slots :
               d # on[r] \/ j # next[r] => rows'[d][j] = rows[d][j]
      BY <1>a, <2>1, <2>2, <2>3, OneRow DEF TypeOK
    <2>5. \A i \in Slots : i < next'[r] => rows'[on'[r]][i] = r \/ Spared(on'[r], i)
      <3> SUFFICES ASSUME NEW i \in Slots, i < next'[r]
                   PROVE  rows'[on'[r]][i] = r \/ Spared(on'[r], i)
        OBVIOUS
      <3>1. next'[r] = next[r] + 1 /\ on' = on /\ i \in Nat
        BY <1>a, <1>b, <2>1, <2>2 DEF TypeOK
      <3>2. CASE i = next[r]
        BY <2>4, <3>1, <3>2
      <3>3. CASE i # next[r]
        <4>1. i < next[r]
          BY <2>3, <3>1, <3>3
        <4>2. rows[on[r]][i] = r \/ Exempt(on[r], i)
          BY <2>1, <2>2, <4>1 DEF ProgressInv
        <4> QED
          BY <2>1, <2>2, <2>3, <2>4, <3>1, <3>3, <4>2 DEF Exempt
      <3> QED
        BY <3>2, <3>3
    <2>6. on[r] = "obligations" => ExactNow("clauses")
      BY <1>a, <2>2, <2>3, <2>4 DEF ProgressInv, Exact, Exempt
    <2> QED
      BY <2>1, <2>2, <2>5, <2>6
  <1>3. ASSUME NEW q \in Runs, Query(q) PROVE Goal
    <2>1. /\ phase[q] = "upsert" /\ phase' = [phase EXCEPT ![q] = "delete"]
          /\ stale' = [stale EXCEPT ![q] = Beyond(q)]
          /\ UNCHANGED <<rows, on, next, revived, overlaps>>
      BY <1>3 DEF Query, faults
    <2>2. q = r /\ ProgressInv(r)
      BY <1>a, <1>c, <2>1 DEF Active, TypeOK
    <2>3. stale'[r] = {i \in Slots : rows[on[r]][i] # NoRow /\ i >= Count(r, on[r])}
      BY <1>a, <2>1, <2>2 DEF TypeOK, Beyond, Stored
    <2> QED
      BY <1>a, <2>1, <2>2, <2>3 DEF ProgressInv, Exact, Exempt, TypeOK
  <1>4. ASSUME NEW q \in Runs, Delete(q) PROVE Goal
    <2>1. PICK i \in stale[q] :
            /\ rows' = [rows EXCEPT ![on[q]][i] = NoRow]
            /\ stale' = [stale EXCEPT ![q] = @ \ {i}]
            /\ revived' = IF on[q] = "obligations" THEN revived \ {i} ELSE revived
      BY <1>4 DEF Delete, Settled
    <2>2. phase[q] = "delete" /\ UNCHANGED <<phase, on, next, overlaps>>
      BY <1>4 DEF Delete, faults
    <2>3. q = r /\ ProgressInv(r)
      BY <1>c, <2>2 DEF Active
    <2>4. /\ on[r] \in Containers /\ i \in Slots /\ i >= Count(r, on[r])
          /\ next[r] = Count(r, on[r])
      BY <1>a, <2>1, <2>2, <2>3 DEF TypeOK, StaleInv
    <2>5. /\ rows'[on[r]][i] = NoRow
          /\ \A d \in Containers, j \in Slots :
               d # on[r] \/ j # i => rows'[d][j] = rows[d][j]
      BY <1>a, <2>1, <2>3, <2>4, OneRow DEF TypeOK
    <2>6. \A j \in Slots : j < next[r] => rows'[on[r]][j] = r \/ Spared(on[r], j)
      BY <1>b, <2>1, <2>2, <2>3, <2>4, <2>5 DEF ProgressInv, Exempt
    <2>7. \A j \in Slots : j >= Count(r, on[r]) /\ rows'[on[r]][j] # NoRow
                             => j \in stale'[r] \/ Spared(on[r], j)
      BY <1>a, <2>1, <2>2, <2>3, <2>4, <2>5 DEF ProgressInv, Exempt, TypeOK
    <2>8. on[r] = "obligations" => ExactNow("clauses")
      BY <1>a, <2>3, <2>4, <2>5 DEF ProgressInv, Exact, Exempt
    <2> QED
      BY <2>2, <2>3, <2>6, <2>7, <2>8
  <1>5. ASSUME NEW q \in Runs, Replaced(q) PROVE Goal
    <2>1. /\ phase[q] = "delete" /\ stale[q] = {}
          /\ phase' = [phase EXCEPT ![q] = IF on[q] = "clauses" THEN "between" ELSE "done"]
          /\ UNCHANGED <<rows, on, next, stale, revived, overlaps>>
      BY <1>5 DEF Replaced, faults
    <2>2. q = r /\ ProgressInv(r)
      BY <1>a, <1>c, <2>1 DEF Active, TypeOK
    <2>3. next[r] = Count(r, on[r]) /\ on[r] \in Containers
      BY <1>a, <2>1, <2>2 DEF StaleInv, TypeOK
    <2>4. ExactNow(on[r])
      BY <1>b, <2>1, <2>2, <2>3 DEF ProgressInv, Exempt
    <2>5. on[r] = "obligations" => ExactNow("clauses")
      BY <2>1, <2>2 DEF ProgressInv, Exact, Exempt
    <2>6. on[r] = "clauses" \/ on[r] = "obligations"
      BY <2>3 DEF Containers
    <2>7. phase'[r] = IF on[r] = "clauses" THEN "between" ELSE "done"
      BY <1>a, <2>1, <2>2 DEF TypeOK
    <2> QED
      BY <2>1, <2>4, <2>5, <2>6, <2>7
  <1>6. ASSUME NEW q \in Runs, Extracted(q) PROVE Goal
    <2>1. /\ phase[q] = "between" /\ phase' = [phase EXCEPT ![q] = "upsert"]
          /\ on' = [on EXCEPT ![q] = "obligations"] /\ next' = [next EXCEPT ![q] = 0]
          /\ UNCHANGED <<rows, revived, overlaps>>
      BY <1>6 DEF Extracted, faults
    <2>2. q = r /\ ProgressInv(r)
      BY <1>a, <1>c, <2>1 DEF Active, TypeOK
    <2>3. ExactNow("clauses")
      BY <2>1, <2>2 DEF ProgressInv, Exact, Exempt
    <2> QED
      BY <1>a, <1>b, <2>1, <2>2, <2>3 DEF TypeOK
  <1>7. ASSUME NEW q \in Runs, Fail(q) PROVE Goal
    <2>1. /\ phase[q] \in Active /\ phase' = [phase EXCEPT ![q] = "failed"]
          /\ UNCHANGED <<rows, on, revived, overlaps>>
      BY <1>7 DEF Fail
    <2>2. q = r /\ ProgressInv(r)
      BY <1>a, <1>c, <2>1 DEF TypeOK
    <2> QED
      BY <1>a, <2>1, <2>2 DEF ProgressInv, Exact, Exempt, TypeOK
  \* The steps of readers and copies.
  <1>d. UNCHANGED <<phase, overlaps>> => ProgressInv(r)
    BY DEF ReplaceInv, Last
  <1>8. CASE UNCHANGED <<rows, runVars, revived, overlaps>>
    BY <1>8, <1>d DEF runVars, ProgressInv, Exact, Exempt
  <1>9. ASSUME WriteCopy PROVE Goal
    <2>1. /\ rows' = [rows EXCEPT !["obligations"][copy.index] = copy.run]
          /\ revived' = IF rows["obligations"][copy.index] = copy.run THEN revived
                        ELSE revived \cup {copy.index}
          /\ copy.index \in Slots /\ copy.run \in Runs
          /\ UNCHANGED <<runVars, overlaps>>
      BY <1>9, <1>a DEF WriteCopy, faults, TypeOK
    <2>2. /\ rows'["obligations"][copy.index] = copy.run
          /\ \A d \in Containers, j \in Slots :
               d # "obligations" \/ j # copy.index => rows'[d][j] = rows[d][j]
      BY <1>a, <2>1, OneRow DEF TypeOK
    <2>3. \A d \in Containers, j \in Slots :
            /\ rows'[d][j] = rows[d][j] \/ Spared(d, j)
            /\ Exempt(d, j) => Spared(d, j)
      BY <2>1, <2>2 DEF Exempt
    <2>4. ProgressInv(r) /\ on[r] \in Containers
      BY <1>a, <1>d, <2>1 DEF runVars, TypeOK
    <2> QED
      BY <1>a, <2>1, <2>3, <2>4 DEF runVars, ProgressInv, Exact
  <1> QED
    BY <1>1, <1>2, <1>3, <1>4, <1>5, <1>6, <1>7, <1>8, <1>9
       DEF Next, ReadObligation, ReadClauses, ReadCopy, vars, faults

\* A run that is done has made both containers what its results are.
LEMMA ReplacedIsExact ==
  TypeInv /\ StaleInv /\ ReplaceInv => RerunReplacesEverything
  <1> SUFFICES ASSUME TypeInv, StaleInv, ReplaceInv, overlaps = 0, NEW r \in Runs, LastRun(r),
                      phase[r] = "done"
               PROVE  HoldsExactly(r)
    BY DEF RerunReplacesEverything
  <1>1. ProgressInv(r)
    BY DEF ReplaceInv, LastRun, Last
  <1>2. on[r] = "obligations"
    BY DEF StaleInv, TypeInv, TypeOK, Containers
  <1> QED
    BY <1>1, <1>2 DEF ProgressInv, Exact, Exempt, HoldsExactly, Containers

\* "Replace wholesale": when the last run has ended well, and runs did not
\* overlap, both containers hold its results and nothing else, whatever earlier
\* runs left half done, except for obligations somebody wrote back from a copy.
THEOREM RerunReplaces == Spec => []RerunReplacesEverything
  BY ReplacedIsExact, TypeInvInit, TypeInvNext, OrderInit, OrderNext, StaleInit, StaleNext,
     ReplaceInit, ReplaceNext, PTL DEF Spec
-----------------------------------------------------------------------------
(* A citation that does not resolve has a cause *)

\* Inductive: the reader's citation is the one its obligation's run found.
SeenInv ==
  reader = "read" =>
    /\ seen.run \in Runs /\ seen.index < Count(seen.run, "obligations")
    /\ seen.cites = Citation(seen.run, seen.index)
    /\ phase[seen.run] # "waiting"

LEMMA SeenInit == Init => SeenInv
  BY DEF Init, SeenInv

LEMMA SeenNext == TypeInv /\ OrderInv /\ SeenInv /\ [Next]_vars => SeenInv'
  <1> SUFFICES ASSUME TypeInv, OrderInv, SeenInv, [Next]_vars PROVE SeenInv'
    OBVIOUS
  <1> SUFFICES ASSUME reader' = "read"
               PROVE  /\ seen'.run \in Runs
                      /\ seen'.index < Count(seen'.run, "obligations")
                      /\ seen'.cites = Citation(seen'.run, seen'.index)
                      /\ phase'[seen'.run] # "waiting"
    <2>1. result' = result
      BY DEF Next, Start, Upsert, Query, Delete, Replaced, Extracted, Fail, ReadObligation,
             ReadClauses, ReadCopy, WriteCopy, vars
    <2> QED
      BY <2>1 DEF SeenInv, Count, Citation
  <1>a. TypeOK /\ Genuine /\ "obligations" \in Containers
    BY DEF TypeInv, Containers
  <1>1. CASE ReadObligation
    <2>1. PICK i \in Stored("obligations") :
            seen' = [index |-> i, run |-> rows["obligations"][i],
                     cites |-> Citation(rows["obligations"][i], i)]
      BY <1>1 DEF ReadObligation
    <2>2. i \in Slots /\ rows["obligations"][i] # NoRow
      BY DEF Stored
    <2>3. /\ rows["obligations"][i] \in Runs /\ phase[rows["obligations"][i]] # "waiting"
          /\ i < Count(rows["obligations"][i], "obligations")
      BY <1>a, <2>2 DEF TypeOK, Genuine, OrderInv
    <2> QED
      BY <1>1, <2>1, <2>3 DEF ReadObligation, runVars
  <1>2. CASE UNCHANGED readVars /\ \A r \in Runs : phase[r] # "waiting" => phase'[r] # "waiting"
    BY <1>2 DEF readVars, SeenInv
  <1>3. CASE ReadClauses
    BY <1>3 DEF ReadClauses
  <1>4. ASSUME NEW r \in Runs, Start(r) \/ Query(r) \/ Replaced(r) \/ Extracted(r) \/ Fail(r)
        PROVE  UNCHANGED readVars /\ \A q \in Runs : phase[q] # "waiting" => phase'[q] # "waiting"
    BY <1>4, <1>a DEF Start, Query, Replaced, Extracted, Fail, TypeOK
  <1>5. CASE (\E r \in Runs : Upsert(r) \/ Delete(r)) \/ ReadCopy \/ WriteCopy \/ UNCHANGED vars
    BY <1>2, <1>5 DEF Upsert, Delete, ReadCopy, WriteCopy, vars, runVars
  <1> QED
    BY <1>1, <1>2, <1>3, <1>4, <1>5 DEF Next

\* Once a run has started, one of them is the last that did.
LEMMA SomeRunIsLast ==
  ASSUME NEW q \in Runs, phase[q] # "waiting"
  PROVE  \E r \in Runs : Last(r)
  <1> DEFINE S == {n \in Nat : \E r \in Runs : phase[r] # "waiting" /\ n = MaxRuns - r}
  <1>1. MaxRuns - q \in S
    BY BoundsAssumption DEF Runs
  <1>2. PICK m \in S : \A n \in S : m <= n
    BY <1>1, LeastElement
  <1>3. PICK r \in Runs : phase[r] # "waiting" /\ m = MaxRuns - r
    OBVIOUS
  <1>4. ASSUME NEW p \in Runs, p > r, phase[p] # "waiting" PROVE FALSE
    <2>1. MaxRuns - p \in S
      BY <1>4, BoundsAssumption DEF Runs
    <2> QED
      BY <1>2, <1>3, <1>4, <2>1, BoundsAssumption DEF Runs
  <1> QED
    BY <1>3, <1>4 DEF Last

Caused ==
  \/ Running # {} \/ overlaps > 0
  \/ \E r \in Runs : LastRun(r) /\ phase[r] = "failed"
  \/ seen.index \in revived \/ rows["obligations"][seen.index] # seen.run

\* Without any of the causes, the citation resolves: the obligation is the last
\* run's, and so are the clauses.
LEMMA UncausedResolves ==
  ASSUME TypeInv, StaleInv, ReplaceInv, SeenInv, reader = "read", ~Caused
  PROVE  seen.cites \in Stored("clauses")
  <1>1. /\ seen.run \in Runs /\ seen.index < Count(seen.run, "obligations")
        /\ seen.cites = Citation(seen.run, seen.index)
        /\ phase[seen.run] # "waiting"
    BY DEF SeenInv
  <1>2. PICK r \in Runs : Last(r)
    BY <1>1, SomeRunIsLast
  <1>3. LastRun(r) /\ overlaps = 0
    BY <1>2, BoundsAssumption DEF Caused, LastRun, Last, TypeInv, TypeOK
  <1>4. phase[r] = "done"
    BY <1>3 DEF Caused, LastRun, Running, TypeInv, TypeOK
  <1>5. HoldsExactly(r)
    BY <1>3, <1>4, ReplacedIsExact DEF RerunReplacesEverything
  <1>6. /\ seen.index \in Slots /\ "obligations" \in Containers /\ "clauses" \in Containers
        /\ NoRow \notin Runs /\ result \in [Runs -> Results] /\ Slots \subseteq Nat
    BY SlotsAssumption DEF TypeInv, TypeOK, Containers, NoRow, Runs
  <1>7. seen.run = r
    <2>1. rows["obligations"][seen.index] = seen.run /\ seen.index \notin revived
      BY DEF Caused
    <2> QED
      BY <1>1, <1>5, <1>6, <2>1 DEF HoldsExactly
  <1>8. /\ seen.cites \in Nat /\ seen.cites < Count(r, "clauses") /\ seen.cites \in Slots
    BY <1>1, <1>6, <1>7, ResultsAreResults
  <1>9. rows["clauses"][seen.cites] = r
    BY <1>5, <1>6, <1>8 DEF HoldsExactly
  <1> QED
    BY <1>6, <1>8, <1>9 DEF Stored

\* A citation a reader cannot resolve has a cause it can be told: a run under way,
\* a run that ended in the middle, overlapping runs, an obligation written back
\* from a copy, or one replaced since it was read.
THEOREM DanglingIsCaused == Spec => DanglingHasACause
  <1>1. TypeInv /\ StaleInv /\ ReplaceInv /\ SeenInv /\ [Next]_vars
          => (reader = "read" /\ reader' = "dangling" => Caused)
    <2> SUFFICES ASSUME TypeInv, StaleInv, ReplaceInv, SeenInv, [Next]_vars,
                        reader = "read", reader' = "dangling"
                 PROVE  Caused
      OBVIOUS
    <2>1. ReadClauses
      BY DEF Next, Start, Upsert, Query, Delete, Replaced, Extracted, Fail, ReadObligation,
             ReadCopy, WriteCopy, vars, readVars
    <2> QED
      BY <2>1, UncausedResolves DEF ReadClauses
  <1>2. DanglingHasACause <=> [][reader = "read" /\ reader' = "dangling" => Caused]_vars
    BY PTL DEF DanglingHasACause, Caused
  <1> QED
    BY <1>1, <1>2, TypeInvInit, TypeInvNext, OrderInit, OrderNext, StaleInit, StaleNext,
       ReplaceInit, ReplaceNext, SeenInit, SeenNext, PTL DEF Spec
=============================================================================
