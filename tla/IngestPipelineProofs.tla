------------------------ MODULE IngestPipelineProofs ------------------------
(***************************************************************************)
(* Theorems about IngestPipeline, for any uploads, any contents, any       *)
(* number of workers and deliveries, and any number of faults.             *)
(***************************************************************************)
EXTENDS IngestPipeline, TLAPS

-----------------------------------------------------------------------------
(* Types *)

\* What the bounds rest on: a message is put in the queue once, is ready only
\* while deliveries are left, and an execution at work has messages to go.
Counts ==
  /\ \A u \in Uploads : upload[u] # "accepted" => message[u] = "none"
  /\ \A u \in Uploads : message[u] = "none" => deliveries[u] = 0
  /\ \A u \in Uploads : message[u] = "ready" => deliveries[u] < MaxDeliveries
  /\ \A w \in Workers : at[w] # "off" => processed[w] < MaxMessages
  /\ \A w \in Workers :
       job[w] # Nobody => run[w] # 0 /\ message[job[w]] # "none"

TypeInv == TypeOK /\ Counts

LEMMA TypeInvInit == Init => TypeInv
  BY NobodyAssumption, LimitsAssumption
     DEF Init, TypeInv, TypeOK, Counts, Runs, UploadSteps, Busy, BeforeTry, InTry, InHandler

\* The stages an await leads to are stages.
LEMMA AfterIsBusy ==
  \A stage \in BeforeTry \cup InTry \cup InHandler : After[stage] \in Busy
  BY DEF After, BeforeTry, InTry, InHandler, Busy

LEMMA UploadsKeepTypes ==
  ASSUME TypeInv, NEW u \in Uploads, UploadStep(u) \/ UploadFails(u)
  PROVE  TypeInv'
  <1> USE DEF TypeInv, TypeOK, Counts, UploadGoes, UploadSteps
  <1>1. CASE Find(u)
    BY <1>1 DEF Find, SameBytes, store, queue, workers, faults
  <1>2. CASE PutBlob(u) \/ AuditUpload(u) \/ UploadFails(u)
    BY <1>2 DEF PutBlob, AuditUpload, UploadFails, store, queue, workers, faults
  <1>3. CASE PutRow(u)
    BY <1>3 DEF PutRow, queue, workers, faults
  <1>4. CASE Enqueue(u)
    BY <1>4, LimitsAssumption DEF Enqueue, store, workers, faults
  <1> QED
    BY <1>1, <1>2, <1>3, <1>4 DEF UploadStep

LEMMA ExpiryKeepsTypes ==
  ASSUME TypeInv, NEW c \in Uploads, OrphanLockExpires(c) \/ LockExpiresUnderRun(c)
  PROVE  TypeInv'
  <1> USE DEF TypeInv, TypeOK, Counts, Release, Runs
  <1>1. CASE OrphanLockExpires(c)
    BY <1>1, NobodyAssumption, LimitsAssumption
       DEF OrphanLockExpires, store, requests, workers, faults
  <1>2. CASE LockExpiresUnderRun(c)
    BY <1>2, NobodyAssumption, LimitsAssumption
       DEF LockExpiresUnderRun, store, requests, workers
  <1> QED
    BY <1>1, <1>2

LEMMA WorkersKeepTypes ==
  ASSUME TypeInv, NEW w \in Workers, WorkerStep(w) \/ Raise(w) \/ Kill(w)
  PROVE  TypeInv'
  <1> USE LimitsAssumption, NobodyAssumption
      DEF TypeInv, TypeOK, Counts, Goes, JobDropped, Runs
  <1>a. /\ "off" \notin Busy /\ "poll" \notin Busy
        /\ {"get", "fail", "abandon", "complete"} \subseteq Busy
        /\ BeforeTry \cup InTry \cup InHandler \subseteq Busy
    BY DEF Busy, BeforeTry, InTry, InHandler
  <1>1. CASE Launch(w)
    BY <1>1, <1>a DEF Launch, store, queue, requests, faults
  <1>2. ASSUME NEW c \in Uploads, Receive(w, c) PROVE TypeInv'
    <2>1. deliveries[c] + 1 \in 1..MaxDeliveries
      BY <1>2 DEF Receive
    <2> QED
      BY <1>2, <1>a, <2>1 DEF Receive, Leased, store, requests, faults
  <1>3. CASE ReceiveNothing(w)
    BY <1>3, <1>a DEF ReceiveNothing, store, queue, requests, faults
  <1>4. CASE Await(w)
    <2>1. at[w] \in BeforeTry \cup InTry \cup InHandler
      BY <1>4 DEF Await, BeforeTry, InTry, InHandler
    <2>2. After[at[w]] \in Busy /\ at[w] \in Busy
      BY <1>a, <2>1, AfterIsBusy
    <2> QED
      BY <1>4, <1>a, <2>2 DEF Await, store, queue, requests, faults
  <1>5. CASE MarkExtracting(w) \/ MarkReady(w) \/ MarkFailed(w)
    <2>1. PICK stage \in {"mark", "ready", "fail"}, new \in {"EXTRACTING", "READY", "FAILED"} :
            StatusUpsert(w, stage, new)
      BY <1>5 DEF MarkExtracting, MarkReady, MarkFailed
    <2>2. stage \in BeforeTry \cup InTry \cup InHandler
      BY <2>1 DEF BeforeTry, InTry, InHandler
    <2>3. After[stage] \in Busy /\ stage \in Busy
      BY <1>a, <2>2, AfterIsBusy
    <2> QED
      BY <1>a, <2>1, <2>3 DEF StatusUpsert, queue, requests, faults
  <1>6. CASE StoreClauses(w) \/ StoreObligations(w)
    <2>1. /\ After["storeClauses"] \in Busy /\ After["storeObligations"] \in Busy
          /\ "storeClauses" \in Busy /\ "storeObligations" \in Busy
      BY DEF After, Busy, BeforeTry, InTry, InHandler
    <2> QED
      BY <1>6, <1>a, <2>1 DEF StoreClauses, StoreObligations, queue, requests, faults
  <1>7. CASE Complete(w)
    BY <1>7, <1>a DEF Complete, HoldsLock, store, requests, faults
  <1>8. CASE Abandon(w)
    BY <1>8, <1>a DEF Abandon, HoldsLock, Release, store, requests, faults
  <1>9. CASE SettleFails(w)
    BY <1>9, <1>a DEF SettleFails, store, queue, requests, faults
  <1>10. CASE Raise(w)
    BY <1>10, <1>a DEF Raise, Handler, store, queue, requests, faults
  <1>11. CASE Kill(w)
    BY <1>11, <1>a DEF Kill, store, queue, requests
  <1> QED
    BY <1>1, <1>2, <1>3, <1>4, <1>5, <1>6, <1>7, <1>8, <1>9, <1>10, <1>11
       DEF WorkerStep

LEMMA TypeInvNext == TypeInv /\ [Next]_vars => TypeInv'
  <1> SUFFICES ASSUME TypeInv, [Next]_vars PROVE TypeInv'
    OBVIOUS
  <1>1. CASE UNCHANGED vars
    BY <1>1 DEF vars, store, queue, requests, workers, faults, TypeInv, TypeOK, Counts
  <1> QED
    BY <1>1, UploadsKeepTypes, ExpiryKeepsTypes, WorkersKeepTypes DEF Next

\* Every variable keeps its type: no message is delivered more often than the
\* queue allows, and an execution completes no more messages than its cap.
THEOREM IngestTypeCorrect == Spec => []TypeOK
  <1>1. TypeInv => TypeOK
    BY DEF TypeInv
  <1> QED
    BY <1>1, TypeInvInit, TypeInvNext, PTL DEF Spec

-----------------------------------------------------------------------------
(* READY is complete *)

\* Inductive: what a run has passed, the containers have.
StoredInv ==
  /\ ReadyIsComplete
  /\ \A w \in Workers :
       /\ at[w] \in {"extract", "storeObligations", "ready"} => clauses[job[w]] # 0
       /\ at[w] = "ready" => obligations[job[w]] # 0

LEMMA StoredInit == Init => StoredInv
  BY DEF Init, StoredInv, ReadyIsComplete

LEMMA StoredNext == TypeInv /\ StoredInv /\ [Next]_vars => StoredInv'
  <1> SUFFICES ASSUME TypeInv, StoredInv, [Next]_vars PROVE StoredInv'
    OBVIOUS
  <1> USE DEF StoredInv, ReadyIsComplete, Goes, JobDropped, UploadGoes
  <1>a. TypeOK /\ Counts
    BY DEF TypeInv
  <1>b. \A w \in Workers : at[w] \in Busy => job[w] \in Uploads /\ run[w] # 0
    BY <1>a, NobodyAssumption DEF TypeOK, Counts
  <1>c. \A stage \in {"mark", "auditMark", "analyze", "extract", "storeObligations", "ready"} :
          stage \in Busy
    BY DEF Busy, BeforeTry, InTry
  <1>1. ASSUME NEW u \in Uploads, UploadStep(u) \/ UploadFails(u) PROVE StoredInv'
    <2>1. /\ UNCHANGED <<clauses, obligations, workers>>
          /\ \A c \in Uploads : status'[c] = "READY" => status[c] = "READY"
      BY <1>1, <1>a DEF UploadStep, UploadFails, Find, PutBlob, PutRow, AuditUpload, Enqueue,
                        store, TypeOK
    <2> QED
      BY <2>1 DEF workers
  <1>2. ASSUME NEW c \in Uploads, OrphanLockExpires(c) \/ LockExpiresUnderRun(c)
        PROVE  StoredInv'
    BY <1>2 DEF OrphanLockExpires, LockExpiresUnderRun, store, workers
  <1>3. ASSUME NEW w \in Workers, WorkerStep(w) \/ Raise(w) \/ Kill(w)
        PROVE  StoredInv'
    <2>1. CASE UNCHANGED store /\ (\A v \in Workers : v # w => at'[v] = at[v] /\ job'[v] = job[v])
               /\ at'[w] \notin {"extract", "storeObligations", "ready"}
      BY <2>1 DEF store
    <2>2. CASE Launch(w) \/ ReceiveNothing(w) \/ Complete(w) \/ Abandon(w)
               \/ SettleFails(w) \/ Raise(w) \/ Kill(w)
      <3>1. at'[w] \in {"off", "poll", "fail", "abandon"}
        BY <2>2, <1>a DEF Launch, ReceiveNothing, Complete, Abandon, SettleFails, Raise, Kill,
                          Handler, TypeOK
      <3>2. UNCHANGED store /\ \A v \in Workers : v # w => at'[v] = at[v] /\ job'[v] = job[v]
        BY <2>2, <1>a DEF Launch, ReceiveNothing, Complete, Abandon, SettleFails, Raise, Kill,
                          TypeOK
      <3> QED
        BY <2>1, <3>1, <3>2
    <2>3. ASSUME NEW c \in Uploads, Receive(w, c) PROVE StoredInv'
      <3>1. at'[w] = "get" /\ \A v \in Workers : v # w => at'[v] = at[v] /\ job'[v] = job[v]
        BY <2>3, <1>a DEF Receive, TypeOK
      <3> QED
        BY <2>1, <2>3, <3>1 DEF Receive
    <2>4. CASE Await(w)
      BY <2>4, <1>a DEF Await, After, store, TypeOK
    <2>5. CASE MarkExtracting(w) \/ MarkFailed(w)
      BY <2>5, <1>a DEF MarkExtracting, MarkFailed, StatusUpsert, After, TypeOK
    <2>6. CASE MarkReady(w)
      <3>1. clauses[job[w]] # 0 /\ obligations[job[w]] # 0
        BY <2>6 DEF MarkReady, StatusUpsert
      <3> QED
        BY <2>6, <3>1, <1>a DEF MarkReady, StatusUpsert, After, TypeOK
    <2>7. CASE StoreClauses(w)
      <3>1. job[w] \in Uploads /\ run[w] # 0
        BY <2>7, <1>b DEF StoreClauses, Busy, InTry
      <3>2. clauses'[job[w]] # 0 /\ \A c \in Uploads : clauses[c] # 0 => clauses'[c] # 0
        BY <2>7, <3>1, <1>a DEF StoreClauses, TypeOK
      <3>3. /\ at' = [at EXCEPT ![w] = "extract"]
            /\ UNCHANGED <<status, obligations, job>>
        BY <2>7 DEF StoreClauses, After
      <3>4. \A v \in Workers : at[v] \in {"extract", "storeObligations", "ready"} => job[v] \in Uploads
        BY <1>b, <1>c
      <3> QED
        BY <3>2, <3>3, <3>4, <1>a DEF TypeOK
    <2>8. CASE StoreObligations(w)
      <3>1. job[w] \in Uploads /\ run[w] # 0
        BY <2>8, <1>b DEF StoreObligations, Busy, InTry
      <3>2. obligations'[job[w]] # 0 /\ \A c \in Uploads : obligations[c] # 0 => obligations'[c] # 0
        BY <2>8, <3>1, <1>a DEF StoreObligations, TypeOK
      <3>3. /\ at[w] = "storeObligations" /\ at' = [at EXCEPT ![w] = "ready"]
            /\ UNCHANGED <<status, clauses, job>>
        BY <2>8 DEF StoreObligations, After
      <3>4. \A v \in Workers : at[v] = "ready" => job[v] \in Uploads
        BY <1>b, <1>c
      <3> QED
        BY <3>2, <3>3, <3>4, <1>a DEF TypeOK
    <2> QED
      BY <1>3, <2>2, <2>3, <2>4, <2>5, <2>6, <2>7, <2>8 DEF WorkerStep
  <1>4. CASE UNCHANGED vars
    BY <1>4 DEF vars, store, workers
  <1> QED
    BY <1>1, <1>2, <1>3, <1>4 DEF Next

\* A contract shown READY has clauses and obligations, through any number of
\* kills, retries and overlapping runs.
THEOREM ReadyContractsAreComplete == Spec => []ReadyIsComplete
  <1>1. StoredInv => ReadyIsComplete
    BY DEF StoredInv
  <1> QED
    BY <1>1, TypeInvInit, TypeInvNext, StoredInit, StoredNext, PTL DEF Spec

-----------------------------------------------------------------------------
(* One lock, one run *)

\* Inductive: until a lock expires under a run, whoever works holds the lock.
LockInv ==
  overlaps = 0 => \A w \in Workers : job[w] # Nobody => holder[job[w]] = w

LEMMA LockInit == Init => LockInv
  BY DEF Init, LockInv

LEMMA LockNext == TypeInv /\ LockInv /\ [Next]_vars => LockInv'
  <1> SUFFICES ASSUME TypeInv, LockInv, [Next]_vars, overlaps' = 0
               PROVE  \A v \in Workers : job'[v] # Nobody => holder'[job'[v]] = v
    BY DEF LockInv
  <1>a. TypeOK
    BY DEF TypeInv
  <1> USE DEF Goes, JobDropped
  <1>b. overlaps = 0 => \A v \in Workers : job[v] # Nobody => job[v] \in Uploads /\ holder[job[v]] = v
    BY <1>a DEF LockInv, TypeOK
  <1>1. CASE UNCHANGED <<job, holder, overlaps>>
    BY <1>1, <1>b
  <1>2. ASSUME NEW u \in Uploads, UploadStep(u) \/ UploadFails(u)
        PROVE  UNCHANGED <<job, holder, overlaps>>
    BY <1>2 DEF UploadStep, UploadFails, Find, PutBlob, PutRow, AuditUpload, Enqueue,
                queue, workers, faults
  <1>3. ASSUME NEW c \in Uploads, OrphanLockExpires(c)
        PROVE  \A v \in Workers : job'[v] # Nobody => holder'[job'[v]] = v
    <2>1. UNCHANGED <<job, overlaps>> /\ holder' = [holder EXCEPT ![c] = Nobody]
      BY <1>3 DEF OrphanLockExpires, Release, workers, faults
    <2>2. \A v \in Workers : job[v] # Nobody => job[v] # c
      BY <1>3, <1>b, <2>1 DEF OrphanLockExpires, Attended
    <2> QED
      BY <1>a, <1>b, <2>1, <2>2 DEF TypeOK
  <1>4. ASSUME NEW c \in Uploads, LockExpiresUnderRun(c) PROVE FALSE
    BY <1>4, <1>a DEF LockExpiresUnderRun, TypeOK
  <1>5. ASSUME NEW w \in Workers, NEW c \in Uploads, Receive(w, c)
        PROVE  \A v \in Workers : job'[v] # Nobody => holder'[job'[v]] = v
    <2>1. /\ job' = [job EXCEPT ![w] = c] /\ holder' = [holder EXCEPT ![c] = w]
          /\ overlaps' = overlaps /\ message[c] = "ready"
      BY <1>5 DEF Receive, Leased, faults
    <2>2. holder[c] = Nobody
      BY <1>a, <2>1 DEF TypeOK
    <2>3. \A v \in Workers : job[v] # Nobody => job[v] # c
      BY <1>b, <2>1, <2>2, NobodyAssumption
    <2> QED
      BY <1>a, <1>b, <2>1, <2>3 DEF TypeOK
  <1>6. ASSUME NEW w \in Workers, Complete(w) \/ Abandon(w)
        PROVE  \A v \in Workers : job'[v] # Nobody => holder'[job'[v]] = v
    <2>1. /\ job' = [job EXCEPT ![w] = Nobody]
          /\ holder' = [holder EXCEPT ![job[w]] = Nobody]
          /\ overlaps' = overlaps /\ holder[job[w]] = w
      BY <1>6 DEF Complete, Abandon, Release, HoldsLock, faults
    <2>2. \A v \in Workers : v # w /\ job[v] # Nobody => job[v] # job[w]
      BY <1>b, <2>1
    <2> QED
      BY <1>a, <1>b, <2>1, <2>2 DEF TypeOK
  <1>7. ASSUME NEW w \in Workers, SettleFails(w) \/ Kill(w)
        PROVE  \A v \in Workers : job'[v] # Nobody => holder'[job'[v]] = v
    <2>1. job' = [job EXCEPT ![w] = Nobody] /\ UNCHANGED <<holder, overlaps>>
      BY <1>7 DEF SettleFails, Kill, queue, faults
    <2> QED
      BY <1>a, <1>b, <2>1 DEF TypeOK
  <1>8. ASSUME NEW w \in Workers, Raise(w) \/ Launch(w) \/ ReceiveNothing(w) \/ Await(w)
        PROVE  UNCHANGED <<job, holder, overlaps>>
    BY <1>8 DEF Raise, Launch, ReceiveNothing, Await, queue, faults
  <1>9. ASSUME NEW w \in Workers,
               \/ MarkExtracting(w) \/ MarkReady(w) \/ MarkFailed(w)
               \/ StoreClauses(w) \/ StoreObligations(w)
        PROVE  UNCHANGED <<job, holder, overlaps>>
    BY <1>9 DEF MarkExtracting, MarkReady, MarkFailed, StatusUpsert, StoreClauses,
                StoreObligations, queue, faults
  <1>10. CASE UNCHANGED vars
    BY <1>10, <1>1 DEF vars, workers, queue, faults
  <1> QED
    BY <1>1, <1>2, <1>3, <1>4, <1>5, <1>6, <1>7, <1>8, <1>9, <1>10 DEF Next, WorkerStep

\* As long as no lock expires under a run, no two executions of the job work on
\* one contract, whatever is killed, abandoned or redelivered.
THEOREM RunsAreExclusive == Spec => []RunsDoNotOverlap
  <1>1. TypeInv /\ LockInv => RunsDoNotOverlap
    <2> SUFFICES ASSUME TypeInv, LockInv, overlaps = 0,
                        NEW v \in Workers, NEW w \in Workers,
                        job[v] = job[w], job[v] # Nobody
                 PROVE  v = w
      BY DEF RunsDoNotOverlap
    <2> QED
      BY DEF LockInv
  <1> QED
    BY <1>1, TypeInvInit, TypeInvNext, LockInit, LockNext, PTL DEF Spec


-----------------------------------------------------------------------------
(* What a run and a status vouch for *)

Marked == {"auditMark", "analyze", "storeClauses", "extract", "storeObligations", "ready"}
NotStored == {"get", "mark", "auditMark", "analyze", "storeClauses"}
ClausesStored == {"extract", "storeObligations", "ready"}

\* A run is for the last delivery of its contract, has marked it before it
\* replaces anything, replaces clauses that are older than itself, and extracts
\* from its own.
RunInv(w) ==
  job[w] # Nobody =>
    /\ run[w] = deliveries[job[w]]
    /\ at[w] \in Marked => status[job[w]] = "EXTRACTING"
    /\ at[w] \in NotStored => clauses[job[w]] < run[w]
    /\ at[w] \in ClausesStored => clauses[job[w]] = run[w]
    /\ at[w] = "ready" => obligations[job[w]] = run[w]
    /\ at[w] \in {"auditReady", "complete"} => status[job[w]] = "READY"

\* Clauses are of a delivery there has been, READY is shown for obligations
\* extracted from the clauses that are stored, and a message is completed for a
\* READY contract only.
ContractInv(c) ==
  /\ clauses[c] <= deliveries[c]
  /\ status[c] = "READY" => clauses[c] = obligations[c]
  /\ message[c] = "done" => status[c] = "READY"

PublicationInv ==
  overlaps = 0 =>
    /\ \A w \in Workers : RunInv(w)
    /\ \A c \in Uploads : ContractInv(c)

LEMMA PublicationInit == Init => PublicationInv
  BY DEF Init, PublicationInv, RunInv, ContractInv

-----------------------------------------------------------------------------
(* Steps preserve what they vouch for *)

\* A step of worker w on contract x leaves the runs of other workers and other
\* contracts as they are.
Only(w, x) ==
  /\ \A v \in Workers \ {w} : at'[v] = at[v] /\ job'[v] = job[v] /\ run'[v] = run[v]
  /\ \A c \in Uploads \ {x} :
       /\ status'[c] = status[c] /\ clauses'[c] = clauses[c]
       /\ obligations'[c] = obligations[c]
       /\ deliveries'[c] = deliveries[c] /\ message'[c] = message[c]
  /\ overlaps' = overlaps

LEMMA OnlyIsEnough ==
  ASSUME TypeInv, PublicationInv, NEW w \in Workers, NEW x \in Uploads, Only(w, x),
         \A v \in Workers \ {w} : job[v] # x,
         overlaps = 0 => RunInv(w)' /\ ContractInv(x)'
  PROVE  PublicationInv'
  <1> SUFFICES ASSUME overlaps' = 0
               PROVE  /\ \A v \in Workers : RunInv(v)'
                      /\ \A c \in Uploads : ContractInv(c)'
    BY DEF PublicationInv
  <1>a. overlaps = 0 /\ TypeOK
    BY DEF Only, TypeInv
  <1>1. \A v \in Workers \ {w} : RunInv(v)'
    <2> SUFFICES ASSUME NEW v \in Workers \ {w}, job'[v] # Nobody
                 PROVE  RunInv(v)'
      BY DEF RunInv
    <2>1. job[v] \in Uploads \ {x} /\ at'[v] = at[v] /\ job'[v] = job[v] /\ run'[v] = run[v]
      BY <1>a DEF Only, TypeOK
    <2> QED
      BY <1>a, <2>1 DEF Only, PublicationInv, RunInv
  <1>2. \A c \in Uploads \ {x} : ContractInv(c)'
    BY <1>a DEF Only, PublicationInv, ContractInv
  <1> QED
    BY <1>a, <1>1, <1>2

\* While a worker works, it is the only one on its contract.
LEMMA WorkersAreApart ==
  ASSUME LockInv, overlaps = 0, NEW w \in Workers, job[w] # Nobody
  PROVE  \A v \in Workers \ {w} : job[v] # job[w]
  BY DEF LockInv

LEMMA UploadsPublishNothing ==
  ASSUME TypeInv, PublicationInv, NEW u \in Uploads, UploadStep(u) \/ UploadFails(u)
  PROVE  PublicationInv'
  <1> USE DEF TypeInv, TypeOK, Counts, PublicationInv, RunInv, ContractInv
  <1>1. CASE PutRow(u)
    <2>1. message[u] = "none" /\ \A w \in Workers : job[w] # u
      BY <1>1, NobodyAssumption DEF PutRow
    <2> QED
      BY <1>1, <2>1 DEF PutRow, queue, workers, faults
  <1>2. CASE Enqueue(u)
    BY <1>2 DEF Enqueue, store, workers, faults
  <1>3. CASE Find(u) \/ PutBlob(u) \/ AuditUpload(u) \/ UploadFails(u)
    BY <1>3 DEF Find, PutBlob, AuditUpload, UploadFails, store, queue, workers, faults
  <1> QED
    BY <1>1, <1>2, <1>3 DEF UploadStep

LEMMA ExpiryPublishesNothing ==
  ASSUME TypeInv, PublicationInv, NEW c \in Uploads,
         OrphanLockExpires(c) \/ LockExpiresUnderRun(c)
  PROVE  PublicationInv'
  <1> USE DEF TypeInv, TypeOK, PublicationInv, RunInv, ContractInv, Release
  <1>1. CASE OrphanLockExpires(c)
    BY <1>1 DEF OrphanLockExpires, store, workers, faults
  <1>2. CASE LockExpiresUnderRun(c)
    BY <1>2 DEF LockExpiresUnderRun
  <1> QED
    BY <1>1, <1>2

LEMMA WorkersKeepPublication ==
  ASSUME TypeInv, LockInv, PublicationInv, NEW w \in Workers,
         WorkerStep(w) \/ Raise(w) \/ Kill(w)
  PROVE  PublicationInv'
  <1> SUFFICES ASSUME overlaps = 0 PROVE PublicationInv'
    <2>1. overlaps' = overlaps
      BY DEF WorkerStep, Launch, Receive, ReceiveNothing, Await, MarkExtracting, StoreClauses,
             StoreObligations, MarkReady, MarkFailed, StatusUpsert, Complete, Abandon,
             SettleFails, Raise, Kill, faults
    <2> QED
      BY <2>1 DEF PublicationInv
  <1>a. /\ TypeOK /\ Counts /\ (\A v \in Workers : RunInv(v))
        /\ \A c \in Uploads : ContractInv(c)
    BY DEF TypeInv, PublicationInv
  <1>b. /\ "off" \notin Busy /\ "poll" \notin Busy
        /\ Marked \cup NotStored \cup ClausesStored \subseteq Busy
        /\ {"auditReady", "complete", "fail", "abandon"} \subseteq Busy
    BY DEF Busy, BeforeTry, InTry, InHandler, Marked, NotStored, ClausesStored
  <1> USE DEF Goes, JobDropped
  <1>x. PICK x : x = job[w]
    OBVIOUS
  <1>1. ASSUME at[w] \in Busy, Only(w, x), RunInv(w)', ContractInv(x)'
        PROVE  PublicationInv'
    <2>1. x \in Uploads /\ job[w] # Nobody
      BY <1>1, <1>a, <1>x DEF TypeOK
    <2>2. \A v \in Workers \ {w} : job[v] # x
      BY <2>1, <1>x, WorkersAreApart
    <2> QED
      BY <1>1, <2>1, <2>2, OnlyIsEnough
  <1>2. CASE Launch(w) \/ ReceiveNothing(w)
    <2>1. /\ job'[w] = Nobody /\ UNCHANGED <<store, queue, faults>>
          /\ \A v \in Workers \ {w} : at'[v] = at[v] /\ job'[v] = job[v] /\ run'[v] = run[v]
      BY <1>2, <1>a, <1>b DEF Launch, ReceiveNothing, TypeOK
    <2> QED
      BY <2>1, <1>a DEF store, queue, faults, PublicationInv, RunInv, ContractInv
  <1>3. ASSUME NEW c \in Uploads, Receive(w, c) PROVE PublicationInv'
    <2>1. /\ at' = [at EXCEPT ![w] = "get"] /\ job' = [job EXCEPT ![w] = c]
          /\ deliveries' = [deliveries EXCEPT ![c] = @ + 1]
          /\ run' = [run EXCEPT ![w] = deliveries'[c]]
          /\ message[c] = "ready" /\ message' = [message EXCEPT ![c] = "locked"]
          /\ UNCHANGED <<store, overlaps>>
      BY <1>3 DEF Receive, Leased, faults
    <2>2. \A v \in Workers : job[v] # c
      BY <2>1, <1>a, NobodyAssumption DEF TypeOK, LockInv
    <2>3. Only(w, c)
      BY <2>1, <1>a, <1>x DEF Only, TypeOK, store
    <2>4. RunInv(w)' /\ ContractInv(c)'
      BY <2>1, <1>a DEF RunInv, ContractInv, TypeOK, Runs, store, Marked, ClausesStored
    <2> QED
      BY <2>2, <2>3, <2>4, OnlyIsEnough
  <1>4. CASE Await(w)
    <2>1. /\ at[w] \in {"get", "auditMark", "analyze", "extract", "auditReady", "auditFail"}
          /\ at' = [at EXCEPT ![w] = After[at[w]]]
          /\ UNCHANGED <<store, queue, job, run, overlaps>>
      BY <1>4 DEF Await, faults
    <2>2. at[w] \in Busy
      BY <2>1 DEF Busy, BeforeTry, InTry, InHandler
    <2>3. Only(w, x)
      BY <2>1, <1>a, <1>x DEF Only, TypeOK, store, queue
    <2>4. RunInv(w)'
      BY <2>1, <1>a DEF RunInv, TypeOK, After, store, queue, Marked, NotStored, ClausesStored
    <2>5. ContractInv(x)'
      BY <2>1, <2>2, <1>a, <1>x DEF ContractInv, TypeOK, store, queue
    <2> QED
      BY <1>1, <2>2, <2>3, <2>4, <2>5
  <1>5. CASE MarkExtracting(w) \/ MarkFailed(w)
    <2>1. PICK stage \in {"mark", "fail"}, new \in {"EXTRACTING", "FAILED"} :
            /\ StatusUpsert(w, stage, new)
            /\ stage = "mark" => new = "EXTRACTING"
      BY <1>5 DEF MarkExtracting, MarkFailed
    <2>2. at[w] \in Busy
      BY <2>1 DEF StatusUpsert, Busy, BeforeTry, InHandler
    <2>3. job[w] \in Uploads /\ message[job[w]] = "locked"
      BY <2>2, <1>a, NobodyAssumption DEF TypeOK, LockInv
    <2>4. Only(w, x)
      BY <2>1, <1>a, <1>x DEF Only, TypeOK, StatusUpsert, queue, faults
    <2>5. RunInv(w)'
      BY <2>1, <2>3, <1>a
         DEF RunInv, TypeOK, StatusUpsert, After, queue, Marked, NotStored, ClausesStored
    <2>6. ContractInv(x)'
      BY <2>1, <2>3, <1>a, <1>x DEF ContractInv, TypeOK, StatusUpsert, queue
    <2> QED
      BY <1>1, <2>2, <2>4, <2>5, <2>6
  <1>6. CASE StoreClauses(w) \/ StoreObligations(w)
    <2>1. at[w] \in Busy
      BY <1>6 DEF StoreClauses, StoreObligations, Busy, InTry
    <2>2. /\ job[w] \in Uploads /\ status[job[w]] = "EXTRACTING"
          /\ message[job[w]] = "locked" /\ job[w] # Nobody
      BY <1>6, <2>1, <1>a, NobodyAssumption
         DEF StoreClauses, StoreObligations, TypeOK, LockInv, RunInv, Marked
    <2>3. Only(w, x)
      BY <1>6, <1>a, <1>x DEF Only, TypeOK, StoreClauses, StoreObligations, queue, faults
    <2>4. RunInv(w)'
      BY <1>6, <2>2, <1>a DEF RunInv, TypeOK, StoreClauses, StoreObligations, After, queue,
                              Marked, NotStored, ClausesStored
    <2>5. ContractInv(x)'
      <3>1. run[w] = deliveries[job[w]] /\ run[w] \in Nat
        BY <2>2, <1>a, LimitsAssumption DEF RunInv, TypeOK, Runs
      <3> QED
        BY <1>6, <2>2, <3>1, <1>a, <1>x
           DEF ContractInv, TypeOK, StoreClauses, StoreObligations, queue
    <2> QED
      BY <1>1, <2>1, <2>3, <2>4, <2>5
  <1>7. CASE MarkReady(w)
    <2>1. at[w] = "ready" /\ at[w] \in Busy
      BY <1>7 DEF MarkReady, StatusUpsert, Busy, InTry
    <2>2. job[w] \in Uploads /\ message[job[w]] = "locked"
      BY <2>1, <1>a, NobodyAssumption DEF TypeOK, LockInv
    <2>3. clauses[job[w]] = obligations[job[w]]
      BY <2>1, <2>2, <1>a, NobodyAssumption DEF RunInv, ClausesStored
    <2>4. Only(w, x)
      BY <1>7, <1>a, <1>x DEF Only, TypeOK, MarkReady, StatusUpsert, queue, faults
    <2>5. RunInv(w)'
      BY <1>7, <2>2, <1>a DEF RunInv, TypeOK, MarkReady, StatusUpsert, After, queue,
                              Marked, NotStored, ClausesStored
    <2>6. ContractInv(x)'
      BY <1>7, <2>2, <2>3, <1>a, <1>x DEF ContractInv, TypeOK, MarkReady, StatusUpsert, queue
    <2> QED
      BY <1>1, <2>1, <2>4, <2>5, <2>6
  <1>8. CASE Complete(w)
    <2>1. at[w] = "complete" /\ at[w] \in Busy
      BY <1>8, <1>b DEF Complete
    <2>2. job[w] \in Uploads /\ status[job[w]] = "READY"
      BY <2>1, <1>a, NobodyAssumption DEF TypeOK, RunInv
    <2>3. Only(w, x) /\ RunInv(w)'
      BY <1>8, <1>a, <1>x DEF Only, RunInv, TypeOK, Complete, store, faults
    <2>4. ContractInv(x)'
      BY <1>8, <2>2, <1>a, <1>x DEF ContractInv, TypeOK, Complete, store
    <2> QED
      BY <1>1, <2>1, <2>3, <2>4
  <1>9. CASE Abandon(w) \/ SettleFails(w) \/ Kill(w)
    <2>1. at[w] \in Busy
      BY <1>9, <1>b DEF Abandon, SettleFails, Kill
    <2>2. job[w] \in Uploads
      BY <2>1, <1>a DEF TypeOK
    <2>3. Only(w, x) /\ RunInv(w)'
      BY <1>9, <1>a, <1>x DEF Only, RunInv, TypeOK, Abandon, SettleFails, Kill, Release, store,
                        queue, faults
    <2>4. ContractInv(x)'
      BY <1>9, <2>2, <1>a, <1>x DEF ContractInv, TypeOK, Abandon, SettleFails, Kill, Release, store,
                              queue
    <2> QED
      BY <1>1, <2>1, <2>3, <2>4
  <1>10. CASE Raise(w)
    <2>1. at[w] \in Busy /\ at'[w] \in {"fail", "abandon"}
      BY <1>10, <1>a DEF Raise, Handler, Busy, TypeOK
    <2>2. job[w] \in Uploads
      BY <2>1, <1>a DEF TypeOK
    <2>3. Only(w, x)
      BY <1>10, <1>a, <1>x DEF Only, TypeOK, Raise, store, queue, faults
    <2>4. RunInv(w)'
      BY <1>10, <2>1, <1>a DEF RunInv, Raise, store, queue, Marked, NotStored, ClausesStored
    <2>5. ContractInv(x)'
      BY <1>10, <2>2, <1>a, <1>x DEF ContractInv, Raise, store, queue
    <2> QED
      BY <1>1, <2>1, <2>3, <2>4, <2>5
  <1> QED
    BY <1>2, <1>3, <1>4, <1>5, <1>6, <1>7, <1>8, <1>9, <1>10 DEF WorkerStep

LEMMA PublicationNext == TypeInv /\ LockInv /\ PublicationInv /\ [Next]_vars => PublicationInv'
  <1> SUFFICES ASSUME TypeInv, LockInv, PublicationInv, [Next]_vars PROVE PublicationInv'
    OBVIOUS
  <1>1. CASE UNCHANGED vars
    BY <1>1 DEF vars, store, queue, workers, faults, PublicationInv, RunInv, ContractInv
  <1> QED
    BY <1>1, UploadsPublishNothing, ExpiryPublishesNothing, WorkersKeepPublication DEF Next

\* A contract whose message was completed is READY and stays READY, as long as no
\* lock expires under a run.
THEOREM CompletedIsReady == Spec => []DoneIsReady
  <1>1. PublicationInv => DoneIsReady
    BY DEF PublicationInv, ContractInv, DoneIsReady
  <1> QED
    BY <1>1, TypeInvInit, TypeInvNext, LockInit, LockNext, PublicationInit, PublicationNext, PTL
       DEF Spec

-----------------------------------------------------------------------------
(* Nothing is dropped *)

\* Inductive: an upload answers with a row it stored or found, a row whose upload
\* is over is in the queue, a message is for a row, a row is worked on only once
\* it has been in the queue, and a message dies of its last delivery only.
AccountInv ==
  /\ \A u \in Uploads :
       /\ upload[u] \in {"audit", "enqueue"} => status[u] # "absent"
       /\ upload[u] \in {"accepted", "duplicate"} =>
            /\ answer[u] \in Uploads
            /\ status[answer[u]] # "absent" /\ Bytes[answer[u]] = Bytes[u]
  /\ \A c \in Uploads :
       /\ status[c] # "absent" =>
            message[c] # "none" \/ upload[c] \in {"audit", "enqueue", "error"}
       /\ message[c] # "none" => status[c] # "absent"
       /\ message[c] = "none" => status[c] \in {"absent", "PENDING"}
       /\ message[c] = "dead" => deliveries[c] = MaxDeliveries

\* What a step of the queue or of a worker may do to a contract.
Handled(c) ==
  /\ status'[c] = status[c] \/ (message[c] # "none" /\ status'[c] # "absent")
  /\ message'[c] = "none" <=> message[c] = "none"
  /\ message'[c] = "dead" =>
       \/ message[c] = "dead" /\ deliveries'[c] = deliveries[c]
       \/ deliveries'[c] = MaxDeliveries

LEMMA AccountInit == Init => AccountInv
  BY DEF Init, AccountInv

LEMMA HandlingKeepsAccount ==
  ASSUME AccountInv, UNCHANGED <<upload, answer>>, \A c \in Uploads : Handled(c)
  PROVE  AccountInv'
  BY DEF AccountInv, Handled

LEMMA UploadsKeepAccount ==
  ASSUME TypeInv, AccountInv, NEW u \in Uploads, UploadStep(u) \/ UploadFails(u)
  PROVE  AccountInv'
  <1> USE DEF AccountInv, TypeInv, TypeOK, Counts, UploadGoes
  <1>1. CASE Find(u)
    BY <1>1 DEF Find, SameBytes, store, queue
  <1>2. CASE PutBlob(u) \/ AuditUpload(u) \/ UploadFails(u)
    BY <1>2 DEF PutBlob, AuditUpload, UploadFails, store, queue
  <1>3. CASE PutRow(u)
    BY <1>3 DEF PutRow, queue
  <1>4. CASE Enqueue(u)
    BY <1>4 DEF Enqueue, store
  <1> QED
    BY <1>1, <1>2, <1>3, <1>4 DEF UploadStep

LEMMA ExpiryKeepsAccount ==
  ASSUME TypeInv, AccountInv, NEW c \in Uploads,
         OrphanLockExpires(c) \/ LockExpiresUnderRun(c)
  PROVE  AccountInv'
  <1>1. /\ UNCHANGED <<upload, answer, status, deliveries>> /\ message[c] = "locked"
        /\ message' = [message EXCEPT ![c] =
                         IF deliveries[c] < MaxDeliveries THEN "ready" ELSE "dead"]
    BY DEF OrphanLockExpires, LockExpiresUnderRun, Release, store, requests
  <1>2. deliveries[c] < MaxDeliveries \/ deliveries[c] = MaxDeliveries
    BY LimitsAssumption DEF TypeInv, TypeOK, Runs
  <1>3. \A d \in Uploads : Handled(d)
    BY <1>1, <1>2 DEF Handled, TypeInv, TypeOK
  <1> QED
    BY <1>1, <1>3, HandlingKeepsAccount

LEMMA WorkersKeepAccount ==
  ASSUME TypeInv, AccountInv, NEW w \in Workers, WorkerStep(w) \/ Raise(w) \/ Kill(w)
  PROVE  AccountInv'
  <1>a. TypeOK /\ Counts
    BY DEF TypeInv
  <1>b. \A s \in {"mark", "ready", "fail", "complete", "abandon"} : s \in Busy
    BY DEF Busy, BeforeTry, InTry, InHandler
  <1>c. at[w] \in Busy => job[w] \in Uploads /\ message[job[w]] # "none"
    BY <1>a DEF TypeOK, Counts
  <1>1. UNCHANGED <<upload, answer>>
    BY DEF WorkerStep, Launch, Receive, ReceiveNothing, Await, MarkExtracting, StoreClauses,
           StoreObligations, MarkReady, MarkFailed, StatusUpsert, Complete, Abandon,
           SettleFails, Raise, Kill, requests
  <1>2. CASE UNCHANGED <<status, queue>>
    BY <1>2, <1>1, HandlingKeepsAccount DEF Handled, queue
  <1>3. ASSUME NEW c \in Uploads, Receive(w, c) PROVE AccountInv'
    <2>1. /\ status' = status /\ message[c] = "ready"
          /\ message' = [message EXCEPT ![c] = "locked"]
          /\ deliveries' = [deliveries EXCEPT ![c] = @ + 1]
      BY <1>3 DEF Receive, Leased, store
    <2>2. \A d \in Uploads : Handled(d)
      BY <1>a, <2>1 DEF Handled, TypeOK
    <2> QED
      BY <1>1, <2>2, HandlingKeepsAccount
  <1>4. CASE MarkExtracting(w) \/ MarkReady(w) \/ MarkFailed(w)
    <2>1. PICK stage \in {"mark", "ready", "fail"}, new \in {"EXTRACTING", "READY", "FAILED"} :
            StatusUpsert(w, stage, new)
      BY <1>4 DEF MarkExtracting, MarkReady, MarkFailed
    <2>2. \A d \in Uploads : Handled(d)
      BY <1>a, <1>b, <1>c, <2>1 DEF Handled, StatusUpsert, queue, TypeOK
    <2> QED
      BY <1>1, <2>2, HandlingKeepsAccount
  <1>5. CASE Complete(w) \/ Abandon(w)
    <2>1. /\ at[w] \in Busy /\ UNCHANGED <<status, deliveries>>
          /\ message' \in {[message EXCEPT ![job[w]] = "done"],
                           [message EXCEPT ![job[w]] =
                              IF deliveries[job[w]] < MaxDeliveries THEN "ready" ELSE "dead"]}
      BY <1>5, <1>b DEF Complete, Abandon, Release, store
    <2>2. deliveries[job[w]] < MaxDeliveries \/ deliveries[job[w]] = MaxDeliveries
      BY <1>a, <1>c, <2>1, LimitsAssumption DEF TypeOK, Runs
    <2>3. \A d \in Uploads : Handled(d)
      BY <1>a, <1>c, <2>1, <2>2 DEF Handled, TypeOK
    <2> QED
      BY <1>1, <2>3, HandlingKeepsAccount
  <1>6. CASE \/ Launch(w) \/ ReceiveNothing(w) \/ Await(w) \/ StoreClauses(w)
             \/ StoreObligations(w) \/ SettleFails(w) \/ Raise(w) \/ Kill(w)
    BY <1>2, <1>6 DEF Launch, ReceiveNothing, Await, StoreClauses, StoreObligations,
                      SettleFails, Raise, Kill, store
  <1> QED
    BY <1>3, <1>4, <1>5, <1>6 DEF WorkerStep

LEMMA AccountNext == TypeInv /\ AccountInv /\ [Next]_vars => AccountInv'
  <1> SUFFICES ASSUME TypeInv, AccountInv, [Next]_vars PROVE AccountInv'
    OBVIOUS
  <1>1. CASE UNCHANGED vars
    BY <1>1 DEF vars, store, queue, requests, AccountInv
  <1> QED
    BY <1>1, UploadsKeepAccount, ExpiryKeepsAccount, WorkersKeepAccount DEF Next

\* Whoever is answered is given a contract that exists, has their bytes and is in
\* the queue or on its way there; and a contract that is EXTRACTING has a delivery
\* under way or to come unless its last one went wrong.
THEOREM NoContractIsDropped == Spec => []NothingIsDropped
  <1>1. TypeInv /\ AccountInv /\ PublicationInv => NothingIsDropped
    <2> SUFFICES ASSUME TypeInv, AccountInv, PublicationInv PROVE NothingIsDropped
      OBVIOUS
    <2>1. \A c \in Uploads : status[c] = "EXTRACTING" /\ overlaps = 0 =>
            \/ message[c] \in {"ready", "locked"}
            \/ message[c] = "dead" /\ deliveries[c] = MaxDeliveries
      BY DEF TypeInv, TypeOK, AccountInv, PublicationInv, ContractInv
    <2> QED
      BY <2>1 DEF AccountInv, NothingIsDropped
  <1> QED
    BY <1>1, TypeInvInit, TypeInvNext, LockInit, LockNext, PublicationInit, PublicationNext,
       AccountInit, AccountNext, PTL DEF Spec

-----------------------------------------------------------------------------
(* Publication is implemented *)

LEMMA NothingIsShownAtFirst == Init => P!Init
  BY DEF Init, P!Init, P!Nothing, Vouched

\* What a step does to contracts other than x, and to x if it is shown alike.
LEMMA ShownAlike ==
  ASSUME NEW x \in Uploads, UNCHANGED clauses, Vouched(x)' = Vouched(x),
         \A c \in Uploads \ {x} : status'[c] = status[c] /\ obligations'[c] = obligations[c]
  PROVE  UNCHANGED P!vars
  <1>1. \A c \in Uploads : Vouched(c)' = Vouched(c)
    BY DEF Vouched
  <1> QED
    BY <1>1 DEF P!vars

LEMMA UploadsRefine ==
  ASSUME TypeInv, NEW u \in Uploads, UploadStep(u) \/ UploadFails(u),
         upload[u] = "row" => status[u] # "READY"
  PROVE  UNCHANGED P!vars
  <1>1. /\ UNCHANGED <<clauses, obligations>>
        /\ \A c \in Uploads \ {u} : status'[c] = status[c]
        /\ status'[u] = status[u] \/ (status[u] # "READY" /\ status'[u] # "READY")
    BY DEF TypeInv, TypeOK, UploadStep, UploadFails, Find, PutBlob, PutRow, AuditUpload,
           Enqueue, store
  <1>2. Vouched(u)' = Vouched(u)
    BY <1>1 DEF Vouched
  <1> QED
    BY <1>1, <1>2, ShownAlike

LEMMA WorkersRefine ==
  ASSUME TypeInv, StoredInv, LockInv, PublicationInv, overlaps = 0, NEW w \in Workers,
         WorkerStep(w) \/ Raise(w) \/ Kill(w)
  PROVE  P!Next \/ UNCHANGED P!vars
  <1>a. /\ TypeOK /\ Counts /\ (\A v \in Workers : RunInv(v))
        /\ \A c \in Uploads : ContractInv(c)
    BY DEF TypeInv, PublicationInv
  <1>b. {"mark", "fail", "storeClauses", "storeObligations", "ready"} \subseteq Busy
    BY DEF Busy, BeforeTry, InTry, InHandler
  <1>x. PICK x : x = job[w]
    OBVIOUS
  <1>c. at[w] \in Busy => x \in Uploads /\ job[w] # Nobody
    BY <1>a, <1>x, NobodyAssumption DEF TypeOK
  <1>1. CASE UNCHANGED store
    BY <1>1 DEF store, Vouched, P!vars
  <1>2. CASE MarkExtracting(w) \/ MarkFailed(w)
    <2>1. PICK new \in {"EXTRACTING", "FAILED"} : status' = [status EXCEPT ![x] = new]
      BY <1>2, <1>x DEF MarkExtracting, MarkFailed, StatusUpsert
    <2>2. x \in Uploads /\ UNCHANGED <<clauses, obligations>>
      BY <1>2, <1>b, <1>c DEF MarkExtracting, MarkFailed, StatusUpsert
    <2>3. Vouched(x)' = 0 /\ \A c \in Uploads \ {x} : Vouched(c)' = Vouched(c)
      BY <2>1, <2>2, <1>a DEF Vouched, TypeOK
    <2>4. CASE Vouched(x) = 0
      BY <2>1, <2>2, <2>3, <2>4, <1>a, ShownAlike DEF TypeOK
    <2>5. CASE Vouched(x) # 0
      <3>1. P!Withdraw(x)
        <4>1. [c \in Uploads |-> Vouched(c)]' = [[c \in Uploads |-> Vouched(c)] EXCEPT ![x] = 0]
          BY <2>2, <2>3
        <4> QED
          BY <2>2, <2>5, <4>1 DEF P!Withdraw, P!Nothing
      <3> QED
        BY <2>2, <3>1 DEF P!Next
    <2> QED
      BY <2>4, <2>5
  <1>3. CASE StoreClauses(w)
    <2>1. /\ at[w] = "storeClauses" /\ x \in Uploads /\ UNCHANGED <<status, obligations>>
          /\ clauses' = [clauses EXCEPT ![x] = run[w]]
      BY <1>3, <1>b, <1>c, <1>x DEF StoreClauses
    <2>2. status[x] = "EXTRACTING" /\ clauses[x] < run[w]
      BY <2>1, <1>a, <1>b, <1>c, <1>x DEF RunInv, Marked, NotStored
    <2>3. Vouched(x) = 0 /\ \A c \in Uploads : Vouched(c)' = Vouched(c)
      BY <2>1, <2>2 DEF Vouched
    <2>4. P!Prepare(x)
      BY <2>1, <2>2, <2>3, <1>a DEF P!Prepare, P!Nothing, TypeOK
    <2> QED
      BY <2>1, <2>4 DEF P!Next
  <1>4. CASE StoreObligations(w)
    <2>1. /\ at[w] = "storeObligations" /\ x \in Uploads /\ UNCHANGED <<status, clauses>>
          /\ obligations' = [obligations EXCEPT ![x] = run[w]]
      BY <1>4, <1>b, <1>c, <1>x DEF StoreObligations
    <2>2. status[x] = "EXTRACTING"
      BY <2>1, <1>a, <1>b, <1>c, <1>x DEF RunInv, Marked
    <2>3. Vouched(x)' = Vouched(x)
      BY <2>1, <2>2 DEF Vouched
    <2> QED
      BY <2>1, <2>3, <1>a, ShownAlike DEF TypeOK
  <1>5. CASE MarkReady(w)
    <2>1. /\ at[w] = "ready" /\ x \in Uploads /\ UNCHANGED <<clauses, obligations>>
          /\ status' = [status EXCEPT ![x] = "READY"]
      BY <1>5, <1>b, <1>c, <1>x DEF MarkReady, StatusUpsert
    <2>2. /\ status[x] = "EXTRACTING" /\ clauses[x] # 0
          /\ clauses[x] = obligations[x]
      BY <2>1, <1>a, <1>b, <1>c, <1>x DEF RunInv, Marked, ClausesStored, StoredInv
    <2>3. /\ Vouched(x) = 0 /\ Vouched(x)' = clauses[x]
          /\ \A c \in Uploads \ {x} : Vouched(c)' = Vouched(c)
      BY <2>1, <2>2, <1>a DEF Vouched, TypeOK
    <2>4. P!Publish(x)
      BY <2>1, <2>2, <2>3 DEF P!Publish, P!Nothing
    <2> QED
      BY <2>1, <2>4 DEF P!Next
  <1> QED
    BY <1>1, <1>2, <1>3, <1>4, <1>5
       DEF WorkerStep, Launch, Receive, ReceiveNothing, Await, Complete, Abandon, SettleFails,
           Raise, Kill

LEMMA StepsRefine ==
  TypeInv /\ StoredInv /\ LockInv /\ PublicationInv /\ overlaps = 0 /\ [Next]_vars
    => [P!Next]_P!vars
  <1> SUFFICES ASSUME TypeInv, StoredInv, LockInv, PublicationInv, overlaps = 0, [Next]_vars
               PROVE  P!Next \/ UNCHANGED P!vars
    OBVIOUS
  <1>1. ASSUME NEW u \in Uploads, UploadStep(u) \/ UploadFails(u)
        PROVE  UNCHANGED P!vars
    <2>1. upload[u] = "row" => status[u] # "READY"
      <3>1. upload[u] = "row" => deliveries[u] = 0
        BY DEF TypeInv, Counts
      <3>2. /\ clauses[u] \in Nat /\ clauses[u] <= deliveries[u]
            /\ status[u] = "READY" => clauses[u] # 0
        BY LimitsAssumption
           DEF TypeInv, TypeOK, Runs, PublicationInv, ContractInv, StoredInv, ReadyIsComplete
      <3> QED
        BY <3>1, <3>2
    <2> QED
      BY <1>1, <2>1, UploadsRefine
  <1>2. ASSUME NEW c \in Uploads, OrphanLockExpires(c) \/ LockExpiresUnderRun(c)
        PROVE  UNCHANGED P!vars
    BY <1>2 DEF OrphanLockExpires, LockExpiresUnderRun, store, Vouched, P!vars
  <1>3. CASE UNCHANGED vars
    BY <1>3 DEF vars, store, Vouched, P!vars
  <1> QED
    BY <1>1, <1>2, <1>3, WorkersRefine DEF Next

\* Ingest implements Publication as long as no lock expires under a run: what
\* a READY contract's citations point into is the set of clauses that is stored.
THEOREM IngestPublishes == Spec /\ [](overlaps = 0) => PublicationSpec
  <1>1. Spec => []TypeInv /\ []StoredInv /\ []LockInv /\ []PublicationInv
    BY TypeInvInit, TypeInvNext, StoredInit, StoredNext, LockInit, LockNext,
       PublicationInit, PublicationNext, PTL DEF Spec
  <1>2. Spec => P!Init
    BY NothingIsShownAtFirst DEF Spec
  <1> QED
    BY <1>1, <1>2, StepsRefine, PTL DEF Spec, PublicationSpec, P!Spec
=============================================================================
