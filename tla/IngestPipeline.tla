--------------------------- MODULE IngestPipeline ---------------------------
(***************************************************************************)
(* From an uploaded PDF to a READY contract.                               *)
(*   - An upload request (upload_contract, register_upload) looks for the  *)
(*     same bytes, stores a PENDING row and enqueues the contract's id.    *)
(*   - The Service Bus queue leases a message to one receiver at a time,   *)
(*     for five minutes nobody renews, and dead-letters it after           *)
(*     MaxDeliveries deliveries.                                           *)
(*   - An execution of the ingest worker (drain) receives a message, runs  *)
(*     run_ingest on it and settles it; an exception abandons the message  *)
(*     and ends the execution.                                             *)
(* Every await is a step: another request, another execution, a killed     *)
(* replica or an expired lock may come between any two.                    *)
(*                                                                         *)
(* A contract is named by the upload that created it.  What a run of       *)
(* run_ingest stores is named by the delivery the run is for.              *)
(***************************************************************************)
EXTENDS Integers, FiniteSets

CONSTANTS
  Uploads,       \* upload requests, and the contracts they create
  Bytes,         \* Bytes[u]: the content upload u sends
  Workers,       \* executions of the ingest job that may run side by side
  Nobody,        \* stands for no contract, no worker
  MaxDeliveries, \* maxDeliveryCount of the queue
  MaxMessages,   \* MAX_MESSAGES_PER_RUN
  MaxKills,      \* bound: replicas killed in the middle of a run
  MaxOverlaps    \* bound: locks that expire under a run that is still going

ASSUME BytesAssumption == DOMAIN Bytes = Uploads
ASSUME NobodyAssumption == Nobody \notin Uploads \cup Workers
ASSUME LimitsAssumption ==
  {MaxDeliveries, MaxMessages} \subseteq Nat \ {0} /\ {MaxKills, MaxOverlaps} \subseteq Nat

VARIABLES
  status,     \* contracts container: status of each row, "absent" when none
  clauses,    \* clauses container: the run the stored clauses are from, or 0
  obligations,\* obligations container: likewise
  message,    \* queue: "none", "ready", "locked", "done" or "dead"
  holder,     \* queue: the receiver that holds the lock
  deliveries, \* queue: how often the message was delivered
  upload,     \* upload request: how far it has come
  answer,     \* upload request: the contract it was answered with
  at,         \* worker: where it is
  job,        \* worker: the contract it is working on
  run,        \* worker: the delivery it is working for
  processed,  \* worker: messages completed by this execution
  kills, overlaps

store == <<status, clauses, obligations>>
queue == <<message, holder, deliveries>>
requests == <<upload, answer>>
workers == <<at, job, run, processed>>
faults == <<kills, overlaps>>
vars == <<store, queue, requests, workers, faults>>

\* The awaits of run_ingest and drain, in order.  Between two of those inside the
\* try, reading the blob, embedding and two audit records change no state of the
\* model, and their failures are failures of the await that follows.
BeforeTry == {"get", "mark", "auditMark"}
InTry == {"analyze", "storeClauses", "extract", "storeObligations", "ready", "auditReady"}
InHandler == {"fail", "auditFail"}
Busy == BeforeTry \cup InTry \cup InHandler \cup {"complete", "abandon"}

After ==
  [get |-> "mark", mark |-> "auditMark", auditMark |-> "analyze",
   analyze |-> "storeClauses", storeClauses |-> "extract",
   extract |-> "storeObligations", storeObligations |-> "ready",
   ready |-> "auditReady", auditReady |-> "complete",
   fail |-> "auditFail", auditFail |-> "abandon"]

UploadSteps == {"find", "blob", "row", "audit", "enqueue", "accepted", "duplicate", "error"}
Runs == 0..MaxDeliveries

TypeOK ==
  /\ status \in [Uploads -> {"absent", "PENDING", "EXTRACTING", "READY", "FAILED"}]
  /\ clauses \in [Uploads -> Runs]
  /\ obligations \in [Uploads -> Runs]
  /\ message \in [Uploads -> {"none", "ready", "locked", "done", "dead"}]
  /\ holder \in [Uploads -> Workers \cup {Nobody}]
  /\ deliveries \in [Uploads -> Runs]
  /\ upload \in [Uploads -> UploadSteps]
  /\ answer \in [Uploads -> Uploads \cup {Nobody}]
  /\ at \in [Workers -> Busy \cup {"off", "poll"}]
  /\ job \in [Workers -> Uploads \cup {Nobody}]
  /\ run \in [Workers -> Runs]
  /\ processed \in [Workers -> 0..MaxMessages]
  /\ kills \in 0..MaxKills
  /\ overlaps \in 0..MaxOverlaps
  /\ \A c \in Uploads : holder[c] # Nobody <=> message[c] = "locked"
  /\ \A w \in Workers : job[w] # Nobody <=> at[w] \in Busy

Init ==
  /\ status = [u \in Uploads |-> "absent"]
  /\ clauses = [u \in Uploads |-> 0]
  /\ obligations = clauses
  /\ message = [u \in Uploads |-> "none"]
  /\ holder = [u \in Uploads |-> Nobody]
  /\ deliveries = clauses
  /\ upload = [u \in Uploads |-> "find"]
  /\ answer = [u \in Uploads |-> Nobody]
  /\ at = [w \in Workers |-> "off"]
  /\ job = [w \in Workers |-> Nobody]
  /\ run = [w \in Workers |-> 0]
  /\ processed = run
  /\ kills = 0 /\ overlaps = 0

-----------------------------------------------------------------------------
\* An upload request.

UploadGoes(u, to) == upload' = [upload EXCEPT ![u] = to]

SameBytes(u) == {c \in Uploads : status[c] # "absent" /\ Bytes[c] = Bytes[u]}

\* find_by_hash; a duplicate is answered with the row that was found.
Find(u) ==
  /\ upload[u] = "find"
  /\ \/ /\ SameBytes(u) = {} /\ UploadGoes(u, "blob") /\ UNCHANGED answer
     \/ /\ \E c \in SameBytes(u) : answer' = [answer EXCEPT ![u] = c]
        /\ UploadGoes(u, "duplicate")
  /\ UNCHANGED <<store, queue, workers, faults>>

PutBlob(u) ==
  /\ upload[u] = "blob" /\ UploadGoes(u, "row")
  /\ UNCHANGED <<store, queue, answer, workers, faults>>

\* Mutant: the id goes to the queue before the row it names exists.
EnqueuesFirst(u) ==
  /\ upload[u] = "row" /\ UploadGoes(u, "enqueue")
  /\ message' = [message EXCEPT ![u] = "ready"]
  /\ UNCHANGED <<store, holder, deliveries, answer, workers, faults>>

PutRow(u) ==
  /\ upload[u] = "row" /\ UploadGoes(u, "audit")
  /\ status' = [status EXCEPT ![u] = "PENDING"]
  /\ UNCHANGED <<clauses, obligations, queue, answer, workers, faults>>

AuditUpload(u) ==
  /\ upload[u] = "audit" /\ UploadGoes(u, "enqueue")
  /\ UNCHANGED <<store, queue, answer, workers, faults>>

\* Enqueue and answer 202.
Enqueue(u) ==
  /\ upload[u] = "enqueue" /\ UploadGoes(u, "accepted")
  /\ message' = [message EXCEPT ![u] = "ready"]
  /\ answer' = [answer EXCEPT ![u] = u]
  /\ UNCHANGED <<store, holder, deliveries, workers, faults>>

\* A call fails, or the API's replica dies: the client has an error or nothing.
UploadFails(u) ==
  /\ upload[u] \in {"find", "blob", "row", "audit", "enqueue"}
  /\ UploadGoes(u, "error")
  /\ UNCHANGED <<store, queue, answer, workers, faults>>

-----------------------------------------------------------------------------
\* The queue's side of a lease.

\* A released message is delivered again, or dead-lettered.
Release(c) ==
  /\ message' = [message EXCEPT ![c] =
       IF deliveries[c] < MaxDeliveries THEN "ready" ELSE "dead"]
  /\ holder' = [holder EXCEPT ![c] = Nobody]
  /\ UNCHANGED deliveries

Attended(c) == \E w \in Workers : job[w] = c /\ holder[c] = w

\* The lock of a receiver that is gone runs out.
OrphanLockExpires(c) ==
  /\ message[c] = "locked" /\ ~Attended(c)
  /\ Release(c)
  /\ UNCHANGED <<store, requests, workers, faults>>

\* The run takes longer than the lock lasts; the run does not notice.
LockExpiresUnderRun(c) ==
  /\ message[c] = "locked" /\ Attended(c) /\ overlaps < MaxOverlaps
  /\ overlaps' = overlaps + 1
  /\ Release(c)
  /\ UNCHANGED <<store, requests, workers, kills>>

-----------------------------------------------------------------------------
\* The worker.

Goes(w, to) == at' = [at EXCEPT ![w] = to]

\* Mutant: the finished job is carried on.
JobKept(w) == UNCHANGED job

JobDropped(w) == job' = [job EXCEPT ![w] = Nobody]

\* KEDA starts an execution because messages exist.
Launch(w) ==
  /\ at[w] = "off" /\ \E c \in Uploads : message[c] = "ready"
  /\ Goes(w, "poll")
  /\ processed' = [processed EXCEPT ![w] = 0]
  /\ UNCHANGED <<store, queue, requests, job, run, faults>>

\* Mutant: the message is settled on receipt.
SettledOnReceipt(w, c) ==
  /\ message' = [message EXCEPT ![c] = "done"]
  /\ deliveries' = [deliveries EXCEPT ![c] = @ + 1]
  /\ UNCHANGED holder

\* Mutant: the message is read but not locked.
Peeked(w, c) ==
  deliveries' = [deliveries EXCEPT ![c] = @ + 1] /\ UNCHANGED <<message, holder>>

\* Mutant: a redelivery is not counted, only the first delivery is.
LeasedUncounted(w, c) ==
  /\ message' = [message EXCEPT ![c] = "locked"]
  /\ holder' = [holder EXCEPT ![c] = w]
  /\ deliveries' = [deliveries EXCEPT ![c] = 1]

Leased(w, c) ==
  /\ message' = [message EXCEPT ![c] = "locked"]
  /\ holder' = [holder EXCEPT ![c] = w]
  /\ deliveries' = [deliveries EXCEPT ![c] = @ + 1]

Receive(w, c) ==
  /\ at[w] = "poll" /\ message[c] = "ready"
  /\ Leased(w, c)
  /\ Goes(w, "get")
  /\ job' = [job EXCEPT ![w] = c]
  /\ run' = [run EXCEPT ![w] = deliveries'[c]]
  /\ UNCHANGED <<store, requests, processed, faults>>

\* The queue is empty: drain returns and the execution ends.
ReceiveNothing(w) ==
  /\ at[w] = "poll" /\ \A c \in Uploads : message[c] # "ready"
  /\ Goes(w, "off")
  /\ UNCHANGED <<store, queue, requests, job, run, processed, faults>>

\* An await that leaves the containers as they are: reading the row, an audit
\* record, the layout analysis and embedding, the model's extraction.
Await(w) ==
  /\ at[w] \in {"get", "auditMark", "analyze", "extract", "auditReady", "auditFail"}
  /\ at[w] = "get" => status[job[w]] # "absent"
  /\ Goes(w, After[at[w]])
  /\ UNCHANGED <<store, queue, requests, job, run, processed, faults>>

StatusUpsert(w, stage, new) ==
  /\ at[w] = stage /\ Goes(w, After[stage])
  /\ status' = [status EXCEPT ![job[w]] = new]
  /\ UNCHANGED <<clauses, obligations, queue, requests, job, run, processed, faults>>

\* Mutant: the row is not marked before the run replaces its clauses.
MarksNothing(w) ==
  /\ at[w] = "mark" /\ Goes(w, "auditMark")
  /\ UNCHANGED <<store, queue, requests, job, run, processed, faults>>

MarkExtracting(w) == StatusUpsert(w, "mark", "EXTRACTING")
MarkReady(w) == StatusUpsert(w, "ready", "READY")
MarkFailed(w) == StatusUpsert(w, "fail", "FAILED")

StoreClauses(w) ==
  /\ at[w] = "storeClauses" /\ Goes(w, After["storeClauses"])
  /\ clauses' = [clauses EXCEPT ![job[w]] = run[w]]
  /\ UNCHANGED <<status, obligations, queue, requests, job, run, processed, faults>>

\* Mutant: the obligations are extracted but not stored.
ForgetsObligations(w) ==
  /\ at[w] = "storeObligations" /\ Goes(w, After["storeObligations"])
  /\ UNCHANGED <<store, queue, requests, job, run, processed, faults>>

StoreObligations(w) ==
  /\ at[w] = "storeObligations" /\ Goes(w, After["storeObligations"])
  /\ obligations' = [obligations EXCEPT ![job[w]] = run[w]]
  /\ UNCHANGED <<status, clauses, queue, requests, job, run, processed, faults>>

\* Where an exception raised at a stage is handled: by run_ingest's own handler
\* inside the try, else by drain's.
Handler(stage) == IF stage \in BeforeTry \cup InHandler THEN "abandon" ELSE "fail"

\* A call fails, or the document does.
Raise(w) ==
  /\ at[w] \in BeforeTry \cup InTry \cup InHandler
  /\ Goes(w, Handler(at[w]))
  /\ UNCHANGED <<store, queue, requests, job, run, processed, faults>>

\* Settling needs the lock; without it the call raises, which nothing catches.
HoldsLock(w) == holder[job[w]] = w

Complete(w) ==
  /\ at[w] = "complete" /\ HoldsLock(w)
  /\ message' = [message EXCEPT ![job[w]] = "done"]
  /\ holder' = [holder EXCEPT ![job[w]] = Nobody]
  /\ processed' = [processed EXCEPT ![w] = @ + 1]
  /\ Goes(w, IF processed'[w] < MaxMessages THEN "poll" ELSE "off")
  /\ JobDropped(w)
  /\ UNCHANGED <<store, deliveries, requests, run, faults>>

Abandon(w) ==
  /\ at[w] = "abandon" /\ HoldsLock(w)
  /\ Release(job[w])
  /\ Goes(w, "off") /\ JobDropped(w)
  /\ UNCHANGED <<store, requests, run, processed, faults>>

SettleFails(w) ==
  /\ at[w] \in {"complete", "abandon"} /\ ~HoldsLock(w)
  /\ Goes(w, "off") /\ JobDropped(w)
  /\ UNCHANGED <<store, queue, requests, run, processed, faults>>

\* The job's timeout, or the platform, ends the replica; no handler runs.
Kill(w) ==
  /\ at[w] \in Busy /\ kills < MaxKills
  /\ kills' = kills + 1
  /\ Goes(w, "off") /\ JobDropped(w)
  /\ UNCHANGED <<store, queue, requests, run, processed, overlaps>>

-----------------------------------------------------------------------------
UploadStep(u) ==
  Find(u) \/ PutBlob(u) \/ PutRow(u) \/ AuditUpload(u) \/ Enqueue(u)

WorkerStep(w) ==
  \/ Launch(w)
  \/ (\E c \in Uploads : Receive(w, c)) \/ ReceiveNothing(w)
  \/ Await(w)
  \/ MarkExtracting(w) \/ StoreClauses(w) \/ StoreObligations(w)
  \/ MarkReady(w) \/ MarkFailed(w)
  \/ Complete(w) \/ Abandon(w) \/ SettleFails(w)

Next ==
  \/ \E u \in Uploads : UploadStep(u) \/ UploadFails(u)
  \/ \E c \in Uploads : OrphanLockExpires(c) \/ LockExpiresUnderRun(c)
  \/ \E w \in Workers : WorkerStep(w) \/ Raise(w) \/ Kill(w)

Spec == Init /\ [][Next]_vars

\* Requests are served, KEDA starts executions while messages wait, executions
\* run, and locks of receivers that are gone run out.  Nothing makes a call
\* fail, a replica die, or a lock expire early.
FairSpec ==
  /\ Spec
  /\ \A u \in Uploads : WF_vars(UploadStep(u))
  /\ \A c \in Uploads : WF_vars(OrphanLockExpires(c))
  /\ \A w \in Workers : WF_vars(WorkerStep(w))

-----------------------------------------------------------------------------
(* Safety *)

\* What a reader finds behind READY is there: clauses and obligations have been
\* stored, through kills, retries and runs that overlap.
ReadyIsComplete ==
  \A c \in Uploads : status[c] = "READY" => clauses[c] # 0 /\ obligations[c] # 0

\* The run whose obligations the status vouches for; the rows themselves can be
\* read whatever the status is.
Vouched(c) == IF status[c] = "READY" THEN obligations[c] ELSE 0

P == INSTANCE Publication
  WITH Contracts <- Uploads, Versions <- Runs,
       latest <- clauses, published <- [c \in Uploads |-> Vouched(c)]

\* As long as no lock expires under a run, ingest publishes: a contract is
\* READY only while its obligations were extracted from the very clauses that are
\* stored, so that their citations resolve, and a retry takes READY away before it
\* replaces either.
PublicationSpec == P!Spec

\* A contract whose message was completed is READY, and stays READY, as long
\* as no lock expires under a run.
DoneIsReady ==
  overlaps = 0 => \A c \in Uploads : message[c] = "done" => status[c] = "READY"

\* No contract is dropped.  Whoever is answered, for an upload or for a
\* duplicate, is given a contract that exists, has their bytes, and has been put
\* in the queue, unless the upload that created it is still on its way there or
\* broke down before it; a message is for a contract that exists; and one that is
\* EXTRACTING still has a delivery to come or its run in progress, unless its last
\* delivery went wrong.
NothingIsDropped ==
  /\ \A u \in Uploads : upload[u] \in {"accepted", "duplicate"} =>
       LET c == answer[u] IN
       /\ status[c] # "absent" /\ Bytes[c] = Bytes[u]
       /\ message[c] # "none" \/ upload[c] \in {"audit", "enqueue", "error"}
  /\ \A c \in Uploads :
       /\ message[c] # "none" => status[c] # "absent"
       /\ status[c] = "EXTRACTING" /\ overlaps = 0 =>
            \/ message[c] \in {"ready", "locked"}
            \/ message[c] = "dead" /\ deliveries[c] = MaxDeliveries

\* One lock, one run: two runs of a contract are under way at once only if a
\* lock expired under one of them.
RunsDoNotOverlap ==
  overlaps = 0 =>
    \A v, w \in Workers : job[v] = job[w] /\ job[v] # Nobody => v = w

-----------------------------------------------------------------------------
(* Liveness *)

\* Every accepted contract is settled one way or the other: no lease is held
\* for ever, no message is delivered for ever.
EveryMessageSettles ==
  \A c \in Uploads : upload[c] = "accepted" ~> message[c] \in {"done", "dead"}
=============================================================================
