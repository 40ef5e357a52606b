# ClauseWatch: specifications, model checks and proofs

ClauseWatch takes a contract's PDF, splits it into clauses, has a model extract
the obligations the clauses ground, and watches the calendar for them. This
directory holds TLA+ specifications of the program under `src/app`, the
configurations TLC checks them with, and theorems that TLAPS proves about them.
`PROJECT.json` lists the runs, the source lines of every definition, the
hazards and the theorems; this file explains them.

## Inventory

| component | state it keeps | operations | talks to |
|---|---|---|---|
| upload API (`api/contracts.py`, `register_upload`) | none of its own | find the hash, put the blob, insert the row, audit, enqueue | contracts, blobs, audit, queue |
| queue (`data/azure_queue.py`, Service Bus) | messages, locks, delivery counts | enqueue, receive, complete, abandon, lock expiry, dead-lettering | worker |
| ingest worker (`jobs/ingest_worker.py`) | the lease and the count of this execution | `drain`: receive, run, settle | queue, `run_ingest` |
| `run_ingest` (`ingest/pipeline.py`) | a contract's status | mark, analyze, chunk, embed, store clauses, extract, store obligations, READY or FAILED | every store, the model |
| document analysis (`ingest/doc_intelligence.py`) | none | `_to_layout`: place, collect, sort | the layout service, `run_ingest` |
| chunker (`ingest/chunker.py`) | none | `to_clauses`, `_explode_block`, `clause_marker`, `_merge_boxes`, `_split_long` | `run_ingest` |
| embeddings (`ingest/embeddings.py`) | none | `embed_batch` | the embedding service, `run_ingest` |
| extraction (`ingest/extractor.py`) | none | `_batch`, `validate_citations`, `_dedupe_key`, `extract_obligations` | the model |
| Cosmos repositories (`data/azure_cosmos.py`) | contracts, clauses, obligations, audit rows | upsert, `replace_for_contract`, queries | everyone |
| obligation scanner (`jobs/obligation_scanner.py`) | fetched copies, transitions | `scan`: list, evaluate, upsert, audit, notify | obligations, contracts, audit, notifier |
| due dates (`domain/recurrence.py`, `effective_due_date`, `next_state`) | none | projection of a rule, state of a date | scanner |
| decisions API (`api/obligations.py`) | none of its own | satisfy, waive, evidence | obligations, clauses, audit |
| notifier (`notify.py`) | none | one message per scan, failure swallowed | a webhook |
| bearer-token middleware (`auth.py`) | none | `__call__`, `_verify` | the key cache |
| signing-key cache (`auth.py`) | keys, times of fetches, a lock | `get`, `_refresh` | the identity provider |
| not modelled | | local analyzer and embedder, vector search, blob stores, in-memory adapters, model client, configuration, infrastructure | |

What is hard here: nothing holds a lock, etag or transaction from a read to the
write that follows it, so the scanner, decisions and re-extraction overwrite
each other; a change and its audit record are two writes; upload, queue and
worker may each die between two awaits and messages come again; a lock lasts
five minutes and a run thirty; stored sets are replaced row by row under
readers; and there is arithmetic with corners (months, windows, batches, the
key cache's two intervals). `PROJECT.json` lists each hazard at its line.

## Modules

`ObligationRegister` — the core. The obligations and audit containers, and
everyone who writes to them: the scanner, satisfy and waive requests, and
ingest. One action per await: `ScanStart`, `ScanFetch` (a row of `list_active`
as it is when its page arrives), `ScanPass`/`ScanWrite` (the loop body, which
writes back the *copy*), `ScanAudit`, `ScanFinish` (the notice), `ScanCrash`;
`DecideRead`, `DecideWrite`, `DecideAudit`, `DecideFail`; `Reextract` (one id
overwritten or pruned by `replace_for_contract`); `DayPasses`, which may also
happen in the middle of a scan. Ghosts count the changes that were made
(`wrote`) and record what the last notices said (`told`). A scanner's write
counts as a change when the new state differs from its copy's, which is what the
code looks at, and also when it differs from the state of the row it replaces,
which the code does not see. It is built on `DueDates`, the pure
half of the scanner: `effective_due_date`, `next_state` and the closed form of
`next_occurrence`.

`IngestPipeline` — composes the upload requests, the queue, and executions of
the worker with `run_ingest`. `upload[u]` and `at[w]` are program counters whose
values name the await that comes next; `After` is the order of the code,
`Handler` says where an exception raised at a stage is caught: the steps before
the `try` and the ones in the handler fall through to `drain`. Stored sets are
named by the delivery that stored them, which is what tells a set of one run
from a mixture, and is the refinement mapping to `Publication`. The broker (locks, counts, dead-lettering) is external and taken
from how `drain` and the queue's declaration in `resources.bicep` use it.

`Publication` — the abstract specification of ingest: a contract's clauses have
versions, a newer one is put in place only while nothing is published, and only
the version in place is published. `IngestPipeline` implements it
(`PublicationSpec`, by `INSTANCE ... WITH`): the version is the run that stored
the clauses, and what is published is the run whose obligations are stored while
the status is READY. So a retry takes READY away before it replaces either set,
and gives it back only when the obligations are of the clauses that are there.

`Replacement` — what `IngestPipeline` takes as one step seen row by row: both
`replace_for_contract` methods as upserts, a query and deletes, with failures, a
second run, and a reader of `/evidence` between any two. `ReadCopy` and
`WriteCopy` are the scanner and the decisions seen from here: they hold an
obligation they have read and upsert it whole, whatever has become of the row.

`Extraction` — `_batch` clause by clause, then the model's answers one by one
through validation and deduplication. An answer is any duty citing any set of a
small family, so that grounded, fabricated and cross-batch answers all occur.

`DocumentLayout`, `Chunker`, `ClauseWindows`, `ClauseRecords` — the first half
of `run_ingest`'s `try` block, each module extending the one before it.
`DocumentLayout` is `_to_layout`: the service found paragraphs and tables in two
collections, each element in a box, only on a page, or nowhere, and the sort
interleaves them; the true order of the document is kept beside it, so that
properties can speak of it. `Chunker` is `to_clauses` over lines of seven kinds,
with the page and the box of a chunk. The kinds are what its regular expressions
tell apart (a title, a named marker in running text, a number with text behind
it, a number alone on its line, other text, nothing) and one pair they do not: a
clause number and a number that a sentence's line happens to begin with
("30 days of ..."). A number alone on its line is a marker to `clause_marker`,
which sees the text on the lines below, and none to `_line_starts_clause`, which
sees one line. A box runs from the height of its first block to that of its
last, and a segment has the box of the block it was split from. It calls `ClauseWindows` (`_split_long`, over positions) for each group.
`ClauseRecords` embeds the chunks in batches, whose answers come in any order and
may be short, and attaches the vectors.

`MonthlyProjection` — `next_occurrence` for rules counted in months: the jump,
the correcting loop, the guard, with the Gregorian calendar.

`JwksCache` — requests in the bearer-token middleware, from their arrival through
`JwksCache.get`, its lock and `_refresh` to their answer, while the endpoint
publishes and withdraws keys and fetches fail, time out or return no key set. A
place in `Requests` is used again once its request is answered.

`MC*` modules hold TLC's instances. `*Proofs` modules hold theorems, `NatLemmas`
the facts about numbers, finite sets, sums and orders they share. Operators
commented "Mutant:" are altered forms of the definition that follows them; the
properties are known to notice the alteration, since replacing the one by the
other makes TLC report the property.

## Runs

| run | question | bounds |
|---|---|---|
| `RegisterRaces` | do two decisions, a scan, a crash and a re-extraction of one obligation leave flags true, the trail honest, closed obligations closed, and what is past due flagged in the end? | 1 obligation, 2 requests, 3 days, 1 crash, 1 re-extraction; fair |
| `RegisterScan` | is a scan complete, are dates never invented, do notices keep up? | 2 obligations of 3 timings, 1 request, 4 days, 1 crash, 1 re-extraction; obligations interchangeable |
| `IngestRetries` | through failures, kills and redelivery: nothing dropped, no overlap, and is `Publication` implemented? | 2 uploads of the same bytes, 2 workers, 3 deliveries, 1 kill; uploads and workers interchangeable |
| `IngestFaults` | and when locks run out under runs? does every message settle? | 1 upload, 2 workers, 3 deliveries, 1 kill, 2 overlaps; fair |
| `Replacing` | what do readers and reruns find while sets are replaced row by row and old copies written back? | 3 runs with up to 2 rows each, 1 failure, 1 overlap, 1 copy |
| `Extracting` | do batches cover and bridge, is what is kept grounded, unique and complete? | up to 4 clauses of 3 sizes (and some of 6), 3 duties with 2 keys, 2 answers |
| `Chunking` | is each line in one clause, in order and cut where it should be; do tables, pages, boxes, windows and vectors stay with their clause? | 3 elements of 12 kinds on 2 pages, 1 not in a box; window 12, overlap 2, batches of 2, 1 vector lost |
| `MonthlyResults` | does the loop end soon, and with the right occurrence? | 93 dates around a leap day, periods 1, 2, 3, 6, 12 |
| `KeysRotate` | do withdrawn keys run out, are new ones found, are fetches paced, is every request answered? | 2 places for requests, 1 key that is published and withdrawn and 1 forged id, TTL 3, interval 2, clock to 5, 2 rotations, 1 failure; fair |
| `ScannerReopens` | "terminal states are never revisited"? — violated | 1 obligation, 1 request |
| `OldRowsComeBack` | "must not leave the previous run's obligations beside the new ones"? — violated | as `Replacing` |
| `MonthlyDrift` | "first occurrence, projected from `anchor`"? — violated | dates of half a year |

Every bound is a constant and stands in a guard. Why they are enough: the
register's races need two writers and the victim, and each process reads and
writes one row at a time, so further obligations repeat what one shows, except
for what a scan owes its *other* rows, which `RegisterScan` has two for. Two
workers are enough for one lock to be lost, two or three deliveries (the queue
gives five) for a first, a middle and a last one; an execution's cap of two
messages (twenty in the code) is reached. Chunk, batch and window sizes keep the
code's proportions, small enough that every corner occurs: an overlong clause,
one that fits exactly, a fragment. In `KeysRotate` time runs past one whole TTL
and a refetch interval; keys do not affect each other except through the pacing
of fetches, which the forged id drives. The calendar run has all lengths of month, both
kinds of February and month ends on either side. What no bound can show is what
the theorems are for.

`CHECK_DEADLOCK FALSE` stands where the system may stop: all uploads served, a
loop returned, records stored. The register and the middleware never stop and
are checked for deadlock.

## Fairness

`RegisterRaces` assumes weak fairness of the scanner's steps together: the job is
started daily (`resources.bicep`, `cronExpression`) and a process that is not
killed goes on. Nothing forces a day, a decision, a re-extraction, a crash. A
crash is bounded, since a scan that dies every day flags nothing.

`IngestFaults` assumes weak fairness of each request's steps, each worker's
steps (KEDA starts an execution while messages wait; an execution runs) and of
the expiry of an abandoned lock. Failures of calls need no fairness and no
bound: a document may fail for ever, and the delivery count ends it.

`KeysRotate` assumes weak fairness of each request's look-up and of the response
to its fetch, and strong fairness of taking
the lock: `asyncio.Lock` wakes its waiters in the order they came, so a waiter
does not see the lock freed and taken by others for ever. A response comes
within `Slow` or the fetch times out. httpx's five seconds are for one operation
(connecting, or each read), not for the whole exchange: an endpoint that sends
its key set in dribbles could exceed them. The model takes the timeout for a
deadline of the fetch, and the bounds of `WithdrawnKeysRunOut` are in `Slow`.

## Proofs

Checked by TLAPS for all values of the constants, under the `ASSUME`s of the
modules, each of which TLC also evaluates in a run. Every safety property a
passing run checks, invariant or action property, is a theorem; so is the
refinement of `Publication`. The assumptions are about constants: finitely many
obligations, bounds that are numbers, sizes that are positive, an overlap smaller
than three quarters of a window, a slot for every row a result may have. None
limits how many contracts, workers, requests, clauses, lines or runs there are.

- `ObligationRegisterProofs`: `TypeCorrect`; `TrailNeverOverstates`, for which
  `AuditNeverOverstates` is not inductive: the strengthening `LedgerInv` says
  that a change whose record is pending (in `toAudit`, or at a request that is
  about to audit) has been written once more than it has been recorded.
  `LossesAreBounded` counts the other way (`LossInv`): the changes that are
  missing from the trail, pending ones apart, together with the copies whose row
  has another state by now (`Stale`), are at most as many as crashes, decisions
  and re-extractions. A stale copy is counted before it is written, because the
  write may turn it into a missing record; a decision or a re-extraction is what
  makes a copy stale. `FlagsStayTrue`: a verdict is true on the
  scan's day (`VerdictIsTrue`), the day only grows, and truth of a flag lasts
  (`TruthLasts`). `ClosedObligationsStay` rests on `DecidesOnOpen`: what a decision
  carries to its write was open when it was read. `DatesAreTheTerms` needs the
  same of every copy (`DatedInv`) and `NextOccurrenceInPhase`.
  `ScanLeavesNothingBehind` rests on `CopiesInv`: a copy is the row as it stands
  unless that was closed meanwhile, and a row without a copy is dealt with.
  `ReadersOfNoticesKnow` adds `NoticeInv`: of every flag that the scan under way
  did not set, the reader knows. `NextOccurrenceIsAfter`, `NextOccurrenceIsFirst`:
  the closed form for rules counted in days is the first occurrence after a day.
- `IngestPipelineProofs`: `IngestTypeCorrect` needs `Counts` (a message is put in
  the queue once, is ready only while deliveries are left, an execution at work
  has messages to go). `ReadyContractsAreComplete` rests on `StoredInv`: a run
  past a store has stored, and nothing is ever unstored, which is why even
  overlapping runs cannot break it. `RunsAreExclusive` rests on `LockInv`: while
  no lock has run out under a run, whoever works on a contract holds its lock.
  `CompletedIsReady` and the refinement `IngestPublishes` have the premise that no
  lock expires under a run. `PublicationInv` says what a run has done by the stage
  it is at: from the EXTRACTING mark on the status is not READY, past a store the
  set is its own, and a message is completed only behind the READY mark; with
  `LockInv`, which excludes a second run, every step maps to a step of
  `Publication` or a stutter. `NoContractIsDropped` rests on `AccountInv`: a row
  whose upload is over is in the queue, and a message dies of its last delivery
  only.
- `ReplacementProofs`: `OrderInv` says that runs start one after another, and
  that without overlaps the one under way is the last; `StaleInv` that what a run
  deletes is beyond its own rows. Clause 0 is thus never deleted, which is
  `NeverWithoutClauses` even with overlaps. For `RerunReplaces` `ReplaceInv` says
  how far the last run is: up to the row it writes next the rows are its own, and
  what lies beyond them is marked for deletion once it has asked. For
  `DanglingIsCaused` it is enough that the citation a reader holds was resolved by
  the run it is from (`SeenInv`): if both sets are of one run, it resolves.
- `ExtractionProofs`: `PackingInv` says where the current batch begins and ends,
  and that every group of neighbours read so far is whole in a batch; so
  `NoClauseIsLeftOut` and `GroupsAreSeenWhole`. `SizeInv` relates the length that
  `_batch` believes a batch has to its true one, for `RequestsAreBounded`.
  `KeptInv` and `HeardInv` follow an answer from its batch to the result:
  `KeptIsFromOneRequest`, `GroundedAnswersAreKept`.
- `MonthlyProjectionProofs`: `CandidateIsADate`, `GuardIsNeverReached`.
  `Progress` bounds what the loop has left: after the
  jump the candidate is less than two periods before `after`, and every step
  takes a period off. So the guard of 1200 is dead code for every rule and date.
  `ProjectionIsExact` and `DriftStaysBounded` rest on `Reached`: the candidate is
  in the month of an occurrence and not on a later day, the occurrence before it
  is in no later month than the date asked for, and up to the 28th the candidate
  is the occurrence itself.
- `ClauseRecordsProofs`, the longest. `_split_long`: `IInv` says how far the text
  is covered and that the next window begins `OVERLAP_CHARS` before that point; a
  stretch that was not covered before begins inside the new window; `AInv` that
  the next window starts a whole step after the last one. `ClausesAreSplit` shows
  that `to_clauses` calls it as `SplitSpec` says (a group's text is not empty), and
  so `WindowsAlwaysFit`, `NoTextIsLost` and `WindowsKeepAdvancing` hold of every
  document. `to_clauses`: `GInv` says of the groups so far that they hold the
  parts that are not blank, each once, in the order of the document, and that
  every part which opens a clause is the first of its group (`Gathered`); parts
  are stretches of blocks (`IsPart`) and together all of them. From this follow
  `LinesAreInOneClause`, `NumbersOpenClauses` (for a number alone on its line:
  nothing but blank lines is between it and its text, so no part ends there,
  `NumberAndText`), `OnlyMarkersCut` and `TablesStay`. `CitationsLeadHome` adds
  `CInv`: a chunk has its group's page and the first of a group's chunks its box;
  a block in the box between its ends comes after one block of the clause and
  before another (`BetweenIsInGroup`). `RecordsAreWhole` rests on `RInv`: if no
  vector is missing, each is at its chunk's place. `ChunkerTypeCorrect` is about the
  shapes, with `ShapeInv`.
- `JwksCacheProofs`: `WithdrawnKeysExpire`, `NewKeysBecomeKnown`,
  `FetchesKeepTheirPace`. The properties speak of a step; the invariant behind
  them of times: `HeldKeys` (a withdrawn key in the cache was withdrawn at most
  one response before the last success), `MissingKeys` (a published key that is
  not in the cache was published after the last fetch began, if that succeeded),
  `Clocks` (a fetch under way is younger than its timeout, a success no older than
  its attempt).

Two things about the form of these proofs. Induction is on natural numbers only,
through the set of the numbers that have a property (`Induction` in `NatLemmas`);
sums and concatenations written with `FoldLeft` are unfolded to the function on
subsets that defines them (`SumExists`, `JoinExists`), which is how sizes of
batches and groups, and the joined parts of all blocks, come within reach. And
the models sort and filter with `Ascending` and `Only` (`DocumentLayout`), which
say which sequence results, where the library's `SelectSeq` and `SortSeq` say how
to compute it and leave a prover nothing to reason from.

Model-checked only: liveness (`PastDueIsFlagged`, `EveryMessageSettles`,
`EveryRequestIsAnswered`), which TLAPS cannot prove here, and the three violated
properties.

## Where the code and its documents part

Three runs show a documented promise broken. `ScannerReopens`: a scan lists an
obligation, a person satisfies it, the scan upserts its copy: it is open again
(the scanner's docstring: "Terminal states are never revisited").
`MonthlyDrift`: a monthly duty anchored on January 30, asked for after March 1,
is given as March 28, because the loop steps from a candidate February clamped.
`OldRowsComeBack`: an obligation listed before a re-extraction is upserted after
it, over the new row of that index or, if the new run found fewer, beside the new
ones, where it stays although the contract is READY.

In the same race the audit trail loses a change without any crash: if the stale
copy that the scan stores over a satisfied row has a new date but the state it
was read with, scan() sees no transition, and the obligation is open again with
no record (`ARCHITECTURE.md:120`: "every state transition writes one row";
`obligation_scanner.py:111`: "every transition made by the deployed job is
recorded"). `AuditLossBounded` therefore allows one missing change for each
decision and each re-extraction besides the crashes; without them it is violated.

Further ones are written into the models as conditions of the properties that
do hold, and can be read there:

- `ClosedStaysClosed` excepts a decision that read the row while it was open
  (so a satisfy and a waive can both succeed, although
  `api/obligations.py:163` calls terminal states "not interchangeable"), and
  re-extraction, which writes a fresh OPEN row over a satisfied one
  (`api/obligations.py:145`: "one-way").
- `NoticesKeepUp` excepts lost notices and crashes: the next scan sees no
  transition, so the loss is for good, not "for one day" (`notify.py:68`).
- `Find` and `PutRow` are two steps, and identical bytes uploaded at once are
  extracted twice (`data/ports.py:39`). An upload that fails before `Enqueue`
  leaves a PENDING row that a duplicate is then answered with (`pipeline.py:72`).
- `Handler` sends a failure at `auditMark` past the `try`, and `Kill` runs no
  handler: in both cases the row stays EXTRACTING (`pipeline.py:128`,
  `resources.bicep:408`). `NothingIsDropped` states what remains true: a
  delivery is still to come, or the last one went wrong.
- `RunsDoNotOverlap`, `PublicationSpec`, `DoneIsReady` and
  `RerunReplacesEverything` presume that no lock expired under a run; nothing
  renews it, and it lasts a sixth of the replica's timeout.
- `DanglingHasACause` lists when a citation does not resolve, which
  `api/obligations.py:46` has as impossible.
- `GroundedIsKept` speaks of keys: two duties that differ after
  the 80th character of their description are one to `_dedupe_key`.
- `Fragment` drops a group of blocks below the minimum size, the text before the
  first marker included (`chunker.py:230` keeps it "rather than discarded").
- `EveryLineInOneClause` and `TablesFollowTheirClause` speak of elements in boxes
  and of documents with one column. An element without a box sorts to the top of
  its page, one without a region to the top of the first page, and columns are
  interleaved by height, although `blocks` is "in reading order across pages"
  (`ingest/layout.py:81`). So `CitationsPointHome` can promise a page only where
  the service knew it, and a box on that page only where the opening block has
  one: otherwise the box is on the page of the clause's first boxed block.
- A line inside a paragraph that begins with a number of up to three digits and
  a space cuts the paragraph, a sentence's line such as "30 days of the invoice
  date" included, although a false boundary "cuts a clause mid-sentence — worse
  than missing one" (`chunker.py:112`). `CutsAreAtMarkers` says what remains:
  there are no other cuts.
- A number alone on its line with its text below ("4.2", then the clause) opens a
  clause at the head of a block (`chunker.py:95`) and is overlooked inside one
  (`chunker.py:122`), where the coarse blocks that `_explode_block` is there for
  would have it. `NumberedLinesOpen` claims it for the head of a block only.
- A segment carries the box of the whole block (`chunker.py:136`, "a superset"),
  so the box of a clause may show lines of its neighbours in its first and last
  block; `CitationsPointHome` says that it shows them nowhere else. An element
  that the service gave no box may lie inside one that is shown.
- A table is kept whole by `_explode_block`, but a group with a table that is
  longer than a window is cut by `_split_long` like prose (`chunker.py:16`:
  "Tables are never split").
- `NewKeysAreFound` excepts a failed last fetch: until the refetch interval is
  over, a token with a new key is answered with 401, although an outage "must not
  read as 'no credentials'" (`tests/test_auth.py:369`). A response that is no key
  set ends the request in an exception that nothing catches (`FetchMalformed`):
  only `httpx.HTTPError` becomes a 503.
- The register shows a contract's obligations whatever its status is
  (`api/obligations.py:81`); `PublicationSpec` speaks of READY contracts.
- `FetchesArePaced` speaks of fetches that succeeded: after a failed one with
  expired keys every lookup fetches at once (`auth.py:122`).

## Left out, and why

Validation that changes no state (sizes, types, 404 and 503 answers of read
endpoints), the paths without a model or an embedder, wording and logging, white
space at window ends and the two characters between a group's blocks.
`parse_recurrence` is the kind of rule it yields. In the register, rules counted
in months are periods in days; their own arithmetic is `MonthlyProjection`. The
anchor is fixed: no code sets `effective_date`, so it is the day the contract
was created. The cron schedule runs one scan at a time; scans started by hand
beside it are not modelled. Boxes are ranges of
heights on a page, in one column: their width, and blocks side by side, are left
out. The word and the number of a named marker are on one line. Four awaits of
`run_ingest` have no step of their own (the blob's read, the embedding, the audit
records of clauses and of obligations): each is merged with a neighbour that
fails into the same handler and leaves the same state.

Components that are not modelled: the in-memory adapters (each operation is one
step, and their queue neither locks nor redelivers, so there is nothing to
interleave), blob stores (write-once puts under a fresh id), the model client,
the hashing embedder and the local analyzer (I/O or pure functions), vector
search (ranked by the database), configuration and wiring (choices at start-up).
`PROJECT.json` lists each with its reason.

## Plan

Done: the core (`ObligationRegister`, `DueDates`, `IngestPipeline`), the sets
behind it (`Replacement`, `Extraction`), the document's way to records
(`DocumentLayout`, `Chunker`, `ClauseWindows`, `ClauseRecords`), the algorithms
with corners (`MonthlyProjection`, `JwksCache`), the abstract `Publication` and
its refinement, and the theorems above.

Next, in this order:

1. "A set is replaced at once" as an abstract specification, implemented by a
   single run of `Replacement` for readers who look again when a citation dangles.
2. The register and ingest composed: `Reextract` replaced by the rows a run of
   `Replacement` writes, so that a decision races a run and not a single step
   (`ReadCopy` and `WriteCopy` are the other half of that race already).
