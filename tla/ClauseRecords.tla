---------------------------- MODULE ClauseRecords ----------------------------
(***************************************************************************)
(* The first half of run_ingest's try block, from the analyzed document to *)
(* the records that replace the contract's clauses: the chunks (Chunker)   *)
(* are embedded in batches and each record is given its vector.  The       *)
(* service answers a batch with vectors in any order, each with the index  *)
(* of its text, and may leave one out.                                     *)
(***************************************************************************)
EXTENDS Chunker

CONSTANTS
  EMBED_BATCH_SIZE,
  MaxLost           \* bound: vectors left out

ASSUME BatchAssumption == EMBED_BATCH_SIZE \in Nat \ {0} /\ MaxLost \in Nat

VARIABLES
  embedded,  \* texts sent so far
  vectors,   \* a vector is the position of the chunk whose text it is of
  lost,      \* vectors left out so far
  records,   \* the clauses with their ordinals and vectors
  ingest     \* "running", "stored" or "raised"

embedVars == <<embedded, vectors, lost>>
recordVars == <<embedVars, records, ingest, vars>>

RecordsInit ==
  /\ Init
  /\ embedded = 0 /\ vectors = <<>> /\ lost = 0
  /\ records = <<>> /\ ingest = "running"

Prepare == Next /\ UNCHANGED <<embedVars, records, ingest>>

Chunked == pc = "chunks" /\ ingest = "running"

\* A document without clauses is a failure.
Refuse ==
  /\ Chunked /\ chunks = <<>> /\ ingest' = "raised"
  /\ UNCHANGED <<vars, embedVars, records>>

BatchSize ==
  IF embedded + EMBED_BATCH_SIZE < Len(chunks) THEN EMBED_BATCH_SIZE ELSE Len(chunks) - embedded

\* response.data: indexes into the batch, in the order of arrival.
Responses ==
  {data \in BoundedSeq(0..(BatchSize - 1), BatchSize) :
     IsInjective(data) /\ lost + BatchSize - Len(data) <= MaxLost}

\* Mutant: arrival order is trusted.
AsArrived(data) == data

ByIndex(data) == Ascending(Range(data))

EmbedBatch ==
  /\ Chunked /\ embedded < Len(chunks)
  /\ \E data \in Responses :
       /\ vectors' = vectors \o [k \in DOMAIN data |-> embedded + ByIndex(data)[k] + 1]
       /\ lost' = lost + BatchSize - Len(data)
  /\ embedded' = embedded + BatchSize
  /\ UNCHANGED <<vars, records, ingest>>

\* The number of vectors is checked; the records that result are stored.
Attach ==
  /\ Chunked /\ chunks # <<>> /\ embedded = Len(chunks)
  /\ IF Len(vectors) # Len(chunks)
     THEN ingest' = "raised" /\ UNCHANGED records
     ELSE /\ records' = [i \in DOMAIN chunks |->
                          [ordinal |-> chunks[i].ordinal, vector |-> vectors[i]]]
          /\ ingest' = "stored"
  /\ UNCHANGED <<vars, embedVars>>

\* The service fails.
EmbedRaises ==
  /\ Chunked /\ embedded < Len(chunks) /\ ingest' = "raised"
  /\ UNCHANGED <<vars, embedVars, records>>

RecordsNext == Prepare \/ Refuse \/ EmbedBatch \/ Attach \/ EmbedRaises

RecordsSpec == RecordsInit /\ [][RecordsNext]_recordVars

-----------------------------------------------------------------------------
(* Properties *)

\* What is stored can be cited and found: there is a clause, ordinals (which make
\* the clauses' ids) count up from zero, and a clause's vector is of its own text,
\* in whatever order vectors arrive and whether or not one is missing.
RecordsHaveTheirVectors ==
  ingest = "stored" =>
    /\ records # <<>> /\ Len(records) = Len(chunks)
    /\ \A i \in DOMAIN records : records[i] = [ordinal |-> i - 1, vector |-> i]
=============================================================================
