-------------------------- MODULE MCIngestPipeline --------------------------
(* Small instances of IngestPipeline for TLC. *)
EXTENDS IngestPipeline, TLC

CONSTANTS u1, u2, w1, w2, pdf

SomeUploads == {u1, u2}
SomeWorkers == {w1, w2}

\* Two uploads of the same bytes; a single upload.
SameContent == [u \in SomeUploads |-> pdf]
OneContent == [u \in {u1} |-> pdf]

AllAreAlike == Permutations(SomeWorkers) \cup Permutations(SomeUploads)
=============================================================================
