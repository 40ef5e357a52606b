---------------------------- MODULE MCExtraction ----------------------------
(* Small instances of Extraction for TLC. *)
EXTENDS Extraction, TLC

CONSTANTS d1, d2, d3

\* Every document of up to four clauses, each short, middling or too long for
\* any batch with another; and longer ones of short and of too long clauses.
ShortAndLong == UNION {[1..n -> {1, 4, 9}] : n \in 1..4}
                \cup {[i \in 1..6 |-> 1], [i \in 1..6 |-> IF i = 3 THEN 9 ELSE 1],
                      [i \in 1..6 |-> 4], [i \in 1..6 |-> 9]}

\* The descriptions of d1 and d3 begin alike.
TwoKeys == [d \in {d1, d2, d3} |-> IF d = d3 THEN d1 ELSE d]

\* Grounded early, late, in an overlap, in two batches at most, and nowhere.
SomeCites == {{1}, {4}, {2, 3}, {1, 4}, {Fabricated}, {3, Fabricated}}
=============================================================================
