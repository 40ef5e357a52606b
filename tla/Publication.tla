----------------------------- MODULE Publication -----------------------------
(***************************************************************************)
(* What the status of a contract promises: while it is READY, the          *)
(* obligations that are stored were extracted from the very clauses that   *)
(* are stored, so that whoever reads both finds them matching.             *)
(* A set of clauses is named by its version; a newer one may be put in     *)
(* place only while nothing is published, and only the set in place can be *)
(* published.                                                              *)
(***************************************************************************)
EXTENDS Integers

CONSTANTS Contracts, Versions

Nothing == 0

VARIABLES
  latest,    \* the version of each contract's clauses
  published  \* the version its status vouches for, or Nothing

vars == <<latest, published>>

Init ==
  /\ latest = [c \in Contracts |-> Nothing]
  /\ published = latest

Prepare(c) ==
  /\ published[c] = Nothing
  /\ \E v \in Versions : v > latest[c] /\ latest' = [latest EXCEPT ![c] = v]
  /\ UNCHANGED published

Publish(c) ==
  /\ published[c] = Nothing /\ latest[c] # Nothing
  /\ published' = [published EXCEPT ![c] = latest[c]]
  /\ UNCHANGED latest

Withdraw(c) ==
  /\ published[c] # Nothing
  /\ published' = [published EXCEPT ![c] = Nothing]
  /\ UNCHANGED latest

Next == \E c \in Contracts : Prepare(c) \/ Publish(c) \/ Withdraw(c)

Spec == Init /\ [][Next]_vars
=============================================================================
