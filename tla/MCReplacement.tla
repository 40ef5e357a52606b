---------------------------- MODULE MCReplacement ----------------------------
(* Small instances of Replacement for TLC: results that grow, shrink, and have *)
(* no obligations at all.                                                      *)
EXTENDS Replacement

Found(clauses, cites) == [clauses |-> clauses, cites |-> cites]

FewOrMany == {Found(1, <<0>>), Found(2, <<1, 0>>), Found(2, <<>>)}
=============================================================================
