---------------------------- MODULE MCSharedKeys ----------------------------
(***************************************************************************)
(* SharedKeys for TLC.                                                     *)
(***************************************************************************)
EXTENDS SharedKeys, TLC

OneKey == {<<"key", "order">>}
SameKey == [t \in Task |-> <<"key", "order">>]
SkipOrCached == [t \in Task |-> {"skip", "return_cached"}]

Symmetry == Permutations(Request) \cup Permutations(Worker)
=============================================================================
