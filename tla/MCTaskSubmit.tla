---------------------------- MODULE MCTaskSubmit ----------------------------
(***************************************************************************)
(* TaskSubmit for TLC.                                                     *)
(***************************************************************************)
EXTENDS TaskSubmit, TLC

OneKey == {<<"key", "order">>}

\* An ordinary key, and the key whose result is the ordinary key's lock.
NestedKeys == {<<"key", "order">>, <<"lock", <<"key", "order">>>>}

RequestSymmetry == Permutations(Request)
=============================================================================
