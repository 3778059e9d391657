----------------------------- MODULE MCJobRoutes -----------------------------
(***************************************************************************)
(* JobRoutes for TLC.                                                      *)
(***************************************************************************)
EXTENDS JobRoutes, TLC

OwnNames == [j \in Job |-> j]
OneName == [j \in Job |-> "report"]

ProcessSymmetry == Permutations(Process)
RequestSymmetry == Permutations(Request)
Symmetry == ProcessSymmetry \cup RequestSymmetry
=============================================================================
