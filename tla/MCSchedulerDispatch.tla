------------------------- MODULE MCSchedulerDispatch -------------------------
(***************************************************************************)
(* SchedulerDispatch for TLC.  A minute is four units, a lock lasts three. *)
(***************************************************************************)
EXTENDS SchedulerDispatch, TLC

Symmetry == Permutations(Instance)
=============================================================================
