-------------------------- MODULE MCDistributedLock --------------------------
(***************************************************************************)
(* DistributedLock for TLC.                                                *)
(***************************************************************************)
EXTENDS DistributedLock

CONSTANT c3

\* Two clients of one process call its manager, the third has its own.
SharedManager == [c \in Client |-> IF c = c3 THEN "m2" ELSE "m1"]
=============================================================================
