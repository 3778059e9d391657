-------------------------- MODULE MCIdempotentTask --------------------------
(***************************************************************************)
(* IdempotentTask for TLC.                                                 *)
(***************************************************************************)
EXTENDS IdempotentTask, IdempotencyKeys, TLC

CONSTANTS t1, t2

\* Two calls, one with a UUID and one with its text, that get one key.
TextOf == [a \in {"UUID(7)", "7"} |-> "7"]
CallOf(t) == [task |-> "process_order", kwargs |-> NotGiven,
              args |-> <<IF t = t1 THEN "UUID(7)" ELSE "7">>]
GeneratedKey == [t \in Task |-> WrapperKey(NotGiven, NotGiven, CallOf(t), 0)]
GeneratedKeys == {GeneratedKey[t] : t \in Task}

AllSkip == [t \in Task |-> {"skip"}]
AllModes == t1 :> {"skip", "return_cached"} @@ t2 :> {"raise"}

WorkerSymmetry == Permutations(Worker)
=============================================================================
