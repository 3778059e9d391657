-------------------------------- MODULE Mutex --------------------------------
(***************************************************************************)
(* What a lock promises: clients enter one after the other.                *)
(***************************************************************************)
CONSTANT Client
VARIABLE inside         \* the clients that rely on the lock

Init == inside = {}

Enter(c) == inside = {} /\ inside' = {c}
Leave(c) == c \in inside /\ inside' = inside \ {c}

Next == \E c \in Client : Enter(c) \/ Leave(c)

Spec == Init /\ [][Next]_inside
=============================================================================
