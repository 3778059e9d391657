--------------------------- MODULE DistributedLock ---------------------------
(***************************************************************************)
(* app/core/scheduler/distributed_lock.py: DistributedLockManager, a lease *)
(* in Redis whose value is the manager's instance_id, and lock(), which    *)
(* holds it around a body.  Nothing in the program calls it yet, so the    *)
(* clients here are those its docstrings foresee.                          *)
(*                                                                         *)
(* One lock name is modelled: two names share nothing.                     *)
(***************************************************************************)
EXTENDS Redis

CONSTANTS Client,
          Manager,
          ManagerOf,    \* the manager each client calls
          LockTtl,      \* lock_ttl
          Timeout,      \* timeout of a blocking acquire
          Faults        \* what may go wrong, see AllFaults

(***************************************************************************)
(*  redis        a call fails and has no effect                            *)
(*  lost_reply   a call fails but its effect has happened                  *)
(*  crash        a client dies                                             *)
(*  late         the lock runs out while a body is at work                 *)
(***************************************************************************)
AllFaults == {"redis", "lost_reply", "crash", "late"}

ASSUME LockAssumption ==
    /\ ManagerOf \in [Client -> Manager]
    /\ Nil \notin Manager \cup Client
    /\ LockTtl \in Nat \ {0} /\ Timeout \in Nat
    /\ Faults \subseteq AllFaults

VARIABLES redis,        \* the one key
          pc,           \* each client: where it is in lock()
          blocking,     \* ... the argument of its call
          waited,       \* ... seconds since it began to poll
          taker,        \* history: the client whose SET took the lock
          bereft        \* history: clients between their SET and their release
                        \* whose lease ran out, or was deleted by a peer

vars == <<redis, pc, blocking, waited, taker, bereft>>

Key == "scheduler:lock:job"
Held == Exists(redis, Key)
Owns(c) == Get(redis, Key) = ManagerOf[c]
Relying == {c \in Client : pc[c] \in {"inside", "release"}}

TypeOK ==
    /\ redis \in [{Key} -> Entry(Manager)]
    /\ pc \in [Client -> {"idle", "acquire", "waiting", "inside", "release", "dead"}]
    /\ blocking \in [Client -> BOOLEAN]
    /\ waited \in [Client -> 0..Timeout]
    /\ taker \in Client \cup {Nil}
    /\ bereft \in SUBSET Relying

Init ==
    /\ redis = Empty({Key})
    /\ pc = [c \in Client |-> "idle"]
    /\ blocking = [c \in Client |-> FALSE]
    /\ waited = [c \in Client |-> 0]
    /\ taker = Nil
    /\ bereft = {}

Goto(c, place) == pc' = [pc EXCEPT ![c] = place]
Lease == <<redis, taker>>
Call == <<blocking, waited>>

FailsAs(effect, none) ==
    \/ "redis" \in Faults /\ none
    \/ "lost_reply" \in Faults /\ effect

-----------------------------------------------------------------------------

Begin(c, b) ==
    /\ pc[c] = "idle"
    /\ blocking' = [blocking EXCEPT ![c] = b]
    /\ waited' = [waited EXCEPT ![c] = 0]
    /\ Goto(c, "acquire")
    /\ UNCHANGED <<Lease, bereft>>

\* Mutant: a ttl of 0 is taken at its word, not as the default.
SetLockZeroTtl(c) ==
    /\ redis' = SetNxEx(redis, Key, ManagerOf[c], 0)
    /\ taker' = IF Held THEN taker ELSE c

SetLock(c) ==
    /\ redis' = SetNxEx(redis, Key, ManagerOf[c], LockTtl)
    /\ taker' = IF Held THEN taker ELSE c

\* The first try; without blocking, lock() raises when it fails.
Acquire(c) ==
    /\ pc[c] = "acquire"
    /\ SetLock(c)
    /\ \/ ~Held /\ Goto(c, "inside")
       \/ Held /\ blocking[c] /\ Goto(c, "waiting")
       \/ Held /\ ~blocking[c] /\ Goto(c, "idle")
    /\ UNCHANGED <<Call, bereft>>

\* Mutant: each try begins the wait anew.
PollAnew(c) ==
    /\ pc[c] = "waiting"
    /\ SetLock(c)
    /\ Goto(c, IF Held THEN "waiting" ELSE "inside")
    /\ waited' = [waited EXCEPT ![c] = 0]
    /\ UNCHANGED <<blocking, bereft>>

\* Every tenth of a second until the timeout.
Poll(c) ==
    /\ pc[c] = "waiting"
    /\ SetLock(c)
    /\ Goto(c, IF Held THEN "waiting" ELSE "inside")
    /\ UNCHANGED <<Call, bereft>>

GiveUp(c) ==
    /\ pc[c] = "waiting" /\ waited[c] = Timeout
    /\ Goto(c, "idle")
    /\ UNCHANGED <<Lease, Call, bereft>>

\* The exception leaves lock() before its try.
AcquireFails(c) ==
    /\ pc[c] \in {"acquire", "waiting"}
    /\ FailsAs(SetLock(c), UNCHANGED Lease)
    /\ Goto(c, "idle")
    /\ UNCHANGED <<Call, bereft>>

\* Mutant: EXPIRE without the owner's check.
ExtendUnchecked(c) ==
    /\ pc[c] = "inside"
    /\ redis' = Expire(redis, Key, LockTtl)
    /\ UNCHANGED <<pc, taker, bereft, Call>>

\* The script: EXPIRE if the value is this instance's id.
Extend(c) ==
    /\ pc[c] = "inside"
    /\ redis' = IF Owns(c) THEN Expire(redis, Key, LockTtl) ELSE redis
    /\ UNCHANGED <<pc, taker, bereft, Call>>

\* The body ends, by an exception or not; the release is to come.
Leave(c) ==
    /\ pc[c] = "inside"
    /\ Goto(c, "release")
    /\ UNCHANGED <<Lease, Call, bereft>>

\* The owner is the manager: a client's release may take the lease of a peer
\* that calls the same manager.
Robbed(c) == IF Owns(c) /\ taker # c THEN {taker} \cap Relying ELSE {}

\* Mutant: DEL without the owner's check.
DeleteAny(c) ==
    /\ redis' = Del(redis, {Key})
    /\ taker' = Nil
    /\ bereft' = (bereft \cup Robbed(c)) \ {c}

\* The script: DEL if the value is this instance's id.
Delete(c) ==
    /\ redis' = IF Owns(c) THEN Del(redis, {Key}) ELSE redis
    /\ taker' = IF Owns(c) THEN Nil ELSE taker
    /\ bereft' = (bereft \cup Robbed(c)) \ {c}

Release(c) ==
    /\ pc[c] = "release"
    /\ Delete(c)
    /\ Goto(c, "idle")
    /\ UNCHANGED Call

ReleaseFails(c) ==
    /\ pc[c] = "release"
    /\ FailsAs(Delete(c), UNCHANGED Lease /\ bereft' = bereft \ {c})
    /\ Goto(c, "idle")
    /\ UNCHANGED Call

Crash(c) ==
    /\ "crash" \in Faults
    /\ pc[c] \notin {"idle", "dead"}
    /\ Goto(c, "dead")
    /\ bereft' = bereft \ {c}
    /\ UNCHANGED <<Lease, Call>>

\* A second passes.  Unless bodies may be late, a body's lock does not run
\* out; it may between the end of the body and the release.
Tick ==
    /\ SomeExpiry(redis) \/ \E c \in Client : pc[c] = "waiting" /\ waited[c] < Timeout
    /\ "late" \in Faults \/ \A c \in Client : pc[c] = "inside" => Key \notin Expiring(redis)
    /\ redis' = Elapse(redis)
    /\ taker' = IF Key \in Expiring(redis) THEN Nil ELSE taker
    /\ bereft' = IF Key \in Expiring(redis) THEN bereft \cup ({taker} \cap Relying)
                 ELSE bereft
    /\ waited' = [c \in Client |-> IF pc[c] = "waiting" /\ waited[c] < Timeout
                                   THEN waited[c] + 1 ELSE waited[c]]
    /\ UNCHANGED <<pc, blocking>>

-----------------------------------------------------------------------------

Lock(c) ==
    \/ Acquire(c) \/ Poll(c) \/ GiveUp(c) \/ AcquireFails(c)
    \/ Leave(c) \/ Release(c) \/ ReleaseFails(c)

Next ==
    \/ \E c \in Client : \/ \E b \in BOOLEAN : Begin(c, b)
                         \/ Lock(c) \/ Extend(c) \/ Crash(c)
    \/ Tick

Spec == Init /\ [][Next]_vars

\* Bodies end, calls return or fail, a wait that is over ends, time passes.
Fairness ==
    /\ WF_vars(Tick)
    /\ \A c \in Client : /\ WF_vars(Lock(c) /\ pc[c] # "waiting")
                         /\ WF_vars(GiveUp(c))

FairSpec == Spec /\ Fairness

-----------------------------------------------------------------------------
(***************************************************************************)
(* Properties.                                                             *)
(***************************************************************************)

\* lock() is a lock for every client that keeps its lease: they are in their
\* bodies one after the other, whatever those do that have outlasted theirs.
\* A release or an extension that comes when the lease has gone to another
\* manager's client must not take it away.
Promise ==
    INSTANCE Mutex
    WITH inside <- {c \in Client : pc[c] = "inside"} \ bereft
IsMutex == Promise!Spec

\* "Safe release (only owner can release)" (distributed_lock.py:30), and
\* only the owner can extend - but the owner is a manager, not a caller.  What
\* a client does to a lease on file it does to the one its own SET took, or,
\* having lost that one, to the lease of a peer that calls the same manager.
OnlyTakerTouches ==
    [][\A c \in Client :
         (Extend(c) \/ Release(c) \/ ReleaseFails(c)) /\ redis' # redis
           => \/ taker = c
              \/ c \in bereft /\ ManagerOf[taker] = ManagerOf[c]]_vars

\* A blocking acquire comes back, with the lock or without.
WaitEnds == \A c \in Client : pc[c] = "waiting" ~> pc[c] # "waiting"
=============================================================================
