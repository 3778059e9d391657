------------------------ MODULE DistributedLock_proofs ------------------------
(***************************************************************************)
(* DistributedLock's invariants and its refinement of Mutex, for any       *)
(* number of clients and managers, shared or not, and any lengths of time. *)
(***************************************************************************)
EXTENDS DistributedLock, Facts

-----------------------------------------------------------------------------
(***************************************************************************)
(* The inductive invariant.  A lease on file is the taker's and carries    *)
(* its manager's id (LeaseOfTaker); a client between its SET and its       *)
(* release is the taker unless it has lost its lease (KeepersTook), and    *)
(* whoever has lost a lease is not the taker of the one on file            *)
(* (BereftLost).                                                           *)
(***************************************************************************)
LeaseOfTaker ==
    /\ Held <=> taker # Nil
    /\ Held => Get(redis, Key) = ManagerOf[taker]

KeepersTook == \A c \in Relying \ bereft : taker = c

BereftLost == taker \notin bereft

IInv == TypeOK /\ LeaseOfTaker /\ KeepersTook /\ BereftLost

\* What the proofs need of the constants.
LEMMA Params ==
  /\ LockTtl \in Nat \ {0} /\ Timeout \in Nat
  /\ \A c \in Client : ManagerOf[c] \in Manager /\ ManagerOf[c] # Nil /\ c # Nil
BY LockAssumption

\* SET NX EX takes the lease for the client or changes nothing.
LEMMA SetLockEffect ==
  ASSUME TypeOK, NEW c \in Client, SetLock(c)
  PROVE  /\ redis' \in [{Key} -> Entry(Manager)]
         /\ Held => redis' = redis /\ taker' = taker
         /\ ~Held => /\ Held' /\ Get(redis', Key) = ManagerOf[c]
                     /\ taker' = c
<1>1. redis \in [{Key} -> Entry(Manager)] /\ Key \in {Key}
  BY DEF TypeOK
<1>2. /\ SetNxEx(redis, Key, ManagerOf[c], LockTtl) \in [{Key} -> Entry(Manager)]
      /\ Held => SetNxEx(redis, Key, ManagerOf[c], LockTtl) = redis
      /\ ~Held => /\ Exists(SetNxEx(redis, Key, ManagerOf[c], LockTtl), Key)
                  /\ Get(SetNxEx(redis, Key, ManagerOf[c], LockTtl), Key) = ManagerOf[c]
  BY <1>1, Params, SetNxExEffect DEF Held
<1> QED
  BY <1>2 DEF SetLock, Held

\* Only a lease on file has an owner.
LEMMA OwnersHold ==
  ASSUME IInv, NEW c \in Client, Owns(c)
  PROVE  Held /\ taker \in Client /\ ManagerOf[taker] = ManagerOf[c]
<1>1. Held
  <2>1. redis[Key] \in Entry(Manager)
    BY DEF IInv, TypeOK
  <2> QED
    BY <2>1, Params DEF Owns, Held, Exists, Get, Entry, Absent
<1> QED
  BY <1>1 DEF IInv, LeaseOfTaker, Owns, TypeOK

\* The release script removes a lease of the client's manager, and with it
\* the lease of the peer that has taken it; or it changes nothing.
LEMMA DeleteEffect ==
  ASSUME IInv, NEW c \in Relying, Delete(c)
  PROVE  /\ redis' \in [{Key} -> Entry(Manager)]
         /\ \/ /\ Owns(c) /\ ~Held' /\ taker' = Nil
               /\ bereft' = (bereft \cup ({taker} \cap Relying)) \ {c}
            \/ /\ ~Owns(c) /\ redis' = redis /\ taker' = taker
               /\ bereft' = bereft \ {c}
<1>1. redis \in [{Key} -> Entry(Manager)]
  BY DEF IInv, TypeOK
<1>2. CASE Owns(c)
  <2>1. redis' = Del(redis, {Key}) /\ taker' = Nil
    BY <1>2 DEF Delete
  <2>2. redis' \in [{Key} -> Entry(Manager)] /\ redis'[Key] = Absent
    BY <1>1, <2>1, DelEffect
  <2>3. ~Held'
    BY <2>2 DEF Held, Exists, Absent
  <2>4. bereft' = (bereft \cup ({taker} \cap Relying)) \ {c}
    <3>1. CASE taker = c
      BY <3>1 DEF Delete, Robbed
    <3>2. CASE taker # c
      BY <1>2, <3>2 DEF Delete, Robbed
    <3> QED
      BY <3>1, <3>2
  <2> QED
    BY <1>2, <2>1, <2>2, <2>3, <2>4
<1>3. CASE ~Owns(c)
  BY <1>1, <1>3 DEF Delete, Robbed
<1> QED
  BY <1>2, <1>3

\* A second takes the lease from its taker or leaves it as it was.
LEMMA TickEffect ==
  ASSUME IInv, Tick
  PROVE  /\ redis' \in [{Key} -> Entry(Manager)]
         /\ \/ ~Held' /\ taker' = Nil /\ bereft' = bereft \cup ({taker} \cap Relying)
            \/ /\ Held' <=> Held
               /\ Get(redis', Key) = Get(redis, Key)
               /\ taker' = taker /\ bereft' = bereft
<1>1. redis \in [{Key} -> Entry(Manager)] /\ Key \in {Key} /\ redis' = Elapse(redis)
  BY DEF IInv, TypeOK, Tick
<1>2. redis' \in [{Key} -> Entry(Manager)]
  BY <1>1, ElapseEffect
<1>3. CASE Key \in Expiring(redis)
  <2>1. redis'[Key] = Absent
    BY <1>1, <1>3, ElapseEffect
  <2> QED
    BY <1>2, <1>3, <2>1 DEF Tick, Held, Exists, Absent
<1>4. CASE Key \notin Expiring(redis)
  <2>1. Get(redis', Key) = Get(redis, Key) /\ (Exists(redis', Key) <=> Exists(redis, Key))
    BY <1>1, <1>4, ElapseEffect
  <2> QED
    BY <1>2, <1>4, <2>1 DEF Tick, Held
<1> QED
  BY <1>3, <1>4

-----------------------------------------------------------------------------

LEMMA InitInv == Init => IInv
<1> SUFFICES ASSUME Init PROVE IInv
  OBVIOUS
<1>1. redis \in [{Key} -> Entry(Manager)]
  BY EmptyType DEF Init
<1>2. ~Held
  BY DEF Init, Held, Exists, Empty, Absent
<1>3. TypeOK
  BY <1>1, Params DEF Init, TypeOK
<1> QED
  BY <1>2, <1>3 DEF Init, IInv, LeaseOfTaker, KeepersTook, BereftLost, Relying

\* Acquire and Poll, with or without a reply: the client that finds no lease
\* on file is the taker of the new one.
LEMMA TakeInv ==
  ASSUME IInv, NEW c \in Client,
         Acquire(c) \/ Poll(c) \/ AcquireFails(c)
  PROVE  IInv'
<1>1. /\ c \notin Relying /\ bereft' = bereft /\ UNCHANGED Call
      /\ pc' \in [Client -> {"idle", "acquire", "waiting", "inside", "release", "dead"}]
  BY DEF Acquire, Poll, AcquireFails, Goto, Relying, IInv, TypeOK
<1>2. SetLock(c) \/ UNCHANGED Lease
  BY DEF Acquire, Poll, AcquireFails, FailsAs
<1>3. Relying \subseteq Relying' /\ Relying' \subseteq Relying \cup {c}
  BY DEF Acquire, Poll, AcquireFails, Goto, Relying, IInv, TypeOK
<1>4. Held => Relying' = Relying
  BY DEF Acquire, Poll, AcquireFails, Goto, Relying, IInv, TypeOK
<1>5. UNCHANGED Lease => Held \/ Relying' = Relying
  BY SetLockEffect DEF Acquire, Poll, AcquireFails, Goto, Relying, IInv, TypeOK, Lease, Held
<1>6. CASE UNCHANGED Lease
  <2>1. Relying' = Relying
    BY <1>4, <1>5, <1>6
  <2> QED
    BY <1>1, <1>6, <2>1
    DEF IInv, TypeOK, LeaseOfTaker, KeepersTook, BereftLost, Lease, Call, Held
<1>7. CASE SetLock(c)
  <2>1. CASE Held
    <3>1. redis' = redis /\ taker' = taker /\ Relying' = Relying
      BY <1>4, <1>7, <2>1, SetLockEffect DEF IInv
    <3> QED
      BY <1>1, <3>1
      DEF IInv, TypeOK, LeaseOfTaker, KeepersTook, BereftLost, Call, Held
  <2>2. CASE ~Held
    <3>1. /\ redis' \in [{Key} -> Entry(Manager)] /\ taker' = c
          /\ Held' /\ Get(redis', Key) = ManagerOf[c]
      BY <1>7, <2>2, SetLockEffect DEF IInv
    <3>2. Relying \subseteq bereft
      BY <2>2, Params DEF IInv, LeaseOfTaker, KeepersTook, Relying
    <3>3. TypeOK'
      BY <1>1, <1>3, <3>1 DEF IInv, TypeOK, Call
    <3>4. LeaseOfTaker'
      BY <3>1, Params DEF LeaseOfTaker, Held
    <3>5. KeepersTook' /\ BereftLost'
      BY <1>1, <1>3, <3>1, <3>2 DEF IInv, TypeOK, KeepersTook, BereftLost
    <3> QED
      BY <3>3, <3>4, <3>5 DEF IInv
  <2> QED
    BY <2>1, <2>2
<1> QED
  BY <1>2, <1>6, <1>7

LEMMA NextInv == IInv /\ [Next]_vars => IInv'
<1> SUFFICES ASSUME IInv, [Next]_vars PROVE IInv'
  OBVIOUS
<1> USE DEF Goto, Lease, Call
<1>1. ASSUME NEW c \in Client, NEW b \in BOOLEAN, Begin(c, b) PROVE IInv'
  <2>1. TypeOK' /\ Relying' = Relying
    BY <1>1, Params DEF Begin, IInv, TypeOK, Relying
  <2> QED
    BY <1>1, <2>1 DEF Begin, IInv, LeaseOfTaker, KeepersTook, BereftLost, Held
<1>2. ASSUME NEW c \in Client, Acquire(c) \/ Poll(c) \/ AcquireFails(c)
      PROVE  IInv'
  BY <1>2, TakeInv
<1>3. ASSUME NEW c \in Client, GiveUp(c) \/ Leave(c) PROVE IInv'
  <2>1. TypeOK' /\ Relying' = Relying
    BY <1>3 DEF GiveUp, Leave, IInv, TypeOK, Relying
  <2> QED
    BY <1>3, <2>1 DEF GiveUp, Leave, IInv, LeaseOfTaker, KeepersTook, BereftLost, Held
<1>4. ASSUME NEW c \in Client, Extend(c) PROVE IInv'
  <2>1. /\ redis' \in [{Key} -> Entry(Manager)] /\ (Held' <=> Held)
        /\ Get(redis', Key) = Get(redis, Key)
    <3>1. redis \in [{Key} -> Entry(Manager)] /\ Key \in {Key}
      BY DEF IInv, TypeOK
    <3>2. /\ Expire(redis, Key, LockTtl) \in [{Key} -> Entry(Manager)]
          /\ Get(Expire(redis, Key, LockTtl), Key) = Get(redis, Key)
          /\ Exists(Expire(redis, Key, LockTtl), Key) <=> Exists(redis, Key)
      BY <3>1, Params, ExpireEffect
    <3>3. redis' = redis \/ redis' = Expire(redis, Key, LockTtl)
      BY <1>4 DEF Extend
    <3> QED
      BY <3>1, <3>2, <3>3 DEF Held
  <2>2. UNCHANGED <<pc, taker, bereft, blocking, waited>> /\ Relying' = Relying
    BY <1>4 DEF Extend, Relying
  <2> QED
    BY <2>1, <2>2 DEF IInv, TypeOK, LeaseOfTaker, KeepersTook, BereftLost
<1>5. ASSUME NEW c \in Client, Release(c) \/ ReleaseFails(c) PROVE IInv'
  <2>1. /\ c \in Relying /\ Relying' = Relying \ {c} /\ UNCHANGED Call
        /\ pc' \in [Client -> {"idle", "acquire", "waiting", "inside", "release", "dead"}]
    BY <1>5 DEF Release, ReleaseFails, Relying, IInv, TypeOK
  <2>2. Delete(c) \/ (UNCHANGED Lease /\ bereft' = bereft \ {c})
    BY <1>5 DEF Release, ReleaseFails, FailsAs
  <2>3. \/ /\ redis' \in [{Key} -> Entry(Manager)] /\ ~Held' /\ taker' = Nil
           /\ bereft' = (bereft \cup ({taker} \cap Relying)) \ {c}
        \/ redis' = redis /\ taker' = taker /\ bereft' = bereft \ {c}
    BY <2>1, <2>2, DeleteEffect
  <2>4. TypeOK'
    BY <2>1, <2>3 DEF IInv, TypeOK
  <2>5. LeaseOfTaker'
    BY <2>3 DEF IInv, LeaseOfTaker, Held
  <2>6. KeepersTook' /\ BereftLost'
    BY <2>1, <2>3, Params DEF IInv, TypeOK, KeepersTook, BereftLost, Relying
  <2> QED
    BY <2>4, <2>5, <2>6 DEF IInv
<1>6. ASSUME NEW c \in Client, Crash(c) PROVE IInv'
  <2>1. TypeOK' /\ Relying' = Relying \ {c}
    BY <1>6 DEF Crash, IInv, TypeOK, Relying
  <2> QED
    BY <1>6, <2>1 DEF Crash, IInv, LeaseOfTaker, KeepersTook, BereftLost, Held
<1>7. CASE Tick
  <2>1. /\ redis' \in [{Key} -> Entry(Manager)]
        /\ \/ ~Held' /\ taker' = Nil /\ bereft' = bereft \cup ({taker} \cap Relying)
           \/ /\ Held' <=> Held
              /\ Get(redis', Key) = Get(redis, Key)
              /\ taker' = taker /\ bereft' = bereft
    BY <1>7, TickEffect
  <2>2. pc' = pc /\ blocking' = blocking /\ Relying' = Relying
    BY <1>7 DEF Tick, Relying
  <2>3. waited' \in [Client -> 0..Timeout]
    BY <1>7, Params DEF Tick, IInv, TypeOK
  <2>4. TypeOK'
    BY <2>1, <2>2, <2>3 DEF IInv, TypeOK
  <2>5. LeaseOfTaker'
    BY <2>1 DEF IInv, LeaseOfTaker
  <2>6. KeepersTook' /\ BereftLost'
    BY <2>1, <2>2, Params DEF IInv, TypeOK, KeepersTook, BereftLost, Relying
  <2> QED
    BY <2>4, <2>5, <2>6 DEF IInv
<1>8. CASE UNCHANGED vars
  BY <1>8 DEF vars, IInv, TypeOK, LeaseOfTaker, KeepersTook, BereftLost, Held, Relying
<1> QED
  BY <1>1, <1>2, <1>3, <1>4, <1>5, <1>6, <1>7, <1>8 DEF Next, Lock

LEMMA Invariant == Spec => []IInv
BY InitInv, NextInv, PTL DEF Spec

\* Every reachable state is well typed.
THEOREM TypeCorrect == Spec => []TypeOK
<1>1. IInv => TypeOK
  BY DEF IInv
<1> QED
  BY <1>1, Invariant, PTL

\* "Safe release (only owner can release)" (distributed_lock.py:30): a
\* release or an extension that changes the lease on file comes from the
\* client whose SET made it, or from one that has lost its own to a peer or
\* to time and calls the same manager.
THEOREM OnlyOwnersTouch == Spec => OnlyTakerTouches
<1> DEFINE Touched(c) == (Extend(c) \/ Release(c) \/ ReleaseFails(c)) /\ redis' # redis
           Entitled(c) == \/ taker = c
                          \/ c \in bereft /\ ManagerOf[taker] = ManagerOf[c]
<1>1. ASSUME IInv, NEW c \in Client, Touched(c)
      PROVE  Entitled(c)
  <2>1. c \in Relying
    BY <1>1 DEF Extend, Release, ReleaseFails, Relying
  <2>2. Owns(c)
    BY <1>1, <2>1, DeleteEffect DEF Extend, Release, ReleaseFails, FailsAs, Lease
  <2>3. ManagerOf[taker] = ManagerOf[c]
    BY <1>1, <2>2, OwnersHold
  <2> QED
    BY <1>1, <2>1, <2>3 DEF IInv, KeepersTook
<1>2. IInv /\ [Next]_vars => [\A c \in Client : Touched(c) => Entitled(c)]_vars
  BY <1>1
<1> QED
  BY <1>2, Invariant, PTL DEF Spec, OnlyTakerTouches

-----------------------------------------------------------------------------
(***************************************************************************)
(* The refinement of Mutex.                                                *)
(***************************************************************************)
Inside == {c \in Client : pc[c] = "inside"}
Keepers == Inside \ bereft

\* A step of the lock as one of Mutex.
MutexStep ==
    \/ \E c \in Client : \/ Keepers = {} /\ Keepers' = {c}
                         \/ c \in Keepers /\ Keepers' = Keepers \ {c}
    \/ Keepers' = Keepers

\* Whoever takes a lease finds nobody at work that has kept its own.
LEMMA EnterStep ==
  ASSUME IInv, NEW c \in Client, Acquire(c) \/ Poll(c)
  PROVE  MutexStep
<1>1. CASE Held
  BY <1>1 DEF Acquire, Poll, Goto, MutexStep, Keepers, Inside, IInv, TypeOK
<1>2. CASE ~Held
  <2>1. Keepers = {}
    BY <1>2, Params DEF IInv, LeaseOfTaker, KeepersTook, Relying, Keepers, Inside
  <2>2. c \notin bereft
    BY DEF Acquire, Poll, IInv, TypeOK, Relying
  <2>3. pc' = [pc EXCEPT ![c] = "inside"] /\ bereft' = bereft
    BY <1>2 DEF Acquire, Poll, Goto
  <2>4. Inside' = Inside \cup {c}
    BY <2>3 DEF Inside, IInv, TypeOK
  <2>5. Keepers' = {c}
    BY <2>1, <2>2, <2>3, <2>4 DEF Keepers
  <2> QED
    BY <2>1, <2>5 DEF MutexStep
<1> QED
  BY <1>1, <1>2

\* A lease that is deleted or runs out takes at most its taker out of the
\* mutex.
LEMMA LossStep ==
  ASSUME IInv, Inside' = Inside, NEW lost \in SUBSET {taker}, NEW done,
         done \cap Inside = {}, bereft' = (bereft \cup (lost \cap Relying)) \ done
  PROVE  MutexStep
<1>1. Keepers' = Keepers \ lost
  BY DEF Keepers, Inside, Relying
<1>2. CASE taker \in lost \cap Keepers
  <2>1. taker \in Client /\ Keepers' = Keepers \ {taker}
    BY <1>1, <1>2 DEF Keepers, Inside
  <2> QED
    BY <1>2, <2>1 DEF MutexStep
<1>3. CASE taker \notin lost \cap Keepers
  BY <1>1, <1>3 DEF MutexStep
<1> QED
  BY <1>2, <1>3

LEMMA NextStep == IInv /\ [Next]_vars => MutexStep
<1> SUFFICES ASSUME IInv, [Next]_vars PROVE MutexStep
  OBVIOUS
<1> USE DEF Goto, Lease, Call
<1>1. ASSUME NEW c \in Client, NEW b \in BOOLEAN, Begin(c, b) PROVE MutexStep
  BY <1>1 DEF Begin, MutexStep, Keepers, Inside, IInv, TypeOK
<1>2. ASSUME NEW c \in Client, Acquire(c) \/ Poll(c) PROVE MutexStep
  BY <1>2, EnterStep
<1>3. ASSUME NEW c \in Client, GiveUp(c) \/ AcquireFails(c) PROVE MutexStep
  BY <1>3 DEF GiveUp, AcquireFails, MutexStep, Keepers, Inside, IInv, TypeOK
<1>4. ASSUME NEW c \in Client, Extend(c) PROVE MutexStep
  BY <1>4 DEF Extend, MutexStep, Keepers, Inside
<1>5. ASSUME NEW c \in Client, Leave(c) PROVE MutexStep
  <2>1. Inside' = Inside \ {c} /\ bereft' = bereft
    BY <1>5 DEF Leave, Inside, IInv, TypeOK
  <2> QED
    BY <2>1 DEF MutexStep, Keepers
<1>6. ASSUME NEW c \in Client, Release(c) \/ ReleaseFails(c) PROVE MutexStep
  <2>1. c \in Relying /\ {c} \cap Inside = {} /\ Inside' = Inside
    BY <1>6 DEF Release, ReleaseFails, Relying, Inside, IInv, TypeOK
  <2>2. Delete(c) \/ bereft' = bereft \ {c}
    BY <1>6 DEF Release, ReleaseFails, FailsAs
  <2>3. \/ bereft' = (bereft \cup ({taker} \cap Relying)) \ {c}
        \/ bereft' = (bereft \cup ({} \cap Relying)) \ {c}
    BY <2>1, <2>2, DeleteEffect
  <2> QED
    BY <2>1, <2>3, LossStep
<1>7. ASSUME NEW c \in Client, Crash(c) PROVE MutexStep
  <2>1. Inside' = Inside \ {c} /\ bereft' = bereft \ {c}
    BY <1>7 DEF Crash, Inside, IInv, TypeOK
  <2>2. Keepers' = Keepers \ {c}
    BY <2>1 DEF Keepers
  <2> QED
    BY <2>2 DEF MutexStep
<1>8. CASE Tick
  <2>1. Inside' = Inside
    BY <1>8 DEF Tick, Inside
  <2>2. CASE bereft' = bereft \cup ({taker} \cap Relying)
    <3>1. /\ bereft' = (bereft \cup ({taker} \cap Relying)) \ {}
          /\ {} \cap Inside = {}
      BY <2>2
    <3> QED
      BY <2>1, <3>1, LossStep
  <2>3. CASE bereft' = bereft
    BY <2>1, <2>3 DEF MutexStep, Keepers
  <2> QED
    BY <1>8, <2>2, <2>3, TickEffect
<1>9. CASE UNCHANGED vars
  BY <1>9 DEF vars, MutexStep, Keepers, Inside
<1> QED
  BY <1>1, <1>2, <1>3, <1>4, <1>5, <1>6, <1>7, <1>8, <1>9 DEF Next, Lock

\* lock() is a lock for every client that keeps its lease, whatever late
\* bodies, lost replies and dead clients do: the specification implements
\* Mutex, with those that are in their bodies and hold their lease inside.
THEOREM MutualExclusion == Spec => IsMutex
<1>1. Init => Promise!Init
  BY DEF Init, Promise!Init
<1>2. IInv /\ [Next]_vars => [Promise!Next]_({c \in Client : pc[c] = "inside"} \ bereft)
  BY NextStep
  DEF MutexStep, Keepers, Inside, Promise!Next, Promise!Enter, Promise!Leave
<1> QED
  BY <1>1, <1>2, Invariant, PTL DEF Spec, IsMutex, Promise!Spec
=============================================================================
