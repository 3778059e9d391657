------------------------ MODULE IdempotencyService ------------------------
(***************************************************************************)
(* app/core/idempotency/service.py: the record of an idempotency key is    *)
(* two Redis keys, a lock taken with SET NX EX before the work and a       *)
(* result stored after it.                                                 *)
(*                                                                         *)
(* Both names carry the prefix "idem:" (left out here), and the lock's     *)
(* name is the key's own name prefixed with "lock:".  Nothing keeps a      *)
(* caller from using "lock:x" as a key, whose RESULT is then the LOCK of   *)
(* "x": PlainLock says that no key in use nests that way with the key at   *)
(* hand, PlainKeys that no two do.                                         *)
(***************************************************************************)
EXTENDS Redis

CONSTANTS IdemKey,      \* the idempotency keys callers use
          Owner         \* who acquires locks and stores results

VARIABLE redis

ResultKey(k) == k
LockKey(k) == <<"lock", k>>

RedisKey == IdemKey \cup {LockKey(k) : k \in IdemKey}

PlainLock(k) == \A l \in IdemKey : LockKey(k) # ResultKey(l)
PlainKeys == \A k \in IdemKey : PlainLock(k)

(***************************************************************************)
(* What the two keys hold.  The lock's JSON has a status and an            *)
(* acquired_at time stamp, which tells one acquisition from another and    *)
(* which no code reads back; the acquirer stands for it.  The result names *)
(* the task it is about.                                                   *)
(***************************************************************************)
Processing(o) == <<"processing", o>>
ResultOf(o) == <<"result", o>>
Value == {Processing(o) : o \in Owner} \cup {ResultOf(o) : o \in Owner}

ASSUME NilIsNoValue == Nil \notin Value

RedisType == redis \in [RedisKey -> Entry(Value)]

Locked(k) == Exists(redis, LockKey(k))
HasResult(k) == Exists(redis, ResultKey(k))

\* Mutant: SET NX without an expiry.
acquireForever(k, o, ttl) ==
    redis' = SetNxEx(redis, LockKey(k), Processing(o), Persistent)

\* acquire: SET NX EX, the caller tells from Locked(k) whether it won.
acquire(k, o, ttl) == redis' = SetNxEx(redis, LockKey(k), Processing(o), ttl)

\* get_result
get_result(k) == Get(redis, ResultKey(k))

\* Mutant: the result is deleted along with the lock.
set_resultDropsRecord(k, o, ttl) ==
    redis' = Del(SetEx(redis, ResultKey(k), ResultOf(o), ttl),
                 {ResultKey(k), LockKey(k)})

\* set_result: one MULTI block that stores the result and drops the lock,
\* whoever holds it.
set_result(k, o, ttl) ==
    redis' = Del(SetEx(redis, ResultKey(k), ResultOf(o), ttl), {LockKey(k)})

\* release: DEL of the lock, whoever holds it.
release(k) == redis' = Del(redis, {LockKey(k)})

(***************************************************************************)
(* The operations no route calls; they complete the service's interface.   *)
(***************************************************************************)

\* is_duplicate: EXISTS of the two names.
is_duplicate(k) == Exists(redis, ResultKey(k)) \/ Exists(redis, LockKey(k))

\* delete: the lock goes with the result, whoever is at work on the key.
delete(k) == redis' = Del(redis, {ResultKey(k), LockKey(k)})

\* extend_ttl is two commands.  It goes on to the second when the first has
\* answered more than 0, and answers True whatever the second finds; extra
\* comes on top of the seconds that the first was told.
current_ttl(k) == redis[ResultKey(k)].ttl
extend_ttl(k, current, extra) ==
    \/ current > 0 /\ redis' = Expire(redis, ResultKey(k), current + extra)
    \/ current <= 0 /\ UNCHANGED redis
============================================================================
