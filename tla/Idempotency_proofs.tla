-------------------------- MODULE Idempotency_proofs --------------------------
(***************************************************************************)
(* The two halves of app/core/idempotency.  The service: what its          *)
(* operations do to the store, stated once for the proofs about their      *)
(* callers.  The keys: what the generated ones tell apart, for all calls,  *)
(* times and windows.                                                      *)
(***************************************************************************)
EXTENDS IdempotencyService, IdempotencyKeys, Facts

\* Two keys have two locks.
LEMMA LockKeyInjective ==
  \A k, l : LockKey(k) = LockKey(l) => k = l
BY DEF LockKey

\* The lock and the result of a key are names in the store.
LEMMA KeysInStore ==
  ASSUME NEW k \in IdemKey
  PROVE  LockKey(k) \in RedisKey /\ ResultKey(k) \in RedisKey
BY DEF RedisKey, ResultKey

\* A lock's value and a result's value are never mistaken for one another,
\* nor for the value of a missing key, and each names one owner.
LEMMA ValuesDiffer ==
  /\ \A o, p : Processing(o) # ResultOf(p)
  /\ \A o, p : Processing(o) = Processing(p) => o = p
  /\ \A o, p : ResultOf(o) = ResultOf(p) => o = p
  /\ \A o \in Owner : Processing(o) # Nil /\ ResultOf(o) # Nil
  /\ \A o \in Owner : Processing(o) \in Value /\ ResultOf(o) \in Value
BY NilIsNoValue DEF Processing, ResultOf, Value

\* acquire creates the lock or changes nothing, and touches no other name.
LEMMA AcquireEffect ==
  ASSUME RedisType, NEW k \in IdemKey, NEW o \in Owner, NEW n \in Nat \ {0},
         acquire(k, o, n)
  PROVE  /\ RedisType'
         /\ Locked(k) => redis' = redis
         /\ ~Locked(k) => /\ Exists(redis', LockKey(k))
                          /\ Get(redis', LockKey(k)) = Processing(o)
         /\ \A m \in RedisKey : m # LockKey(k) => redis'[m] = redis[m]
BY KeysInStore, ValuesDiffer, SetNxExEffect DEF acquire, RedisType, Locked

\* release removes the lock and touches no other name.
LEMMA ReleaseEffect ==
  ASSUME RedisType, NEW k \in IdemKey, release(k)
  PROVE  /\ RedisType'
         /\ redis'[LockKey(k)] = Absent
         /\ \A m \in RedisKey : m # LockKey(k) => redis'[m] = redis[m]
BY KeysInStore, DelEffect DEF release, RedisType

\* set_result removes the lock and, unless it is the same name, writes the
\* result; it touches no third name.
LEMMA SetResultEffect ==
  ASSUME RedisType, NEW k \in IdemKey, NEW o \in Owner, NEW n \in Nat \ {0},
         set_result(k, o, n)
  PROVE  /\ RedisType'
         /\ redis'[LockKey(k)] = Absent
         /\ LockKey(k) # ResultKey(k) =>
              /\ Exists(redis', ResultKey(k))
              /\ Get(redis', ResultKey(k)) = ResultOf(o)
         /\ \A m \in RedisKey :
              m # LockKey(k) /\ m # ResultKey(k) => redis'[m] = redis[m]
<1> DEFINE mid == SetEx(redis, ResultKey(k), ResultOf(o), n)
<1>1. ResultOf(o) \in Value /\ ResultKey(k) \in RedisKey /\ LockKey(k) \in RedisKey
  BY KeysInStore, ValuesDiffer
<1>2. /\ mid \in [RedisKey -> Entry(Value)]
      /\ Exists(mid, ResultKey(k))
      /\ Get(mid, ResultKey(k)) = ResultOf(o)
      /\ \A m \in RedisKey : m # ResultKey(k) => mid[m] = redis[m]
  BY <1>1, SetExEffect DEF RedisType
<1>3. redis' = Del(mid, {LockKey(k)})
  BY DEF set_result
<1> HIDE DEF mid
<1>4. /\ redis' \in [RedisKey -> Entry(Value)]
      /\ redis'[LockKey(k)] = Absent
      /\ \A m \in RedisKey : m # LockKey(k) => redis'[m] = mid[m]
  BY <1>1, <1>2, <1>3, DelEffect
<1> QED
  BY <1>1, <1>2, <1>4 DEF RedisType, Exists, Get

\* A second that passes removes the names that expire, and no other.
LEMMA TickEffect ==
  ASSUME RedisType, redis' = Elapse(redis)
  PROVE  /\ RedisType'
         /\ \A m \in RedisKey : m \in Expiring(redis) => redis'[m] = Absent
         /\ \A m \in RedisKey : m \notin Expiring(redis) =>
              /\ Get(redis', m) = Get(redis, m)
              /\ Exists(redis', m) <=> Exists(redis, m)
BY ElapseEffect DEF RedisType

(***************************************************************************)
(* The operations no route calls.                                          *)
(***************************************************************************)

\* delete (service.py:179-192) undoes acquire and set_result: afterwards the
\* key counts as new, and the record of any key it does not nest with is as
\* it was.
THEOREM DeleteForgets ==
  ASSUME RedisType, NEW k \in IdemKey, delete(k)
  PROVE  /\ RedisType'
         /\ ~is_duplicate(k)'
         /\ \A l \in IdemKey \ {k} :
              (PlainKeys => /\ redis'[ResultKey(l)] = redis[ResultKey(l)]
                            /\ redis'[LockKey(l)] = redis[LockKey(l)])
<1>1. redis' = Del(redis, {ResultKey(k), LockKey(k)})
  BY DEF delete
<1>2. /\ redis' \in [RedisKey -> Entry(Value)]
      /\ \A m \in RedisKey :
           /\ m \in {ResultKey(k), LockKey(k)} => redis'[m] = Absent
           /\ m \notin {ResultKey(k), LockKey(k)} => redis'[m] = redis[m]
  BY <1>1, DelEffect DEF RedisType
<1>3. redis'[ResultKey(k)] = Absent /\ redis'[LockKey(k)] = Absent
  BY <1>2, KeysInStore
<1>4. ~is_duplicate(k)'
  BY <1>3 DEF is_duplicate, Exists, Absent, Missing, ResultKey, LockKey
<1>5. ASSUME NEW l \in IdemKey \ {k}, PlainKeys
      PROVE  /\ redis'[ResultKey(l)] = redis[ResultKey(l)]
             /\ redis'[LockKey(l)] = redis[LockKey(l)]
  <2>1. /\ ResultKey(l) \notin {ResultKey(k), LockKey(k)}
        /\ LockKey(l) # ResultKey(k)
    BY <1>5 DEF PlainKeys, PlainLock, ResultKey
  <2>2. LockKey(l) # LockKey(k)
    BY LockKeyInjective
  <2> QED
    BY <1>2, <2>1, <2>2, KeysInStore
<1> QED
  BY <1>2, <1>4, <1>5 DEF RedisType

\* is_duplicate (service.py:161-177) agrees with what submit_task decides by
\* get_result and acquire (tasks.py:42-64): it is False exactly for the keys
\* that have no result to answer with and whose lock acquire would win.
THEOREM DuplicateIffNotAcquirable ==
  ASSUME RedisType, NEW k \in IdemKey, NEW o \in Owner, NEW n \in Nat \ {0},
         acquire(k, o, n)
  PROVE  ~is_duplicate(k) <=> ~HasResult(k) /\ redis' # redis
<1>1. redis' # redis <=> ~Locked(k)
  <2>1. CASE Locked(k)
    BY <2>1, AcquireEffect
  <2>2. CASE ~Locked(k)
    <3>1. Exists(redis', LockKey(k))
      BY <2>2, AcquireEffect
    <3> QED
      BY <3>1, <2>2 DEF Locked
  <2> QED
    BY <2>1, <2>2
<1> QED
  BY <1>1 DEF is_duplicate, HasResult, Locked

\* extend_ttl (service.py:141-159) reads the seconds left and sets the new
\* ones in two commands.  Whatever the store has become in between, the
\* second neither creates, changes nor drops a result or a lock: it moves
\* one expiry at most, which is a lock's only if that has the key's name.
THEOREM ExtendTtlMovesOneExpiry ==
  ASSUME RedisType, NEW k \in IdemKey, NEW current \in Ttl, NEW extra \in Nat,
         extend_ttl(k, current, extra)
  PROVE  /\ RedisType'
         /\ \A m \in RedisKey : /\ Get(redis', m) = Get(redis, m)
                                /\ Exists(redis', m) <=> Exists(redis, m)
                                /\ m # ResultKey(k) => redis'[m] = redis[m]
<1>1. ResultKey(k) \in RedisKey
  BY KeysInStore
<1>2. CASE current <= 0 /\ UNCHANGED redis
  BY <1>2 DEF RedisType
<1>3. CASE current > 0 /\ redis' = Expire(redis, ResultKey(k), current + extra)
  <2>1. current + extra \in Nat \ {0}
    BY <1>3 DEF Ttl, Missing, Persistent
  <2> QED
    BY <1>1, <1>3, <2>1, ExpireEffect DEF RedisType
<1> QED
  BY <1>2, <1>3 DEF extend_ttl

\* With nothing in between, a record that expires lives exactly the extra
\* seconds longer: "Seconds to add to TTL".
THEOREM ExtendTtlAdds ==
  ASSUME RedisType, NEW k \in IdemKey, NEW extra \in Nat, HasResult(k),
         current_ttl(k) # Persistent, extend_ttl(k, current_ttl(k), extra)
  PROVE  current_ttl(k)' = current_ttl(k) + extra
<1>1. ResultKey(k) \in RedisKey
  BY KeysInStore
<1>2. redis[ResultKey(k)] \in Entry(Value)
  BY <1>1 DEF RedisType
<1>3. current_ttl(k) \in Nat \ {0}
  BY <1>2 DEF current_ttl, HasResult, Exists, Entry, Ttl
<1>4. redis' = Expire(redis, ResultKey(k), current_ttl(k) + extra)
  BY <1>3 DEF extend_ttl
<1>5. current_ttl(k) + extra \in Nat \ {0}
  BY <1>3
<1>6. redis'[ResultKey(k)].ttl = current_ttl(k) + extra
  BY <1>1, <1>4, <1>5, ExpireEffect DEF RedisType, HasResult
<1> QED
  BY <1>6 DEF current_ttl, ResultKey

-----------------------------------------------------------------------------

\* Calls that a generated key does not tell apart.
SameText(c, d) ==
    /\ c.task = d.task
    /\ Texts(Given(c.args)) = Texts(Given(d.args))
    /\ Texts(Given(c.kwargs)) = Texts(Given(d.kwargs))

\* TimeWindowKeyGenerator: "Same arguments within a time window produce the
\* same key. Different windows produce different keys" (keys.py:93-94).
THEOREM WindowTellsApart ==
  ASSUME NEW c, NEW d, NEW s \in Nat, NEW t \in Nat, NEW W \in Nat \ {0}
  PROVE  TimeWindow(W, c, s) = TimeWindow(W, d, t) <=>
           SameText(c, d) /\ WindowOf(s, W) = WindowOf(t, W)
<1>1. ASSUME NEW e, NEW u \in Nat
      PROVE  TimeWindow(W, e, u) =
               Hash(Fingerprint(e, <<"time_window", WindowOf(u, W)>>))
  <2>1. W > 0 /\ ~(W = 0)
    OBVIOUS
  <2>2. When(FALSE, W, u) = <<"time_window", WindowOf(u, W)>>
    BY <2>1 DEF When
  <2> QED
    BY <2>2 DEF TimeWindow, generate_idempotency_key
<1>2. Hash(Fingerprint(c, <<"time_window", WindowOf(s, W)>>)) =
        Hash(Fingerprint(d, <<"time_window", WindowOf(t, W)>>)) <=>
      Fingerprint(c, <<"time_window", WindowOf(s, W)>>) =
        Fingerprint(d, <<"time_window", WindowOf(t, W)>>)
  BY DEF Hash
<1>3. Fingerprint(c, <<"time_window", WindowOf(s, W)>>) =
        Fingerprint(d, <<"time_window", WindowOf(t, W)>>) <=>
      SameText(c, d) /\ WindowOf(s, W) = WindowOf(t, W)
  BY DEF Fingerprint, SameText
<1> QED
  BY <1>1, <1>2, <1>3

\* A window's key is never reused: calls that share one are less than the
\* window apart, so a lock whose ttl is at least the window covers them all.
THEOREM WindowKeyIsShortLived ==
  ASSUME NEW c, NEW d, NEW s \in Nat, NEW t \in Nat, NEW W \in Nat \ {0},
         TimeWindow(W, c, s) = TimeWindow(W, d, t)
  PROVE  s < t + W /\ t < s + W
<1>1. SameText(c, d) /\ WindowOf(s, W) = WindowOf(t, W)
  BY WindowTellsApart DEF SameText
<1> QED
  BY <1>1, SameQuotient DEF WindowOf

\* Windows do not slide: a call repeated within W seconds may get a second
\* key, but never a third, whenever in between it is made.
THEOREM AtMostTwoKeysInAWindow ==
  ASSUME NEW c, NEW W \in Nat \ {0},
         NEW s \in Nat, NEW u \in Nat, NEW t \in Nat,
         s <= u, u <= t, t < s + W
  PROVE  \/ TimeWindow(W, c, u) = TimeWindow(W, c, s)
         \/ TimeWindow(W, c, u) = TimeWindow(W, c, t)
<1>1. /\ s \div W \in Nat /\ u \div W \in Nat /\ t \div W \in Nat
      /\ s \div W <= u \div W /\ u \div W <= t \div W
  BY Quotient, QuotientMonotone
<1>2. PICK m \in Nat : m = s \div W /\ s < m * W + W
  BY Quotient
<1>3. PICK n \in Nat : n = t \div W /\ n * W <= t
  BY Quotient
<1>4. m + 1 < n => (m + 1) * W + W <= n * W
  BY <1>2, <1>3, Products
<1>5. (m + 1) * W = m * W + W /\ m * W \in Nat /\ n * W \in Nat
  BY <1>2, <1>3
<1>6. n <= m + 1
  BY <1>2, <1>3, <1>4, <1>5
<1>7. u \div W = s \div W \/ u \div W = t \div W
  BY <1>1, <1>2, <1>3, <1>6
<1>8. WindowOf(u, W) = WindowOf(s, W) \/ WindowOf(u, W) = WindowOf(t, W)
  BY <1>7 DEF WindowOf
<1>9. ASSUME NEW v \in Nat, WindowOf(u, W) = WindowOf(v, W)
      PROVE  TimeWindow(W, c, u) = TimeWindow(W, c, v)
  <2>1. SameText(c, c) /\ WindowOf(u, W) = WindowOf(v, W)
    BY <1>9 DEF SameText
  <2> QED
    BY <2>1, WindowTellsApart DEF SameText
<1> QED
  BY <1>8, <1>9

\* The key the wrapper generates never looks at the clock: retries and
\* redeliveries of a message find its lock, however late they are.
THEOREM TaskKeyIsTimeless ==
  ASSUME NEW c, NEW d, NEW s \in Nat, NEW t \in Nat
  PROVE  TaskBased(c, s) = TaskBased(d, t) <=> SameText(c, d)
<1>1. ASSUME NEW e, NEW u \in Nat
      PROVE  TaskBased(e, u) = Hash(Fingerprint(e, <<"any time">>))
  BY DEF TaskBased, generate_idempotency_key, When
<1>2. Hash(Fingerprint(c, <<"any time">>)) = Hash(Fingerprint(d, <<"any time">>))
        <=> Fingerprint(c, <<"any time">>) = Fingerprint(d, <<"any time">>)
  BY DEF Hash
<1>3. Fingerprint(c, <<"any time">>) = Fingerprint(d, <<"any time">>)
        <=> SameText(c, d)
  BY DEF Fingerprint, SameText
<1> QED
  BY <1>1, <1>2, <1>3
=============================================================================
