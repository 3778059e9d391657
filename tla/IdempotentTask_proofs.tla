------------------------ MODULE IdempotentTask_proofs ------------------------
(***************************************************************************)
(* IdempotentTask's invariants, for every set of tasks, keys and processes *)
(* and every window longer than the hard limit.                            *)
(***************************************************************************)
EXTENDS IdempotentTask, Idempotency_proofs

\* The names of a task's lock and result are in the store, and the window is
\* a ttl.
LEMMA Params ==
  /\ \A w \in Worker : TypeOK /\ pc[w] # "idle" =>
       /\ TaskOf(w) \in Task /\ WorkKey(w) \in IdemKey
       /\ msg[w] \in Message
       /\ Retries(w) \in 0..MaxRetries
  /\ Window \in Nat \ {0}
  /\ HardLimit \in Nat /\ HardLimit < Window
<1>1. \A w \in Worker : TypeOK /\ pc[w] # "idle" =>
        msg[w] \in Message /\ TaskOf(w) \in Task /\ Retries(w) \in 0..MaxRetries
  BY NilIsNoValue DEF TypeOK, Message, TaskOf, Retries
<1> QED
  BY <1>1, TaskAssumption DEF WorkKey

\* The commands of one process on the two names of its key.
LEMMA LockEffect ==
  ASSUME RedisType, NEW w \in Worker, WorkKey(w) \in IdemKey, TaskOf(w) \in Task,
         SetLock(w)
  PROVE  /\ RedisType'
         /\ Locked(WorkKey(w)) => UNCHANGED <<redis, since, fate>>
         /\ ~Locked(WorkKey(w)) =>
              /\ Exists(redis', LockKey(WorkKey(w)))
              /\ redis'[LockKey(WorkKey(w))].ttl = Window
              /\ since' = [since EXCEPT ![WorkKey(w)] = 0]
              /\ fate' = [fate EXCEPT ![WorkKey(w)] = "started"]
         /\ \A m \in RedisKey : m # LockKey(WorkKey(w)) => redis'[m] = redis[m]
<1>1. /\ Processing(TaskOf(w)) \in Value /\ LockKey(WorkKey(w)) \in RedisKey
      /\ Window \in Nat \ {0}
  BY KeysInStore, ValuesDiffer, TaskAssumption
<1>2. redis' = SetNxEx(redis, LockKey(WorkKey(w)), Processing(TaskOf(w)), Window)
  BY DEF SetLock
<1>3. redis \in [RedisKey -> Entry(Value)]
  BY DEF RedisType
<1> QED
  BY <1>1, <1>2, <1>3, SetNxExEffect DEF SetLock, Locked, RedisType, Ghosts

\* Storing a result writes its name only.
LEMMA ResultEffect ==
  ASSUME RedisType, NEW w \in Worker, WorkKey(w) \in IdemKey, TaskOf(w) \in Task,
         SetResult(w)
  PROVE  /\ RedisType'
         /\ Exists(redis', ResultKey(WorkKey(w)))
         /\ redis'[ResultKey(WorkKey(w))].ttl = Window
         /\ \A m \in RedisKey : m # ResultKey(WorkKey(w)) => redis'[m] = redis[m]
<1>1. /\ ResultOf(TaskOf(w)) \in Value /\ ResultKey(WorkKey(w)) \in RedisKey
      /\ Window \in Nat \ {0}
  BY KeysInStore, ValuesDiffer, TaskAssumption
<1> QED
  BY <1>1, SetExEffect DEF SetResult, RedisType

\* Deleting a lock removes its name only.
LEMMA UnlockEffect ==
  ASSUME RedisType, NEW k \in IdemKey, redis' = Del(redis, {LockKey(k)})
  PROVE  /\ RedisType'
         /\ ~Exists(redis', LockKey(k))
         /\ \A m \in RedisKey : m # LockKey(k) => redis'[m] = redis[m]
BY KeysInStore, DelEffect DEF RedisType, Exists, Absent

-----------------------------------------------------------------------------

\* Where a step may leave the store.
LEMMA NextStore ==
  ASSUME TypeOK, [Next]_vars
  PROVE  RedisType'
<1> USE DEF Broker, Ghosts, Frame, FailsAs
<1>1. ASSUME NEW w \in Worker, Lock(w) \/ LockFails(w) PROVE RedisType'
  <2>1. UNCHANGED redis \/ SetLock(w)
    BY <1>1 DEF Lock, LockFails
  <2>2. WorkKey(w) \in IdemKey /\ TaskOf(w) \in Task
    BY <1>1, Params DEF Lock, LockFails
  <2> QED
    BY <2>1, <2>2, LockEffect DEF TypeOK, RedisType
<1>2. ASSUME NEW w \in Worker, Save(w) \/ SaveFails(w) PROVE RedisType'
  <2>1. UNCHANGED redis \/ SetResult(w)
    BY <1>2 DEF Save, SaveFails
  <2>2. WorkKey(w) \in IdemKey /\ TaskOf(w) \in Task
    BY <1>2, Params DEF Save, SaveFails
  <2> QED
    BY <2>1, <2>2, ResultEffect DEF TypeOK, RedisType
<1>3. ASSUME NEW w \in Worker, Unlock(w) \/ UnlockFails(w) PROVE RedisType'
  <2>1. UNCHANGED redis \/ redis' = Del(redis, {LockKey(WorkKey(w))})
    BY <1>3 DEF Unlock, UnlockFails
  <2>2. WorkKey(w) \in IdemKey
    BY <1>3, Params DEF Unlock, UnlockFails
  <2> QED
    BY <2>1, <2>2, UnlockEffect DEF TypeOK, RedisType
<1>4. CASE Tick
  BY <1>4, ElapseEffect DEF Tick, TypeOK, RedisType
<1>5. CASE UNCHANGED redis
  BY <1>5 DEF TypeOK, RedisType
<1> QED
  BY <1>1, <1>2, <1>3, <1>4, <1>5
  DEF Next, Wrapper, Celery, Deliver, Duplicate, GetCached, GetCachedFails,
      RunBody, BodyRaises, Retry, Fail, ReadOutcome, StoreOutcome, Ack, TimeLimit,
      Kill, Disconnect, Terminate, Discard, Revoke, Restart, vars

LEMMA InitType == Init => TypeOK
<1> SUFFICES ASSUME Init PROVE TypeOK
  OBVIOUS
<1>1. RedisType
  BY EmptyType DEF Init, RedisType
<1>2. Window \in 0..Window /\ 0 \in 0..HardLimit /\ MaxLosses \in 0..MaxLosses
  BY TaskAssumption
<1>3. "PENDING" \in Outcome
  BY DEF Outcome
<1> QED
  BY <1>1, <1>2, <1>3 DEF Init, TypeOK, PC, Message

LEMMA ClockType ==
  ASSUME TypeOK, NEW w \in Worker, NEW place, Goto(w, place)
  PROVE  elapsed' \in [Worker -> 0..HardLimit]
BY TaskAssumption DEF Goto, TypeOK

\* What there may be to report.
LEMMA OweType ==
  ASSUME TypeOK, NEW w \in Worker, NEW state \in Outcome, Owe(w, state)
  PROVE  /\ result' \in [Worker -> Outcome]
         /\ raised' \in [Worker -> {"no", "retryable", "other"}]
BY DEF Owe, TypeOK

\* The steps of the wrapper that leave a process with its message.
LEMMA WrapperType ==
  ASSUME TypeOK, NEW w \in Worker, Wrapper(w), RedisType'
  PROVE  TypeOK'
<1>0. elapsed' \in [Worker -> 0..HardLimit]
  <2>1. \E place : Goto(w, place)
    BY DEF Wrapper, Lock, LockFails, Duplicate, GetCached, GetCachedFails, RunBody,
           BodyRaises, Save, SaveFails, Unlock, UnlockFails, Return, Report, Raise
  <2> QED
    BY <2>1, ClockType
<1> USE <1>0 DEF Broker, Ghosts, Frame, Goto
<1>1. CASE Lock(w)
  <2>1. WorkKey(w) \in IdemKey
    BY <1>1, Params DEF Lock
  <2> QED
    BY <1>1, <2>1, Params DEF Lock, SetLock, TypeOK, PC, Inside
<1>2. CASE LockFails(w)
  <2>1. WorkKey(w) \in IdemKey
    BY <1>2, Params DEF LockFails
  <2>2. since' \in [IdemKey -> 0..Window] /\ fate' \in [IdemKey -> {"none", "started", "completed", "saved"}]
    BY <1>2, <2>1, Params DEF LockFails, FailsAs, SetLock, TypeOK
  <2> QED
    BY <1>2, <2>2 DEF LockFails, Raise, TypeOK, PC
<1>3. CASE Duplicate(w)
  <2>1. CASE Return(w)
    BY <1>3, <2>1, OweType DEF Duplicate, Return, Report, Outcome, TypeOK, PC, Reporting
  <2>2. CASE Goto(w, "cached") /\ UNCHANGED <<raised, result>>
    BY <1>3, <2>2 DEF Duplicate, TypeOK, PC
  <2>3. CASE Raise(w, "other")
    BY <1>3, <2>3 DEF Duplicate, Raise, TypeOK, PC
  <2> QED
    BY <1>3, <2>1, <2>2, <2>3 DEF Duplicate
<1>4. CASE GetCached(w)
  BY <1>4, OweType DEF GetCached, Return, Report, Outcome, TypeOK, PC, Reporting
<1>5. CASE GetCachedFails(w)
  BY <1>5 DEF GetCachedFails, Raise, TypeOK, PC
<1>6. CASE RunBody(w)
  BY <1>6 DEF RunBody, TypeOK, PC, Inside
<1>7. CASE BodyRaises(w)
  BY <1>7 DEF BodyRaises, TypeOK, PC, Inside
<1>8. CASE Save(w)
  BY <1>8, OweType DEF Save, Return, Report, Outcome, TypeOK, PC, Reporting
<1>9. CASE SaveFails(w)
  BY <1>9 DEF SaveFails, TypeOK, PC, Inside
<1>10. CASE Unlock(w)
  BY <1>10 DEF Unlock, TypeOK, PC
<1>11. CASE UnlockFails(w)
  BY <1>11 DEF UnlockFails, Raise, TypeOK, PC
<1> QED
  BY <1>1, <1>2, <1>3, <1>4, <1>5, <1>6, <1>7, <1>8, <1>9, <1>10, <1>11
  DEF Wrapper

\* Taking a message.
LEMMA TakeType ==
  ASSUME TypeOK, NEW w \in Worker, NEW m \in Message, Take(w, m)
  PROVE  /\ ready' \in [Message -> Nat]
         /\ msg' \in [Worker -> Message \cup {Nil}]
         /\ msg' = [msg EXCEPT ![w] = m] /\ m # Nil
         /\ attached' \in [Worker -> BOOLEAN]
         /\ crossed' \subseteq Task
<1>1. m # Nil /\ m[1] \in Task
  BY TaskAssumption DEF Message
<1> QED
  BY <1>1 DEF Take, TypeOK

\* The main process takes over.
LEMMA StopType ==
  ASSUME TypeOK, NEW w \in Worker, NEW t, NEW state \in Outcome, Stop(w, t, state)
  PROVE  /\ pc' \in [Worker -> PC] /\ pc'[w] # "idle"
         /\ \A v \in Worker : v # w => pc'[v] = pc[v]
         /\ elapsed' \in [Worker -> 0..HardLimit]
         /\ raised' \in [Worker -> {"no", "retryable", "other"}]
         /\ result' \in [Worker -> Outcome]
<1>1. CASE result' = [result EXCEPT ![w] = state] /\ Goto(w, "stopped")
  BY <1>1, ClockType DEF Stop, Goto, TypeOK, PC, Reporting
<1>2. CASE Reported(w)
  BY <1>2, ClockType DEF Stop, Reported, Goto, TypeOK, PC, Outcome
<1> QED
  BY <1>1, <1>2 DEF Stop

\* The steps of Celery and of the broker, and the clock.
LEMMA OtherType ==
  ASSUME TypeOK, RedisType',
         \/ \E w \in Worker : \/ \E m \in Message : Deliver(w, m) \/ Discard(w, m)
                              \/ Celery(w) \/ Kill(w) \/ Disconnect(w)
                              \/ Terminate(w)
         \/ \E t \in Task : Revoke(t)
         \/ Restart \/ Tick
  PROVE  TypeOK'
<1> USE DEF Broker, Ghosts, Frame
<1>0. \A m \in Message : m # Nil
  BY TaskAssumption DEF Message
<1>1. ASSUME NEW w \in Worker, NEW m \in Message, Deliver(w, m)
      PROVE  TypeOK'
  <2>1. elapsed' \in [Worker -> 0..HardLimit]
    BY <1>1, ClockType DEF Deliver
  <2>2. Take(w, m)
    BY <1>1 DEF Deliver
  <2> QED
    BY <1>1, <2>1, <2>2, TakeType DEF Deliver, Goto, TypeOK, PC
<1>2. ASSUME NEW w \in Worker, NEW m \in Message, Discard(w, m)
      PROVE  TypeOK'
  <2>1. Take(w, m) /\ Stop(w, m[1], "REVOKED") /\ "REVOKED" \in Outcome
    BY <1>2 DEF Discard, Outcome
  <2> QED
    BY <1>2, <2>1, TakeType, StopType DEF Discard, TypeOK
<1>3. ASSUME NEW w \in Worker, Retry(w)
      PROVE  TypeOK'
  <2>1. /\ TaskOf(w) \in Task /\ Retries(w) + 1 \in 0..MaxRetries
    BY <1>3, Params, TaskAssumption DEF Retry
  <2>2. ready' \in [Message -> Nat]
    BY <1>3, <2>1 DEF Retry, TypeOK, Message
  <2>3. /\ result' \in [Worker -> Outcome]
        /\ raised' \in [Worker -> {"no", "retryable", "other"}]
    BY <1>3, OweType DEF Retry, Report, Outcome
  <2>4. elapsed' \in [Worker -> 0..HardLimit]
    BY <1>3, ClockType DEF Retry, Report
  <2> QED
    BY <1>3, <2>2, <2>3, <2>4 DEF Retry, Report, Goto, TypeOK, PC, Reporting
<1>4. ASSUME NEW w \in Worker, Fail(w)
      PROVE  TypeOK'
  <2>1. /\ result' \in [Worker -> Outcome]
        /\ raised' \in [Worker -> {"no", "retryable", "other"}]
    BY <1>4, OweType DEF Fail, Report, Outcome
  <2>2. elapsed' \in [Worker -> 0..HardLimit]
    BY <1>4, ClockType DEF Fail, Report
  <2> QED
    BY <1>4, <2>1, <2>2 DEF Fail, Report, Goto, TypeOK, PC, Reporting
<1>5. ASSUME NEW w \in Worker, Reported(w), pc[w] # "idle"
      PROVE  /\ pc' \in [Worker -> PC]
             /\ \A v \in Worker : msg[v] = Nil <=> pc'[v] = "idle"
             /\ elapsed' \in [Worker -> 0..HardLimit]
             /\ result' \in [Worker -> Outcome]
  BY <1>5, ClockType DEF Reported, Goto, TypeOK, PC, Outcome
<1>6. ASSUME NEW w \in Worker, ReadOutcome(w)
      PROVE  TypeOK'
  <2>1. CASE Goto(w, "store") /\ UNCHANGED result
    BY <1>6, <2>1, ClockType DEF ReadOutcome, Goto, TypeOK, PC, Reporting
  <2>2. CASE Reported(w)
    BY <1>5, <1>6, <2>2 DEF ReadOutcome, TypeOK
  <2> QED
    BY <1>6, <2>1, <2>2 DEF ReadOutcome
<1>7. ASSUME NEW w \in Worker, StoreOutcome(w)
      PROVE  TypeOK'
  <2>1. outcome' \in [Task -> Outcome]
    BY <1>7 DEF StoreOutcome, TypeOK
  <2> QED
    BY <1>5, <1>7, <2>1 DEF StoreOutcome, TypeOK
<1>8. ASSUME NEW w \in Worker, Free(w)
      PROVE  /\ pc' \in [Worker -> PC]
             /\ msg' \in [Worker -> Message \cup {Nil}]
             /\ \A v \in Worker : msg'[v] = Nil <=> pc'[v] = "idle"
             /\ attached' \in [Worker -> BOOLEAN]
             /\ elapsed' \in [Worker -> 0..HardLimit]
             /\ raised' \in [Worker -> {"no", "retryable", "other"}]
             /\ result' \in [Worker -> Outcome]
  BY <1>8, ClockType DEF Free, Goto, TypeOK, PC, Outcome
<1>9. ASSUME NEW w \in Worker, Requeue(w), pc[w] # "idle"
      PROVE  ready' \in [Message -> Nat]
  <2>1. msg[w] \in Message
    BY <1>9, Params
  <2> QED
    BY <1>9, <2>1 DEF Requeue, TypeOK
<1>10. ASSUME NEW w \in Worker, Ack(w)
       PROVE  TypeOK'
  BY <1>8, <1>10 DEF Ack, TypeOK
<1>11. ASSUME NEW w \in Worker, TimeLimit(w)
       PROVE  TypeOK'
  <2>1. /\ Stop(w, TaskOf(w), "FAILURE") /\ "FAILURE" \in Outcome
        /\ pc[w] # "idle" /\ TaskOf(w) \in Task
    BY <1>11, Params DEF TimeLimit, Outcome, AtWork
  <2>2. crossed' \subseteq Task
    BY <1>11, <2>1 DEF TimeLimit, TypeOK
  <2> QED
    BY <1>11, <2>1, <2>2, StopType DEF TimeLimit, TypeOK
<1>12. ASSUME NEW w \in Worker, Kill(w)
       PROVE  TypeOK'
  <2>1. Requeue(w) /\ Free(w) /\ pc[w] # "idle"
    BY <1>12 DEF Kill
  <2>2. losses' \in 0..MaxLosses
    BY <1>12, TaskAssumption DEF Kill, TypeOK
  <2> QED
    BY <1>8, <1>9, <1>12, <2>1, <2>2 DEF Kill, TypeOK
<1>13. ASSUME NEW w \in Worker, Disconnect(w)
       PROVE  TypeOK'
  <2>1. pc[w] # "idle" => ready' \in [Message -> Nat]
    BY <1>9, <1>13 DEF Disconnect
  <2>2. ready' \in [Message -> Nat]
    <3>1. pc[w] = "idle" => msg[w] \notin Message
      BY <1>0 DEF TypeOK
    <3> QED
      BY <1>13, <2>1, <3>1 DEF Disconnect, Requeue, TypeOK
  <2>3. losses' \in 0..MaxLosses
    BY <1>13, TaskAssumption DEF Disconnect, TypeOK
  <2> QED
    BY <1>13, <2>2, <2>3 DEF Disconnect, TypeOK
<1>14. CASE Tick
  <2>1. elapsed' \in [Worker -> 0..HardLimit]
    BY <1>14, TaskAssumption DEF Tick, TypeOK
  <2>2. since' \in [IdemKey -> 0..Window]
    BY <1>14, TaskAssumption DEF Tick, TypeOK
  <2> QED
    BY <1>14, <2>1, <2>2 DEF Tick, TypeOK
<1>15. ASSUME NEW w \in Worker, Terminate(w)
       PROVE  TypeOK'
  <2>1. /\ Stop(w, TaskOf(w), "REVOKED") /\ "REVOKED" \in Outcome
        /\ pc[w] # "idle"
    BY <1>15 DEF Terminate, Outcome
  <2>2. revoked' \subseteq Task
    BY <1>15, <2>1, Params DEF Terminate, TypeOK
  <2>3. losses' \in 0..MaxLosses
    BY <1>15, TaskAssumption DEF Terminate, TypeOK
  <2> QED
    BY <1>15, <2>1, <2>2, <2>3, StopType DEF Terminate, TypeOK
<1>16. ASSUME NEW t \in Task, Revoke(t)
       PROVE  TypeOK'
  <2>1. losses' \in 0..MaxLosses
    BY <1>16, TaskAssumption DEF Revoke, TypeOK
  <2> QED
    BY <1>16, <2>1 DEF Revoke, TypeOK
<1>17. CASE Restart
  BY <1>17 DEF Restart, TypeOK
<1> QED
  BY <1>1, <1>2, <1>3, <1>4, <1>6, <1>7, <1>10, <1>11, <1>12, <1>13, <1>14,
     <1>15, <1>16, <1>17
  DEF Celery

LEMMA NextType == TypeOK /\ [Next]_vars => TypeOK'
<1> SUFFICES ASSUME TypeOK, [Next]_vars PROVE TypeOK'
  OBVIOUS
<1>1. RedisType'
  BY NextStore
<1>2. CASE UNCHANGED vars
  BY <1>1, <1>2 DEF vars, TypeOK
<1> QED
  BY <1>1, <1>2, WrapperType, OtherType DEF Next

\* Every reachable state is well typed.
THEOREM TypeCorrect == Spec => []TypeOK
BY InitType, NextType, PTL DEF Spec

-----------------------------------------------------------------------------
(***************************************************************************)
(* The inductive invariant.  LockAge ties the lock's ttl to the seconds    *)
(* since it was taken; with it, InsideHolds says that a process in the     *)
(* body still has the lock, because it has been at work no longer than the *)
(* hard limit, and that only this process may have it; SavedHolds says     *)
(* that the lock of a stored run stays until the window is over.           *)
(***************************************************************************)
LockAge ==
    \A k \in IdemKey : Locked(k) =>
      redis[LockKey(k)].ttl + since[k] = Window

InsideHolds ==
    \A w \in Worker : pc[w] \in Inside =>
      /\ Locked(WorkKey(w))
      /\ since[WorkKey(w)] <= elapsed[w]
      /\ fate[WorkKey(w)] # "saved"

SavedHolds ==
    \A k \in IdemKey : (fate[k] = "saved" /\ since[k] < Window) => Locked(k)

SavedHasResult ==
    \A k \in IdemKey : (fate[k] = "saved" /\ Locked(k)) =>
      redis[ResultKey(k)].ttl >= redis[LockKey(k)].ttl

IInv == TypeOK /\ LockAge /\ InsideHolds /\ OneBodyPerKey
        /\ SavedHolds /\ SavedHasResult

\* Two keys have two locks, and a lock is no result.
LEMMA Apart ==
  ASSUME PlainKeys, NEW k \in IdemKey, NEW l \in IdemKey
  PROVE  /\ LockKey(k) \in RedisKey /\ ResultKey(k) \in RedisKey
         /\ LockKey(k) # ResultKey(l)
         /\ k # l => LockKey(k) # LockKey(l) /\ ResultKey(k) # ResultKey(l)
BY LockKeyInjective, KeysInStore DEF PlainKeys, PlainLock, ResultKey

\* What a running body knows about its key: the lock is on file, for longer
\* than the process may still be at work.
LEMMA InsideMargin ==
  ASSUME IInv, NEW w \in Worker, pc[w] \in Inside
  PROVE  /\ WorkKey(w) \in IdemKey /\ TaskOf(w) \in Task
         /\ Locked(WorkKey(w))
         /\ redis[LockKey(WorkKey(w))].ttl >= Window - elapsed[w]
         /\ fate[WorkKey(w)] # "saved"
         /\ \A v \in Worker : (pc[v] \in Inside /\ WorkKey(v) = WorkKey(w)) => v = w
<1>1. WorkKey(w) \in IdemKey /\ TaskOf(w) \in Task
  BY Params DEF IInv, Inside
<1>2. redis[LockKey(WorkKey(w))].ttl \in Int
  BY <1>1, KeysInStore DEF IInv, TypeOK, RedisType, Entry, Ttl, Missing, Persistent
<1>3. since[WorkKey(w)] \in Int /\ elapsed[w] \in Int /\ Window \in Int
  BY <1>1, TaskAssumption DEF IInv, TypeOK
<1> QED
  BY <1>1, <1>2, <1>3 DEF IInv, LockAge, InsideHolds, OneBodyPerKey

\* The clock of a process in the body goes on.
ClockKept == \A w \in Worker : pc'[w] \in Inside => elapsed'[w] = elapsed[w]

\* Going from one place of the wrapper to another keeps the clocks.
LEMMA GotoKeepsClock ==
  ASSUME TypeOK, NEW w \in Worker, NEW place, Goto(w, place)
  PROVE  ClockKept /\ pc' = [pc EXCEPT ![w] = place]
BY DEF Goto, ClockKept, TypeOK, Inside

\* A step that leaves the store and the history alone, and lets no process
\* into a body, keeps everything.
LEMMA QuietStep ==
  ASSUME IInv, TypeOK', UNCHANGED <<redis, since, fate>>,
         \A w \in Worker : pc'[w] \in Inside =>
           pc[w] \in Inside /\ msg'[w] = msg[w] /\ elapsed'[w] = elapsed[w]
  PROVE  IInv'
<1>1. \A w \in Worker : pc'[w] \in Inside => WorkKey(w)' = WorkKey(w)
  BY DEF WorkKey, TaskOf
<1>2. \A k : Locked(k)' = Locked(k)
  BY DEF Locked, Exists
<1>3. (LockAge /\ SavedHolds /\ SavedHasResult)'
  BY <1>2 DEF IInv, LockAge, SavedHolds, SavedHasResult
<1>4. InsideHolds'
  BY <1>1, <1>2 DEF IInv, InsideHolds
<1>5. OneBodyPerKey'
  BY <1>1 DEF IInv, OneBodyPerKey
<1> QED
  BY <1>3, <1>4, <1>5 DEF IInv

\* Taking a free lock: nobody was in a body of this key.
LEMMA TakeStep ==
  ASSUME IInv, TypeOK', PlainKeys, NEW w \in Worker, pc[w] = "lock",
         SetLock(w), ~Locked(WorkKey(w)), UNCHANGED msg, ClockKept,
         NEW place, pc' = [pc EXCEPT ![w] = place]
  PROVE  IInv'
<1>0. WorkKey(w) \in IdemKey /\ TaskOf(w) \in Task
  BY Params DEF IInv
<1>1. PICK k \in IdemKey : k = WorkKey(w)
  BY <1>0
<1>2. /\ Exists(redis', LockKey(k)) /\ redis'[LockKey(k)].ttl = Window
      /\ since' = [since EXCEPT ![k] = 0]
      /\ fate' = [fate EXCEPT ![k] = "started"]
      /\ \A m \in RedisKey : m # LockKey(k) => redis'[m] = redis[m]
  BY <1>0, <1>1, LockEffect DEF IInv, TypeOK
<1>3. \A v \in Worker : WorkKey(v)' = WorkKey(v)
  BY DEF WorkKey, TaskOf
<1>4. \A v \in Worker : pc[v] \in Inside => WorkKey(v) # k /\ v # w
  BY <1>1 DEF IInv, InsideHolds, Inside
<1>5. \A l \in IdemKey : l # k =>
        /\ redis'[LockKey(l)] = redis[LockKey(l)]
        /\ Locked(l)' = Locked(l)
        /\ since'[l] = since[l] /\ fate'[l] = fate[l]
  BY <1>1, <1>2, Apart DEF Locked, Exists, IInv, TypeOK
<1>6. \A l \in IdemKey : redis'[ResultKey(l)] = redis[ResultKey(l)]
  BY <1>1, <1>2, Apart
<1>7. /\ Locked(k)' /\ since'[k] = 0 /\ fate'[k] = "started"
      /\ redis'[LockKey(k)].ttl + since'[k] = Window
  BY <1>1, <1>2, TaskAssumption DEF Locked, IInv, TypeOK
<1>8. LockAge'
  BY <1>5, <1>7 DEF IInv, LockAge
<1>9. InsideHolds'
  <2>1. ASSUME NEW v \in Worker, pc'[v] \in Inside, v # w
        PROVE  pc[v] \in Inside /\ WorkKey(v) \in IdemKey
    BY <2>1, Params DEF IInv, TypeOK, Inside
  <2>2. \A v \in Worker : elapsed[v] \in Nat
    BY TaskAssumption DEF IInv, TypeOK
  <2>3. ASSUME NEW v \in Worker, pc'[v] \in Inside
        PROVE  /\ Locked(WorkKey(v))' /\ since'[WorkKey(v)'] <= elapsed'[v]
               /\ fate'[WorkKey(v)'] # "saved"
    <3>1. CASE v = w
      BY <1>1, <1>3, <1>7, <2>2, <2>3, <3>1 DEF Locked, ClockKept
    <3>2. CASE v # w
      <4>1. WorkKey(v) \in IdemKey /\ WorkKey(v) # k /\ pc[v] \in Inside
        BY <1>4, <2>1, <2>3, <3>2
      <4> QED
        BY <1>3, <1>5, <2>3, <4>1 DEF IInv, InsideHolds, Locked, ClockKept
    <3> QED
      BY <3>1, <3>2
  <2> QED
    BY <2>3 DEF InsideHolds
<1>10. OneBodyPerKey'
  <2>1. \A v \in Worker : v # w /\ pc'[v] \in Inside => pc[v] \in Inside
    BY DEF IInv, TypeOK
  <2> QED
    BY <1>1, <1>3, <1>4, <2>1 DEF IInv, OneBodyPerKey
<1>11. SavedHolds' /\ SavedHasResult'
  BY <1>5, <1>6, <1>7 DEF IInv, SavedHolds, SavedHasResult
<1> QED
  BY <1>8, <1>9, <1>10, <1>11 DEF IInv

\* A step of a process in the body that keeps the lock, and writes at most
\* its key's result.
LEMMA KeepStep ==
  ASSUME IInv, TypeOK', PlainKeys, NEW w \in Worker, pc[w] \in Inside,
         SetResult(w) \/ UNCHANGED redis, UNCHANGED <<msg, since>>, ClockKept,
         NEW place, pc' = [pc EXCEPT ![w] = place],
         \/ UNCHANGED fate
         \/ fate' = [fate EXCEPT ![WorkKey(w)] = "completed"]
         \/ /\ fate' = [fate EXCEPT ![WorkKey(w)] = "saved"]
            /\ place \notin Inside /\ SetResult(w)
  PROVE  IInv'
<1>1. PICK k \in IdemKey : k = WorkKey(w)
  BY InsideMargin
<1>2. /\ TaskOf(w) \in Task /\ Locked(k) /\ fate[k] # "saved"
      /\ \A v \in Worker : (pc[v] \in Inside /\ WorkKey(v) = k) => v = w
  BY <1>1, InsideMargin
<1>3. \A v \in Worker : /\ WorkKey(v)' = WorkKey(v)
                        /\ pc'[v] \in Inside => /\ pc[v] \in Inside
                                                /\ WorkKey(v) \in IdemKey
  BY Params DEF WorkKey, TaskOf, IInv, TypeOK, Inside
<1>4. /\ SetResult(w) => redis'[ResultKey(k)].ttl = Window
      /\ \A m \in RedisKey : m # ResultKey(k) => redis'[m] = redis[m]
  BY <1>1, <1>2, ResultEffect DEF IInv, TypeOK
<1>5. \A l \in IdemKey : /\ redis'[LockKey(l)] = redis[LockKey(l)]
                         /\ Locked(l)' = Locked(l)
                         /\ since'[l] = since[l]
  BY <1>4, Apart DEF Locked, Exists
<1>6. \A l \in IdemKey : l # k => /\ redis'[ResultKey(l)] = redis[ResultKey(l)]
                                  /\ fate'[l] = fate[l]
  BY <1>1, <1>4, Apart DEF IInv, TypeOK
<1>7. /\ redis[LockKey(k)].ttl <= Window
      /\ fate'[k] = "saved" => redis'[ResultKey(k)].ttl = Window
  <2>1. redis[LockKey(k)].ttl + since[k] = Window /\ since[k] \in Nat
    BY <1>2, TaskAssumption DEF IInv, LockAge, TypeOK
  <2>2. redis[LockKey(k)].ttl \in Int
    <3>1. redis \in [RedisKey -> Entry(Value)]
      BY DEF IInv, TypeOK, RedisType
    <3> QED
      BY <3>1, KeysInStore DEF Entry, Ttl, Missing, Persistent
  <2>4. Window \in Int
    BY TaskAssumption
  <2>3. redis[LockKey(k)].ttl <= Window
    BY <2>1, <2>2, <2>4
  <2> QED
    BY <1>1, <1>2, <1>4, <2>3 DEF IInv, TypeOK
<1>8. LockAge'
  BY <1>5 DEF IInv, LockAge
<1>9. InsideHolds'
  <2> SUFFICES ASSUME NEW v \in Worker, pc'[v] \in Inside
               PROVE  /\ Locked(WorkKey(v))' /\ since'[WorkKey(v)'] <= elapsed'[v]
                      /\ fate'[WorkKey(v)'] # "saved"
    BY DEF InsideHolds
  <2>1. /\ Locked(WorkKey(v)) /\ since[WorkKey(v)] <= elapsed[v]
        /\ WorkKey(v) \in IdemKey /\ fate[WorkKey(v)] # "saved"
    BY <1>3 DEF IInv, InsideHolds
  <2>2. Locked(WorkKey(v))' /\ since'[WorkKey(v)'] <= elapsed'[v]
    BY <1>3, <1>5, <2>1 DEF Locked, ClockKept
  <2>3. CASE v = w
    BY <1>1, <1>3, <2>1, <2>2, <2>3 DEF IInv, TypeOK
  <2>4. CASE v # w
    BY <1>1, <1>2, <1>3, <1>6, <2>1, <2>2, <2>4
  <2> QED
    BY <2>3, <2>4
<1>10. OneBodyPerKey'
  BY <1>3 DEF IInv, OneBodyPerKey
<1>11. SavedHolds'
  BY <1>2, <1>5, <1>6 DEF IInv, SavedHolds
<1>12. SavedHasResult'
  <2> SUFFICES ASSUME NEW l \in IdemKey, fate'[l] = "saved", Locked(l)'
               PROVE  redis'[ResultKey(l)].ttl >= redis'[LockKey(l)].ttl
    BY DEF SavedHasResult
  <2>1. CASE l = k
    <3>1. redis'[LockKey(l)].ttl <= Window /\ redis'[ResultKey(l)].ttl = Window
      BY <1>5, <1>7, <2>1
    <3>2. redis'[LockKey(l)].ttl \in Int /\ Window \in Int
      <4>1. redis' \in [RedisKey -> Entry(Value)]
        BY DEF TypeOK, RedisType
      <4> QED
        BY <4>1, KeysInStore, TaskAssumption DEF Entry, Ttl, Missing, Persistent
    <3> QED
      BY <3>1, <3>2
  <2>2. CASE l # k
    BY <1>5, <1>6, <2>2 DEF IInv, SavedHasResult
  <2> QED
    BY <2>1, <2>2
<1> QED
  BY <1>8, <1>9, <1>10, <1>11, <1>12 DEF IInv

\* The failure handler deletes the lock of its own body, and no other.
LEMMA UnlockStep ==
  ASSUME IInv, TypeOK', PlainKeys, NEW w \in Worker, pc[w] \in Inside,
         redis' = Del(redis, {LockKey(WorkKey(w))}),
         UNCHANGED <<msg, since, fate>>, ClockKept, pc' = [pc EXCEPT ![w] = "raised"]
  PROVE  IInv'
<1>1. PICK k \in IdemKey : k = WorkKey(w)
  BY InsideMargin
<1>2. /\ fate[k] # "saved"
      /\ \A v \in Worker : (pc[v] \in Inside /\ WorkKey(v) = k) => v = w
  BY <1>1, InsideMargin
<1>3. \A v \in Worker : /\ WorkKey(v)' = WorkKey(v)
                        /\ pc'[v] \in Inside => /\ pc[v] \in Inside /\ v # w
                                                /\ WorkKey(v) \in IdemKey
  BY Params DEF WorkKey, TaskOf, IInv, TypeOK, Inside
<1>4. /\ ~Locked(k)'
      /\ \A m \in RedisKey : m # LockKey(k) => redis'[m] = redis[m]
  BY <1>1, UnlockEffect DEF Locked, IInv, TypeOK
<1>5. \A l \in IdemKey : l # k => /\ redis'[LockKey(l)] = redis[LockKey(l)]
                                  /\ Locked(l)' = Locked(l)
  BY <1>4, Apart DEF Locked, Exists
<1>6. \A l \in IdemKey : redis'[ResultKey(l)] = redis[ResultKey(l)]
  BY <1>4, Apart
<1>7. LockAge'
  BY <1>4, <1>5 DEF IInv, LockAge
<1>8. InsideHolds'
  <2> SUFFICES ASSUME NEW v \in Worker, pc'[v] \in Inside
               PROVE  /\ Locked(WorkKey(v))' /\ since'[WorkKey(v)'] <= elapsed'[v]
                      /\ fate'[WorkKey(v)'] # "saved"
    BY DEF InsideHolds
  <2>1. WorkKey(v) \in IdemKey /\ WorkKey(v) # k /\ pc[v] \in Inside
    BY <1>2, <1>3
  <2> QED
    BY <1>3, <1>5, <2>1 DEF IInv, InsideHolds, Locked, ClockKept
<1>9. OneBodyPerKey'
  BY <1>3 DEF IInv, OneBodyPerKey
<1>10. (SavedHolds /\ SavedHasResult)'
  BY <1>2, <1>4, <1>5, <1>6 DEF IInv, SavedHolds, SavedHasResult
<1> QED
  BY <1>7, <1>8, <1>9, <1>10 DEF IInv

\* A second that passes: the lock of a body outlasts the second, because the
\* hard limit comes before the window's end; a lock that runs out had its
\* full window; a result runs out with its lock at the earliest.
LEMMA TickStep ==
  ASSUME IInv, TypeOK', PlainKeys, Tick
  PROVE  IInv'
<1> USE DEF Broker
<1>1. \A m \in RedisKey :
        /\ redis[m].ttl > 1 => redis'[m].ttl = redis[m].ttl - 1
        /\ redis[m].ttl = 1 => redis'[m].ttl = Missing
        /\ Exists(redis', m) <=> (Exists(redis, m) /\ redis[m].ttl # 1)
        /\ redis[m].ttl \in Int /\ redis'[m].ttl \in Int
        /\ Exists(redis, m) => (redis[m].ttl = Persistent \/ redis[m].ttl >= 1)
  <2>1. redis \in [RedisKey -> Entry(Value)] /\ redis' = Elapse(redis)
    BY DEF Tick, IInv, TypeOK, RedisType
  <2>2. redis' \in [RedisKey -> Entry(Value)]
    BY <2>1, ElapseEffect
  <2>3. \A m \in RedisKey : redis[m].ttl \in Ttl /\ redis'[m].ttl \in Ttl
    BY <2>1, <2>2 DEF Entry
  <2> QED
    BY <2>1, <2>3, ElapseEffect DEF Exists, Absent, Missing, Persistent, Ttl
<1>2. \A k \in IdemKey : /\ LockKey(k) \in RedisKey /\ ResultKey(k) \in RedisKey
                         /\ since[k] \in 0..Window
                         /\ since'[k] = IF since[k] < Window THEN since[k] + 1
                                                             ELSE Window
  BY KeysInStore DEF Tick, IInv, TypeOK
<1>3. /\ fate' = fate /\ pc' = pc /\ msg' = msg
      /\ \A w \in Worker : WorkKey(w)' = WorkKey(w)
  BY DEF Tick, WorkKey, TaskOf
<1>4. Window \in Nat /\ HardLimit \in Nat /\ HardLimit < Window
  BY TaskAssumption
<1>5. \A k \in IdemKey : Locked(k) =>
        /\ redis[LockKey(k)].ttl >= 1
        /\ redis[LockKey(k)].ttl + since[k] = Window
        /\ since[k] < Window /\ since'[k] = since[k] + 1
  BY <1>1, <1>2, <1>4 DEF IInv, LockAge, Locked, Persistent
<1>6. \A k \in IdemKey : Locked(k)' <=> (Locked(k) /\ redis[LockKey(k)].ttl > 1)
  BY <1>1, <1>2, <1>5 DEF Locked
<1>7. LockAge'
  BY <1>1, <1>2, <1>5, <1>6 DEF LockAge
<1>8. InsideHolds'
  <2> SUFFICES ASSUME NEW w \in Worker, pc[w] \in Inside
               PROVE  /\ Locked(WorkKey(w))' /\ since'[WorkKey(w)'] <= elapsed'[w]
                      /\ fate'[WorkKey(w)'] # "saved"
    BY <1>3 DEF InsideHolds
  <2>1. PICK k \in IdemKey : k = WorkKey(w)
    BY InsideMargin
  <2>2. /\ Locked(k) /\ since[k] <= elapsed[w] /\ fate[k] # "saved"
    BY <2>1 DEF IInv, InsideHolds
  <2>3. /\ elapsed[w] < HardLimit /\ elapsed[w] \in Nat
        /\ elapsed'[w] = elapsed[w] + 1
    BY TaskAssumption DEF Tick, AtWork, Inside, IInv, TypeOK
  <2>4. redis[LockKey(k)].ttl > 1
    BY <1>1, <1>2, <1>4, <1>5, <2>2, <2>3
  <2>5. Locked(k)' /\ since'[k] <= elapsed'[w]
    BY <1>2, <1>5, <1>6, <2>2, <2>3, <2>4
  <2> QED
    BY <1>3, <2>1, <2>2, <2>5 DEF Locked
<1>9. OneBodyPerKey'
  BY <1>3 DEF IInv, OneBodyPerKey
<1>10. SavedHolds'
  <2> SUFFICES ASSUME NEW k \in IdemKey, fate[k] = "saved", since'[k] < Window
               PROVE  Locked(k)'
    BY <1>3 DEF SavedHolds
  <2>1. since[k] + 1 < Window
    BY <1>2, <1>4
  <2>2. Locked(k)
    BY <1>2, <1>4, <2>1 DEF IInv, SavedHolds
  <2> QED
    BY <1>1, <1>2, <1>4, <1>5, <1>6, <2>1, <2>2
<1>11. SavedHasResult'
  BY <1>1, <1>2, <1>3, <1>5, <1>6 DEF IInv, SavedHasResult
<1> QED
  BY <1>7, <1>8, <1>9, <1>10, <1>11 DEF IInv

-----------------------------------------------------------------------------

LEMMA InitInv == Init => IInv
<1> SUFFICES ASSUME Init PROVE IInv
  OBVIOUS
<1>1. TypeOK
  BY InitType
<1>2. \A k \in IdemKey : ~Locked(k)
  BY KeysInStore DEF Init, Empty, Locked, Exists, Absent
<1>3. \A w \in Worker : pc[w] \notin Inside
  BY DEF Init, Inside
<1> QED
  BY <1>1, <1>2, <1>3
  DEF Init, IInv, LockAge, InsideHolds, OneBodyPerKey, SavedHolds, SavedHasResult

LEMMA NextInv == PlainKeys /\ IInv /\ [Next]_vars => IInv'
<1> SUFFICES ASSUME PlainKeys, IInv, [Next]_vars PROVE IInv'
  OBVIOUS
<1>1. TypeOK'
  BY NextType DEF IInv
<1>0. \A w \in Worker :
        \/ Lock(w) \/ LockFails(w) \/ RunBody(w) \/ Save(w) \/ SaveFails(w)
        \/ Unlock(w) \/ UnlockFails(w)
        => ClockKept
  BY GotoKeepsClock
  DEF IInv, Lock, LockFails, RunBody, Save, SaveFails, Unlock, UnlockFails,
      Return, Report, Raise
<1> USE DEF Broker, Ghosts, Frame, Goto, Inside
<1>2. CASE UNCHANGED vars
  BY <1>1, <1>2, QuietStep DEF vars
<1>3. ASSUME NEW w \in Worker, NEW m \in Message, Deliver(w, m) PROVE IInv'
  BY <1>1, <1>3, QuietStep DEF Deliver, Take, IInv, TypeOK
<1>4. ASSUME NEW w \in Worker, Lock(w) PROVE IInv'
  BY <1>0, <1>1, <1>4, TakeStep DEF Lock
<1>5. ASSUME NEW w \in Worker, LockFails(w) PROVE IInv'
  <2>1. CASE SetLock(w) /\ ~Locked(WorkKey(w))
    BY <1>0, <1>1, <1>5, <2>1, TakeStep DEF LockFails, Raise
  <2>2. CASE SetLock(w) /\ Locked(WorkKey(w))
    <3>1. UNCHANGED <<redis, since, fate>>
      BY <1>5, <2>2, Params, LockEffect DEF LockFails, IInv, TypeOK
    <3> QED
      BY <1>1, <1>5, <3>1, QuietStep DEF LockFails, Raise, IInv, TypeOK
  <2>3. CASE UNCHANGED <<redis, Ghosts>>
    BY <1>1, <1>5, <2>3, QuietStep DEF LockFails, Raise, IInv, TypeOK
  <2> QED
    BY <1>5, <2>1, <2>2, <2>3 DEF LockFails, FailsAs
<1>6. ASSUME NEW w \in Worker, Duplicate(w) PROVE IInv'
  BY <1>1, <1>6, QuietStep DEF Duplicate, Return, Report, Raise, IInv, TypeOK
<1>7. ASSUME NEW w \in Worker, GetCached(w) \/ GetCachedFails(w) PROVE IInv'
  BY <1>1, <1>7, QuietStep DEF GetCached, GetCachedFails, Return, Report, Raise, IInv, TypeOK
<1>8. ASSUME NEW w \in Worker, RunBody(w) PROVE IInv'
  BY <1>0, <1>1, <1>8, KeepStep DEF RunBody
<1>9. ASSUME NEW w \in Worker, BodyRaises(w) PROVE IInv'
  BY <1>1, <1>9, QuietStep DEF BodyRaises, IInv, TypeOK
<1>10. ASSUME NEW w \in Worker, Save(w) PROVE IInv'
  BY <1>0, <1>1, <1>10, KeepStep DEF Save, Return, Report
<1>11. ASSUME NEW w \in Worker, SaveFails(w) PROVE IInv'
  BY <1>0, <1>1, <1>11, KeepStep DEF SaveFails, FailsAs
<1>12. ASSUME NEW w \in Worker, Unlock(w) PROVE IInv'
  BY <1>0, <1>1, <1>12, UnlockStep DEF Unlock
<1>13. ASSUME NEW w \in Worker, UnlockFails(w) PROVE IInv'
  <2>1. CASE redis' = Del(redis, {LockKey(WorkKey(w))})
    BY <1>0, <1>1, <1>13, <2>1, UnlockStep DEF UnlockFails, Raise
  <2>2. CASE UNCHANGED redis
    BY <1>1, <1>13, <2>2, QuietStep DEF UnlockFails, Raise, IInv, TypeOK
  <2> QED
    BY <1>13, <2>1, <2>2 DEF UnlockFails, FailsAs
<1>14. ASSUME NEW w \in Worker, Retry(w) \/ Fail(w) PROVE IInv'
  BY <1>1, <1>14, QuietStep DEF Retry, Fail, Report, IInv, TypeOK
<1>15. ASSUME NEW w \in Worker, ReadOutcome(w) \/ StoreOutcome(w) PROVE IInv'
  BY <1>1, <1>15, QuietStep DEF ReadOutcome, StoreOutcome, Reported, IInv, TypeOK
<1>16. ASSUME NEW w \in Worker, Ack(w) \/ Kill(w) PROVE IInv'
  BY <1>1, <1>16, QuietStep DEF Ack, Kill, Free, IInv, TypeOK
<1>17. ASSUME NEW w \in Worker, TimeLimit(w) \/ Terminate(w) PROVE IInv'
  <2>1. \A v \in Worker : pc'[v] \in Inside => v # w /\ pc[v] \in Inside
                                              /\ elapsed'[v] = elapsed[v]
    BY <1>17 DEF TimeLimit, Terminate, Stop, Reported, IInv, TypeOK
  <2> QED
    BY <1>1, <1>17, <2>1, QuietStep DEF TimeLimit, Terminate
<1>18. ASSUME NEW w \in Worker, NEW m \in Message, Discard(w, m) PROVE IInv'
  <2>1. \A v \in Worker : pc'[v] \in Inside => v # w /\ pc[v] \in Inside
                                              /\ elapsed'[v] = elapsed[v]
                                              /\ msg'[v] = msg[v]
    BY <1>18 DEF Discard, Take, Stop, Reported, IInv, TypeOK
  <2> QED
    BY <1>1, <1>18, <2>1, QuietStep DEF Discard
<1>19. ASSUME NEW w \in Worker, Disconnect(w) PROVE IInv'
  BY <1>1, <1>19, QuietStep DEF Disconnect, IInv, TypeOK
<1>20. CASE Tick
  BY <1>1, <1>20, TickStep
<1>21. CASE (\E t \in Task : Revoke(t)) \/ Restart
  BY <1>1, <1>21, QuietStep DEF Revoke, Restart
<1> QED
  BY <1>2, <1>3, <1>4, <1>5, <1>6, <1>7, <1>8, <1>9, <1>10, <1>11, <1>12,
     <1>13, <1>14, <1>15, <1>16, <1>17, <1>18, <1>19, <1>20, <1>21
  DEF Next, Wrapper, Celery

\* The invariant holds in every state, when no key nests in another's lock.
LEMMA Invariant == ASSUME PlainKeys PROVE Spec => []IInv
BY InitInv, NextInv, PTL DEF Spec

\* At most one process is in the body of a key's tasks, for any number of
\* processes, tasks, keys, retries and losses, as long as the hard limit is
\* shorter than the decorator's ttl.
THEOREM MutualExclusion == ASSUME PlainKeys PROVE Spec => []OneBodyPerKey
<1>1. IInv => OneBodyPerKey
  BY DEF IInv
<1> QED
  BY <1>1, Invariant, PTL

\* A duplicate that finds the lock of a finished run finds its result.
THEOREM CachedResult == ASSUME PlainKeys PROVE Spec => []ResultOutlivesLock
<1>1. IInv => ResultOutlivesLock
  <2> SUFFICES ASSUME IInv, NEW k \in IdemKey, Locked(k), fate[k] = "saved"
               PROVE  HasResult(k)
    BY DEF ResultOutlivesLock
  <2>1. redis[ResultKey(k)].ttl >= redis[LockKey(k)].ttl
    BY DEF IInv, SavedHasResult
  <2>2. redis[LockKey(k)].ttl + since[k] = Window /\ since[k] \in 0..Window
    BY DEF IInv, LockAge, TypeOK
  <2>3. redis[LockKey(k)].ttl \in Ttl /\ redis[ResultKey(k)].ttl \in Ttl
    BY KeysInStore DEF IInv, TypeOK, RedisType, Entry
  <2> QED
    BY <2>1, <2>2, <2>3, TaskAssumption
    DEF Locked, HasResult, Exists, Ttl, Missing, Persistent
<1> QED
  BY <1>1, Invariant, PTL

\* After a run whose result is stored, no body of its key is entered until
\* the window that began with its lock is over.
THEOREM WindowKept == ASSUME PlainKeys PROVE Spec => NoRerunWithinWindow
<1> DEFINE A == \A w \in Worker :
                  pc[w] # "body" /\ pc'[w] = "body" /\ fate[WorkKey(w)] = "saved"
                    => since[WorkKey(w)] = Window
<1>1. IInv /\ [Next]_vars => [A]_vars
  <2> SUFFICES ASSUME IInv, [Next]_vars, NEW w \in Worker,
                      pc[w] # "body", pc'[w] = "body", fate[WorkKey(w)] = "saved"
               PROVE  since[WorkKey(w)] = Window
    OBVIOUS
  <2>0. pc \in [Worker -> PC]
    BY DEF IInv, TypeOK
  <2> USE DEF Goto, Return, Report, Raise, Free
  <2>1. ASSUME NEW v \in Worker, Wrapper(v)
        PROVE  Lock(w)
    BY <2>0, <2>1
    DEF Wrapper, Lock, LockFails, Duplicate, GetCached, GetCachedFails, RunBody,
        BodyRaises, Save, SaveFails, Unlock, UnlockFails
  <2>2. ASSUME NEW v \in Worker,
               Celery(v) \/ Kill(v) \/ Disconnect(v) \/ Terminate(v)
                 \/ (\E m \in Message : Deliver(v, m) \/ Discard(v, m))
        PROVE  FALSE
    BY <2>0, <2>2
    DEF Celery, Retry, Fail, ReadOutcome, StoreOutcome, Reported, Ack, TimeLimit,
        Stop, Kill, Disconnect, Terminate, Deliver, Discard
  <2>3. /\ ~(UNCHANGED vars) /\ ~Tick /\ ~Restart
        /\ \A t \in Task : ~Revoke(t)
    BY DEF vars, Tick, Broker, Restart, Revoke
  <2>4. Lock(w)
    BY <2>1, <2>2, <2>3 DEF Next
  <2>5. WorkKey(w) \in IdemKey /\ ~Locked(WorkKey(w))
    BY <2>4, Params DEF Lock, IInv
  <2>6. since[WorkKey(w)] \in 0..Window
    BY <2>5 DEF IInv, TypeOK
  <2> QED
    BY <2>5, <2>6, TaskAssumption DEF IInv, SavedHolds
<1> QED
  BY <1>1, Invariant, PTL DEF Spec, NoRerunWithinWindow

-----------------------------------------------------------------------------
(***************************************************************************)
(* While no delivery was lost and no revoke asked for, a task has one copy *)
(* at most that is to be run or is running.  Nobody but this copy puts the *)
(* task's name into the lock.  The handler has therefore taken the name    *)
(* away again where the copy is to be retried, and where the name stays,   *)
(* because the delete or the answer to the SET was lost, the exception is  *)
(* not one that is retried.                                                *)
(***************************************************************************)
HasLock(t) == Get(redis, LockKey(KeyOf[t])) = Processing(t)

\* A process in the wrapper, which has not got anything to report yet.
Running(w) == pc[w] \in Inside \cup {"lock", "cached", "raised"}

OneCopy ==
    /\ \A m, n \in Message : ready[m] > 0 /\ ready[n] > 0 /\ m[1] = n[1] => m = n
    /\ \A m \in Message : ready[m] <= 1
    /\ \A m \in Message, w \in Worker : ready[m] > 0 /\ Running(w) => TaskOf(w) # m[1]
    /\ \A v, w \in Worker : Running(v) /\ Running(w) /\ TaskOf(v) = TaskOf(w) => v = w

\* The processes that have not taken the lock, or have given it back.
Without(w) == pc[w] \in {"lock", "cached"} \/ (pc[w] = "raised" /\ raised[w] = "retryable")

NameIsGone ==
    /\ \A m \in Message : ready[m] > 0 => ~HasLock(m[1])
    /\ \A w \in Worker : Without(w) => ~HasLock(TaskOf(w))

CopyInv == losses = MaxLosses => revoked = {} /\ OneCopy /\ NameIsGone

\* Only the task itself puts its name into the lock; it goes on to the body,
\* or to a failure that is not retried.
LEMMA NameStep ==
  ASSUME TypeOK, [Next]_vars, NEW t \in Task, HasLock(t)', ~HasLock(t)
  PROVE  \E w \in Worker :
           /\ Lock(w) \/ LockFails(w)
           /\ TaskOf(w) = t
<1> USE DEF Broker, Ghosts, Frame, FailsAs
<1>1. /\ KeyOf[t] \in IdemKey /\ t \in Owner
      /\ LockKey(KeyOf[t]) \in RedisKey
      /\ redis \in [RedisKey -> Entry(Value)]
      /\ Processing(t) # Nil
  BY KeysInStore, TaskAssumption, ValuesDiffer DEF TypeOK, RedisType
<1>2. redis' # redis
  BY DEF HasLock
<1>3. ASSUME NEW w \in Worker, Lock(w) \/ LockFails(w)
      PROVE  TaskOf(w) = t
  <2>1. redis' = SetNxEx(redis, LockKey(WorkKey(w)), Processing(TaskOf(w)), Window)
    BY <1>2, <1>3 DEF Lock, LockFails, SetLock
  <2>2. WorkKey(w) \in IdemKey /\ TaskOf(w) \in Task
    BY <1>3, Params DEF Lock, LockFails
  <2>3. redis'[LockKey(KeyOf[t])].val \in {Get(redis, LockKey(KeyOf[t])), Processing(TaskOf(w))}
    BY <1>1, <2>1, <2>2, KeysInStore DEF SetNxEx, SetEx, Get
  <2> QED
    BY <2>3, ValuesDiffer DEF HasLock, Get
<1>4. ASSUME NEW w \in Worker, Save(w) \/ SaveFails(w)
      PROVE  FALSE
  <2>1. redis' = SetEx(redis, ResultKey(WorkKey(w)), ResultOf(TaskOf(w)), Window)
    BY <1>2, <1>4 DEF Save, SaveFails, SetResult
  <2>2. redis'[LockKey(KeyOf[t])].val \in {Get(redis, LockKey(KeyOf[t])), ResultOf(TaskOf(w))}
    BY <1>1, <2>1 DEF SetEx, Get
  <2> QED
    BY <2>2, ValuesDiffer DEF HasLock, Get
<1>5. ASSUME NEW w \in Worker, Unlock(w) \/ UnlockFails(w)
      PROVE  FALSE
  <2>1. redis' = Del(redis, {LockKey(WorkKey(w))})
    BY <1>2, <1>5 DEF Unlock, UnlockFails
  <2>2. redis'[LockKey(KeyOf[t])].val \in {Get(redis, LockKey(KeyOf[t])), Nil}
    BY <1>1, <2>1 DEF Del, Absent, Get
  <2> QED
    BY <1>1, <2>2 DEF HasLock, Get
<1>6. ~Tick
  <2> SUFFICES ASSUME Tick PROVE FALSE
    OBVIOUS
  <2>1. redis' = Elapse(redis)
    BY DEF Tick
  <2>2. redis'[LockKey(KeyOf[t])].val \in {Get(redis, LockKey(KeyOf[t])), Nil}
    BY <1>1, <2>1, ElapseEffect DEF Absent, Get
  <2> QED
    BY <1>1, <2>2 DEF HasLock, Get
<1> QED
  BY <1>2, <1>3, <1>4, <1>5, <1>6
  DEF Next, Wrapper, Celery, Deliver, Duplicate, GetCached, GetCachedFails,
      RunBody, BodyRaises, Retry, Fail, ReadOutcome, StoreOutcome, Ack, TimeLimit,
      Kill, Disconnect, Terminate, Discard, Revoke, Restart, vars

\* A process at work goes on with its copy or is done with it.
LEMMA WorkStep ==
  ASSUME TypeOK, OneCopy, NameIsGone, NEW w \in Worker, Running(w),
         UNCHANGED ready,
         \A v \in Worker : v # w =>
           pc'[v] = pc[v] /\ msg'[v] = msg[v] /\ raised'[v] = raised[v],
         Running(w)' => msg'[w] = msg[w],
         \A t \in Task : t # TaskOf(w) => (HasLock(t)' => HasLock(t)),
         \E t \in Task : t = TaskOf(w) /\ (Without(w)' => ~HasLock(t)')
  PROVE  (OneCopy /\ NameIsGone)'
<1>1. PICK t \in Task : t = TaskOf(w) /\ (Without(w)' => ~HasLock(t)')
  OBVIOUS
<1>2. \A v \in Worker : v # w => /\ Running(v)' = Running(v)
                                 /\ TaskOf(v)' = TaskOf(v)
                                 /\ Without(v)' = Without(v)
  BY DEF Running, TaskOf, Without
<1>3. /\ Running(w)' => TaskOf(w)' = t
      /\ \A v \in Worker : Without(v) => Running(v)
      /\ Without(w)' => Running(w)'
  BY <1>1 DEF Running, TaskOf, Without
<1>4. \A v \in Worker : v # w /\ Running(v) => TaskOf(v) \in Task /\ TaskOf(v) # t
  BY <1>1, Params DEF OneCopy, Running, Inside
<1>5. \A m \in Message : ready[m] > 0 => m[1] \in Task /\ m[1] # t
  BY <1>1 DEF OneCopy, Message
<1>6. OneCopy'
  BY <1>1, <1>2, <1>3 DEF OneCopy
<1>7. \A u \in Task : u # t => (HasLock(u)' => HasLock(u))
  BY <1>1
<1>8. NameIsGone'
  <2>1. ASSUME NEW m \in Message, ready'[m] > 0 PROVE ~HasLock(m[1])'
    <3>1. PICK u \in Task : u = m[1] /\ (HasLock(u)' => HasLock(u))
      BY <1>5, <1>7, <2>1
    <3> QED
      BY <2>1, <3>1 DEF NameIsGone
  <2>2. ASSUME NEW v \in Worker, Without(v)' PROVE ~HasLock(TaskOf(v))'
    <3>1. PICK u \in Task : /\ u = TaskOf(v)' /\ ~HasLock(u)'
      <4>1. CASE v = w
        BY <1>1, <1>3, <2>2, <4>1
      <4>2. CASE v # w
        <5>1. PICK u \in Task : u = TaskOf(v) /\ u # t /\ u = TaskOf(v)' /\ Without(v)
          BY <1>2, <1>3, <1>4, <2>2, <4>2
        <5>2. ~HasLock(u)
          BY <5>1 DEF NameIsGone
        <5> QED
          BY <1>7, <5>1, <5>2
      <4> QED
        BY <4>1, <4>2
    <3> QED
      BY <3>1 DEF HasLock
  <2> QED
    BY <2>1, <2>2 DEF NameIsGone
<1> QED
  BY <1>6, <1>8

\* The wrapper's steps.
LEMMA WrapperCopy ==
  ASSUME TypeOK, OneCopy, NameIsGone, NEW w \in Worker, Wrapper(w)
  PROVE  (OneCopy /\ NameIsGone)'
<1>1. PICK t \in Task : t = TaskOf(w) /\ KeyOf[t] = WorkKey(w) /\ KeyOf[t] \in IdemKey
  <2>1. pc[w] # "idle"
    BY DEF Wrapper, Lock, LockFails, Duplicate, GetCached, GetCachedFails, RunBody,
           BodyRaises, Save, SaveFails, Unlock, UnlockFails, Inside
  <2> QED
    BY <2>1, Params DEF WorkKey
<1>2. Running(w) /\ [Next]_vars
  BY DEF Wrapper, Lock, LockFails, Duplicate, GetCached, GetCachedFails, RunBody,
         BodyRaises, Save, SaveFails, Unlock, UnlockFails, Running, Inside, Next
<1>3. /\ UNCHANGED <<ready, msg>>
      /\ \A v \in Worker : v # w => pc'[v] = pc[v] /\ raised'[v] = raised[v]
  BY <1>1
  DEF Wrapper, Lock, LockFails, Duplicate, GetCached, GetCachedFails, RunBody,
      BodyRaises, Save, SaveFails, Unlock, UnlockFails, Return, Raise, Report, Owe,
      Goto, Frame, Broker, TypeOK
<1>4. \A u \in Task : u # t => (HasLock(u)' => HasLock(u))
  <2> SUFFICES ASSUME NEW u \in Task, HasLock(u)', ~HasLock(u) PROVE u = t
    OBVIOUS
  <2>1. PICK v \in Worker : (Lock(v) \/ LockFails(v)) /\ TaskOf(v) = u
    BY <1>2, NameStep
  <2>2. v = w
    <3>1. pc[v] = "lock" /\ pc'[v] # "lock"
      BY <2>1 DEF Lock, LockFails, Raise, Goto, TypeOK
    <3> QED
      BY <1>3, <3>1
  <2> QED
    BY <1>1, <2>1, <2>2
<1>5. Without(w)' => ~HasLock(t)'
  <2> SUFFICES ASSUME Without(w)' PROVE ~HasLock(t)'
    OBVIOUS
  <2>1. CASE Unlock(w)
    <3>1. redis' = Del(redis, {LockKey(KeyOf[t])}) /\ LockKey(KeyOf[t]) \in RedisKey
      BY <1>1, <2>1, KeysInStore DEF Unlock
    <3>2. Get(redis', LockKey(KeyOf[t])) = Nil
      BY <3>1 DEF Del, Absent, Get, TypeOK, RedisType
    <3> QED
      BY <3>2, ValuesDiffer, TaskAssumption DEF HasLock
  <2>2. CASE Duplicate(w) \/ GetCached(w) \/ GetCachedFails(w)
    <3>1. ~HasLock(t)
      BY <1>1, <2>2
      DEF NameIsGone, Without, Duplicate, GetCached, GetCachedFails
    <3>2. redis' = redis
      BY <2>2 DEF Duplicate, GetCached, GetCachedFails
    <3> QED
      BY <3>1, <3>2 DEF HasLock
  <2>3. CASE \/ Lock(w) \/ LockFails(w) \/ RunBody(w) \/ BodyRaises(w)
             \/ Save(w) \/ SaveFails(w) \/ UnlockFails(w)
    BY <2>3
    DEF Lock, LockFails, RunBody, BodyRaises, Save, SaveFails, UnlockFails, Return,
        Report, Raise, Goto, Without, TypeOK
  <2> QED
    BY <2>1, <2>2, <2>3 DEF Wrapper
<1> QED
  BY <1>1, <1>2, <1>3, <1>4, <1>5, WorkStep

\* A step that gives nobody a copy or a lock.
LEMMA RestCopy ==
  ASSUME TypeOK, OneCopy, NameIsGone,
         \/ UNCHANGED vars \/ Restart \/ Tick
         \/ \E w \in Worker : \/ Fail(w) \/ ReadOutcome(w) \/ StoreOutcome(w)
                              \/ TimeLimit(w) \/ Ack(w)
  PROVE  (OneCopy /\ NameIsGone)'
<1>1. UNCHANGED ready
  BY DEF vars, Restart, Tick, Fail, ReadOutcome, StoreOutcome, TimeLimit, Ack, Frame,
         Broker
<1>2. \A v \in Worker : /\ Running(v)' => Running(v) /\ TaskOf(v)' = TaskOf(v)
                        /\ Without(v)' => Without(v) /\ TaskOf(v)' = TaskOf(v)
  BY DEF vars, Restart, Tick, Fail, ReadOutcome, StoreOutcome, TimeLimit, Ack, Frame,
         Broker, Report, Owe, Reported, Stop, Free, Goto, Running, Inside, TaskOf,
         Without, TypeOK
<1>3. \A t \in Task : HasLock(t)' => HasLock(t)
  <2> SUFFICES ASSUME NEW t \in Task, HasLock(t)', ~HasLock(t) PROVE FALSE
    OBVIOUS
  <2>1. redis' # redis
    BY DEF HasLock
  <2>2. Tick
    BY <2>1 DEF vars, Restart, Fail, ReadOutcome, StoreOutcome, TimeLimit, Ack
  <2>3. PICK w \in Worker : Lock(w) \/ LockFails(w)
    BY <2>2, NameStep DEF Next
  <2>4. pc'[w] # pc[w]
    BY <2>3 DEF Lock, LockFails, Raise, Goto, TypeOK
  <2> QED
    BY <2>2, <2>4 DEF Tick
<1>4. OneCopy'
  BY <1>1, <1>2 DEF OneCopy
<1>5. NameIsGone'
  <2>1. ASSUME NEW m \in Message, ready'[m] > 0 PROVE ~HasLock(m[1])'
    <3>1. PICK t \in Task : t = m[1]
      BY DEF Message
    <3>2. ~HasLock(t)
      BY <1>1, <2>1, <3>1 DEF NameIsGone
    <3> QED
      BY <1>3, <3>1, <3>2
  <2>2. ASSUME NEW v \in Worker, Without(v)' PROVE ~HasLock(TaskOf(v))'
    <3>1. PICK t \in Task : t = TaskOf(v) /\ Without(v)
      BY <1>2, <2>2, Params DEF Without
    <3>2. ~HasLock(t)' /\ TaskOf(v)' = t
      BY <1>2, <1>3, <2>2, <3>1 DEF NameIsGone
    <3> QED
      BY <3>2 DEF HasLock
  <2> QED
    BY <2>1, <2>2 DEF NameIsGone
<1> QED
  BY <1>4, <1>5

\* A copy goes from the queue to a process; the others and the lock stay as
\* they are.
LEMMA DeliverCopy ==
  ASSUME TypeOK, OneCopy, NameIsGone,
         NEW w \in Worker, NEW n \in Message, Deliver(w, n)
  PROVE  (OneCopy /\ NameIsGone)'
<1>1. PICK t \in Task : t = n[1]
  BY DEF Message
<1>2. /\ ready[n] = 1 /\ ready'[n] = 0
      /\ \A m \in Message : m # n => ready'[m] = ready[m]
  BY DEF Deliver, Take, OneCopy, TypeOK
<1>3. \A m \in Message : ready'[m] > 0 => ready[m] > 0 /\ m[1] # t
  BY <1>1, <1>2 DEF OneCopy
<1>4. /\ \A v \in Worker : v # w => pc'[v] = pc[v] /\ msg'[v] = msg[v]
      /\ pc'[w] = "lock" /\ msg'[w] = n
      /\ UNCHANGED <<raised, redis>>
  BY DEF Deliver, Take, Goto, TypeOK
<1>5. \A v \in Worker : v # w => /\ Running(v)' <=> Running(v)
                                 /\ TaskOf(v)' = TaskOf(v)
                                 /\ Without(v)' <=> Without(v)
  BY <1>4 DEF Running, TaskOf, Without
<1>6. /\ TaskOf(w)' = t /\ ~HasLock(t)
      /\ \A v \in Worker : Running(v) => TaskOf(v) # t
  BY <1>1, <1>2, <1>4 DEF TaskOf, OneCopy, NameIsGone
<1>7. OneCopy'
  BY <1>2, <1>3, <1>5, <1>6, <1>1 DEF OneCopy
<1>8. NameIsGone'
  BY <1>3, <1>4, <1>5, <1>6 DEF NameIsGone, HasLock
<1> QED
  BY <1>7, <1>8

\* A copy goes back to the queue with the next retry number.
LEMMA RetryCopy ==
  ASSUME TypeOK, OneCopy, NameIsGone, NEW w \in Worker, Retry(w)
  PROVE  (OneCopy /\ NameIsGone)'
<1>1. PICK t \in Task : t = TaskOf(w)
  BY Params DEF Retry
<1>2. PICK n \in Message : n = <<t, Retries(w) + 1>>
  <2>1. Retries(w) + 1 \in 0..MaxRetries
    BY Params, TaskAssumption DEF Retry
  <2> QED
    BY <2>1 DEF Message
<1>3. Running(w) /\ Without(w) /\ ~Running(w)' /\ ~Without(w)'
  BY DEF Retry, Report, Goto, Running, Inside, Without, TypeOK
<1>4. \A m \in Message : ready[m] > 0 => m[1] # t
  BY <1>1, <1>3 DEF OneCopy
<1>5. /\ ready[n] = 0 /\ ready'[n] = 1
      /\ \A m \in Message : m # n => ready'[m] = ready[m]
  BY <1>1, <1>2, <1>4 DEF Retry, TypeOK
<1>6. /\ \A v \in Worker : v # w => pc'[v] = pc[v] /\ raised'[v] = raised[v]
      /\ UNCHANGED <<msg, redis>>
  BY <1>1 DEF Retry, Report, Owe, Goto, TypeOK
<1>7. ~HasLock(t)'
  BY <1>1, <1>3, <1>6 DEF NameIsGone, HasLock
<1>8. \A v \in Worker : Running(v)' => /\ Running(v) /\ v # w
                                       /\ TaskOf(v)' = TaskOf(v)
                                       /\ TaskOf(v) \in Task /\ TaskOf(v) # t
  BY <1>1, <1>3, <1>6, Params DEF Running, Inside, TaskOf, OneCopy
<1>9. \A m \in Message : ready'[m] > 0 =>
        m = n \/ (ready[m] > 0 /\ m[1] \in Task /\ m[1] # t)
  BY <1>4, <1>5 DEF Message
<1>10. n[1] = t
  BY <1>2
<1>11. OneCopy'
  BY <1>5, <1>8, <1>9, <1>10 DEF OneCopy
<1>12. \A v \in Worker : Without(v)' => Without(v) /\ Running(v)'
  BY <1>3, <1>6 DEF Without, Running
<1>13. NameIsGone'
  BY <1>6, <1>7, <1>8, <1>9, <1>10, <1>12 DEF NameIsGone, HasLock
<1> QED
  BY <1>11, <1>13

\* No step gives a loss back, and every loss and revoke takes one.
LEMMA LossStep ==
  ASSUME TypeOK, [Next]_vars, losses' = MaxLosses
  PROVE  /\ losses = MaxLosses
         /\ \A w \in Worker : ~Kill(w) /\ ~Disconnect(w) /\ ~Terminate(w)
         /\ \A t \in Task : ~Revoke(t)
         /\ revoked' = revoked \/ revoked' = {}
<1>1. MaxLosses \in Nat /\ losses \in 0..MaxLosses
  BY TaskAssumption DEF TypeOK
<1>2. /\ \A w \in Worker : ~Kill(w) /\ ~Disconnect(w) /\ ~Terminate(w)
      /\ \A t \in Task : ~Revoke(t)
  BY <1>1 DEF Kill, Disconnect, Terminate, Revoke
<1>3. losses' = losses /\ (revoked' = revoked \/ revoked' = {})
  BY <1>2
  DEF Next, Wrapper, Celery, Deliver, Lock, LockFails, Duplicate, GetCached,
      GetCachedFails, RunBody, BodyRaises, Save, SaveFails, Unlock, UnlockFails,
      Retry, Fail, ReadOutcome, StoreOutcome, Ack, TimeLimit, Discard, Restart, Tick,
      Frame, Broker, vars
<1> QED
  BY <1>2, <1>3

LEMMA InitCopy == Init => CopyInv
<1> SUFFICES ASSUME Init PROVE revoked = {} /\ OneCopy /\ NameIsGone
  BY DEF CopyInv
<1>1. \A m \in Message : m \in Task \X (0..MaxRetries) /\ ready[m] = IF m[2] = 0 THEN 1 ELSE 0
  BY DEF Init, Message
<1>2. \A w \in Worker : ~Running(w) /\ ~Without(w)
  BY DEF Init, Running, Inside, Without
<1>3. OneCopy
  BY <1>1, <1>2 DEF OneCopy
<1>4. \A t \in Task : ~HasLock(t)
  <2> SUFFICES ASSUME NEW t \in Task PROVE ~HasLock(t)
    OBVIOUS
  <2>1. KeyOf[t] \in IdemKey /\ t \in Owner
    BY TaskAssumption
  <2>2. Get(redis, LockKey(KeyOf[t])) = Nil
    BY <2>1, KeysInStore DEF Init, Empty, Absent, Get
  <2> QED
    BY <2>1, <2>2, ValuesDiffer DEF HasLock
<1> QED
  BY <1>1, <1>2, <1>3, <1>4 DEF Init, NameIsGone

LEMMA NextCopy == TypeOK /\ CopyInv /\ [Next]_vars => CopyInv'
<1> SUFFICES ASSUME TypeOK, CopyInv, [Next]_vars, losses' = MaxLosses
             PROVE  (revoked = {} /\ OneCopy /\ NameIsGone)'
  BY TaskAssumption DEF CopyInv
<1>1. revoked = {} /\ OneCopy /\ NameIsGone
  BY LossStep DEF CopyInv
<1>2. \A w \in Worker, m \in Message : ~Discard(w, m)
  BY <1>1 DEF Discard
<1>3. revoked' = {}
  BY <1>1, LossStep
<1> QED
  BY <1>1, <1>2, <1>3, LossStep, WrapperCopy, DeliverCopy, RetryCopy, RestCopy
  DEF Next, Celery

LEMMA CopyInvariant == Spec => [](TypeOK /\ CopyInv)
BY InitType, NextType, InitCopy, NextCopy, PTL DEF Spec

\* No retry meets the lock of its own earlier attempt, whatever calls to
\* Redis fail and with however many tasks the key is shared, until a delivery
\* is lost or a revoke asked for.
THEOREM RetriesRun == Spec => []NoSelfSkip
<1>1. CopyInv => NoSelfSkip
  <2> SUFFICES ASSUME CopyInv, NEW w \in Worker, pc[w] = "lock", losses = MaxLosses
               PROVE  Get(redis, LockKey(WorkKey(w))) # Processing(TaskOf(w))
    BY DEF NoSelfSkip
  <2> QED
    BY DEF CopyInv, NameIsGone, Without, HasLock, WorkKey
<1> QED
  BY <1>1, CopyInvariant, PTL

-----------------------------------------------------------------------------
(***************************************************************************)
(* Verdicts.  Of a task no attempt of which was crossed by its retry, one  *)
(* process at most still has something to report, and nothing waits to be  *)
(* run at the same time but the retry that this process has published and  *)
(* not reported yet.  So while there is anything left that could change    *)
(* the outcome, the outcome is no verdict.                                 *)
(***************************************************************************)
Open(t) == outcome[t] \in {"PENDING", "RETRY"}

\* A process that is going to report something of its message.
Busy(w) == pc[w] \notin {"idle", "ack"}

RetryOf(w) == <<TaskOf(w), Retries(w) + 1>>

OneReport ==
    /\ \A v, w \in Worker :
         Busy(v) /\ Busy(w) /\ TaskOf(v) = TaskOf(w) /\ TaskOf(w) \notin crossed => v = w
    /\ \A w \in Worker, m \in Message :
         Busy(w) /\ ready[m] > 0 /\ TaskOf(w) = m[1] /\ m[1] \notin crossed
           => Unreported(w) /\ m = RetryOf(w)
    /\ \A w \in Worker : Busy(w) /\ TaskOf(w) \notin crossed => Open(TaskOf(w))
    /\ \A m \in Message : ready[m] > 0 /\ m[1] \notin crossed => Open(m[1])

ReportInv == losses = MaxLosses => OneReport

\* The step of a process that goes on with its message, and may leave
\* nothing more to report; only what concerns the process's task changes.
LEMMA GoOnReport ==
  ASSUME TypeOK, OneReport, crossed \subseteq crossed',
         \A m \in Message : m[1] \notin crossed' =>
           (ready'[m] > 0 => ready[m] > 0),
         \A w \in Worker : TaskOf(w)' \notin crossed' /\ Busy(w)' =>
           /\ Busy(w) /\ msg'[w] = msg[w]
           /\ Unreported(w) => Unreported(w)',
         \A t \in Task : t \notin crossed' => outcome'[t] = outcome[t]
  PROVE  OneReport'
<1>1. \A w \in Worker : msg'[w] = msg[w] =>
        TaskOf(w)' = TaskOf(w) /\ RetryOf(w)' = RetryOf(w)
  BY DEF TaskOf, RetryOf, Retries
<1>2. \A w \in Worker : Busy(w) => TaskOf(w) \in Task
  BY Params DEF Busy
<1>3. \A m \in Message : m[1] \in Task
  BY DEF Message
<1>4. ASSUME NEW v \in Worker, NEW w \in Worker, Busy(v)', Busy(w)',
             TaskOf(v)' = TaskOf(w)', TaskOf(w)' \notin crossed'
      PROVE  v = w
  BY <1>1, <1>4 DEF OneReport
<1>5. ASSUME NEW w \in Worker, NEW m \in Message, Busy(w)', ready'[m] > 0,
             TaskOf(w)' = m[1], m[1] \notin crossed'
      PROVE  Unreported(w)' /\ m = RetryOf(w)'
  BY <1>1, <1>5 DEF OneReport
<1>6. ASSUME NEW w \in Worker, Busy(w)', TaskOf(w)' \notin crossed'
      PROVE  Open(TaskOf(w))'
  BY <1>1, <1>2, <1>6 DEF OneReport, Open
<1>7. ASSUME NEW m \in Message, ready'[m] > 0, m[1] \notin crossed'
      PROVE  Open(m[1])'
  BY <1>3, <1>7 DEF OneReport, Open
<1> QED
  BY <1>4, <1>5, <1>6, <1>7 DEF OneReport

\* Most steps, and the time limit, which has a process report something else
\* than it was about to.
LEMMA QuietReport ==
  ASSUME TypeOK, OneReport,
         \/ UNCHANGED vars \/ Restart \/ Tick
         \/ \E w \in Worker : \/ Wrapper(w) \/ Fail(w) \/ ReadOutcome(w)
                              \/ TimeLimit(w) \/ Ack(w)
  PROVE  OneReport'
<1> USE DEF Frame, Broker, Goto, Return, Report, Owe, Raise, Free
<1>1. CASE UNCHANGED vars \/ Restart \/ Tick
  <2>1. UNCHANGED <<ready, pc, msg, result, outcome, crossed>>
    BY <1>1 DEF vars, Restart, Tick
  <2> QED
    BY <2>1, GoOnReport DEF Busy, Unreported
<1>2. ASSUME NEW w \in Worker, Wrapper(w) PROVE OneReport'
  <2>1. /\ UNCHANGED <<ready, msg, outcome, crossed>>
        /\ pc[w] \in Inside \cup {"lock", "cached", "raised"}
        /\ \A v \in Worker : v # w => pc'[v] = pc[v] /\ result'[v] = result[v]
    BY <1>2
    DEF Wrapper, Lock, LockFails, Duplicate, GetCached, GetCachedFails, RunBody,
        BodyRaises, Save, SaveFails, Unlock, UnlockFails, Inside, TypeOK
  <2>2. Busy(w) /\ ~Unreported(w)
    BY <2>1 DEF Busy, Unreported, Inside
  <2> QED
    BY <2>1, <2>2, GoOnReport DEF Busy, Unreported
<1>3. ASSUME NEW w \in Worker, Fail(w) PROVE OneReport'
  <2>1. /\ UNCHANGED <<ready, msg, outcome, crossed>>
        /\ Busy(w) /\ ~Unreported(w)
        /\ \A v \in Worker : v # w => pc'[v] = pc[v] /\ result'[v] = result[v]
    BY <1>3 DEF Fail, Busy, Unreported, TypeOK
  <2> QED
    BY <2>1, GoOnReport DEF Busy, Unreported
<1>4. ASSUME NEW w \in Worker, ReadOutcome(w) PROVE OneReport'
  <2>1. /\ UNCHANGED <<ready, msg, outcome, crossed>>
        /\ Busy(w) /\ (Busy(w)' /\ Unreported(w) => Unreported(w)')
        /\ \A v \in Worker : v # w => pc'[v] = pc[v] /\ result'[v] = result[v]
    BY <1>4 DEF ReadOutcome, Reported, Busy, Unreported, TypeOK
  <2> QED
    BY <2>1, GoOnReport DEF Busy, Unreported
<1>5. ASSUME NEW w \in Worker, TimeLimit(w) PROVE OneReport'
  <2>1. /\ UNCHANGED <<ready, msg, outcome>> /\ crossed \subseteq crossed'
        /\ Busy(w) /\ (Unreported(w) => TaskOf(w) \in crossed')
        /\ \A v \in Worker : v # w => pc'[v] = pc[v] /\ result'[v] = result[v]
    BY <1>5 DEF TimeLimit, AtWork, Stop, Reported, Busy, TypeOK
  <2>2. \A v \in Worker : TaskOf(v)' = TaskOf(v)
    BY <2>1 DEF TaskOf
  <2> QED
    BY <2>1, <2>2, GoOnReport DEF Busy, Unreported
<1>6. ASSUME NEW w \in Worker, Ack(w) PROVE OneReport'
  <2>1. /\ UNCHANGED <<ready, outcome, crossed>> /\ ~Busy(w)'
        /\ \A v \in Worker : v # w => pc'[v] = pc[v] /\ result'[v] = result[v]
                                                     /\ msg'[v] = msg[v]
    BY <1>6 DEF Ack, Busy, TypeOK
  <2> QED
    BY <2>1, GoOnReport DEF Busy, Unreported
<1> QED
  BY <1>1, <1>2, <1>3, <1>4, <1>5, <1>6

\* A message is taken: unless it is the retry of an attempt that is still to
\* be reported, nobody else has anything to report.
LEMMA DeliverReport ==
  ASSUME TypeOK, OneCopy, OneReport,
         NEW w \in Worker, NEW n \in Message, Deliver(w, n)
  PROVE  OneReport'
<1>1. PICK t \in Task : t = n[1]
  BY DEF Message
<1>2. /\ ready[n] = 1 /\ ready'[n] = 0
      /\ \A m \in Message : m # n => ready'[m] = ready[m]
      /\ \A v \in Worker : v # w => pc'[v] = pc[v] /\ msg'[v] = msg[v]
      /\ pc'[w] = "lock" /\ msg'[w] = n
      /\ UNCHANGED <<result, outcome>>
      /\ crossed \subseteq crossed'
  BY DEF Deliver, Take, Goto, OneCopy, TypeOK
<1>3. \A m \in Message : ready'[m] > 0 => ready[m] > 0 /\ m[1] # t
  BY <1>1, <1>2 DEF OneCopy
<1>4. \A v \in Worker : v # w => /\ Busy(v)' <=> Busy(v)
                                 /\ TaskOf(v)' = TaskOf(v)
                                 /\ RetryOf(v)' = RetryOf(v)
                                 /\ Unreported(v)' <=> Unreported(v)
  BY <1>2 DEF Busy, TaskOf, RetryOf, Retries, Unreported
<1>5. TaskOf(w)' = t /\ \A u : Open(u)' <=> Open(u)
  BY <1>1, <1>2 DEF TaskOf, Open
<1>6. t \notin crossed' => /\ Open(t)
                           /\ \A v \in Worker : v # w => ~(Busy(v) /\ TaskOf(v) = t)
  <2>1. (\E v \in Worker : Unreported(v) /\ n = RetryOf(v)) => t \in crossed'
    BY <1>1 DEF Deliver, Take, RetryOf
  <2> QED
    BY <1>1, <1>2, <2>1 DEF OneReport
<1>7. ASSUME NEW u \in Worker, NEW v \in Worker, Busy(u)', Busy(v)',
             TaskOf(u)' = TaskOf(v)', TaskOf(v)' \notin crossed'
      PROVE  u = v
  BY <1>2, <1>4, <1>5, <1>6, <1>7 DEF OneReport
<1>8. ASSUME NEW v \in Worker, NEW m \in Message, Busy(v)', ready'[m] > 0,
             TaskOf(v)' = m[1], m[1] \notin crossed'
      PROVE  Unreported(v)' /\ m = RetryOf(v)'
  BY <1>2, <1>3, <1>4, <1>5, <1>8 DEF OneReport
<1>9. ASSUME NEW v \in Worker, Busy(v)', TaskOf(v)' \notin crossed'
      PROVE  Open(TaskOf(v))'
  <2>1. CASE v = w
    BY <1>2, <1>5, <1>6, <1>9, <2>1 DEF Open
  <2>2. CASE v # w
    BY <1>2, <1>4, <1>9, <2>2 DEF OneReport, Open
  <2> QED
    BY <2>1, <2>2
<1>10. ASSUME NEW m \in Message, ready'[m] > 0, m[1] \notin crossed'
       PROVE  Open(m[1])'
  BY <1>2, <1>3, <1>10 DEF OneReport, Open
<1> QED
  BY <1>7, <1>8, <1>9, <1>10 DEF OneReport

\* The retry is all that waits beside the process that has published it.
LEMMA RetryReport ==
  ASSUME TypeOK, OneReport, NEW w \in Worker, Retry(w)
  PROVE  OneReport'
<1>1. PICK t \in Task : t = TaskOf(w)
  BY Params DEF Retry
<1>2. PICK n \in Message : n = RetryOf(w)
  <2>1. Retries(w) + 1 \in 0..MaxRetries
    BY Params, TaskAssumption DEF Retry
  <2> QED
    BY <1>1, <2>1 DEF Message, RetryOf
<1>3. /\ Busy(w) /\ ~Unreported(w) /\ Unreported(w)'
      /\ UNCHANGED <<msg, outcome, crossed>>
      /\ \A v \in Worker : v # w => pc'[v] = pc[v] /\ result'[v] = result[v]
      /\ \A m \in Message : m # n => ready'[m] = ready[m]
  BY <1>2 DEF Retry, Report, Owe, Goto, Busy, Unreported, RetryOf, TypeOK
<1>4. \A v \in Worker : /\ Busy(v)' <=> Busy(v)
                        /\ TaskOf(v)' = TaskOf(v)
                        /\ RetryOf(v)' = RetryOf(v)
                        /\ v # w => (Unreported(v)' <=> Unreported(v))
  BY <1>3 DEF Busy, TaskOf, RetryOf, Retries, Unreported, Retry, Report, Goto, TypeOK
<1>5. t \notin crossed =>
        /\ Open(t)
        /\ \A m \in Message : ready[m] > 0 => m[1] # t
        /\ \A v \in Worker : Busy(v) /\ TaskOf(v) = t => v = w
  BY <1>1, <1>3 DEF OneReport
<1>6. n[1] = t
  BY <1>1, <1>2 DEF RetryOf
<1>7. ASSUME NEW u \in Worker, NEW v \in Worker, Busy(u)', Busy(v)',
             TaskOf(u)' = TaskOf(v)', TaskOf(v)' \notin crossed'
      PROVE  u = v
  BY <1>3, <1>4, <1>7 DEF OneReport
<1>8. ASSUME NEW v \in Worker, NEW m \in Message, Busy(v)', ready'[m] > 0,
             TaskOf(v)' = m[1], m[1] \notin crossed'
      PROVE  Unreported(v)' /\ m = RetryOf(v)'
  <2>1. CASE m = n
    BY <1>2, <1>3, <1>4, <1>5, <1>6, <1>8, <2>1
  <2>2. CASE m # n
    BY <1>1, <1>3, <1>4, <1>5, <1>8, <2>2 DEF OneReport
  <2> QED
    BY <2>1, <2>2
<1>9. ASSUME NEW v \in Worker, Busy(v)', TaskOf(v)' \notin crossed'
      PROVE  Open(TaskOf(v))'
  BY <1>3, <1>4, <1>9 DEF OneReport, Open
<1>10. ASSUME NEW m \in Message, ready'[m] > 0, m[1] \notin crossed'
       PROVE  Open(m[1])'
  BY <1>3, <1>5, <1>6, <1>10 DEF OneReport, Open
<1> QED
  BY <1>7, <1>8, <1>9, <1>10 DEF OneReport

\* A report is the last of its task, or it is RETRY.
LEMMA StoreReport ==
  ASSUME TypeOK, OneReport, NEW w \in Worker, StoreOutcome(w)
  PROVE  OneReport'
<1>1. PICK t \in Task : t = TaskOf(w)
  BY Params DEF StoreOutcome
<1>2. /\ Busy(w) /\ ~Busy(w)'
      /\ UNCHANGED <<ready, msg, crossed>>
      /\ \A v \in Worker : v # w => pc'[v] = pc[v] /\ result'[v] = result[v]
      /\ \A u \in Task : u # t => outcome'[u] = outcome[u]
  BY <1>1 DEF StoreOutcome, Reported, Goto, Broker, Busy, TypeOK
<1>3. \A v \in Worker : /\ TaskOf(v)' = TaskOf(v)
                        /\ RetryOf(v)' = RetryOf(v)
                        /\ v # w => /\ Unreported(v)' <=> Unreported(v)
                                    /\ Busy(v)' <=> Busy(v)
  BY <1>2 DEF Busy, TaskOf, RetryOf, Retries, Unreported
<1>4. t \notin crossed =>
        /\ \A v \in Worker : Busy(v) /\ TaskOf(v) = t => v = w
        /\ \A m \in Message : ready[m] > 0 /\ m[1] = t => Unreported(w)
  BY <1>1, <1>2 DEF OneReport
<1>5. Unreported(w) => Open(t)'
  BY <1>1 DEF Unreported, StoreOutcome, Open, TypeOK
<1>6. \A v \in Worker : Busy(v) => TaskOf(v) \in Task
  BY Params DEF Busy
<1>7. \A m \in Message : m[1] \in Task
  BY DEF Message
<1>8. ASSUME NEW u \in Worker, NEW v \in Worker, Busy(u)', Busy(v)',
             TaskOf(u)' = TaskOf(v)', TaskOf(v)' \notin crossed'
      PROVE  u = v
  BY <1>2, <1>3, <1>8 DEF OneReport
<1>9. ASSUME NEW v \in Worker, NEW m \in Message, Busy(v)', ready'[m] > 0,
             TaskOf(v)' = m[1], m[1] \notin crossed'
      PROVE  Unreported(v)' /\ m = RetryOf(v)'
  BY <1>2, <1>3, <1>9 DEF OneReport
<1>10. ASSUME NEW v \in Worker, Busy(v)', TaskOf(v)' \notin crossed'
       PROVE  Open(TaskOf(v))'
  BY <1>2, <1>3, <1>4, <1>6, <1>10 DEF OneReport, Open
<1>11. ASSUME NEW m \in Message, ready'[m] > 0, m[1] \notin crossed'
       PROVE  Open(m[1])'
  <2>1. CASE m[1] = t
    BY <1>2, <1>4, <1>5, <1>11, <2>1
  <2>2. CASE m[1] # t
    BY <1>2, <1>7, <1>11, <2>2 DEF OneReport, Open
  <2> QED
    BY <2>1, <2>2
<1> QED
  BY <1>8, <1>9, <1>10, <1>11 DEF OneReport

LEMMA InitReport == Init => ReportInv
<1> SUFFICES ASSUME Init PROVE OneReport
  BY DEF ReportInv
<1>1. \A w \in Worker : ~Busy(w)
  BY DEF Init, Busy
<1>2. \A m \in Message : Open(m[1])
  BY DEF Init, Open, Message
<1> QED
  BY <1>1, <1>2 DEF OneReport

LEMMA NextReport == TypeOK /\ CopyInv /\ ReportInv /\ [Next]_vars => ReportInv'
<1> SUFFICES ASSUME TypeOK, CopyInv, ReportInv, [Next]_vars, losses' = MaxLosses
             PROVE  OneReport'
  BY TaskAssumption DEF ReportInv
<1>1. revoked = {} /\ OneCopy /\ OneReport
  BY LossStep DEF CopyInv, ReportInv
<1>2. \A w \in Worker, m \in Message : ~Discard(w, m)
  BY <1>1 DEF Discard
<1> QED
  BY <1>1, <1>2, LossStep, QuietReport, DeliverReport, RetryReport, StoreReport
  DEF Next, Celery

LEMMA ReportInvariant == Spec => [](TypeOK /\ ReportInv)
BY InitType, NextType, InitCopy, NextCopy, InitReport, NextReport, PTL DEF Spec

\* Only a report changes an outcome, of a task that has something to report.
LEMMA VerdictStep ==
  ASSUME TypeOK, ReportInv, [Next]_vars, losses' = MaxLosses,
         NEW t \in Task \ crossed', ~Open(t)
  PROVE  outcome'[t] = outcome[t]
<1>1. OneReport
  BY LossStep DEF ReportInv
<1>2. ASSUME NEW w \in Worker, StoreOutcome(w)
      PROVE  outcome'[t] = outcome[t]
  <2>1. Busy(w) /\ crossed' = crossed
    BY <1>2 DEF StoreOutcome, Busy
  <2>2. TaskOf(w) # t
    BY <1>1, <2>1 DEF OneReport
  <2> QED
    BY <1>2, <2>2 DEF StoreOutcome, TypeOK
<1>3. CASE ~ \E w \in Worker : StoreOutcome(w)
  BY <1>3, LossStep
  DEF Next, Wrapper, Celery, Deliver, Discard, Lock, LockFails, Duplicate, GetCached,
      GetCachedFails, RunBody, BodyRaises, Save, SaveFails, Unlock, UnlockFails,
      Retry, Fail, ReadOutcome, TimeLimit, Ack, Restart, Tick, Frame, vars
<1> QED
  BY <1>2, <1>3

\* The endpoints show a verdict of a task that has one only.
LEMMA VerdictNotOpen ==
  ASSUME NEW t \in Task, Open(t)
  PROVE  get_task_status(t) \notin Verdict /\ get_task_result(t) \notin Verdict
<1>1. CASE outcome[t] = "PENDING"
  BY <1>1 DEF get_task_status, get_task_result, Verdict
<1>2. CASE outcome[t] = "RETRY"
  BY <1>2 DEF get_task_status, get_task_result, Verdict
<1> QED
  BY <1>1, <1>2 DEF Open

\* The verdict a client is given is the last, through failures and retries,
\* until a delivery is lost or a revoke asked for - of a task no attempt of
\* which was overtaken by its own retry, or stopped, before it had reported
\* RETRY.
THEOREM VerdictsAreFinal == Spec => VerdictIsFinal
<1> DEFINE A == losses' = MaxLosses =>
                  \A t \in Task \ crossed' :
                    /\ get_task_status(t) \in Verdict =>
                         get_task_status(t)' = get_task_status(t)
                    /\ get_task_result(t) \in Verdict =>
                         get_task_result(t)' = get_task_result(t)
<1>1. TypeOK /\ ReportInv /\ [Next]_vars => [A]_vars
  <2> SUFFICES ASSUME TypeOK, ReportInv, [Next]_vars, losses' = MaxLosses,
                      NEW t \in Task \ crossed',
                      get_task_status(t) \in Verdict \/ get_task_result(t) \in Verdict
               PROVE  /\ get_task_status(t)' = get_task_status(t)
                      /\ get_task_result(t)' = get_task_result(t)
    OBVIOUS
  <2>1. outcome'[t] = outcome[t]
    BY VerdictStep, VerdictNotOpen
  <2> QED
    BY <2>1 DEF get_task_status, get_task_result
<1> QED
  BY <1>1, ReportInvariant, PTL DEF Spec, VerdictIsFinal

-----------------------------------------------------------------------------
(***************************************************************************)
(* No task is lost.  The message of a task without a verdict is queued, or *)
(* a process that the broker will wait for has it; a process that gives it *)
(* up has stored a verdict or, with RETRY, has another message of the task *)
(* waiting (Published), or else the task is crossed.                       *)
(***************************************************************************)
Final == {"SUCCESS", "FAILURE", "REVOKED"}

Holds(w, t) == attached[w] /\ pc[w] # "ack" /\ TaskOf(w) = t

Safe(t) ==
    \/ outcome[t] \in Final
    \/ \E m \in Message : m[1] = t /\ ready[m] > 0
    \/ \E w \in Worker : Holds(w, t)

\* What there may be to report at each place, and a delivery has a message.
Reports ==
    \A w \in Worker :
      /\ pc[w] \in {"report", "store"} => result[w] \in {"RETRY", "SUCCESS", "FAILURE"}
      /\ pc[w] = "stopped" => result[w] \in {"FAILURE", "REVOKED"}
      /\ attached[w] => pc[w] # "idle"

Published ==
    \A w \in Worker : Unreported(w) =>
      /\ RetryOf(w) \in Message
      /\ TaskOf(w) \in crossed \/ ready[RetryOf(w)] > 0

LostInv == Reports /\ Published /\ NoTaskLost

\* NoTaskLost in these words.
LEMMA LostIsSafe == NoTaskLost <=> \A t \in Task \ crossed : Safe(t)
BY DEF NoTaskLost, Safe, Holds, Final

LEMMA ReportsStep ==
  ASSUME TypeOK, Reports, [Next]_vars
  PROVE  Reports'
<1> USE DEF Frame, Broker, Goto
<1>1. ASSUME NEW w \in Worker, Wrapper(w) \/ Retry(w) \/ Fail(w) \/ ReadOutcome(w)
                               \/ StoreOutcome(w)
      PROVE  Reports'
  <2>1. /\ UNCHANGED attached /\ pc[w] # "idle" /\ pc'[w] # "idle"
        /\ \A v \in Worker : v # w => pc'[v] = pc[v] /\ result'[v] = result[v]
    BY <1>1
    DEF Wrapper, Lock, LockFails, Duplicate, GetCached, GetCachedFails, RunBody,
        BodyRaises, Save, SaveFails, Unlock, UnlockFails, Return, Raise, Report, Owe,
        Retry, Fail, ReadOutcome, StoreOutcome, Reported, Inside, TypeOK
  <2>2. /\ pc'[w] # "stopped"
        /\ pc'[w] \in {"report", "store"} => result'[w] \in {"RETRY", "SUCCESS", "FAILURE"}
    BY <1>1
    DEF Wrapper, Lock, LockFails, Duplicate, GetCached, GetCachedFails, RunBody,
        BodyRaises, Save, SaveFails, Unlock, UnlockFails, Return, Raise, Report, Owe,
        Retry, Fail, ReadOutcome, StoreOutcome, Reported, Reports, TypeOK
  <2> QED
    BY <2>1, <2>2 DEF Reports
<1>2. ASSUME NEW w \in Worker, Ack(w) \/ Kill(w)
      PROVE  Reports'
  BY <1>2 DEF Ack, Kill, Free, Reports, TypeOK
<1>3. ASSUME NEW w \in Worker, Disconnect(w)
      PROVE  Reports'
  BY <1>3 DEF Disconnect, Reports, TypeOK
<1>4. ASSUME NEW w \in Worker, NEW t, NEW state \in {"FAILURE", "REVOKED"},
             Stop(w, t, state)
      PROVE  /\ pc'[w] \in {"stopped", "ack"}
             /\ pc'[w] = "stopped" => result'[w] = state
             /\ \A v \in Worker : v # w => pc'[v] = pc[v] /\ result'[v] = result[v]
  BY <1>4 DEF Stop, Reported, TypeOK
<1>5. ASSUME NEW w \in Worker, TimeLimit(w) \/ Terminate(w)
      PROVE  Reports'
  <2>1. \E state \in {"FAILURE", "REVOKED"} : Stop(w, TaskOf(w), state)
    BY <1>5 DEF TimeLimit, Terminate
  <2>2. UNCHANGED attached
    BY <1>5 DEF TimeLimit, Terminate
  <2> QED
    BY <1>4, <2>1, <2>2 DEF Reports
<1>6. ASSUME NEW w \in Worker, NEW m \in Message, Deliver(w, m)
      PROVE  Reports'
  BY <1>6 DEF Deliver, Take, Reports, TypeOK
<1>7. ASSUME NEW w \in Worker, NEW m \in Message, Discard(w, m)
      PROVE  Reports'
  <2>1. \A v \in Worker : v # w => attached'[v] = attached[v]
    BY <1>7 DEF Discard, Take, TypeOK
  <2> QED
    BY <1>4, <1>7, <2>1 DEF Discard, Reports
<1>8. CASE \/ UNCHANGED vars \/ Restart \/ Tick \/ \E t \in Task : Revoke(t)
  BY <1>8 DEF vars, Restart, Tick, Revoke, Reports
<1> QED
  BY <1>1, <1>2, <1>3, <1>5, <1>6, <1>7, <1>8 DEF Next, Celery

\* A message leaves the queue only when it is taken.
LEMMA QueueStep ==
  ASSUME TypeOK, Reports, [Next]_vars, NEW n \in Message, ready[n] > 0
  PROVE  ready'[n] > 0 \/ \E w \in Worker : Take(w, n)
<1> USE DEF Frame, Broker
<1>1. ready[n] \in Nat
  BY DEF TypeOK
<1>2. ASSUME NEW w \in Worker, NEW m \in Message, Take(w, m), ready'[n] # ready[n]
      PROVE  n = m
  BY <1>2 DEF Take, TypeOK
<1>3. ASSUME NEW w \in Worker, Retry(w)
      PROVE  ready'[n] \in {ready[n], ready[n] + 1}
  BY <1>3 DEF Retry, TypeOK
<1>4. ASSUME NEW w \in Worker, Kill(w) \/ Disconnect(w)
      PROVE  ready'[n] \in {ready[n], ready[n] + 1}
  BY <1>4 DEF Kill, Disconnect, Requeue, TypeOK
<1>5. CASE UNCHANGED ready
  BY <1>5
<1>6. ASSUME NEW w \in Worker, Wrapper(w)
      PROVE  UNCHANGED ready
  BY <1>6
  DEF Wrapper, Lock, LockFails, Duplicate, GetCached, GetCachedFails, RunBody,
      BodyRaises, Save, SaveFails, Unlock, UnlockFails
<1>7. ASSUME NEW w \in Worker, Celery(w) \/ Terminate(w)
      PROVE  Retry(w) \/ UNCHANGED ready
  BY <1>7 DEF Celery, Fail, ReadOutcome, StoreOutcome, TimeLimit, Ack, Terminate
<1>8. ASSUME NEW w \in Worker, NEW m \in Message, Deliver(w, m) \/ Discard(w, m)
      PROVE  Take(w, m)
  BY <1>8 DEF Deliver, Discard
<1>9. CASE UNCHANGED vars \/ Restart \/ Tick \/ \E t \in Task : Revoke(t)
  BY <1>9 DEF vars, Restart, Tick, Revoke
<1> QED
  BY <1>1, <1>2, <1>3, <1>4, <1>5, <1>6, <1>7, <1>8, <1>9 DEF Next

\* What is known to be crossed stays so.
LEMMA CrossedGrows ==
  ASSUME [Next]_vars
  PROVE  crossed \subseteq crossed'
BY DEF Next, Wrapper, Celery, Deliver, Discard, Take, Lock, LockFails, Duplicate,
       GetCached, GetCachedFails, RunBody, BodyRaises, Save, SaveFails, Unlock,
       UnlockFails, Retry, Fail, ReadOutcome, StoreOutcome, TimeLimit, Ack, Kill,
       Disconnect, Restart, Tick, Terminate, Revoke, Frame, vars

\* A process's step leaves the other processes where they are.
LEMMA OthersStay ==
  ASSUME TypeOK, NEW v \in Worker, NEW w \in Worker, v # w,
         \/ Wrapper(v) \/ Celery(v) \/ Kill(v) \/ Disconnect(v) \/ Terminate(v)
         \/ \E m \in Message : Deliver(v, m) \/ Discard(v, m)
  PROVE  /\ pc'[w] = pc[w] /\ msg'[w] = msg[w]
         /\ attached'[w] = attached[w] /\ result'[w] = result[w]
<1> USE DEF Frame, Broker, Goto, TypeOK
<1>1. CASE Wrapper(v)
  BY <1>1
  DEF Wrapper, Lock, LockFails, Duplicate, GetCached, GetCachedFails, RunBody,
      BodyRaises, Save, SaveFails, Unlock, UnlockFails, Return, Raise, Report, Owe
<1>2. CASE Retry(v) \/ Fail(v) \/ ReadOutcome(v) \/ StoreOutcome(v)
  BY <1>2 DEF Retry, Fail, ReadOutcome, StoreOutcome, Reported, Report, Owe
<1>3. CASE Ack(v) \/ Kill(v) \/ Disconnect(v)
  BY <1>3 DEF Ack, Kill, Free, Disconnect
<1>4. CASE TimeLimit(v) \/ Terminate(v)
  BY <1>4 DEF TimeLimit, Terminate, Stop, Reported
<1>5. CASE \E m \in Message : Deliver(v, m)
  BY <1>5 DEF Deliver, Take
<1>6. CASE \E m \in Message : Discard(v, m)
  <2>1. PICK m \in Message : Take(v, m) /\ Stop(v, m[1], "REVOKED")
    BY <1>6 DEF Discard
  <2>2. msg'[w] = msg[w] /\ attached'[w] = attached[w]
    BY <2>1 DEF Take
  <2>3. pc'[w] = pc[w] /\ result'[w] = result[w]
    BY <2>1 DEF Stop, Reported
  <2> QED
    BY <2>2, <2>3
<1>7. Celery(v) => \/ Retry(v) \/ Fail(v) \/ ReadOutcome(v) \/ StoreOutcome(v)
                   \/ Ack(v) \/ TimeLimit(v)
  BY DEF Celery
<1> HIDE DEF Frame, Broker, Goto, TypeOK
<1> QED
  BY <1>1, <1>2, <1>3, <1>4, <1>5, <1>6, <1>7

\* A process comes to owe the report of a RETRY by publishing the retry, and
\* keeps its message while it does.
LEMMA OwesStep ==
  ASSUME TypeOK, [Next]_vars, NEW w \in Worker, Unreported(w)'
  PROVE  \/ Retry(w)
         \/ Unreported(w) /\ msg'[w] = msg[w]
<1> USE DEF Frame, Broker, Goto, Unreported
<1>1. ASSUME NEW v \in Worker, v # w,
             \/ Wrapper(v) \/ Celery(v) \/ Kill(v) \/ Disconnect(v) \/ Terminate(v)
             \/ \E m \in Message : Deliver(v, m) \/ Discard(v, m)
      PROVE  pc'[w] = pc[w] /\ result'[w] = result[w] /\ msg'[w] = msg[w]
  BY <1>1, OthersStay
<1>2. CASE Wrapper(w) \/ Fail(w)
  BY <1>2
  DEF Wrapper, Lock, LockFails, Duplicate, GetCached, GetCachedFails, RunBody,
      BodyRaises, Save, SaveFails, Unlock, UnlockFails, Fail, Return, Raise, Report,
      Owe, TypeOK
<1>3. CASE ReadOutcome(w) \/ StoreOutcome(w) \/ Disconnect(w)
  BY <1>3 DEF ReadOutcome, StoreOutcome, Reported, Disconnect, TypeOK
<1>4. CASE \/ TimeLimit(w) \/ Terminate(w) \/ Ack(w) \/ Kill(w)
           \/ \E m \in Message : Deliver(w, m) \/ Discard(w, m)
  BY <1>4
  DEF TimeLimit, Terminate, Stop, Reported, Ack, Kill, Free, Deliver, Discard, TypeOK
<1>5. CASE UNCHANGED vars \/ Restart \/ Tick \/ \E t \in Task : Revoke(t)
  BY <1>5 DEF vars, Restart, Tick, Revoke
<1> QED
  BY <1>1, <1>2, <1>3, <1>4, <1>5 DEF Next, Celery

LEMMA PublishedStep ==
  ASSUME TypeOK, Reports, Published, [Next]_vars
  PROVE  Published'
<1> SUFFICES ASSUME NEW w \in Worker, Unreported(w)'
             PROVE  /\ RetryOf(w)' \in Message
                    /\ TaskOf(w)' \in crossed' \/ ready'[RetryOf(w)'] > 0
  BY DEF Published, Message
<1>1. CASE Retry(w)
  <2>1. TaskOf(w)' = TaskOf(w) /\ RetryOf(w)' = RetryOf(w)
    BY <1>1 DEF Retry, TaskOf, RetryOf, Retries
  <2>2. PICK n \in Message : n = RetryOf(w)
    <3>1. Retries(w) + 1 \in 0..MaxRetries /\ TaskOf(w) \in Task
      BY <1>1, Params, TaskAssumption DEF Retry
    <3> QED
      BY <3>1 DEF RetryOf, Message
  <2>3. ready'[n] > 0
    BY <1>1, <2>2 DEF Retry, RetryOf, TypeOK
  <2> QED
    BY <2>1, <2>2, <2>3
<1>2. CASE Unreported(w) /\ msg'[w] = msg[w]
  <2>1. TaskOf(w)' = TaskOf(w) /\ RetryOf(w)' = RetryOf(w)
    BY <1>2 DEF TaskOf, RetryOf, Retries
  <2>2. PICK n \in Message : n = RetryOf(w)
    BY <1>2 DEF Published
  <2>3. CASE TaskOf(w) \in crossed
    BY <2>1, <2>2, <2>3, CrossedGrows
  <2>4. CASE ready[n] > 0 /\ ready'[n] > 0
    BY <2>1, <2>2, <2>4
  <2>5. ASSUME NEW v \in Worker, Take(v, n)
        PROVE  TaskOf(w) \in crossed'
    <3>1. n = <<TaskOf(w), Retries(w) + 1>> /\ n[1] = TaskOf(w)
      BY <2>2 DEF RetryOf
    <3> QED
      BY <1>2, <2>5, <3>1 DEF Take
  <2> QED
    BY <1>2, <2>1, <2>2, <2>3, <2>4, <2>5, QueueStep DEF Published
<1> QED
  BY <1>1, <1>2, OwesStep

\* A verdict is replaced by another, or by the RETRY of an attempt whose own
\* retry is still queued, or the task is crossed.
LEMMA StoreStep ==
  ASSUME TypeOK, Reports, Published, NEW w \in Worker, StoreOutcome(w),
         NEW t \in Task, t = TaskOf(w), t \notin crossed
  PROVE  Safe(t)'
<1>1. outcome'[t] = result[w] /\ UNCHANGED <<ready, msg>>
  BY DEF StoreOutcome, Broker, TypeOK
<1>2. CASE result[w] = "RETRY"
  <2>1. Unreported(w)
    BY <1>2 DEF StoreOutcome, Reports, Unreported
  <2>2. PICK n \in Message : n = RetryOf(w) /\ ready[n] > 0
    BY <2>1 DEF Published
  <2>3. n[1] = t
    BY <2>2 DEF RetryOf
  <2> QED
    BY <1>1, <2>2, <2>3 DEF Safe
<1>3. CASE result[w] # "RETRY"
  <2>1. result[w] \in Final
    BY <1>3 DEF StoreOutcome, Reports, Final
  <2> QED
    BY <1>1, <2>1 DEF Safe
<1> QED
  BY <1>2, <1>3

\* A process gives up a message that the broker waits for with something
\* reported, or the message goes back.
LEMMA GiveUpStep ==
  ASSUME TypeOK, Reports, Published, [Next]_vars, NEW w \in Worker,
         NEW t \in Task, t \notin crossed, Holds(w, t)
  PROVE  Safe(t)'
<1> USE DEF Frame, Broker, Goto
<1>0. pc[w] # "idle" /\ msg[w] \in Message
  BY Params DEF Holds, Reports
<1>1. CASE attached'[w] = attached[w] /\ msg'[w] = msg[w] /\ pc'[w] # "ack"
  BY <1>1 DEF Holds, Safe, TaskOf
<1>2. CASE StoreOutcome(w)
  BY <1>2, StoreStep DEF Holds
<1>3. CASE UNCHANGED outcome /\ outcome[t] = "SUCCESS"
  BY <1>3 DEF Safe, Final
<1>4. CASE Kill(w) \/ Disconnect(w)
  <2>1. ready'[msg[w]] = ready[msg[w]] + 1 /\ ready[msg[w]] \in Nat
    BY <1>0, <1>4 DEF Kill, Disconnect, Requeue, Holds, TypeOK
  <2>2. ready'[msg[w]] > 0 /\ msg[w][1] = t
    BY <2>1 DEF Holds, TaskOf
  <2> QED
    BY <1>0, <2>2 DEF Safe
<1>6. CASE Wrapper(w) \/ Retry(w) \/ Fail(w)
  <2>1. UNCHANGED <<attached, msg>> /\ pc'[w] # "ack"
    BY <1>6
    DEF Wrapper, Lock, LockFails, Duplicate, GetCached, GetCachedFails, RunBody,
        BodyRaises, Save, SaveFails, Unlock, UnlockFails, Retry, Fail, Return, Raise,
        Report, TypeOK
  <2> QED
    BY <1>1, <2>1
<1>7. CASE ReadOutcome(w) \/ TimeLimit(w) \/ Terminate(w)
  <2>1. UNCHANGED <<attached, msg, outcome>> /\ (pc'[w] # "ack" \/ outcome[t] = "SUCCESS")
    BY <1>7
    DEF ReadOutcome, TimeLimit, Terminate, Stop, Reported, Unsettled, Holds, TypeOK
  <2> QED
    BY <1>1, <1>3, <2>1
<1>8. ~Ack(w) /\ \A m \in Message : ~Deliver(w, m) /\ ~Discard(w, m)
  BY <1>0 DEF Ack, Deliver, Discard, Take, Holds
<1>9. CASE UNCHANGED vars \/ Restart \/ Tick \/ \E u \in Task : Revoke(u)
  <2>1. UNCHANGED <<attached, msg, pc>>
    BY <1>9 DEF vars, Restart, Tick, Revoke
  <2> QED
    BY <1>1, <2>1 DEF Holds
<1>10. pc[w] # "ack"
  BY DEF Holds
<1>11. ASSUME NEW v \in Worker, v # w,
              \/ Wrapper(v) \/ Celery(v) \/ Kill(v) \/ Disconnect(v) \/ Terminate(v)
              \/ \E m \in Message : Deliver(v, m) \/ Discard(v, m)
       PROVE  Safe(t)'
  BY <1>1, <1>10, <1>11, OthersStay
<1> QED
  BY <1>2, <1>4, <1>6, <1>7, <1>8, <1>9, <1>11 DEF Next, Celery

\* A message that is taken is the taker's, or its task has its verdict.
LEMMA TakenStep ==
  ASSUME TypeOK, Reports, [Next]_vars, NEW w \in Worker, NEW n \in Message,
         Take(w, n)
  PROVE  Safe(n[1])'
<1>1. PICK t \in Task : t = n[1]
  BY DEF Message
<1>2. attached'[w] /\ msg'[w] = n
  BY DEF Take, TypeOK
<1>3. CASE pc'[w] # "ack"
  BY <1>1, <1>2, <1>3 DEF Safe, Holds, TaskOf
<1>4. CASE pc'[w] = "ack"
  <2>1. pc[w] = "idle" /\ msg[w] = Nil /\ n # Nil
    BY TaskAssumption DEF Take, TypeOK, Message
  <2>2. ASSUME NEW v \in Worker, NEW m \in Message, Deliver(v, m) \/ Discard(v, m)
        PROVE  v = w /\ m = n
    BY <1>2, <2>1, <2>2 DEF Deliver, Discard, Take, TypeOK
  <2>3. ASSUME NEW v \in Worker, Wrapper(v) \/ Celery(v) \/ Kill(v) \/ Disconnect(v)
                                \/ Terminate(v)
        PROVE  FALSE
    <3>1. v # w
      BY <2>1, <2>3
      DEF Wrapper, Celery, Lock, LockFails, Duplicate, GetCached, GetCachedFails,
          RunBody, BodyRaises, Save, SaveFails, Unlock, UnlockFails, Inside, Retry,
          Fail, ReadOutcome, StoreOutcome, TimeLimit, AtWork, Ack, Kill, Terminate,
          Disconnect, Reports
    <3>2. msg'[w] = msg[w]
      BY <2>3, <3>1, OthersStay
    <3> QED
      BY <1>2, <2>1, <3>2
  <2>4. ~(UNCHANGED vars) /\ ~Restart /\ ~Tick /\ \A u \in Task : ~Revoke(u)
    BY <1>2, <2>1 DEF vars, Restart, Tick, Revoke, Broker
  <2>5. Deliver(w, n) \/ Discard(w, n)
    BY <2>2, <2>3, <2>4 DEF Next
  <2>6. Discard(w, n)
    BY <1>4, <2>5 DEF Deliver, Goto, TypeOK
  <2>7. outcome'[t] = "SUCCESS"
    BY <1>1, <1>4, <2>6 DEF Discard, Stop, Goto, TypeOK
  <2> QED
    BY <1>1, <2>7 DEF Safe, Final
<1> QED
  BY <1>3, <1>4

LEMMA SafeStep ==
  ASSUME TypeOK, Reports, Published, NoTaskLost, [Next]_vars
  PROVE  NoTaskLost'
<1>1. ASSUME NEW t \in Task, t \notin crossed' PROVE Safe(t)'
  <2>1. t \notin crossed /\ Safe(t)
    BY <1>1, CrossedGrows, LostIsSafe
  <2>2. ASSUME NEW n \in Message, n[1] = t, ready[n] > 0 PROVE Safe(t)'
    <3>1. CASE ready'[n] > 0
      BY <2>2, <3>1 DEF Safe
    <3>2. ASSUME NEW w \in Worker, Take(w, n) PROVE Safe(t)'
      BY <2>2, <3>2, TakenStep
    <3> QED
      BY <2>2, <3>1, <3>2, QueueStep
  <2>3. ASSUME NEW w \in Worker, Holds(w, t) PROVE Safe(t)'
    BY <2>1, <2>3, GiveUpStep
  <2>4. CASE outcome[t] \in Final
    <3>1. CASE outcome'[t] = outcome[t]
      BY <2>4, <3>1 DEF Safe
    <3>2. CASE outcome'[t] # outcome[t]
      <4>1. PICK w \in Worker : StoreOutcome(w)
        BY <3>2
        DEF Next, Wrapper, Celery, Deliver, Discard, Lock, LockFails, Duplicate,
            GetCached, GetCachedFails, RunBody, BodyRaises, Save, SaveFails, Unlock,
            UnlockFails, Retry, Fail, ReadOutcome, TimeLimit, Ack, Kill, Disconnect,
            Terminate, Revoke, Restart, Tick, Frame, vars
      <4>2. TaskOf(w) = t
        BY <3>2, <4>1 DEF StoreOutcome, TypeOK
      <4> QED
        BY <2>1, <4>1, <4>2, StoreStep
    <3> QED
      BY <3>1, <3>2
  <2> QED
    BY <2>1, <2>2, <2>3, <2>4 DEF Safe
<1> QED
  BY <1>1 DEF NoTaskLost, Safe, Holds, Final

LEMMA InitLost == Init => LostInv
<1> SUFFICES ASSUME Init PROVE LostInv
  OBVIOUS
<1>1. Reports /\ Published
  BY DEF Init, Reports, Published, Unreported
<1>2. ASSUME NEW t \in Task PROVE \E m \in Message : m[1] = t /\ ready[m] > 0
  <2>1. <<t, 0>> \in Message /\ ready[<<t, 0>>] = 1
    BY TaskAssumption DEF Init, Message
  <2> QED
    BY <2>1
<1> QED
  BY <1>1, <1>2 DEF LostInv, NoTaskLost

LEMMA NextLost == TypeOK /\ LostInv /\ [Next]_vars => LostInv'
BY ReportsStep, PublishedStep, SafeStep DEF LostInv

\* No task is lost, whatever is killed, cut off, retried or revoked, and for
\* any number of losses: until it has a verdict, a message of it is queued or
\* with a process that owes the broker its ack - unless an attempt of it was
\* overtaken by its own retry, or stopped, before it had reported RETRY.
THEOREM TasksAreKept == Spec => []NoTaskLost
<1>1. LostInv => NoTaskLost
  BY DEF LostInv
<1> QED
  BY <1>1, InitType, NextType, InitLost, NextLost, PTL DEF Spec
=============================================================================
