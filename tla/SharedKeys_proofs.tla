-------------------------- MODULE SharedKeys_proofs --------------------------
(***************************************************************************)
(* That a key is one lock to clients and workers, and that clients keep    *)
(* the workers' window, for any number of either, any keys and ttls, and   *)
(* any window longer than the hard limit.                                  *)
(***************************************************************************)
EXTENDS SharedKeys, TaskSubmit_proofs

(***************************************************************************)
(* The inductive invariant.  TaskSubmit's HolderHasLock says that the lock *)
(* of a request at work carries its name; MineHolds says the same of a     *)
(* process in the body, and that it is in its window still.  Names tell    *)
(* the sides apart, but not two deliveries of one task (OneWorker).  The   *)
(* age of a lock is known of the workers' locks only (WorkLockAge), as     *)
(* since is not set by requests.  The lock of a run whose result is stored *)
(* keeps its name until the window is over (SavedKeepsName), so that no    *)
(* request is at work on the key, and none deletes it.                     *)
(***************************************************************************)
Places ==
    /\ place \in [Worker -> W!PC]
    /\ msg \in [Worker -> W!Message \cup {Nil}]
    /\ \A w \in Worker : place[w] # "idle" => msg[w] # Nil
    /\ elapsed \in [Worker -> 0..HardLimit]

WorkType ==
    /\ Places
    /\ since \in [IdemKey -> 0..Window]
    /\ fate \in [IdemKey -> {"none", "started", "completed", "saved"}]

Has(k, o) == redis[LockKey(k)].val = Processing(o)
Busy(w) == place[w] \in {"body", "save", "unlock"}
Of(w) == msg[w][1]
At(w) == KeyOf[msg[w][1]]

WorkLockAge ==
    \A k \in IdemKey, t \in Task : Has(k, t) =>
      redis[LockKey(k)].ttl + since[k] = Window

MineHolds ==
    \A w \in Worker : Busy(w) =>
      /\ Has(At(w), Of(w))
      /\ since[At(w)] <= elapsed[w]
      /\ fate[At(w)] # "saved"

OneWorker == \A v, w \in Worker : Busy(v) /\ Busy(w) /\ At(v) = At(w) => v = w

SavedKeepsName ==
    \A k \in IdemKey : fate[k] = "saved" /\ since[k] < Window =>
      \E t \in Task : Has(k, t)

WorkInv == WorkType /\ WorkLockAge /\ MineHolds /\ OneWorker /\ SavedKeepsName
SharedInv == TypeInv /\ HolderHasLock /\ WorkInv

-----------------------------------------------------------------------------

\* A process with a message has a task, a key and a name.
LEMMA Named ==
  ASSUME WorkType, NEW w \in Worker, place[w] # "idle"
  PROVE  Of(w) \in Task /\ At(w) \in IdemKey /\ Of(w) \in Owner
BY SharedAssumption DEF WorkType, Places, W!Message, Of, At

\* No name in a lock is both a request's and a task's.
LEMMA NamesDiffer ==
  ASSUME NEW r \in Request, NEW t \in Task
  PROVE  Processing(r) # Processing(t)
BY ValuesDiffer, SharedAssumption

\* An entry with a name exists, and one without has none.
LEMMA NameExists ==
  ASSUME RedisType, NEW k \in IdemKey, NEW o \in Owner
  PROVE  /\ Has(k, o) => Locked(k)
         /\ ~Locked(k) => redis[LockKey(k)] = Absent
<1>1. redis[LockKey(k)] \in Entry(Value)
  BY KeysInStore DEF RedisType
<1> QED
  BY <1>1, ValuesDiffer DEF Has, Locked, Exists, Entry, Absent

(***************************************************************************)
(* The requests' steps.                                                    *)
(***************************************************************************)

\* A step that leaves a lock alone, or puts no worker's name there and takes
\* none away.
Spared(k) == \/ redis'[LockKey(k)] = redis[LockKey(k)]
             \/ \A t \in Task : ~Has(k, t) /\ ~Has(k, t)'

LEMMA SubmitSpares ==
  ASSUME PlainKeys, Timely, TypeInv, HolderHasLock, SubmitStep, NEW k \in IdemKey
  PROVE  Spared(k)
<1> USE DEF Params, Effects, Silent, Goto, Respond, Unhandled, FailsAs, Spared
<1>1. CASE redis' = redis
  BY <1>1
<1>2. ASSUME NEW r \in Request, redis' # redis, Work(r) \/ GetWorkersResult(r) \/ Crash(r)
      PROVE  \/ pc[r] = "acquire" /\ acquire(key[r], r, ttl[r])
             \/ pc[r] = "set_result" /\ set_result(key[r], r, ttl[r])
             \/ pc[r] = "release" /\ Keyed(r) /\ release(key[r])
  BY <1>2
  DEF Work, GetWorkersResult, Crash, GetResult, GetResultFails, Acquire, AcquireFails,
      Send, SendFails, Commit, CommitFails, Record, StoreResult, StoreResultFails,
      HandleFailure, HandleFailureFails, Timely
<1>3. CASE redis' # redis
  <2>1. PICK r \in Request : Work(r) \/ GetWorkersResult(r) \/ Crash(r)
    BY <1>3 DEF SubmitStep, Submit
  <2>2. pc[r] # "idle" /\ Keyed(r)
    BY <1>2, <1>3, <2>1 DEF TypeInv
  <2>3. key[r] \in IdemKey /\ ttl[r] \in Nat \ {0} /\ r \in Owner /\ RedisType
    BY <2>2, CallParams DEF TypeInv, TypeOK
  <2>4. LockKey(k) \in RedisKey /\ LockKey(k) # ResultKey(key[r])
    BY <2>3, KeysInStore DEF PlainKeys, PlainLock
  <2>5. CASE key[r] # k
    <3>1. LockKey(k) # LockKey(key[r])
      BY <2>5, LockKeyInjective
    <3> QED
      BY <1>2, <1>3, <2>1, <2>3, <2>4, <3>1, AcquireEffect, SetResultEffect, ReleaseEffect
  <2>6. CASE key[r] = k /\ acquire(key[r], r, ttl[r])
    <3>1. CASE Locked(k)
      BY <2>3, <2>6, <3>1, AcquireEffect
    <3>2. CASE ~Locked(k)
      <4>1. redis[LockKey(k)] = Absent
        BY <2>3, <3>2, NameExists
      <4>2. redis'[LockKey(k)].val = Processing(r)
        BY <2>3, <2>6, <3>2, AcquireEffect DEF Get
      <4>3. ASSUME NEW t \in Task PROVE ~Has(k, t) /\ ~Has(k, t)'
        BY <4>1, <4>2, NamesDiffer, ValuesDiffer, SharedAssumption DEF Has, Absent
      <4> QED
        BY <4>3
    <3> QED
      BY <3>1, <3>2
  <2>7. CASE /\ key[r] = k /\ pc[r] \in Inside
             /\ set_result(key[r], r, ttl[r]) \/ release(key[r])
    <3>1. redis'[LockKey(k)] = Absent
      BY <2>3, <2>7, SetResultEffect, ReleaseEffect
    <3>2. redis[LockKey(k)].val = Processing(r)
      BY <2>2, <2>3, <2>7 DEF HolderHasLock, Get, PlainKeys
    <3>3. ASSUME NEW t \in Task PROVE ~Has(k, t) /\ ~Has(k, t)'
      BY <3>1, <3>2, NamesDiffer, ValuesDiffer, SharedAssumption DEF Has, Absent
    <3> QED
      BY <3>3
  <2> QED
    BY <1>2, <1>3, <2>1, <2>5, <2>6, <2>7 DEF Inside
<1> QED
  BY <1>1, <1>3

\* The workers' part of the invariant survives what spares their locks.
LEMMA SubmitWork ==
  ASSUME WorkInv, UNCHANGED working, \A k \in IdemKey : Spared(k)
  PROVE  WorkInv'
<1>1. /\ UNCHANGED <<place, msg, elapsed, since, fate>>
      /\ \A w : (Busy(w)' <=> Busy(w)) /\ At(w)' = At(w) /\ Of(w)' = Of(w)
  BY DEF working, Busy, At, Of
<1>2. \A k \in IdemKey, t \in Task :
        /\ Has(k, t)' <=> Has(k, t)
        /\ Has(k, t) => redis'[LockKey(k)] = redis[LockKey(k)]
  BY DEF Spared, Has
<1>3. WorkType'
  BY <1>1 DEF WorkInv, WorkType, Places
<1>4. WorkLockAge'
  BY <1>1, <1>2 DEF WorkInv, WorkLockAge
<1>5. MineHolds'
  <2> SUFFICES ASSUME NEW w \in Worker, Busy(w)
               PROVE  /\ Has(At(w), Of(w))'
                      /\ since'[At(w)'] <= elapsed'[w] /\ fate'[At(w)'] # "saved"
    BY <1>1 DEF MineHolds
  <2>1. PICK k \in IdemKey, t \in Task : k = At(w) /\ t = Of(w)
    BY Named DEF WorkInv, Busy
  <2>2. Has(k, t) /\ since[k] <= elapsed[w] /\ fate[k] # "saved"
    BY <2>1 DEF WorkInv, MineHolds
  <2>3. Has(k, t)'
    BY <1>2, <2>2
  <2> QED
    BY <1>1, <2>1, <2>2, <2>3 DEF Has
<1>6. OneWorker'
  BY <1>1 DEF WorkInv, OneWorker
<1>7. SavedKeepsName'
  BY <1>1, <1>2 DEF WorkInv, SavedKeepsName
<1> QED
  BY <1>3, <1>4, <1>5, <1>6, <1>7 DEF WorkInv

(***************************************************************************)
(* The workers' steps.  They leave the locks and the history alone         *)
(* (Quiet), or a process takes the lock of its key, goes on in the body    *)
(* with it, or gives it up.                                                *)
(***************************************************************************)
Stays(w) ==
    /\ UNCHANGED msg
    /\ \A v \in Worker : /\ Busy(v)' => elapsed'[v] = elapsed[v]
                         /\ v # w => place'[v] = place[v]

Quiet ==
    /\ UNCHANGED <<redis, since, fate>>
    /\ \A w \in Worker : Busy(w)' =>
         Busy(w) /\ msg'[w] = msg[w] /\ elapsed'[w] = elapsed[w]

Takes(w) ==
    /\ place[w] = "lock" /\ ~Locked(At(w)) /\ Stays(w)
    /\ redis' = SetEx(redis, LockKey(At(w)), Processing(Of(w)), Window)
    /\ since' = [since EXCEPT ![At(w)] = 0]
    /\ fate' = [fate EXCEPT ![At(w)] = "started"]

GoesOn(w) ==
    /\ Busy(w) /\ Stays(w) /\ UNCHANGED since
    /\ \/ UNCHANGED redis
       \/ redis' = SetEx(redis, ResultKey(At(w)), ResultOf(Of(w)), Window)
    /\ \/ UNCHANGED fate
       \/ fate' = [fate EXCEPT ![At(w)] = "completed"]
       \/ fate' = [fate EXCEPT ![At(w)] = "saved"] /\ ~Busy(w)'

GivesUp(w) ==
    /\ Busy(w) /\ Stays(w) /\ ~Busy(w)' /\ UNCHANGED <<since, fate>>
    /\ redis' = Del(redis, {LockKey(At(w))})

\* The workers' calls on the key of a message are the service's.
LEMMA SameService ==
  ASSUME NEW w
  PROVE  /\ W!WorkKey(w) = At(w) /\ W!TaskOf(w) = Of(w)
         /\ W!Locked(At(w)) <=> Locked(At(w))
         /\ W!SetLock(w) <=>
              /\ redis' = SetNxEx(redis, LockKey(At(w)), Processing(Of(w)), Window)
              /\ \/ Locked(At(w)) /\ UNCHANGED <<since, fate>>
                 \/ /\ ~Locked(At(w))
                    /\ since' = [since EXCEPT ![At(w)] = 0]
                    /\ fate' = [fate EXCEPT ![At(w)] = "started"]
         /\ W!SetResult(w) <=>
              redis' = SetEx(redis, ResultKey(At(w)), ResultOf(Of(w)), Window)
         /\ W!Del(redis, {W!LockKey(At(w))}) = Del(redis, {LockKey(At(w))})
<1>1. W!WorkKey(w) = At(w) /\ W!TaskOf(w) = Of(w)
  BY DEF W!WorkKey, W!TaskOf, At, Of
<1>2. W!Locked(At(w)) <=> Locked(At(w))
  BY DEF W!Locked, W!Exists, W!Missing, W!LockKey, Locked, Exists, Missing, LockKey
<1>3. W!SetNxEx(redis, W!LockKey(At(w)), W!Processing(Of(w)), Window)
        = SetNxEx(redis, LockKey(At(w)), Processing(Of(w)), Window)
  BY DEF W!SetNxEx, W!SetEx, W!Exists, W!Missing, W!LockKey, W!Processing,
         SetNxEx, SetEx, Exists, Missing, LockKey, Processing
<1>4. W!SetEx(redis, W!ResultKey(At(w)), W!ResultOf(Of(w)), Window)
        = SetEx(redis, ResultKey(At(w)), ResultOf(Of(w)), Window)
  BY DEF W!SetEx, W!ResultKey, W!ResultOf, SetEx, ResultKey, ResultOf
<1>5. W!Del(redis, {W!LockKey(At(w))}) = Del(redis, {LockKey(At(w))})
  BY DEF W!Del, W!Absent, W!Missing, W!LockKey, Del, Absent, Missing, LockKey
<1> QED
  BY <1>1, <1>2, <1>3, <1>4, <1>5 DEF W!SetLock, W!SetResult, W!Ghosts

\* The wrapper's steps, each of one of these kinds.
LEMMA WrapperKinds ==
  ASSUME WorkType, NEW w \in Worker, W!Wrapper(w)
  PROVE  /\ Places' /\ msg' = msg
         /\ Quiet \/ Takes(w) \/ GoesOn(w) \/ GivesUp(w)
<1>0. /\ W!WorkKey(w) = At(w) /\ W!TaskOf(w) = Of(w)
      /\ W!Locked(At(w)) <=> Locked(At(w))
      /\ W!SetLock(w) <=>
           /\ redis' = SetNxEx(redis, LockKey(At(w)), Processing(Of(w)), Window)
           /\ \/ Locked(At(w)) /\ UNCHANGED <<since, fate>>
              \/ /\ ~Locked(At(w))
                 /\ since' = [since EXCEPT ![At(w)] = 0]
                 /\ fate' = [fate EXCEPT ![At(w)] = "started"]
      /\ W!SetResult(w) <=>
           redis' = SetEx(redis, ResultKey(At(w)), ResultOf(Of(w)), Window)
      /\ W!Del(redis, {W!LockKey(At(w))}) = Del(redis, {LockKey(At(w))})
  BY SameService
<1> USE <1>0 DEF W!Frame, W!Broker, W!Ghosts
<1>1. PICK p \in W!PC : W!Goto(w, p) /\ p # "idle"
  BY DEF W!Wrapper, W!Lock, W!LockFails, W!Duplicate, W!GetCached, W!GetCachedFails,
         W!RunBody, W!BodyRaises, W!Save, W!SaveFails, W!Unlock, W!UnlockFails,
         W!Return, W!Report, W!Raise, W!PC, W!Inside, W!Reporting
<1>2. /\ place' = [place EXCEPT ![w] = p]
      /\ place' \in [Worker -> W!PC]
      /\ elapsed' \in [Worker -> 0..HardLimit]
      /\ \A v \in Worker : /\ v # w => place'[v] = place[v]
                           /\ Busy(v)' => elapsed'[v] = elapsed[v]
  BY <1>1, SharedAssumption DEF W!Goto, WorkType, Places, Busy
<1>3. msg' = msg /\ place[w] # "idle" /\ place'[w] = p
  BY <1>2
  DEF W!Wrapper, W!Lock, W!LockFails, W!Duplicate, W!GetCached, W!GetCachedFails,
      W!RunBody, W!BodyRaises, W!Save, W!SaveFails, W!Unlock, W!UnlockFails, WorkType, Places
<1>4. Stays(w)
  BY <1>2, <1>3 DEF Stays
<1>5. Quiet \/ Takes(w) \/ GoesOn(w) \/ GivesUp(w)
  <2>1. CASE W!SetLock(w) /\ place[w] = "lock" /\ ~Locked(At(w))
    <3>1. redis' = SetEx(redis, LockKey(At(w)), Processing(Of(w)), Window)
      BY <2>1 DEF SetNxEx, Locked
    <3> QED
      BY <1>4, <2>1, <3>1 DEF Takes
  <2>2. CASE UNCHANGED <<redis, since, fate>> /\ (Busy(w)' => Busy(w))
    BY <1>2, <1>3, <2>2 DEF Quiet, Busy
  <2>3. CASE W!Lock(w)
    BY <2>1, <2>3 DEF W!Lock
  <2>4. CASE W!LockFails(w)
    <3>1. ~Busy(w)' /\ place[w] = "lock"
      BY <1>2, <2>4 DEF W!LockFails, W!Raise, W!Goto, WorkType, Places, Busy
    <3>2. W!SetLock(w) \/ UNCHANGED <<redis, since, fate>>
      BY <2>4 DEF W!LockFails, W!FailsAs
    <3>3. W!SetLock(w) /\ Locked(At(w)) => UNCHANGED <<redis, since, fate>>
      <4>1. W!SetLock(w) /\ Locked(At(w)) => UNCHANGED <<since, fate>>
        BY <1>0
      <4>2. W!SetLock(w) /\ Locked(At(w)) => redis' = redis
        BY <1>0 DEF SetNxEx, Locked
      <4> QED
        BY <4>1, <4>2
    <3> QED
      BY <2>1, <2>2, <3>1, <3>2, <3>3
  <2>5. CASE W!Duplicate(w) \/ W!GetCached(w) \/ W!GetCachedFails(w)
    <3>1. ~Busy(w)'
      BY <1>2, <2>5
      DEF W!Duplicate, W!GetCached, W!GetCachedFails, W!Return, W!Report, W!Raise, W!Goto, Busy,
          WorkType, Places
    <3>2. UNCHANGED <<redis, since, fate>>
      BY <2>5 DEF W!Duplicate, W!GetCached, W!GetCachedFails
    <3> QED
      BY <2>2, <3>1, <3>2
  <2>6. CASE W!BodyRaises(w)
    <3>1. UNCHANGED <<redis, since, fate>> /\ Busy(w)
      BY <2>6 DEF W!BodyRaises, Busy
    <3> QED
      BY <2>2, <3>1
  <2>7. CASE W!RunBody(w)
    <3>1. Busy(w) /\ UNCHANGED <<redis, since>>
          /\ fate' = [fate EXCEPT ![At(w)] = "completed"]
      BY <2>7 DEF W!RunBody, Busy
    <3> QED
      BY <1>4, <3>1 DEF GoesOn
  <2>8. CASE W!SaveFails(w)
    <3>1. Busy(w) /\ UNCHANGED <<since, fate>> /\ (UNCHANGED redis \/ W!SetResult(w))
      BY <2>8 DEF W!SaveFails, W!FailsAs, Busy
    <3> QED
      BY <1>4, <3>1 DEF GoesOn
  <2>9. CASE W!Save(w)
    <3>1. /\ Busy(w) /\ UNCHANGED since /\ W!SetResult(w)
          /\ fate' = [fate EXCEPT ![At(w)] = "saved"]
      BY <2>9 DEF W!Save, Busy
    <3>2. ~Busy(w)'
      BY <1>2, <2>9 DEF W!Save, W!Return, W!Report, W!Goto, Busy, WorkType, Places
    <3> QED
      BY <1>4, <3>1, <3>2 DEF GoesOn
  <2>10. CASE W!Unlock(w) \/ W!UnlockFails(w)
    <3>1. Busy(w) /\ UNCHANGED <<since, fate>>
      BY <2>10 DEF W!Unlock, W!UnlockFails, Busy
    <3>2. redis' = Del(redis, {LockKey(At(w))}) \/ UNCHANGED redis
      BY <2>10 DEF W!Unlock, W!UnlockFails, W!FailsAs
    <3>3. ~Busy(w)'
      BY <1>2, <2>10 DEF W!Unlock, W!UnlockFails, W!Raise, W!Goto, Busy, WorkType, Places
    <3> QED
      BY <1>4, <2>2, <3>1, <3>2, <3>3 DEF GivesUp
  <2> QED
    BY <2>3, <2>4, <2>5, <2>6, <2>7, <2>8, <2>9, <2>10 DEF W!Wrapper
<1>6. Places'
  BY <1>1, <1>2, <1>3 DEF WorkType, Places
<1> QED
  BY <1>3, <1>5, <1>6

\* What Celery and the broker do.
LEMMA OtherKinds ==
  ASSUME WorkType, NEW w \in Worker,
         \/ \E m \in W!Message : W!Deliver(w, m)
         \/ W!Celery(w) \/ W!Kill(w) \/ W!Disconnect(w)
  PROVE  Places' /\ Quiet
<1> USE DEF W!Frame, W!Broker, W!Ghosts
<1>1. ASSUME NEW p \in {"lock", "report", "store", "stopped", "ack", "idle"}, W!Goto(w, p)
      PROVE  /\ place' = [place EXCEPT ![w] = p]
             /\ place' \in [Worker -> W!PC]
             /\ elapsed' \in [Worker -> 0..HardLimit]
             /\ ~Busy(w)'
             /\ \A v \in Worker : Busy(v)' => Busy(v) /\ v # w /\ elapsed'[v] = elapsed[v]
  BY <1>1, SharedAssumption
  DEF W!Goto, W!PC, W!Inside, W!Reporting, WorkType, Places, Busy
<1>2. ASSUME NEW m \in W!Message, W!Deliver(w, m)
      PROVE  Places' /\ Quiet
  <2>1. W!Goto(w, "lock") /\ msg' = [msg EXCEPT ![w] = m] /\ UNCHANGED <<redis, since, fate>>
    BY <1>2 DEF W!Deliver, W!Take
  <2>2. m # Nil
    BY SharedAssumption DEF W!Message
  <2> QED
    BY <1>1, <2>1, <2>2 DEF Places, Quiet, WorkType
<1>3. CASE \/ W!Retry(w) \/ W!Fail(w) \/ W!ReadOutcome(w) \/ W!StoreOutcome(w)
           \/ W!TimeLimit(w)
  <2>1. \E p \in {"report", "store", "stopped", "ack"} : W!Goto(w, p)
    BY <1>3
    DEF W!Retry, W!Fail, W!Report, W!ReadOutcome, W!StoreOutcome, W!Reported,
        W!TimeLimit, W!Stop
  <2>2. msg' = msg /\ UNCHANGED <<redis, since, fate>> /\ place[w] # "idle"
    BY <1>3
    DEF W!Retry, W!Fail, W!ReadOutcome, W!StoreOutcome, W!TimeLimit, W!AtWork
  <2> QED
    BY <1>1, <2>1, <2>2 DEF Places, Quiet, WorkType
<1>4. CASE W!Ack(w) \/ W!Kill(w)
  <2>1. W!Goto(w, "idle") /\ msg' = [msg EXCEPT ![w] = Nil]
        /\ UNCHANGED <<redis, since, fate>>
    BY <1>4 DEF W!Ack, W!Kill, W!Free
  <2> QED
    BY <1>1, <2>1 DEF Places, Quiet, WorkType
<1>5. CASE W!Disconnect(w)
  BY <1>5 DEF W!Disconnect, Places, Quiet, WorkType, Busy
<1> QED
  BY <1>2, <1>3, <1>4, <1>5 DEF W!Celery

\* Every step of the workers is of one kind.
LEMMA WorkKinds ==
  ASSUME WorkType, WorkStep
  PROVE  /\ Places' /\ UNCHANGED submitting
         /\ Quiet \/ \E w \in Worker : Takes(w) \/ GoesOn(w) \/ GivesUp(w)
BY WrapperKinds, OtherKinds DEF WorkStep

\* What they do to the locks.
LEMMA KindEffect ==
  ASSUME PlainKeys, RedisType, WorkType,
         NEW w \in Worker, Takes(w) \/ GoesOn(w) \/ GivesUp(w)
  PROVE  /\ RedisType' /\ At(w) \in IdemKey /\ Of(w) \in Task
         /\ Takes(w) => redis'[LockKey(At(w))] = [val |-> Processing(Of(w)), ttl |-> Window]
         /\ GivesUp(w) => redis'[LockKey(At(w))] = Absent
         /\ \A k \in IdemKey : k # At(w) \/ GoesOn(w) =>
              redis'[LockKey(k)] = redis[LockKey(k)]
<1>1. /\ At(w) \in IdemKey /\ Of(w) \in Task /\ Of(w) \in Owner
      /\ Window \in Nat \ {0} /\ redis \in [RedisKey -> Entry(Value)]
      /\ \A k \in IdemKey : LockKey(k) \in RedisKey
  BY Named, SharedAssumption, KeysInStore DEF Takes, GoesOn, GivesUp, Busy, RedisType
<1>2. /\ Processing(Of(w)) \in Value /\ ResultOf(Of(w)) \in Value
      /\ ResultKey(At(w)) \in RedisKey
  BY <1>1, ValuesDiffer, KeysInStore
<1>3. \A k \in IdemKey : /\ LockKey(k) # ResultKey(At(w))
                         /\ k # At(w) => LockKey(k) # LockKey(At(w))
  BY <1>1, LockKeyInjective DEF PlainKeys, PlainLock
<1>4. ASSUME Takes(w)
      PROVE  /\ redis' \in [RedisKey -> Entry(Value)]
             /\ redis'[LockKey(At(w))] = [val |-> Processing(Of(w)), ttl |-> Window]
             /\ \A k \in IdemKey : k # At(w) => redis'[LockKey(k)] = redis[LockKey(k)]
  <2>1. redis' = SetEx(redis, LockKey(At(w)), Processing(Of(w)), Window)
    BY <1>4 DEF Takes
  <2>2. redis' \in [RedisKey -> Entry(Value)]
    BY <1>1, <1>2, <2>1, SetExEffect
  <2> QED
    BY <1>1, <1>3, <2>1, <2>2 DEF SetEx
<1>5. ASSUME GoesOn(w)
      PROVE  /\ redis' \in [RedisKey -> Entry(Value)]
             /\ \A k \in IdemKey : redis'[LockKey(k)] = redis[LockKey(k)]
  <2>1. CASE UNCHANGED redis
    BY <1>1, <2>1
  <2>2. CASE redis' = SetEx(redis, ResultKey(At(w)), ResultOf(Of(w)), Window)
    BY <1>1, <1>2, <1>3, <2>2, SetExEffect
  <2> QED
    BY <1>5, <2>1, <2>2 DEF GoesOn
<1>6. ASSUME GivesUp(w)
      PROVE  /\ redis' \in [RedisKey -> Entry(Value)]
             /\ redis'[LockKey(At(w))] = Absent
             /\ \A k \in IdemKey : k # At(w) => redis'[LockKey(k)] = redis[LockKey(k)]
  <2>1. redis' = Del(redis, {LockKey(At(w))})
    BY <1>6 DEF GivesUp
  <2> QED
    BY <1>1, <1>3, <2>1, DelEffect
<1>7. Takes(w) => ~GoesOn(w)
  BY DEF Takes, GoesOn, Busy
<1> QED
  BY <1>1, <1>4, <1>5, <1>6, <1>7 DEF RedisType

(***************************************************************************)
(* The workers' part of the invariant.                                     *)
(***************************************************************************)
\* A quiet step only moves processes out of bodies.
LEMMA QuietWork ==
  ASSUME WorkInv, Places', Quiet
  PROVE  WorkInv'
<1>1. \A w \in Worker : Busy(w)' =>
        Busy(w) /\ At(w)' = At(w) /\ Of(w)' = Of(w) /\ elapsed'[w] = elapsed[w]
  BY DEF Quiet, At, Of
<1>2. redis' = redis /\ since' = since /\ fate' = fate
  BY DEF Quiet
<1>3. WorkType' /\ WorkLockAge' /\ SavedKeepsName'
  BY <1>2 DEF WorkInv, WorkType, WorkLockAge, SavedKeepsName, Has
<1>4. MineHolds'
  BY <1>1, <1>2 DEF WorkInv, MineHolds, Has
<1>5. OneWorker'
  BY <1>1 DEF WorkInv, OneWorker
<1> QED
  BY <1>3, <1>4, <1>5 DEF WorkInv

\* A process that stays at its message keeps its name.
LEMMA StaysNamed ==
  ASSUME NEW w, Stays(w)
  PROVE  \A v : At(v)' = At(v) /\ Of(v)' = Of(v)
BY DEF Stays, At, Of

\* Taking a free lock: nobody was in a body of this key.
LEMMA TakesWork ==
  ASSUME PlainKeys, RedisType, WorkInv, Places', NEW w \in Worker, Takes(w)
  PROVE  WorkInv'
<1>0. WorkType
  BY DEF WorkInv
<1>1. PICK k \in IdemKey, t \in Task : k = At(w) /\ t = Of(w)
  BY <1>0, KindEffect
<1>2. /\ redis'[LockKey(k)] = [val |-> Processing(t), ttl |-> Window]
      /\ \A l \in IdemKey : l # k => redis'[LockKey(l)] = redis[LockKey(l)]
      /\ since' = [since EXCEPT ![k] = 0]
      /\ fate' = [fate EXCEPT ![k] = "started"]
      /\ ~Locked(k) /\ Stays(w)
  BY <1>0, <1>1, KindEffect DEF Takes
<1>3. /\ since \in [IdemKey -> 0..Window] /\ Window \in Nat
      /\ fate \in [IdemKey -> {"none", "started", "completed", "saved"}]
      /\ Places
  BY <1>0, SharedAssumption DEF WorkType
<1>4. WorkType'
  BY <1>2, <1>3 DEF WorkType
<1>5. WorkLockAge'
  <2> SUFFICES ASSUME NEW l \in IdemKey, NEW o \in Task, Has(l, o)'
               PROVE  redis'[LockKey(l)].ttl + since'[l] = Window
    BY DEF WorkLockAge
  <2>1. CASE l = k
    BY <1>2, <1>3, <2>1
  <2>2. CASE l # k
    BY <1>2, <1>3, <2>2 DEF WorkInv, WorkLockAge, Has
  <2> QED
    BY <2>1, <2>2
<1>6. \A v \in Worker : Busy(v)' /\ v # w => Busy(v) /\ elapsed'[v] = elapsed[v]
  BY <1>2 DEF Stays, Busy
<1>7. \A v \in Worker : Busy(v) => At(v) # k
  <2> SUFFICES ASSUME NEW v \in Worker, Busy(v), At(v) = k PROVE FALSE
    OBVIOUS
  <2>1. Has(k, Of(v)) /\ Of(v) \in Owner
    BY <1>0, Named DEF WorkInv, MineHolds, Busy
  <2> QED
    BY <1>2, <2>1, NameExists
<1>8. \A v : At(v)' = At(v) /\ Of(v)' = Of(v)
  BY <1>2, StaysNamed
<1>9. MineHolds'
  <2> SUFFICES ASSUME NEW v \in Worker, Busy(v)'
               PROVE  /\ Has(At(v), Of(v))'
                      /\ since'[At(v)'] <= elapsed'[v] /\ fate'[At(v)'] # "saved"
    BY DEF MineHolds
  <2>1. CASE v = w
    <3>1. elapsed'[v] \in Nat
      BY SharedAssumption DEF Places
    <3>2. Has(k, t)'
      BY <1>2 DEF Has
    <3> QED
      BY <1>1, <1>2, <1>3, <1>8, <2>1, <3>1, <3>2 DEF Has
  <2>2. CASE v # w
    <3>1. Busy(v) /\ elapsed'[v] = elapsed[v]
      BY <1>6, <2>2
    <3>2. PICK l \in IdemKey, o \in Task : l = At(v) /\ o = Of(v)
      BY <1>0, <3>1, Named DEF Busy
    <3>3. Has(l, o) /\ since[l] <= elapsed[v] /\ fate[l] # "saved" /\ l # k
      BY <1>7, <3>1, <3>2 DEF WorkInv, MineHolds
    <3>4. Has(l, o)' /\ since'[l] = since[l] /\ fate'[l] = fate[l]
      BY <1>2, <1>3, <3>3 DEF Has
    <3> QED
      BY <1>8, <3>1, <3>2, <3>3, <3>4 DEF Has
  <2> QED
    BY <2>1, <2>2
<1>10. OneWorker'
  BY <1>1, <1>6, <1>7, <1>8 DEF WorkInv, OneWorker
<1>11. SavedKeepsName'
  <2> SUFFICES ASSUME NEW l \in IdemKey, fate'[l] = "saved", since'[l] < Window
               PROVE  \E o \in Task : Has(l, o)'
    BY DEF SavedKeepsName
  <2>1. l # k
    BY <1>2, <1>3
  <2>2. \E o \in Task : Has(l, o)
    BY <1>2, <1>3, <2>1 DEF WorkInv, SavedKeepsName
  <2> QED
    BY <1>2, <2>1, <2>2 DEF Has
<1> QED
  BY <1>4, <1>5, <1>9, <1>10, <1>11 DEF WorkInv

\* Going on in the body: the locks stay, and the run is completed or saved.
LEMMA GoesOnWork ==
  ASSUME PlainKeys, RedisType, WorkInv, Places', NEW w \in Worker, GoesOn(w)
  PROVE  WorkInv'
<1>0. WorkType
  BY DEF WorkInv
<1>1. PICK k \in IdemKey, t \in Task : k = At(w) /\ t = Of(w)
  BY <1>0, KindEffect
<1>2. /\ \A l \in IdemKey : redis'[LockKey(l)] = redis[LockKey(l)]
      /\ since' = since /\ Stays(w) /\ Busy(w)
      /\ \/ UNCHANGED fate \/ fate' = [fate EXCEPT ![k] = "completed"]
         \/ fate' = [fate EXCEPT ![k] = "saved"] /\ ~Busy(w)'
  BY <1>0, <1>1, KindEffect DEF GoesOn
<1>3. fate \in [IdemKey -> {"none", "started", "completed", "saved"}]
  BY <1>0 DEF WorkType
<1>4. WorkType'
  BY <1>0, <1>2, <1>3 DEF WorkType
<1>5. WorkLockAge'
  BY <1>2 DEF WorkInv, WorkLockAge, Has
<1>6. \A v \in Worker : Busy(v)' => Busy(v) /\ elapsed'[v] = elapsed[v]
  BY <1>2 DEF Stays, Busy
<1>7. \A v : At(v)' = At(v) /\ Of(v)' = Of(v)
  BY <1>2, StaysNamed
<1>8. MineHolds'
  <2> SUFFICES ASSUME NEW v \in Worker, Busy(v)'
               PROVE  /\ Has(At(v), Of(v))'
                      /\ since'[At(v)'] <= elapsed'[v] /\ fate'[At(v)'] # "saved"
    BY DEF MineHolds
  <2>1. Busy(v) /\ elapsed'[v] = elapsed[v]
    BY <1>6
  <2>2. PICK l \in IdemKey, o \in Task : l = At(v) /\ o = Of(v)
    BY <1>0, <2>1, Named DEF Busy
  <2>3. Has(l, o) /\ since[l] <= elapsed[v] /\ fate[l] # "saved"
    BY <2>1, <2>2 DEF WorkInv, MineHolds
  <2>4. Has(l, o)'
    BY <1>2, <2>3 DEF Has
  <2>5. l = k => v = w
    BY <1>1, <1>2, <2>1, <2>2 DEF WorkInv, OneWorker
  <2>6. fate'[l] # "saved"
    BY <1>2, <1>3, <2>3, <2>5
  <2> QED
    BY <1>2, <1>7, <2>1, <2>2, <2>3, <2>4, <2>6 DEF Has
<1>9. OneWorker'
  BY <1>6, <1>7 DEF WorkInv, OneWorker
<1>10. SavedKeepsName'
  <2> SUFFICES ASSUME NEW l \in IdemKey, fate'[l] = "saved", since'[l] < Window
               PROVE  \E o \in Task : Has(l, o)'
    BY DEF SavedKeepsName
  <2>1. CASE l = k
    <3>1. Has(k, t)
      BY <1>1, <1>2 DEF WorkInv, MineHolds
    <3> QED
      BY <1>2, <2>1, <3>1 DEF Has
  <2>2. CASE l # k
    <3>1. \E o \in Task : Has(l, o)
      BY <1>2, <1>3, <2>2 DEF WorkInv, SavedKeepsName
    <3> QED
      BY <1>2, <3>1 DEF Has
  <2> QED
    BY <2>1, <2>2
<1> QED
  BY <1>4, <1>5, <1>8, <1>9, <1>10 DEF WorkInv

\* Giving up the lock, which is the process's own.
LEMMA GivesUpWork ==
  ASSUME PlainKeys, RedisType, WorkInv, Places', NEW w \in Worker, GivesUp(w)
  PROVE  WorkInv'
<1>0. WorkType
  BY DEF WorkInv
<1>1. PICK k \in IdemKey : k = At(w)
  BY <1>0, KindEffect
<1>2. /\ redis'[LockKey(k)] = Absent
      /\ \A l \in IdemKey : l # k => redis'[LockKey(l)] = redis[LockKey(l)]
      /\ since' = since /\ fate' = fate /\ Stays(w) /\ Busy(w) /\ ~Busy(w)'
  BY <1>0, <1>1, KindEffect DEF GivesUp
<1>3. \A o \in Task : ~Has(k, o)'
  BY <1>2, ValuesDiffer, SharedAssumption DEF Has, Absent
<1>4. \A l \in IdemKey, o \in Task : Has(l, o)' => l # k /\ Has(l, o)
  BY <1>2, <1>3 DEF Has
<1>5. WorkType'
  BY <1>0, <1>2 DEF WorkType
<1>6. WorkLockAge'
  BY <1>2, <1>4 DEF WorkInv, WorkLockAge
<1>7. \A v \in Worker : Busy(v)' => Busy(v) /\ elapsed'[v] = elapsed[v] /\ At(v) # k
  <2>1. \A v \in Worker : Busy(v)' => v # w
    BY <1>2
  <2>2. \A v \in Worker : Busy(v)' => Busy(v) /\ elapsed'[v] = elapsed[v]
    BY <1>2 DEF Stays, Busy
  <2> QED
    BY <1>1, <1>2, <2>1, <2>2 DEF WorkInv, OneWorker
<1>8. \A v : At(v)' = At(v) /\ Of(v)' = Of(v)
  BY <1>2, StaysNamed
<1>9. MineHolds'
  <2> SUFFICES ASSUME NEW v \in Worker, Busy(v)'
               PROVE  /\ Has(At(v), Of(v))'
                      /\ since'[At(v)'] <= elapsed'[v] /\ fate'[At(v)'] # "saved"
    BY DEF MineHolds
  <2>1. PICK l \in IdemKey, o \in Task : l = At(v) /\ o = Of(v)
    BY <1>0, <1>7, Named DEF Busy
  <2>2. Has(l, o) /\ since[l] <= elapsed[v] /\ fate[l] # "saved" /\ l # k
    BY <1>7, <2>1 DEF WorkInv, MineHolds
  <2>3. Has(l, o)'
    BY <1>2, <2>2 DEF Has
  <2> QED
    BY <1>2, <1>7, <1>8, <2>1, <2>2, <2>3 DEF Has
<1>10. OneWorker'
  BY <1>7, <1>8 DEF WorkInv, OneWorker
<1>11. SavedKeepsName'
  <2> SUFFICES ASSUME NEW l \in IdemKey, fate'[l] = "saved", since'[l] < Window
               PROVE  \E o \in Task : Has(l, o)'
    BY DEF SavedKeepsName
  <2>1. l # k
    BY <1>1, <1>2 DEF WorkInv, MineHolds
  <2>2. \E o \in Task : Has(l, o)
    BY <1>2 DEF WorkInv, SavedKeepsName
  <2> QED
    BY <1>2, <2>1, <2>2 DEF Has
<1> QED
  BY <1>5, <1>6, <1>9, <1>10, <1>11 DEF WorkInv

\* A second that passes takes a name away when its window is over.
LEMMA NameAges ==
  ASSUME RedisType, WorkType, WorkLockAge, redis' = Elapse(redis),
         NEW k \in IdemKey, NEW t \in Task
  PROVE  /\ Has(k, t)' => Has(k, t) /\ since[k] + 1 < Window
                          /\ redis'[LockKey(k)].ttl = redis[LockKey(k)].ttl - 1
         /\ Has(k, t) /\ since[k] + 1 < Window => Has(k, t)'
<1> DEFINE e == redis[LockKey(k)]
<1>1. /\ redis \in [RedisKey -> Entry(Value)] /\ LockKey(k) \in RedisKey
      /\ since[k] \in 0..Window /\ Window \in Nat /\ t \in Owner
  BY KeysInStore, SharedAssumption DEF RedisType, WorkType
<1>2. e.ttl \in Int /\ (e.ttl > 0 \/ e.ttl < 0)
  BY <1>1 DEF Entry, Ttl, Missing, Persistent
<1>3. /\ e.ttl = 1 => redis'[LockKey(k)] = Absent
      /\ e.ttl # 1 => redis'[LockKey(k)].val = e.val
      /\ e.ttl > 1 => redis'[LockKey(k)].ttl = e.ttl - 1
  BY <1>1, ElapseEffect DEF Get
<1>4. Has(k, t) => e.ttl = Window - since[k] /\ e.ttl \in Nat /\ e.ttl # 0
  BY <1>1, <1>2 DEF WorkLockAge
<1>5. Has(k, t)' => e.ttl # 1 /\ Has(k, t)
  BY <1>1, <1>3, ValuesDiffer DEF Has, Absent
<1>6. Has(k, t) /\ e.ttl # 1 => Has(k, t)'
  BY <1>3 DEF Has
<1> QED
  BY <1>1, <1>3, <1>4, <1>5, <1>6

\* The name of a body's process stays, as the hard limit is shorter than the
\* window.
LEMMA TickWork ==
  ASSUME RedisType, WorkInv, SharedTick
  PROVE  WorkInv'
<1>0. WorkType /\ WorkLockAge /\ Places
  BY DEF WorkInv, WorkType
<1>1. /\ redis' = Elapse(redis) /\ place' = place /\ msg' = msg /\ fate' = fate
      /\ \A w \in Worker : W!AtWork(w) => elapsed[w] < HardLimit
      /\ elapsed' = [w \in Worker |-> IF W!AtWork(w) THEN elapsed[w] + 1 ELSE elapsed[w]]
      /\ since' = [k \in IdemKey |-> IF since[k] < Window THEN since[k] + 1 ELSE Window]
  BY DEF SharedTick, Tick, W!Tick, W!Broker
<1>2. /\ since \in [IdemKey -> 0..Window] /\ Window \in Nat
      /\ elapsed \in [Worker -> 0..HardLimit] /\ HardLimit \in Nat /\ HardLimit < Window
  BY <1>0, SharedAssumption DEF WorkType, Places
<1>3. WorkType'
  <2>1. elapsed' \in [Worker -> 0..HardLimit]
    BY <1>1, <1>2
  <2>2. since' \in [IdemKey -> 0..Window]
    BY <1>1, <1>2
  <2> QED
    BY <1>0, <1>1, <2>1, <2>2 DEF WorkType, Places
<1>4. \A k \in IdemKey, t \in Task :
        /\ Has(k, t)' => Has(k, t) /\ since[k] + 1 < Window
                         /\ redis'[LockKey(k)].ttl = redis[LockKey(k)].ttl - 1
        /\ Has(k, t) /\ since[k] + 1 < Window => Has(k, t)'
  BY <1>0, <1>1, NameAges
<1>5. WorkLockAge'
  <2> SUFFICES ASSUME NEW k \in IdemKey, NEW t \in Task, Has(k, t)'
               PROVE  redis'[LockKey(k)].ttl + since'[k] = Window
    BY DEF WorkLockAge
  <2>1. /\ redis[LockKey(k)].ttl + since[k] = Window /\ since'[k] = since[k] + 1
        /\ redis'[LockKey(k)].ttl = redis[LockKey(k)].ttl - 1
    BY <1>0, <1>1, <1>2, <1>4 DEF WorkLockAge
  <2>2. redis[LockKey(k)].ttl \in Int
    BY KeysInStore DEF RedisType, Entry, Ttl, Missing, Persistent
  <2> QED
    BY <1>2, <2>1, <2>2
<1>6. \A w \in Worker : /\ Busy(w)' => Busy(w)
                        /\ Busy(w) => elapsed'[w] = elapsed[w] + 1 /\ elapsed[w] < HardLimit
  BY <1>1, <1>2 DEF Busy, W!AtWork
<1>7. \A w : At(w)' = At(w) /\ Of(w)' = Of(w)
  BY <1>1 DEF At, Of
<1>8. MineHolds'
  <2> SUFFICES ASSUME NEW w \in Worker, Busy(w)'
               PROVE  /\ Has(At(w), Of(w))'
                      /\ since'[At(w)'] <= elapsed'[w] /\ fate'[At(w)'] # "saved"
    BY DEF MineHolds
  <2>1. Busy(w) /\ elapsed'[w] = elapsed[w] + 1 /\ elapsed[w] < HardLimit
    BY <1>6
  <2>2. PICK k \in IdemKey, t \in Task : k = At(w) /\ t = Of(w)
    BY <1>0, <2>1, Named DEF Busy
  <2>3. Has(k, t) /\ since[k] <= elapsed[w] /\ fate[k] # "saved"
    BY <2>1, <2>2 DEF WorkInv, MineHolds
  <2>4. since[k] + 1 < Window /\ since'[k] <= elapsed'[w]
    BY <1>1, <1>2, <2>1, <2>3
  <2>5. Has(k, t)'
    BY <1>4, <2>3, <2>4
  <2> QED
    BY <1>1, <1>7, <2>2, <2>3, <2>4, <2>5 DEF Has
<1>9. OneWorker'
  BY <1>6, <1>7 DEF WorkInv, OneWorker
<1>10. SavedKeepsName'
  <2> SUFFICES ASSUME NEW k \in IdemKey, fate'[k] = "saved", since'[k] < Window
               PROVE  \E t \in Task : Has(k, t)'
    BY DEF SavedKeepsName
  <2>1. fate[k] = "saved" /\ since[k] < Window /\ since[k] + 1 < Window
    BY <1>1, <1>2
  <2>2. PICK t \in Task : Has(k, t)
    BY <2>1 DEF WorkInv, SavedKeepsName
  <2> QED
    BY <1>4, <2>1, <2>2
<1> QED
  BY <1>3, <1>5, <1>8, <1>9, <1>10 DEF WorkInv

(***************************************************************************)
(* The requests' part, and the invariant.                                  *)
(***************************************************************************)
\* No worker writes to the lock of a request at work.
LEMMA WorkerSparesRequests ==
  ASSUME PlainKeys, TypeInv, HolderHasLock, WorkInv, WorkStep
  PROVE  TypeInv' /\ HolderHasLock'
<1>0. WorkType /\ RedisType
  BY DEF WorkInv, TypeInv, TypeOK
<1>1. /\ UNCHANGED <<pc, key, ttl, sent, rows, reply, answer, before, forgotten>>
      /\ Quiet \/ \E w \in Worker : Takes(w) \/ GoesOn(w) \/ GivesUp(w)
  BY <1>0, WorkKinds DEF submitting
<1>2. RedisType'
  BY <1>0, <1>1, KindEffect DEF Quiet, RedisType
<1>3. TypeInv'
  BY <1>1, <1>2 DEF TypeInv, TypeOK, Keyed
<1>4. HolderHasLock'
  <2> SUFFICES ASSUME NEW s \in Request, pc[s] \in Inside, Keyed(s)
               PROVE  redis'[LockKey(key[s])] = redis[LockKey(key[s])]
    BY <1>1 DEF HolderHasLock, Locked, Exists, Get, Keyed
  <2>1. key[s] \in IdemKey /\ Locked(key[s]) /\ Has(key[s], s)
    BY DEF TypeInv, TypeOK, Keyed, HolderHasLock, PlainKeys, Get, Has
  <2>2. ASSUME NEW w \in Worker, Takes(w) \/ GoesOn(w) \/ GivesUp(w)
        PROVE  redis'[LockKey(key[s])] = redis[LockKey(key[s])]
    <3>1. Takes(w) => key[s] # At(w)
      BY <2>1 DEF Takes
    <3>2. GivesUp(w) => key[s] # At(w)
      <4>1. GivesUp(w) => Has(At(w), Of(w)) /\ Of(w) \in Task
        BY <1>0, KindEffect DEF GivesUp, WorkInv, MineHolds
      <4> QED
        BY <2>1, <4>1, NamesDiffer DEF Has
    <3> QED
      BY <1>0, <2>1, <2>2, <3>1, <3>2, KindEffect
  <2> QED
    BY <1>1, <2>2 DEF Quiet
<1> QED
  BY <1>3, <1>4

\* The workers keep their part of the invariant.
LEMMA WorkersWork ==
  ASSUME PlainKeys, RedisType, WorkInv, WorkStep
  PROVE  WorkInv'
<1>1. Places' /\ (Quiet \/ \E w \in Worker : Takes(w) \/ GoesOn(w) \/ GivesUp(w))
  BY WorkKinds DEF WorkInv
<1> QED
  BY <1>1, QuietWork, TakesWork, GoesOnWork, GivesUpWork

\* A request that comes upon a task's return value.
LEMMA WorkersResult ==
  ASSUME TypeInv, HolderHasLock, NEW r \in Request, GetWorkersResult(r)
  PROVE  TypeInv' /\ HolderHasLock'
<1> USE DEF GetWorkersResult, Params, Effects, Silent, Goto, Respond, Unhandled
<1>1. RedisType'
  BY DEF TypeInv, TypeOK, RedisType
<1>2. TypeOK'
  BY <1>1 DEF TypeInv, TypeOK, PC, Reply
<1>3. TypeInv'
  BY <1>2 DEF TypeInv, TypeOK, Keyed
<1>4. \A s \in Request : (pc'[s] \in Inside => pc[s] \in Inside) /\ key'[s] = key[s]
  BY DEF Inside, TypeInv, TypeOK
<1>5. HolderHasLock'
  BY <1>4 DEF HolderHasLock, Locked, Keyed
<1> QED
  BY <1>3, <1>5

\* The requests keep theirs.
LEMMA RequestsWork ==
  ASSUME PlainKeys, Timely, TypeInv, HolderHasLock, SubmitStep
  PROVE  TypeInv' /\ HolderHasLock'
<1>1. ASSUME NEW r \in Request, NEW k \in IdemKey, NEW t \in TtlChoice, Submit(r, k, t)
      PROVE  TypeInv' /\ HolderHasLock'
  BY <1>1, NextType, SubmitKeepsLocks DEF Next
<1>2. ASSUME NEW r \in Request, Work(r) \/ Crash(r)
      PROVE  TypeInv' /\ HolderHasLock'
  BY <1>2, NextType, WorkKeepsLocks DEF Next
<1> QED
  BY <1>1, <1>2, WorkersResult DEF SubmitStep

\* At first nobody is at work, and no key has a lock.
LEMMA SharedInitInv == SharedInit => SharedInv
<1> SUFFICES ASSUME SharedInit PROVE SharedInv
  OBVIOUS
<1>1. TypeInv /\ HolderHasLock
  BY InitType DEF SharedInit, Init, HolderHasLock, Inside
<1>2. /\ place = [w \in Worker |-> "idle"] /\ msg = [w \in Worker |-> Nil]
      /\ elapsed = [w \in Worker |-> 0] /\ since = [k \in IdemKey |-> Window]
      /\ fate = [k \in IdemKey |-> "none"] /\ redis = Empty(RedisKey)
  BY DEF SharedInit, Init, W!Init
<1>3. \A w \in Worker : ~Busy(w)
  BY <1>2 DEF Busy
<1>4. \A k \in IdemKey, t \in Task : ~Has(k, t)
  BY <1>2, KeysInStore, ValuesDiffer, SharedAssumption DEF Has, Empty, Absent
<1>5. WorkType
  BY <1>2, SharedAssumption DEF WorkType, Places, W!PC
<1> QED
  BY <1>1, <1>2, <1>3, <1>4, <1>5
  DEF SharedInv, WorkInv, WorkLockAge, MineHolds, OneWorker, SavedKeepsName

\* Every step of the composition keeps the invariant.
LEMMA SharedNextInv ==
  ASSUME PlainKeys, Timely, SharedInv, [SharedNext]_shared
  PROVE  SharedInv'
<1>0. TypeInv /\ HolderHasLock /\ WorkInv /\ RedisType
  BY DEF SharedInv, TypeInv, TypeOK
<1>1. CASE SubmitStep
  BY <1>0, <1>1, RequestsWork, SubmitSpares, SubmitWork DEF SharedInv, SubmitStep
<1>2. CASE WorkStep
  BY <1>0, <1>2, WorkerSparesRequests, WorkersWork DEF SharedInv
<1>3. CASE SharedTick
  BY <1>0, <1>3, NextType, TickKeepsLocks, TickWork DEF SharedInv, SharedTick, Next
<1>4. CASE UNCHANGED shared
  <2>1. UNCHANGED vars /\ UNCHANGED working
    BY <1>4 DEF shared, submitting, vars
  <2>2. TypeInv' /\ HolderHasLock'
    BY <1>0, <2>1, NextType DEF vars, HolderHasLock, Locked, Keyed
  <2>3. WorkInv'
    BY <1>0, <2>1, SubmitWork DEF Spared, vars
  <2> QED
    BY <2>2, <2>3 DEF SharedInv
<1> QED
  BY <1>1, <1>2, <1>3, <1>4 DEF SharedNext

LEMMA SharedInvariant == ASSUME PlainKeys, Timely PROVE SharedSpec => []SharedInv
BY SharedInitInv, SharedNextInv, PTL DEF SharedSpec

-----------------------------------------------------------------------------
(***************************************************************************)
(* What follows from it.                                                   *)
(***************************************************************************)
\* Whoever holds a key has its lock, and is alone with it.
Alone == \A k \in IdemKey : /\ Holders(k) # {} => Locked(k)
                            /\ \A x, y \in Holders(k) : x = y

LEMMA OneHolder == PlainKeys /\ SharedInv => Alone
<1> SUFFICES ASSUME PlainKeys, SharedInv, NEW k \in IdemKey
             PROVE  /\ Holders(k) # {} => Locked(k)
                    /\ \A x, y \in Holders(k) : x = y
  BY DEF Alone
<1> USE DEF SharedInv
<1>1. RedisType /\ WorkType
  BY DEF TypeInv, TypeOK, WorkInv
<1>2. ASSUME NEW r \in Holding(k)
      PROVE  r \in Request /\ Locked(k) /\ Has(k, r)
  BY <1>2, SubmitAssumption DEF Holding, Keyed, HolderHasLock, PlainKeys, Get, Has
<1>3. ASSUME NEW w \in Worker, Busy(w), At(w) = k
      PROVE  Of(w) \in Task /\ Locked(k) /\ Has(k, Of(w))
  <2>1. Of(w) \in Task /\ Of(w) \in Owner
    BY <1>1, <1>3, Named DEF Busy
  <2>2. Has(k, Of(w))
    BY <1>3 DEF WorkInv, MineHolds
  <2> QED
    BY <1>1, <2>1, <2>2, NameExists
<1>4. \A x : x \in Holders(k) <=> x \in Holding(k) \/ (x \in Worker /\ Busy(x) /\ At(x) = k)
  BY DEF Holders, W!Inside, W!WorkKey, W!TaskOf, Busy, At
<1>5. \A r, s \in Holding(k) : r = s
  BY LockExcludes, SubmitAssumption DEF Holding, AtMostOneProcessing, Keyed, PlainKeys
<1>6. \A v, w \in Worker : Busy(v) /\ Busy(w) /\ At(v) = k /\ At(w) = k => v = w
  BY DEF WorkInv, OneWorker
<1>7. \A r \in Holding(k), w \in Worker : ~(Busy(w) /\ At(w) = k)
  BY <1>2, <1>3, NamesDiffer DEF Has
<1> QED
  BY <1>2, <1>3, <1>4, <1>5, <1>6, <1>7

\* Nobody comes to hold a key that is held.
LEMMA NoneJoins ==
  ASSUME PlainKeys, SharedInv, [SharedNext]_shared, NEW k \in IdemKey, Locked(k)
  PROVE  Holders(k)' \subseteq Holders(k)
<1>0. WorkType /\ TypeOK
  BY DEF SharedInv, TypeInv, WorkInv
<1>1. /\ Holders(k) = Holding(k) \cup {w \in Worker : Busy(w) /\ At(w) = k}
      /\ Holders(k)' = Holding(k)' \cup {w \in Worker : Busy(w)' /\ At(w)' = k}
  BY DEF Holders, W!Inside, W!WorkKey, W!TaskOf, Busy, At
<1>2. CASE SubmitStep
  <2>1. \A w : (Busy(w)' <=> Busy(w)) /\ At(w)' = At(w)
    BY <1>2 DEF SubmitStep, working, Busy, At
  <2> USE DEF Params, Effects, Silent, Goto, Respond, Unhandled
  <2>2. ASSUME NEW r \in Request, NEW l \in IdemKey, NEW t \in TtlChoice, Submit(r, l, t)
        PROVE  Holding(k)' \subseteq Holding(k)
    BY <1>0, <2>2, SubmitAssumption DEF Submit, Holding, Inside, TypeOK
  <2>3. ASSUME NEW r \in Request, Work(r) \/ GetWorkersResult(r) \/ Crash(r)
        PROVE  Holding(k)' \subseteq Holding(k)
    <3>1. key' = key
      BY <2>3
      DEF Work, Crash, GetResult, GetResultFails, GetWorkersResult, Acquire, AcquireFails,
          Send, SendFails, Commit, CommitFails, Record, StoreResult, StoreResultFails,
          HandleFailure, HandleFailureFails
    <3>2. \A s \in Request : pc'[s] \in Inside /\ key[s] = k => pc[s] \in Inside
      BY <1>0, <2>3
      DEF Work, Crash, GetResult, GetResultFails, GetWorkersResult, Acquire, AcquireFails,
          Send, SendFails, Commit, CommitFails, Record, StoreResult, StoreResultFails,
          HandleFailure, HandleFailureFails, Inside, TypeOK
    <3> QED
      BY <3>1, <3>2 DEF Holding
  <2> QED
    BY <1>1, <1>2, <2>1, <2>2, <2>3 DEF SubmitStep
<1>3. CASE WorkStep
  <2>1. UNCHANGED submitting /\ (Quiet \/ \E w \in Worker : Takes(w) \/ GoesOn(w) \/ GivesUp(w))
    BY <1>0, <1>3, WorkKinds
  <2>2. Holding(k)' = Holding(k)
    BY <2>1 DEF submitting, Holding
  <2>3. ASSUME NEW v \in Worker, Busy(v)', At(v)' = k
        PROVE  Busy(v) /\ At(v) = k
    <3>1. CASE Quiet
      BY <2>3, <3>1 DEF Quiet, At
    <3>2. ASSUME NEW w \in Worker, Takes(w) \/ GoesOn(w) \/ GivesUp(w)
          PROVE  Busy(v) /\ At(v) = k
      <4>1. At(v) = k /\ (v # w => Busy(v))
        BY <2>3, <3>2 DEF Takes, GoesOn, GivesUp, Stays, At, Busy
      <4>2. v = w => ~Takes(w)
        BY <4>1 DEF Takes
      <4> QED
        BY <3>2, <4>1, <4>2 DEF GoesOn, GivesUp
    <3> QED
      BY <2>1, <3>1, <3>2
  <2> QED
    BY <1>1, <2>2, <2>3
<1>4. CASE SharedTick \/ UNCHANGED shared
  <2>1. UNCHANGED <<pc, key, place, msg>>
    BY <1>4 DEF SharedTick, Tick, W!Tick, W!Broker, shared, submitting, working
  <2> QED
    BY <1>1, <2>1 DEF Holding, Busy, At
<1> QED
  BY <1>2, <1>3, <1>4 DEF SharedNext

\* A key is one lock to requests and workers, for any number of either, any
\* keys and ttls and any window longer than the hard limit: to each key they
\* come one after the other, as long as requests outrun their ttl and none
\* of their calls fails after its effect (the workers' may), and no key in
\* use is another one's lock.
THEOREM KeyExclusive == ASSUME PlainKeys, Timely PROVE SharedSpec => KeyIsMutex
<1> DEFINE A == \A k \in IdemKey : [Exclusion(k)!Next]_(Holders(k))
<1>1. SharedInit => \A k \in IdemKey : Exclusion(k)!Init
  <2> SUFFICES ASSUME SharedInit, NEW k \in IdemKey PROVE Holders(k) = {}
    BY DEF Exclusion!Init
  <2> QED
    BY DEF SharedInit, Init, W!Init, Holders, Holding, Inside, W!Inside
<1>2. SharedInv /\ Alone /\ Alone' /\ [SharedNext]_shared => [A]_shared
  <2> SUFFICES ASSUME SharedInv, Alone, Alone', [SharedNext]_shared, NEW k \in IdemKey
               PROVE  [Exclusion(k)!Next]_(Holders(k))
    OBVIOUS
  <2>1. /\ \A x, y \in Holders(k) : x = y
        /\ Holders(k) # {} => Locked(k)
        /\ \A x, y \in Holders(k)' : x = y
    BY DEF Alone
  <2>2. Holders(k)' \subseteq Request \cup Worker /\ Holders(k) \subseteq Request \cup Worker
    BY DEF Holders, Holding
  <2>3. CASE Holders(k) = {} /\ Holders(k)' # {}
    <3>1. PICK x : x \in Holders(k)'
      BY <2>3
    <3>2. Holders(k)' = {x} /\ x \in Request \cup Worker
      BY <2>1, <2>2, <3>1
    <3> QED
      BY <2>3, <3>2 DEF Exclusion!Next, Exclusion!Enter
  <2>4. CASE Holders(k) # {}
    <3>1. PICK x : x \in Holders(k)
      BY <2>4
    <3>2. Holders(k) = {x} /\ x \in Request \cup Worker
      BY <2>1, <2>2, <3>1
    <3>3. Holders(k)' \subseteq {x}
      BY <2>1, <2>4, <3>2, NoneJoins
    <3>4. CASE Holders(k)' = {}
      <4>1. Holders(k)' = Holders(k) \ {x} /\ x \in Holders(k)
        BY <3>2, <3>4
      <4> QED
        BY <3>2, <4>1 DEF Exclusion!Next, Exclusion!Leave
    <3> QED
      BY <3>2, <3>3, <3>4
  <2> QED
    BY <2>3, <2>4
<1> QED
  BY <1>1, <1>2, OneHolder, SharedInvariant, PTL DEF SharedSpec, KeyIsMutex

\* Clients that submit under the key of a scheduled task never open the
\* window of a run whose result is stored: no process enters a body for the
\* key again until the window is over.
THEOREM ClientsKeepWindow ==
  ASSUME PlainKeys, Timely PROVE SharedSpec => WindowSurvivesClients
<1> DEFINE A == \A w \in Worker :
                  place[w] # "body" /\ place'[w] = "body" /\ fate[W!WorkKey(w)] = "saved"
                    => since[W!WorkKey(w)] = Window
<1>1. SharedInv /\ [SharedNext]_shared => [A]_(W!vars)
  <2> SUFFICES ASSUME SharedInv, [SharedNext]_shared, NEW w \in Worker,
                      place[w] # "body", place'[w] = "body", fate[W!WorkKey(w)] = "saved"
               PROVE  since[W!WorkKey(w)] = Window
    OBVIOUS
  <2>0. place \in [Worker -> W!PC] /\ RedisType /\ WorkType
    BY DEF SharedInv, TypeInv, TypeOK, WorkInv, WorkType, Places
  <2>1. place' # place
    OBVIOUS
  <2>2. WorkStep
    BY <2>1
    DEF SharedNext, SubmitStep, SharedTick, W!Tick, shared, working
  <2>3. ASSUME NEW v \in Worker, W!Wrapper(v)
        PROVE  W!Lock(w)
    BY <2>0, <2>3
    DEF W!Wrapper, W!Lock, W!LockFails, W!Duplicate, W!GetCached, W!GetCachedFails,
        W!RunBody, W!BodyRaises, W!Save, W!SaveFails, W!Unlock, W!UnlockFails,
        W!Goto, W!Return, W!Report, W!Raise
  <2>4. ASSUME NEW v \in Worker,
               W!Celery(v) \/ W!Kill(v) \/ W!Disconnect(v)
                 \/ (\E m \in W!Message : W!Deliver(v, m))
        PROVE  FALSE
    BY <2>0, <2>4
    DEF W!Celery, W!Retry, W!Fail, W!Report, W!ReadOutcome, W!StoreOutcome, W!Reported,
        W!Ack, W!TimeLimit, W!Stop, W!Kill, W!Disconnect, W!Deliver, W!Goto, W!Free
  <2>5. W!Lock(w)
    BY <2>2, <2>3, <2>4 DEF WorkStep
  <2>6. place[w] = "lock" /\ ~W!Locked(W!WorkKey(w))
    BY <2>5 DEF W!Lock
  <2>7. W!WorkKey(w) = At(w) /\ ~Locked(At(w))
    BY <2>6, SameService
  <2>8. At(w) \in IdemKey
    <3>1. place[w] # "idle"
      BY <2>6
    <3> QED
      BY <2>0, <3>1, Named
  <2>9. \A t \in Task : ~Has(At(w), t)
    BY <2>0, <2>7, <2>8, NameExists, SharedAssumption
  <2>10. ~(since[At(w)] < Window)
    BY <2>7, <2>8, <2>9 DEF SharedInv, WorkInv, SavedKeepsName
  <2>11. since[At(w)] \in 0..Window
    BY <2>0, <2>8 DEF WorkType
  <2> QED
    BY <2>7, <2>10, <2>11, SharedAssumption
<1> QED
  BY <1>1, SharedInvariant, PTL DEF SharedSpec, WindowSurvivesClients, W!NoRerunWithinWindow
=============================================================================
