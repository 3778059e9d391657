-------------------------- MODULE TaskSubmit_proofs --------------------------
(***************************************************************************)
(* TaskSubmit's invariants, for every set of requests, keys and ttls.      *)
(***************************************************************************)
EXTENDS TaskSubmit, Idempotency_proofs

\* Typing, with what Submit fixes: a request under way has a ttl of its own,
\* and only one that carries a key goes through the idempotency service.
TypeInv ==
    /\ TypeOK
    /\ \A r \in Request :
         /\ pc[r] # "idle" => ttl[r] \in TtlChoice
         /\ pc[r] \in {"get_result", "acquire", "set_result"} => Keyed(r)

\* A request that may call the service does so with a key and a ttl that the
\* lemmas about the service accept.
LEMMA CallParams ==
  ASSUME TypeInv, NEW r \in Request, pc[r] # "idle", Keyed(r)
  PROVE  /\ key[r] \in IdemKey
         /\ ttl[r] \in Nat \ {0}
         /\ r \in Owner
BY SubmitAssumption DEF TypeInv, TypeOK, Keyed

\* The initial state is well typed.
LEMMA InitType == Init => TypeInv
<1> SUFFICES ASSUME Init PROVE TypeInv
  OBVIOUS
<1>1. RedisType
  BY EmptyType DEF Init, RedisType
<1>2. TypeOK
  BY <1>1 DEF Init, TypeOK, PC, Reply
<1> QED
  BY <1>2 DEF Init, TypeInv

\* No step leaves the types.
LEMMA NextType == TypeInv /\ [Next]_vars => TypeInv'
<1> SUFFICES ASSUME TypeInv, [Next]_vars PROVE TypeInv'
  OBVIOUS
<1> USE DEF Params, Effects, Silent, Goto, Respond, Unhandled, FailsAs
<1>1. ASSUME NEW r \in Request, NEW k \in IdemKey \cup {NoKey},
             NEW t \in TtlChoice, Submit(r, k, t)
      PROVE  TypeInv'
  <2>1. RedisType'
    BY <1>1 DEF Submit, TypeInv, TypeOK, RedisType
  <2>2. Accepted(k) \in SUBSET Request
    BY DEF Accepted
  <2>3. TypeOK'
    BY <1>1, <2>1, <2>2 DEF Submit, TypeInv, TypeOK, PC, Inside
  <2> QED
    BY <1>1, <2>3, SubmitAssumption DEF Submit, TypeInv, TypeOK, Keyed
<1>2. ASSUME NEW r \in Request, GetResult(r) \/ GetResultFails(r) \/ Crash(r)
      PROVE  TypeInv'
  <2>1. RedisType'
    BY <1>2 DEF GetResult, GetResultFails, Crash, TypeInv, TypeOK, RedisType
  <2>2. TypeOK'
    BY <1>2, <2>1 DEF GetResult, GetResultFails, Crash, TypeInv, TypeOK, PC, Reply
  <2> QED
    BY <1>2, <2>2 DEF GetResult, GetResultFails, Crash, TypeInv, TypeOK, Keyed
<1>3. ASSUME NEW r \in Request, Acquire(r) \/ AcquireFails(r)
      PROVE  TypeInv'
  <2>1. pc[r] = "acquire" /\ Keyed(r)
    BY <1>3 DEF Acquire, AcquireFails, TypeInv
  <2>2. RedisType'
    <3>1. CASE acquire(key[r], r, ttl[r])
      BY <3>1, <2>1, CallParams, AcquireEffect DEF TypeInv, TypeOK
    <3>2. CASE UNCHANGED redis
      BY <3>2 DEF TypeInv, TypeOK, RedisType
    <3> QED
      BY <1>3, <3>1, <3>2 DEF Acquire, AcquireFails
  <2>3. TypeOK'
    BY <1>3, <2>2 DEF Acquire, AcquireFails, TypeInv, TypeOK, PC, Inside, Reply
  <2> QED
    BY <1>3, <2>3 DEF Acquire, AcquireFails, TypeInv, TypeOK, Keyed
<1>4. ASSUME NEW r \in Request,
             Send(r) \/ SendFails(r) \/ Commit(r) \/ CommitFails(r)
      PROVE  TypeInv'
  <2>1. RedisType'
    BY <1>4 DEF Send, SendFails, Commit, CommitFails, Record, TypeInv, TypeOK, RedisType
  <2>2. TypeOK'
    BY <1>4, <2>1
    DEF Send, SendFails, Commit, CommitFails, Record, TypeInv, TypeOK, PC, Inside, Reply
  <2> QED
    BY <1>4, <2>2 DEF Send, SendFails, Commit, CommitFails, Record, TypeInv, TypeOK, Keyed
<1>5. ASSUME NEW r \in Request, StoreResult(r) \/ StoreResultFails(r)
      PROVE  TypeInv'
  <2>1. pc[r] = "set_result" /\ Keyed(r)
    BY <1>5 DEF StoreResult, StoreResultFails, TypeInv
  <2>2. RedisType'
    <3>1. CASE set_result(key[r], r, ttl[r])
      BY <3>1, <2>1, CallParams, SetResultEffect DEF TypeInv, TypeOK
    <3>2. CASE UNCHANGED redis
      BY <3>2 DEF TypeInv, TypeOK, RedisType
    <3> QED
      BY <1>5, <3>1, <3>2 DEF StoreResult, StoreResultFails
  <2>3. TypeOK'
    BY <1>5, <2>2
    DEF StoreResult, StoreResultFails, TypeInv, TypeOK, PC, Inside, Reply
  <2> QED
    BY <1>5, <2>3 DEF StoreResult, StoreResultFails, TypeInv, TypeOK, Keyed
<1>6. ASSUME NEW r \in Request, HandleFailure(r) \/ HandleFailureFails(r)
      PROVE  TypeInv'
  <2>1. pc[r] = "release"
    BY <1>6 DEF HandleFailure, HandleFailureFails
  <2>2. RedisType'
    <3>1. CASE Keyed(r) /\ release(key[r])
      BY <3>1, <2>1, CallParams, ReleaseEffect DEF TypeInv, TypeOK
    <3>2. CASE UNCHANGED redis
      BY <3>2 DEF TypeInv, TypeOK, RedisType
    <3> QED
      BY <1>6, <3>1, <3>2 DEF HandleFailure, HandleFailureFails
  <2>3. TypeOK'
    BY <1>6, <2>2
    DEF HandleFailure, HandleFailureFails, TypeInv, TypeOK, PC, Inside, Reply
  <2> QED
    BY <1>6, <2>3 DEF HandleFailure, HandleFailureFails, TypeInv, TypeOK, Keyed
<1>7. ASSUME Tick PROVE TypeInv'
  <2>1. RedisType'
    BY <1>7, TickEffect DEF Tick, TypeInv, TypeOK
  <2> QED
    BY <1>7, <2>1 DEF Tick, TypeInv, TypeOK, Keyed
<1>8. ASSUME UNCHANGED vars PROVE TypeInv'
  BY <1>8 DEF vars, TypeInv, TypeOK, RedisType, Keyed
<1> QED
  BY <1>1, <1>2, <1>3, <1>4, <1>5, <1>6, <1>7, <1>8 DEF Next, Work

\* Every reachable state is well typed: no sequence of calls and failures
\* takes a request, the store or an answer outside its domain.
THEOREM TypeInvariant == Spec => []TypeInv
<1> QED
  BY InitType, NextType, PTL DEF Spec

\* The same for the type invariant that the runs check.
THEOREM TypeCorrect == Spec => []TypeOK
<1>1. TypeInv => TypeOK
  BY DEF TypeInv
<1> QED
  BY <1>1, TypeInvariant, PTL

-----------------------------------------------------------------------------
(***************************************************************************)
(* Mutual exclusion of the requests on one key.  A request inside holds    *)
(* its key's lock with its own value, so two of them cannot share a key.   *)
(* Nothing in the store says who holds a lock and everybody deletes it     *)
(* blindly: the invariant is inductive only because whoever deletes a lock *)
(* is inside, and hence, by the invariant, the holder.                     *)
(***************************************************************************)

\* No request outruns its lock, and a call that fails did nothing.
Timely == Faults \cap {"late", "lost_reply"} = {}

HolderHasLock ==
    \A r \in Request : pc[r] \in Inside /\ Keyed(r) /\ PlainLock(key[r]) =>
                        /\ Locked(key[r])
                        /\ Get(redis, LockKey(key[r])) = Processing(r)

\* One lock has one value, and that value one request.
LEMMA LockExcludes == HolderHasLock => AtMostOneProcessing
BY ValuesDiffer DEF HolderHasLock, AtMostOneProcessing, Keyed

\* The step of one request preserves HolderHasLock.
LEMMA WorkKeepsLocks ==
  ASSUME Timely, TypeInv, HolderHasLock,
         NEW r \in Request, Work(r) \/ Crash(r)
  PROVE  HolderHasLock'
<1> USE DEF Params, Effects, Silent, Goto, Respond, Unhandled, FailsAs
<1>1. SUFFICES ASSUME NEW s \in Request, (pc[s] \in Inside /\ Keyed(s))', PlainLock(key[s])
               PROVE  /\ Exists(redis', LockKey(key[s]))
                      /\ Get(redis', LockKey(key[s])) = Processing(s)
  <2>1. key' = key
    BY DEF Work, Crash, GetResult, GetResultFails, Acquire, AcquireFails, Send,
           SendFails, Commit, CommitFails, Record, StoreResult, StoreResultFails,
           HandleFailure, HandleFailureFails
  <2> QED
    BY <2>1 DEF HolderHasLock, Locked, PlainLock
<1>2. CASE GetResult(r) \/ GetResultFails(r) \/ Crash(r)
           \/ Send(r) \/ SendFails(r) \/ Commit(r) \/ CommitFails(r)
  <2>1. redis' = redis /\ key' = key
    BY <1>2 DEF GetResult, GetResultFails, Crash, Send, SendFails, Commit, CommitFails, Record
  <2>2. pc[s] \in Inside /\ Keyed(s)
    BY <1>1, <1>2 DEF GetResult, GetResultFails, Crash, Send, SendFails, Commit,
       CommitFails, Record, Inside, Keyed, TypeInv, TypeOK
  <2> QED
    BY <1>1, <2>1, <2>2 DEF HolderHasLock, Locked
<1>3. CASE Acquire(r)
  <2>1. pc[r] = "acquire" /\ Keyed(r) /\ acquire(key[r], r, ttl[r]) /\ key' = key
    BY <1>3 DEF Acquire, TypeInv
  <2>2. key[r] \in IdemKey /\ ttl[r] \in Nat \ {0} /\ r \in Owner
    BY <2>1, CallParams
  <2>3. CASE s = r
    BY <2>1, <2>2, <2>3, <1>1, <1>3, AcquireEffect
    DEF Acquire, Inside, TypeInv, TypeOK
  <2>4. CASE s # r
    <3>1. pc[s] \in Inside /\ Keyed(s)
      BY <1>1, <1>3, <2>4 DEF Acquire, Keyed, TypeInv, TypeOK
    <3>2. /\ Exists(redis, LockKey(key[s]))
          /\ Get(redis, LockKey(key[s])) = Processing(s)
      BY <1>1, <3>1 DEF HolderHasLock, Locked
    <3>3. LockKey(key[s]) \in RedisKey
      BY <3>1, KeysInStore DEF Keyed, TypeInv, TypeOK
    <3>4. CASE key[s] = key[r]
      BY <3>2, <3>4, <2>1, <2>2, AcquireEffect DEF Locked, TypeInv, TypeOK
    <3>5. CASE key[s] # key[r]
      <4>1. LockKey(key[s]) # LockKey(key[r])
        BY <3>5, LockKeyInjective
      <4> QED
        BY <3>2, <3>3, <4>1, <2>1, <2>2, AcquireEffect
        DEF Exists, Get, TypeInv, TypeOK
    <3> QED
      BY <3>4, <3>5
  <2> QED
    BY <2>3, <2>4
<1>4. CASE AcquireFails(r)
  <2>1. redis' = redis /\ key' = key /\ pc[s] \in Inside /\ Keyed(s)
    BY <1>1, <1>4 DEF AcquireFails, Timely, Inside, Keyed, TypeInv, TypeOK
  <2> QED
    BY <1>1, <2>1 DEF HolderHasLock, Locked
<1>5. CASE StoreResult(r)
  <2>1. pc[r] = "set_result" /\ Keyed(r) /\ set_result(key[r], r, ttl[r])
        /\ key' = key
    BY <1>5 DEF StoreResult, TypeInv
  <2>2. key[r] \in IdemKey /\ ttl[r] \in Nat \ {0} /\ r \in Owner
    BY <2>1, CallParams
  <2>3. pc[s] \in Inside /\ Keyed(s) /\ s # r
    BY <1>1, <1>5 DEF StoreResult, Inside, Keyed, TypeInv, TypeOK
  <2>4. /\ Exists(redis, LockKey(key[s]))
        /\ Get(redis, LockKey(key[s])) = Processing(s)
    BY <1>1, <2>3 DEF HolderHasLock, Locked
  <2>5. key[s] # key[r]
    BY <1>1, <2>1, <2>3, LockExcludes DEF AtMostOneProcessing, Inside
  <2>6. key[s] \in IdemKey
    BY <2>3 DEF Keyed, TypeInv, TypeOK
  <2>7. LockKey(key[s]) # LockKey(key[r]) /\ LockKey(key[s]) # ResultKey(key[r])
    BY <1>1, <2>2, <2>5, <2>6, LockKeyInjective DEF PlainLock
  <2> QED
    BY <2>1, <2>2, <2>4, <2>6, <2>7, KeysInStore, SetResultEffect
    DEF Exists, Get, TypeInv, TypeOK
<1>6. CASE StoreResultFails(r)
  <2>1. redis' = redis /\ key' = key /\ pc[s] \in Inside /\ Keyed(s)
    BY <1>1, <1>6 DEF StoreResultFails, Timely, Inside, Keyed, TypeInv, TypeOK
  <2> QED
    BY <1>1, <2>1 DEF HolderHasLock, Locked
<1>7. CASE HandleFailure(r)
  <2>1. pc[r] = "release" /\ key' = key
    BY <1>7 DEF HandleFailure
  <2>2. pc[s] \in Inside /\ Keyed(s) /\ s # r
    BY <1>1, <1>7 DEF HandleFailure, Inside, Keyed, TypeInv, TypeOK
  <2>3. /\ Exists(redis, LockKey(key[s]))
        /\ Get(redis, LockKey(key[s])) = Processing(s)
    BY <1>1, <2>2 DEF HolderHasLock, Locked
  <2>4. CASE ~Keyed(r)
    BY <1>7, <2>1, <2>3, <2>4 DEF HandleFailure
  <2>5. CASE Keyed(r)
    <3>1. release(key[r])
      BY <1>7, <2>5 DEF HandleFailure
    <3>2. key[s] # key[r]
      BY <1>1, <2>1, <2>2, LockExcludes DEF AtMostOneProcessing, Inside
    <3>3. key[s] \in IdemKey /\ key[r] \in IdemKey
      BY <2>2, <2>5 DEF Keyed, TypeInv, TypeOK
    <3>4. LockKey(key[s]) # LockKey(key[r])
      BY <3>2, LockKeyInjective
    <3> QED
      BY <2>1, <2>3, <3>1, <3>3, <3>4, KeysInStore, ReleaseEffect
      DEF Exists, Get, TypeInv, TypeOK
  <2> QED
    BY <2>4, <2>5
<1>8. CASE HandleFailureFails(r)
  <2>1. redis' = redis /\ key' = key /\ pc[s] \in Inside /\ Keyed(s)
    BY <1>1, <1>8 DEF HandleFailureFails, Timely, Inside, Keyed, TypeInv, TypeOK
  <2> QED
    BY <1>1, <2>1 DEF HolderHasLock, Locked
<1> QED
  BY <1>2, <1>3, <1>4, <1>5, <1>6, <1>7, <1>8 DEF Work

\* A new request is outside, and the others keep their keys.
LEMMA SubmitKeepsLocks ==
  ASSUME TypeInv, HolderHasLock, NEW r \in Request,
         NEW k \in IdemKey \cup {NoKey}, NEW t \in TtlChoice, Submit(r, k, t)
  PROVE  HolderHasLock'
<1>1. SUFFICES ASSUME NEW s \in Request, (pc[s] \in Inside /\ Keyed(s))',
                      PlainLock(key'[s])
               PROVE  /\ Locked(key[s])'
                      /\ Get(redis', LockKey(key'[s])) = Processing(s)
  BY DEF HolderHasLock
<1>2. CASE s = r
  BY <1>1, <1>2 DEF Submit, Goto, Inside, Keyed, TypeInv, TypeOK
<1>3. CASE s # r
  BY <1>1, <1>3
  DEF Submit, Goto, Effects, Keyed, TypeInv, TypeOK, HolderHasLock, Locked, PlainLock
<1> QED
  BY <1>2, <1>3

\* Time spares the locks of the requests inside.
LEMMA TickKeepsLocks ==
  ASSUME Timely, TypeInv, HolderHasLock, Tick
  PROVE  HolderHasLock'
<1>1. SUFFICES ASSUME NEW s \in Request, pc[s] \in Inside, Keyed(s),
                      PlainLock(key[s])
               PROVE  /\ Exists(redis', LockKey(key[s]))
                      /\ Get(redis', LockKey(key[s])) = Processing(s)
  BY DEF Tick, Keyed, HolderHasLock, Locked, PlainLock
<1>2. LockKey(key[s]) \notin Expiring(redis)
  BY <1>1 DEF Tick, Timely, HasOwnLock, HolderHasLock
<1>3. LockKey(key[s]) \in RedisKey
  BY <1>1, KeysInStore DEF Keyed, TypeInv, TypeOK
<1> QED
  BY <1>1, <1>2, <1>3, TickEffect DEF Tick, HolderHasLock, Locked, TypeInv, TypeOK

\* HolderHasLock is inductive.
LEMMA LocksInvariant ==
  ASSUME Timely
  PROVE  Spec => [](TypeInv /\ HolderHasLock)
<1>1. Init => TypeInv /\ HolderHasLock
  BY InitType DEF Init, HolderHasLock, Inside
<1>2. TypeInv /\ HolderHasLock /\ [Next]_vars => (TypeInv /\ HolderHasLock)'
  <2> SUFFICES ASSUME TypeInv, HolderHasLock, [Next]_vars
               PROVE  (TypeInv /\ HolderHasLock)'
    OBVIOUS
  <2>1. CASE UNCHANGED vars
    BY <2>1, NextType DEF vars, HolderHasLock, Locked, Keyed, PlainLock
  <2>2. CASE Next
    BY <2>2, NextType, WorkKeepsLocks, SubmitKeepsLocks, TickKeepsLocks DEF Next
  <2> QED
    BY <2>1, <2>2
<1> QED
  BY <1>1, <1>2, PTL DEF Spec

\* At any moment at most one request is submitting a task for a given key
\* whose lock is nobody's result, provided requests are quicker than their
\* ttl and failing calls do nothing.
THEOREM MutualExclusion ==
  ASSUME Timely
  PROVE  Spec => []AtMostOneProcessing
<1>1. TypeInv /\ HolderHasLock => AtMostOneProcessing
  BY LockExcludes
<1> QED
  BY <1>1, LocksInvariant, PTL

-----------------------------------------------------------------------------
(***************************************************************************)
(* What the answers say, whatever fails and however late.                  *)
(***************************************************************************)

\* The stored result of a key, and a duplicate's answer, name a task on the
\* key that was sent and recorded: so does everybody about to store one.
AnswersInv ==
    /\ AnswersNameRealTasks
    /\ \A r \in Request :
         /\ pc[r] = "idle" => r \notin sent /\ reply[r] # "duplicate"
         /\ pc[r] = "commit" => r \in sent
         /\ pc[r] = "set_result" => r \in sent \cap rows
         /\ reply[r] = "duplicate" => pc[r] = "done"

\* The store's part of AnswersInv, for a step that leaves keys alone and
\* only adds tasks and rows: it is enough that the step adds no result, or
\* only a true one.
LEMMA ResultsStayTrue ==
  ASSUME AnswersInv, key' = key, sent \subseteq sent', rows \subseteq rows',
         \A k \in IdemKey, s \in Request :
           Get(redis', ResultKey(k)) = ResultOf(s) =>
             \/ Get(redis, ResultKey(k)) = ResultOf(s)
             \/ s \in sent' \cap rows' /\ key[s] = k
  PROVE  \A k \in IdemKey, s \in Request :
           get_result(k)' = ResultOf(s) => s \in (sent \cap rows)' /\ key'[s] = k
BY DEF AnswersInv, AnswersNameRealTasks, get_result

\* Every step keeps the answers true.
LEMMA NextAnswers == TypeInv /\ AnswersInv /\ [Next]_vars => AnswersInv'
<1> SUFFICES ASSUME TypeInv, AnswersInv, [Next]_vars PROVE AnswersInv'
  OBVIOUS
<1> USE DEF Params, Effects, Silent, Goto, Respond, Unhandled, FailsAs
<1>1. ASSUME NEW r \in Request, NEW k \in IdemKey \cup {NoKey},
             NEW t \in TtlChoice, Submit(r, k, t)
      PROVE  AnswersInv'
  <2>1. /\ pc[r] = "idle" /\ r \notin sent /\ reply[r] # "duplicate"
        /\ UNCHANGED <<redis, sent, rows, reply, answer>>
        /\ \A s \in Request : s # r => key'[s] = key[s] /\ pc'[s] = pc[s]
        /\ pc'[r] \in {"send", "get_result"}
    BY <1>1 DEF Submit, AnswersInv, TypeInv, TypeOK
  <2>2. sent \subseteq Request
    BY DEF TypeInv, TypeOK
  <2>3. \A s \in sent : key'[s] = key[s]
    BY <2>1, <2>2
  <2>4. AnswersNameRealTasks'
    <3>1. \A l \in IdemKey, s \in Request :
            get_result(l)' = ResultOf(s) => s \in (sent \cap rows)' /\ key'[s] = l
      BY <2>1, <2>3 DEF AnswersInv, AnswersNameRealTasks, get_result
    <3>2. \A s \in Request : reply'[s] = "duplicate" =>
            answer'[s] \in (sent \cap rows)' /\ key'[answer'[s]] = key'[s]
      BY <2>1, <2>3 DEF AnswersInv, AnswersNameRealTasks
    <3> QED
      BY <3>1, <3>2 DEF AnswersNameRealTasks
  <2> QED
    BY <2>1, <2>4 DEF AnswersInv
<1>2. ASSUME NEW r \in Request, GetResult(r) PROVE AnswersInv'
  <2>1. /\ pc[r] = "get_result" /\ key[r] \in IdemKey
        /\ UNCHANGED <<redis, sent, rows, key>>
    BY <1>2 DEF GetResult, TypeInv, TypeOK, Keyed
  <2>2. \/ pc'[r] = "acquire" /\ reply' = reply /\ answer' = answer
        \/ /\ pc'[r] = "done" /\ reply'[r] = "unhandled"
           /\ \A s \in Request : s # r => answer'[s] = answer[s]
        \/ /\ pc'[r] = "done" /\ reply'[r] = "duplicate"
           /\ answer'[r] \in Request
           /\ get_result(key[r]) = ResultOf(answer'[r])
           /\ \A s \in Request : s # r => answer'[s] = answer[s]
    BY <1>2 DEF GetResult, TypeInv, TypeOK
  <2>3. \A s \in Request : s # r => reply'[s] = reply[s] /\ pc'[s] = pc[s]
    BY <1>2 DEF GetResult, TypeInv, TypeOK
  <2>4. AnswersNameRealTasks'
    <3>1. \A k \in IdemKey, s \in Request :
            get_result(k)' = ResultOf(s) => s \in (sent \cap rows)' /\ key'[s] = k
      BY <2>1 DEF AnswersInv, AnswersNameRealTasks, get_result
    <3>2. \A s \in Request : s # r /\ reply'[s] = "duplicate" =>
            answer'[s] \in (sent \cap rows)' /\ key'[answer'[s]] = key'[s]
      BY <2>1, <2>2, <2>3 DEF AnswersInv, AnswersNameRealTasks
    <3>3. reply'[r] = "duplicate" =>
            answer'[r] \in (sent \cap rows)' /\ key'[answer'[r]] = key'[r]
      <4>1. reply[r] # "duplicate"
        BY <2>1 DEF AnswersInv
      <4> QED
        BY <4>1, <2>1, <2>2 DEF AnswersInv, AnswersNameRealTasks
    <3> QED
      BY <3>1, <3>2, <3>3 DEF AnswersNameRealTasks
  <2> QED
    BY <2>1, <2>2, <2>3, <2>4 DEF AnswersInv
<1>3. ASSUME NEW r \in Request, GetResultFails(r) \/ Crash(r) PROVE AnswersInv'
  <2>1. UNCHANGED <<redis, sent, rows, key>> /\ pc[r] \notin {"idle", "done"}
    BY <1>3 DEF GetResultFails, Crash
  <2>2. /\ pc'[r] \in {"done", "crashed"} /\ reply'[r] # "duplicate"
        /\ \A s \in Request : s # r => /\ reply'[s] = reply[s] /\ pc'[s] = pc[s]
                                       /\ answer'[s] = answer[s]
    BY <1>3, <2>1 DEF GetResultFails, Crash, TypeInv, TypeOK, AnswersInv
  <2>3. AnswersNameRealTasks'
    BY <2>1, <2>2 DEF AnswersInv, AnswersNameRealTasks, get_result
  <2> QED
    BY <2>1, <2>2, <2>3 DEF AnswersInv
<1>4. ASSUME NEW r \in Request, Acquire(r) \/ AcquireFails(r) PROVE AnswersInv'
  <2>1. pc[r] = "acquire" /\ Keyed(r) /\ UNCHANGED <<sent, rows, key>>
    BY <1>4 DEF Acquire, AcquireFails, TypeInv
  <2>2. key[r] \in IdemKey /\ ttl[r] \in Nat \ {0} /\ r \in Owner
    BY <2>1, CallParams
  <2>3. \A k \in IdemKey, s \in Request :
          Get(redis', ResultKey(k)) = ResultOf(s) =>
            Get(redis, ResultKey(k)) = ResultOf(s)
    <3>1. CASE UNCHANGED redis
      BY <3>1
    <3>2. CASE acquire(key[r], r, ttl[r])
      BY <3>2, <2>2, AcquireEffect, KeysInStore, ValuesDiffer
      DEF Get, TypeInv, TypeOK
    <3> QED
      BY <1>4, <3>1, <3>2 DEF Acquire, AcquireFails
  <2>4. /\ pc'[r] \in {"done", "send"} /\ reply'[r] # "duplicate"
        /\ \A s \in Request : s # r => /\ reply'[s] = reply[s] /\ pc'[s] = pc[s]
                                       /\ answer'[s] = answer[s]
    BY <1>4, <2>1 DEF Acquire, AcquireFails, TypeInv, TypeOK, AnswersInv
  <2>5. AnswersNameRealTasks'
    BY <2>1, <2>3, <2>4, ResultsStayTrue DEF AnswersInv, AnswersNameRealTasks
  <2> QED
    BY <2>1, <2>4, <2>5 DEF AnswersInv
<1>5. ASSUME NEW r \in Request,
             Send(r) \/ SendFails(r) \/ Commit(r) \/ CommitFails(r)
      PROVE  AnswersInv'
  <2>1. /\ UNCHANGED <<redis, key>> /\ pc[r] \in {"send", "commit"}
        /\ sent \subseteq sent' /\ rows \subseteq rows'
        /\ \A s \in Request : s # r => (s \in sent' => s \in sent)
    BY <1>5 DEF Send, SendFails, Commit, CommitFails, Record
  <2>2. /\ pc'[r] = "commit" => r \in sent'
        /\ pc'[r] = "set_result" => r \in sent' \cap rows'
        /\ pc'[r] \in {"commit", "set_result", "release", "done"}
        /\ reply'[r] # "duplicate"
        /\ \A s \in Request : s # r => /\ reply'[s] = reply[s] /\ pc'[s] = pc[s]
                                       /\ answer'[s] = answer[s]
    BY <1>5, <2>1
    DEF Send, SendFails, Commit, CommitFails, Record, TypeInv, TypeOK, AnswersInv
  <2>3. AnswersNameRealTasks'
    BY <2>1, <2>2, ResultsStayTrue DEF AnswersInv, AnswersNameRealTasks
  <2> QED
    BY <2>1, <2>2, <2>3 DEF AnswersInv
<1>6. ASSUME NEW r \in Request, StoreResult(r) \/ StoreResultFails(r)
      PROVE  AnswersInv'
  <2>1. /\ pc[r] = "set_result" /\ Keyed(r) /\ UNCHANGED <<sent, rows, key>>
        /\ r \in sent \cap rows
    BY <1>6 DEF StoreResult, StoreResultFails, TypeInv, AnswersInv
  <2>2. key[r] \in IdemKey /\ ttl[r] \in Nat \ {0} /\ r \in Owner
    BY <2>1, CallParams
  <2>3. \A k \in IdemKey, s \in Request :
          Get(redis', ResultKey(k)) = ResultOf(s) =>
             \/ Get(redis, ResultKey(k)) = ResultOf(s)
             \/ s \in sent' \cap rows' /\ key[s] = k
    <3>1. CASE UNCHANGED redis
      BY <3>1
    <3>2. CASE set_result(key[r], r, ttl[r])
      <4> TAKE k \in IdemKey, s \in Request
      <4>1. CASE ResultKey(k) = LockKey(key[r])
        BY <4>1, <3>2, <2>2, SetResultEffect, ValuesDiffer, SubmitAssumption
        DEF Get, Absent, TypeInv, TypeOK
      <4>2. CASE ResultKey(k) # LockKey(key[r]) /\ k = key[r]
        <5>1. Get(redis', ResultKey(k)) = ResultOf(r)
          BY <4>2, <3>2, <2>2, SetResultEffect DEF TypeInv, TypeOK
        <5> QED
          BY <5>1, <4>2, <2>1, ValuesDiffer
      <4>3. CASE ResultKey(k) # LockKey(key[r]) /\ k # key[r]
        BY <4>3, <3>2, <2>2, SetResultEffect, KeysInStore
        DEF Get, ResultKey, TypeInv, TypeOK
      <4> QED
        BY <4>1, <4>2, <4>3
    <3> QED
      BY <1>6, <3>1, <3>2 DEF StoreResult, StoreResultFails
  <2>4. /\ pc'[r] \in {"done", "release"} /\ reply'[r] # "duplicate"
        /\ \A s \in Request : s # r => /\ reply'[s] = reply[s] /\ pc'[s] = pc[s]
                                       /\ answer'[s] = answer[s]
    BY <1>6, <2>1 DEF StoreResult, StoreResultFails, TypeInv, TypeOK, AnswersInv
  <2>5. AnswersNameRealTasks'
    BY <2>1, <2>3, <2>4, ResultsStayTrue DEF AnswersInv, AnswersNameRealTasks
  <2> QED
    BY <2>1, <2>4, <2>5 DEF AnswersInv
<1>7. ASSUME NEW r \in Request, HandleFailure(r) \/ HandleFailureFails(r)
      PROVE  AnswersInv'
  <2>1. pc[r] = "release" /\ UNCHANGED <<sent, rows, key>>
    BY <1>7 DEF HandleFailure, HandleFailureFails
  <2>2. \A k \in IdemKey, s \in Request :
          Get(redis', ResultKey(k)) = ResultOf(s) =>
            Get(redis, ResultKey(k)) = ResultOf(s)
    <3>1. CASE UNCHANGED redis
      BY <3>1
    <3>2. CASE Keyed(r) /\ release(key[r])
      <4>1. key[r] \in IdemKey
        BY <3>2 DEF Keyed, TypeInv, TypeOK
      <4> QED
        BY <3>2, <4>1, ReleaseEffect, KeysInStore, ValuesDiffer, SubmitAssumption
        DEF Get, Absent, TypeInv, TypeOK
    <3> QED
      BY <1>7, <3>1, <3>2 DEF HandleFailure, HandleFailureFails
  <2>3. /\ pc'[r] = "done" /\ reply'[r] # "duplicate"
        /\ \A s \in Request : s # r => /\ reply'[s] = reply[s] /\ pc'[s] = pc[s]
                                       /\ answer'[s] = answer[s]
    BY <1>7 DEF HandleFailure, HandleFailureFails, TypeInv, TypeOK
  <2>4. AnswersNameRealTasks'
    BY <2>1, <2>2, <2>3, ResultsStayTrue DEF AnswersInv, AnswersNameRealTasks
  <2> QED
    BY <2>1, <2>3, <2>4 DEF AnswersInv
<1>8. ASSUME Tick PROVE AnswersInv'
  <2>1. \A k \in IdemKey, s \in Request :
          Get(redis', ResultKey(k)) = ResultOf(s) =>
            Get(redis, ResultKey(k)) = ResultOf(s)
    BY <1>8, TickEffect, KeysInStore, ValuesDiffer, SubmitAssumption
    DEF Tick, Get, Absent, TypeInv, TypeOK
  <2>2. AnswersNameRealTasks'
    BY <1>8, <2>1, ResultsStayTrue DEF Tick, AnswersInv, AnswersNameRealTasks
  <2> QED
    BY <1>8, <2>2 DEF Tick, AnswersInv
<1>9. ASSUME UNCHANGED vars PROVE AnswersInv'
  BY <1>9 DEF vars, AnswersInv, AnswersNameRealTasks, get_result
<1> QED
  BY <1>1, <1>2, <1>3, <1>4, <1>5, <1>6, <1>7, <1>8, <1>9 DEF Next, Work

\* A task id that a client is given, or that Redis keeps for the clients to
\* come, is always that of a task on the same key which was sent and whose
\* row is committed - under every failure, and however late.
THEOREM AnswersTrue == Spec => []AnswersNameRealTasks
<1>1. Init => AnswersInv
  BY EmptyType, ValuesDiffer, SubmitAssumption
  DEF Init, AnswersInv, AnswersNameRealTasks, get_result, Get, Empty, RedisKey,
      ResultKey, Absent
<1>2. AnswersInv => AnswersNameRealTasks
  BY DEF AnswersInv
<1> QED
  BY <1>1, <1>2, NextAnswers, TypeInvariant, PTL DEF Spec

-----------------------------------------------------------------------------
(***************************************************************************)
(* Duplicates that come after the original was accepted.                   *)
(***************************************************************************)

\* An accepted request's result stands until it expires, so a request that
\* came after it and found no result came after the expiry.
SettledInv ==
    /\ \A r \in Request :
         /\ reply[r] # "none" => pc[r] = "done"
         /\ pc[r] = "idle" => r \notin sent
         /\ reply[r] = "accepted" /\ Keyed(r) =>
              r \in forgotten \/ HasResult(key[r])
         /\ pc[r] \in Inside \cup {"acquire"} \/ r \in sent =>
              before[r] \subseteq forgotten
    /\ \A r \in Request : \A s \in before[r] :
         reply[s] = "accepted" /\ key[s] = key[r] /\ Keyed(r)

\* No step of a request takes a result away, and an acceptance leaves one.
LEMMA WorkKeepsResults ==
  ASSUME PlainKeys, TypeInv, NEW r \in Request, Work(r) \/ Crash(r)
  PROVE  /\ \A k \in IdemKey : Exists(redis, ResultKey(k)) =>
                                Exists(redis', ResultKey(k))
         /\ StoreResult(r) => Exists(redis', ResultKey(key[r]))
<1> USE DEF Params, Effects, Silent, FailsAs
<1>1. \A k, l \in IdemKey : LockKey(k) # ResultKey(l)
  BY DEF PlainKeys, PlainLock
<1>2. CASE Acquire(r) \/ AcquireFails(r)
  <2>1. pc[r] = "acquire" /\ Keyed(r)
    BY <1>2 DEF Acquire, AcquireFails, TypeInv
  <2>2. UNCHANGED redis \/ acquire(key[r], r, ttl[r])
    BY <1>2 DEF Acquire, AcquireFails
  <2>3. ~StoreResult(r)
    BY <2>1 DEF StoreResult
  <2> QED
    BY <1>1, <2>1, <2>2, <2>3, CallParams, KeysInStore, AcquireEffect
    DEF Exists, TypeInv, TypeOK
<1>3. CASE StoreResult(r) \/ StoreResultFails(r)
  <2>1. pc[r] = "set_result" /\ Keyed(r)
    BY <1>3 DEF StoreResult, StoreResultFails, TypeInv
  <2>2. key[r] \in IdemKey /\ ttl[r] \in Nat \ {0} /\ r \in Owner
    BY <2>1, CallParams
  <2>3. CASE set_result(key[r], r, ttl[r])
    <3>1. Exists(redis', ResultKey(key[r]))
      BY <1>1, <2>2, <2>3, SetResultEffect DEF TypeInv, TypeOK
    <3>2. ASSUME NEW k \in IdemKey, Exists(redis, ResultKey(k)), k # key[r]
          PROVE  Exists(redis', ResultKey(k))
      BY <1>1, <2>2, <2>3, <3>2, KeysInStore, SetResultEffect
      DEF Exists, ResultKey, TypeInv, TypeOK
    <3> QED
      BY <3>1, <3>2
  <2>4. CASE UNCHANGED redis /\ ~StoreResult(r)
    BY <2>4
  <2> QED
    BY <1>3, <2>3, <2>4 DEF StoreResult, StoreResultFails
<1>4. CASE HandleFailure(r) \/ HandleFailureFails(r)
  <2>1. pc[r] = "release"
    BY <1>4 DEF HandleFailure, HandleFailureFails
  <2>2. UNCHANGED redis \/ (Keyed(r) /\ release(key[r]))
    BY <1>4 DEF HandleFailure, HandleFailureFails
  <2>3. ~StoreResult(r)
    BY <2>1 DEF StoreResult
  <2> QED
    BY <1>1, <2>1, <2>2, <2>3, CallParams, KeysInStore, ReleaseEffect
    DEF Exists, TypeInv, TypeOK
<1>5. CASE GetResult(r) \/ GetResultFails(r) \/ Send(r) \/ SendFails(r)
           \/ Commit(r) \/ CommitFails(r) \/ Crash(r)
  <2>1. redis' = redis
    BY <1>5 DEF GetResult, GetResultFails, Send, SendFails, Commit, CommitFails, Record, Crash
  <2>2. StoreResult(r) => Exists(redis', ResultKey(key[r]))
    <3> SUFFICES ASSUME StoreResult(r) PROVE Exists(redis', ResultKey(key[r]))
      OBVIOUS
    <3>1. pc[r] = "set_result"
      BY DEF StoreResult
    <3>2. key[r] \in IdemKey /\ ttl[r] \in Nat \ {0} /\ r \in Owner
      BY <3>1, CallParams DEF TypeInv
    <3> QED
      BY <1>1, <3>2, SetResultEffect DEF StoreResult, TypeInv, TypeOK
  <2> QED
    BY <2>1, <2>2
<1> QED
  BY <1>2, <1>3, <1>4, <1>5 DEF Work

\* What a step of one request may change outside the store.
LEMMA WorkFrame ==
  ASSUME TypeInv, NEW r \in Request, Work(r) \/ Crash(r)
  PROVE  /\ UNCHANGED Params
         /\ pc[r] \notin {"idle", "done"}
         /\ \A s \in Request : s # r =>
              /\ pc'[s] = pc[s] /\ reply'[s] = reply[s]
              /\ s \in sent' => s \in sent
         /\ reply'[r] # reply[r] => pc'[r] = "done"
         /\ pc'[r] # "idle"
         /\ pc'[r] \in Inside \cup {"acquire"} \/ r \in sent' =>
              \/ pc[r] \in Inside \cup {"acquire"} \/ r \in sent
              \/ pc[r] = "get_result" /\ ~HasResult(key[r])
         /\ reply'[r] = "accepted" =>
              reply[r] = "accepted" \/ ~Keyed(r) \/ StoreResult(r)
<1> USE DEF Params, Effects, Silent, Goto, Respond, Unhandled, TypeInv, TypeOK, Inside
<1>1. CASE GetResult(r) \/ GetResultFails(r) \/ Crash(r)
  BY <1>1 DEF GetResult, GetResultFails, Crash
<1>2. CASE Acquire(r) \/ AcquireFails(r)
  BY <1>2 DEF Acquire, AcquireFails
<1>3. CASE Send(r) \/ SendFails(r)
  BY <1>3 DEF Send, SendFails, FailsAs
<1>4. CASE Commit(r) \/ CommitFails(r)
  BY <1>4 DEF Commit, CommitFails, Record
<1>5. CASE StoreResult(r)
  BY <1>5 DEF StoreResult
<1>6. CASE StoreResultFails(r)
  BY <1>6 DEF StoreResultFails
<1>7. CASE HandleFailure(r) \/ HandleFailureFails(r)
  BY <1>7 DEF HandleFailure, HandleFailureFails
<1> QED
  BY <1>1, <1>2, <1>3, <1>4, <1>5, <1>6, <1>7 DEF Work

\* SettledInv is inductive.
LEMMA NextSettled ==
  ASSUME PlainKeys
  PROVE  TypeInv /\ SettledInv /\ [Next]_vars => SettledInv'
<1> SUFFICES ASSUME TypeInv, SettledInv, [Next]_vars PROVE SettledInv'
  OBVIOUS
<1>1. ASSUME NEW r \in Request, NEW k \in IdemKey \cup {NoKey},
             NEW t \in TtlChoice, Submit(r, k, t)
      PROVE  SettledInv'
  <2>1. /\ pc[r] = "idle" /\ r \notin sent /\ reply[r] = "none"
        /\ UNCHANGED <<redis, sent, reply, forgotten>>
        /\ \A s \in Request : s # r => /\ key'[s] = key[s] /\ pc'[s] = pc[s]
                                       /\ before'[s] = before[s]
        /\ key'[r] = k
        /\ before'[r] = IF k = NoKey THEN {} ELSE Accepted(k)
        /\ pc'[r] = IF k = NoKey THEN "send" ELSE "get_result"
    BY <1>1 DEF Submit, Goto, Silent, Effects, SettledInv, TypeInv, TypeOK, Reply
  <2>2. \A s \in before'[r] : /\ s \in Request /\ s # r /\ k # NoKey
                               /\ reply[s] = "accepted" /\ key[s] = k
    BY <2>1 DEF Accepted
  <2>3. \A s \in Request : before[s] \subseteq Request
    BY DEF TypeInv, TypeOK
  <2>4. ASSUME NEW s \in Request, NEW u \in before'[s]
        PROVE  reply'[u] = "accepted" /\ key'[u] = key'[s] /\ Keyed(s)'
    <3>1. CASE s = r
      BY <3>1, <2>1, <2>2 DEF Keyed
    <3>2. CASE s # r
      <4>1. u \in before[s] /\ u \in Request
        BY <3>2, <2>1, <2>3, <2>4
      <4>2. reply[u] = "accepted" /\ key[u] = key[s] /\ Keyed(s)
        BY <4>1 DEF SettledInv
      <4> QED
        BY <4>1, <4>2, <3>2, <2>1 DEF Keyed
    <3> QED
      BY <3>1, <3>2
  <2>5. ASSUME NEW s \in Request
        PROVE  /\ reply'[s] # "none" => pc'[s] = "done"
               /\ pc'[s] = "idle" => s \notin sent'
               /\ reply'[s] = "accepted" /\ Keyed(s)' =>
                    s \in forgotten' \/ HasResult(key[s])'
               /\ pc'[s] \in Inside \cup {"acquire"} \/ s \in sent' =>
                    before'[s] \subseteq forgotten'
    <3>1. CASE s = r
      BY <3>1, <2>1, <2>2 DEF Inside
    <3>2. CASE s # r
      BY <3>2, <2>1 DEF SettledInv, Keyed, HasResult
    <3> QED
      BY <3>1, <3>2
  <2> QED
    BY <2>4, <2>5 DEF SettledInv
<1>2. ASSUME NEW r \in Request, Work(r) \/ Crash(r) PROVE SettledInv'
  <2>1. /\ key' = key /\ before' = before /\ forgotten' = forgotten
        /\ pc[r] \notin {"idle", "done"} /\ pc'[r] # "idle"
        /\ \A s \in Request : s # r => /\ pc'[s] = pc[s] /\ reply'[s] = reply[s]
                                       /\ s \in sent' => s \in sent
        /\ reply'[r] # reply[r] => pc'[r] = "done"
        /\ pc'[r] \in Inside \cup {"acquire"} \/ r \in sent' =>
              \/ pc[r] \in Inside \cup {"acquire"} \/ r \in sent
              \/ pc[r] = "get_result" /\ ~HasResult(key[r])
        /\ reply'[r] = "accepted" =>
              reply[r] = "accepted" \/ ~Keyed(r) \/ StoreResult(r)
    BY <1>2, WorkFrame DEF Params
  <2>2. reply[r] = "none"
    BY <2>1 DEF SettledInv
  <2>3. \A s \in Request : key[s] # NoKey => key[s] \in IdemKey
    BY DEF TypeInv, TypeOK
  <2>4. \A s \in Request : Keyed(s) /\ HasResult(key[s]) =>
          Exists(redis', ResultKey(key[s]))
    BY <1>2, <2>3, WorkKeepsResults DEF HasResult, Keyed
  <2>5. StoreResult(r) => Exists(redis', ResultKey(key[r]))
    BY <1>2, WorkKeepsResults
  <2>6. ASSUME pc[r] = "get_result", ~HasResult(key[r])
        PROVE  before[r] \subseteq forgotten
    <3>1. before[r] \subseteq Request
      BY DEF TypeInv, TypeOK
    <3>2. ASSUME NEW s \in before[r] PROVE s \in forgotten
      BY <2>6, <3>1, <3>2 DEF SettledInv, Keyed
    <3> QED
      BY <3>2
  <2>7. ASSUME NEW s \in Request
        PROVE  /\ reply'[s] # "none" => pc'[s] = "done"
               /\ pc'[s] = "idle" => s \notin sent'
               /\ reply'[s] = "accepted" /\ Keyed(s)' =>
                    s \in forgotten' \/ HasResult(key[s])'
               /\ pc'[s] \in Inside \cup {"acquire"} \/ s \in sent' =>
                    before'[s] \subseteq forgotten'
    <3>1. CASE s = r
      BY <3>1, <2>1, <2>2, <2>5, <2>6 DEF SettledInv, Keyed, HasResult
    <3>2. CASE s # r
      BY <3>2, <2>1, <2>4 DEF SettledInv, Keyed, HasResult
    <3> QED
      BY <3>1, <3>2
  <2>8. ASSUME NEW s \in Request, NEW u \in before'[s]
        PROVE  reply'[u] = "accepted" /\ key'[u] = key'[s] /\ Keyed(s)'
    <3>1. u \in before[s] /\ u \in Request
      BY <2>1, <2>8 DEF TypeInv, TypeOK
    <3>2. reply[u] = "accepted" /\ key[u] = key[s] /\ Keyed(s)
      BY <3>1 DEF SettledInv
    <3> QED
      BY <3>1, <3>2, <2>1, <2>2 DEF Keyed
  <2> QED
    BY <2>7, <2>8 DEF SettledInv
<1>3. ASSUME Tick PROVE SettledInv'
  <2>1. ASSUME NEW s \in Request, reply[s] = "accepted", Keyed(s)
        PROVE  s \in forgotten' \/ Exists(redis', ResultKey(key[s]))
    <3>1. key[s] \in IdemKey
      BY <2>1 DEF Keyed, TypeInv, TypeOK
    <3>2. s \in forgotten \/ Exists(redis, ResultKey(key[s]))
      BY <2>1 DEF SettledInv, HasResult
    <3> QED
      BY <1>3, <2>1, <3>1, <3>2, KeysInStore, TickEffect DEF Tick, TypeInv, TypeOK
  <2> QED
    BY <1>3, <2>1 DEF Tick, Silent, SettledInv, HasResult, Keyed
<1>4. ASSUME UNCHANGED vars PROVE SettledInv'
  BY <1>4 DEF vars, SettledInv, HasResult, Keyed
<1> QED
  BY <1>1, <1>2, <1>3, <1>4 DEF Next

\* Whatever fails, however late: a key that one request settled is not given
\* a second task by any later request before its result has expired.
THEOREM LaterDuplicatesAnswered ==
  ASSUME PlainKeys
  PROVE  Spec => []SettledKeyIsNotResent
<1>1. Init => SettledInv
  BY DEF Init, SettledInv, Inside
<1>2. TypeInv /\ SettledInv => SettledKeyIsNotResent
  BY DEF SettledInv, SettledKeyIsNotResent, TypeInv, TypeOK
<1> QED
  BY <1>1, <1>2, NextSettled, TypeInvariant, PTL DEF Spec

-----------------------------------------------------------------------------
(***************************************************************************)
(* Locks left behind.                                                      *)
(***************************************************************************)

\* A lock on file was taken by a request on that very key, which has not come
\* out through its handler or its answer.
OrphanInv ==
    /\ \A k \in IdemKey, r \in Request :
         Get(redis, LockKey(k)) = Processing(r) =>
           /\ key[r] = k /\ pc[r] # "idle"
           /\ pc[r] \in Inside \cup {"crashed"} \/ reply[r] = "unhandled"
    /\ \A r \in Request : pc[r] # "done" => reply[r] = "none"

\* A step of r writes no lock value but r's own, on r's key; and a step that
\* takes r from inside to an answer of the route removes the lock of its key.
LEMMA WorkLocks ==
  ASSUME TypeInv, NEW r \in Request, Work(r) \/ Crash(r),
         NEW k \in IdemKey, NEW s \in Request,
         Get(redis', LockKey(k)) = Processing(s)
  PROVE  \/ /\ Get(redis, LockKey(k)) = Processing(s)
            /\ s = r /\ k = key[r] /\ pc[r] \in Inside =>
                 pc'[r] \in Inside \cup {"crashed"} \/ reply'[r] = "unhandled"
         \/ /\ s = r /\ k = key[r] /\ pc'[r] # "idle"
            /\ pc'[r] \in Inside \/ reply'[r] = "unhandled"
<1> USE DEF Params, Effects, Silent, Goto, Respond, Unhandled, FailsAs, Inside
<1>1. CASE GetResult(r) \/ GetResultFails(r) \/ Send(r) \/ SendFails(r)
           \/ CommitFails(r) \/ Crash(r)
  BY <1>1 DEF GetResult, GetResultFails, Send, SendFails, CommitFails, Record, Crash,
     TypeInv, TypeOK
<1>2. CASE Commit(r)
  <2>1. ~Keyed(r) => k # key[r]
    BY SubmitAssumption DEF Keyed
  <2> QED
    BY <1>2, <2>1 DEF Commit, Record, TypeInv, TypeOK
<1>3. CASE Acquire(r) \/ AcquireFails(r)
  <2>1. pc[r] = "acquire" /\ Keyed(r)
    BY <1>3 DEF Acquire, AcquireFails, TypeInv
  <2>2. pc'[r] = "send" \/ (reply'[r] = "unhandled" /\ pc'[r] = "done")
    BY <1>3 DEF Acquire, AcquireFails, TypeInv, TypeOK
  <2>3. key[r] \in IdemKey /\ ttl[r] \in Nat \ {0} /\ r \in Owner
    BY <2>1, CallParams
  <2>4. CASE UNCHANGED redis
    BY <2>1, <2>4
  <2>5. CASE acquire(key[r], r, ttl[r])
    <3>1. CASE k = key[r]
      <4>1. CASE Locked(key[r])
        BY <2>1, <2>3, <2>5, <4>1, AcquireEffect DEF TypeInv, TypeOK
      <4>2. CASE ~Locked(key[r])
        <5>1. Get(redis', LockKey(k)) = Processing(r)
          BY <2>3, <2>5, <3>1, <4>2, AcquireEffect DEF TypeInv, TypeOK
        <5>2. s = r
          BY <5>1, ValuesDiffer
        <5> QED
          BY <5>2, <2>2, <3>1
      <4> QED
        BY <4>1, <4>2
    <3>2. CASE k # key[r]
      BY <2>3, <2>5, <3>2, AcquireEffect, KeysInStore, LockKeyInjective
      DEF Get, TypeInv, TypeOK
    <3> QED
      BY <3>1, <3>2
  <2> QED
    BY <1>3, <2>4, <2>5 DEF Acquire, AcquireFails
<1>4. CASE StoreResult(r) \/ StoreResultFails(r)
  <2>1. pc[r] = "set_result" /\ Keyed(r)
    BY <1>4 DEF StoreResult, StoreResultFails, TypeInv
  <2>2. key[r] \in IdemKey /\ ttl[r] \in Nat \ {0} /\ r \in Owner
    BY <2>1, CallParams
  <2>3. s \in Owner
    BY SubmitAssumption
  <2>4. CASE set_result(key[r], r, ttl[r])
    <3>1. LockKey(k) # LockKey(key[r])
      BY <2>2, <2>3, <2>4, SetResultEffect, ValuesDiffer
      DEF Get, Absent, TypeInv, TypeOK
    <3>2. LockKey(k) # ResultKey(key[r])
      <4> SUFFICES ASSUME LockKey(k) = ResultKey(key[r]) PROVE FALSE
        OBVIOUS
      <4>1. LockKey(key[r]) # ResultKey(key[r])
        BY <3>1
      <4>2. Get(redis', LockKey(k)) = ResultOf(r)
        BY <4>1, <2>2, <2>4, SetResultEffect DEF TypeInv, TypeOK
      <4> QED
        BY <4>2, ValuesDiffer
    <3>3. Get(redis, LockKey(k)) = Processing(s)
      BY <3>1, <3>2, <2>2, <2>4, SetResultEffect, KeysInStore
      DEF Get, TypeInv, TypeOK
    <3> QED
      BY <3>1, <3>3
  <2>5. CASE UNCHANGED redis /\ StoreResultFails(r)
    BY <2>5 DEF StoreResultFails, TypeInv, TypeOK
  <2> QED
    BY <1>4, <2>4, <2>5 DEF StoreResult, StoreResultFails
<1>5. CASE HandleFailure(r) \/ HandleFailureFails(r)
  <2>1. s \in Owner
    BY SubmitAssumption
  <2>2. CASE Keyed(r) /\ release(key[r])
    <3>1. key[r] \in IdemKey
      BY <2>2 DEF Keyed, TypeInv, TypeOK
    <3>2. LockKey(k) # LockKey(key[r])
      BY <3>1, <2>1, <2>2, ReleaseEffect, ValuesDiffer
      DEF Get, Absent, TypeInv, TypeOK
    <3>3. Get(redis, LockKey(k)) = Processing(s)
      BY <3>1, <3>2, <2>2, ReleaseEffect, KeysInStore DEF Get, TypeInv, TypeOK
    <3> QED
      BY <3>2, <3>3
  <2>3. CASE UNCHANGED redis /\ HandleFailure(r) /\ ~Keyed(r)
    BY <2>3, SubmitAssumption DEF Keyed
  <2>4. CASE UNCHANGED redis /\ HandleFailureFails(r)
    BY <2>4 DEF HandleFailureFails, TypeInv, TypeOK
  <2> QED
    BY <1>5, <2>2, <2>3, <2>4 DEF HandleFailure, HandleFailureFails
<1> QED
  BY <1>1, <1>2, <1>3, <1>4, <1>5 DEF Work

\* OrphanInv is inductive.
LEMMA NextOrphan == TypeInv /\ OrphanInv /\ [Next]_vars => OrphanInv'
<1> SUFFICES ASSUME TypeInv, OrphanInv, [Next]_vars PROVE OrphanInv'
  OBVIOUS
<1>1. ASSUME NEW r \in Request, NEW k \in IdemKey \cup {NoKey},
             NEW t \in TtlChoice, Submit(r, k, t)
      PROVE  OrphanInv'
  <2>1. /\ pc[r] = "idle" /\ reply' = reply /\ redis' = redis
        /\ \A s \in Request : s # r => key'[s] = key[s] /\ pc'[s] = pc[s]
        /\ pc'[r] # "done"
    BY <1>1 DEF Submit, Silent, Effects, Goto, TypeInv, TypeOK
  <2> QED
    BY <2>1 DEF OrphanInv
<1>2. ASSUME NEW r \in Request, Work(r) \/ Crash(r) PROVE OrphanInv'
  <2>1. /\ key' = key /\ pc[r] \notin {"idle", "done"} /\ pc'[r] # "idle"
        /\ \A s \in Request : s # r => pc'[s] = pc[s] /\ reply'[s] = reply[s]
        /\ reply'[r] # reply[r] => pc'[r] = "done"
    BY <1>2, WorkFrame DEF Params
  <2>2. \A s \in Request : pc'[s] # "done" => reply'[s] = "none"
    BY <2>1 DEF OrphanInv
  <2>3. ASSUME NEW k \in IdemKey, NEW s \in Request,
               Get(redis', LockKey(k)) = Processing(s)
        PROVE  /\ key'[s] = k /\ pc'[s] # "idle"
               /\ pc'[s] \in Inside \cup {"crashed"} \/ reply'[s] = "unhandled"
    <3>1. CASE /\ Get(redis, LockKey(k)) = Processing(s)
               /\ s = r /\ k = key[r] /\ pc[r] \in Inside =>
                    pc'[r] \in Inside \cup {"crashed"} \/ reply'[r] = "unhandled"
      <4>1. /\ key[s] = k /\ pc[s] # "idle"
            /\ pc[s] \in Inside \cup {"crashed"} \/ reply[s] = "unhandled"
        BY <3>1 DEF OrphanInv
      <4>2. CASE s # r
        BY <4>1, <4>2, <2>1
      <4>3. CASE s = r
        <5>1. reply[r] = "none" /\ pc[r] # "crashed"
          BY <1>2, <2>1 DEF OrphanInv, Work, Crash, GetResult, GetResultFails,
             Acquire, AcquireFails, Send, SendFails, Commit, CommitFails, Record,
             StoreResult, StoreResultFails, HandleFailure, HandleFailureFails
        <5> QED
          BY <3>1, <4>1, <4>3, <5>1, <2>1
      <4> QED
        BY <4>2, <4>3
    <3>2. CASE /\ s = r /\ k = key[r] /\ pc'[r] # "idle"
               /\ pc'[r] \in Inside \/ reply'[r] = "unhandled"
      BY <3>2, <2>1
    <3> QED
      BY <1>2, <2>3, <3>1, <3>2, WorkLocks
  <2> QED
    BY <2>2, <2>3 DEF OrphanInv
<1>3. ASSUME Tick PROVE OrphanInv'
  <2>1. ASSUME NEW k \in IdemKey, NEW s \in Request,
               Get(redis', LockKey(k)) = Processing(s)
        PROVE  Get(redis, LockKey(k)) = Processing(s)
    BY <1>3, <2>1, TickEffect, KeysInStore, ValuesDiffer, SubmitAssumption
    DEF Tick, Get, Absent, TypeInv, TypeOK
  <2> QED
    BY <1>3, <2>1 DEF Tick, Silent, OrphanInv
<1>4. ASSUME UNCHANGED vars PROVE OrphanInv'
  BY <1>4 DEF vars, OrphanInv
<1> QED
  BY <1>1, <1>2, <1>3, <1>4 DEF Next

\* Whatever fails, however late: a request the route answered, well or with
\* "Failed to submit task", has left no lock of its own in the way of the
\* next one.
THEOREM NoLockLeftBehind == Spec => []NoOrphanLock
<1>1. Init => OrphanInv
  BY ValuesDiffer, SubmitAssumption, KeysInStore
  DEF Init, OrphanInv, Get, Empty, Absent
<1>2. OrphanInv => NoOrphanLock
  BY DEF OrphanInv, NoOrphanLock
<1> QED
  BY <1>1, <1>2, NextOrphan, TypeInvariant, PTL DEF Spec
=============================================================================
