----------------------------- MODULE TaskSubmit -----------------------------
(***************************************************************************)
(* POST /tasks/submit: submit_task of app/api/routes/tasks.py, run by any  *)
(* number of requests at once, in one API process or in several.  Control  *)
(* changes hands at every await, and between two instances anywhere, so    *)
(* each call to Redis, the broker or the database is one action.           *)
(*                                                                         *)
(* A request is used once; a client that tries again is a new request with *)
(* the same key.  The request stands for the task id send_task would give  *)
(* it: "task r" is the task that request r sent.                           *)
(***************************************************************************)
EXTENDS IdempotencyService, FiniteSets

CONSTANTS Request,
          NoKey,        \* the request carries no idempotency key
          TtlChoice,    \* the idempotency_ttl values requests ask for
          Faults        \* what may go wrong, see AllFaults

(***************************************************************************)
(*  redis, broker, database   a call fails and has no effect               *)
(*  lost_reply                the call fails but its effect has happened   *)
(*  crash                     the API process dies                         *)
(*  late                      a lock's ttl runs out on a live request      *)
(***************************************************************************)
AllFaults == {"redis", "broker", "database", "lost_reply", "crash", "late"}

ASSUME SubmitAssumption ==
    /\ Request \subseteq Owner
    /\ NoKey \notin IdemKey
    /\ TtlChoice \subseteq Nat \ {0}
    /\ Faults \subseteq AllFaults

VARIABLES pc,           \* where each request is in submit_task
          key,          \* its idempotency_key
          ttl,          \* its idempotency_ttl
          sent,         \* the tasks the broker has been given
          rows,         \* the tasks with a committed TaskExecution row
          reply,        \* what the client was answered
          answer,       \* the task id in that answer
          before,       \* history: requests on the key accepted before this
                        \* one was submitted
          forgotten     \* history: accepted requests whose result expired

vars == <<redis, pc, key, ttl, sent, rows, reply, answer, before, forgotten>>

Inside == {"send", "commit", "set_result", "release"}
PC == Inside \cup {"idle", "get_result", "acquire", "done", "crashed"}
Reply == {"none", "accepted", "duplicate", "failed", "unhandled"}

TypeOK ==
    /\ RedisType
    /\ pc \in [Request -> PC]
    /\ key \in [Request -> IdemKey \cup {NoKey}]
    /\ ttl \in [Request -> TtlChoice \cup {0}]
    /\ sent \subseteq Request
    /\ rows \subseteq Request
    /\ reply \in [Request -> Reply]
    /\ answer \in [Request -> Request \cup {Nil}]
    /\ before \in [Request -> SUBSET Request]
    /\ forgotten \subseteq Request

Init ==
    /\ redis = Empty(RedisKey)
    /\ pc = [r \in Request |-> "idle"]
    /\ key = [r \in Request |-> NoKey]
    /\ ttl = [r \in Request |-> 0]
    /\ sent = {}
    /\ rows = {}
    /\ reply = [r \in Request |-> "none"]
    /\ answer = [r \in Request |-> Nil]
    /\ before = [r \in Request |-> {}]
    /\ forgotten = {}

Accepted(k) == {r \in Request : key[r] = k /\ reply[r] = "accepted"}
Keyed(r) == key[r] # NoKey

Goto(r, place) == pc' = [pc EXCEPT ![r] = place]

Respond(r, kind, task) ==
    /\ Goto(r, "done")
    /\ reply' = [reply EXCEPT ![r] = kind]
    /\ answer' = [answer EXCEPT ![r] = task]

\* An exception outside the try block: FastAPI answers a bare 500.
Unhandled(r) == Respond(r, "unhandled", Nil)

Silent == UNCHANGED <<reply, answer>>
Effects == <<redis, sent, rows>>
Params == <<key, ttl, before, forgotten>>

\* The call fails: without effect, or with the effect but not its reply.
FailsAs(service, effect, none) ==
    \/ service \in Faults /\ none
    \/ "lost_reply" \in Faults /\ effect

-----------------------------------------------------------------------------

\* Mutant: the ttl is not read from the request.
SubmitWithoutTtl(r, k, t) ==
    /\ pc[r] = "idle"
    /\ key' = [key EXCEPT ![r] = k]
    /\ before' = [before EXCEPT ![r] = IF k = NoKey THEN {} ELSE Accepted(k)]
    /\ Goto(r, IF k = NoKey THEN "send" ELSE "get_result")
    /\ Silent /\ UNCHANGED <<Effects, ttl, forgotten>>

\* A request comes in; without a key it goes straight to the broker.
Submit(r, k, t) ==
    /\ pc[r] = "idle"
    /\ key' = [key EXCEPT ![r] = k]
    /\ ttl' = [ttl EXCEPT ![r] = t]
    /\ before' = [before EXCEPT ![r] = IF k = NoKey THEN {} ELSE Accepted(k)]
    /\ Goto(r, IF k = NoKey THEN "send" ELSE "get_result")
    /\ Silent /\ UNCHANGED <<Effects, forgotten>>

\* A result on file is answered with its task id.  A lock under that name
\* (see PlainKeys) is JSON without a task_id: KeyError.
GetResult(r) ==
    /\ pc[r] = "get_result"
    /\ LET found == get_result(key[r]) IN
         \/ /\ ~HasResult(key[r])
            /\ Goto(r, "acquire") /\ Silent
         \/ /\ HasResult(key[r])
            /\ \E task \in Request :
                 found = ResultOf(task) /\ Respond(r, "duplicate", task)
         \/ /\ HasResult(key[r])
            /\ \E o \in Request : found = Processing(o)
            /\ Unhandled(r)
    /\ UNCHANGED <<Effects, Params>>

GetResultFails(r) ==
    /\ pc[r] = "get_result"
    /\ Faults \cap {"redis", "lost_reply"} # {}
    /\ Unhandled(r)
    /\ UNCHANGED <<Effects, Params>>

\* Mutant: nobody looks at what SET NX returned.
AcquireUnchecked(r) ==
    /\ pc[r] = "acquire"
    /\ acquire(key[r], r, ttl[r])
    /\ Goto(r, "send") /\ Silent
    /\ UNCHANGED <<sent, rows, Params>>

\* Mutant: acquire is called inside the try block, whose handler releases.
AcquireInsideTry(r) ==
    /\ pc[r] = "acquire"
    /\ acquire(key[r], r, ttl[r])
    /\ Goto(r, IF Locked(key[r]) THEN "release" ELSE "send") /\ Silent
    /\ UNCHANGED <<sent, rows, Params>>

\* The loser of the SET NX never sees False, and so never sends its 409:
\* idempotency_hits_counter is declared with a label and acquire increments
\* it without one, so acquire raises ValueError.
Acquire(r) ==
    /\ pc[r] = "acquire"
    /\ acquire(key[r], r, ttl[r])
    /\ \/ Locked(key[r]) /\ Unhandled(r)
       \/ ~Locked(key[r]) /\ Goto(r, "send") /\ Silent
    /\ UNCHANGED <<sent, rows, Params>>

AcquireFails(r) ==
    /\ pc[r] = "acquire"
    /\ FailsAs("redis", acquire(key[r], r, ttl[r]), UNCHANGED redis)
    /\ Unhandled(r)
    /\ UNCHANGED <<sent, rows, Params>>

\* Mutant: the result is stored before the row is committed.
SendThenStore(r) ==
    /\ pc[r] = "send"
    /\ sent' = sent \cup {r}
    /\ Goto(r, IF Keyed(r) THEN "set_result" ELSE "commit") /\ Silent
    /\ UNCHANGED <<redis, rows, Params>>

Send(r) ==
    /\ pc[r] = "send"
    /\ sent' = sent \cup {r}
    /\ Goto(r, "commit") /\ Silent
    /\ UNCHANGED <<redis, rows, Params>>

SendFails(r) ==
    /\ pc[r] = "send"
    /\ FailsAs("broker", sent' = sent \cup {r}, UNCHANGED sent)
    /\ Goto(r, "release") /\ Silent
    /\ UNCHANGED <<redis, rows, Params>>

\* The TaskExecution of the task, whose id is unique among them.
Record(r) == rows' = rows \cup {r}

\* db.add and commit; a request without a key is answered at once.
Commit(r) ==
    /\ pc[r] = "commit"
    /\ Record(r)
    /\ \/ Keyed(r) /\ Goto(r, "set_result") /\ Silent
       \/ ~Keyed(r) /\ Respond(r, "accepted", r)
    /\ UNCHANGED <<redis, sent, Params>>

CommitFails(r) ==
    /\ pc[r] = "commit"
    /\ FailsAs("database", Record(r), UNCHANGED rows)
    /\ Goto(r, "release") /\ Silent
    /\ UNCHANGED <<redis, sent, Params>>

StoreResult(r) ==
    /\ pc[r] = "set_result"
    /\ set_result(key[r], r, ttl[r])
    /\ Respond(r, "accepted", r)
    /\ UNCHANGED <<sent, rows, Params>>

StoreResultFails(r) ==
    /\ pc[r] = "set_result"
    /\ FailsAs("redis", set_result(key[r], r, ttl[r]), UNCHANGED redis)
    /\ Goto(r, "release") /\ Silent
    /\ UNCHANGED <<sent, rows, Params>>

\* Mutant: the handler answers without releasing the lock.
HandleFailureKeepsLock(r) ==
    /\ pc[r] = "release"
    /\ Respond(r, "failed", Nil)
    /\ UNCHANGED <<Effects, Params>>

\* except Exception: drop the lock, answer 500 "Failed to submit task".
HandleFailure(r) ==
    /\ pc[r] = "release"
    /\ \/ Keyed(r) /\ release(key[r])
       \/ ~Keyed(r) /\ UNCHANGED redis
    /\ Respond(r, "failed", Nil)
    /\ UNCHANGED <<sent, rows, Params>>

\* The release itself raises, inside the except clause.
HandleFailureFails(r) ==
    /\ pc[r] = "release"
    /\ Keyed(r)
    /\ FailsAs("redis", release(key[r]), UNCHANGED redis)
    /\ Unhandled(r)
    /\ UNCHANGED <<sent, rows, Params>>

\* The process dies, or its shutdown cancels the request: CancelledError is
\* not an Exception, so no handler runs.
Crash(r) ==
    /\ "crash" \in Faults
    /\ pc[r] \notin {"idle", "done", "crashed"}
    /\ Goto(r, "crashed") /\ Silent
    /\ UNCHANGED <<Effects, Params>>

HasOwnLock(r) == Keyed(r) /\ Get(redis, LockKey(key[r])) = Processing(r)

\* A second passes.  Unless requests may be late, the lock that one took
\* does not run out while it is at work; whatever else has come under that
\* name in its place does (see PlainLock).
Tick ==
    /\ SomeExpiry(redis)
    /\ \/ "late" \in Faults
       \/ \A r \in Request : pc[r] \in Inside /\ HasOwnLock(r) =>
                               LockKey(key[r]) \notin Expiring(redis)
    /\ redis' = Elapse(redis)
    /\ forgotten' = forgotten \cup
         {r \in Request : /\ reply[r] = "accepted" /\ Keyed(r)
                          /\ ResultKey(key[r]) \in Expiring(redis)}
    /\ Silent /\ UNCHANGED <<pc, sent, rows, key, ttl, before>>

-----------------------------------------------------------------------------

Work(r) ==
    \/ GetResult(r) \/ GetResultFails(r)
    \/ Acquire(r) \/ AcquireFails(r)
    \/ Send(r) \/ SendFails(r)
    \/ Commit(r) \/ CommitFails(r)
    \/ StoreResult(r) \/ StoreResultFails(r)
    \/ HandleFailure(r) \/ HandleFailureFails(r)

Next ==
    \/ \E r \in Request : \E k \in IdemKey \cup {NoKey}, t \in TtlChoice :
         Submit(r, k, t)
    \/ \E r \in Request : Work(r) \/ Crash(r)
    \/ Tick

Spec == Init /\ [][Next]_vars

\* The event loop runs every handler that is ready to its next await, calls
\* return or fail, and time passes.  Nothing makes a client submit, and no
\* process has to crash.
Fairness == WF_vars(Tick) /\ \A r \in Request : WF_vars(Work(r))

FairSpec == Spec /\ Fairness

-----------------------------------------------------------------------------
(***************************************************************************)
(* Properties.                                                             *)
(***************************************************************************)

Holding(k) == {r \in Request : key[r] = k /\ pc[r] \in Inside}

\* "Another request is processing this key" (tasks.py:60) is decided
\* exactly: between its acquire and its set_result or release a request is
\* the only one on its key, so no two send a task for it at the same time.
\* The lock carries no owner and is deleted blindly, so this needs requests
\* that are overtaken by their ttl, and calls that fail after their effect,
\* excluded, and is claimed only of keys whose lock's name nobody's result
\* has: a result stored over a lock may expire before it, and lets another
\* request in.
AtMostOneProcessing ==
    \A r, s \in Request : /\ pc[r] \in Inside /\ pc[s] \in Inside
                          /\ Keyed(r) /\ key[r] = key[s] /\ PlainLock(key[r])
                          => r = s

\* Once a request on a key has been accepted, no request submitted after
\* that sends a second task for the key until the stored result has expired:
\* "Duplicate submissions with the same key will return the existing task
\* result" (tasks.py:40), for duplicates that do not overlap the original.
SettledKeyIsNotResent ==
    \A r \in sent : before[r] \subseteq forgotten

\* Whatever fails: the task id in a stored result, and in a duplicate's
\* answer, is that of a task on the same key which the broker was given and
\* whose row is committed.
AnswersNameRealTasks ==
    /\ \A k \in IdemKey, r \in Request :
         get_result(k) = ResultOf(r) => r \in sent \cap rows /\ key[r] = k
    /\ \A r \in Request :
         reply[r] = "duplicate" =>
           answer[r] \in sent \cap rows /\ key[answer[r]] = key[r]

\* A request that was answered 200, or 500 with its handler completed,
\* leaves no lock behind: a lock on file belongs to a request at work, to
\* one whose process died, or to one whose Redis call raised outside the
\* handler's reach.  Retrying after "Failed to submit task" is never barred
\* by the failed request's own lock.
NoOrphanLock ==
    \A k \in IdemKey, r \in Request :
      Get(redis, LockKey(k)) = Processing(r) =>
        pc[r] \in Inside \cup {"crashed"} \/ reply[r] = "unhandled"

\* A key is never barred for good: whatever its holder dies of, its lock is
\* gone in the end.
LockEventuallyFreed ==
    \A k \in IdemKey : Locked(k) ~> ~Locked(k)

\* The docstring's promise (tasks.py:39): "the system ensures exactly-once
\* execution" - at most one task per key while nothing has expired.
ExactlyOnceSubmission ==
    \A r, s \in sent : Keyed(r) /\ key[r] = key[s] /\ forgotten = {} => r = s

\* The comment and the test of the losing side (tasks.py:60, acquire's
\* "False if key already exists"): without a fault of Redis, the broker or
\* the database, a request is answered by the route, never by a stray error.
LoserIsAnswered ==
    \A r \in Request : reply[r] # "unhandled"
=============================================================================
