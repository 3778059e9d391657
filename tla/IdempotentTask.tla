--------------------------- MODULE IdempotentTask ---------------------------
(***************************************************************************)
(* The worker side: Celery tasks wrapped in @idempotent_task, which takes  *)
(* the lock of the task's idempotency key before the body and never gives  *)
(* it back on success, so that the lock's ttl is the window in which the   *)
(* task runs once.                                                         *)
(*                                                                         *)
(* Several pool processes consume from RabbitMQ with late acknowledgement. *)
(* A message is a task id and its retry number; a delivery that is not     *)
(* acknowledged comes back, while the process that had it may still be at  *)
(* work.  The wrapper's calls to Redis are one action each; what Celery    *)
(* does around it follows the settings of app/core/celery/app.py.          *)
(***************************************************************************)
EXTENDS IdempotencyService, FiniteSets

CONSTANTS Task,
          Worker,       \* the worker's pool processes
          KeyOf,        \* the idempotency key of each task
          Window,       \* the decorator's ttl
          HardLimit,    \* task_time_limit
          MaxRetries,   \* task_max_retries
          Flaky,        \* tasks whose bodies may meet an error that is retried
          OnDuplicate,  \* the decorator's on_duplicate, of each task: a set,
                        \* any of which it may be
          Revocable,    \* tasks that clients may ask to revoke
          Faults,       \* kinds of faults, see AllFaults
          MaxLosses     \* bound: processes killed, connections lost, revokes

(***************************************************************************)
(*  redis        a Redis call of the wrapper raises and has no effect      *)
(*  lost_reply   it raises after its effect                                *)
(*  kill         a process dies: WorkerLostError, or the whole worker      *)
(*  disconnect   the broker redelivers what a live process is working on   *)
(***************************************************************************)
AllFaults == {"redis", "lost_reply", "kill", "disconnect"}

ASSUME TaskAssumption ==
    /\ Task \subseteq Owner
    /\ Nil \notin Task \X Nat
    /\ KeyOf \in [Task -> IdemKey]
    /\ HardLimit \in Nat
    /\ Window \in Nat /\ HardLimit < Window
    /\ MaxRetries \in Nat /\ MaxLosses \in Nat
    /\ OnDuplicate \in [Task -> SUBSET {"skip", "return_cached", "raise"}]
    /\ Flaky \subseteq Task /\ Revocable \subseteq Task /\ Faults \subseteq AllFaults

VARIABLES ready,        \* how many copies of each message await delivery
          pc, msg,      \* each process: where it is, on which message
          attached,     \* whether the broker still counts its delivery as his
          elapsed,      \* seconds since it began its message, while at work
          raised,       \* how the wrapper was left by an exception
          result,       \* what is to be reported of its message
          outcome,      \* what the result backend says of each task
          losses,       \* kills, disconnections and revokes left
          revoked,      \* the tasks the worker has been told to revoke
          since,        \* history: seconds since the key's lock was last
                        \* taken, up to Window
          fate,         \* history: how far the run that took it got
          crossed       \* history: tasks of which an attempt was overtaken by
                        \* its own retry, or stopped, before it reported RETRY

vars == <<redis, ready, pc, msg, attached, elapsed, raised, result, outcome,
          losses, revoked, since, fate, crossed>>

Message == Task \X (0..MaxRetries)
TaskOf(w) == msg[w][1]
Retries(w) == msg[w][2]
WorkKey(w) == KeyOf[TaskOf(w)]
Modes(w) == OnDuplicate[TaskOf(w)]

Inside == {"body", "save", "unlock"}
Reporting == {"report", "store", "stopped"}
PC == Inside \cup Reporting \cup {"idle", "lock", "cached", "raised", "ack"}
Outcome == {"PENDING", "RETRY", "SUCCESS", "FAILURE", "REVOKED"}

TypeOK ==
    /\ RedisType
    /\ ready \in [Message -> Nat]
    /\ pc \in [Worker -> PC]
    /\ msg \in [Worker -> Message \cup {Nil}]
    /\ \A w \in Worker : msg[w] = Nil <=> pc[w] = "idle"
    /\ attached \in [Worker -> BOOLEAN]
    /\ elapsed \in [Worker -> 0..HardLimit]
    /\ raised \in [Worker -> {"no", "retryable", "other"}]
    /\ result \in [Worker -> Outcome]
    /\ outcome \in [Task -> Outcome]
    /\ losses \in 0..MaxLosses
    /\ revoked \subseteq Task
    /\ since \in [IdemKey -> 0..Window]
    /\ fate \in [IdemKey -> {"none", "started", "completed", "saved"}]
    /\ crossed \subseteq Task

\* Every task has been sent once; a message waits as long as it likes.
Init ==
    /\ redis = Empty(RedisKey)
    /\ ready = [m \in Message |-> IF m[2] = 0 THEN 1 ELSE 0]
    /\ pc = [w \in Worker |-> "idle"]
    /\ msg = [w \in Worker |-> Nil]
    /\ attached = [w \in Worker |-> FALSE]
    /\ elapsed = [w \in Worker |-> 0]
    /\ raised = [w \in Worker |-> "no"]
    /\ result = [w \in Worker |-> "PENDING"]
    /\ outcome = [t \in Task |-> "PENDING"]
    /\ losses = MaxLosses
    /\ revoked = {}
    /\ since = [k \in IdemKey |-> Window]
    /\ fate = [k \in IdemKey |-> "none"]
    /\ crossed = {}

\* A message that is being run: the hard limit applies.
AtWork(w) == pc[w] \notin {"idle", "stopped", "ack"}

Goto(w, place) ==
    /\ pc' = [pc EXCEPT ![w] = place]
    /\ elapsed' = [elapsed EXCEPT ![w] =
                     IF place \in {"idle", "stopped", "ack"} THEN 0 ELSE @]

\* There is something to report of the message; the ack comes after that.
Owe(w, state) ==
    /\ result' = [result EXCEPT ![w] = state]
    /\ raised' = [raised EXCEPT ![w] = "no"]

Report(w, state) == Owe(w, state) /\ Goto(w, "report")

\* The wrapper returns.
Return(w) == Report(w, "SUCCESS")

\* The wrapper is left by an exception.
Raise(w, kind) ==
    /\ raised' = [raised EXCEPT ![w] = kind]
    /\ Goto(w, "raised") /\ UNCHANGED result

Broker == <<ready, msg, attached, losses, revoked>>
Ghosts == <<since, fate>>
Frame == UNCHANGED <<Broker, outcome, crossed>>

FailsAs(effect, none) ==
    \/ "redis" \in Faults /\ none
    \/ "lost_reply" \in Faults /\ effect

-----------------------------------------------------------------------------

\* The retry is published, RETRY is not stored yet.
Unreported(w) == pc[w] \in {"report", "store"} /\ result[w] = "RETRY"

\* A process, or the worker for it, takes a message.  It may be the retry of
\* an attempt that has not reported RETRY yet.
Take(w, m) ==
    /\ pc[w] = "idle" /\ ready[m] > 0
    /\ ready' = [ready EXCEPT ![m] = @ - 1]
    /\ msg' = [msg EXCEPT ![w] = m]
    /\ attached' = [attached EXCEPT ![w] = TRUE]
    /\ crossed' = IF \E v \in Worker : Unreported(v) /\ m = <<TaskOf(v), Retries(v) + 1>>
                  THEN crossed \cup {m[1]} ELSE crossed

Deliver(w, m) ==
    /\ m[1] \notin revoked
    /\ Take(w, m)
    /\ Goto(w, "lock")
    /\ UNCHANGED <<redis, raised, result, outcome, losses, revoked, Ghosts>>

SetLock(w) ==
    /\ redis' = SetNxEx(redis, LockKey(WorkKey(w)), Processing(TaskOf(w)), Window)
    /\ \/ Locked(WorkKey(w)) /\ UNCHANGED Ghosts
       \/ /\ ~Locked(WorkKey(w))
          /\ since' = [since EXCEPT ![WorkKey(w)] = 0]
          /\ fate' = [fate EXCEPT ![WorkKey(w)] = "started"]

Lock(w) ==
    /\ pc[w] = "lock" /\ ~Locked(WorkKey(w))
    /\ SetLock(w)
    /\ Goto(w, "body")
    /\ Frame /\ UNCHANGED <<raised, result>>

\* The lock is taken: a duplicate, or a redelivery of the very message whose
\* process took it and died.
Duplicate(w) ==
    /\ pc[w] = "lock" /\ Locked(WorkKey(w))
    /\ \/ "skip" \in Modes(w) /\ Return(w)
       \/ /\ "return_cached" \in Modes(w)
          /\ Goto(w, "cached") /\ UNCHANGED <<raised, result>>
       \/ "raise" \in Modes(w) /\ Raise(w, "other")
    /\ Frame /\ UNCHANGED <<redis, Ghosts>>

\* Mutant: the SET is inside the try whose handler deletes the lock.
LockFailsUnlocks(w) ==
    /\ pc[w] = "lock"
    /\ FailsAs(SetLock(w), UNCHANGED <<redis, Ghosts>>)
    /\ raised' = [raised EXCEPT ![w] = "other"]
    /\ Goto(w, "unlock")
    /\ Frame /\ UNCHANGED result

\* The SET raises outside the inner try: no handler deletes the lock.
LockFails(w) ==
    /\ pc[w] = "lock"
    /\ FailsAs(SetLock(w), UNCHANGED <<redis, Ghosts>>)
    /\ Raise(w, "other")
    /\ Frame

\* The cached result, or None when there is none.
GetCached(w) ==
    /\ pc[w] = "cached"
    /\ Return(w)
    /\ Frame /\ UNCHANGED <<redis, Ghosts>>

GetCachedFails(w) ==
    /\ pc[w] = "cached" /\ Faults \cap {"redis", "lost_reply"} # {}
    /\ Raise(w, "other")
    /\ Frame /\ UNCHANGED <<redis, Ghosts>>

\* func(...) returns.
RunBody(w) ==
    /\ pc[w] = "body"
    /\ fate' = [fate EXCEPT ![WorkKey(w)] = "completed"]
    /\ Goto(w, "save")
    /\ Frame /\ UNCHANGED <<redis, raised, result, since>>

\* Mutant: the exception goes up without the lock's being deleted.
BodyRaisesKeepsLock(w) ==
    /\ pc[w] = "body"
    /\ \E kind \in {"retryable", "other"} :
         /\ kind = "retryable" => TaskOf(w) \in Flaky
         /\ raised' = [raised EXCEPT ![w] = kind]
    /\ Goto(w, "raised")
    /\ Frame /\ UNCHANGED <<redis, result, Ghosts>>

\* func(...) raises: ConnectionError and TimeoutError are retried, anything
\* else is not, SoftTimeLimitExceeded included.
BodyRaises(w) ==
    /\ pc[w] = "body"
    /\ \E kind \in {"retryable", "other"} :
         /\ kind = "retryable" => TaskOf(w) \in Flaky
         /\ raised' = [raised EXCEPT ![w] = kind]
    /\ Goto(w, "unlock")
    /\ Frame /\ UNCHANGED <<redis, result, Ghosts>>

\* Mutant: the result is kept for the length of a run only.
SetResultBriefly(w) ==
    redis' = SetEx(redis, ResultKey(WorkKey(w)), ResultOf(TaskOf(w)), HardLimit)

SetResult(w) ==
    redis' = SetEx(redis, ResultKey(WorkKey(w)), ResultOf(TaskOf(w)), Window)

\* Mutant: the lock is released on success.
SaveReleases(w) ==
    /\ pc[w] = "save"
    /\ redis' = Del(redis, {LockKey(WorkKey(w))})
    /\ fate' = [fate EXCEPT ![WorkKey(w)] = "saved"]
    /\ Return(w)
    /\ Frame /\ UNCHANGED since

\* The result is stored; the lock stays, to hold off duplicates.
Save(w) ==
    /\ pc[w] = "save"
    /\ SetResult(w)
    /\ fate' = [fate EXCEPT ![WorkKey(w)] = "saved"]
    /\ Return(w)
    /\ Frame /\ UNCHANGED since

\* The body is done but its result is not on file: the same handler as for
\* a body that failed.
SaveFails(w) ==
    /\ pc[w] = "save"
    /\ FailsAs(SetResult(w), UNCHANGED redis)
    /\ raised' = [raised EXCEPT ![w] = "other"]
    /\ Goto(w, "unlock")
    /\ Frame /\ UNCHANGED <<result, Ghosts>>

\* except Exception: delete the lock and raise again.
Unlock(w) ==
    /\ pc[w] = "unlock"
    /\ redis' = Del(redis, {LockKey(WorkKey(w))})
    /\ Goto(w, "raised")
    /\ Frame /\ UNCHANGED <<raised, result, Ghosts>>

\* The delete's own exception, which is not one Celery retries, takes over.
UnlockFails(w) ==
    /\ pc[w] = "unlock"
    /\ FailsAs(redis' = Del(redis, {LockKey(WorkKey(w))}), UNCHANGED redis)
    /\ Raise(w, "other")
    /\ Frame /\ UNCHANGED Ghosts

\* autoretry_for: a new message with the next retry number is published,
\* perhaps to be delivered at once (the first delay may be 0); only then is
\* RETRY reported.
Retry(w) ==
    /\ pc[w] = "raised" /\ raised[w] = "retryable" /\ Retries(w) < MaxRetries
    /\ ready' = [ready EXCEPT ![<<TaskOf(w), Retries(w) + 1>>] = @ + 1]
    /\ Report(w, "RETRY")
    /\ UNCHANGED <<redis, msg, attached, outcome, losses, revoked, Ghosts, crossed>>

Fail(w) ==
    /\ pc[w] = "raised" /\ (raised[w] = "other" \/ Retries(w) = MaxRetries)
    /\ Report(w, "FAILURE")
    /\ Frame /\ UNCHANGED <<redis, Ghosts>>

\* The backend does not overwrite a SUCCESS - that it had when it was asked:
\* store_result gets what is there and then sets what there is to report.
Unsettled(w) == outcome[TaskOf(w)] # "SUCCESS"

Reported(w) ==
    /\ result' = [result EXCEPT ![w] = "PENDING"]
    /\ Goto(w, "ack")

ReadOutcome(w) ==
    /\ pc[w] = "report"
    /\ \/ Unsettled(w) /\ Goto(w, "store") /\ UNCHANGED result
       \/ ~Unsettled(w) /\ Reported(w)
    /\ Frame /\ UNCHANGED <<redis, raised, Ghosts>>

StoreOutcome(w) ==
    /\ pc[w] \in {"store", "stopped"}
    /\ outcome' = [outcome EXCEPT ![TaskOf(w)] = result[w]]
    /\ Reported(w)
    /\ UNCHANGED <<Broker, redis, raised, Ghosts, crossed>>

\* The process, or the one that replaces it, is ready for a message.
Free(w) ==
    /\ Goto(w, "idle")
    /\ msg' = [msg EXCEPT ![w] = Nil]
    /\ attached' = [attached EXCEPT ![w] = FALSE]
    /\ raised' = [raised EXCEPT ![w] = "no"]
    /\ result' = [result EXCEPT ![w] = "PENDING"]

\* Mutant: task_reject_on_worker_lost is left at False, its default.
RequeueNot(w) == ready' = ready

\* What the broker does when it loses the consumer of a delivery.
Requeue(w) ==
    ready' = IF attached[w] THEN [ready EXCEPT ![msg[w]] = @ + 1] ELSE ready

\* Mutant: the ack takes a second copy off the queue.
AckRemovesCopy(w) ==
    /\ pc[w] = "ack"
    /\ Free(w)
    /\ ready' = [ready EXCEPT ![msg[w]] = @ - 1]
    /\ UNCHANGED <<redis, outcome, losses, revoked, Ghosts, crossed>>

\* task_acks_late: the message leaves the queue only now.
Ack(w) ==
    /\ pc[w] = "ack"
    /\ Free(w)
    /\ UNCHANGED <<redis, ready, outcome, losses, revoked, Ghosts, crossed>>

\* task_reject_on_worker_lost, or the broker's own redelivery.  What was to
\* be reported is not.
Kill(w) ==
    /\ "kill" \in Faults /\ losses > 0 /\ pc[w] # "idle"
    /\ Requeue(w) /\ Free(w)
    /\ losses' = losses - 1
    /\ UNCHANGED <<redis, outcome, revoked, Ghosts, crossed>>

\* The connection to the broker is lost, the process works on.
Disconnect(w) ==
    /\ "disconnect" \in Faults /\ losses > 0 /\ attached[w]
    /\ Requeue(w)
    /\ attached' = [attached EXCEPT ![w] = FALSE]
    /\ losses' = losses - 1
    /\ UNCHANGED <<redis, pc, msg, elapsed, raised, result, outcome, revoked,
                   Ghosts, crossed>>

\* The worker is restarted between two messages: it remembers the tasks to
\* be revoked in memory only.
Restart ==
    /\ "kill" \in Faults /\ revoked # {}
    /\ \A w \in Worker : pc[w] = "idle"
    /\ revoked' = {}
    /\ UNCHANGED <<redis, ready, pc, msg, attached, elapsed, raised, result,
                   outcome, losses, Ghosts, crossed>>

-----------------------------------------------------------------------------

\* revoke_task without terminate: the worker is told, a body that runs is
\* let run.
Revoke(t) ==
    /\ t \in Revocable \ revoked /\ losses > 0
    /\ revoked' = revoked \cup {t}
    /\ losses' = losses - 1
    /\ UNCHANGED <<redis, ready, pc, msg, attached, elapsed, raised, result,
                   outcome, Ghosts, crossed>>

\* The worker's main process reports instead of the pool process, which has
\* been killed or was never given the message.
Stop(w, t, state) ==
    /\ raised' = [raised EXCEPT ![w] = "no"]
    /\ \/ /\ outcome[t] # "SUCCESS"
          /\ result' = [result EXCEPT ![w] = state]
          /\ Goto(w, "stopped")
       \/ outcome[t] = "SUCCESS" /\ Reported(w)

\* A message of a revoked task is acknowledged without being run, be it the
\* first one, a retry or a redelivery.
Discard(w, m) ==
    /\ m[1] \in revoked
    /\ Take(w, m)
    /\ Stop(w, m[1], "REVOKED")
    /\ UNCHANGED <<redis, outcome, losses, revoked, Ghosts>>

\* revoke_task with terminate: the process that has the task gets SIGTERM,
\* which no except clause sees, so that a lock it has taken stays; the
\* message is acknowledged.
Terminate(w) ==
    /\ pc[w] \notin {"idle", "stopped"} /\ TaskOf(w) \in Revocable /\ losses > 0
    /\ revoked' = revoked \cup {TaskOf(w)}
    /\ Stop(w, TaskOf(w), "REVOKED")
    /\ losses' = losses - 1
    /\ UNCHANGED <<redis, ready, msg, attached, outcome, Ghosts, crossed>>

\* The hard limit: the process is killed, the failure reported and the
\* message acknowledged (acks_on_failure_or_timeout).
TimeLimit(w) ==
    /\ AtWork(w) /\ elapsed[w] = HardLimit
    /\ Stop(w, TaskOf(w), "FAILURE")
    /\ crossed' = IF Unreported(w) THEN crossed \cup {TaskOf(w)} ELSE crossed
    /\ UNCHANGED <<Broker, redis, outcome, Ghosts>>

\* A second passes; no process is at work beyond the hard limit.
Tick ==
    /\ SomeExpiry(redis)
    /\ \A w \in Worker : AtWork(w) => elapsed[w] < HardLimit
    /\ redis' = Elapse(redis)
    /\ elapsed' = [w \in Worker |-> IF AtWork(w) THEN elapsed[w] + 1
                                                ELSE elapsed[w]]
    /\ since' = [k \in IdemKey |-> IF since[k] < Window THEN since[k] + 1
                                                        ELSE Window]
    /\ UNCHANGED <<Broker, pc, raised, result, outcome, fate, crossed>>

-----------------------------------------------------------------------------

\* Mutant: a state that is not listed is a failure.
get_task_statusElseFailed(t) ==
    CASE outcome[t] = "PENDING" -> "pending"
      [] outcome[t] = "SUCCESS" -> "success"
      [] outcome[t] = "REVOKED" -> "revoked"
      [] OTHER -> "failed"

\* What a client is answered who asks for the task's status, and for its
\* result.  Nobody has Celery report that a task is started.
get_task_status(t) ==
    CASE outcome[t] = "SUCCESS" -> "success"
      [] outcome[t] = "FAILURE" -> "failed"
      [] outcome[t] = "REVOKED" -> "revoked"
      [] OTHER -> "pending"

get_task_result(t) ==
    CASE outcome[t] = "PENDING" -> "pending"
      [] outcome[t] = "RETRY" -> "running"
      [] outcome[t] = "SUCCESS" -> "success"
      [] OTHER -> "failed"

-----------------------------------------------------------------------------

Wrapper(w) ==
    \/ Lock(w) \/ LockFails(w) \/ Duplicate(w)
    \/ GetCached(w) \/ GetCachedFails(w)
    \/ RunBody(w) \/ BodyRaises(w)
    \/ Save(w) \/ SaveFails(w) \/ Unlock(w) \/ UnlockFails(w)

Celery(w) ==
    \/ Retry(w) \/ Fail(w) \/ ReadOutcome(w) \/ StoreOutcome(w)
    \/ TimeLimit(w) \/ Ack(w)

Next ==
    \/ \E w \in Worker : \/ \E m \in Message : Deliver(w, m) \/ Discard(w, m)
                         \/ Wrapper(w) \/ Celery(w)
                         \/ Kill(w) \/ Disconnect(w) \/ Terminate(w)
    \/ \E t \in Task : Revoke(t)
    \/ Restart
    \/ Tick

Spec == Init /\ [][Next]_vars

-----------------------------------------------------------------------------
(***************************************************************************)
(* Properties.                                                             *)
(***************************************************************************)

\* Two processes are never in the bodies of tasks with the same key at the
\* same time, whatever is redelivered, retried, killed or fails: the lock
\* has no owner and duplicates in every mode, failed saves and failed
\* deletes must leave a lock alone that a running body relies on, and the
\* hard limit must stop the body before the lock's ttl does.
OneBodyPerKey ==
    \A v, w \in Worker :
      pc[v] \in Inside /\ pc[w] \in Inside /\ WorkKey(v) = WorkKey(w) => v = w

\* "Ensures a task with the same arguments is only executed once within the
\* TTL period": once a run has stored its result, no body is entered for the
\* key until Window seconds after that run took the lock.
NoRerunWithinWindow ==
    [][\A w \in Worker :
         pc[w] # "body" /\ pc'[w] = "body" /\ fate[WorkKey(w)] = "saved"
           => since[WorkKey(w)] = Window]_vars

\* A duplicate that finds the lock of a finished run finds its result too:
\* the result, stored later and for as long, outlives the lock.
ResultOutlivesLock ==
    \A k \in IdemKey : Locked(k) /\ fate[k] = "saved" => HasResult(k)

\* A retry is not its own duplicate: as long as no process was killed and no
\* connection lost, a task that is to be retried never meets the lock its own
\* earlier attempt took, however that attempt and its calls to Redis failed.
NoSelfSkip ==
    \A w \in Worker :
      /\ pc[w] = "lock" /\ Retries(w) > 0
      /\ losses = MaxLosses
      => Get(redis, LockKey(WorkKey(w))) # Processing(TaskOf(w))

\* No task is lost: until it has a verdict, a message of it is queued or is
\* worked on by a process that still owes the broker its ack, however often
\* it is redelivered, retried, stopped or revoked - unless the RETRY of an
\* attempt came after its own retry was taken up, or was never stored.
NoTaskLost ==
    \A t \in Task \ crossed :
      \/ outcome[t] \in {"SUCCESS", "FAILURE", "REVOKED"}
      \/ \E m \in Message : m[1] = t /\ ready[m] > 0
      \/ \E w \in Worker : attached[w] /\ pc[w] # "ack" /\ TaskOf(w) = t

\* A verdict that a client was given, by the one endpoint or the other, is
\* the last: an attempt that is to be retried, or whose result is not stored
\* yet, shows none.  (Once a delivery was lost, or a revoke asked for, a task
\* may be run again after its verdict.  And Celery reports RETRY after it has
\* published the retry, and looks for a SUCCESS before it writes: of a task
\* that had a retry cross its attempt's report even a success may change.)
Verdict == {"success", "failed", "revoked"}
VerdictIsFinal ==
    [][losses' = MaxLosses =>
         \A t \in Task \ crossed' :
           /\ get_task_status(t) \in Verdict =>
                get_task_status(t)' = get_task_status(t)
           /\ get_task_result(t) \in Verdict =>
                get_task_result(t)' = get_task_result(t)]_vars

\* "Worker crashes: task requeued to another worker" (CELERY_GUIDE.md:69),
\* not "lost": a delivery is skipped only in favour of a run of the same key
\* that has been completed or is still going on.
SkippedForARun ==
    [][\A w \in Worker :
         pc[w] = "lock" /\ pc'[w] = "report" =>
           \/ fate[WorkKey(w)] \in {"completed", "saved"}
           \/ \E v \in Worker : pc[v] \in Inside /\ WorkKey(v) = WorkKey(w)]_vars
=============================================================================
