# A verification of the scheduler, the task API and the idempotent workers

This directory holds TLA+ models of the program in `src/app`, the TLC
configurations that check them on small instances, and theorems about them that
TLAPS has checked for every instance. The models are translated from the code;
where a docstring or a guide says something else, that is noted as a
disagreement, not modelled.

## 1. The system

A FastAPI application takes jobs and tasks over HTTP. Jobs go to APScheduler,
which fires them by cron, interval or date; tasks go to Celery through
RabbitMQ. Redis holds idempotency records and locks and Celery's results,
PostgreSQL holds the application's tables and APScheduler's job store. Every
API process starts an APScheduler of its own (`main.py:21-33`), and
`docker-compose.dev.yml` starts a standalone one beside it; all share one job
store.

### 1.1 Components

| Component | State | Operations | Talks to |
|---|---|---|---|
| Immediate submission (`api/routes/tasks.py`) | none of its own | submit; status, result and revoke | idempotency service, broker, `task_executions` |
| Idempotency service (`core/idempotency/service.py`) | Redis: `idem:<key>` (result), `idem:lock:<key>` (lock) | acquire, get_result, set_result, release; extend_ttl, is_duplicate, delete | Redis |
| Idempotency keys (`core/idempotency/keys.py`) | none | generate_idempotency_key and four generators | - |
| Idempotent task decorator (`core/celery/idempotent.py`) | the same Redis names | wrapper around a task's body | Redis |
| Celery application and base task (`core/celery/app.py`, `tasks.py`) | queues, deliveries, results | late acknowledgement, requeue, retry, time limits | RabbitMQ, Redis |
| Scheduled dispatch (`execute_celery_task`) | Redis: a lock per job and minute | claim the minute, send | Redis, broker |
| Job endpoints and SchedulerService (`api/routes/scheduler.py`, `core/scheduler/service.py`) | `scheduled_jobs`, `apscheduler_jobs`, a gauge | create, delete, pause, resume, new trigger; list, read | job store, database |
| Distributed lock manager (`core/scheduler/distributed_lock.py`) | Redis: `scheduler:lock:<name>` | acquire, release, extend, lock() | Redis |
| Lifespan, dependencies, sessions | process-wide services | start, stop | all |
| Models, schemas, configuration | tables; limits; settings | - | - |
| Metrics, logging, health | counters | - | - |

### 1.2 How they interact

- A handler of the API is a coroutine: it keeps the process to itself between
  two awaits, and other requests run at every await. Several API processes
  interleave anywhere. The unit of atomicity in the models is therefore one
  call to Redis, the broker, the database or the job store.
- Redis executes one command, one script or one `MULTI` block at a time.
- The workers share nothing but the broker and Redis. A delivery that is not
  acknowledged comes back, also while its first process is still at work.
- The schedulers share the job store: each reads what is due, starts it in its
  own pool and writes back the next run time, without a lock between them.
- The routes keep a job twice, as a row and in the job store, and change the one
  and then the other without a transaction around both.
- A scheduler sleeps until the earliest next run time it knew when it set its
  timer, and only calls in its own process wake it before that.
- `submit_task` and the workers' wrapper use the same two Redis names for a key.
  A task that `submit_task` sends carries no key of its own, so its worker uses
  a hash of the call; but a scheduled job carries one (`service.py:90`), and a client may
  submit under it.

### 1.3 What is hard

Concurrency: check-then-act over two Redis calls (`tasks.py:44-64`), over a row
and the job store (`scheduler.py:206` and its like), over a job store that
several processes read and write back. Failure: any call may fail, and may have
had its effect although it fails; a process may die between any two calls; the
order of the calls in a handler decides what is left behind. Time: every lock
has a ttl that its holder may outlive; the minute that names a dispatch lock
changes while a run is on its way; a late run meets the next one's lock.
Redelivery: a message comes back to a worker that finds its own lock. Sharing:
locks without an owner that several parts of the program delete (`idem:lock:<key>`),
an owner id that several callers have (`distributed_lock.py:50`). PROJECT.json
lists each hazard at its line, with the properties that are aimed at it.

### 1.4 What makes each part correct

- Submission: one request at a time sends for a key; once a key is settled its
  duplicates get the first task's id until the record expires; an answer names a
  task that exists; a lock never outlives the request it belongs to, but for
  dead requests, and then it expires.
- Worker: one body at a time per key; none within the window after a run whose
  result is stored; the result is there as long as the lock that promises it;
  retries do not stumble over their own lock; a task without a verdict still has a
  message, revoked or not; a verdict that a client is shown is the last.
- Both together: a key is one lock to clients and workers, and clients do not open
  a worker's window.
- Keys: the same call in the same window gets the same key, others do not.
- Dispatch: a turn of a job is sent once, by whichever scheduler; it is turned
  away only in favour of itself; it is not lost because Redis is down.
- Jobs: row and job store agree whenever nothing is under way; what is deleted
  stays deleted; what can be seen is executed; somebody is awake for every job that
  has a next run time; the gauge counts.
- Lock manager: mutual exclusion for bodies within their lease; a late client
  does not touch another's lease; a wait ends.

## 2. The modules

| Module | Models | Lines |
|---|---|---|
| `Redis` | the commands the program uses, over entries with a ttl (external) | operators |
| `IdempotencyService` | the seven calls of the service on the two names of a key | operators over the variable `redis` |
| `TaskSubmit` | `submit_task` | one action per call, `...Fails` for its failure |
| `IdempotencyKeys` | key generation and the wrapper's choice of a key | pure operators |
| `IdempotentTask` | `idempotent_task`'s wrapper, with Celery and the broker around it | one action per Redis call and per Celery step |
| `SharedKeys` | `TaskSubmit` and `IdempotentTask` over one Redis | the two next-state relations side by side, one clock |
| `SchedulerDispatch` | `execute_celery_task` in several schedulers over one store | one job, time in seconds |
| `JobRoutes` | the five job endpoints that write, SchedulerService, and the schedulers' own writes | one action per await, and per call to the store where other processes can come between |
| `DistributedLock` | DistributedLockManager and `lock()` | one action per command or script |
| `Mutex` | what a lock promises | abstract specification |
| `..._proofs`, `Facts` | theorems and their lemmas | |
| `MC...` | instances for TLC | |

`TaskSubmit` and `IdempotentTask` both extend `IdempotencyService`, which extends
`Redis`; `SchedulerDispatch` and `DistributedLock` extend `Redis` directly.
`SharedKeys` extends `TaskSubmit` and instantiates `IdempotentTask` on the same
`redis`. `DistributedLock` implements `Mutex`, and so does each key of `SharedKeys`.
`MCIdempotentTask` takes the keys of its tasks from `IdempotencyKeys`.

### 2.1 How to read them against the code

**Redis.** A database is a function from names to entries `[val, ttl]`, where
`ttl` is what the `TTL` command answers. `Elapse` is a second passing.
`SetNxEx`, `SetEx`, `Del`, `Expire` are the commands; each model decides who
calls them when. `IdempotencyService` adds the service's operations on a key. No route
calls `is_duplicate`, `delete` and `extend_ttl`; they complete the interface and are
proved about. `extend_ttl` takes what its first command (`current_ttl`) was told, which
may be out of date by the second.

**TaskSubmit.** `pc[r]` is the await at which request `r` stands: `get_result`
(44), `acquire` (56), `send` (68), `commit` (86), `set_result` (90), `release`
(108). A call that raises inside the `try` leads to `release`
(`HandleFailure`), one outside of it to a bare 500 (`Unhandled`). The loser of
the `SET NX` is such a case: `acquire` counts a hit on a counter that needs a
label and raises before it can return False, so the branch that answers 409 or
the existing task is never reached, and is not in the model. A request stands
for the task it sends. `Faults` selects what may go wrong: a service failing
without effect, a reply lost after the effect, a crash, and requests that are
slower than their lock; without the last, time stops for a request's own lock only
(`HasOwnLock`), and a result that another key has stored under the lock's name expires when
its own ttl says. `rows` holds the `TaskExecution` of a request as `Record`
writes it. `before` and `forgotten` are history.

**IdempotentTask.** `pc[w]` is where pool process `w` is: in one of the
wrapper's Redis calls (`lock`, `cached`, `save`, `unlock`), in the `body`, left
by an exception (`raised`), reporting the outcome (`report`, `store`), or about to acknowledge
(`ack`). `ready[m]` counts the
copies of a message in the queue, `attached[w]` says whether the broker still
counts the delivery as the process's own. `Retry` and `Fail` are `autoretry_for`
with `max_retries`, and are two steps before the outcome is known: Celery publishes the retry first, and what is to be
reported (`result[w]`) then takes a `get`, as a SUCCESS is not overwritten (`ReadOutcome`), and a
`set` (`StoreOutcome`). The first delay of a retry may be 0 (`retry_jitter`), so it may be taken up
and end before its attempt has stored RETRY; `crossed` is the history of tasks to which that
happened, or whose attempt was stopped by the hard limit between the two. `Kill` and `Disconnect` are `task_reject_on_worker_lost` and
the broker's redelivery, `TimeLimit` is `task_time_limit`, which ends the process
without its handlers; the worker's main process then reports for it (`stopped`), as it does for revoked messages. `SaveFails` goes to `unlock` because the `SET` of the result is
inside the `try` whose handler deletes the lock; `LockFails` does not because
the `SET NX` is outside of it. `Revoke` is `revoke_task`: the worker
remembers the task and `Discard`s its messages, the first, a retry or a redelivery;
`Restart` is a worker that has forgotten it, since it is kept in memory. With `terminate`
the process gets a SIGTERM that no `except` sees, so its lock stays (`Terminate`).
`outcome[t]` is what the result backend has of a task, and `get_task_status` and
`get_task_result` are what the two endpoints make of it. `OnDuplicate[t]` is the set of
modes the task's decorator may have; the code has one per task, so a run that
allows several covers each of them. `since` and `fate` are history: the age of the
last lock on a key and how far the run that took it has come.

**SharedKeys.** A step is one of `submit_task`'s, one of the workers', or a second
for both. What is new is `GetWorkersResult`: a request that finds a worker's result has
no `task_id` to return and ends in a `KeyError`, or, if the result is false to Python,
goes on to acquire. The workers' caches need no such case: what they find there
they return, whosever it is.

**IdempotencyKeys.** A call is a task name, a sequence of arguments and a
function from keyword names to arguments; `JsonText` is what `json.dumps` with
`default=str` makes of an argument, which may be the same text for two of them.
A key is a sequence of colon-free pieces, so that `":".join` can be modelled by what
it does.

**SchedulerDispatch.** One job. `next` is its `next_run_time` in the shared
store; `Wake` reads it and submits the last due turn (`coalesce`), `Advance` writes
back the next one, whatever the store says by then. `Start` is the pool thread's
misfire check and its reading of the clock, `Claim` the `SET NX EX 55`, `Send`
the `send_task`. `claimant`, `trouble` are history: which turn took a lock, and what
befell a turn.

**JobRoutes.** `rows` is `scheduled_jobs`, `store` APScheduler's table (its `live`
is "has a next run time"), `gauge` each process's `scheduler_jobs_total`,
`held` the job a process has read and not written back yet, as it was read (`Read`), for its
scheduler or for a request, `timer` its
wake-up timer. `Fire`, `WriteBack` and `Sleep` are APScheduler's loop; `WriteBackFails` and
`LookFails` leave it by an exception before the timer is set, so the scheduler is
"stalled" until a request of its process wakes it. The loop goes round while the
timer is "set"; waiting for the time to come is not modelled, a job may be due at any
time. `Start`, `Shutdown` and `Crash` are the life of a process.
A request goes `load` - `apply` - `commit`. SchedulerService awaits nothing, so
within a process nothing comes between its methods' calls to the store, and they wait for a scheduler of
the same process that is firing (`Unlocked`), because APScheduler holds a lock then. Other processes
do not wait: firing a job, `pause_job` and `resume_job` read it (`Hold`) and then write the whole of it
back (`WriteOver`), trigger included, whatever another process has made of it since.
`RescheduleJob` reads too, but sets all that can have changed, so it is one step. Adding, pausing, resuming and rescheduling wake the process's scheduler (`Wake`),
removing does not. `RemoveJobFails`, `ReadJobFails` and
`WriteJobFails` are the `except Exception: return False` of
`remove_job`, `pause_job` and `resume_job`, after which the route goes on.
`finished`, `overruled` and `botched` are history: jobs that APScheduler removed for want of a next run
time; jobs whose trigger in the store gave way to one that had been read before it was set; and requests
whose store call failed in a way that the row or the timer does not show.

**DistributedLock.** `Acquire` and `Poll` are the two `SET NX EX` of `acquire`,
`Delete` and `Extend` its two scripts, which check the owner and act in one step. The
owner in Redis is `ManagerOf[c]`, a process-wide manager, not the client `c`. `taker` and
`bereft` are history: whose `SET` made the lease on file, and which clients between their
`SET` and their release have lost the lease they made, be it to time or to a peer's release.

### 2.2 What is abstracted

Task names, arguments, queues, priorities, countdowns and return values; the
text of answers, logs and metrics other than the job gauge and the counter that
raises; the JSON in Redis beyond who wrote it and which of its two kinds it
is; database sessions beyond what a commit does. A retry's back-off is "some time
later": a message waits in the queue as long as it likes.

## 3. The runs

Requests, tasks and time are finite, so a model stops when they are used up:
`CHECK_DEADLOCK` is FALSE in every run.

| Run | Question | Bounds | Distinct states |
|---|---|---|---|
| SubmitAnyFault | what holds whatever fails and however late: `SettledKeyIsNotResent`, `AnswersNameRealTasks`, `NoOrphanLock`, `LockEventuallyFreed` | 3 requests, 1 key, ttl 2, every fault | 195 391 |
| SubmitTimely | `AtMostOneProcessing`, `AnswersNameRealTasks` when failing calls do nothing and nobody is late | 3 requests, 2 keys that nest, ttl 1 or 2 | 402 242 |
| SubmitRace | violated: `ExactlyOnceSubmission` | 2 requests, no fault | - |
| SubmitLoser | violated: `LoserIsAnswered` | 2 requests, no fault | - |
| WorkerAnyFault | `OneBodyPerKey`, `NoRerunWithinWindow`, `ResultOutlivesLock`, `NoSelfSkip`, `VerdictIsFinal`, `NoTaskLost` | 2 tasks of one key, one of which may be retried (`Flaky`), 2 processes, 1 retry, window 2, limit 1, 1 loss or revoke; one task skips or returns the cached result, the other raises | 838 859 |
| WorkerCrash | violated: `SkippedForARun` | 1 task, 1 kill | - |
| SharedKeys | `KeyIsMutex`, `WindowSurvivesClients` | 2 requests and 1 task of one key, 2 processes, ttl 2, window 2, limit 1, no retry, 1 loss | 945 793 |
| DispatchAnyFault | `SkippedForItsOwnTurn`, `AtMostOncePerTurn`, `EveryTurnSent` | 2 schedulers, minute 4, lock 3, grace 2, period 6, 2 turns in 8 seconds | 1 409 837 |
| JobsAnyFault | `RowHasJob`, `DeletedIsGone`, `Awaited` | 2 overlapping requests, 2 processes, 2 jobs of one name, triggers with and without an end | 1 749 024 |
| JobsInTurn | `RowTellsStore`, `JobHasRow`, `GaugeCountsJobs` | 4 requests of every kind one after the other, 1 process, 2 jobs, 2 triggers | 92 559 |
| JobsConflict | violated: `JobHasRow` | 1 request, 2 jobs of one name | - |
| LockAnyFault | `IsMutex`, `OnlyTakerTouches`, `WaitEnds` | 3 clients, two of them of one manager, ttl 2, timeout 2, every fault | 62 825 |

Each passing run also checks its module's `TypeOK`, but for those that repeat a
module with other constants. Requests, processes and schedulers are
symmetric where a run says `SYMMETRY`; the runs with a liveness property say none,
as it is unsound for those.

### 3.1 Why the bounds are enough to be interesting

- Submission: a lost update of a key needs a holder, one that comes after it and
  one that meets what the first left behind: three requests. A ttl of 2 lets a lock
  age while it is held; with one key in the all-fault run every request
  competes.
  In SubmitTimely the second key's result has the name of the first one's lock, so that
  a result comes over a lock and expires under it. Two requests are then inside on the first key
  although neither is late; `AtMostOneProcessing` is stated of the keys whose lock nobody's result
  has the name of (`PlainLock`), and `AnswersNameRealTasks` of both.
- Worker: the hard limit (1) is shorter than the window (2), as 1800 s
  (`app.py:39`) is than the decorator's default of 3600 s; a body can therefore use its
  whole limit. One retry and one loss give up to four deliveries of a task. Kills,
  lost connections and revokes share the one loss: what two of them do that one
  does not is to redeliver a message more often. One task is flaky: its attempt, its retry that
  overtakes it and a task that shares its lock are three actors on two processes.
- Shared keys: a request whose lock a worker can meet, a second one that comes upon
  what the worker or the first left, and a process that the message comes back to
  while another runs it. Nobody is late, and a request's failing calls have no effect, as in SubmitTimely:
  either of which breaks the lock among clients alone.
- Dispatch: a minute of four seconds, a lock that ends before it (3 for 55),
  and a grace time that reaches into the next minute. The period is the
  shortest for which `SkippedForItsOwnTurn` is a theorem, so the two turns are as
  close as it allows. The horizon ends after the second turn's first second, in
  which the first turn's late runs and the second turn compete.
- Jobs: two requests, because every handler loads, applies and commits: a third
  one adds no new kind of overlap; two processes, so that the
  scheduler that fires, or sleeps, is not the one that handles.
- Locks: three clients, so that a late one meets a holder while another waits; two of
  them share a manager, so that the late one's release may take its peer's lease and let
  in the third.

### 3.2 Fairness

- `TaskSubmit`: time passes, and every handler that is ready gets on
  to its next await (an event loop starves none of its tasks; calls
  return or raise, as both Redis and database clients have timeouts). No
  fairness for clients' requests, for crashes or for any particular outcome.
- `IdempotentTask`: none. That every task ends in a verdict is not claimed: redelivery may go on for
  ever, and a RETRY stored late stays. `NoTaskLost` says instead that a task without a verdict has a
  message that the broker will deliver or is waiting for.
- `DistributedLock`: bodies end, calls return, time passes, and the `while` loop of
  a blocking acquire looks at its clock. Winning the lock is not fair: `WaitEnds`
  holds because of the timeout.

### 3.3 Mutants

For each property of a passing run PROJECT.json names a mutant: a definition next
to the original that differs from it as a slip in the code would (marked "Mutant:"
in the module). Under the run's own configuration the property is violated.

## 4. What is proved

The theorems hold for any number of requests, keys, processes, tasks and
schedulers and any lengths of time, under the named assumptions of each module.

**TaskSubmit_proofs.**
- `TypeCorrect`: `TypeOK`.
- `MutualExclusion`: `AtMostOneProcessing`, assuming `Timely` (no lost replies, no late
  requests). The inductive invariant says that the lock of each request at work exists and
  carries its name, if no key's result has that of the lock (`PlainLock`, a condition on the key
  at hand, in the property itself). `Timely` is needed for the invariant: a late
  request, or one whose `set_result` took effect but failed, deletes the lock
  of whoever holds it by then.
- `AnswersTrue`: `AnswersNameRealTasks`, with every fault. A request's
  task is sent and committed before its result can be stored.
- `LaterDuplicatesAnswered`: `SettledKeyIsNotResent`, with every fault, for
  `PlainKeys`. The invariant says that the result of an accepted request is on
  file until it is forgotten, and that a request which was submitted after an
  acceptance has not got past `get_result` unless the result had expired.
- `NoLockLeftBehind`: `NoOrphanLock`, with every fault.

**IdempotentTask_proofs.** `TypeCorrect`, `MutualExclusion` (`OneBodyPerKey`),
`CachedResult` (`ResultOutlivesLock`) and `WindowKept` (`NoRerunWithinWindow`), for
`PlainKeys`. The inductive invariant ties the age of a lock to its ttl (`LockAge`:
they add up to the window), says that whoever is inside took the lock no
longer ago than he has been at work (`InsideHolds`), and so, because the
hard limit is below the window, that his lock still exists; and that a saved
key's result has at least the lock's ttl (`SavedHasResult`).

`RetriesRun` (`NoSelfSkip`), `VerdictsAreFinal` (`VerdictIsFinal`) and `TasksAreKept` (`NoTaskLost`)
need neither `PlainKeys` nor anything about time.
- `RetriesRun`: until a delivery is lost or a revoke asked for, a task has one copy at most,
  waiting or in the wrapper (`OneCopy`), and a copy that has yet to take the lock, or is to be
  retried, does not find its own name in it (`NameIsGone`). The last is not inductive
  without the first, as a second copy could put the name there.
- `VerdictsAreFinal`: under the same condition, of a task that is not `crossed` one process at most
  has something left to report, and only the retry it has published and not reported may wait
  beside it; while either is so the outcome is no verdict (`OneReport`).
- `TasksAreKept`, with any number of losses: a process whose message ends has stored a verdict, or
  RETRY while the retry it published is still queued (`Published`), or the task is `crossed`.

**SchedulerDispatch_proofs.** `TypeCorrect`, and `NoTurnSwallowed`
(`SkippedForItsOwnTurn`), assuming `Period >= Minute + Grace`. The invariant says that
everything the store and the instances hold is on the schedule, and that a run
reads the clock within its grace time; two turns whose runs read the same
minute are then less than a period apart, hence one turn (`SameTurn`).
- `SentAtMostOnce`: `AtMostOncePerTurn`. A turn that is not noted as late is over `MaxLate`
  after its time (`Timely`). Until then every run of it reads one minute, and from the first
  claim on that minute's lock is there, as it lasts longer than `MaxLate` (`OnceInv`); so the
  turn's sends and the runs past their claim are one at most together.
- `TurnsSent`: `EveryTurnSent`, assuming `Period >= Minute + Grace` and `MaxLate <= Grace`.
  What the store or an instance has left behind is sent or has a run, and a turn whose lock is taken
  is sent or has a run past the lock (`SentInv`). Without the first
  assumption the lock of one turn stops the next; without the second a run that is not noted as
  late may be dropped as misfired.

**DistributedLock_proofs.** `TypeCorrect`; `OnlyOwnersTouch` (`OnlyTakerTouches`);
`MutualExclusion` (`IsMutex`: `DistributedLock` implements `Mutex`), each under every fault
and for managers shared in any way. The inductive invariant says that the lease
on file carries the id of its taker's manager (`LeaseOfTaker`), that a client between its `SET` and
its release is the taker unless it has lost its lease (`KeepersTook`), and that one that has lost it
is not the taker of the lease on file (`BereftLost`). At most one client is then in its
body with its lease kept, and each step is an enter, a leave or a stutter of `Mutex`
(`EnterStep`, `LossStep`, `NextStep`).

**JobRoutes_proofs.** Under every fault and every overlap: `TypeCorrect`,
`DeletedStaysGone` (`DeletedIsGone`), `RowsHaveJobs` (`RowHasJob`) and `JobsAwaited`
(`Awaited`). The inductive invariant is in four parts:
- `Bookkeeping`: types, what each request was given and has answered, that only a scheduler
  that is up fires (`FiringAwake`), and that a process holds a job for a request that is about
  to write it (`HeldFor`).
- `Lifecycle`: a job to be created belongs to its
  creator: no other request that names it has found it (`CreateIsFresh`), and nobody but
  APScheduler takes it away again (`CreateAdded`); a delete that is past the store has taken the
  job out of it, or is botched (`DeleteDone`). From these come `DeletedIsGone`, and that a row lacks
  its job only after a delete or a removal by APScheduler (`RowKept`).
- `Triggers`: for the second of these `RowHasJob` says which trigger the row shows, so the row and the store
  must agree about it. What a create or the only update_trigger on a job is about to commit is in the store,
  or was when APScheduler removed the job (`CreateTrigger`, `UpdateTrigger`), and what the row shows then
  is (`RowTrigger`), unless the store's trigger was overruled by an older reading. A removed
  job stays removed (`FinishedGone`), since its id is still in a row or a request (`Known`).
- `Awaited` is inductive beside them.

Three more hold in parts of the model that the code's own faults leave, each with an invariant
of its own beside that one:
- `JobsHaveRows` (`JobHasRow`), without faults and for different names (a taken name is
  *JobsConflict*): what is in the store has a row or a creator about to commit it (`RowPending`). Requests may
  overlap and processes be many, which the run does not allow.
- `GaugeIsRight` (`GaugeCountsJobs`), for one process, triggers that do not run out and no lost
  replies: requests may overlap, calls fail and the process be restarted, which the run does not
  allow either. Each excluded case breaks it: other processes' jobs, a job's last run and a
  removal whose answer is lost are not counted.
- `RowsTellTheStore` (`RowTellsStore`), for requests one at a time to one process, no
  faults and triggers that do not run out (`InTurn`), all of which it needs: two overlapping handlers, or another
  process's scheduler that writes back what it read, leave row and store apart. Between a request's two writes its own knowledge
  bridges the gap (`Written`), and a job that is held is as it was read (`HeldAsRead`).

**SharedKeys_proofs.** For the composition, any number of requests, tasks and processes and
any retries, with every fault of the workers (lost replies too), `Timely` and `PlainKeys`:
- `KeyExclusive` (`KeyIsMutex`): each key implements `Mutex` for requests and
  processes together.
- `ClientsKeepWindow` (`WindowSurvivesClients`).

The invariants of the parts do not hold side by side as they are: the age of a lock is known
only where a worker took it (`WorkLockAge`), as requests ask for ttls of their own, and
that a lock exists does not say whose it is. So the invariant is about names: a request at work has
its own in the lock (`HolderHasLock`), a process in the body its task's (`MineHolds`), and no
request is named like a task. Two processes may have the same task, redelivered, and are told apart by
the lock's having been free when the second took it (`OneWorker`). The lock of a run that is saved keeps a
task's name for the window (`SavedKeepsName`): every request deletes its own name only
(`SubmitSpares`). Each step of the wrapper is quiet on Redis' locks, takes one, goes on with it or
gives it up (`WrapperKinds`), and the proof has one lemma for each kind.

**Idempotency_proofs.** Of the keys, `WindowTellsApart`: window keys are equal exactly for calls
of the same text in the same window; `WindowKeyIsShortLived`, `AtMostTwoKeysInAWindow`:
calls that share a key are less than the window apart, and calls within a window's
length share at most two; `TaskKeyIsTimeless`. Of the service's operations that no route
calls, `DeleteForgets`
(nothing of the key is left, and with `PlainKeys` nothing of another), `DuplicateIffNotAcquirable` (`is_duplicate`
agrees with what `submit_task` decides by two calls), `ExtendTtlMovesOneExpiry` (whatever came
between its two commands, `extend_ttl` changes one expiry and nothing else; with `PlainKeys` that is no lock's), `ExtendTtlAdds` (and
adds the seconds when nothing came between).

`TaskSubmit` and `IdempotentTask` ask only that their requests and tasks be among the `Owner`s
of records, so the theorems about their operators hold beside other users of the store.
The theorems about their specifications are about each of them alone; those of
`SharedKeys_proofs` are about both at once.

`Facts` and the rest of `Idempotency_proofs` hold the lemmas: what each
command does to the entry it names and to the others, that the two names of a
key differ, division with remainder.

What the proofs assume of the constants is in the modules: sentinels that are no values
(`Nil`, `None`), a lock that ends before its minute, a hard limit below the window, a finite set of
jobs (whose number the gauge is), at least one process, and, in `SharedKeys`, requests
that are no tasks (each stands for a task id, and Celery makes those unique).

Only model-checked: the liveness properties `LockEventuallyFreed` and `WaitEnds`, as the
prover has no fairness. Every safety and action property that a passing run checks is a theorem.

## 5. Disagreements

Found by a run:

- *SubmitLoser* (bug): `service.py:79` increments a counter that has a label
  without giving it one; the loser of the lock gets a bare 500, the 409 of
  `tasks.py:60-64` is unreachable, and `tests/unit/test_idempotency.py:95` expects
  False.
- *SubmitRace*: a request that looks for a result before another stores it and
  takes the lock after that one has dropped it sends a second task. "Exactly-once"
  (`tasks.py:39`) needs a second look after the lock.
- *WorkerCrash*: a killed worker's lock makes the redelivered task look like a
  duplicate of itself; it is skipped and acknowledged.
- *JobsConflict* (bug): a create that ends in 409 leaves its job in the scheduler.

Seen while modelling, not kept as runs (where one bears on a property, the condition
that excludes it is named):

- The commit fails after `send_task`: the client is told "Failed to submit task" for
  a task that was sent (`tasks.py:105-112`).
- `lock:x` as a key has its result under the name of `x`'s lock, so a request on `x`
  deletes it (`PlainKeys`). A result that `lock:x` stores over `x`'s lock expires by its own ttl, and then a third request gets
  in beside the one on `x` although both are quick (`PlainLock` in `AtMostOneProcessing`).
- A retry may be run and reported before its attempt has stored RETRY: the status goes from "failed", or even
  "success", back to "pending" and stays there (`crossed`).
- An `update_trigger` that is answered 200 may be undone by another process that read the job before and
  writes it back after: the old trigger comes back, or, if it has run out, the job is removed and its row
  shows a trigger that nothing executes. Two overlapping ones may leave the row with the one trigger and the
  store with the other (`overruled` and `Contended` in `RowHasJob`).
- A body that is done and whose result cannot be stored gives its lock back, and a
  duplicate runs it again (`fate = "saved"` in `NoRerunWithinWindow`).
- The hard time limit leaves a failed task's lock in place, although
  `idempotent.py:117` says "Release lock on failure to allow retry".
- A turn in the last second of a minute can be sent twice, by schedulers that read the
  clock on either side of it (`MinuteOf(t + MaxLate) = MinuteOf(t)`). With
  more than one turn a minute all but the first are dropped, against
  `docs/SYSTEM_FLOW.md:363` (`Period` in the run). An instance that dies between
  claim and send loses the turn for all (`trouble`).
- `update_trigger` gives a paused job a next run time and leaves its row PAUSED, against
  `scheduler.py:186` "The job will not execute until resumed" (the last conjunct of `RowTellsStore`); so does a
  scheduler of another process that read the job before the pause and writes it back
  after it (one process in JobsInTurn).
- A process whose scheduler has no timer is not told of jobs that other processes add or resume: when
  the only process that is awake ends, nobody fires them until the next call (`Awaited` allows
  a process that is down or stalled). `service.py:121` says "automatic failover".
- A job store that fails in `remove_job` goes unnoticed, and the route
  answers 204 (`botched`); the gauge does not notice jobs that end by themselves
  (`finished`).
- A client that submits under the key of a scheduled task may find the worker's return value for a
  result, and gets a 500 for the `KeyError` (`GetWorkersResult`); a worker that finds the key locked by
  a request skips its run; its `return_cached` may return the API's record.
- A job with an `idempotency_key` is run once in the decorator's window, not once a turn, and
  its `idempotency_ttl` is not looked at.
- `create_job` does not store a job's `queue`, `idempotency_ttl` and `misfire_grace_time`, and the
  `next_run_time` of a row is never brought up to date.
- "running" is never a task's status, as nobody has Celery track the start of tasks
  (`get_task_status`); a task that waits for its retry is "pending" to the one endpoint and
  "running" to the other, and a revoked one "revoked" and "failed". A finished task is "pending"
  again when its result has expired. After a redelivery a verdict may change (`losses` in `VerdictIsFinal`).
- A terminated run leaves its lock, as a killed one does; a revoke is forgotten by a worker that
  is restarted.
- `extend_ttl` answers True although the record has expired since its first command.

## 6. What is not modelled

Listing and reading of jobs, health checks, `is_locked` and `is_owner`: they
read and answer. Configuration, logging, metrics but for the gauge and the counter that raises,
migrations, containers. `IdempotencyRecord`
(never written), the status of a `TaskExecution` (never updated),
`cleanup_idempotency_keys` (does nothing), per-job `max_instances` and `coalesce`
(stored, never passed on). The example tasks' bodies: one step that returns or raises.
Result expiry in Celery's backend, and celery's remote control losing a revoke: `Revoke` reaches the
worker at once.

`SharedKeys` leaves out revokes and its run leaves out retries, which add no step on Redis that the run has not
got already, and late requests, for which neither side's locks hold. `JobRoutes` and
`SchedulerDispatch` are not composed: the one asks which jobs are fired at all and by whom,
the other when and how often one of them is; what they share, the write-back of the next
run time, is in both.

## 7. Plan

Done: the core modules above, in the order in which a task travels (submission,
worker, dispatch), then jobs and locks; revokes and the endpoints that show a task's
outcome; the whole idempotency service; the schedulers' timers; submission and
worker over one Redis; managers that several clients share.

The safety properties of every module, and of the composition, are proved. Next: the same
theorem of the composition with revokes, and under which ttls late requests still leave the
workers' window alone.
