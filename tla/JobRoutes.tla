------------------------------ MODULE JobRoutes ------------------------------
(***************************************************************************)
(* The job endpoints of app/api/routes/scheduler.py.  A job is kept twice: *)
(* as a row of scheduled_jobs, which clients read, and in APScheduler's    *)
(* job store, which decides what is executed.  A handler loads the row,    *)
(* then changes the store through SchedulerService, then commits the row;  *)
(* nothing ties the two together, and other handlers, and the schedulers   *)
(* of other processes, act in between.                                     *)
(*                                                                         *)
(* A request is used once.  SchedulerService's methods await nothing, so   *)
(* within a process nothing comes between their calls to the store; other  *)
(* processes do: pausing or resuming a job reads it and then writes the    *)
(* whole of it back.  What APScheduler does with the store when it is      *)
(* woken is external: it fires what is due and writes it back in the same  *)
(* way, then sets a timer for the earliest next run time in the store.     *)
(* Only calls in its own process wake it, so a process without a timer     *)
(* does not learn of jobs that others add.                                 *)
(***************************************************************************)
EXTENDS Integers, FiniteSets

CONSTANTS Job,          \* job ids; the client's data picks an unused one
          NameOf,       \* the name a job is to be created under
          Trigger,
          Finite,       \* triggers that run out: dates, end dates
          Request,
          Process,      \* processes with a scheduler: API, standalone
          Ops,          \* which endpoints clients use, see AllOps
          Existing,     \* jobs that were created before
          OneAtATime,   \* whether clients wait for each other
          Faults,       \* kinds of faults, see AllFaults
          None

AllOps == {"create", "delete", "pause", "resume", "trigger"}

(***************************************************************************)
(*  database, store   a call to the one or the other fails, to no effect   *)
(*  lost_reply        a call fails, its effect has happened                *)
(*  crash             a process dies and is started again                  *)
(***************************************************************************)
AllFaults == {"database", "store", "lost_reply", "crash"}

ASSUME JobAssumption ==
    /\ IsFiniteSet(Job) /\ Existing \subseteq Job
    /\ \A i, j \in Existing : NameOf[i] = NameOf[j] => i = j
    /\ Finite \subseteq Trigger
    /\ Process # {} /\ OneAtATime \in BOOLEAN
    /\ Ops \subseteq AllOps /\ Faults \subseteq AllFaults

VARIABLES rows,         \* scheduled_jobs: status and trigger, or None
          store,        \* apscheduler_jobs: trigger, and whether it has a
                        \* next run time, or None
          gauge,        \* each process: scheduler_jobs_total
          held,         \* each process: the job it has read from the store
                        \* and is to write back, as it was read, and the
                        \* request this is for, None for its scheduler; or
                        \* None
          timer,        \* each process: its scheduler is to be woken ("set"),
                        \* sleeps as there was no job to wait for ("idle"),
                        \* has lost its timer by an error ("stalled"), or
                        \* does not run ("down")
          pc, op, job,  \* each request: where it is, endpoint, job id
          arg,          \* ... the trigger in its body, if it has one
          at,           \* ... the process that handles it
          reply,        \* ... the status code
          finished,     \* history: jobs APScheduler removed for want of a
                        \* next run time
          overruled,    \* history: jobs whose trigger in the store gave way
                        \* to one that had been read before it was set
          botched       \* history: requests whose store call failed: any
                        \* delete, another one when it had its effect

vars == <<rows, store, gauge, held, timer, pc, op, job, arg, at, reply,
          finished, overruled, botched>>

Row == [status : {"ACTIVE", "PAUSED"}, trigger : Trigger]
Entry == [live : BOOLEAN, trigger : Trigger]
Read == [job : Job, trigger : Trigger, by : Request \cup {None}]
Code == {0, 200, 201, 204, 400, 404, 409, 500}

ASSUME NoneAssumption == None \notin Row \cup Entry \cup Read \cup Request

TypeOK ==
    /\ rows \in [Job -> Row \cup {None}]
    /\ store \in [Job -> Entry \cup {None}]
    /\ gauge \in [Process -> Int]
    /\ held \in [Process -> Read \cup {None}]
    /\ timer \in [Process -> {"set", "idle", "stalled", "down"}]
    /\ pc \in [Request -> {"idle", "load", "apply", "commit", "done", "crashed"}]
    /\ op \in [Request -> AllOps \cup {None}]
    /\ job \in [Request -> Job \cup {None}]
    /\ arg \in [Request -> Trigger \cup {None}]
    /\ at \in [Request -> Process \cup {None}]
    /\ reply \in [Request -> Code]
    /\ finished \subseteq Job /\ overruled \subseteq Job
    /\ botched \subseteq Request

Created(t) == [status |-> "ACTIVE", trigger |-> t]
Scheduled(t) == [live |-> TRUE, trigger |-> t]
Jobs == {j \in Job : store[j] # None}
Live(j) == store[j] # None /\ store[j].live

Init ==
    /\ \E t \in Trigger :
         /\ rows = [j \in Job |-> IF j \in Existing THEN Created(t) ELSE None]
         /\ store = [j \in Job |-> IF j \in Existing THEN Scheduled(t) ELSE None]
    /\ gauge = [p \in Process |-> Cardinality(Existing)]
    /\ held = [p \in Process |-> None]
    /\ timer = [p \in Process |-> "set"]
    /\ pc = [r \in Request |-> "idle"]
    /\ op = [r \in Request |-> None]
    /\ job = [r \in Request |-> None]
    /\ arg = [r \in Request |-> None]
    /\ at = [r \in Request |-> None]
    /\ reply = [r \in Request |-> 0]
    /\ finished = {} /\ overruled = {} /\ botched = {}

AtWork(r) == pc[r] \in {"load", "apply", "commit"}

Goto(r, place) == pc' = [pc EXCEPT ![r] = place] /\ UNCHANGED reply
Respond(r, code) ==
    /\ pc' = [pc EXCEPT ![r] = "done"]
    /\ reply' = [reply EXCEPT ![r] = code]

Body == <<op, job, arg, at>>
Loops == <<held, timer>>
Ghosts == <<finished, overruled, botched>>

FailsAs(service, effect, none) ==
    \/ service \in Faults /\ none
    \/ "lost_reply" \in Faults /\ effect

\* APScheduler's lock on its stores, which it holds from reading a job to
\* writing it.
Unlocked(p) == held[p] = None
Hold(p, j, by) ==
    held' = [held EXCEPT ![p] = [job |-> j, trigger |-> store[j].trigger, by |-> by]]
LetGo(p) == held' = [held EXCEPT ![p] = None]

-----------------------------------------------------------------------------

\* A request comes in.  The id of a job to be created is a fresh UUID.
Receive(r, o, j, t, p) ==
    /\ pc[r] = "idle" /\ o \in Ops /\ timer[p] # "down"
    /\ OneAtATime => \A s \in Request : ~AtWork(s)
    /\ o = "create" =>
         /\ rows[j] = None /\ store[j] = None
         /\ \A s \in Request : job[s] # j
    /\ op' = [op EXCEPT ![r] = o]
    /\ job' = [job EXCEPT ![r] = j]
    /\ arg' = [arg EXCEPT ![r] = IF o \in {"create", "trigger"} THEN t ELSE None]
    /\ at' = [at EXCEPT ![r] = p]
    /\ Goto(r, IF o = "create" THEN "apply" ELSE "load")
    /\ UNCHANGED <<rows, store, gauge, Loops, Ghosts>>

\* select(ScheduledJob), and the checks on what it finds.
Load(r) ==
    /\ pc[r] = "load"
    /\ LET row == rows[job[r]] IN
         \/ row = None /\ Respond(r, 404)
         \/ /\ row # None
            /\ \/ op[r] = "pause" /\ row.status = "PAUSED"
               \/ op[r] = "resume" /\ row.status # "PAUSED"
            /\ Respond(r, 400)
         \/ /\ row # None
            /\ op[r] = "pause" => row.status # "PAUSED"
            /\ op[r] = "resume" => row.status = "PAUSED"
            /\ Goto(r, "apply")
    /\ UNCHANGED <<rows, store, gauge, Loops, Body, Ghosts>>

LoadFails(r) ==
    /\ pc[r] = "load" /\ Faults \cap {"database", "lost_reply"} # {}
    /\ Respond(r, 500)
    /\ UNCHANGED <<rows, store, gauge, Loops, Body, Ghosts>>

-----------------------------------------------------------------------------
(***************************************************************************)
(* SchedulerService's methods, as steps of the request's handler.          *)
(***************************************************************************)

At(r, o) == pc[r] = "apply" /\ op[r] = o /\ Unlocked(at[r])

SetJob(j, entry) == store' = [store EXCEPT ![j] = entry]

\* wakeup(), by which adding or modifying a job ends in APScheduler; removing
\* one does not.
Wake(r) == timer' = [timer EXCEPT ![at[r]] = "set"]

\* The job that p holds is written over what the store has of it by now.
WriteOver(p, entry) ==
    LET j == held[p].job IN
    /\ SetJob(j, entry)
    /\ overruled' = IF store[j].trigger = held[p].trigger THEN overruled
                    ELSE overruled \cup {j}

\* With its trigger's next run time; without one APScheduler removes it.
WrittenBack(p) ==
    LET j == held[p].job
        t == held[p].trigger
    IN  /\ store[j] # None
        /\ \/ WriteOver(p, Scheduled(t)) /\ UNCHANGED finished
           \/ t \in Finite /\ WriteOver(p, None) /\ finished' = finished \cup {j}

\* Without a next run time.
WrittenPaused(p) ==
    /\ store[held[p].job] # None
    /\ WriteOver(p, [live |-> FALSE, trigger |-> held[p].trigger])
    /\ UNCHANGED finished

\* The job gets the trigger in the request and the trigger's next run time,
\* which is None when the trigger has run out.
Schedule(r) ==
    \E next \in BOOLEAN :
      /\ ~next => arg[r] \in Finite
      /\ SetJob(job[r], [live |-> next, trigger |-> arg[r]])

Botch(r) == botched' = botched \cup {r}

\* add_job
AddJob(r) ==
    /\ At(r, "create")
    /\ Schedule(r) /\ Wake(r)
    /\ gauge' = [gauge EXCEPT ![at[r]] = @ + 1]
    /\ Goto(r, "commit")
    /\ UNCHANGED <<rows, held, Body, Ghosts>>

\* Mutant: the gauge goes up before the job is added.
AddJobFailsCounted(r) ==
    /\ At(r, "create")
    /\ UNCHANGED store
    /\ gauge' = [gauge EXCEPT ![at[r]] = @ + 1]
    /\ Respond(r, 500)
    /\ UNCHANGED <<rows, Loops, Body, Ghosts>>

\* The trigger's configuration is no good, or the store fails.
AddJobFails(r) ==
    /\ At(r, "create")
    /\ \/ UNCHANGED <<store, botched>>
       \/ "lost_reply" \in Faults /\ Schedule(r) /\ Botch(r)
    /\ Respond(r, 500)
    /\ UNCHANGED <<rows, gauge, Loops, Body, finished, overruled>>

\* Mutant: the job is only paused.
RemoveJobPauses(r) ==
    /\ At(r, "delete") /\ store[job[r]] # None
    /\ store' = [store EXCEPT ![job[r]].live = FALSE]
    /\ gauge' = [gauge EXCEPT ![at[r]] = @ - 1]
    /\ Goto(r, "commit")
    /\ UNCHANGED <<rows, Loops, Body, Ghosts>>

\* remove_job
RemoveJob(r) ==
    /\ At(r, "delete") /\ store[job[r]] # None
    /\ SetJob(job[r], None)
    /\ gauge' = [gauge EXCEPT ![at[r]] = @ - 1]
    /\ Goto(r, "commit")
    /\ UNCHANGED <<rows, Loops, Body, Ghosts>>

\* pause_job and resume_job read the job.  (resume_job reads it twice; from
\* the first reading it takes only that there is a next run time.)
ReadJob(r) ==
    /\ op[r] \in {"pause", "resume"} /\ At(r, op[r])
    /\ store[job[r]] # None
    /\ Hold(at[r], job[r], r)
    /\ UNCHANGED <<rows, store, gauge, timer, pc, reply, Body, Ghosts>>

HasRead(r) == pc[r] = "apply" /\ held[at[r]] # None /\ held[at[r]].by = r

\* Mutant: the job is not changed, and nobody looks at what pause_job returns.
PauseJobSkips(r) ==
    /\ HasRead(r) /\ op[r] = "pause"
    /\ LetGo(at[r])
    /\ Goto(r, "commit")
    /\ UNCHANGED <<rows, store, gauge, timer, Body, Ghosts>>

\* pause_job
PauseJob(r) ==
    /\ HasRead(r) /\ op[r] = "pause"
    /\ WrittenPaused(at[r]) /\ LetGo(at[r]) /\ Wake(r)
    /\ Goto(r, "commit")
    /\ UNCHANGED <<rows, gauge, Body, botched>>

\* Mutant: a finished trigger is not told from one that has a next run.
ResumeJobRemoves(r) ==
    /\ HasRead(r) /\ op[r] = "resume"
    /\ SetJob(job[r], None) /\ LetGo(at[r])
    /\ Goto(r, "commit")
    /\ UNCHANGED <<rows, gauge, timer, Body, Ghosts>>

\* Mutant: the job is made live in the store, and nobody is told.
ResumeJobSleeps(r) ==
    /\ HasRead(r) /\ op[r] = "resume"
    /\ WrittenBack(at[r]) /\ LetGo(at[r])
    /\ Goto(r, "commit")
    /\ UNCHANGED <<rows, gauge, timer, Body, botched>>

\* resume_job
ResumeJob(r) ==
    /\ HasRead(r) /\ op[r] = "resume"
    /\ WrittenBack(at[r]) /\ LetGo(at[r])
    /\ IF store'[job[r]] = None THEN UNCHANGED timer ELSE Wake(r)
    /\ Goto(r, "commit")
    /\ UNCHANGED <<rows, gauge, Body, botched>>

(***************************************************************************)
(* remove_job, pause_job and resume_job swallow every exception,           *)
(* JobLookupError included, and return False; the routes go on without     *)
(* looking.                                                                *)
(***************************************************************************)

RemoveJobFails(r) ==
    /\ At(r, "delete")
    /\ \/ store[job[r]] = None /\ UNCHANGED <<store, botched>>
       \/ FailsAs("store", SetJob(job[r], None), UNCHANGED store) /\ Botch(r)
    /\ Goto(r, "commit")
    /\ UNCHANGED <<rows, gauge, Loops, Body, finished, overruled>>

ReadJobFails(r) ==
    /\ op[r] \in {"pause", "resume"} /\ At(r, op[r])
    /\ store[job[r]] = None \/ Faults \cap {"store", "lost_reply"} # {}
    /\ Goto(r, "commit")
    /\ UNCHANGED <<rows, store, gauge, Loops, Body, Ghosts>>

\* A call that had its effect wakes nobody.
WriteJobFails(r) ==
    /\ HasRead(r)
    /\ \/ /\ store[job[r]] = None \/ "store" \in Faults
          /\ UNCHANGED <<store, Ghosts>>
       \/ /\ "lost_reply" \in Faults /\ Botch(r)
          /\ \/ op[r] = "pause" /\ WrittenPaused(at[r])
             \/ op[r] = "resume" /\ WrittenBack(at[r])
    /\ LetGo(at[r])
    /\ Goto(r, "commit")
    /\ UNCHANGED <<rows, gauge, timer, Body>>

\* reschedule_job: a paused job gets a next run time too.  The job is read
\* here as well, but all that may have changed since is written anew.
RescheduleJob(r) ==
    /\ At(r, "trigger") /\ store[job[r]] # None
    /\ Schedule(r) /\ Wake(r)
    /\ Goto(r, "commit")
    /\ UNCHANGED <<rows, gauge, held, Body, Ghosts>>

\* A trigger that is no good, JobLookupError, or the store fails.
RescheduleJobFails(r) ==
    /\ At(r, "trigger")
    /\ \/ UNCHANGED <<store, botched>>
       \/ /\ "lost_reply" \in Faults /\ store[job[r]] # None
          /\ Schedule(r) /\ Botch(r)
    /\ Respond(r, 500)
    /\ UNCHANGED <<rows, gauge, Loops, Body, finished, overruled>>

-----------------------------------------------------------------------------
(***************************************************************************)
(* The last part of the handlers: the row.  The refresh after the commit   *)
(* only reads, and its failure is a lost reply.                            *)
(***************************************************************************)

\* name is unique.
NameTaken(j) == \E i \in Job : rows[i] # None /\ NameOf[i] = NameOf[j]

InsertRow(r) == rows' = [rows EXCEPT ![job[r]] = Created(arg[r])]

CommitCreate(r) ==
    /\ pc[r] = "commit" /\ op[r] = "create"
    /\ \/ NameTaken(job[r]) /\ UNCHANGED rows /\ Respond(r, 409)
       \/ ~NameTaken(job[r]) /\ InsertRow(r) /\ Respond(r, 201)
    /\ UNCHANGED <<store, gauge, Loops, Body, Ghosts>>

\* A DELETE that matches no row passes.
DeleteRow(r) == rows' = [rows EXCEPT ![job[r]] = None]

CommitDelete(r) ==
    /\ pc[r] = "commit" /\ op[r] = "delete"
    /\ DeleteRow(r)
    /\ Respond(r, 204)
    /\ UNCHANGED <<store, gauge, Loops, Body, Ghosts>>

\* Mutant: the trigger is assigned to the wrong column.
UpdateRowSwapped(r) ==
    rows' = CASE op[r] = "pause" -> [rows EXCEPT ![job[r]].status = "PAUSED"]
              [] op[r] = "resume" -> [rows EXCEPT ![job[r]].status = "ACTIVE"]
              [] OTHER -> [rows EXCEPT ![job[r]].status = arg[r]]

\* Only the columns that the handler changed.
UpdateRow(r) ==
    rows' = CASE op[r] = "pause" -> [rows EXCEPT ![job[r]].status = "PAUSED"]
              [] op[r] = "resume" -> [rows EXCEPT ![job[r]].status = "ACTIVE"]
              [] OTHER -> [rows EXCEPT ![job[r]].trigger = arg[r]]

\* An UPDATE that matches no row is a StaleDataError.
CommitUpdate(r) ==
    /\ pc[r] = "commit" /\ op[r] \in {"pause", "resume", "trigger"}
    /\ \/ rows[job[r]] = None /\ UNCHANGED rows /\ Respond(r, 500)
       \/ rows[job[r]] # None /\ UpdateRow(r) /\ Respond(r, 200)
    /\ UNCHANGED <<store, gauge, Loops, Body, Ghosts>>

Committed(r) ==
    \/ op[r] = "create" /\ ~NameTaken(job[r]) /\ InsertRow(r)
    \/ op[r] = "delete" /\ DeleteRow(r)
    \/ op[r] \in {"pause", "resume", "trigger"} /\ rows[job[r]] # None /\ UpdateRow(r)

\* The row stays as it was; what was done to the store stays done.
CommitFails(r) ==
    /\ pc[r] = "commit"
    /\ FailsAs("database", Committed(r), UNCHANGED rows)
    /\ Respond(r, 500)
    /\ UNCHANGED <<store, gauge, Loops, Body, Ghosts>>

-----------------------------------------------------------------------------
(***************************************************************************)
(* The schedulers.  One that is woken fires what is due, job by job, and   *)
(* is woken again by its timer, if it gets as far as setting one.          *)
(***************************************************************************)

Waking(p) == timer[p] = "set" /\ Unlocked(p)
Stall(p) == timer' = [timer EXCEPT ![p] = "stalled"]

\* A due job is read from the store and submitted.
Fire(p, j) ==
    /\ Waking(p) /\ Live(j)
    /\ Hold(p, j, None)
    /\ UNCHANGED <<rows, store, gauge, timer, pc, reply, Body, Ghosts>>

Fired(p) == held[p] # None /\ held[p].by = None

\* Its whole state is written back with the next run time, or it is removed
\* when there is none.
WriteBack(p) ==
    /\ Fired(p)
    /\ WrittenBack(p) /\ LetGo(p)
    /\ UNCHANGED <<rows, gauge, timer, pc, reply, Body, botched>>

\* The job is gone from the store, or the store fails: the exception leaves
\* APScheduler's loop before it sets a timer.
WriteBackFails(p) ==
    /\ Fired(p)
    /\ \/ store[held[p].job] = None /\ UNCHANGED <<store, finished, overruled>>
       \/ FailsAs("store", WrittenBack(p), UNCHANGED <<store, finished, overruled>>)
    /\ LetGo(p) /\ Stall(p)
    /\ UNCHANGED <<rows, gauge, pc, reply, Body, botched>>

\* No job has a next run time, so there is nothing to set a timer for.
Sleep(p) ==
    /\ Waking(p) /\ \A j \in Job : ~Live(j)
    /\ timer' = [timer EXCEPT ![p] = "idle"]
    /\ UNCHANGED <<rows, store, gauge, held, pc, reply, Body, Ghosts>>

\* So does a failure to ask for the earliest next run time.
LookFails(p) ==
    /\ Waking(p) /\ Faults \cap {"store", "lost_reply"} # {}
    /\ Stall(p)
    /\ UNCHANGED <<rows, store, gauge, held, pc, reply, Body, Ghosts>>

-----------------------------------------------------------------------------
(***************************************************************************)
(* The processes.                                                          *)
(***************************************************************************)

Down(p) ==
    /\ LetGo(p)
    /\ timer' = [timer EXCEPT ![p] = "down"]

\* A process dies; its requests are not answered.
Crash(p) ==
    /\ "crash" \in Faults /\ timer[p] # "down"
    /\ Down(p)
    /\ pc' = [r \in Request |-> IF at[r] = p /\ AtWork(r) THEN "crashed" ELSE pc[r]]
    /\ UNCHANGED <<rows, store, gauge, reply, Body, Ghosts>>

\* The application shuts down when its requests are done.
Shutdown(p) ==
    /\ timer[p] # "down" /\ Unlocked(p)
    /\ \A r \in Request : at[r] = p => ~AtWork(r)
    /\ Down(p)
    /\ UNCHANGED <<rows, store, gauge, pc, reply, Body, Ghosts>>

\* start() wakes the scheduler and counts the jobs.  When it fails the
\* process ends.
Start(p) ==
    /\ timer[p] = "down"
    /\ timer' = [timer EXCEPT ![p] = "set"]
    /\ gauge' = [gauge EXCEPT ![p] = Cardinality(Jobs)]
    /\ UNCHANGED <<rows, store, held, pc, reply, Body, Ghosts>>

-----------------------------------------------------------------------------

Handle(r) ==
    \/ Load(r) \/ LoadFails(r)
    \/ AddJob(r) \/ AddJobFails(r) \/ RemoveJob(r) \/ RemoveJobFails(r)
    \/ ReadJob(r) \/ PauseJob(r) \/ ResumeJob(r) \/ ReadJobFails(r) \/ WriteJobFails(r)
    \/ RescheduleJob(r) \/ RescheduleJobFails(r)
    \/ CommitCreate(r) \/ CommitDelete(r) \/ CommitUpdate(r) \/ CommitFails(r)

Next ==
    \/ \E r \in Request, o \in Ops, j \in Job, t \in Trigger, p \in Process :
         Receive(r, o, j, t, p)
    \/ \E r \in Request : Handle(r)
    \/ \E p \in Process :
         \/ \E j \in Job : Fire(p, j)
         \/ WriteBack(p) \/ WriteBackFails(p) \/ Sleep(p) \/ LookFails(p)
         \/ Crash(p) \/ Shutdown(p) \/ Start(p)

Spec == Init /\ [][Next]_vars

-----------------------------------------------------------------------------
(***************************************************************************)
(* Properties.                                                             *)
(***************************************************************************)

\* Nothing is under way that concerns the job.
Quiet(j) ==
    /\ \A r \in Request : AtWork(r) => job[r] # j
    /\ \A p \in Process : held[p] = None \/ held[p].job # j

\* "Removes the job from both the scheduler and database" (scheduler.py:154):
\* after a 204 the job is gone from both for good, whatever other handlers
\* do with it meanwhile, and although other processes may have read it and
\* be about to write it back - unless the store failed remove_job, which
\* delete_job does not notice.
DeletedIsGone ==
    \A r \in Request : op[r] = "delete" /\ reply[r] = 204 =>
      rows[job[r]] = None /\ (store[job[r]] = None \/ r \in botched)

\* The update_trigger requests on j that found its row.
Updates(j) == {r \in Request : op[r] = "trigger" /\ job[r] = j /\ pc[r] \notin {"idle", "load"}}

\* There are two, or one was not answered 200 (yet): the row and the store
\* may have different triggers.
Contended(j) ==
    \/ \E r, s \in Updates(j) : r # s
    \/ \E r \in Updates(j) :
         pc[r] \in {"apply", "commit", "crashed"} \/ reply[r] = 500

\* A job that clients can see in the database is known to the scheduler,
\* unless the trigger they see has had its last run, or someone is deleting
\* the job or has tried to and failed.  Two overlaps leave a row that nothing
\* will execute: update_trigger with another update_trigger, and with a
\* process that read the job before, and then writes it back or removes it
\* by the trigger it read.  Nothing else does.
RowHasJob ==
    \A j \in Job : rows[j] # None =>
      \/ store[j] # None
      \/ j \in finished /\ (rows[j].trigger \in Finite \/ Contended(j))
      \/ j \in overruled
      \/ \E r \in Request : /\ job[r] = j /\ op[r] = "delete"
                            /\ \/ AtWork(r)
                               \/ pc[r] = "crashed"
                               \/ reply[r] = 500

\* scheduler_jobs_total, "Total number of scheduled jobs" (metrics.py:15),
\* counts the jobs in the store that one process changes, but for those
\* that APScheduler itself has removed.
GaugeCountsJobs ==
    \A p \in Process : gauge[p] = Cardinality(Jobs \cup finished)

\* The row tells what the scheduler does, once nothing is under way: the
\* same trigger, and a next run time exactly when it is not paused - but
\* that update_trigger gives one to a paused job as well.
RowTellsStore ==
    \A j \in Job : Quiet(j) /\ rows[j] # None /\ store[j] # None =>
      /\ rows[j].trigger = store[j].trigger
      /\ rows[j].status = "ACTIVE" => store[j].live
      /\ rows[j].status = "PAUSED" /\ store[j].live =>
           \E r \in Request : job[r] = j /\ op[r] = "trigger" /\ reply[r] = 200

\* "The job will be registered with APScheduler and persisted to the
\* database" (scheduler.py:40): not the one without the other.
JobHasRow == \A j \in Job : Quiet(j) /\ store[j] # None => rows[j] # None

\* A process learns of jobs only from its own requests, yet when all of them
\* sleep for want of a job there is none: each job that has a next run time
\* is awaited by the process that gave it to it, or by another, unless a
\* process is down or stalled or the store did not confirm what it did.
Awaited ==
    \A j \in Job : Live(j) =>
      \/ \E p \in Process : timer[p] # "idle"
      \/ \E r \in botched : job[r] = j /\ op[r] \in {"create", "resume", "trigger"}
=============================================================================
