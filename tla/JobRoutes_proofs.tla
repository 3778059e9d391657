--------------------------- MODULE JobRoutes_proofs ---------------------------
(***************************************************************************)
(* JobRoutes's invariants, for any number of jobs, requests and processes, *)
(* any clients and any faults.                                             *)
(***************************************************************************)
EXTENDS JobRoutes, FiniteSetTheorems, TLAPS

-----------------------------------------------------------------------------
(***************************************************************************)
(* The inductive invariant.                                                *)
(***************************************************************************)

\* A request under way has its job and its process.
Assigned ==
    \A r \in Request : pc[r] # "idle" =>
      /\ op[r] \in AllOps /\ job[r] \in Job /\ at[r] \in Process
      /\ op[r] \in {"create", "trigger"} => arg[r] \in Trigger
      /\ op[r] = "create" => pc[r] # "load"

Answered == \A r \in Request : pc[r] # "done" => reply[r] = 0

BotchedBegan == \A r \in botched : pc[r] # "idle"

\* A process that fires a job has not set its timer anew yet.
FiringAwake == \A p \in Process : Fired(p) => timer[p] = "set"

\* What a process holds for a request is the job the request is to change.
HeldFor ==
    \A p \in Process : held[p] # None /\ ~Fired(p) =>
      LET r == held[p].by IN
        /\ pc[r] = "apply" /\ op[r] \in {"pause", "resume"}
        /\ at[r] = p /\ job[r] = held[p].job

\* Until its row is committed a job to be created belongs to its creator:
\* whoever else asks for it has not found it.
Barred(r) == pc[r] \in {"idle", "load", "crashed"} \/ reply[r] \in {404, 500}
CreateIsFresh ==
    \A s \in Request : op[s] = "create" /\ pc[s] \in {"apply", "commit"} =>
      /\ rows[job[s]] = None
      /\ pc[s] = "apply" => store[job[s]] = None /\ job[s] \notin finished
      /\ \A r \in Request \ {s} : job[r] = job[s] => Barred(r)

\* So nobody removes it, but for APScheduler.
CreateAdded ==
    \A s \in Request : op[s] = "create" /\ pc[s] = "commit" =>
      store[job[s]] # None \/ job[s] \in finished

\* And a job that is removed from the store does not come back, as only its
\* creator could add it.
DeleteDone ==
    \A r \in Request : op[r] = "delete" /\ pc[r] = "commit" =>
      store[job[r]] = None \/ r \in botched

\* A row has a job, unless APScheduler removed it or it was to be deleted.
RowKept ==
    \A j \in Job : rows[j] # None =>
      \/ store[j] # None
      \/ j \in finished
      \/ \E r \in Request : /\ job[r] = j /\ op[r] = "delete"
                            /\ \/ AtWork(r)
                               \/ pc[r] = "crashed"
                               \/ reply[r] = 500

\* A job that APScheduler removed stays removed: its id is not used again, as
\* the id is in a row or in a request.
Known ==
    \A j \in Job : store[j] # None \/ j \in finished =>
      rows[j] # None \/ \E r \in Request : pc[r] # "idle" /\ job[r] = j

FinishedGone == \A j \in finished : store[j] = None

\* What j has in the store, or had when APScheduler removed it, is the
\* trigger t.
HasTrigger(j, t) ==
    /\ store[j] # None => store[j].trigger = t
    /\ j \in finished => t \in Finite

\* What a create and an undisputed update_trigger are about to commit, and
\* what the row then shows, is the trigger in the store.
CreateTrigger ==
    \A r \in Request : pc[r] = "commit" /\ op[r] = "create" /\ job[r] \notin overruled =>
      HasTrigger(job[r], arg[r])

UpdateTrigger ==
    \A r \in Request :
      /\ pc[r] = "commit" /\ op[r] = "trigger" /\ job[r] \notin overruled
      /\ \A s \in Updates(job[r]) : s = r
      => HasTrigger(job[r], arg[r])

RowTrigger ==
    \A j \in Job : rows[j] # None /\ j \notin overruled /\ ~Contended(j) =>
      HasTrigger(j, rows[j].trigger)

Bookkeeping == TypeOK /\ Assigned /\ Answered /\ BotchedBegan /\ FiringAwake /\ HeldFor
Lifecycle == CreateIsFresh /\ CreateAdded /\ DeleteDone /\ DeletedIsGone /\ RowKept
Triggers == Known /\ FinishedGone /\ CreateTrigger /\ UpdateTrigger /\ RowTrigger
IInv == Bookkeeping /\ Lifecycle /\ Triggers /\ Awaited

-----------------------------------------------------------------------------
(***************************************************************************)
(* What the steps of a handler do, SchedulerService's (Applied) and the    *)
(* commit (Closed).                                                        *)
(***************************************************************************)

Applied(r) ==
    /\ pc[r] = "apply"
    /\ \/ Goto(r, "commit")
       \/ op[r] \in {"create", "trigger"} /\ Respond(r, 500)
    /\ UNCHANGED <<rows, Body>>
    /\ LetGo(at[r])
    /\ store' \in [Job -> Entry \cup {None}]
    /\ \A j \in Job \ {job[r]} : store'[j] = store[j]
    /\ gauge' \in [Process -> Int]
    /\ timer' = timer \/ timer' = [timer EXCEPT ![at[r]] = "set"]
    /\ finished \subseteq finished' /\ finished' \subseteq finished \cup {job[r]}
    /\ overruled \subseteq overruled' /\ overruled' \subseteq overruled \cup {job[r]}
    /\ botched \subseteq botched' /\ botched' \subseteq botched \cup {r}
    /\ store'[job[r]] # None => store[job[r]] # None \/ op[r] = "create"
    /\ store'[job[r]] = None =>
         store[job[r]] = None \/ op[r] = "delete" \/ job[r] \in finished'
    /\ op[r] = "create" /\ pc'[r] = "commit" => store'[job[r]] # None
    /\ op[r] = "delete" => store'[job[r]] = None \/ r \in botched'
    /\ store'[job[r]] # None /\ store'[job[r]].live =>
         \/ store'[job[r]] = store[job[r]]
         \/ timer'[at[r]] = "set"
         \/ r \in botched' /\ op[r] \in {"create", "resume", "trigger"}

\* What such a step makes of the job's trigger.
Retriggered(r) ==
    /\ IF op[r] \in {"create", "trigger"}
       THEN pc'[r] = "commit" =>
              /\ store'[job[r]] # None /\ store'[job[r]].trigger = arg[r]
              /\ op[r] = "trigger" => store[job[r]] # None
       ELSE store'[job[r]] # None =>
              store'[job[r]].trigger = store[job[r]].trigger \/ job[r] \in overruled'
    /\ finished' # finished =>
         /\ store[job[r]] # None /\ store'[job[r]] = None
         /\ store[job[r]].trigger \in Finite \/ job[r] \in overruled'

Closed(r) ==
    /\ pc[r] = "commit"
    /\ \E code \in {200, 201, 204, 409, 500} :
         /\ Respond(r, code)
         /\ code = 204 => op[r] = "delete"
         /\ op[r] = "delete" => rows'[job[r]] = None \/ code = 500
    /\ UNCHANGED <<store, gauge, Loops, Body, Ghosts>>
    /\ rows' \in [Job -> Row \cup {None}]
    /\ \A j \in Job \ {job[r]} : rows'[j] = rows[j]
    /\ rows'[job[r]] # None => rows[job[r]] # None \/ op[r] = "create"

\* What such a step makes of the row's trigger.
Rowed(r) ==
    IF op[r] = "trigger"
    THEN reply'[r] = 500 \/ (rows[job[r]] # None /\ rows'[job[r]].trigger = arg[r])
    ELSE rows'[job[r]] # None =>
           \/ op[r] = "create" /\ rows'[job[r]].trigger = arg[r]
           \/ rows[job[r]] # None /\ rows'[job[r]].trigger = rows[job[r]].trigger

\* The job has the trigger in the request.
LEMMA ScheduleEffect ==
  ASSUME TypeOK, NEW r \in Request, job[r] \in Job, arg[r] \in Trigger, Schedule(r)
  PROVE  /\ store' \in [Job -> Entry \cup {None}]
         /\ \A j \in Job \ {job[r]} : store'[j] = store[j]
         /\ store'[job[r]] \in Entry /\ store'[job[r]] # None
         /\ store'[job[r]].trigger = arg[r]
         /\ Finite = {} => store'[job[r]].live
<1>1. PICK next \in BOOLEAN : /\ ~next => arg[r] \in Finite
                              /\ SetJob(job[r], [live |-> next, trigger |-> arg[r]])
  BY DEF Schedule
<1>2. /\ [live |-> next, trigger |-> arg[r]] \in Entry
      /\ [live |-> next, trigger |-> arg[r]] # None
  BY NoneAssumption DEF Entry
<1> QED
  BY <1>1, <1>2 DEF SetJob, TypeOK

\* What a process holds is a job in a state the store had it in.
LEMMA HeldIsRead ==
  ASSUME TypeOK, NEW p \in Process, held[p] # None
  PROVE  /\ held[p].job \in Job /\ held[p].trigger \in Trigger
         /\ held[p].by \in Request \cup {None}
         /\ \A live \in BOOLEAN :
              /\ [live |-> live, trigger |-> held[p].trigger] \in Entry
              /\ [live |-> live, trigger |-> held[p].trigger] # None
<1>1. held[p] \in Read
  BY DEF TypeOK
<1>2. /\ held[p].job \in Job /\ held[p].trigger \in Trigger
      /\ held[p].by \in Request \cup {None}
  BY <1>1 DEF Read
<1>3. \A live \in BOOLEAN, t \in Trigger : [live |-> live, trigger |-> t] \in Entry
  BY DEF Entry
<1> QED
  BY <1>2, <1>3, NoneAssumption

\* Writing a job back, or removing it, concerns that job only, and if this
\* changes its trigger it is on record.
LEMMA WriteOverEffect ==
  ASSUME TypeOK, NEW p \in Process, held[p] # None, NEW entry \in Entry \cup {None},
         store[held[p].job] # None, WriteOver(p, entry)
  PROVE  /\ store' \in [Job -> Entry \cup {None}]
         /\ \A j \in Job \ {held[p].job} : store'[j] = store[j]
         /\ store'[held[p].job] = entry
         /\ overruled \subseteq overruled' /\ overruled' \subseteq overruled \cup {held[p].job}
         /\ held[p].trigger = store[held[p].job].trigger \/ held[p].job \in overruled'
<1>1. held[p].job \in Job
  BY HeldIsRead
<1>2. /\ store' = [store EXCEPT ![held[p].job] = entry]
      /\ overruled' = IF store[held[p].job].trigger = held[p].trigger THEN overruled
                      ELSE overruled \cup {held[p].job}
  BY DEF WriteOver, SetJob
<1> QED
  BY <1>1, <1>2 DEF TypeOK

\* A job that is paused was in the store and stays there.
LEMMA WrittenPausedEffect ==
  ASSUME TypeOK, NEW p \in Process, held[p] # None, WrittenPaused(p)
  PROVE  /\ store[held[p].job] # None /\ finished' = finished
         /\ store' \in [Job -> Entry \cup {None}]
         /\ \A j \in Job \ {held[p].job} : store'[j] = store[j]
         /\ overruled \subseteq overruled' /\ overruled' \subseteq overruled \cup {held[p].job}
         /\ held[p].trigger = store[held[p].job].trigger \/ held[p].job \in overruled'
         /\ store'[held[p].job] = [live |-> FALSE, trigger |-> held[p].trigger]
         /\ store'[held[p].job] # None
<1> DEFINE entry == [live |-> FALSE, trigger |-> held[p].trigger]
<1>1. entry \in Entry /\ entry # None
  BY HeldIsRead
<1>2. store[held[p].job] # None /\ finished' = finished /\ WriteOver(p, entry)
  BY DEF WrittenPaused
<1> HIDE DEF entry
<1>3. /\ store' \in [Job -> Entry \cup {None}]
      /\ \A j \in Job \ {held[p].job} : store'[j] = store[j]
      /\ store'[held[p].job] = entry
      /\ overruled \subseteq overruled' /\ overruled' \subseteq overruled \cup {held[p].job}
      /\ held[p].trigger = store[held[p].job].trigger \/ held[p].job \in overruled'
  BY <1>1, <1>2, WriteOverEffect
<1> QED
  BY <1>1, <1>2, <1>3 DEF entry

\* A job that is written back was in the store, and leaves it only when the
\* trigger that was read has run out.
LEMMA WrittenBackEffect ==
  ASSUME TypeOK, NEW p \in Process, held[p] # None, WrittenBack(p)
  PROVE  /\ held[p].job \in Job /\ held[p].trigger \in Trigger
         /\ store[held[p].job] # None
         /\ store' \in [Job -> Entry \cup {None}]
         /\ \A j \in Job \ {held[p].job} : store'[j] = store[j]
         /\ overruled \subseteq overruled' /\ overruled' \subseteq overruled \cup {held[p].job}
         /\ held[p].trigger = store[held[p].job].trigger \/ held[p].job \in overruled'
         /\ \/ /\ store'[held[p].job] = Scheduled(held[p].trigger)
               /\ store'[held[p].job] # None /\ finished' = finished
            \/ /\ store'[held[p].job] = None
               /\ finished' = finished \cup {held[p].job}
               /\ held[p].trigger \in Finite
<1>1. /\ held[p].job \in Job /\ held[p].trigger \in Trigger
      /\ Scheduled(held[p].trigger) \in Entry /\ Scheduled(held[p].trigger) # None
  BY HeldIsRead DEF Scheduled
<1>2. store[held[p].job] # None
  BY DEF WrittenBack
<1>3. CASE WriteOver(p, Scheduled(held[p].trigger)) /\ UNCHANGED finished
  BY <1>1, <1>2, <1>3, WriteOverEffect
<1>4. CASE /\ held[p].trigger \in Finite /\ WriteOver(p, None)
           /\ finished' = finished \cup {held[p].job}
  BY <1>1, <1>2, <1>4, WriteOverEffect
<1> QED
  BY <1>3, <1>4 DEF WrittenBack

\* A process that a request makes write is the one the request runs in, and
\* what it holds is the request's job.
LEMMA RequestHolds ==
  ASSUME TypeOK, HeldFor, NEW r \in Request, at[r] \in Process, HasRead(r)
  PROVE  /\ held[at[r]] # None /\ held[at[r]].job = job[r] /\ ~Fired(at[r])
         /\ op[r] \in {"pause", "resume"}
<1>1. held[at[r]] # None /\ held[at[r]].by = r /\ r # None
  BY NoneAssumption DEF HasRead
<1> QED
  BY <1>1 DEF HeldFor, Fired

\* An unlocked process lets go of nothing.
LEMMA UnlockedLetsGo ==
  ASSUME TypeOK, NEW p \in Process, Unlocked(p), held' = held
  PROVE  LetGo(p)
BY DEF TypeOK, Unlocked, LetGo

\* The steps by which a handler is done with the store, as it sees them.
LEMMA AppliedStep ==
  ASSUME Bookkeeping, NEW r \in Request,
         \/ AddJob(r) \/ AddJobFails(r) \/ RemoveJob(r) \/ RemoveJobFails(r)
         \/ PauseJob(r) \/ ResumeJob(r) \/ ReadJobFails(r) \/ WriteJobFails(r)
         \/ RescheduleJob(r) \/ RescheduleJobFails(r)
  PROVE  Applied(r) /\ Retriggered(r)
<1> USE DEF Bookkeeping, Ghosts, Loops, Botch
<1>1. /\ pc[r] = "apply" /\ op[r] \in AllOps /\ job[r] \in Job /\ at[r] \in Process
      /\ op[r] \in {"create", "trigger"} => arg[r] \in Trigger
  BY DEF Assigned, At, HasRead, AddJob, AddJobFails, RemoveJob, RemoveJobFails, PauseJob,
         ResumeJob, ReadJobFails, WriteJobFails, RescheduleJob, RescheduleJobFails
<1>2. /\ TypeOK /\ \A q \in Process : gauge[q] \in Int
      /\ pc' = [pc EXCEPT ![r] = "commit"] => pc'[r] = "commit"
      /\ pc' = [pc EXCEPT ![r] = "done"] => pc'[r] = "done"
      /\ timer' = [timer EXCEPT ![at[r]] = "set"] => timer'[at[r]] = "set"
  BY <1>1 DEF TypeOK
<1>3. At(r, op[r]) /\ held' = held => LetGo(at[r])
  BY <1>1, UnlockedLetsGo DEF At
<1>4. CASE AddJob(r)
  <2>1. /\ store' \in [Job -> Entry \cup {None}]
        /\ \A j \in Job \ {job[r]} : store'[j] = store[j]
        /\ store'[job[r]] # None /\ store'[job[r]].trigger = arg[r]
    BY <1>1, <1>4, ScheduleEffect DEF AddJob, At
  <2>2. /\ op[r] = "create" /\ LetGo(at[r]) /\ Goto(r, "commit") /\ pc'[r] = "commit"
        /\ gauge' \in [Process -> Int]
        /\ timer' = [timer EXCEPT ![at[r]] = "set"] /\ timer'[at[r]] = "set"
        /\ UNCHANGED <<rows, Body, finished, overruled, botched>>
    BY <1>1, <1>2, <1>3, <1>4 DEF AddJob, At, Wake, Goto, TypeOK
  <2> QED
    BY <1>1, <2>1, <2>2 DEF Applied, Retriggered
<1>5. CASE AddJobFails(r)
  <2>1. /\ op[r] = "create" /\ LetGo(at[r]) /\ Respond(r, 500) /\ pc'[r] = "done"
        /\ UNCHANGED <<rows, gauge, timer, Body, finished, overruled>>
        /\ gauge' \in [Process -> Int]
    BY <1>1, <1>2, <1>3, <1>5 DEF AddJobFails, At, Respond, TypeOK
  <2>2. CASE UNCHANGED <<store, botched>>
    BY <1>1, <1>2, <2>1, <2>2 DEF Applied, Retriggered, TypeOK
  <2>3. CASE Schedule(r) /\ Botch(r)
    <3>1. /\ store' \in [Job -> Entry \cup {None}]
          /\ \A j \in Job \ {job[r]} : store'[j] = store[j]
          /\ store'[job[r]] # None
      BY <1>1, <2>1, <2>3, ScheduleEffect
    <3> QED
      BY <1>1, <2>1, <2>3, <3>1 DEF Applied, Retriggered
  <2> QED
    BY <1>5, <2>2, <2>3 DEF AddJobFails
<1>6. CASE RemoveJob(r)
  <2>1. /\ store' \in [Job -> Entry \cup {None}]
        /\ \A j \in Job \ {job[r]} : store'[j] = store[j]
        /\ store'[job[r]] = None
    BY <1>1, <1>2, <1>6 DEF RemoveJob, SetJob, TypeOK
  <2>2. /\ op[r] = "delete" /\ LetGo(at[r]) /\ Goto(r, "commit")
        /\ gauge' \in [Process -> Int]
        /\ UNCHANGED <<rows, timer, Body, finished, overruled, botched>>
    BY <1>1, <1>2, <1>3, <1>6 DEF RemoveJob, At, TypeOK
  <2> QED
    BY <1>1, <2>1, <2>2 DEF Applied, Retriggered
<1>7. CASE RemoveJobFails(r)
  <2>1. /\ op[r] = "delete" /\ LetGo(at[r]) /\ Goto(r, "commit")
        /\ UNCHANGED <<rows, gauge, timer, Body, finished, overruled>>
        /\ gauge' \in [Process -> Int]
        /\ botched' = botched \/ botched' = botched \cup {r}
        /\ \/ store' = store /\ (store[job[r]] = None \/ r \in botched')
           \/ store' = [store EXCEPT ![job[r]] = None]
    BY <1>1, <1>2, <1>3, <1>7 DEF RemoveJobFails, FailsAs, SetJob, At, TypeOK
  <2>2. /\ store' \in [Job -> Entry \cup {None}]
        /\ \A j \in Job \ {job[r]} : store'[j] = store[j]
        /\ store'[job[r]] = None \/ (store'[job[r]] = store[job[r]] /\ r \in botched')
    BY <1>1, <1>2, <2>1 DEF TypeOK
  <2> QED
    BY <1>1, <2>1, <2>2 DEF Applied, Retriggered
<1>8. CASE PauseJob(r)
  <2>1. held[at[r]] # None /\ held[at[r]].job = job[r]
    BY <1>1, <1>8, RequestHolds DEF PauseJob
  <2>2. /\ store[job[r]] # None /\ finished' = finished
        /\ store' \in [Job -> Entry \cup {None}]
        /\ \A j \in Job \ {job[r]} : store'[j] = store[j]
        /\ overruled \subseteq overruled' /\ overruled' \subseteq overruled \cup {job[r]}
        /\ held[at[r]].trigger = store[job[r]].trigger \/ job[r] \in overruled'
        /\ store'[job[r]] = [live |-> FALSE, trigger |-> held[at[r]].trigger]
        /\ store'[job[r]] # None
    BY <1>1, <1>8, <2>1, WrittenPausedEffect DEF PauseJob
  <2>3. /\ store'[job[r]].trigger = store[job[r]].trigger \/ job[r] \in overruled'
    BY <2>2
  <2>4. /\ op[r] = "pause" /\ LetGo(at[r]) /\ Goto(r, "commit")
        /\ timer' = [timer EXCEPT ![at[r]] = "set"] /\ timer'[at[r]] = "set"
        /\ UNCHANGED <<rows, Body, gauge, botched>> /\ gauge' \in [Process -> Int]
    BY <1>1, <1>2, <1>8 DEF PauseJob, Wake, TypeOK
  <2> QED
    BY <1>1, <2>2, <2>3, <2>4 DEF Applied, Retriggered
<1>9. ASSUME op[r] = "resume", HasRead(r), WrittenBack(at[r])
      PROVE  /\ store[job[r]] # None
             /\ store' \in [Job -> Entry \cup {None}]
             /\ \A j \in Job \ {job[r]} : store'[j] = store[j]
             /\ overruled \subseteq overruled' /\ overruled' \subseteq overruled \cup {job[r]}
             /\ \/ store'[job[r]] # None /\ finished' = finished
                \/ store'[job[r]] = None /\ finished' = finished \cup {job[r]}
             /\ store'[job[r]] # None =>
                  store'[job[r]].trigger = store[job[r]].trigger \/ job[r] \in overruled'
             /\ finished' # finished =>
                  /\ store'[job[r]] = None
                  /\ store[job[r]].trigger \in Finite \/ job[r] \in overruled'
  <2>1. held[at[r]] # None /\ held[at[r]].job = job[r]
    BY <1>1, <1>9, RequestHolds
  <2>2. /\ store[job[r]] # None
        /\ store' \in [Job -> Entry \cup {None}]
        /\ \A j \in Job \ {job[r]} : store'[j] = store[j]
        /\ overruled \subseteq overruled' /\ overruled' \subseteq overruled \cup {job[r]}
        /\ held[at[r]].trigger = store[job[r]].trigger \/ job[r] \in overruled'
        /\ \/ /\ store'[job[r]] = Scheduled(held[at[r]].trigger)
              /\ store'[job[r]] # None /\ finished' = finished
           \/ /\ store'[job[r]] = None
              /\ finished' = finished \cup {job[r]}
              /\ held[at[r]].trigger \in Finite
    BY <1>1, <1>9, <2>1, WrittenBackEffect
  <2> QED
    BY <2>2 DEF Scheduled
<1>10. CASE ResumeJob(r)
  <2>1. /\ op[r] = "resume" /\ LetGo(at[r]) /\ Goto(r, "commit")
        /\ UNCHANGED <<rows, Body, gauge, botched>> /\ gauge' \in [Process -> Int]
        /\ HasRead(r) /\ WrittenBack(at[r])
    BY <1>1, <1>2, <1>10 DEF ResumeJob, TypeOK
  <2>2. CASE store'[job[r]] = None
    <3>1. timer' = timer
      BY <1>10, <2>2 DEF ResumeJob
    <3> QED
      BY <1>1, <1>9, <2>1, <2>2, <3>1 DEF Applied, Retriggered
  <2>3. CASE store'[job[r]] # None
    <3>1. timer' = [timer EXCEPT ![at[r]] = "set"] /\ timer'[at[r]] = "set"
      BY <1>2, <1>10, <2>3 DEF ResumeJob, Wake
    <3> QED
      BY <1>1, <1>9, <2>1, <2>3, <3>1 DEF Applied, Retriggered
  <2> QED
    BY <2>2, <2>3
<1>11. CASE ReadJobFails(r)
  <2>1. /\ op[r] \in {"pause", "resume"} /\ LetGo(at[r]) /\ Goto(r, "commit")
        /\ UNCHANGED <<rows, store, gauge, timer, Body, finished, overruled, botched>>
    BY <1>3, <1>11 DEF ReadJobFails
  <2>2. store' \in [Job -> Entry \cup {None}] /\ gauge' \in [Process -> Int]
    BY <2>1 DEF TypeOK
  <2> QED
    BY <1>1, <2>1, <2>2 DEF Applied, Retriggered
<1>12. CASE WriteJobFails(r)
  <2>1. /\ HasRead(r) /\ op[r] \in {"pause", "resume"} /\ LetGo(at[r]) /\ Goto(r, "commit")
        /\ UNCHANGED <<rows, gauge, timer, Body>> /\ gauge' \in [Process -> Int]
    BY <1>1, <1>12, RequestHolds DEF WriteJobFails, TypeOK
  <2>2. CASE UNCHANGED <<store, finished, overruled, botched>>
    <3>1. store' \in [Job -> Entry \cup {None}]
      BY <2>2 DEF TypeOK
    <3> QED
      BY <1>1, <2>1, <2>2, <3>1 DEF Applied, Retriggered
  <2>3. CASE Botch(r) /\ op[r] = "pause" /\ WrittenPaused(at[r])
    <3>1. held[at[r]] # None /\ held[at[r]].job = job[r]
      BY <1>1, <2>1, RequestHolds
    <3>2. /\ store[job[r]] # None /\ finished' = finished
          /\ store' \in [Job -> Entry \cup {None}]
          /\ \A j \in Job \ {job[r]} : store'[j] = store[j]
          /\ overruled \subseteq overruled' /\ overruled' \subseteq overruled \cup {job[r]}
          /\ held[at[r]].trigger = store[job[r]].trigger \/ job[r] \in overruled'
          /\ store'[job[r]] = [live |-> FALSE, trigger |-> held[at[r]].trigger]
          /\ store'[job[r]] # None
      BY <1>1, <2>3, <3>1, WrittenPausedEffect
    <3>3. /\ store'[job[r]].trigger = store[job[r]].trigger \/ job[r] \in overruled'
          /\ ~store'[job[r]].live
      BY <3>2
    <3> QED
      BY <1>1, <2>1, <2>3, <3>2, <3>3 DEF Applied, Retriggered
  <2>4. CASE Botch(r) /\ op[r] = "resume" /\ WrittenBack(at[r])
    BY <1>1, <1>9, <2>1, <2>4 DEF Applied, Retriggered
  <2> QED
    BY <1>12, <2>2, <2>3, <2>4 DEF WriteJobFails
<1>13. CASE RescheduleJob(r)
  <2>1. /\ store' \in [Job -> Entry \cup {None}]
        /\ \A j \in Job \ {job[r]} : store'[j] = store[j]
        /\ store'[job[r]] # None /\ store'[job[r]].trigger = arg[r]
    BY <1>1, <1>13, ScheduleEffect DEF RescheduleJob, At
  <2>2. /\ op[r] = "trigger" /\ LetGo(at[r]) /\ Goto(r, "commit")
        /\ store[job[r]] # None
        /\ timer' = [timer EXCEPT ![at[r]] = "set"] /\ timer'[at[r]] = "set"
        /\ UNCHANGED <<rows, Body, gauge, finished, overruled, botched>>
        /\ gauge' \in [Process -> Int]
    BY <1>1, <1>2, <1>3, <1>13 DEF RescheduleJob, At, Wake, TypeOK
  <2> QED
    BY <1>1, <2>1, <2>2 DEF Applied, Retriggered
<1>14. CASE RescheduleJobFails(r)
  <2>1. /\ op[r] = "trigger" /\ LetGo(at[r]) /\ Respond(r, 500) /\ pc'[r] = "done"
        /\ UNCHANGED <<rows, gauge, timer, Body, finished, overruled>>
        /\ gauge' \in [Process -> Int]
    BY <1>1, <1>2, <1>3, <1>14 DEF RescheduleJobFails, At, Respond, TypeOK
  <2>2. CASE UNCHANGED <<store, botched>>
    BY <1>1, <1>2, <2>1, <2>2 DEF Applied, Retriggered, TypeOK
  <2>3. CASE store[job[r]] # None /\ Schedule(r) /\ Botch(r)
    <3>1. /\ store' \in [Job -> Entry \cup {None}]
          /\ \A j \in Job \ {job[r]} : store'[j] = store[j]
          /\ store'[job[r]] # None
      BY <1>1, <2>1, <2>3, ScheduleEffect
    <3> QED
      BY <1>1, <2>1, <2>3, <3>1 DEF Applied, Retriggered
  <2> QED
    BY <1>14, <2>2, <2>3 DEF RescheduleJobFails
<1> QED
  BY <1>4, <1>5, <1>6, <1>7, <1>8, <1>10, <1>11, <1>12, <1>13, <1>14

\* Inserting, deleting and updating a row concern that row only.
LEMMA UpdateRowEffect ==
  ASSUME TypeOK, NEW r \in Request, job[r] \in Job, rows[job[r]] # None,
         op[r] \in {"pause", "resume", "trigger"}, op[r] = "trigger" => arg[r] \in Trigger,
         UpdateRow(r)
  PROVE  /\ rows' \in [Job -> Row \cup {None}]
         /\ \A j \in Job \ {job[r]} : rows'[j] = rows[j]
         /\ rows'[job[r]] =
              [status  |-> IF op[r] = "pause" THEN "PAUSED"
                           ELSE IF op[r] = "resume" THEN "ACTIVE" ELSE rows[job[r]].status,
               trigger |-> IF op[r] = "trigger" THEN arg[r] ELSE rows[job[r]].trigger]
         /\ rows'[job[r]] # None
<1>1. rows[job[r]] \in Row
  BY DEF TypeOK
<1>2. \A s \in {"ACTIVE", "PAUSED"}, t \in Trigger :
        /\ [rows[job[r]] EXCEPT !.status = s] = [status |-> s, trigger |-> rows[job[r]].trigger]
        /\ [rows[job[r]] EXCEPT !.trigger = t] = [status |-> rows[job[r]].status, trigger |-> t]
        /\ [status |-> s, trigger |-> t] \in Row
  BY <1>1 DEF Row
<1>3. rows[job[r]].status \in {"ACTIVE", "PAUSED"} /\ rows[job[r]].trigger \in Trigger
  BY <1>1 DEF Row
<1>4. CASE op[r] = "pause"
  <2>1. rows' = [rows EXCEPT ![job[r]] = [rows[job[r]] EXCEPT !.status = "PAUSED"]]
    BY <1>4 DEF UpdateRow
  <2> QED
    BY <1>2, <1>3, <1>4, <2>1, NoneAssumption DEF TypeOK
<1>5. CASE op[r] = "resume"
  <2>1. rows' = [rows EXCEPT ![job[r]] = [rows[job[r]] EXCEPT !.status = "ACTIVE"]]
    BY <1>5 DEF UpdateRow
  <2> QED
    BY <1>2, <1>3, <1>5, <2>1, NoneAssumption DEF TypeOK
<1>6. CASE op[r] = "trigger"
  <2>1. rows' = [rows EXCEPT ![job[r]] = [rows[job[r]] EXCEPT !.trigger = arg[r]]]
    BY <1>6 DEF UpdateRow
  <2> QED
    BY <1>2, <1>3, <1>6, <2>1, NoneAssumption DEF TypeOK
<1> QED
  BY <1>4, <1>5, <1>6

\* A row that is inserted has the trigger in the request.
LEMMA InsertRowEffect ==
  ASSUME TypeOK, NEW r \in Request, job[r] \in Job, arg[r] \in Trigger, InsertRow(r)
  PROVE  /\ rows' \in [Job -> Row \cup {None}]
         /\ \A j \in Job \ {job[r]} : rows'[j] = rows[j]
         /\ rows'[job[r]] = Created(arg[r]) /\ rows'[job[r]] # None
<1>1. Created(arg[r]) \in Row /\ Created(arg[r]) # None
  BY NoneAssumption DEF Created, Row
<1> QED
  BY <1>1 DEF InsertRow, TypeOK

\* What the statement before the commit does to the rows.
LEMMA CommittedEffect ==
  ASSUME TypeOK, NEW r \in Request, job[r] \in Job,
         op[r] \in {"create", "trigger"} => arg[r] \in Trigger,
         Committed(r)
  PROVE  /\ rows' \in [Job -> Row \cup {None}]
         /\ \A j \in Job \ {job[r]} : rows'[j] = rows[j]
         /\ rows'[job[r]] # None => rows[job[r]] # None \/ op[r] = "create"
         /\ op[r] = "delete" => rows'[job[r]] = None
         /\ op[r] = "trigger" => rows[job[r]] # None /\ rows'[job[r]].trigger = arg[r]
         /\ op[r] # "trigger" /\ rows'[job[r]] # None =>
              \/ op[r] = "create" /\ rows'[job[r]].trigger = arg[r]
              \/ rows[job[r]] # None /\ rows'[job[r]].trigger = rows[job[r]].trigger
<1>1. CASE op[r] = "create" /\ InsertRow(r)
  <2>1. Created(arg[r]).trigger = arg[r]
    BY DEF Created
  <2> QED
    BY <1>1, <2>1, InsertRowEffect
<1>2. CASE op[r] = "delete" /\ DeleteRow(r)
  BY <1>2 DEF DeleteRow, TypeOK
<1>3. CASE op[r] \in {"pause", "resume", "trigger"} /\ rows[job[r]] # None /\ UpdateRow(r)
  <2>1. /\ rows' \in [Job -> Row \cup {None}]
        /\ \A j \in Job \ {job[r]} : rows'[j] = rows[j]
        /\ rows'[job[r]] =
             [status  |-> IF op[r] = "pause" THEN "PAUSED"
                          ELSE IF op[r] = "resume" THEN "ACTIVE" ELSE rows[job[r]].status,
              trigger |-> IF op[r] = "trigger" THEN arg[r] ELSE rows[job[r]].trigger]
    BY <1>3, UpdateRowEffect
  <2>2. op[r] = "trigger" => rows'[job[r]].trigger = arg[r]
    BY <2>1
  <2>3. op[r] # "trigger" => rows'[job[r]].trigger = rows[job[r]].trigger
    BY <2>1
  <2> QED
    BY <1>3, <2>1, <2>2, <2>3
<1> QED
  BY <1>1, <1>2, <1>3 DEF Committed

\* The last steps of the handlers, with or without success.
LEMMA ClosedStep ==
  ASSUME Bookkeeping, NEW r \in Request,
         CommitCreate(r) \/ CommitDelete(r) \/ CommitUpdate(r) \/ CommitFails(r)
  PROVE  Closed(r) /\ Rowed(r)
<1> USE DEF Bookkeeping
<1>1. /\ pc[r] = "commit" /\ op[r] \in AllOps /\ job[r] \in Job
      /\ op[r] \in {"create", "trigger"} => arg[r] \in Trigger
      /\ UNCHANGED <<store, gauge, Loops, Body, Ghosts>>
  BY DEF Assigned, CommitCreate, CommitDelete, CommitUpdate, CommitFails
<1>2. \E code \in {200, 201, 204, 409, 500} :
        /\ Respond(r, code)
        /\ code = 204 => op[r] = "delete"
        /\ (UNCHANGED rows /\ (code = 500 \/ op[r] = "create")) \/ Committed(r)
  BY DEF CommitCreate, CommitDelete, CommitUpdate, CommitFails, FailsAs, Committed
<1>3. PICK code \in {200, 201, 204, 409, 500} :
        /\ Respond(r, code)
        /\ code = 204 => op[r] = "delete"
        /\ (UNCHANGED rows /\ (code = 500 \/ op[r] = "create")) \/ Committed(r)
  BY <1>2
<1>4. reply'[r] = code
  BY <1>3 DEF Respond, TypeOK
<1>5. CASE UNCHANGED rows /\ (code = 500 \/ op[r] = "create")
  <2>1. rows' \in [Job -> Row \cup {None}]
    BY <1>5 DEF TypeOK
  <2>2. Closed(r)
    BY <1>1, <1>3, <1>5, <2>1 DEF Closed
  <2>3. Rowed(r)
    BY <1>4, <1>5 DEF Rowed
  <2> QED
    BY <2>2, <2>3
<1>6. CASE Committed(r)
  <2>1. Closed(r)
    BY <1>1, <1>3, <1>6, CommittedEffect DEF Closed
  <2>2. Rowed(r)
    BY <1>1, <1>6, CommittedEffect DEF Rowed
  <2> QED
    BY <2>1, <2>2
<1> QED
  BY <1>3, <1>5, <1>6

\* The jobs can be counted.
LEMMA JobsCounted == Cardinality(Jobs) \in Nat
<1>1. Jobs \subseteq Job
  BY DEF Jobs
<1> QED
  BY <1>1, JobAssumption, FS_Subset, FS_CardinalityType

-----------------------------------------------------------------------------

\* The invariant holds initially.
LEMMA InitInv == Init => IInv
<1> SUFFICES ASSUME Init PROVE IInv
  OBVIOUS
<1>1. \A t \in Trigger : Created(t) \in Row /\ Scheduled(t) \in Entry
  BY DEF Created, Row, Scheduled, Entry
<1>2. Cardinality(Existing) \in Int
  BY JobAssumption, FS_Subset, FS_CardinalityType
<1>3. TypeOK
  BY <1>1, <1>2, JobAssumption DEF Init, TypeOK, Code
<1>4. PICK t \in Trigger :
        /\ rows = [j \in Job |-> IF j \in Existing THEN Created(t) ELSE None]
        /\ store = [j \in Job |-> IF j \in Existing THEN Scheduled(t) ELSE None]
  BY DEF Init
<1>5. \A j \in Job : (rows[j] # None <=> store[j] # None)
                     /\ (store[j] # None => rows[j].trigger = store[j].trigger)
  BY <1>1, <1>4, NoneAssumption DEF Created, Scheduled
<1>6. finished = {} /\ \A r \in Request : pc[r] = "idle"
  BY DEF Init
<1>7. RowKept
  BY <1>5 DEF RowKept
<1>8. Triggers
  BY <1>5, <1>6
  DEF Triggers, Known, FinishedGone, CreateTrigger, UpdateTrigger, RowTrigger, HasTrigger
<1>9. Awaited
  <2>1. PICK p \in Process : TRUE
    BY JobAssumption
  <2> QED
    BY <2>1 DEF Init, Awaited
<1> QED
  BY <1>3, <1>7, <1>8, <1>9
  DEF Init, IInv, Bookkeeping, Lifecycle, Assigned, Answered, BotchedBegan, FiringAwake,
      HeldFor, Fired, CreateIsFresh, CreateAdded, DeleteDone, DeletedIsGone

\* Types and the like are kept by every step.
LEMMA BookkeepingNext == Bookkeeping /\ [Next]_vars => Bookkeeping'
<1> SUFFICES ASSUME Bookkeeping, [Next]_vars PROVE Bookkeeping'
  OBVIOUS
<1> USE DEF Bookkeeping, Goto, Respond, Body, Loops, Ghosts
<1>1. ASSUME NEW r \in Request, NEW o \in Ops, NEW j \in Job, NEW t \in Trigger,
             NEW p \in Process, Receive(r, o, j, t, p)
      PROVE  Bookkeeping'
  <2>1. o \in AllOps
    BY JobAssumption
  <2>2. TypeOK'
    BY <1>1, <2>1 DEF Receive, TypeOK
  <2>3. HeldFor' /\ FiringAwake'
    <3>1. /\ pc[r] = "idle" /\ UNCHANGED <<held, timer>>
          /\ \A s \in Request \ {r} : /\ pc'[s] = pc[s] /\ op'[s] = op[s]
                                      /\ at'[s] = at[s] /\ job'[s] = job[s]
      BY <1>1 DEF Receive, TypeOK
    <3>2. \A q \in Process : held[q] # None /\ ~Fired(q) => held[q].by \in Request \ {r}
      BY <3>1, HeldIsRead DEF HeldFor, Fired
    <3> QED
      BY <3>1, <3>2 DEF HeldFor, FiringAwake, Fired
  <2> QED
    BY <1>1, <2>1, <2>2, <2>3
    DEF Receive, TypeOK, Assigned, Answered, BotchedBegan
<1>2. ASSUME NEW r \in Request, Load(r) \/ LoadFails(r) PROVE Bookkeeping'
  <2>1. /\ UNCHANGED <<rows, store, gauge, held, timer, op, job, arg, at, finished,
                       overruled, botched>>
        /\ pc[r] = "load"
        /\ \/ pc' = [pc EXCEPT ![r] = "apply"] /\ UNCHANGED reply
           \/ \E code \in {400, 404, 500} :
                pc' = [pc EXCEPT ![r] = "done"] /\ reply' = [reply EXCEPT ![r] = code]
    BY <1>2 DEF Load, LoadFails
  <2>2. TypeOK'
    BY <2>1 DEF TypeOK, Code
  <2>3. HeldFor' /\ FiringAwake'
    <3>1. \A s \in Request \ {r} : pc'[s] = pc[s]
      BY <2>1 DEF TypeOK
    <3>2. \A q \in Process : held[q] # None /\ ~Fired(q) => held[q].by \in Request \ {r}
      BY <2>1, HeldIsRead DEF HeldFor, Fired
    <3> QED
      BY <2>1, <3>1, <3>2 DEF HeldFor, FiringAwake, Fired
  <2> QED
    BY <2>1, <2>2, <2>3 DEF TypeOK, Assigned, Answered, BotchedBegan
<1>3. ASSUME NEW r \in Request, Applied(r) PROVE Bookkeeping'
  <2>1. job[r] \in Job /\ at[r] \in Process
    BY <1>3 DEF Applied, Assigned
  <2>2. TypeOK'
    BY <1>3, <2>1 DEF Applied, LetGo, TypeOK, Code
  <2>3. Assigned' /\ Answered'
    BY <1>3 DEF Applied, TypeOK, Assigned, Answered
  <2>4. BotchedBegan'
    BY <1>3 DEF Applied, TypeOK, BotchedBegan
  <2>5. /\ held'[at[r]] = None
        /\ \A q \in Process \ {at[r]} : held'[q] = held[q]
    BY <1>3, <2>1 DEF Applied, LetGo, TypeOK
  <2>6. FiringAwake'
    BY <1>3, <2>1, <2>5 DEF Applied, TypeOK, FiringAwake, Fired
  <2>7. HeldFor'
    <3>1. /\ UNCHANGED <<op, job, at>>
          /\ \A s \in Request \ {r} : pc'[s] = pc[s]
      BY <1>3 DEF Applied, TypeOK
    <3>2. \A q \in Process \ {at[r]} : held[q] # None /\ ~Fired(q) =>
            held[q].by \in Request \ {r}
      BY HeldIsRead DEF HeldFor, Fired
    <3> QED
      BY <2>5, <3>1, <3>2 DEF HeldFor, Fired
  <2> QED
    BY <2>2, <2>3, <2>4, <2>6, <2>7
<1>4. ASSUME NEW r \in Request, ReadJob(r) PROVE Bookkeeping'
  <2>1. /\ pc[r] = "apply" /\ op[r] \in {"pause", "resume"}
        /\ job[r] \in Job /\ at[r] \in Process
        /\ store[job[r]] # None
        /\ held' = [held EXCEPT ![at[r]] = [job |-> job[r], trigger |-> store[job[r]].trigger,
                                            by |-> r]]
        /\ UNCHANGED <<rows, store, gauge, timer, pc, reply, op, job, arg, at, finished,
                       overruled, botched>>
    BY <1>4 DEF ReadJob, At, Hold, Assigned
  <2>2. [job |-> job[r], trigger |-> store[job[r]].trigger, by |-> r] \in Read
    BY <2>1 DEF TypeOK, Entry, Read
  <2>3. TypeOK'
    BY <2>1, <2>2 DEF TypeOK
  <2>4. /\ held'[at[r]].job = job[r] /\ held'[at[r]].by = r /\ r # None
        /\ \A q \in Process \ {at[r]} : held'[q] = held[q]
    BY <2>1, NoneAssumption DEF TypeOK
  <2>5. FiringAwake' /\ HeldFor'
    BY <2>1, <2>4 DEF FiringAwake, HeldFor, Fired
  <2> QED
    BY <2>1, <2>3, <2>5 DEF Assigned, Answered, BotchedBegan
<1>5. ASSUME NEW r \in Request, Closed(r) PROVE Bookkeeping'
  <2>1. TypeOK'
    BY <1>5 DEF Closed, TypeOK, Code
  <2>2. HeldFor' /\ FiringAwake'
    <3>1. /\ pc[r] = "commit" /\ UNCHANGED <<held, timer, op, job, at>>
          /\ \A s \in Request \ {r} : pc'[s] = pc[s]
      BY <1>5 DEF Closed, TypeOK
    <3>2. \A q \in Process : held[q] # None /\ ~Fired(q) => held[q].by \in Request \ {r}
      BY <3>1, HeldIsRead DEF HeldFor, Fired
    <3> QED
      BY <3>1, <3>2 DEF HeldFor, FiringAwake, Fired
  <2> QED
    BY <1>5, <2>1, <2>2 DEF Closed, TypeOK, Assigned, Answered, BotchedBegan
<1>6. ASSUME UNCHANGED <<pc, reply, op, job, arg, at, botched>>, TypeOK',
             \A q \in Process : held'[q] = None
                                \/ (held'[q] = held[q] /\ (timer'[q] = timer[q] \/ timer'[q] = "set"))
      PROVE  Bookkeeping'
  BY <1>6 DEF Assigned, Answered, BotchedBegan, FiringAwake, HeldFor, Fired
<1>7. ASSUME NEW p \in Process, NEW j \in Job, Fire(p, j) PROVE Bookkeeping'
  <2>1. [job |-> j, trigger |-> store[j].trigger, by |-> None] \in Read
    BY <1>7 DEF Fire, Live, TypeOK, Entry, Read
  <2>2. TypeOK'
    BY <1>7, <2>1 DEF Fire, Hold, TypeOK
  <2>3. /\ held'[p].by = None /\ timer[p] = "set" /\ timer' = timer
        /\ \A q \in Process \ {p} : held'[q] = held[q]
        /\ UNCHANGED <<pc, op, at, job>>
    BY <1>7 DEF Fire, Waking, Hold, TypeOK
  <2>4. FiringAwake' /\ HeldFor'
    BY <2>3 DEF FiringAwake, HeldFor, Fired
  <2> QED
    BY <1>7, <2>2, <2>4 DEF Fire, Assigned, Answered, BotchedBegan
<1>8. ASSUME NEW p \in Process, WriteBack(p) \/ WriteBackFails(p) PROVE Bookkeeping'
  <2>1. /\ held[p] # None
        /\ UNCHANGED <<store, finished, overruled>> \/ WrittenBack(p)
        /\ held' = [held EXCEPT ![p] = None]
        /\ timer' = timer \/ timer' = [timer EXCEPT ![p] = "stalled"]
        /\ UNCHANGED <<rows, gauge, pc, reply, op, job, arg, at, botched>>
    BY <1>8 DEF WriteBack, WriteBackFails, FailsAs, Stall, Fired, LetGo
  <2>2. /\ store' \in [Job -> Entry \cup {None}] /\ finished' \subseteq Job
        /\ overruled' \subseteq Job
    BY <2>1, WrittenBackEffect DEF TypeOK
  <2>3. TypeOK'
    BY <2>1, <2>2 DEF TypeOK
  <2>4. \A q \in Process : held'[q] = None \/ (held'[q] = held[q] /\ timer'[q] = timer[q])
    BY <2>1 DEF TypeOK
  <2> QED
    BY <1>6, <2>1, <2>3, <2>4
<1>9. ASSUME NEW p \in Process,
             Sleep(p) \/ LookFails(p) \/ Shutdown(p) \/ Start(p)
      PROVE  Bookkeeping'
  <2>1. /\ \/ held[p] = None /\ held' = held
           \/ held' = [held EXCEPT ![p] = None]
           \/ held' = held /\ timer' = [timer EXCEPT ![p] = "set"]
        /\ timer' \in [Process -> {"set", "idle", "stalled", "down"}]
        /\ \A q \in Process \ {p} : timer'[q] = timer[q]
        /\ gauge' \in [Process -> Int]
        /\ UNCHANGED <<rows, store, pc, reply, op, job, arg, at, finished, overruled, botched>>
    BY <1>9, JobsCounted
    DEF Sleep, LookFails, Waking, Unlocked, Stall, Shutdown, Start, Down, LetGo, TypeOK
  <2>2. TypeOK'
    BY <2>1 DEF TypeOK
  <2>3. \A q \in Process : held'[q] = None
                           \/ (held'[q] = held[q] /\ (timer'[q] = timer[q] \/ timer'[q] = "set"))
    BY <2>1 DEF TypeOK
  <2> QED
    BY <1>6, <2>1, <2>2, <2>3
<1>10. ASSUME NEW p \in Process, Crash(p) PROVE Bookkeeping'
  <2>1. TypeOK'
    BY <1>10 DEF Crash, Down, LetGo, TypeOK
  <2>2. /\ UNCHANGED <<op, job, at>>
        /\ \A q \in Process : held'[q] = None \/ (q # p /\ held'[q] = held[q] /\ timer'[q] = timer[q])
        /\ pc' = [r \in Request |-> IF at[r] = p /\ AtWork(r) THEN "crashed" ELSE pc[r]]
    BY <1>10 DEF Crash, Down, LetGo, TypeOK
  <2>3. FiringAwake'
    BY <2>2 DEF FiringAwake, Fired
  <2>4. HeldFor'
    BY <2>2, HeldIsRead DEF HeldFor, Fired
  <2> QED
    BY <1>10, <2>1, <2>3, <2>4
    DEF Crash, Down, AtWork, TypeOK, Assigned, Answered, BotchedBegan
<1>11. CASE UNCHANGED vars
  BY <1>11 DEF vars, TypeOK, Assigned, Answered, BotchedBegan, FiringAwake, HeldFor, Fired
<1> QED
  BY <1>1, <1>2, <1>3, <1>4, <1>5, <1>7, <1>8, <1>9, <1>10, <1>11, AppliedStep, ClosedStep
  DEF Next, Handle

\* A job's life: its creation, its row's and its end, in the order the
\* handlers go about it.
LEMMA LifecycleNext == Bookkeeping /\ Lifecycle /\ Known /\ [Next]_vars => Lifecycle'
<1> SUFFICES ASSUME Bookkeeping, Lifecycle, Known, [Next]_vars PROVE Lifecycle'
  OBVIOUS
<1> USE DEF Goto, Respond, Body, Loops, Ghosts
<1>1. ASSUME NEW r \in Request, NEW o \in Ops, NEW j \in Job, NEW t \in Trigger,
             NEW p \in Process, Receive(r, o, j, t, p)
      PROVE  Lifecycle'
  <2>1. /\ pc[r] = "idle" /\ reply[r] = 0
        /\ o = "create" => /\ rows[j] = None /\ store[j] = None
                           /\ \A s \in Request : job[s] # j
        /\ o = "create" => j \notin finished
        /\ op' = [op EXCEPT ![r] = o] /\ job' = [job EXCEPT ![r] = j]
        /\ pc' = [pc EXCEPT ![r] = IF o = "create" THEN "apply" ELSE "load"]
        /\ UNCHANGED <<rows, store, reply, finished, botched>>
    BY <1>1 DEF Receive, Bookkeeping, Answered, Known
  <2>2. CreateIsFresh'
    BY <2>1 DEF Bookkeeping, TypeOK, Lifecycle, CreateIsFresh, Barred
  <2>3. CreateAdded' /\ DeleteDone' /\ DeletedIsGone'
    BY <2>1 DEF Bookkeeping, TypeOK, Lifecycle, CreateAdded, DeleteDone, DeletedIsGone
  <2>4. RowKept'
    BY <2>1 DEF Bookkeeping, TypeOK, Lifecycle, RowKept, AtWork
  <2> QED
    BY <2>2, <2>3, <2>4 DEF Lifecycle
<1>2. ASSUME NEW r \in Request, Load(r) \/ LoadFails(r) PROVE Lifecycle'
  <2>1. /\ UNCHANGED <<rows, store, op, job, finished, botched>>
        /\ pc[r] = "load" /\ op[r] # "create" /\ reply[r] = 0
        /\ \/ /\ rows[job[r]] # None
              /\ pc' = [pc EXCEPT ![r] = "apply"] /\ UNCHANGED reply
           \/ \E code \in {400, 404, 500} :
                /\ pc' = [pc EXCEPT ![r] = "done"] /\ reply' = [reply EXCEPT ![r] = code]
                /\ code = 404 => rows[job[r]] = None
                /\ code = 400 => rows[job[r]] # None /\ op[r] # "delete"
    BY <1>2 DEF Load, LoadFails, Bookkeeping, Assigned, Answered
  <2>2. CreateIsFresh'
    BY <2>1 DEF Bookkeeping, TypeOK, Lifecycle, CreateIsFresh, Barred
  <2>3. CreateAdded' /\ DeleteDone' /\ DeletedIsGone'
    BY <2>1 DEF Bookkeeping, TypeOK, Lifecycle, CreateAdded, DeleteDone, DeletedIsGone
  <2>4. RowKept'
    BY <2>1 DEF Bookkeeping, TypeOK, Lifecycle, RowKept, AtWork
  <2> QED
    BY <2>2, <2>3, <2>4 DEF Lifecycle
<1>3. ASSUME NEW r \in Request, Applied(r), Retriggered(r) PROVE Lifecycle'
  <2>1. /\ pc[r] = "apply" /\ reply[r] = 0 /\ job[r] \in Job
        /\ UNCHANGED <<rows, op, job>>
        /\ \/ pc' = [pc EXCEPT ![r] = "commit"] /\ UNCHANGED reply
           \/ /\ op[r] \in {"create", "trigger"}
              /\ pc' = [pc EXCEPT ![r] = "done"] /\ reply' = [reply EXCEPT ![r] = 500]
    BY <1>3 DEF Applied, Bookkeeping, Assigned, Answered
  <2>2. \A s \in Request \ {r} :
          op[s] = "create" /\ pc[s] \in {"apply", "commit"} => job[s] # job[r]
    BY <2>1 DEF Lifecycle, CreateIsFresh, Barred
  <2>3. op[r] = "create" => \A q \in Request \ {r} : job[q] = job[r] => Barred(q)
    BY <2>1 DEF Lifecycle, CreateIsFresh
  <2>4. \A q \in Request : pc[q] # "idle" => job[q] \in Job
    BY DEF Bookkeeping, Assigned
  <2>5. CreateIsFresh'
    BY <1>3, <2>1, <2>2, <2>4
    DEF Applied, Retriggered, Bookkeeping, TypeOK, Lifecycle, CreateIsFresh, Barred
  <2>6. CreateAdded'
    BY <1>3, <2>1, <2>2, <2>4 DEF Applied, Bookkeeping, TypeOK, Lifecycle, CreateAdded
  <2>7. DeleteDone'
    BY <1>3, <2>1, <2>3, <2>4
    DEF Applied, Bookkeeping, Answered, TypeOK, Lifecycle, DeleteDone, Barred
  <2>8. DeletedIsGone'
    BY <1>3, <2>1, <2>3, <2>4
    DEF Applied, Bookkeeping, Answered, TypeOK, Lifecycle, DeletedIsGone, Barred
  <2>9. RowKept'
    BY <1>3, <2>1 DEF Applied, Bookkeeping, TypeOK, Lifecycle, RowKept, AtWork
  <2> QED
    BY <2>5, <2>6, <2>7, <2>8, <2>9 DEF Lifecycle
<1>4. ASSUME NEW r \in Request, Closed(r) PROVE Lifecycle'
  <2>1. PICK code \in {200, 201, 204, 409, 500} :
          /\ pc' = [pc EXCEPT ![r] = "done"] /\ reply' = [reply EXCEPT ![r] = code]
          /\ code = 204 => op[r] = "delete"
          /\ op[r] = "delete" => rows'[job[r]] = None \/ code = 500
    BY <1>4 DEF Closed
  <2>2. /\ pc[r] = "commit" /\ reply[r] = 0 /\ job[r] \in Job
        /\ UNCHANGED <<store, op, job, finished, botched>>
    BY <1>4 DEF Closed, Bookkeeping, Assigned, Answered
  <2>3. \A s \in Request \ {r} :
          op[s] = "create" /\ pc[s] \in {"apply", "commit"} => job[s] # job[r]
    BY <2>2 DEF Lifecycle, CreateIsFresh, Barred
  <2>4. op[r] = "create" => \A q \in Request \ {r} : job[q] = job[r] => Barred(q)
    BY <2>2 DEF Lifecycle, CreateIsFresh
  <2>5. \A q \in Request : pc[q] # "idle" => job[q] \in Job
    BY DEF Bookkeeping, Assigned
  <2>6. CreateIsFresh'
    BY <1>4, <2>1, <2>2, <2>3, <2>5
    DEF Closed, Bookkeeping, TypeOK, Lifecycle, CreateIsFresh, Barred
  <2>7. CreateAdded' /\ DeleteDone'
    BY <2>1, <2>2 DEF Bookkeeping, TypeOK, Lifecycle, CreateAdded, DeleteDone
  <2>8. DeletedIsGone'
    BY <1>4, <2>1, <2>2, <2>4, <2>5
    DEF Closed, Bookkeeping, Answered, TypeOK, Lifecycle, DeleteDone, DeletedIsGone, Barred
  <2>9. RowKept'
    BY <1>4, <2>1, <2>2
    DEF Closed, Bookkeeping, TypeOK, Lifecycle, CreateAdded, RowKept, AtWork
  <2> QED
    BY <2>6, <2>7, <2>8, <2>9 DEF Lifecycle
<1>5. ASSUME NEW p \in Process, WriteBack(p) \/ WriteBackFails(p) PROVE Lifecycle'
  <2>1. /\ held[p] # None
        /\ UNCHANGED <<store, finished>> \/ WrittenBack(p)
        /\ UNCHANGED <<rows, pc, reply, op, job, botched>>
    BY <1>5 DEF WriteBack, WriteBackFails, FailsAs, Fired
  <2>2. \A j \in Job : /\ store[j] = None => store'[j] = None
                       /\ store'[j] = None => store[j] = None \/ j \in finished'
    BY <2>1, WrittenBackEffect DEF Bookkeeping
  <2>3. /\ finished \subseteq finished'
        /\ \A j \in finished' : j \in finished \/ store[j] # None
    BY <2>1, WrittenBackEffect DEF Bookkeeping
  <2>4. \A q \in Request : pc[q] # "idle" => job[q] \in Job
    BY DEF Bookkeeping, Assigned
  <2>5. CreateIsFresh' /\ CreateAdded'
    BY <2>1, <2>2, <2>3, <2>4 DEF Lifecycle, CreateIsFresh, CreateAdded, Barred
  <2>6. DeleteDone' /\ DeletedIsGone'
    BY <2>1, <2>2, <2>4
    DEF Lifecycle, DeleteDone, DeletedIsGone, Bookkeeping, Answered
  <2>7. RowKept'
    BY <2>1, <2>2, <2>3 DEF Lifecycle, RowKept, AtWork
  <2> QED
    BY <2>5, <2>6, <2>7 DEF Lifecycle
<1>6. ASSUME NEW p \in Process, Crash(p) PROVE Lifecycle'
  <2>1. /\ pc' = [r \in Request |-> IF at[r] = p /\ AtWork(r) THEN "crashed" ELSE pc[r]]
        /\ UNCHANGED <<rows, store, reply, op, job, finished, botched>>
    BY <1>6 DEF Crash
  <2> QED
    BY <2>1
    DEF Lifecycle, CreateIsFresh, CreateAdded, DeleteDone, DeletedIsGone, RowKept,
        AtWork, Barred
<1>7. ASSUME UNCHANGED <<rows, store, pc, reply, op, job, finished, botched>>
      PROVE  Lifecycle'
  BY <1>7
  DEF Lifecycle, CreateIsFresh, CreateAdded, DeleteDone, DeletedIsGone, RowKept,
      AtWork, Barred
<1>8. ASSUME NEW r \in Request, ReadJob(r) PROVE Lifecycle'
  BY <1>7, <1>8 DEF ReadJob
<1>9. ASSUME NEW p \in Process,
             (\E j \in Job : Fire(p, j)) \/ Sleep(p) \/ LookFails(p) \/ Shutdown(p) \/ Start(p)
      PROVE  Lifecycle'
  BY <1>7, <1>9 DEF Fire, Sleep, LookFails, Shutdown, Start
<1>10. CASE UNCHANGED vars
  BY <1>7, <1>10 DEF vars
<1> QED
  BY <1>1, <1>2, <1>3, <1>4, <1>5, <1>6, <1>8, <1>9, <1>10, AppliedStep, ClosedStep
  DEF Next, Handle

\* The job keeps its trigger, or is removed as that has run out, or both.
Steady(j) ==
    /\ store'[j] # None => store[j] # None /\ store'[j].trigger = store[j].trigger
    /\ j \in finished' => j \in finished \/ (store[j] # None /\ store[j].trigger \in Finite)

\* What a job is known to have for a trigger it keeps.
LEMMA SteadyTrigger ==
  ASSUME NEW j, NEW t, Steady(j), HasTrigger(j, t)
  PROVE  /\ store'[j] # None => store'[j].trigger = t
         /\ j \in finished' => t \in Finite
BY DEF Steady, HasTrigger

\* Requests past their load stay so; that an update is under way, or has
\* failed, is no longer so only when it is answered 200.
LEMMA UpdatesStay ==
  ASSUME NEW j, NEW r \in Request,
         \A q \in Request \ {r} : /\ pc'[q] = pc[q] /\ op'[q] = op[q]
                                  /\ job'[q] = job[q] /\ reply'[q] = reply[q],
         r \in Updates(j) => r \in Updates(j)' /\ Contended(j)'
  PROVE  Updates(j) \subseteq Updates(j)' /\ (Contended(j) => Contended(j)')
<1>1. \A q \in Updates(j) : q \in Updates(j)'
  BY DEF Updates
<1>2. ASSUME NEW q \in Updates(j), NEW s \in Updates(j), q # s PROVE Contended(j)'
  BY <1>1, <1>2 DEF Contended
<1>3. ASSUME NEW q \in Updates(j),
             pc[q] \in {"apply", "commit", "crashed"} \/ reply[q] = 500
      PROVE  Contended(j)'
  <2>1. CASE q = r
    BY <1>3, <2>1
  <2>2. CASE q # r
    <3>1. pc'[q] = pc[q] /\ reply'[q] = reply[q] /\ q \in Updates(j)'
      BY <1>1, <2>2 DEF Updates
    <3> QED
      BY <1>3, <3>1 DEF Contended
  <2> QED
    BY <2>1, <2>2
<1> QED
  BY <1>1, <1>2, <1>3 DEF Contended

\* A step after which each job is steady or on record as overruled, and no
\* request is about to commit that was not before.
LEMMA SteadyStep ==
  ASSUME Triggers, \A j \in Job : Steady(j) \/ j \in overruled',
         \A r \in Request : pc[r] # "idle" => job[r] \in Job,
         overruled \subseteq overruled', rows' = rows, arg' = arg,
         \A r \in Request : pc'[r] = "commit" /\ op'[r] \in {"create", "trigger"} =>
           pc[r] = "commit" /\ op'[r] = op[r] /\ job'[r] = job[r],
         \A j \in Job : /\ Updates(j) \subseteq Updates(j)'
                        /\ rows[j] # None /\ Contended(j) => Contended(j)'
  PROVE  CreateTrigger' /\ UpdateTrigger' /\ RowTrigger'
<1>1. \A t : \A j \in Job : HasTrigger(j, t) /\ j \notin overruled' =>
        /\ store'[j] # None => store'[j].trigger = t
        /\ j \in finished' => t \in Finite
  BY SteadyTrigger
<1>2. CreateTrigger'
  <2> SUFFICES ASSUME NEW r \in Request,
                      pc'[r] = "commit", op'[r] = "create", job'[r] \notin overruled'
               PROVE  HasTrigger(job[r], arg[r])'
    BY DEF CreateTrigger
  <2>1. pc[r] = "commit" /\ op[r] = "create" /\ job'[r] = job[r] /\ job[r] \in Job
    OBVIOUS
  <2>2. HasTrigger(job[r], arg[r])
    BY <2>1 DEF Triggers, CreateTrigger
  <2> QED
    BY <1>1, <2>1, <2>2 DEF HasTrigger
<1>3. UpdateTrigger'
  <2> SUFFICES ASSUME NEW r \in Request,
                      pc'[r] = "commit", op'[r] = "trigger", job'[r] \notin overruled',
                      \A s \in Updates(job[r])' : s = r
               PROVE  HasTrigger(job[r], arg[r])'
    BY DEF UpdateTrigger
  <2>1. pc[r] = "commit" /\ op[r] = "trigger" /\ job'[r] = job[r] /\ job[r] \in Job
    OBVIOUS
  <2>2. HasTrigger(job[r], arg[r])
    BY <2>1 DEF Triggers, UpdateTrigger
  <2> QED
    BY <1>1, <2>1, <2>2 DEF HasTrigger
<1>4. RowTrigger'
  <2> SUFFICES ASSUME NEW j \in Job, rows'[j] # None, j \notin overruled', ~Contended(j)'
               PROVE  HasTrigger(j, rows[j].trigger)'
    BY DEF RowTrigger
  <2>1. HasTrigger(j, rows[j].trigger)
    BY DEF Triggers, RowTrigger
  <2> QED
    BY <1>1, <2>1 DEF HasTrigger
<1> QED
  BY <1>2, <1>3, <1>4

\* A step of a handler on the store keeps what is known of triggers.
LEMMA TriggersApplied ==
  ASSUME Bookkeeping, Lifecycle, Triggers, NEW r \in Request, Applied(r), Retriggered(r)
  PROVE  Triggers'
<1> USE DEF Body, Goto, Respond
<1>1. /\ pc[r] = "apply" /\ job[r] \in Job /\ reply[r] = 0
      /\ UNCHANGED <<rows, op, job, arg>>
      /\ \A q \in Request \ {r} : pc'[q] = pc[q] /\ reply'[q] = reply[q]
      /\ pc'[r] = "commit" \/ (op[r] \in {"create", "trigger"} /\ pc'[r] = "done" /\ reply'[r] = 500)
  BY DEF Applied, Bookkeeping, TypeOK, Assigned, Answered
<1>2. \A i \in Job \ {job[r]} :
        /\ store'[i] = store[i] /\ (i \in finished' <=> i \in finished)
        /\ i \in overruled' <=> i \in overruled
  BY DEF Applied
<1>3. /\ overruled \subseteq overruled' /\ finished \subseteq finished'
      /\ finished' \subseteq finished \cup {job[r]}
      /\ store'[job[r]] # None => store[job[r]] # None \/ op[r] = "create"
  BY DEF Applied
<1>4. /\ finished' # finished =>
           /\ store[job[r]] # None /\ store'[job[r]] = None
           /\ store[job[r]].trigger \in Finite \/ job[r] \in overruled'
  BY DEF Retriggered
<1>5. op[r] = "create" => job[r] \notin finished /\ store[job[r]] = None /\ rows[job[r]] = None
  BY <1>1 DEF Lifecycle, CreateIsFresh
<1>6. \A s \in Request \ {r} :
        /\ op[s] = "create" /\ pc[s] \in {"apply", "commit"} => job[s] # job[r]
        /\ op[r] = "create" /\ pc[s] \in {"apply", "commit"} => job[s] # job[r]
  BY <1>1 DEF Bookkeeping, Answered, Lifecycle, CreateIsFresh, Barred
<1>7. \A s \in Request : pc[s] # "idle" => job[s] \in Job
  BY DEF Bookkeeping, Assigned
<1>8. FinishedGone'
  <2> SUFFICES ASSUME NEW j \in finished' PROVE store'[j] = None
    BY DEF FinishedGone
  <2>1. CASE j # job[r]
    <3>1. j \in finished /\ j \in Job
      BY <1>3, <2>1 DEF Bookkeeping, TypeOK
    <3> QED
      BY <1>2, <2>1, <3>1 DEF Triggers, FinishedGone
  <2>2. CASE j = job[r] /\ j \in finished
    BY <1>3, <1>5, <2>2 DEF Triggers, FinishedGone
  <2>3. CASE j = job[r] /\ j \notin finished
    BY <1>4, <2>3
  <2> QED
    BY <2>1, <2>2, <2>3
<1>9. Known'
  BY <1>1, <1>2 DEF Triggers, Known
<1>10. ASSUME NEW j \in Job, op[r] = "trigger" => job[r] # j \/ Contended(j)'
       PROVE  Updates(j) \subseteq Updates(j)' /\ (Contended(j) => Contended(j)')
  <2>1. r \in Updates(j) => r \in Updates(j)' /\ Contended(j)'
    BY <1>1, <1>10 DEF Updates
  <2> QED
    BY <1>1, <2>1, UpdatesStay
<1>11. \A j \in Job : op[r] = "trigger" /\ j = job[r] => Contended(j)' /\ r \in Updates(j)'
  BY <1>1 DEF Contended, Updates
<1>12. CASE op[r] \notin {"create", "trigger"}
  <2>1. Steady(job[r]) \/ job[r] \in overruled'
    BY <1>3, <1>4, <1>12 DEF Retriggered, Steady
  <2>2. \A j \in Job : Steady(j) \/ j \in overruled'
    BY <1>2, <2>1 DEF Steady
  <2>3. CreateTrigger' /\ UpdateTrigger' /\ RowTrigger'
    BY <1>1, <1>3, <1>7, <1>10, <1>12, <2>2, SteadyStep
  <2> QED
    BY <1>8, <1>9, <2>3 DEF Triggers
<1>13. CASE op[r] \in {"create", "trigger"}
  <2>1. pc'[r] = "commit" =>
          /\ store'[job[r]].trigger = arg[r]
          /\ job[r] \notin finished'
    BY <1>3, <1>4, <1>5, <1>13 DEF Retriggered, Triggers, FinishedGone
  <2>2. CreateTrigger'
    BY <1>1, <1>2, <1>6, <1>7, <2>1 DEF Triggers, CreateTrigger, HasTrigger
  <2>3. UpdateTrigger'
    <3> SUFFICES ASSUME NEW s \in Request,
                        pc'[s] = "commit", op[s] = "trigger", job[s] \notin overruled',
                        \A q \in Updates(job[s])' : q = s
                 PROVE  HasTrigger(job[s], arg[s])'
      BY <1>1 DEF UpdateTrigger
    <3>1. CASE s = r
      BY <1>1, <2>1, <3>1 DEF HasTrigger
    <3>2. CASE s # r
      <4>1. pc[s] = "commit" /\ job[s] \in Job
        BY <1>1, <1>7, <3>2
      <4>2. job[s] # job[r]
        BY <1>1, <1>6, <1>11, <1>13, <3>2, <4>1
      <4>3. Updates(job[s]) \subseteq Updates(job[s])'
        BY <1>1 DEF Updates
      <4>4. HasTrigger(job[s], arg[s])
        BY <1>2, <4>1, <4>2, <4>3 DEF Triggers, UpdateTrigger
      <4> QED
        BY <1>1, <1>2, <4>1, <4>2, <4>4 DEF HasTrigger
    <3> QED
      BY <3>1, <3>2
  <2>4. RowTrigger'
    <3> SUFFICES ASSUME NEW j \in Job, rows[j] # None, j \notin overruled', ~Contended(j)'
                 PROVE  HasTrigger(j, rows[j].trigger)'
      BY <1>1 DEF RowTrigger
    <3>1. j # job[r]
      BY <1>1, <1>5, <1>11, <1>13
    <3>2. ~Contended(j)
      BY <1>10, <3>1
    <3>3. HasTrigger(j, rows[j].trigger)
      BY <1>2, <3>1, <3>2 DEF Triggers, RowTrigger
    <3> QED
      BY <1>1, <1>2, <3>1, <3>3 DEF HasTrigger
  <2> QED
    BY <1>8, <1>9, <2>2, <2>3, <2>4 DEF Triggers
<1> QED
  BY <1>12, <1>13

\* So does a commit: the row gets the trigger that is in the store.
LEMMA TriggersClosed ==
  ASSUME Bookkeeping, Lifecycle, Triggers, NEW r \in Request, Closed(r), Rowed(r)
  PROVE  Triggers'
<1> USE DEF Body, Ghosts, Respond
<1>1. /\ pc[r] = "commit" /\ pc'[r] = "done" /\ job[r] \in Job
      /\ UNCHANGED <<store, finished, overruled, op, job, arg>>
      /\ \A q \in Request \ {r} : pc'[q] = pc[q] /\ reply'[q] = reply[q]
      /\ \A i \in Job \ {job[r]} : rows'[i] = rows[i]
      /\ rows'[job[r]] # None => rows[job[r]] # None \/ op[r] = "create"
  BY DEF Closed, Bookkeeping, TypeOK, Assigned
<1>2. FinishedGone' /\ Known'
  BY <1>1 DEF Triggers, FinishedGone, Known
<1>3. \A j \in Job : Updates(j) \subseteq Updates(j)'
  BY <1>1 DEF Updates
<1>4. CreateTrigger'
  BY <1>1 DEF Triggers, CreateTrigger, HasTrigger
<1>5. UpdateTrigger'
  <2> SUFFICES ASSUME NEW s \in Request \ {r},
                      pc[s] = "commit", op[s] = "trigger", job[s] \notin overruled,
                      \A q \in Updates(job[s])' : q = s
               PROVE  HasTrigger(job[s], arg[s])'
    BY <1>1 DEF UpdateTrigger
  <2>1. job[s] \in Job
    BY DEF Bookkeeping, Assigned
  <2>2. \A q \in Updates(job[s]) : q = s
    BY <1>1, <1>3, <2>1
  <2>3. HasTrigger(job[s], arg[s])
    BY <2>2 DEF Triggers, UpdateTrigger
  <2> QED
    BY <1>1, <2>3 DEF HasTrigger
<1>6. RowTrigger'
  <2> SUFFICES ASSUME NEW j \in Job, rows'[j] # None, j \notin overruled, ~Contended(j)'
               PROVE  HasTrigger(j, rows[j].trigger)'
    BY <1>1 DEF RowTrigger
  <2>1. ASSUME r \notin Updates(j) PROVE ~Contended(j)
    BY <1>1, <2>1, UpdatesStay
  <2>2. CASE j # job[r]
    <3>1. HasTrigger(j, rows[j].trigger)
      BY <1>1, <2>1, <2>2 DEF Triggers, RowTrigger, Updates
    <3> QED
      BY <1>1, <2>2, <3>1 DEF HasTrigger
  <2>3. CASE j = job[r] /\ op[r] = "trigger"
    <3>1. r \in Updates(j) /\ r \in Updates(j)'
      BY <1>1, <2>3 DEF Updates
    <3>2. reply'[r] # 500
      BY <3>1 DEF Contended
    <3>3. \A q \in Updates(j) : q = r
      BY <1>3, <3>1 DEF Contended
    <3>4. rows'[j].trigger = arg[r]
      BY <2>3, <3>2 DEF Rowed
    <3>5. HasTrigger(j, arg[r])
      BY <1>1, <2>3, <3>3 DEF Triggers, UpdateTrigger
    <3> QED
      BY <1>1, <3>4, <3>5 DEF HasTrigger
  <2>4. CASE j = job[r] /\ op[r] = "create" /\ rows'[j].trigger = arg[r]
    <3>1. HasTrigger(j, arg[r])
      BY <1>1, <2>4 DEF Triggers, CreateTrigger
    <3> QED
      BY <1>1, <2>4, <3>1 DEF HasTrigger
  <2>5. CASE /\ j = job[r] /\ op[r] # "trigger"
             /\ rows[j] # None /\ rows'[j].trigger = rows[j].trigger
    <3>1. HasTrigger(j, rows[j].trigger)
      BY <1>1, <2>1, <2>5 DEF Triggers, RowTrigger, Updates
    <3> QED
      BY <1>1, <2>5, <3>1 DEF HasTrigger
  <2> QED
    BY <2>2, <2>3, <2>4, <2>5 DEF Rowed
<1> QED
  BY <1>2, <1>4, <1>5, <1>6 DEF Triggers

\* What a row shows and what the store has for a trigger are the same, but
\* where update_trigger requests collide or fail, or were overruled.
LEMMA TriggersNext == Bookkeeping /\ Lifecycle /\ Triggers /\ [Next]_vars => Triggers'
<1> SUFFICES ASSUME Bookkeeping, Lifecycle, Triggers, [Next]_vars PROVE Triggers'
  OBVIOUS
<1> USE DEF Body, Loops, Ghosts
<1>1. \A s \in Request : pc[s] # "idle" => job[s] \in Job
  BY DEF Bookkeeping, Assigned
<1>2. ASSUME UNCHANGED <<rows, store, finished, overruled, arg>>,
             \A s \in Request : /\ pc[s] # "idle" => pc'[s] # "idle" /\ job'[s] = job[s]
                                /\ pc'[s] = "commit" /\ op'[s] \in {"create", "trigger"} =>
                                     pc[s] = "commit" /\ op'[s] = op[s] /\ job'[s] = job[s],
             \A j \in Job : /\ Updates(j) \subseteq Updates(j)'
                            /\ rows[j] # None /\ Contended(j) => Contended(j)'
      PROVE  Triggers'
  <2>1. \A j \in Job : Steady(j)
    BY <1>2 DEF Steady
  <2>2. CreateTrigger' /\ UpdateTrigger' /\ RowTrigger'
    BY <1>1, <1>2, <2>1, SteadyStep
  <2>3. FinishedGone' /\ Known'
    BY <1>2 DEF Triggers, FinishedGone, Known
  <2> QED
    BY <2>2, <2>3 DEF Triggers
<1>3. ASSUME NEW r \in Request, NEW o \in Ops, NEW j \in Job, NEW t \in Trigger,
             NEW p \in Process, Receive(r, o, j, t, p)
      PROVE  Triggers'
  <2>1. /\ pc[r] = "idle" /\ pc'[r] \in {"load", "apply"}
        /\ UNCHANGED <<rows, store, finished, overruled>>
        /\ \A q \in Request \ {r} : /\ pc'[q] = pc[q] /\ op'[q] = op[q] /\ arg'[q] = arg[q]
                                    /\ job'[q] = job[q] /\ reply'[q] = reply[q]
    BY <1>3 DEF Receive, Goto, Bookkeeping, TypeOK
  <2>2. \A i \in Job : /\ Updates(i) \subseteq Updates(i)'
                       /\ Contended(i) => Contended(i)'
    BY <2>1, UpdatesStay DEF Updates
  <2>3. FinishedGone' /\ Known'
    BY <2>1 DEF Triggers, FinishedGone, Known
  <2>4. CreateTrigger'
    BY <2>1 DEF Triggers, CreateTrigger, HasTrigger
  <2>5. UpdateTrigger'
    <3> SUFFICES ASSUME NEW s \in Request \ {r},
                        pc[s] = "commit", op[s] = "trigger", job[s] \notin overruled,
                        \A q \in Updates(job[s])' : q = s
                 PROVE  HasTrigger(job[s], arg[s])'
      BY <2>1 DEF UpdateTrigger
    <3>1. job[s] \in Job
      BY <1>1
    <3>2. \A q \in Updates(job[s]) : q = s
      BY <2>1, <2>2, <3>1
    <3>3. HasTrigger(job[s], arg[s])
      BY <3>2 DEF Triggers, UpdateTrigger
    <3> QED
      BY <2>1, <3>3 DEF HasTrigger
  <2>6. RowTrigger'
    BY <2>1, <2>2 DEF Triggers, RowTrigger, HasTrigger
  <2> QED
    BY <2>3, <2>4, <2>5, <2>6 DEF Triggers
<1>4. ASSUME NEW r \in Request, Load(r) \/ LoadFails(r) PROVE Triggers'
  <2>1. /\ UNCHANGED <<rows, store, finished, overruled, op, job, arg>>
        /\ pc[r] = "load" /\ pc'[r] \in {"apply", "done"}
        /\ \A q \in Request \ {r} : pc'[q] = pc[q] /\ reply'[q] = reply[q]
    BY <1>4 DEF Load, LoadFails, Goto, Respond, Bookkeeping, TypeOK
  <2>2. \A i \in Job : /\ Updates(i) \subseteq Updates(i)'
                       /\ Contended(i) => Contended(i)'
    BY <2>1, UpdatesStay DEF Updates
  <2>3. \A s \in Request : /\ pc[s] # "idle" => pc'[s] # "idle"
                           /\ pc'[s] = "commit" => pc[s] = "commit"
    BY <2>1
  <2> QED
    BY <1>2, <2>1, <2>2, <2>3
<1>5. ASSUME NEW p \in Process, WriteBack(p) \/ WriteBackFails(p) PROVE Triggers'
  <2>1. /\ held[p] # None
        /\ UNCHANGED <<store, finished, overruled>> \/ WrittenBack(p)
        /\ UNCHANGED <<rows, pc, reply, op, job, arg>>
    BY <1>5 DEF WriteBack, WriteBackFails, FailsAs, Fired
  <2>2. CASE UNCHANGED <<store, finished, overruled>>
    BY <1>2, <2>1, <2>2 DEF Updates, Contended
  <2>3. CASE WrittenBack(p)
    <3> DEFINE k == held[p].job
               t == held[p].trigger
    <3>1. /\ k \in Job /\ store[k] # None
          /\ \A j \in Job \ {k} : store'[j] = store[j]
          /\ overruled \subseteq overruled' /\ overruled' \subseteq overruled \cup {k}
          /\ t = store[k].trigger \/ k \in overruled'
          /\ \/ store'[k] = Scheduled(t) /\ store'[k] # None /\ finished' = finished
             \/ store'[k] = None /\ finished' = finished \cup {k} /\ t \in Finite
      BY <2>1, <2>3, WrittenBackEffect DEF Bookkeeping
    <3> HIDE DEF k, t
    <3>2. Scheduled(t).trigger = t
      BY DEF Scheduled
    <3>3. \A j \in Job : Steady(j) \/ j \in overruled'
      BY <3>1, <3>2 DEF Steady
    <3>4. CreateTrigger' /\ UpdateTrigger' /\ RowTrigger'
      BY <1>1, <2>1, <3>1, <3>3, SteadyStep DEF Updates, Contended
    <3>5. FinishedGone'
      BY <3>1 DEF Triggers, FinishedGone, Bookkeeping, TypeOK
    <3>6. Known'
      BY <2>1, <3>1 DEF Triggers, Known
    <3> QED
      BY <3>4, <3>5, <3>6 DEF Triggers
  <2> QED
    BY <2>1, <2>2, <2>3
<1>6. ASSUME NEW p \in Process, Crash(p) PROVE Triggers'
  <2>1. /\ UNCHANGED <<rows, store, finished, overruled, op, job, arg, reply>>
        /\ \A q \in Request : pc'[q] = pc[q] \/ (AtWork(q) /\ pc'[q] = "crashed")
    BY <1>6 DEF Crash
  <2>2. \A i \in Job : Updates(i) \subseteq Updates(i)'
    BY <2>1 DEF Updates, AtWork
  <2>3. \A i \in Job : Contended(i) => Contended(i)'
    <3> SUFFICES ASSUME NEW i \in Job, Contended(i) PROVE Contended(i)'
      OBVIOUS
    <3>1. CASE \E q, s \in Updates(i) : q # s
      BY <2>2, <3>1 DEF Contended
    <3>2. ASSUME NEW q \in Updates(i),
                 pc[q] \in {"apply", "commit", "crashed"} \/ reply[q] = 500
          PROVE  Contended(i)'
      <4>1. q \in Request /\ q \in Updates(i)'
        BY <2>2 DEF Updates
      <4> QED
        BY <2>1, <3>2, <4>1 DEF Contended
    <3> QED
      BY <3>1, <3>2 DEF Contended
  <2>4. \A s \in Request : /\ pc[s] # "idle" => pc'[s] # "idle"
                           /\ pc'[s] = "commit" => pc[s] = "commit"
    BY <2>1
  <2> QED
    BY <1>2, <2>1, <2>2, <2>3, <2>4
<1>7. ASSUME UNCHANGED <<rows, store, finished, overruled, pc, reply, op, job, arg>>
      PROVE  Triggers'
  BY <1>2, <1>7 DEF Updates, Contended
<1>8. ASSUME NEW r \in Request, ReadJob(r) PROVE Triggers'
  BY <1>7, <1>8 DEF ReadJob
<1>9. ASSUME NEW p \in Process,
             (\E j \in Job : Fire(p, j)) \/ Sleep(p) \/ LookFails(p) \/ Shutdown(p) \/ Start(p)
      PROVE  Triggers'
  BY <1>7, <1>9 DEF Fire, Sleep, LookFails, Shutdown, Start
<1>10. CASE UNCHANGED vars
  BY <1>7, <1>10 DEF vars
<1> QED
  BY <1>3, <1>4, <1>5, <1>6, <1>8, <1>9, <1>10, AppliedStep, ClosedStep,
     TriggersApplied, TriggersClosed
  DEF Next, Handle

\* Someone is awake for every job that has a next run time.
LEMMA AwaitedNext == Bookkeeping /\ Awaited /\ [Next]_vars => Awaited'
<1> SUFFICES ASSUME Bookkeeping, Awaited, [Next]_vars PROVE Awaited'
  OBVIOUS
<1> USE DEF Bookkeeping, Body, Loops, Ghosts
<1>1. \A r \in botched : r \in Request /\ pc[r] # "idle"
  BY DEF TypeOK, BotchedBegan
<1>2. ASSUME UNCHANGED <<store, timer, botched, job, op>> PROVE Awaited'
  BY <1>2 DEF Awaited, Live
<1>3. ASSUME NEW r \in Request, NEW o \in Ops, NEW j \in Job, NEW t \in Trigger,
             NEW p \in Process, Receive(r, o, j, t, p)
      PROVE  Awaited'
  <2>1. pc[r] = "idle" /\ UNCHANGED <<store, timer, botched>>
    BY <1>3 DEF Receive
  <2>2. \A q \in botched : job'[q] = job[q] /\ op'[q] = op[q]
    BY <1>1, <1>3, <2>1 DEF Receive, TypeOK
  <2> QED
    BY <2>1, <2>2 DEF Awaited, Live
<1>4. ASSUME NEW r \in Request, Load(r) \/ LoadFails(r) PROVE Awaited'
  BY <1>2, <1>4 DEF Load, LoadFails
<1>5. ASSUME NEW r \in Request, Applied(r) PROVE Awaited'
  <2>1. job[r] \in Job /\ at[r] \in Process
    BY <1>5 DEF Applied, Assigned
  <2>2. CASE timer' = [timer EXCEPT ![at[r]] = "set"]
    <3>1. timer'[at[r]] # "idle"
      BY <2>1, <2>2 DEF TypeOK
    <3> QED
      BY <2>1, <3>1 DEF Awaited
  <2>3. CASE timer' = timer
    <3> SUFFICES ASSUME NEW j \in Job, Live(j)',
                        \A p \in Process : timer[p] = "idle"
                 PROVE  \E r2 \in botched' : job'[r2] = j
                                             /\ op'[r2] \in {"create", "resume", "trigger"}
      BY <2>3 DEF Awaited
    <3>1. UNCHANGED <<job, op>> /\ botched \subseteq botched'
      BY <1>5 DEF Applied
    <3>2. CASE store'[j] = store[j]
      BY <3>1, <3>2 DEF Awaited, Live
    <3>3. CASE store'[j] # store[j]
      <4>1. j = job[r]
        BY <1>5, <3>3 DEF Applied
      <4>2. timer'[at[r]] # "set"
        BY <2>1, <2>3
      <4>3. r \in botched' /\ op[r] \in {"create", "resume", "trigger"}
        BY <1>5, <3>3, <4>1, <4>2 DEF Applied, Live
      <4> QED
        BY <3>1, <4>1, <4>3
    <3> QED
      BY <3>2, <3>3
  <2> QED
    BY <1>5, <2>2, <2>3 DEF Applied
<1>6. ASSUME NEW r \in Request, Closed(r) PROVE Awaited'
  BY <1>2, <1>6 DEF Closed
<1>7. ASSUME \/ \E r \in Request : ReadJob(r)
             \/ \E p \in Process, j \in Job : Fire(p, j)
      PROVE  Awaited'
  BY <1>2, <1>7 DEF ReadJob, Fire
<1>8. ASSUME NEW p \in Process, WriteBack(p) \/ WriteBackFails(p) \/ LookFails(p)
                                \/ Crash(p) \/ Shutdown(p) \/ Start(p)
      PROVE  Awaited'
  \* What this process does keeps its timer, or leaves it unset for another
  \* reason than the want of a job.
  <2>1. timer'[p] # "idle"
    BY <1>8 DEF WriteBack, WriteBackFails, LookFails, Crash, Shutdown, Start, Stall, Down,
                LetGo, FiringAwake, TypeOK
  <2> QED
    BY <2>1 DEF Awaited
<1>9. ASSUME NEW p \in Process, Sleep(p) PROVE Awaited'
  BY <1>9 DEF Sleep, Awaited, Live
<1>10. CASE UNCHANGED vars
  BY <1>2, <1>10 DEF vars
<1> QED
  BY <1>3, <1>4, <1>5, <1>6, <1>7, <1>8, <1>9, <1>10, AppliedStep, ClosedStep
  DEF Next, Handle

\* The invariant is kept by every step.
LEMMA NextInv == IInv /\ [Next]_vars => IInv'
<1>1. Triggers => Known
  BY DEF Triggers
<1> QED
  BY <1>1, BookkeepingNext, LifecycleNext, TriggersNext, AwaitedNext DEF IInv

\* And so holds always.
LEMMA Invariant == Spec => []IInv
BY InitInv, NextInv, PTL DEF Spec

\* Every reachable state is well typed.
THEOREM TypeCorrect == Spec => []TypeOK
<1>1. IInv => TypeOK
  BY DEF IInv, Bookkeeping
<1> QED
  BY <1>1, Invariant, PTL

\* "Removes the job from both the scheduler and database" (scheduler.py:154):
\* what a 204 has promised stays true whatever other handlers and schedulers
\* do, unless remove_job failed.
THEOREM DeletedStaysGone == Spec => []DeletedIsGone
<1>1. IInv => DeletedIsGone
  BY DEF IInv, Lifecycle
<1> QED
  BY <1>1, Invariant, PTL

\* However handlers and schedulers overlap and fail, a row is without a job
\* only when a delete was not completed, when the trigger it shows has run
\* out, when update_trigger requests for it collided or were not answered 200,
\* or when its trigger in the store gave way to one read before.
THEOREM RowsHaveJobs == Spec => []RowHasJob
<1>1. IInv => RowHasJob
  <2> SUFFICES ASSUME IInv, NEW j \in Job, rows[j] # None, store[j] = None, j \notin overruled,
                      ~\E r \in Request : /\ job[r] = j /\ op[r] = "delete"
                                          /\ \/ AtWork(r)
                                             \/ pc[r] = "crashed"
                                             \/ reply[r] = 500
               PROVE  j \in finished /\ (rows[j].trigger \in Finite \/ Contended(j))
    BY DEF RowHasJob
  <2>1. j \in finished
    BY DEF IInv, Lifecycle, RowKept
  <2>2. ~Contended(j) => HasTrigger(j, rows[j].trigger)
    BY DEF IInv, Triggers, RowTrigger
  <2> QED
    BY <2>1, <2>2 DEF HasTrigger
<1> QED
  BY <1>1, Invariant, PTL

\* All processes sleep only when no job has a next run time, although none
\* hears of what the others do.
THEOREM JobsAwaited == Spec => []Awaited
<1>1. IInv => Awaited
  BY DEF IInv
<1> QED
  BY <1>1, Invariant, PTL

-----------------------------------------------------------------------------
(***************************************************************************)
(* When nothing fails, and names do not collide, what is in the store has  *)
(* a row, or is about to get one.                                          *)
(***************************************************************************)
NamesDiffer == \A i, j \in Job : NameOf[i] = NameOf[j] => i = j

RowPending ==
    \A j \in Job : store[j] # None =>
      \/ rows[j] # None
      \/ \E r \in Request : op[r] = "create" /\ pc[r] = "commit" /\ job[r] = j

RowInv == botched = {} /\ RowPending

(***************************************************************************)
(* The gauge of a single process, when triggers do not run out and replies *)
(* are not lost.                                                           *)
(***************************************************************************)
GaugeInv == finished = {} /\ \A p \in Process : gauge[p] = Cardinality(Jobs)

(***************************************************************************)
(* One request at a time to a single process, when nothing fails and no    *)
(* trigger runs out.  The row and the store agree about each job (Agree)   *)
(* but for the one between a request's two writes, of which the request    *)
(* knows what is in the store (Written).  What the process holds is still  *)
(* as it was read (HeldAsRead), so that nothing is overwritten.            *)
(***************************************************************************)
InTurn ==
    /\ OneAtATime /\ Faults = {} /\ Finite = {}
    /\ \A p, q \in Process : p = q

Alone == \A r, s \in Request : AtWork(r) /\ AtWork(s) => r = s

HeldAsRead ==
    \A p \in Process : held[p] # None =>
      /\ store[held[p].job] # None
      /\ store[held[p].job].trigger = held[p].trigger
      /\ Fired(p) => store[held[p].job] = Scheduled(held[p].trigger)

Agree(j) == rows[j] # None =>
    /\ store[j] # None /\ rows[j].trigger = store[j].trigger
    /\ rows[j].status = "ACTIVE" => store[j].live
    /\ rows[j].status = "PAUSED" /\ store[j].live =>
         \E r \in Request : job[r] = j /\ op[r] = "trigger" /\ reply[r] = 200

Committing(j) == \E r \in Request : pc[r] = "commit" /\ job[r] = j

Written(r) ==
    LET j == job[r] IN
      \/ op[r] = "delete"
      \/ op[r] = "create" /\ store[j] = Scheduled(arg[r])
      \/ /\ op[r] = "trigger" /\ rows[j] # None
         /\ store[j] = Scheduled(arg[r])
      \/ /\ op[r] = "pause" /\ rows[j] # None
         /\ store[j] = [live |-> FALSE, trigger |-> rows[j].trigger]
      \/ /\ op[r] = "resume" /\ rows[j] # None
         /\ store[j] = [live |-> TRUE, trigger |-> rows[j].trigger]

AgreeInv ==
    /\ Alone /\ HeldAsRead
    /\ \A r \in Request : pc[r] = "apply" /\ op[r] # "create" => rows[job[r]] # None
    /\ \A r \in Request : pc[r] = "commit" => Written(r)
    /\ \A j \in Job : Committing(j) \/ Agree(j)

-----------------------------------------------------------------------------

\* Without faults a call that fails has no effect.
LEMMA FaultlessStep ==
  ASSUME Faults = {}, NEW r \in Request,
         \/ AddJob(r) \/ AddJobFails(r) \/ RemoveJob(r) \/ RemoveJobFails(r)
         \/ PauseJob(r) \/ ResumeJob(r) \/ ReadJobFails(r) \/ WriteJobFails(r)
         \/ RescheduleJob(r) \/ RescheduleJobFails(r)
  PROVE  /\ botched' = botched
         /\ Goto(r, "commit") \/ (Respond(r, 500) /\ store' = store)
         /\ RemoveJobFails(r) \/ ReadJobFails(r) \/ WriteJobFails(r) => store[job[r]] = None
BY DEF AddJob, AddJobFails, RemoveJob, RemoveJobFails, PauseJob, ResumeJob, ReadJobFails,
       WriteJobFails, RescheduleJob, RescheduleJobFails, FailsAs, Ghosts

\* Each job has its row initially.
LEMMA RowInit == Init => RowInv
<1>1. \A t \in Trigger : Created(t) # None
  BY NoneAssumption DEF Created, Row
<1> QED
  BY <1>1 DEF Init, RowInv, RowPending

\* And a handler that adds one goes on to the row.
LEMMA RowNext ==
  ASSUME Faults = {}, NamesDiffer
  PROVE  IInv /\ RowInv /\ [Next]_vars => RowInv'
<1> SUFFICES ASSUME IInv, RowInv, [Next]_vars PROVE RowInv'
  OBVIOUS
<1> USE DEF IInv, Bookkeeping, RowInv, Body, Loops, Ghosts
<1>1. \A r \in Request : pc[r] # "idle" => job[r] \in Job /\ op[r] \in AllOps
  BY DEF Assigned
<1>2. ASSUME UNCHANGED <<store, rows, botched, job, op>>,
             \A s \in Request : pc[s] = "commit" => pc'[s] = "commit"
      PROVE  RowInv'
  BY <1>2 DEF RowPending
<1>3. ASSUME NEW r \in Request, NEW o \in Ops, NEW j \in Job, NEW t \in Trigger,
             NEW p \in Process, Receive(r, o, j, t, p)
      PROVE  RowInv'
  <2>1. pc[r] = "idle" /\ UNCHANGED <<store, rows, botched>>
    BY <1>3 DEF Receive
  <2>2. \A s \in Request \ {r} : job'[s] = job[s] /\ op'[s] = op[s] /\ pc'[s] = pc[s]
    BY <1>3 DEF Receive, Goto, TypeOK
  <2> QED
    BY <2>1, <2>2 DEF RowPending
<1>4. ASSUME NEW r \in Request, Load(r) \/ LoadFails(r) PROVE RowInv'
  BY <1>2, <1>4 DEF Load, LoadFails, Goto, Respond, TypeOK
<1>5. ASSUME NEW r \in Request,
             \/ AddJob(r) \/ AddJobFails(r) \/ RemoveJob(r) \/ RemoveJobFails(r)
             \/ PauseJob(r) \/ ResumeJob(r) \/ ReadJobFails(r) \/ WriteJobFails(r)
             \/ RescheduleJob(r) \/ RescheduleJobFails(r)
      PROVE  RowInv'
  <2>1. Applied(r)
    BY <1>5, AppliedStep
  <2>2. botched' = {} /\ (Goto(r, "commit") \/ (Respond(r, 500) /\ store' = store))
    BY <1>5, FaultlessStep
  <2>3. pc[r] = "apply" /\ UNCHANGED <<rows, job, op>>
    BY <2>1 DEF Applied
  <2>4. \A s \in Request : pc[s] = "commit" => pc'[s] = "commit"
    BY <2>2, <2>3 DEF Goto, Respond, TypeOK
  <2>5. CASE store' = store
    BY <1>2, <2>2, <2>3, <2>4, <2>5
  <2>6. CASE Goto(r, "commit")
    <3>1. pc'[r] = "commit"
      BY <2>6 DEF Goto, TypeOK
    <3>2. \A j \in Job : store'[j] # None => store[j] # None \/ (j = job[r] /\ op[r] = "create")
      BY <2>1 DEF Applied
    <3> QED
      BY <2>2, <2>3, <2>4, <3>1, <3>2 DEF RowPending
  <2> QED
    BY <2>2, <2>5, <2>6
<1>6. ASSUME NEW r \in Request,
             CommitCreate(r) \/ CommitDelete(r) \/ CommitUpdate(r) \/ CommitFails(r)
      PROVE  RowInv'
  <2>1. Closed(r) /\ job[r] \in Job /\ pc[r] = "commit"
    BY <1>1, <1>6, ClosedStep DEF Closed
  <2>2. /\ UNCHANGED <<store, botched, job, op>>
        /\ \A s \in Request \ {r} : pc'[s] = pc[s]
        /\ \A j \in Job \ {job[r]} : rows'[j] = rows[j]
    BY <2>1 DEF Closed, Respond, TypeOK
  \* The request's own job: a row is written, or there is nothing in the store.
  <2>3. store[job[r]] # None => rows'[job[r]] # None
    <3>1. CASE CommitCreate(r)
      <4>1. op[r] = "create" /\ rows[job[r]] = None
        BY <2>1, <3>1 DEF CommitCreate, Lifecycle, CreateIsFresh
      <4>2. ~NameTaken(job[r])
        BY <2>1, <4>1 DEF NameTaken, NamesDiffer
      <4>3. InsertRow(r) /\ arg[r] \in Trigger
        BY <2>1, <3>1, <4>1, <4>2 DEF CommitCreate, Assigned
      <4> QED
        BY <2>1, <4>3, InsertRowEffect
    <3>2. CASE CommitDelete(r)
      BY <2>1, <3>2 DEF CommitDelete, Lifecycle, DeleteDone
    <3>3. CASE CommitUpdate(r)
      <4>1. op[r] \in {"pause", "resume", "trigger"} /\ op[r] # "create"
        BY <3>3 DEF CommitUpdate
      <4>2. op[r] = "trigger" => arg[r] \in Trigger
        BY <2>1 DEF Assigned
      <4>3. rows[job[r]] # None => rows'[job[r]] # None
        BY <2>1, <3>3, <4>1, <4>2, UpdateRowEffect DEF CommitUpdate
      <4>4. store[job[r]] # None => rows[job[r]] # None
        <5> SUFFICES ASSUME store[job[r]] # None, rows[job[r]] = None PROVE FALSE
          OBVIOUS
        <5>1. PICK s \in Request : op[s] = "create" /\ pc[s] = "commit" /\ job[s] = job[r]
          BY <2>1 DEF RowPending
        <5>2. Barred(r)
          BY <4>1, <5>1 DEF Lifecycle, CreateIsFresh
        <5> QED
          BY <2>1, <5>2 DEF Barred, Answered
      <4> QED
        BY <4>3, <4>4
    <3>4. ~CommitFails(r)
      BY DEF CommitFails, FailsAs
    <3> QED
      BY <1>6, <3>1, <3>2, <3>3, <3>4
  <2> QED
    BY <2>1, <2>2, <2>3 DEF RowPending
<1>7. ASSUME NEW p \in Process, WriteBack(p) \/ WriteBackFails(p) PROVE RowInv'
  <2>1. /\ held[p] # None
        /\ UNCHANGED <<store, finished>> \/ WrittenBack(p)
        /\ UNCHANGED <<rows, pc, job, op, botched>>
    BY <1>7 DEF WriteBack, WriteBackFails, FailsAs, Fired
  <2>2. \A j \in Job : store'[j] # None => store[j] # None
    BY <2>1, WrittenBackEffect
  <2> QED
    BY <2>1, <2>2 DEF RowPending
<1>8. ASSUME NEW r \in Request, ReadJob(r) PROVE RowInv'
  BY <1>2, <1>8 DEF ReadJob
<1>9. ASSUME NEW p \in Process,
             \/ (\E j \in Job : Fire(p, j)) \/ Sleep(p) \/ LookFails(p) \/ Crash(p)
             \/ Shutdown(p) \/ Start(p)
      PROVE  RowInv'
  BY <1>2, <1>9 DEF Fire, Sleep, LookFails, Crash, Shutdown, Start
<1>10. CASE UNCHANGED vars
  BY <1>2, <1>10 DEF vars
<1> QED
  BY <1>3, <1>4, <1>5, <1>6, <1>7, <1>8, <1>9, <1>10 DEF Next, Handle

\* "The job will be registered with APScheduler and persisted to the
\* database" (scheduler.py:40): however requests overlap, and in however many
\* processes, as long as nothing fails and no two jobs have one name.
THEOREM JobsHaveRows ==
  ASSUME Faults = {}, NamesDiffer
  PROVE  Spec => []JobHasRow
<1>1. Init => RowInv
  BY RowInit
<1>2. IInv /\ RowInv /\ [Next]_vars => RowInv'
  BY RowNext
<1>3. RowInv => JobHasRow
  BY DEF RowInv, RowPending, JobHasRow, Quiet, AtWork
<1> QED
  BY <1>1, <1>2, <1>3, Invariant, PTL DEF Spec

-----------------------------------------------------------------------------

\* A step that leaves each job in the store or out of it.
LEMMA SameJobs ==
  ASSUME \A j \in Job : store'[j] # None <=> store[j] # None
  PROVE  Jobs' = Jobs
BY DEF Jobs

\* The gauge follows the store.
LEMMA GaugeNext ==
  ASSUME Finite = {}, "lost_reply" \notin Faults, \A p, q \in Process : p = q
  PROVE  IInv /\ GaugeInv /\ [Next]_vars => GaugeInv'
<1> SUFFICES ASSUME IInv, GaugeInv, [Next]_vars PROVE GaugeInv'
  OBVIOUS
<1> USE DEF IInv, Bookkeeping, GaugeInv, Body, Loops, Ghosts
<1>1. \A r \in Request : pc[r] # "idle" => /\ job[r] \in Job /\ at[r] \in Process
                                           /\ op[r] \in {"create", "trigger"} => arg[r] \in Trigger
  BY DEF Assigned
<1>2. IsFiniteSet(Jobs) /\ Cardinality(Jobs) \in Nat
  BY JobsCounted, JobAssumption, FS_Subset DEF Jobs
<1>3. ASSUME UNCHANGED <<gauge, finished>>, \A j \in Job : store'[j] # None <=> store[j] # None
      PROVE  GaugeInv'
  BY <1>3, SameJobs
<1>4. ASSUME NEW r \in Request, AddJob(r) PROVE GaugeInv'
  <2>1. pc[r] = "apply" /\ op[r] = "create" /\ finished' = finished
    BY <1>4 DEF AddJob, At
  <2>2. job[r] \in Job /\ job[r] \notin Jobs
    BY <1>1, <2>1 DEF Lifecycle, CreateIsFresh, Jobs
  <2>3. Jobs' = Jobs \cup {job[r]}
    BY <1>1, <1>4, <2>1, ScheduleEffect DEF AddJob, Jobs
  <2>4. Cardinality(Jobs') = Cardinality(Jobs) + 1
    BY <1>2, <2>2, <2>3, FS_AddElement
  <2>5. \A p \in Process : gauge'[p] = gauge[p] + 1
    BY <1>1, <1>4, <2>1 DEF AddJob, TypeOK
  <2> QED
    BY <2>1, <2>4, <2>5
<1>5. ASSUME NEW r \in Request, RemoveJob(r) PROVE GaugeInv'
  <2>1. pc[r] = "apply" /\ store[job[r]] # None /\ finished' = finished
    BY <1>5 DEF RemoveJob, At
  <2>2. job[r] \in Jobs
    BY <1>1, <2>1 DEF Jobs
  <2>3. Jobs' = Jobs \ {job[r]}
    BY <1>5, <2>2 DEF RemoveJob, SetJob, Jobs, TypeOK
  <2>4. Cardinality(Jobs') = Cardinality(Jobs) - 1
    BY <1>2, <2>2, <2>3, FS_RemoveElement
  <2>5. \A p \in Process : gauge'[p] = gauge[p] - 1
    BY <1>1, <1>5, <2>1 DEF RemoveJob, TypeOK
  <2> QED
    BY <2>1, <2>4, <2>5
<1>6. ASSUME NEW r \in Request, PauseJob(r) PROVE GaugeInv'
  <2>1. at[r] \in Process /\ held[at[r]] # None
    BY <1>1, <1>6, RequestHolds DEF PauseJob, HasRead
  <2>2. finished' = finished /\ \A j \in Job : store'[j] # None <=> store[j] # None
    BY <1>6, <2>1, WrittenPausedEffect DEF PauseJob
  <2> QED
    BY <1>3, <1>6, <2>2 DEF PauseJob
<1>7. ASSUME NEW r \in Request, ResumeJob(r) PROVE GaugeInv'
  <2>1. at[r] \in Process /\ held[at[r]] # None
    BY <1>1, <1>7, RequestHolds DEF ResumeJob, HasRead
  <2>2. finished' = finished /\ \A j \in Job : store'[j] # None <=> store[j] # None
    BY <1>7, <2>1, WrittenBackEffect DEF ResumeJob
  <2> QED
    BY <1>3, <1>7, <2>2 DEF ResumeJob
<1>8. ASSUME NEW r \in Request, RescheduleJob(r) PROVE GaugeInv'
  <2>1. job[r] \in Job /\ arg[r] \in Trigger
    BY <1>1, <1>8 DEF RescheduleJob, At
  <2>2. \A j \in Job : store'[j] # None <=> store[j] # None
    BY <1>8, <2>1, ScheduleEffect DEF RescheduleJob
  <2> QED
    BY <1>3, <1>8, <2>2 DEF RescheduleJob
<1>9. ASSUME NEW r \in Request,
             \/ AddJobFails(r) \/ RemoveJobFails(r) \/ ReadJobFails(r) \/ WriteJobFails(r)
             \/ RescheduleJobFails(r)
      PROVE  GaugeInv'
  BY <1>3, <1>9
  DEF AddJobFails, RemoveJobFails, ReadJobFails, WriteJobFails, RescheduleJobFails, FailsAs
<1>10. ASSUME NEW r \in Request,
              \/ Load(r) \/ LoadFails(r) \/ ReadJob(r)
              \/ CommitCreate(r) \/ CommitDelete(r) \/ CommitUpdate(r) \/ CommitFails(r)
       PROVE  GaugeInv'
  BY <1>3, <1>10
  DEF Load, LoadFails, ReadJob, CommitCreate, CommitDelete, CommitUpdate, CommitFails
<1>11. ASSUME NEW p \in Process, WriteBack(p) \/ WriteBackFails(p) PROVE GaugeInv'
  <2>1. /\ held[p] # None /\ UNCHANGED gauge
        /\ UNCHANGED <<store, finished>> \/ WrittenBack(p)
    BY <1>11 DEF WriteBack, WriteBackFails, FailsAs, Fired
  <2>2. finished' = finished /\ \A j \in Job : store'[j] # None <=> store[j] # None
    BY <2>1, WrittenBackEffect
  <2> QED
    BY <1>3, <2>1, <2>2
<1>12. ASSUME NEW p \in Process, Start(p) PROVE GaugeInv'
  <2>1. Jobs' = Jobs /\ finished' = finished
    BY <1>12, SameJobs DEF Start
  <2>2. \A q \in Process : gauge'[q] = Cardinality(Jobs)
    BY <1>12 DEF Start, TypeOK
  <2> QED
    BY <2>1, <2>2
<1>13. ASSUME NEW p \in Process,
              \/ (\E j \in Job : Fire(p, j)) \/ Sleep(p) \/ LookFails(p) \/ Crash(p)
              \/ Shutdown(p)
       PROVE  GaugeInv'
  BY <1>3, <1>13 DEF Fire, Sleep, LookFails, Crash, Shutdown
<1>14. ASSUME NEW r \in Request, NEW o \in Ops, NEW j \in Job, NEW t \in Trigger,
              NEW p \in Process, Receive(r, o, j, t, p)
       PROVE  GaugeInv'
  BY <1>3, <1>14 DEF Receive
<1>15. CASE UNCHANGED vars
  BY <1>3, <1>15 DEF vars
<1> QED
  BY <1>4, <1>5, <1>6, <1>7, <1>8, <1>9, <1>10, <1>11, <1>12, <1>13, <1>14, <1>15
  DEF Next, Handle

\* scheduler_jobs_total, "Total number of scheduled jobs" (metrics.py:15), is
\* right through overlapping requests, failed calls and restarts, for a
\* single process whose triggers do not run out and whose replies are not
\* lost.
THEOREM GaugeIsRight ==
  ASSUME Finite = {}, "lost_reply" \notin Faults, \A p, q \in Process : p = q
  PROVE  Spec => []GaugeCountsJobs
<1>1. Init => GaugeInv
  <2> SUFFICES ASSUME Init PROVE GaugeInv
    OBVIOUS
  <2>1. \A t \in Trigger : Scheduled(t) \in Entry
    BY DEF Scheduled, Entry
  <2>2. Jobs = Existing
    BY <2>1, NoneAssumption, JobAssumption DEF Init, Jobs
  <2> QED
    BY <2>2 DEF Init, GaugeInv
<1>2. IInv /\ GaugeInv /\ [Next]_vars => GaugeInv'
  BY GaugeNext
<1>3. GaugeInv => GaugeCountsJobs
  <2> SUFFICES ASSUME GaugeInv PROVE GaugeCountsJobs
    OBVIOUS
  <2>1. Jobs \cup finished = Jobs
    BY DEF GaugeInv
  <2> QED
    BY <2>1 DEF GaugeInv, GaugeCountsJobs
<1> QED
  BY <1>1, <1>2, <1>3, Invariant, PTL DEF Spec

-----------------------------------------------------------------------------

\* What a method of SchedulerService that goes well leaves in the store for
\* the commit.
LEMMA WrittenStep ==
  ASSUME InTurn, Bookkeeping, AgreeInv, NEW r \in Request, pc[r] = "apply", ~Committing(job[r]),
         \/ AddJob(r) \/ RemoveJob(r) \/ PauseJob(r) \/ ResumeJob(r) \/ RescheduleJob(r)
  PROVE  Written(r)'
<1> USE DEF Bookkeeping, InTurn
<1>1. /\ job[r] \in Job
      /\ op[r] \in {"create", "trigger"} => arg[r] \in Trigger
      /\ rows' = rows /\ op' = op /\ job' = job /\ arg' = arg /\ pc[r] = "apply"
  BY DEF Assigned, AddJob, RemoveJob, PauseJob, ResumeJob, RescheduleJob, Body
<1>2. op[r] # "create" => rows[job[r]] # None /\ rows[job[r]].trigger = store[job[r]].trigger
  BY <1>1 DEF AgreeInv, Agree
<1>held. HasRead(r) => /\ at[r] \in Process /\ held[at[r]] # None /\ held[at[r]].job = job[r]
                    /\ held[at[r]].trigger = store[job[r]].trigger
  BY <1>1, RequestHolds DEF Assigned, AgreeInv, HeldAsRead
<1>3. CASE AddJob(r) \/ RescheduleJob(r)
  <2>1. Schedule(r) /\ op[r] \in {"create", "trigger"}
    BY <1>3 DEF AddJob, RescheduleJob, At
  <2>2. store' = [store EXCEPT ![job[r]] = Scheduled(arg[r])]
    BY <2>1 DEF Schedule, SetJob, Scheduled
  <2>3. store'[job[r]] = Scheduled(arg[r])
    BY <1>1, <2>2 DEF TypeOK
  <2> QED
    BY <1>1, <1>2, <2>1, <2>3 DEF Written, Scheduled
<1>4. CASE RemoveJob(r)
  BY <1>1, <1>4 DEF RemoveJob, At, Written
<1>5. CASE PauseJob(r)
  <2>1. op[r] = "pause" /\ store'[job[r]] = [live |-> FALSE, trigger |-> store[job[r]].trigger]
    BY <1>held, <1>5, WrittenPausedEffect DEF PauseJob
  <2> QED
    BY <1>1, <1>2, <2>1 DEF Written
<1>6. CASE ResumeJob(r)
  <2>1. op[r] = "resume" /\ store'[job[r]] = [live |-> TRUE, trigger |-> store[job[r]].trigger]
    BY <1>held, <1>6, WrittenBackEffect DEF ResumeJob, Scheduled
  <2> QED
    BY <1>1, <1>2, <2>1 DEF Written
<1> QED
  BY <1>3, <1>4, <1>5, <1>6

\* And what the commit makes of it.
LEMMA AgreedStep ==
  ASSUME InTurn, IInv, NEW r \in Request, Written(r),
         CommitCreate(r) \/ CommitDelete(r) \/ CommitUpdate(r)
  PROVE  Agree(job[r])'
<1> USE DEF IInv, Bookkeeping, InTurn
<1>1. /\ job[r] \in Job /\ pc[r] = "commit"
      /\ op[r] \in {"create", "trigger"} => arg[r] \in Trigger
      /\ store' = store /\ op' = op /\ job' = job /\ arg' = arg
  BY DEF Assigned, CommitCreate, CommitDelete, CommitUpdate, Body
<1>2. \A t \in Trigger : Scheduled(t) # None
  <2>1. \A t \in Trigger : Scheduled(t) \in Entry
    BY DEF Scheduled, Entry
  <2> QED
    BY <2>1, NoneAssumption
<1>3. CASE CommitCreate(r)
  <2>1. op[r] = "create" /\ rows[job[r]] = None
    BY <1>1, <1>3 DEF CommitCreate, Lifecycle, CreateIsFresh
  <2>2. CASE rows' = rows
    BY <1>1, <2>1, <2>2 DEF Agree
  <2>3. CASE InsertRow(r)
    <3>1. rows'[job[r]] = Created(arg[r]) /\ store[job[r]] = Scheduled(arg[r])
      BY <1>1, <2>1, <2>3, InsertRowEffect DEF Written
    <3> QED
      BY <1>1, <1>2, <2>1, <3>1 DEF Agree, Created, Scheduled
  <2> QED
    BY <1>3, <2>2, <2>3 DEF CommitCreate
<1>4. CASE CommitDelete(r)
  BY <1>1, <1>4 DEF CommitDelete, DeleteRow, TypeOK, Agree
<1>5. CASE CommitUpdate(r)
  <2>1. op[r] \in {"pause", "resume", "trigger"} /\ rows[job[r]] # None
    BY <1>5 DEF CommitUpdate, Written
  <2>2. UpdateRow(r) /\ reply'[r] = 200
    BY <1>5, <2>1 DEF CommitUpdate, Respond, TypeOK
  <2>3. rows[job[r]].trigger \in Trigger
    <3>1. rows[job[r]] \in Row
      BY <1>1, <2>1 DEF TypeOK
    <3> QED
      BY <3>1 DEF Row
  <2>4. \A b \in BOOLEAN, t \in Trigger : [live |-> b, trigger |-> t] # None
    <3>1. \A b \in BOOLEAN, t \in Trigger : [live |-> b, trigger |-> t] \in Entry
      BY DEF Entry
    <3> QED
      BY <3>1, NoneAssumption
  <2>5. rows'[job[r]] =
          [status  |-> IF op[r] = "pause" THEN "PAUSED"
                       ELSE IF op[r] = "resume" THEN "ACTIVE" ELSE rows[job[r]].status,
           trigger |-> IF op[r] = "trigger" THEN arg[r] ELSE rows[job[r]].trigger]
    BY <1>1, <2>1, <2>2, UpdateRowEffect
  <2>6. CASE op[r] = "pause"
    <3>1. store[job[r]] = [live |-> FALSE, trigger |-> rows[job[r]].trigger]
      BY <2>6 DEF Written
    <3>2. store'[job[r]] # None
      BY <1>1, <2>3, <2>4, <3>1
    <3>3. rows'[job[r]] = [status |-> "PAUSED", trigger |-> rows[job[r]].trigger]
      BY <2>5, <2>6
    <3> QED
      BY <1>1, <3>1, <3>2, <3>3 DEF Agree
  <2>7. CASE op[r] = "resume"
    <3>1. store[job[r]] = [live |-> TRUE, trigger |-> rows[job[r]].trigger]
      BY <2>7 DEF Written
    <3>2. store'[job[r]] # None
      BY <1>1, <2>3, <2>4, <3>1
    <3>3. rows'[job[r]] = [status |-> "ACTIVE", trigger |-> rows[job[r]].trigger]
      BY <2>5, <2>7
    <3> QED
      BY <1>1, <3>1, <3>2, <3>3 DEF Agree
  <2>8. CASE op[r] = "trigger"
    <3>1. store[job[r]] = [live |-> TRUE, trigger |-> arg[r]]
      BY <2>8 DEF Written, Scheduled
    <3>2. store'[job[r]] # None
      BY <1>1, <2>4, <2>8, <3>1
    <3>3. rows'[job[r]].trigger = arg[r]
      BY <2>5, <2>8
    <3> QED
      BY <1>1, <2>2, <2>8, <3>1, <3>2, <3>3 DEF Agree
  <2> QED
    BY <2>1, <2>6, <2>7, <2>8
<1> QED
  BY <1>3, <1>4, <1>5

\* Row and store are changed together, but for the time between.
LEMMA AgreeNext ==
  ASSUME InTurn
  PROVE  IInv /\ AgreeInv /\ [Next]_vars => AgreeInv'
<1> SUFFICES ASSUME IInv, AgreeInv, [Next]_vars PROVE AgreeInv'
  OBVIOUS
<1> USE DEF IInv, Bookkeeping, InTurn, Body, Loops, Ghosts
<1>1. \A r \in Request : pc[r] # "idle" => job[r] \in Job /\ at[r] \in Process
  BY DEF Assigned
<1>2. ASSUME NEW r \in Request, AtWork(r)
      PROVE  \A s \in Request \ {r} : ~AtWork(s)
  BY <1>2 DEF AgreeInv, Alone
<1>3. ASSUME NEW r \in Request, NEW j \in Job, Agree(j), rows'[j] = rows[j], store'[j] = store[j],
             reply[r] = 0,
             \A s \in Request \ {r} : job'[s] = job[s] /\ op'[s] = op[s] /\ reply'[s] = reply[s]
      PROVE  Agree(j)'
  BY <1>3 DEF Agree
<1>4. ASSUME NEW r \in Request, NEW o \in Ops, NEW j \in Job, NEW t \in Trigger,
             NEW p \in Process, Receive(r, o, j, t, p)
      PROVE  AgreeInv'
  <2>1. /\ pc[r] = "idle" /\ reply[r] = 0 /\ \A s \in Request : ~AtWork(s)
        /\ UNCHANGED <<rows, store, held, reply>>
        /\ \A s \in Request \ {r} : job'[s] = job[s] /\ op'[s] = op[s] /\ pc'[s] = pc[s]
        /\ op'[r] = o /\ pc'[r] = IF o = "create" THEN "apply" ELSE "load"
    BY <1>4 DEF Receive, Goto, TypeOK, Answered
  <2>2. \A i \in Job : Agree(i)
    BY <2>1 DEF AgreeInv, Committing, AtWork
  <2>3. \A i \in Job : Agree(i)'
    BY <1>3, <2>1, <2>2
  <2>4. \A s \in Request \ {r} : ~AtWork(s)'
    BY <2>1 DEF AtWork
  <2> QED
    BY <2>1, <2>3, <2>4 DEF AgreeInv, Alone, HeldAsRead, Fired, AtWork
<1>5. ASSUME NEW r \in Request, Load(r) \/ LoadFails(r) PROVE AgreeInv'
  <2>1. /\ pc[r] = "load" /\ reply[r] = 0
        /\ UNCHANGED <<rows, store, held, job, op>>
        /\ \A s \in Request \ {r} : pc'[s] = pc[s] /\ reply'[s] = reply[s]
        /\ pc'[r] = "done" \/ (pc'[r] = "apply" /\ rows[job[r]] # None)
    BY <1>5 DEF Load, LoadFails, Goto, Respond, TypeOK, Answered
  <2>2. \A s \in Request \ {r} : ~AtWork(s) /\ ~AtWork(s)'
    BY <1>2, <2>1 DEF AtWork
  <2>3. \A i \in Job : Agree(i)
    BY <2>1, <2>2 DEF AgreeInv, Committing, AtWork
  <2>4. \A i \in Job : Agree(i)'
    BY <1>3, <2>1, <2>3
  <2> QED
    BY <2>1, <2>2, <2>4 DEF AgreeInv, Alone, HeldAsRead, Fired, AtWork
<1>6. ASSUME NEW r \in Request,
             \/ AddJob(r) \/ AddJobFails(r) \/ RemoveJob(r) \/ RemoveJobFails(r)
             \/ PauseJob(r) \/ ResumeJob(r) \/ ReadJobFails(r) \/ WriteJobFails(r)
             \/ RescheduleJob(r) \/ RescheduleJobFails(r)
      PROVE  AgreeInv'
  <2>1. Applied(r) /\ (Goto(r, "commit") \/ (Respond(r, 500) /\ store' = store))
    BY <1>6, AppliedStep, FaultlessStep
  <2>2. /\ pc[r] = "apply" /\ reply[r] = 0 /\ job[r] \in Job
        /\ UNCHANGED <<rows, job, op>>
        /\ \A j \in Job \ {job[r]} : store'[j] = store[j]
        /\ \A s \in Request \ {r} : pc'[s] = pc[s] /\ reply'[s] = reply[s]
        /\ pc'[r] = "commit" \/ (pc'[r] = "done" /\ store' = store)
    BY <1>1, <2>1 DEF Applied, Goto, Respond, TypeOK, Answered
  <2>3. \A s \in Request \ {r} : ~AtWork(s) /\ ~AtWork(s)'
    BY <1>2, <2>2 DEF AtWork
  <2>4. \A i \in Job : Agree(i) /\ ~Committing(i)
    BY <2>2, <2>3 DEF AgreeInv, Committing, AtWork
  <2>5. \A p \in Process : held'[p] = None
    BY <1>1, <2>1, <2>2 DEF Applied, LetGo, TypeOK
  <2>6. \A i \in Job \ {job[r]} : Agree(i)'
    BY <1>3, <2>2, <2>4
  <2>7. CASE pc'[r] = "done" /\ store' = store
    <3>1. Agree(job[r])'
      BY <1>3, <2>2, <2>4, <2>7
    <3> QED
      BY <2>2, <2>3, <2>5, <2>6, <2>7, <3>1 DEF AgreeInv, Alone, HeldAsRead, Fired, AtWork
  <2>8. CASE pc'[r] = "commit"
    \* The job is there: its row is, and the row agrees.
    <3>1. ~RemoveJobFails(r) /\ ~ReadJobFails(r) /\ ~WriteJobFails(r)
      <4>1. RemoveJobFails(r) \/ ReadJobFails(r) \/ WriteJobFails(r) =>
              op[r] # "create" /\ store[job[r]] = None
        BY <1>1, <1>6, <2>2, FaultlessStep, RequestHolds
        DEF RemoveJobFails, ReadJobFails, WriteJobFails, At
      <4> QED
        BY <2>2, <2>4, <4>1 DEF AgreeInv, Agree
    <3>2. ~AddJobFails(r) /\ ~RescheduleJobFails(r)
      BY <2>8 DEF AddJobFails, RescheduleJobFails, Respond, TypeOK
    <3>3. Written(r)'
      BY <1>6, <2>2, <2>4, <3>1, <3>2, WrittenStep
    <3>4. Committing(job[r])'
      BY <2>2, <2>8 DEF Committing
    <3> QED
      BY <2>2, <2>3, <2>5, <2>6, <2>8, <3>3, <3>4
      DEF AgreeInv, Alone, HeldAsRead, Fired, AtWork
  <2> QED
    BY <2>2, <2>7, <2>8
<1>7. ASSUME NEW r \in Request,
             CommitCreate(r) \/ CommitDelete(r) \/ CommitUpdate(r) \/ CommitFails(r)
      PROVE  AgreeInv'
  <2>1. Closed(r) /\ ~CommitFails(r)
    BY <1>7, ClosedStep DEF CommitFails, FailsAs
  <2>2. /\ pc[r] = "commit" /\ pc'[r] = "done" /\ reply[r] = 0 /\ job[r] \in Job
        /\ UNCHANGED <<store, held, job, op>>
        /\ \A j \in Job \ {job[r]} : rows'[j] = rows[j]
        /\ \A s \in Request \ {r} : pc'[s] = pc[s] /\ reply'[s] = reply[s]
    BY <1>1, <2>1 DEF Closed, Respond, TypeOK, Answered
  <2>3. \A s \in Request \ {r} : ~AtWork(s) /\ ~AtWork(s)'
    BY <1>2, <2>2 DEF AtWork
  <2>4. \A i \in Job \ {job[r]} : Agree(i)
    BY <2>2, <2>3 DEF AgreeInv, Committing, AtWork
  <2>5. \A i \in Job \ {job[r]} : Agree(i)'
    BY <1>3, <2>2, <2>4
  <2>6. Agree(job[r])'
    BY <1>7, <2>1, <2>2, AgreedStep DEF AgreeInv
  <2> QED
    BY <2>2, <2>3, <2>5, <2>6 DEF AgreeInv, Alone, HeldAsRead, Fired, AtWork
<1>8. ASSUME UNCHANGED <<rows, store, pc, reply, op, job, arg>>, HeldAsRead'
      PROVE  AgreeInv'
  BY <1>8 DEF AgreeInv, Alone, AtWork, Written, Committing, Agree
<1>9. ASSUME NEW p \in Process, NEW j \in Job, Fire(p, j) PROVE AgreeInv'
  <2>1. store[j] \in Entry /\ store[j] # None /\ store[j].live = TRUE
    BY <1>9 DEF Fire, Live, TypeOK, Entry
  <2>2. store[j] = Scheduled(store[j].trigger)
    BY <2>1 DEF Entry, Scheduled
  <2>3. /\ held'[p].job = j /\ held'[p].trigger = store[j].trigger /\ store' = store
        /\ \A q \in Process : q = p
    BY <1>9 DEF Fire, Hold, TypeOK
  <2>4. HeldAsRead'
    BY <2>1, <2>2, <2>3 DEF HeldAsRead
  <2> QED
    BY <1>8, <1>9, <2>4 DEF Fire
<1>10. ASSUME NEW r \in Request, ReadJob(r) PROVE AgreeInv'
  <2>1. /\ at[r] \in Process /\ job[r] \in Job /\ store[job[r]] # None
        /\ held' = [held EXCEPT ![at[r]] = [job |-> job[r], trigger |-> store[job[r]].trigger,
                                            by |-> r]]
        /\ UNCHANGED <<rows, store, pc, reply, op, job, arg>>
    BY <1>1, <1>10 DEF ReadJob, At, Hold
  <2>2. /\ held'[at[r]].job = job[r] /\ held'[at[r]].trigger = store[job[r]].trigger
        /\ held'[at[r]].by # None
        /\ \A q \in Process : q = at[r]
    BY <2>1, NoneAssumption DEF TypeOK
  <2>3. HeldAsRead'
    BY <2>1, <2>2 DEF HeldAsRead, Fired
  <2> QED
    BY <1>8, <2>1, <2>3
<1>11. ASSUME NEW p \in Process, WriteBack(p) \/ WriteBackFails(p) PROVE AgreeInv'
  <2>1. /\ held[p] # None /\ held'[p] = None /\ Fired(p)
        /\ store' = store \/ WrittenBack(p)
        /\ UNCHANGED <<rows, pc, reply, op, job, arg>>
    BY <1>11 DEF WriteBack, WriteBackFails, FailsAs, Fired, LetGo, TypeOK
  <2>2. store' = store
    <3>1. CASE WrittenBack(p)
      <4>1. /\ store'[held[p].job] = Scheduled(held[p].trigger)
            /\ store' \in [Job -> Entry \cup {None}]
            /\ \A j \in Job \ {held[p].job} : store'[j] = store[j]
        BY <2>1, <3>1, WrittenBackEffect
      <4>2. store[held[p].job] = Scheduled(held[p].trigger)
        BY <2>1 DEF AgreeInv, HeldAsRead
      <4>3. \A j \in Job : store'[j] = store[j]
        BY <4>1, <4>2
      <4> QED
        BY <4>1, <4>3 DEF TypeOK
    <3> QED
      BY <2>1, <3>1
  <2>3. HeldAsRead'
    BY <2>1 DEF HeldAsRead
  <2> QED
    BY <1>8, <2>1, <2>2, <2>3
<1>12. ASSUME NEW p \in Process, Sleep(p) \/ LookFails(p) \/ Shutdown(p) \/ Start(p)
       PROVE  AgreeInv'
  <2>1. /\ UNCHANGED <<rows, store, pc, reply, op, job, arg>>
        /\ held' = held \/ held'[p] = None
    BY <1>12 DEF Sleep, LookFails, Shutdown, Start, Down, LetGo, TypeOK
  <2>2. HeldAsRead'
    BY <2>1 DEF AgreeInv, HeldAsRead, Fired
  <2> QED
    BY <1>8, <2>1, <2>2
<1>13. ASSUME NEW p \in Process PROVE ~Crash(p)
  BY DEF Crash
<1>14. CASE UNCHANGED vars
  BY <1>8, <1>14 DEF vars, AgreeInv, HeldAsRead, Fired
<1> QED
  BY <1>4, <1>5, <1>6, <1>7, <1>9, <1>10, <1>11, <1>12, <1>13, <1>14 DEF Next, Handle

\* The row tells what the scheduler does: when requests come one at a time
\* to a single process, nothing fails and no trigger runs out, a row at rest
\* has the trigger that is in the store, and is paused or not as it is there
\* but for update_trigger.
THEOREM RowsTellTheStore ==
  ASSUME InTurn
  PROVE  Spec => []RowTellsStore
<1>1. Init => AgreeInv
  <2> SUFFICES ASSUME Init PROVE AgreeInv
    OBVIOUS
  <2>1. \A t \in Trigger : Scheduled(t) # None
    <3>1. \A t \in Trigger : Scheduled(t) \in Entry
      BY DEF Scheduled, Entry
    <3> QED
      BY <3>1, NoneAssumption
  <2>2. \A j \in Job : Agree(j)
    BY <2>1, JobAssumption DEF Init, Agree, Created, Scheduled
  <2> QED
    BY <2>2 DEF Init, AgreeInv, Alone, AtWork, HeldAsRead
<1>2. IInv /\ AgreeInv /\ [Next]_vars => AgreeInv'
  BY AgreeNext
<1>3. AgreeInv => RowTellsStore
  BY DEF AgreeInv, RowTellsStore, Quiet, AtWork, Committing, Agree
<1> QED
  BY <1>1, <1>2, <1>3, Invariant, PTL DEF Spec
=============================================================================
