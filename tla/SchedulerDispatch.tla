-------------------------- MODULE SchedulerDispatch --------------------------
(***************************************************************************)
(* How a scheduled job gets to Celery.  Every API process and the          *)
(* standalone scheduler run an APScheduler of their own over one job store *)
(* in PostgreSQL, so that each of them fires the job; execute_celery_task  *)
(* of app/core/scheduler/service.py then takes a Redis lock named after    *)
(* the job and the current minute, and only the winner sends the task.     *)
(*                                                                         *)
(* One job is modelled: jobs share neither locks nor rows of the store.    *)
(* "Turn t" is the execution that the trigger schedules for time t.        *)
(* Reading due jobs and writing back their next run time is APScheduler's  *)
(* work, with the settings _create_scheduler gives it; its two statements  *)
(* on the shared store are two actions.                                    *)
(***************************************************************************)
EXTENDS Redis

CONSTANTS Instance,
          Minute,       \* seconds in a minute: the lock's name changes
          LockTtl,      \* ex=55
          Grace,        \* scheduler_misfire_grace_time
          Period,       \* the trigger's interval
          FirstTurn,    \* the trigger's first run time
          MaxLate,      \* a turn is late when it is not dealt with this soon
          Faults,       \* kinds of faults, see AllFaults
          Horizon       \* bound: the last second

(***************************************************************************)
(*  redis, broker   a call fails and has no effect                         *)
(*  lost_reply      a call fails but its effect has happened               *)
(*  crash           an instance dies and is started again                  *)
(***************************************************************************)
AllFaults == {"redis", "broker", "lost_reply", "crash"}

ASSUME DispatchAssumption ==
    /\ Minute \in Nat /\ LockTtl \in Nat
    /\ 0 < LockTtl /\ LockTtl < Minute
    /\ Grace \in Nat /\ Period \in Nat \ {0}
    /\ FirstTurn \in Nat /\ MaxLate \in Nat /\ Horizon \in Nat
    /\ Faults \subseteq AllFaults

VARIABLES now,
          next,         \* the job's next_run_time in the store
          redis,        \* the locks, by minute
          update,       \* each instance: the next_run_time it is to write
          pc,           \* each instance: where its run of the job is
          turn,         \* ... which turn it is a run of
          minute,       \* ... current_minute, as it read the clock
          sent,         \* how often the task was sent for each turn, up to Many
          claimant,     \* history: the turn that last took each lock
          trouble       \* history: what befell each turn, see Troubles

vars == <<now, next, redis, update, pc, turn, minute, sent, claimant, trouble>>

(***************************************************************************)
(*  unlocked   Redis failed a run of the turn                              *)
(*  unsent     a run of the turn was dropped by APScheduler, ended by a    *)
(*             failing send, or died                                       *)
(*  late       something of the turn was done MaxLate after its time       *)
(***************************************************************************)
Troubles == {"unlocked", "unsent", "late"}

Time == 0..Horizon
MinuteOf(t) == t \div Minute
MinuteNo == 0..MinuteOf(Horizon)
NoTurn == -1
Taken == "1"
LockValue == {Taken}
Many == 2               \* bound: sends are counted up to this

TypeOK ==
    /\ now \in Time
    /\ next \in Nat
    /\ redis \in [MinuteNo -> Entry(LockValue)]
    /\ update \in [Instance -> Nat \cup {NoTurn}]
    /\ pc \in [Instance -> {"none", "queued", "claim", "send"}]
    /\ turn \in [Instance -> Time]
    /\ minute \in [Instance -> MinuteNo]
    /\ sent \in [Time -> 0..Many]
    /\ claimant \in [MinuteNo -> Time \cup {NoTurn}]
    /\ trouble \in [Time -> SUBSET Troubles]

Init ==
    /\ now = 0
    /\ next = FirstTurn
    /\ redis = Empty(MinuteNo)
    /\ update = [i \in Instance |-> NoTurn]
    /\ pc = [i \in Instance |-> "none"]
    /\ turn = [i \in Instance |-> 0]
    /\ minute = [i \in Instance |-> 0]
    /\ sent = [t \in Time |-> 0]
    /\ claimant = [m \in MinuteNo |-> NoTurn]
    /\ trouble = [t \in Time |-> {}]

Goto(i, place) == pc' = [pc EXCEPT ![i] = place]

Store == <<now, next, update>>
Run == <<turn, minute>>
Locks == <<redis, claimant>>

Note(turns, kind) ==
    trouble' = [t \in Time |-> IF t \in turns THEN trouble[t] \cup {kind}
                                             ELSE trouble[t]]

FailsAs(service, effect, none) ==
    \/ service \in Faults /\ none
    \/ "lost_reply" \in Faults /\ effect

-----------------------------------------------------------------------------

Turns == {t \in Time : t >= FirstTurn /\ (t - FirstTurn) % Period = 0}

\* coalesce: of the turns that are due only the last is run.
LastDue == next + ((now - next) \div Period) * Period

\* _process_jobs, first half: read what is due, submit it to the pool.  With
\* max_instances = 1 the turn is dropped while an earlier one still runs.
Wake(i) ==
    /\ update[i] = NoTurn /\ next <= now
    /\ update' = [update EXCEPT ![i] = LastDue + Period]
    /\ \/ pc[i] # "none" /\ Note({LastDue}, "unsent") /\ UNCHANGED <<pc, turn>>
       \/ /\ pc[i] = "none"
          /\ turn' = [turn EXCEPT ![i] = LastDue]
          /\ Goto(i, "queued") /\ UNCHANGED trouble
    /\ UNCHANGED <<now, next, minute, sent, Locks>>

\* _process_jobs, second half: whatever the store says by now.
Advance(i) ==
    /\ update[i] # NoTurn
    /\ next' = update[i]
    /\ update' = [update EXCEPT ![i] = NoTurn]
    /\ UNCHANGED <<now, pc, Run, sent, Locks, trouble>>

\* Mutant: no misfire check.
StartAnyTime(i) ==
    /\ pc[i] = "queued"
    /\ minute' = [minute EXCEPT ![i] = MinuteOf(now)]
    /\ Goto(i, "claim")
    /\ UNCHANGED <<Store, turn, sent, Locks, trouble>>

\* Mutant: the lock named by the second, not by the minute.
StartByTheSecond(i) ==
    /\ pc[i] = "queued"
    /\ minute' = [minute EXCEPT ![i] = now]
    /\ Goto(i, "claim")
    /\ UNCHANGED <<Store, turn, sent, Locks, trouble>>

\* The pool thread begins: a misfire, or execute_celery_task reads the clock.
Start(i) ==
    /\ pc[i] = "queued"
    /\ \/ now - turn[i] > Grace /\ Goto(i, "none") /\ UNCHANGED minute
       \/ /\ now - turn[i] <= Grace
          /\ minute' = [minute EXCEPT ![i] = MinuteOf(now)]
          /\ Goto(i, "claim")
    /\ UNCHANGED <<Store, turn, sent, Locks, trouble>>

SetLock(i) ==
    /\ redis' = SetNxEx(redis, minute[i], Taken, LockTtl)
    /\ claimant' = IF Exists(redis, minute[i]) THEN claimant
                   ELSE [claimant EXCEPT ![minute[i]] = turn[i]]

\* Mutant: SET without looking at its answer.
ClaimUnchecked(i) ==
    /\ pc[i] = "claim"
    /\ SetLock(i)
    /\ Goto(i, "send")
    /\ UNCHANGED <<Store, Run, sent, trouble>>

Claim(i) ==
    /\ pc[i] = "claim"
    /\ SetLock(i)
    /\ Goto(i, IF Exists(redis, minute[i]) THEN "none" ELSE "send")
    /\ UNCHANGED <<Store, Run, sent, trouble>>

\* Mutant: without the lock's answer the turn is dropped.
ClaimFailsClosed(i) ==
    /\ pc[i] = "claim"
    /\ FailsAs("redis", SetLock(i), UNCHANGED Locks)
    /\ Note({turn[i]}, "unlocked")
    /\ Goto(i, "none")
    /\ UNCHANGED <<Store, Run, sent>>

\* "If Redis fails, fall back to executing": no lock, but the task is sent.
ClaimFails(i) ==
    /\ pc[i] = "claim"
    /\ FailsAs("redis", SetLock(i), UNCHANGED Locks)
    /\ Note({turn[i]}, "unlocked")
    /\ Goto(i, "send")
    /\ UNCHANGED <<Store, Run, sent>>

CountSent(i) == sent' = [sent EXCEPT ![turn[i]] = IF @ < Many THEN @ + 1 ELSE @]

Send(i) ==
    /\ pc[i] = "send"
    /\ CountSent(i)
    /\ Goto(i, "none")
    /\ UNCHANGED <<Store, Run, Locks, trouble>>

\* The exception ends the run; the lock stays.
SendFails(i) ==
    /\ pc[i] = "send"
    /\ FailsAs("broker", CountSent(i), UNCHANGED sent)
    /\ Note({turn[i]}, "unsent")
    /\ Goto(i, "none")
    /\ UNCHANGED <<Store, Run, Locks>>

\* The pool's runs and what was not written back are lost.
Crash(i) ==
    /\ "crash" \in Faults
    /\ \/ pc[i] # "none" /\ Note({turn[i]}, "unsent")
       \/ pc[i] = "none" /\ update[i] # NoTurn /\ UNCHANGED trouble
    /\ Goto(i, "none")
    /\ update' = [update EXCEPT ![i] = NoTurn]
    /\ UNCHANGED <<now, next, Run, sent, Locks>>

\* Turns of which something is left to do when their time is up: to read or
\* to run them, or to write back what makes APScheduler run them again.
Overdue ==
    {t \in Turns :
       /\ t + MaxLate <= now
       /\ \/ next <= t
          \/ \E i \in Instance : \/ pc[i] # "none" /\ turn[i] = t
                                 \/ update[i] # NoTurn /\ update[i] <= t}

Tick ==
    /\ now < Horizon
    /\ now' = now + 1
    /\ redis' = Elapse(redis)
    /\ Note(Overdue, "late")
    /\ UNCHANGED <<next, update, pc, Run, sent, claimant>>

-----------------------------------------------------------------------------

Next ==
    \/ \E i \in Instance :
         \/ Wake(i) \/ Advance(i) \/ Start(i)
         \/ Claim(i) \/ ClaimFails(i) \/ Send(i) \/ SendFails(i)
         \/ Crash(i)
    \/ Tick

Spec == Init /\ [][Next]_vars

-----------------------------------------------------------------------------
(***************************************************************************)
(* Properties.                                                             *)
(***************************************************************************)

Undisturbed(t, kinds) == trouble[t] \cap kinds = {}

\* "Uses Redis distributed lock to ensure only one instance executes the
\* job" (service.py:63): a turn is sent at most once, although every
\* instance fires it, writes back what it read, and may be restarted in
\* between - if Redis answers, and all are done with the turn before the
\* lock expires and before the minute, which names the lock, is over.
AtMostOncePerTurn ==
    \A t \in Turns :
      /\ Undisturbed(t, {"unlocked", "late"})
      /\ MaxLate < LockTtl /\ MinuteOf(t + MaxLate) = MinuteOf(t)
      => sent[t] <= 1

\* A turn is not lost: when its time is over, and no run of it failed to
\* send, was dropped or died, its task has been sent, by one instance or,
\* when Redis failed, by several.
EveryTurnSent ==
    \A t \in Turns :
      t + MaxLate < now /\ Undisturbed(t, {"unsent", "late"}) => sent[t] >= 1

\* The lock turns a run away only for a run of the same turn: a run that is
\* late, but within the grace time, never takes the place of the next turn,
\* provided turns are a minute and the grace time apart.
SkippedForItsOwnTurn ==
    \A i \in Instance :
      pc[i] = "claim" /\ Exists(redis, minute[i])
        => claimant[minute[i]] = turn[i]
=============================================================================
