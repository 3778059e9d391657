----------------------------- MODULE SharedKeys -----------------------------
(***************************************************************************)
(* submit_task and the workers over one Redis.  Both keep the records of   *)
(* an idempotency key under the same two names, "idem:<key>" and           *)
(* "idem:lock:<key>": submit_task for the key in the request, the worker's *)
(* wrapper for the key in the message's header, which execute_celery_task  *)
(* takes from the scheduled job.  (A task that submit_task sends carries   *)
(* no such header; its key is a hash of the call.)  So a client and a job  *)
(* that use one key take one another's locks and read one another's        *)
(* results.                                                                *)
(*                                                                         *)
(* The two parts take turns, and time passes for both at once.             *)
(***************************************************************************)
EXTENDS TaskSubmit

CONSTANTS Task, Worker, KeyOf, Window, HardLimit, MaxRetries, OnDuplicate,
          WorkFaults, MaxLosses

ASSUME SharedAssumption ==
    /\ Request \cap Task = {} /\ Task \subseteq Owner
    /\ Nil \notin Task \X Nat
    /\ KeyOf \in [Task -> IdemKey]
    /\ Window \in Nat /\ HardLimit \in Nat /\ HardLimit < Window
    /\ MaxRetries \in Nat

VARIABLES ready, place, msg, attached, elapsed, raised, result, outcome,
          losses, revoked, since, fate, crossed

\* Revokes are left out: they leave locks behind, which any crash does too.
W == INSTANCE IdempotentTask
     WITH pc <- place, Faults <- WorkFaults, Revocable <- {}, Flaky <- Task

submitting == <<pc, key, ttl, sent, rows, reply, answer, before, forgotten>>
working == <<ready, place, msg, attached, elapsed, raised, result, outcome,
             losses, revoked, since, fate, crossed>>

shared == <<redis, submitting, working>>

SharedInit == Init /\ W!Init

-----------------------------------------------------------------------------

\* get_result comes upon what a worker has stored, a task's return value: it
\* has no task_id, KeyError; but null and other false values are taken for
\* none.  (With PlainKeys no lock is found there; a return value that has a
\* task_id and a status of its own is left out.)
GetWorkersResult(r) ==
    /\ pc[r] = "get_result"
    /\ \E t \in Task : get_result(key[r]) = ResultOf(t)
    /\ \/ Unhandled(r)
       \/ Goto(r, "acquire") /\ Silent
    /\ UNCHANGED <<Effects, Params>>

SubmitStep ==
    /\ \/ \E r \in Request, k \in IdemKey, t \in TtlChoice : Submit(r, k, t)
       \/ \E r \in Request : Work(r) \/ GetWorkersResult(r) \/ Crash(r)
    /\ UNCHANGED working

WorkStep ==
    /\ \E w \in Worker : \/ \E m \in W!Message : W!Deliver(w, m)
                         \/ W!Wrapper(w) \/ W!Celery(w)
                         \/ W!Kill(w) \/ W!Disconnect(w)
    /\ UNCHANGED submitting

SharedTick == Tick /\ W!Tick

SharedNext == SubmitStep \/ WorkStep \/ SharedTick

SharedSpec == SharedInit /\ [][SharedNext]_shared

-----------------------------------------------------------------------------
(***************************************************************************)
(* Properties.                                                             *)
(***************************************************************************)

\* Each key is one lock to both sides: the requests that got past acquire
\* and have not let go of the key, and the processes in the body of a task
\* with it, come one after the other, whatever either side does on its paths
\* of failure to a lock that may be the other's.
Holders(k) ==
    Holding(k) \cup {w \in Worker : place[w] \in W!Inside /\ W!WorkKey(w) = k}
Exclusion(k) ==
    INSTANCE Mutex WITH Client <- Request \cup Worker, inside <- Holders(k)
KeyIsMutex ==
    /\ \A k \in IdemKey : Exclusion(k)!Init
    /\ [][\A k \in IdemKey : [Exclusion(k)!Next]_(Holders(k))]_shared

\* "Only executed once within the TTL period" (idempotent.py:28), although
\* clients submit under the task's key meanwhile: no request, answered or
\* failed, opens the window of a run whose result is stored.
WindowSurvivesClients == W!NoRerunWithinWindow
=============================================================================
