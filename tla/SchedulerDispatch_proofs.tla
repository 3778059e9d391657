----------------------- MODULE SchedulerDispatch_proofs -----------------------
(***************************************************************************)
(* SchedulerDispatch's invariants, for any number of instances and any     *)
(* lengths of the minute, the lock, the grace time and the interval.       *)
(***************************************************************************)
EXTENDS SchedulerDispatch, Facts

LEMMA MinuteMonotone ==
  ASSUME NEW s \in Nat, NEW t \in Nat, s <= t
  PROVE  MinuteOf(s) \in Nat /\ MinuteOf(t) \in Nat /\ MinuteOf(s) <= MinuteOf(t)
<1>1. Minute \in Nat \ {0}
  BY DispatchAssumption
<1>2. MinuteOf(s) \in Nat /\ MinuteOf(t) \in Nat
  BY <1>1, Quotient DEF MinuteOf
<1>3. MinuteOf(s) * Minute <= s /\ t < MinuteOf(t) * Minute + Minute
  BY <1>1, Quotient DEF MinuteOf
<1>4. MinuteOf(t) < MinuteOf(s) => MinuteOf(t) * Minute + Minute <= MinuteOf(s) * Minute
  BY <1>1, <1>2, Products
<1>5. MinuteOf(t) * Minute \in Nat /\ MinuteOf(s) * Minute \in Nat
  BY <1>1, <1>2
<1> QED
  BY <1>1, <1>2, <1>3, <1>4, <1>5

\* Seconds of one minute are less than a minute apart.
LEMMA SameMinute ==
  ASSUME NEW s \in Nat, NEW t \in Nat, MinuteOf(s) = MinuteOf(t)
  PROVE  s < t + Minute
<1>1. Minute \in Nat \ {0}
  BY DispatchAssumption
<1>2. s < MinuteOf(s) * Minute + Minute /\ MinuteOf(t) * Minute <= t
  BY <1>1, Quotient DEF MinuteOf
<1>3. MinuteOf(s) * Minute \in Nat
  BY <1>1, Quotient DEF MinuteOf
<1> QED
  BY <1>1, <1>2, <1>3

(***************************************************************************)
(* The times the trigger schedules: a turn's index is its place in the     *)
(* schedule.                                                               *)
(***************************************************************************)
IsTurn(t) == \E n \in Nat : t = FirstTurn + n * Period

LEMMA TurnsApart ==
  ASSUME NEW s \in Nat, NEW t \in Nat, IsTurn(s), IsTurn(t), s < t
  PROVE  s + Period <= t
<1>1. PICK a \in Nat : s = FirstTurn + a * Period
  BY DEF IsTurn
<1>2. PICK b \in Nat : t = FirstTurn + b * Period
  BY DEF IsTurn
<1>3. Period \in Nat \ {0} /\ FirstTurn \in Nat
  BY DispatchAssumption
<1>4. a * Period \in Nat /\ b * Period \in Nat
  BY <1>3
<1>5. b < a => b * Period + Period <= a * Period
  BY <1>3, Products
<1>6. a < b => a * Period + Period <= b * Period
  BY <1>3, Products
<1> QED
  BY <1>1, <1>2, <1>3, <1>4, <1>5, <1>6

LEMMA NextTurn ==
  ASSUME NEW t \in Nat, IsTurn(t), NEW q \in Nat
  PROVE  IsTurn(t + q * Period)
<1>1. PICK n \in Nat : t = FirstTurn + n * Period
  BY DEF IsTurn
<1>2. Period \in Nat /\ FirstTurn \in Nat
  BY DispatchAssumption
<1>3. (n + q) * Period = n * Period + q * Period
  BY <1>2
<1>4. n * Period \in Nat /\ q * Period \in Nat
  BY <1>2
<1> QED
  BY <1>1, <1>2, <1>3, <1>4 DEF IsTurn

\* The last turn that is due is one of the schedule's, and in the past.
LEMMA Due ==
  ASSUME now \in Nat, next \in Nat, next <= now, IsTurn(next)
  PROVE  /\ LastDue \in Nat /\ next <= LastDue /\ LastDue <= now
         /\ IsTurn(LastDue) /\ IsTurn(LastDue + Period)
         /\ LastDue + Period \in Nat
<1>1. Period \in Nat \ {0}
  BY DispatchAssumption
<1>2. PICK q \in Nat : q = (now - next) \div Period /\ q * Period <= now - next
  BY <1>1, Quotient
<1>3. q * Period \in Nat
  BY <1>1
<1>4. LastDue = next + q * Period
  BY <1>2 DEF LastDue
<1>5. IsTurn(LastDue) /\ LastDue \in Nat
  BY <1>3, <1>4, NextTurn
<1>6. IsTurn(LastDue + 1 * Period)
  BY <1>5, NextTurn
<1> QED
  BY <1>1, <1>2, <1>3, <1>4, <1>5, <1>6

-----------------------------------------------------------------------------
(***************************************************************************)
(* The inductive invariant.  What the store and the instances hold is on   *)
(* the schedule; a run that has read the clock did so within its grace     *)
(* time (Claims), and so did the run that took a lock (Claimed); a lock    *)
(* that exists was taken by a run.                                         *)
(***************************************************************************)
Scheduled ==
    /\ IsTurn(next)
    /\ \A i \in Instance : /\ pc[i] # "none" => IsTurn(turn[i])
                           /\ update[i] # NoTurn => IsTurn(update[i])
                           /\ turn[i] <= now

\* A run of turn t may read minute m off the clock.
InGrace(t, m) ==
    \E n \in Nat : m = MinuteOf(n) /\ t <= n /\ n <= t + Grace

Claims ==
    \A i \in Instance : pc[i] = "claim" => InGrace(turn[i], minute[i])

Claimed ==
    \A m \in MinuteNo :
      /\ Exists(redis, m) => claimant[m] # NoTurn
      /\ claimant[m] # NoTurn => IsTurn(claimant[m]) /\ InGrace(claimant[m], m)

IInv == TypeOK /\ Scheduled /\ Claims /\ Claimed

\* What SET NX does to the lock of a run's minute, and to no other.
LEMMA SetLockEffect ==
  ASSUME TypeOK, NEW i \in Instance, SetLock(i)
  PROVE  /\ redis' \in [MinuteNo -> Entry(LockValue)]
         /\ claimant' \in [MinuteNo -> Time \cup {NoTurn}]
         /\ ~Exists(redis, minute[i]) => claimant'[minute[i]] = turn[i]
         /\ Exists(redis, minute[i]) => claimant' = claimant /\ redis' = redis
         /\ \A m \in MinuteNo : m # minute[i] =>
              claimant'[m] = claimant[m] /\ redis'[m] = redis[m]
<1>0. LockTtl \in Nat \ {0} /\ Taken \in LockValue
  BY DispatchAssumption DEF LockValue
<1>1. /\ LockTtl \in Nat \ {0} /\ minute[i] \in MinuteNo /\ Taken \in LockValue
      /\ redis \in [MinuteNo -> Entry(LockValue)]
  BY <1>0 DEF TypeOK
<1>2. redis' = SetNxEx(redis, minute[i], Taken, LockTtl)
  BY DEF SetLock
<1>3. /\ SetNxEx(redis, minute[i], Taken, LockTtl) \in [MinuteNo -> Entry(LockValue)]
      /\ Exists(redis, minute[i]) => SetNxEx(redis, minute[i], Taken, LockTtl) = redis
      /\ \A m \in MinuteNo : m # minute[i] =>
           SetNxEx(redis, minute[i], Taken, LockTtl)[m] = redis[m]
  BY <1>1, SetNxExEffect
<1>4. /\ claimant \in [MinuteNo -> Time \cup {NoTurn}] /\ turn[i] \in Time
      /\ claimant' = IF Exists(redis, minute[i]) THEN claimant
                     ELSE [claimant EXCEPT ![minute[i]] = turn[i]]
  BY DEF SetLock, TypeOK
<1> QED
  BY <1>1, <1>2, <1>3, <1>4

LEMMA NoteType ==
  ASSUME TypeOK, NEW turns, NEW kind \in Troubles, Note(turns, kind)
  PROVE  trouble' \in [Time -> SUBSET Troubles]
BY DEF TypeOK, Note

LEMMA InitInv == Init => IInv
<1> SUFFICES ASSUME Init PROVE IInv
  OBVIOUS
<1>1. /\ FirstTurn \in Nat /\ Horizon \in Nat /\ Minute \in Nat \ {0}
      /\ Period \in Nat
  BY DispatchAssumption
<1>2. 0 \in Time /\ 0 \in MinuteNo
  BY <1>1, Quotient DEF Time, MinuteNo, MinuteOf
<1>3. TypeOK
  BY <1>1, <1>2, EmptyType DEF Init, TypeOK, Many
<1>4. IsTurn(next)
  <2>1. FirstTurn = FirstTurn + 0 * Period
    BY <1>1
  <2> QED
    BY <2>1 DEF Init, IsTurn
<1>5. Claimed
  BY DEF Init, Claimed, Empty, Exists, Absent
<1> QED
  BY <1>3, <1>4, <1>5 DEF Init, IInv, Scheduled, Claims

LEMMA NextInv == IInv /\ [Next]_vars => IInv'
<1> SUFFICES ASSUME IInv, [Next]_vars PROVE IInv'
  OBVIOUS
<1> USE DEF Store, Run, Locks, Goto
<1>0. /\ now \in Nat /\ now <= Horizon /\ next \in Nat /\ Horizon \in Nat
      /\ Grace \in Nat /\ Period \in Nat \ {0} /\ Minute \in Nat \ {0}
  BY DispatchAssumption DEF IInv, TypeOK, Time
<1>1. ASSUME NEW i \in Instance, Wake(i) PROVE IInv'
  <2>0. trouble' \in [Time -> SUBSET Troubles]
    BY <1>1, NoteType DEF Wake, IInv, TypeOK, Troubles
  <2>1. /\ LastDue \in Time /\ LastDue <= now /\ LastDue + Period \in Nat
        /\ IsTurn(LastDue) /\ IsTurn(LastDue + Period)
    BY <1>0, <1>1, Due DEF Wake, IInv, Scheduled, Time
  <2>2. TypeOK'
    BY <1>1, <2>0, <2>1 DEF Wake, IInv, TypeOK
  <2>3. Scheduled'
    BY <1>1, <2>1 DEF Wake, IInv, TypeOK, Scheduled
  <2>4. Claims'
    BY <1>1 DEF Wake, IInv, TypeOK, Claims
  <2>5. Claimed'
    BY <1>1 DEF Wake, IInv, Claimed
  <2> QED
    BY <2>2, <2>3, <2>4, <2>5 DEF IInv
<1>2. ASSUME NEW i \in Instance, Advance(i) PROVE IInv'
  <2>1. TypeOK'
    BY <1>2 DEF Advance, IInv, TypeOK
  <2>2. Scheduled'
    BY <1>2 DEF Advance, IInv, TypeOK, Scheduled
  <2>3. Claims' /\ Claimed'
    BY <1>2 DEF Advance, IInv, Claims, Claimed
  <2> QED
    BY <2>1, <2>2, <2>3 DEF IInv
<1>3. ASSUME NEW i \in Instance, Start(i) PROVE IInv'
  <2>1. MinuteOf(now) \in MinuteNo
    BY <1>0, MinuteMonotone DEF MinuteNo
  <2>2. TypeOK'
    BY <1>3, <2>1 DEF Start, IInv, TypeOK
  <2>3. Scheduled' /\ Claimed'
    BY <1>3 DEF Start, IInv, TypeOK, Scheduled, Claimed
  <2>4. Claims'
    <3> SUFFICES ASSUME NEW j \in Instance, pc'[j] = "claim"
                 PROVE  InGrace(turn[j], minute'[j])
      BY <1>3 DEF Start, Claims
    <3>1. CASE j # i
      BY <1>3, <3>1 DEF Start, IInv, TypeOK, Claims
    <3>2. CASE j = i
      <4>1. now - turn[i] <= Grace /\ minute'[i] = MinuteOf(now)
        BY <1>3, <3>2 DEF Start, IInv, TypeOK
      <4>2. turn[i] \in Nat /\ turn[i] <= now
        BY DEF IInv, Scheduled, TypeOK, Time
      <4> QED
        BY <1>0, <3>2, <4>1, <4>2 DEF InGrace
    <3> QED
      BY <3>1, <3>2
  <2> QED
    BY <2>2, <2>3, <2>4 DEF IInv
<1>4. ASSUME NEW i \in Instance, Claim(i) \/ ClaimFails(i) PROVE IInv'
  <2>1. pc[i] = "claim" /\ (SetLock(i) \/ UNCHANGED Locks)
    BY <1>4 DEF Claim, ClaimFails, FailsAs
  <2>2. /\ redis' \in [MinuteNo -> Entry(LockValue)]
        /\ claimant' \in [MinuteNo -> Time \cup {NoTurn}]
    BY <2>1, SetLockEffect DEF IInv, TypeOK
  <2>6. trouble' \in [Time -> SUBSET Troubles]
    BY <1>4, NoteType DEF Claim, ClaimFails, IInv, TypeOK, Troubles
  <2>3. TypeOK'
    BY <1>4, <2>2, <2>6 DEF Claim, ClaimFails, IInv, TypeOK
  <2>4. Scheduled' /\ Claims'
    BY <1>4 DEF Claim, ClaimFails, IInv, TypeOK, Scheduled, Claims
  <2>5. Claimed'
    <3>1. CASE UNCHANGED Locks
      BY <3>1 DEF IInv, Claimed
    <3>2. CASE SetLock(i)
      <4>1. /\ IsTurn(turn[i]) /\ InGrace(turn[i], minute[i])
            /\ minute[i] \in MinuteNo /\ turn[i] # NoTurn
        BY <2>1 DEF IInv, TypeOK, Scheduled, Claims, Time, NoTurn
      <4> QED
        BY <3>2, <4>1, SetLockEffect DEF IInv, Claimed, Exists
    <3> QED
      BY <2>1, <3>1, <3>2
  <2> QED
    BY <2>3, <2>4, <2>5 DEF IInv
<1>5. ASSUME NEW i \in Instance, Send(i) \/ SendFails(i) PROVE IInv'
  <2>1. sent' \in [Time -> 0..Many]
    BY <1>5 DEF Send, SendFails, FailsAs, CountSent, IInv, TypeOK, Many
  <2>4. trouble' \in [Time -> SUBSET Troubles]
    BY <1>5, NoteType DEF Send, SendFails, IInv, TypeOK, Troubles
  <2>2. TypeOK'
    BY <1>5, <2>1, <2>4 DEF Send, SendFails, IInv, TypeOK
  <2>3. Scheduled' /\ Claims' /\ Claimed'
    BY <1>5 DEF Send, SendFails, IInv, TypeOK, Scheduled, Claims, Claimed
  <2> QED
    BY <2>2, <2>3 DEF IInv
<1>6. ASSUME NEW i \in Instance, Crash(i) PROVE IInv'
  <2>3. trouble' \in [Time -> SUBSET Troubles]
    BY <1>6, NoteType DEF Crash, IInv, TypeOK, Troubles
  <2>1. TypeOK'
    BY <1>6, <2>3 DEF Crash, IInv, TypeOK, NoTurn
  <2>2. Scheduled' /\ Claims' /\ Claimed'
    BY <1>6 DEF Crash, IInv, TypeOK, Scheduled, Claims, Claimed
  <2> QED
    BY <2>1, <2>2 DEF IInv
<1>7. CASE Tick
  <2>1. now' \in Time
    BY <1>0, <1>7 DEF Tick, Time
  <2>2. /\ redis' \in [MinuteNo -> Entry(LockValue)]
        /\ \A m \in MinuteNo : Exists(redis', m) => Exists(redis, m)
    <3>1. redis \in [MinuteNo -> Entry(LockValue)] /\ redis' = Elapse(redis)
      BY <1>7 DEF Tick, IInv, TypeOK
    <3> QED
      BY <3>1, ElapseEffect DEF Exists, Absent
  <2>6. trouble' \in [Time -> SUBSET Troubles]
    BY <1>7, NoteType DEF Tick, IInv, Troubles
  <2>3. TypeOK'
    BY <1>7, <2>1, <2>2, <2>6 DEF Tick, IInv, TypeOK
  <2>4. Scheduled'
    BY <1>0, <1>7 DEF Tick, IInv, TypeOK, Time, Scheduled
  <2>5. Claims' /\ Claimed'
    BY <1>7, <2>2 DEF Tick, IInv, Claims, Claimed
  <2> QED
    BY <2>3, <2>4, <2>5 DEF IInv
<1>8. CASE UNCHANGED vars
  BY <1>8 DEF vars, IInv, TypeOK, Scheduled, Claims, Claimed
<1> QED
  BY <1>1, <1>2, <1>3, <1>4, <1>5, <1>6, <1>7, <1>8 DEF Next

LEMMA Invariant == Spec => []IInv
BY InitInv, NextInv, PTL DEF Spec

\* Every reachable state is well typed.
THEOREM TypeCorrect == Spec => []TypeOK
<1>1. IInv => TypeOK
  BY DEF IInv
<1> QED
  BY <1>1, Invariant, PTL

\* Two turns whose runs read the same minute are the same turn.
LEMMA SameTurn ==
  ASSUME Period >= Minute + Grace, IInv
  PROVE  SkippedForItsOwnTurn
<1> SUFFICES ASSUME NEW i \in Instance, pc[i] = "claim", Exists(redis, minute[i])
             PROVE  claimant[minute[i]] = turn[i]
  BY DEF SkippedForItsOwnTurn
<1> DEFINE t == turn[i]
           c == claimant[minute[i]]
           m == minute[i]
<1>1. /\ t \in Nat /\ c \in Nat /\ IsTurn(t) /\ IsTurn(c)
      /\ InGrace(t, m) /\ InGrace(c, m)
  BY DEF IInv, TypeOK, Scheduled, Claims, Claimed, Time, NoTurn
<1>2. PICK n \in Nat : m = MinuteOf(n) /\ t <= n /\ n <= t + Grace
  BY <1>1 DEF InGrace
<1>3. PICK k \in Nat : m = MinuteOf(k) /\ c <= k /\ k <= c + Grace
  BY <1>1 DEF InGrace
<1> HIDE DEF t, c, m
<1>4. n < k + Minute /\ k < n + Minute
  BY <1>2, <1>3, SameMinute
<1>5. Period \in Nat /\ Minute \in Nat /\ Grace \in Nat
  BY DispatchAssumption
<1>6. t < c + Period /\ c < t + Period
  BY <1>1, <1>2, <1>3, <1>4, <1>5
<1>7. t = c
  BY <1>1, <1>5, <1>6, TurnsApart
<1> QED
  BY <1>7 DEF t, c

\* With turns a minute and the grace time apart, a run that finds its
\* minute's lock taken finds it taken by a run of its own turn.
THEOREM NoTurnSwallowed ==
  ASSUME Period >= Minute + Grace
  PROVE  Spec => []SkippedForItsOwnTurn
<1>1. IInv => SkippedForItsOwnTurn
  BY SameTurn
<1> QED
  BY <1>1, Invariant, PTL

-----------------------------------------------------------------------------
(***************************************************************************)
(* How often a turn is sent.  A turn that is not noted as late is over     *)
(* MaxLate after its time: no instance will come back to it (Timely).      *)
(***************************************************************************)
IsLate(t) == "late" \in trouble[t]

Settled(t) ==
    /\ next > t
    /\ \A i \in Instance : /\ pc[i] # "none" => turn[i] # t
                           /\ update[i] # NoTurn => update[i] > t

Timely == \A t \in Turns : t + MaxLate < now /\ ~IsLate(t) => Settled(t)

(***************************************************************************)
(* So all runs of the turn that take the lock take that of its minute, and *)
(* from the first send on, until the turn is over, the lock is there: it   *)
(* was taken after the turn's time, and lasts longer than MaxLate.         *)
(***************************************************************************)
Tight(t) == MaxLate < LockTtl /\ MinuteOf(t + MaxLate) = MinuteOf(t)
Locked(t) == Undisturbed(t, {"unlocked", "late"}) /\ Tight(t)
Sends(i, t) == pc[i] = "send" /\ turn[i] = t

SentOnce(t) ==
    /\ \A i \in Instance : pc[i] = "claim" /\ turn[i] = t => minute[i] = MinuteOf(t)
    /\ \A i, j \in Instance : Sends(i, t) /\ Sends(j, t) => i = j
    /\ sent[t] <= 1
    /\ sent[t] = 1 => \A i \in Instance : ~Sends(i, t)
    /\ (sent[t] = 1 \/ \E i \in Instance : Sends(i, t)) /\ now <= t + MaxLate
         => redis[MinuteOf(t)].ttl + now >= LockTtl + t

OnceInv == \A t \in Turns : Locked(t) => SentOnce(t)

(***************************************************************************)
(* And a turn that the store or an instance has left behind has been sent  *)
(* or has a run; so has one that has taken a lock, and that run is past    *)
(* the lock.                                                               *)
(***************************************************************************)
Passed(t) == next > t \/ \E i \in Instance : update[i] # NoTurn /\ update[i] > t
Dealt(t) == sent[t] >= 1 \/ \E i \in Instance : pc[i] # "none" /\ turn[i] = t
Won(t) == sent[t] >= 1 \/ \E i \in Instance : Sends(i, t)

SentInv ==
    \A t \in Turns : Undisturbed(t, {"unsent", "late"}) =>
      /\ Passed(t) => Dealt(t)
      /\ \A m \in MinuteNo : claimant[m] = t => Won(t)

-----------------------------------------------------------------------------

LEMMA TurnFacts ==
  ASSUME NEW t \in Turns
  PROVE  t \in Time /\ t \in Nat /\ IsTurn(t) /\ MinuteOf(t) \in MinuteNo
<1>1. /\ t \in Nat /\ t <= Horizon /\ Horizon \in Nat /\ FirstTurn \in Nat
      /\ Period \in Nat \ {0} /\ t - FirstTurn \in Nat /\ (t - FirstTurn) % Period = 0
  BY DispatchAssumption DEF Turns, Time
<1>2. PICK n \in Nat : n = (t - FirstTurn) \div Period /\ t - FirstTurn = n * Period
  BY <1>1, NoRemainder, Quotient
<1>3. t = FirstTurn + n * Period
  <2>1. n * Period \in Nat
    BY <1>1
  <2> QED
    BY <1>1, <1>2, <2>1
<1>4. MinuteOf(t) \in MinuteNo
  BY <1>1, MinuteMonotone DEF MinuteNo
<1> QED
  BY <1>1, <1>3, <1>4 DEF IsTurn, Time

\* What befell a turn stays on record.
LEMMA NoteEffect ==
  ASSUME TypeOK, NEW turns, NEW kind, Note(turns, kind)
  PROVE  /\ \A t \in Time : trouble[t] \subseteq trouble'[t]
         /\ \A t \in Time : t \in turns => kind \in trouble'[t]
         /\ \A t \in Time : t \notin turns => trouble'[t] = trouble[t]
BY DEF TypeOK, Note

LEMMA TroubleGrows ==
  ASSUME TypeOK, [Next]_vars
  PROVE  \A t \in Time : trouble[t] \subseteq trouble'[t]
<1>1. trouble' = trouble \/ \E turns, kind : Note(turns, kind)
  BY DEF Next, vars, Wake, Advance, Start, Claim, ClaimFails, Send, SendFails, Crash, Tick
<1> QED
  BY <1>1, NoteEffect

LEMMA TimelyNext == IInv /\ Timely /\ [Next]_vars => Timely'
<1> SUFFICES ASSUME IInv, Timely, [Next]_vars,
                    NEW t \in Turns, t + MaxLate < now', ~IsLate(t)'
             PROVE  Settled(t)'
  BY DEF Timely, Turns
<1> USE DEF Store, Run, Goto
<1>0. /\ t \in Time /\ t \in Nat /\ now \in Nat /\ next \in Nat
      /\ MaxLate \in Nat /\ Period \in Nat \ {0} /\ ~IsLate(t)
  BY TurnFacts, TroubleGrows, DispatchAssumption DEF IInv, TypeOK, Time, IsLate
<1>1. CASE Tick
  <2>1. t \notin Overdue /\ t + MaxLate <= now
    <3>1. Note(Overdue, "late") /\ now' = now + 1
      BY <1>1 DEF Tick
    <3> QED
      BY <1>0, <3>1, NoteEffect DEF IInv, IsLate
  <2>2. Settled(t)
    BY <1>0, <2>1 DEF Overdue, Settled, IInv, TypeOK
  <2> QED
    BY <1>1, <2>2 DEF Tick, Settled
<1>2. CASE ~Tick
  <2>1. now' = now
    BY <1>2 DEF Next, vars, Wake, Advance, Start, Claim, ClaimFails, Send, SendFails, Crash
  <2>2. Settled(t)
    BY <1>0, <2>1 DEF Timely
  <2>3. ASSUME NEW i \in Instance, Wake(i) PROVE Settled(t)'
    <3>1. LastDue \in Nat /\ LastDue > t /\ LastDue + Period > t
      BY <1>0, <2>2, <2>3, Due DEF Wake, IInv, Scheduled, Settled
    <3> QED
      BY <1>0, <2>2, <2>3, <3>1 DEF Wake, IInv, TypeOK, Settled
  <2>4. ASSUME NEW i \in Instance, Advance(i) PROVE Settled(t)'
    BY <2>2, <2>4 DEF Advance, IInv, TypeOK, Settled
  <2>5. ASSUME NEW i \in Instance,
               \/ Start(i) \/ Claim(i) \/ ClaimFails(i) \/ Send(i) \/ SendFails(i)
               \/ Crash(i)
        PROVE  Settled(t)'
    <3>1. /\ next' = next /\ turn' = turn
          /\ \A j \in Instance : pc'[j] # "none" => pc[j] # "none"
          /\ \A j \in Instance : update'[j] # NoTurn => update'[j] = update[j]
      BY <2>5 DEF Start, Claim, ClaimFails, Send, SendFails, Crash, IInv, TypeOK
    <3> QED
      BY <2>2, <3>1 DEF Settled
  <2>6. CASE UNCHANGED vars
    BY <2>2, <2>6 DEF vars, Settled
  <2> QED
    BY <1>2, <2>3, <2>4, <2>5, <2>6 DEF Next
<1> QED
  BY <1>1, <1>2

\* A run of a turn that is not late is on time.
LEMMA OnTime ==
  ASSUME IInv, Timely, NEW t \in Turns, ~IsLate(t),
         NEW i \in Instance, pc[i] # "none", turn[i] = t
  PROVE  t <= now /\ now <= t + MaxLate
<1>1. t \in Nat /\ now \in Nat /\ MaxLate \in Nat /\ t <= now
  BY TurnFacts, DispatchAssumption DEF IInv, TypeOK, Scheduled, Time
<1>2. ~(t + MaxLate < now)
  BY DEF Timely, Settled
<1> QED
  BY <1>1, <1>2

\* SET NX leaves the lock of a turn that has a send alone; it is there.
LEMMA LockStays ==
  ASSUME IInv, NEW t \in Turns, MaxLate < LockTtl, now <= t + MaxLate,
         redis[MinuteOf(t)].ttl + now >= LockTtl + t
  PROVE  /\ Exists(redis, MinuteOf(t))
         /\ \A i \in Instance : SetLock(i) => redis'[MinuteOf(t)] = redis[MinuteOf(t)]
<1>1. /\ t \in Nat /\ now \in Nat /\ MaxLate \in Nat /\ LockTtl \in Nat
      /\ MinuteOf(t) \in MinuteNo
  BY TurnFacts, DispatchAssumption DEF IInv, TypeOK, Time
<1>2. redis[MinuteOf(t)].ttl \in Int
  BY <1>1 DEF IInv, TypeOK, Entry, Ttl, Missing, Persistent
<1>3. Exists(redis, MinuteOf(t))
  BY <1>1, <1>2 DEF Exists, Missing
<1> QED
  BY <1>1, <1>3, SetLockEffect DEF IInv

LEMMA OnceNext == IInv /\ Timely /\ OnceInv /\ [Next]_vars => OnceInv'
<1> SUFFICES ASSUME IInv, Timely, OnceInv, [Next]_vars, NEW t \in Turns, Locked(t)'
             PROVE  SentOnce(t)'
  BY DEF OnceInv, Turns
<1> DEFINE m == MinuteOf(t)
<1> USE DEF Store, Run, Locks, Goto
<1>0. /\ t \in Time /\ t \in Nat /\ m \in MinuteNo /\ now \in Nat
      /\ MaxLate \in Nat /\ LockTtl \in Nat \ {0}
      /\ MaxLate < LockTtl /\ MinuteOf(t + MaxLate) = m
  BY TurnFacts, DispatchAssumption DEF IInv, TypeOK, Time, Locked, Tight
<1>1. Locked(t) /\ SentOnce(t) /\ ~IsLate(t) /\ "unlocked" \notin trouble'[t]
  <2>1. trouble[t] \subseteq trouble'[t]
    BY <1>0, TroubleGrows DEF IInv
  <2>2. Locked(t)
    BY <2>1 DEF Locked, Undisturbed, Tight
  <2> QED
    BY <2>2 DEF OnceInv, Locked, Undisturbed, IsLate
<1>2. redis[m].ttl \in Int /\ sent[t] \in 0..2
  BY <1>0 DEF IInv, TypeOK, Entry, Ttl, Missing, Persistent, Many
<1> HIDE DEF m
<1>3. ASSUME UNCHANGED <<now, redis, sent>>,
             \A j \in Instance : pc'[j] \in {"claim", "send"} =>
               pc'[j] = pc[j] /\ turn'[j] = turn[j] /\ minute'[j] = minute[j]
      PROVE  SentOnce(t)'
  BY <1>1, <1>3 DEF SentOnce, Sends
<1>4. ASSUME NEW i \in Instance, Wake(i) \/ Advance(i) \/ Crash(i) PROVE SentOnce(t)'
  BY <1>3, <1>4 DEF Wake, Advance, Crash, IInv, TypeOK
<1>5. ASSUME NEW i \in Instance, Start(i) PROVE SentOnce(t)'
  <2>1. pc[i] = "queued" /\ UNCHANGED <<now, redis, sent, turn>>
    BY <1>5 DEF Start
  <2>2. \A j \in Instance \ {i} : pc'[j] = pc[j] /\ minute'[j] = minute[j]
    BY <1>5 DEF Start, IInv, TypeOK
  <2>3. pc'[i] # "send" /\ (pc'[i] = "claim" => minute'[i] = MinuteOf(now))
    BY <1>5 DEF Start, IInv, TypeOK
  <2>4. turn[i] = t => MinuteOf(now) = m
    <3> SUFFICES ASSUME turn[i] = t PROVE MinuteOf(now) = m
      OBVIOUS
    <3>1. t <= now /\ now <= t + MaxLate /\ t + MaxLate \in Nat
      BY <1>0, <1>1, <2>1, OnTime
    <3>2. MinuteOf(t) <= MinuteOf(now) /\ MinuteOf(now) <= MinuteOf(t + MaxLate)
      BY <1>0, <3>1, MinuteMonotone
    <3>3. MinuteOf(t) \in Nat /\ MinuteOf(now) \in Nat
      BY <1>0, <3>1, MinuteMonotone
    <3> QED
      BY <1>0, <3>2, <3>3 DEF m
  <2> QED
    BY <1>1, <2>1, <2>2, <2>3, <2>4 DEF SentOnce, Sends, m
<1>6. ASSUME NEW i \in Instance, Claim(i) \/ ClaimFails(i), turn[i] # t PROVE SentOnce(t)'
  <2>1. /\ pc[i] = "claim" /\ (SetLock(i) \/ UNCHANGED Locks)
        /\ UNCHANGED <<now, sent, turn, minute>>
        /\ \A j \in Instance \ {i} : pc'[j] = pc[j]
    BY <1>6 DEF Claim, ClaimFails, FailsAs, IInv, TypeOK
  <2>2. \A j \in Instance : Sends(j, t)' <=> Sends(j, t)
    BY <1>6, <2>1 DEF Sends
  <2>3. \A j \in Instance : pc'[j] = "claim" /\ turn'[j] = t => minute'[j] = m
    BY <1>1, <1>6, <2>1 DEF SentOnce, m
  <2>4. (sent[t] = 1 \/ \E j \in Instance : Sends(j, t)) /\ now <= t + MaxLate
          => redis'[m].ttl + now >= LockTtl + t
    BY <1>0, <1>1, <2>1, LockStays DEF SentOnce, m
  <2> QED
    BY <1>1, <2>1, <2>2, <2>3, <2>4 DEF SentOnce, m
<1>7. ASSUME NEW i \in Instance, Claim(i), turn[i] = t PROVE SentOnce(t)'
  <2>1. pc[i] = "claim" /\ minute[i] = m /\ SetLock(i) /\ UNCHANGED <<now, sent, turn, minute>>
    BY <1>1, <1>7 DEF Claim, SentOnce, m
  <2>2. t <= now /\ now <= t + MaxLate
    BY <1>1, <1>7, <2>1, OnTime
  <2>3. CASE Exists(redis, m)
    <3>1. pc' = [pc EXCEPT ![i] = "none"] /\ redis' = redis
      BY <1>7, <2>1, <2>3, SetLockEffect DEF Claim, IInv
    <3> QED
      BY <1>3, <2>1, <3>1 DEF IInv, TypeOK
  <2>4. CASE ~Exists(redis, m)
    <3>1. pc' = [pc EXCEPT ![i] = "send"]
      BY <1>7, <2>1, <2>4 DEF Claim
    <3>2. sent[t] # 1 /\ \A j \in Instance : ~Sends(j, t)
      BY <1>0, <1>1, <2>2, <2>4, LockStays DEF SentOnce, m
    <3>3. redis'[m].ttl = LockTtl
      <4>1. /\ redis \in [MinuteNo -> Entry(LockValue)] /\ Taken \in LockValue
            /\ redis' = SetNxEx(redis, m, Taken, LockTtl)
        BY <2>1 DEF IInv, TypeOK, SetLock, LockValue
      <4> QED
        BY <1>0, <2>4, <4>1, SetNxExEffect
    <3>4. \A j \in Instance : Sends(j, t)' => j = i
      BY <2>1, <3>1, <3>2 DEF Sends, IInv, TypeOK
    <3>5. \A j \in Instance : pc'[j] = "claim" /\ turn'[j] = t => minute'[j] = m
      BY <1>1, <2>1, <3>1 DEF SentOnce, m, IInv, TypeOK
    <3>6. redis'[m].ttl + now >= LockTtl + t
      BY <1>0, <2>2, <3>3
    <3> QED
      BY <1>1, <2>1, <3>2, <3>4, <3>5, <3>6 DEF SentOnce, m
  <2> QED
    BY <2>3, <2>4
<1>8. ASSUME NEW i \in Instance, ClaimFails(i), turn[i] = t PROVE FALSE
  <2>1. Note({t}, "unlocked")
    BY <1>8 DEF ClaimFails
  <2> QED
    BY <1>0, <1>1, <2>1, NoteEffect DEF IInv
<1>9. ASSUME NEW i \in Instance, Send(i) \/ SendFails(i) PROVE SentOnce(t)'
  <2>1. /\ pc[i] = "send" /\ UNCHANGED <<now, redis, turn, minute>>
        /\ pc' = [pc EXCEPT ![i] = "none"]
        /\ CountSent(i) \/ sent' = sent
    BY <1>9 DEF Send, SendFails, FailsAs
  <2>2. CASE sent'[t] = sent[t]
    <3>1. \A j \in Instance : Sends(j, t)' => Sends(j, t)
      BY <2>1 DEF Sends, IInv, TypeOK
    <3>2. \A j \in Instance : pc'[j] = "claim" => pc[j] = "claim"
      BY <2>1 DEF IInv, TypeOK
    <3> QED
      BY <1>1, <2>1, <2>2, <3>1, <3>2 DEF SentOnce
  <2>3. CASE sent'[t] # sent[t]
    <3>1. turn[i] = t /\ Sends(i, t)
      BY <1>0, <2>1, <2>3 DEF CountSent, Sends, IInv, TypeOK
    <3>2. sent[t] = 0 /\ sent'[t] = 1
      BY <1>0, <1>1, <1>2, <2>1, <2>3, <3>1 DEF CountSent, SentOnce, IInv, TypeOK, Many
    <3>3. \A j \in Instance : ~Sends(j, t)'
      BY <1>1, <2>1, <3>1 DEF SentOnce, Sends, IInv, TypeOK
    <3>4. \A j \in Instance : pc'[j] = "claim" => pc[j] = "claim"
      BY <2>1 DEF IInv, TypeOK
    <3> QED
      BY <1>1, <2>1, <3>1, <3>2, <3>3, <3>4 DEF SentOnce
  <2> QED
    BY <2>2, <2>3
<1>10. CASE Tick
  <2>1. now' = now + 1 /\ redis' = Elapse(redis) /\ UNCHANGED <<sent, pc, turn, minute>>
    BY <1>10 DEF Tick
  <2>2. redis[m].ttl > 1 => redis'[m].ttl = redis[m].ttl - 1
    <3>1. redis \in [MinuteNo -> Entry(LockValue)]
      BY DEF IInv, TypeOK
    <3> QED
      BY <1>0, <2>1, <3>1, ElapseEffect
  <2>3. redis[m].ttl + now >= LockTtl + t /\ now' <= t + MaxLate
          => redis'[m].ttl + now' >= LockTtl + t
    BY <1>0, <1>2, <2>1, <2>2
  <2>4. now' <= t + MaxLate => now <= t + MaxLate
    BY <1>0, <2>1
  <2> QED
    BY <1>1, <2>1, <2>3, <2>4 DEF SentOnce, Sends, m
<1>11. CASE UNCHANGED vars
  BY <1>3, <1>11 DEF vars
<1> QED
  BY <1>4, <1>5, <1>6, <1>7, <1>8, <1>9, <1>10, <1>11 DEF Next

\* "Uses Redis distributed lock to ensure only one instance executes the
\* job" (service.py:63): a turn of which Redis failed no run, and with which
\* all instances were done MaxLate after its time, is sent at most once, if
\* the lock lasts longer than that and the minute does too.
THEOREM SentAtMostOnce == Spec => []AtMostOncePerTurn
<1>1. Init => Timely /\ OnceInv
  <2> SUFFICES ASSUME Init, NEW t \in Turns
               PROVE  ~(t + MaxLate < now) /\ SentOnce(t)
    BY DEF Timely, OnceInv
  <2>1. t \in Nat /\ MaxLate \in Nat /\ t \in Time
    BY TurnFacts, DispatchAssumption
  <2> QED
    BY <2>1 DEF Init, SentOnce, Sends
<1>2. IInv /\ Timely /\ OnceInv /\ [Next]_vars => Timely' /\ OnceInv'
  BY TimelyNext, OnceNext
<1>3. OnceInv => AtMostOncePerTurn
  BY DEF OnceInv, AtMostOncePerTurn, Locked, Tight, SentOnce
<1> QED
  BY <1>1, <1>2, <1>3, Invariant, PTL DEF Spec

-----------------------------------------------------------------------------

\* A turn that the store has not passed when the next one is due is late: a
\* turn that is on time is not coalesced away.
LEMMA NotCoalesced ==
  ASSUME MaxLate < Period, IInv, Timely, NEW t \in Turns, ~IsLate(t),
         next <= t, next <= now, t < LastDue
  PROVE  FALSE
<1>1. /\ t \in Nat /\ IsTurn(t) /\ now \in Nat /\ next \in Nat /\ IsTurn(next)
      /\ MaxLate \in Nat /\ Period \in Nat
  BY TurnFacts, DispatchAssumption DEF IInv, TypeOK, Scheduled, Time
<1>2. LastDue \in Nat /\ LastDue <= now /\ IsTurn(LastDue)
  BY <1>1, Due
<1>3. t + Period <= LastDue
  BY <1>1, <1>2, TurnsApart
<1>4. t + MaxLate < now
  BY <1>1, <1>2, <1>3
<1>5. next > t
  BY <1>4 DEF Timely, Settled
<1> QED
  BY <1>1, <1>5

LEMMA SentNext ==
  ASSUME Period >= Minute + Grace, MaxLate <= Grace
  PROVE  IInv /\ Timely /\ SentInv /\ [Next]_vars => SentInv'
<1> SUFFICES ASSUME IInv, Timely, SentInv, [Next]_vars,
                    NEW t \in Turns, Undisturbed(t, {"unsent", "late"})'
             PROVE  /\ Passed(t)' => Dealt(t)'
                    /\ \A m \in MinuteNo : claimant'[m] = t => Won(t)'
  BY DEF SentInv, Turns
<1> USE DEF Store, Run, Locks, Goto
<1>0. /\ t \in Time /\ t \in Nat /\ IsTurn(t) /\ now \in Nat /\ next \in Nat
      /\ MaxLate \in Nat /\ Grace \in Nat /\ Minute \in Nat \ {0}
      /\ Period \in Nat \ {0} /\ MaxLate < Period
  BY TurnFacts, DispatchAssumption DEF IInv, TypeOK, Time
<1>1. /\ ~IsLate(t) /\ "unsent" \notin trouble'[t]
      /\ Passed(t) => Dealt(t)
      /\ \A m \in MinuteNo : claimant[m] = t => Won(t)
  <2>1. trouble[t] \subseteq trouble'[t]
    BY <1>0, TroubleGrows DEF IInv
  <2>2. Undisturbed(t, {"unsent", "late"}) /\ "unsent" \notin trouble'[t]
    BY <2>1 DEF Undisturbed
  <2> QED
    BY <2>2 DEF SentInv, Undisturbed, IsLate
<1>2. sent[t] \in 0..2
  BY <1>0 DEF IInv, TypeOK, Many
\* Whoever has a run of the turn keeps it.
<1>3. ASSUME UNCHANGED <<next, update, claimant>>, sent'[t] >= sent[t], sent'[t] \in Nat,
             \A i \in Instance : turn'[i] = turn[i],
             \A i \in Instance : turn[i] = t /\ pc[i] # "none" =>
               pc'[i] # "none" \/ sent'[t] >= 1 \/ \E j \in Instance : Sends(j, t)',
             \A i \in Instance : Sends(i, t) => Sends(i, t)' \/ sent'[t] >= 1
      PROVE  /\ Passed(t)' => Dealt(t)'
             /\ \A m \in MinuteNo : claimant'[m] = t => Won(t)'
  BY <1>1, <1>2, <1>3 DEF Passed, Dealt, Won, Sends
<1>4. ASSUME NEW i \in Instance, Wake(i)
      PROVE  /\ Passed(t)' => Dealt(t)'
             /\ \A m \in MinuteNo : claimant'[m] = t => Won(t)'
  <2>1. /\ next <= now /\ UNCHANGED <<now, next, sent, claimant>>
        /\ update' = [update EXCEPT ![i] = LastDue + Period]
        /\ \A j \in Instance : pc[j] # "none" => pc'[j] = pc[j] /\ turn'[j] = turn[j]
    BY <1>4 DEF Wake, IInv, TypeOK
  <2>2. LastDue \in Nat /\ IsTurn(LastDue) /\ next <= LastDue
    BY <1>0, <2>1, Due DEF IInv, Scheduled
  <2>3. Dealt(t) => Dealt(t)'
    BY <2>1 DEF Dealt
  <2>4. \A m \in MinuteNo : claimant'[m] = t => Won(t)'
    BY <1>1, <2>1 DEF Won, Sends
  <2>5. CASE Passed(t)
    BY <1>1, <2>3, <2>4, <2>5
  <2>6. CASE ~Passed(t) /\ t < LastDue
    BY <1>0, <1>1, <2>1, <2>6, NotCoalesced DEF Passed
  <2>7. CASE t = LastDue
    <3>1. pc[i] = "none" /\ turn'[i] = t /\ pc'[i] = "queued"
      <4>1. ~Note({LastDue}, "unsent")
        BY <1>0, <1>1, <2>7, NoteEffect DEF IInv
      <4> QED
        BY <1>4, <2>7, <4>1 DEF Wake, IInv, TypeOK
    <3> QED
      BY <2>4, <3>1 DEF Dealt
  <2>8. CASE ~Passed(t) /\ LastDue < t
    <3>1. LastDue + Period <= t
      BY <1>0, <2>2, <2>8, TurnsApart
    <3>2. \A j \in Instance : update'[j] = update[j] \/ update'[j] = LastDue + Period
      BY <2>1 DEF IInv, TypeOK
    <3>3. ~Passed(t)'
      BY <1>0, <2>1, <2>2, <2>8, <3>1, <3>2 DEF Passed
    <3> QED
      BY <2>4, <3>3
  <2> QED
    BY <1>0, <2>2, <2>5, <2>6, <2>7, <2>8
<1>5. ASSUME NEW i \in Instance, Advance(i)
      PROVE  /\ Passed(t)' => Dealt(t)'
             /\ \A m \in MinuteNo : claimant'[m] = t => Won(t)'
  <2>1. Passed(t)' => Passed(t)
    BY <1>5 DEF Advance, Passed, IInv, TypeOK
  <2> QED
    BY <1>1, <1>5, <2>1 DEF Advance, Dealt, Won, Sends
<1>6. ASSUME NEW i \in Instance, Start(i)
      PROVE  /\ Passed(t)' => Dealt(t)'
             /\ \A m \in MinuteNo : claimant'[m] = t => Won(t)'
  <2>1. /\ pc[i] = "queued" /\ UNCHANGED <<next, update, claimant, sent, turn>>
        /\ \A j \in Instance \ {i} : pc'[j] = pc[j]
    BY <1>6 DEF Start, IInv, TypeOK
  <2>2. turn[i] = t => pc'[i] # "none"
    <3> SUFFICES ASSUME turn[i] = t PROVE pc'[i] # "none"
      OBVIOUS
    <3>1. now - t <= Grace
      BY <1>0, <1>1, <2>1, OnTime
    <3>2. ~(now - t > Grace)
      BY <1>0, <3>1
    <3> QED
      BY <1>6, <3>2 DEF Start, IInv, TypeOK
  <2> QED
    BY <1>2, <1>3, <2>1, <2>2 DEF Sends
<1>7. ASSUME NEW i \in Instance, Claim(i) \/ ClaimFails(i)
      PROVE  /\ Passed(t)' => Dealt(t)'
             /\ \A m \in MinuteNo : claimant'[m] = t => Won(t)'
  <2>1. /\ pc[i] = "claim" /\ UNCHANGED <<next, update, sent, turn, minute>>
        /\ \A j \in Instance \ {i} : pc'[j] = pc[j]
        /\ SetLock(i) \/ UNCHANGED Locks
    BY <1>7 DEF Claim, ClaimFails, FailsAs, IInv, TypeOK
  <2>2. minute[i] \in MinuteNo
    BY DEF IInv, TypeOK
  <2>3. CASE pc'[i] = "send"
    <3>1. Dealt(t) => Dealt(t)'
      BY <2>1, <2>3 DEF Dealt
    <3>2. Won(t) => Won(t)'
      BY <2>1, <2>3 DEF Won, Sends
    <3>3. \A m \in MinuteNo : claimant'[m] = claimant[m] \/ claimant'[m] = turn[i]
      BY <2>1, <2>2, SetLockEffect DEF IInv, SetLock
    <3>4. turn[i] = t => Won(t)'
      BY <2>1, <2>3 DEF Won, Sends
    <3> QED
      BY <1>1, <2>1, <3>1, <3>2, <3>3, <3>4 DEF Passed
  \* The lock was taken, for a run of the same turn.
  <2>4. CASE pc'[i] # "send"
    <3>1. Claim(i) /\ Exists(redis, minute[i]) /\ SetLock(i)
      BY <1>7, <2>4 DEF Claim, ClaimFails, IInv, TypeOK
    <3>2. claimant' = claimant
      BY <3>1 DEF SetLock
    <3>3. claimant[minute[i]] = turn[i]
      BY <2>1, <3>1, SameTurn DEF SkippedForItsOwnTurn
    <3>4. turn[i] = t => sent[t] >= 1 \/ \E j \in Instance : Sends(j, t)
      BY <1>1, <2>2, <3>3 DEF Won
    <3>5. \A j \in Instance : Sends(j, t) => Sends(j, t)'
      BY <2>1 DEF Sends
    <3> QED
      BY <1>2, <1>3, <2>1, <3>2, <3>4, <3>5
  <2> QED
    BY <2>3, <2>4
<1>8. ASSUME NEW i \in Instance, Send(i) \/ SendFails(i)
      PROVE  /\ Passed(t)' => Dealt(t)'
             /\ \A m \in MinuteNo : claimant'[m] = t => Won(t)'
  <2>1. /\ pc[i] = "send" /\ UNCHANGED <<next, update, claimant, turn, minute>>
        /\ \A j \in Instance \ {i} : pc'[j] = pc[j]
        /\ CountSent(i) \/ sent' = sent
    BY <1>8 DEF Send, SendFails, FailsAs, IInv, TypeOK
  <2>2. sent'[t] >= sent[t] /\ sent'[t] \in Nat
    BY <1>0, <1>2, <2>1 DEF CountSent, IInv, TypeOK, Many
  <2>3. turn[i] = t => sent'[t] >= 1
    <3> SUFFICES ASSUME turn[i] = t PROVE sent'[t] >= 1
      OBVIOUS
    <3>1. CASE Send(i)
      BY <1>0, <1>2, <3>1 DEF Send, CountSent, IInv, TypeOK, Many
    <3>2. ~SendFails(i)
      <4>1. ~Note({t}, "unsent")
        BY <1>0, <1>1, NoteEffect DEF IInv
      <4> QED
        BY <4>1 DEF SendFails
    <3> QED
      BY <1>8, <3>1, <3>2
  <2> QED
    BY <1>3, <2>1, <2>2, <2>3 DEF Sends
<1>9. ASSUME NEW i \in Instance, Crash(i)
      PROVE  /\ Passed(t)' => Dealt(t)'
             /\ \A m \in MinuteNo : claimant'[m] = t => Won(t)'
  <2>1. /\ UNCHANGED <<next, claimant, sent, turn>>
        /\ \A j \in Instance \ {i} : pc'[j] = pc[j]
        /\ \A j \in Instance : update'[j] = update[j] \/ update'[j] = NoTurn
    BY <1>9 DEF Crash, IInv, TypeOK
  <2>2. pc[i] = "none" \/ turn[i] # t
    <3>1. ~Note({t}, "unsent")
      BY <1>0, <1>1, NoteEffect DEF IInv
    <3> QED
      BY <1>9, <3>1 DEF Crash
  <2>3. Passed(t)' => Passed(t)
    BY <2>1 DEF Passed
  <2>4. (Dealt(t) => Dealt(t)') /\ (Won(t) => Won(t)')
    BY <2>1, <2>2 DEF Dealt, Won, Sends
  <2> QED
    BY <1>1, <2>1, <2>3, <2>4
<1>10. CASE Tick
  BY <1>2, <1>3, <1>10 DEF Tick, Sends
<1>11. CASE UNCHANGED vars
  BY <1>2, <1>3, <1>11 DEF vars, Sends
<1> QED
  BY <1>4, <1>5, <1>6, <1>7, <1>8, <1>9, <1>10, <1>11 DEF Next

\* No turn is lost: one that no run failed, dropped or left unfinished, and
\* with which all were done MaxLate after its time, has been sent.  Turns
\* are a minute and the grace time apart, so that no turn's lock stands in
\* the way of the next one, and lateness is within the grace time.
THEOREM TurnsSent ==
  ASSUME Period >= Minute + Grace, MaxLate <= Grace
  PROVE  Spec => []EveryTurnSent
<1>1. Init => Timely /\ SentInv
  <2> SUFFICES ASSUME Init, NEW t \in Turns
               PROVE  /\ ~(t + MaxLate < now) /\ ~Passed(t)
                      /\ \A m \in MinuteNo : claimant[m] # t
    BY DEF Timely, SentInv
  <2>1. t \in Nat /\ MaxLate \in Nat /\ FirstTurn \in Nat /\ t >= FirstTurn
    BY TurnFacts, DispatchAssumption DEF Turns
  <2> QED
    BY <2>1 DEF Init, Passed, NoTurn
<1>2. IInv /\ Timely /\ SentInv /\ [Next]_vars => Timely' /\ SentInv'
  BY TimelyNext, SentNext
<1>3. Timely /\ SentInv => EveryTurnSent
  BY DEF Timely, SentInv, EveryTurnSent, Undisturbed, IsLate, Settled, Passed, Dealt
<1> QED
  BY <1>1, <1>2, <1>3, Invariant, PTL DEF Spec
=============================================================================
