-------------------------- MODULE PoolAnswerProofs --------------------------
(***************************************************************************)
(* Theorems about Pool that rest on those of PoolProofs: whom Signal       *)
(* wakes, which requests are told that their deadline has passed, and what *)
(* the counters of the heartbeat count.                                    *)
(***************************************************************************)
EXTENDS PoolProofs

-----------------------------------------------------------------------------
(***************************************************************************)
(* Work is conserved.  The invariant counts: every queued task has its own *)
(* worker on the way to pop, or no worker sleeps.                          *)
(***************************************************************************)
Ready == {v \in Worker : pc[v] = "pop" /\ v \notin waiting}

LEMMA ReadyFinite == IsFiniteSet(Ready) /\ Cardinality(Ready) \in Nat
<1>1. IsFiniteSet(Ready)
  BY WorkerAssumption, FS_Subset DEF Ready
<1> QED BY <1>1, FS_CardinalityType

(* A step that queues nothing, puts no worker to sleep and keeps those on  *)
(* their way conserves work; so does one that wakes everybody.             *)
LEMMA WorkKept ==
  ASSUME Typed, Typed', WorkConserving,
         \/ q' \subseteq q /\ Worker \cap waiting' \subseteq waiting /\ Ready \subseteq Ready'
         \/ q' = {}
         \/ Worker \cap waiting' = {}
  PROVE  WorkConserving'
<1>1. IsFiniteSet(Ready)' /\ (Cardinality(Ready) \in Nat)'
  BY WorkerAssumption, FS_Subset, FS_CardinalityType DEF Ready
<1>2. Cardinality(q) \in Nat /\ Cardinality(q') \in Nat
  BY FS_CardinalityType DEF Typed
<1>3. CASE q' \subseteq q /\ Worker \cap waiting' \subseteq waiting /\ Ready \subseteq Ready'
  <2> SUFFICES ASSUME NEW w \in Worker \cap waiting'
               PROVE  Cardinality(q') <= Cardinality(Ready')
    BY DEF WorkConserving, Ready
  <2>1. Cardinality(q) <= Cardinality(Ready)
    BY <1>3 DEF WorkConserving, Ready
  <2>2. Cardinality(q') <= Cardinality(q)
    BY <1>3, FS_Subset DEF Typed
  <2>3. Cardinality(Ready) <= Cardinality(Ready')
    BY <1>1, <1>3, FS_Subset
  <2> QED BY <1>1, <1>2, <2>1, <2>2, <2>3, ReadyFinite
<1>4. CASE q' = {}
  <2>1. Cardinality(q') = 0
    BY <1>4, FS_EmptySet
  <2> QED BY <1>1, <2>1 DEF WorkConserving, Ready
<1>5. CASE Worker \cap waiting' = {}
  BY <1>5 DEF WorkConserving
<1> QED BY <1>3, <1>4, <1>5

(* Signal after an append wakes a worker, because the receiver, which      *)
(* appends, is the only other sleeper there can be.                        *)
LEMMA EnqueueConserves ==
  ASSUME Typed, Typed', Awake, WorkConserving, Receiver \notin waiting,
         enqueueLocked(cur[Receiver])
  PROVE  WorkConserving'
<1>1. /\ q' = q \cup {cur[Receiver]} /\ pc' = [pc EXCEPT ![Receiver] = "idle"]
      /\ \/ waiting = {} /\ waiting' = {}
         \/ \E th \in waiting : waiting' = waiting \ {th}
  BY DEF enqueueLocked, Signal, Goto
<1>2. CASE waiting' = {}
  BY <1>2, WorkKept
<1>3. ASSUME NEW th \in waiting, waiting' = waiting \ {th} PROVE WorkConserving'
  <2>1. th \in Worker /\ pc[th] = "pop"
    BY <1>3 DEF Awake, Sleepers
  <2>2. \A v \in Worker : pc'[v] = pc[v]
    BY <1>1, ThreadAssumption DEF Typed, TypeOK, Thread
  <2>3. Ready' = Ready \cup {th} /\ th \notin Ready
    BY <1>3, <2>1, <2>2 DEF Ready
  <2>4. Cardinality(Ready') = Cardinality(Ready) + 1
    BY <2>3, ReadyFinite, FS_AddElement
  <2>5. Cardinality(q') <= Cardinality(q) + 1 /\ Cardinality(q) \in Nat /\ Cardinality(q') \in Nat
    BY <1>1, FS_AddElement, FS_CardinalityType DEF Typed
  <2> SUFFICES ASSUME NEW w \in Worker \cap waiting'
               PROVE  Cardinality(q') <= Cardinality(Ready')
    BY DEF WorkConserving, Ready
  <2>6. Cardinality(q) <= Cardinality(Ready)
    BY <1>3 DEF WorkConserving, Ready
  <2> QED BY <2>4, <2>5, <2>6, ReadyFinite
<1> QED BY <1>1, <1>2, <1>3

LEMMA ConservingNext ==
  ASSUME Typed, Typed', Awake, WorkConserving, [Next]_vars
  PROVE  WorkConserving'
<1> USE ThreadAssumption DEF At, Goto
<1>t. /\ pc \in [Thread -> ReceiverAt \cup WorkerAt \cup {"sweep"}]
      /\ Thread = Worker \cup {Receiver, Sweeper}
  BY DEF Typed, TypeOK, Thread
<1>1. ASSUME q' \subseteq q, Worker \cap waiting' \subseteq waiting,
             \A v \in Worker : pc[v] = "pop" => pc'[v] = "pop"
      PROVE  WorkConserving'
  BY <1>1, WorkKept DEF Ready
<1>2. ASSUME NEW th \in Thread, TakeExpired(th), \A v \in Worker : pc'[v] = pc[v]
      PROVE  WorkConserving'
  BY <1>1, <1>2 DEF TakeExpired, Broadcast
<1>3. ASSUME WaitOnce PROVE WorkConserving'
  <2>1. \A v \in Worker : pc'[v] = pc[v]
    BY <1>3, <1>t DEF WaitOnce
  <2>2. CASE ExpiredIn(q) # {}
    BY <1>2, <1>3, <1>t, <2>1, <2>2 DEF WaitOnce
  <2>3. CASE ExpiredIn(q) = {}
    BY <1>1, <1>3, <2>1, <2>3 DEF WaitOnce
  <2> QED BY <2>2, <2>3
<1>4. ASSUME GiveUp PROVE WorkConserving'
  BY <1>1, <1>4, <1>t DEF GiveUp
<1>5. ASSUME NEW t \in Task, Submit(t) \/ TimerDue(t) \/ TimerFire(t) PROVE WorkConserving'
  BY <1>1, <1>5, <1>t DEF Submit, TimerDue, TimerFire, Broadcast
<1>6. CASE SubmitCollect
  <2>1. \A v \in Worker : pc'[v] = pc[v]
    BY <1>6, <1>t DEF SubmitCollect
  <2> QED BY <1>2, <1>6, <1>t, <2>1 DEF SubmitCollect
<1>7. CASE SubmitLock
  <2>1. CASE Goto(Receiver, "shed") /\ UNCHANGED <<q, ticket, counters, cur, dead, waiting>>
    BY <1>1, <1>t, <2>1
  <2> QED BY <1>3, <1>4, <1>7, <2>1, EnqueueConserves DEF SubmitLock
<1>8. CASE WaitLoop \/ WaitExit
  BY <1>3, <1>4, <1>8, EnqueueConserves DEF WaitLoop, WaitExit
<1>9. CASE SubmitExpire \/ SubmitShed \/ shedLimit
  BY <1>1, <1>9, <1>t DEF SubmitExpire, SubmitShed, HandlerReturns, shedLimit
<1>10. ASSUME NEW th \in Thread, ReplyDead(th) \/ expire(th) PROVE WorkConserving'
  BY <1>1, <1>10 DEF ReplyDead, expire
<1>11. ASSUME NEW w \in Worker, Pop(w) PROVE WorkConserving'
  <2>1. waiting' = {} \/ q' = {}
    BY <1>11 DEF Pop, Broadcast, PopWake
  <2> QED BY <2>1, WorkKept
<1>12. ASSUME NEW w \in Worker, budget(w) \/ LateReply(w) \/ Evaluate(w) PROVE WorkConserving'
  BY <1>1, <1>12, <1>t DEF budget, LateReply, Evaluate, Finish
<1>13. CASE Sweep
  BY <1>2, <1>13, <1>t DEF Sweep
<1>14. CASE SweepStop
  BY <1>1, <1>14, <1>t DEF SweepStop
<1>15. CASE CloseStop \/ CloseLock \/ CloseReturn \/ Tick \/ UNCHANGED vars
  BY <1>1, <1>15 DEF CloseStop, CloseLock, CloseReturn, Tick, vars, Broadcast
<1> HIDE DEF At
<1> QED
  BY <1>5, <1>6, <1>7, <1>8, <1>9, <1>10, <1>11, <1>12, <1>13, <1>14, <1>15, <1>t
     DEF Next, ReceiverStep, WorkerStep, SweeperStep, TimerStep, CloserStep, Finished

(* A worker sleeps only when every queued task has a worker of its own     *)
(* awake and on the way to pop, although one condition variable serves the *)
(* workers and the receiver and Submit wakes a single sleeper.             *)
THEOREM WorkConserved == Safe => []WorkConserving
<1>1. Init => WorkConserving
  BY DEF Init, WorkConserving
<1>2. Typed /\ Awake /\ WorkConserving /\ [Next]_vars => WorkConserving'
  BY NextTyped, ConservingNext
<1> QED BY <1>1, <1>2, InitTyped, NextTyped, AwakeAlways, PTL DEF Safe
-----------------------------------------------------------------------------
(***************************************************************************)
(* The deadline as an excuse.  It is checked at one moment and told at a   *)
(* later one, by another step and sometimes another goroutine; the time    *)
(* that is left only shrinks meanwhile.                                    *)
(***************************************************************************)
ToldLate(t) == replies[t] = <<"deadline">>
Excuse(t) == Closed \/ Expired(t) \/ Left(t) <= 0

TimersHonest ==
    \A t \in Task : /\ timer[t] # "off" => t \notin fresh
                    /\ timer[t] \in {"firing", "fired"} => Left(t) <= 0

Owed == /\ \A th \in Thread : \A t \in dead[th] : Expired(t)
        /\ pc[Receiver] = "expire" => Excuse(cur[Receiver])
        /\ \A w \in Worker : pc[w] = "late" => Expired(cur[w])

Honest == TimersHonest /\ Owed /\ DeadlineIsHonest

(* A task somebody holds or has answered is not one to come. *)
LEMMA NotFresh ==
  ASSUME Typed, OnePlace
  PROVE  /\ \A th \in Thread : \A t \in dead[th] : t \in Task \ fresh
         /\ \A th \in Thread : cur[th] # NoTask => cur[th] \in Task \ fresh
         /\ \A t \in Task : replies[t] # <<>> => t \notin fresh
         /\ q \subseteq Task \ fresh
<1>1. cur \in [Thread -> Task \cup {NoTask}] /\ dead \in [Thread -> SUBSET Task] /\ q \subseteq Task
  BY DEF Typed, TypeOK
<1> QED BY <1>1 DEF OnePlace, InOnePlace, HeldBy, Answered

(* For a task that has arrived, the time that is left only shrinks. *)
LEMMA TimeRunsOut ==
  ASSUME Typed, [Next]_vars, NEW t \in Task \ fresh
  PROVE  /\ Expired(t) => Expired(t)'
         /\ Left(t) <= 0 => Left(t)' <= 0
         /\ Excuse(t) => Excuse(t)'
         /\ t \notin fresh'
<1>1. /\ now' \in {now, now + 1} /\ enq'[t] = enq[t] /\ t \notin fresh'
      /\ Closed => Closed'
  <2> USE DEF Typed, TypeOK, Closed
  <2>1. CASE \E u \in Task : Submit(u)
    BY <2>1 DEF Submit
  <2>2. CASE UNCHANGED <<now, enq, fresh, closer>>
    BY <2>2
  <2>3. CASE CloseStop \/ CloseLock \/ CloseReturn \/ Tick
    BY <2>3 DEF CloseStop, CloseLock, CloseReturn, Tick
  <2> HIDE DEF Typed, TypeOK, Closed
  <2> QED
    BY <2>1, <2>2, <2>3
       DEF Next, vars, ReceiverStep, WorkerStep, SweeperStep, TimerStep, CloserStep, Finished,
           TimerDue, TimerFire, SubmitCollect, SubmitLock, WaitLoop, WaitExit, SubmitExpire,
           SubmitShed, HandlerReturns, expire, shedLimit, ReplyDead, Pop, budget, LateReply, Evaluate, Finish, Sweep, SweepStop
<1>2. now \in Nat /\ enq[t] \in Nat /\ Deadline[t] \in Nat /\ Reserve \in Nat /\ MinBudget \in Nat
  BY TimeAssumption DEF Typed, TypeOK
<1> QED BY <1>1, <1>2 DEF Expired, Left, Excuse

(* The excuses stay good when whoever is collected, given up or found late *)
(* in this step has one.                                                   *)
LEMMA StaysOwed ==
  ASSUME Typed, OnePlace, Honest, [Next]_vars,
         \A th \in Thread : dead'[th] \subseteq dead[th] \cup ExpiredIn(q),
         pc'[Receiver] = "expire" => cur'[Receiver] \in Task \ fresh /\ Excuse(cur'[Receiver]),
         \A w \in Worker : pc'[w] = "late" => cur'[w] \in Task \ fresh /\ Expired(cur'[w])
  PROVE  Owed'
<1>1. \A t \in Task \ fresh : (Expired(t) => Expired(t)') /\ (Excuse(t) => Excuse(t)')
  BY TimeRunsOut
<1>2. ASSUME NEW th \in Thread, NEW t \in dead'[th] PROVE Expired(t)'
  <2>1. t \in Task \ fresh /\ Expired(t)
    BY NotFresh DEF Honest, Owed, ExpiredIn
  <2> QED BY <1>1, <2>1
<1>3. ASSUME pc'[Receiver] = "expire" PROVE Excuse(cur[Receiver])'
  BY <1>1, <1>3 DEF Excuse, Expired, Left, Closed
<1>4. ASSUME NEW w \in Worker, pc'[w] = "late" PROVE Expired(cur[w])'
  BY <1>1, <1>4 DEF Expired, Left
<1> QED BY <1>2, <1>3, <1>4 DEF Owed

(* An answer DEADLINE_EXCEEDED stays one that was due. *)
LEMMA StaysHonest ==
  ASSUME Typed, OnePlace, Honest, [Next]_vars, NEW t \in Task,
         ToldLate(t) \/ (t \notin fresh /\ Excuse(t))
  PROVE  Excuse(t)'
<1>1. ToldLate(t) => t \notin fresh
  BY NotFresh DEF ToldLate
<1>2. t \in Task \ fresh /\ Excuse(t)
  BY <1>1 DEF Honest, DeadlineIsHonest, Excuse, ToldLate
<1> QED BY <1>2, TimeRunsOut

LEMMA HonestNext ==
  ASSUME Typed, Typed', OnePlace, Honest, [Next]_vars
  PROVE  Honest'
<1> USE ThreadAssumption DEF Goto, Thread
<1>t. /\ pc \in [Thread -> ReceiverAt \cup WorkerAt \cup {"sweep"}]
      /\ cur \in [Thread -> Task \cup {NoTask}] /\ dead \in [Thread -> SUBSET Task]
      /\ timer \in [Task -> {"off", "armed", "firing", "fired"}]
      /\ \A th \in Thread : pc[th] \notin {"idle", "pop", "sweep", "done"} => cur[th] \in Task
      /\ pc[Sweeper] \in {"sweep", "done"} /\ \A w \in Worker : pc[w] \in WorkerAt
  BY DEF Typed, TypeOK
<1>c. \A th \in Thread : pc[th] \notin {"idle", "pop", "sweep", "done"} => cur[th] \in Task \ fresh
  BY <1>t, NotFresh, TaskAssumption
<1>0. UNCHANGED timer => TimersHonest'
  BY TimeRunsOut DEF Honest, TimersHonest
<1>1. ASSUME UNCHANGED replies PROVE DeadlineIsHonest'
  <2> SUFFICES ASSUME NEW t \in Task, ToldLate(t)' PROVE Excuse(t)'
    BY DEF DeadlineIsHonest, Excuse, ToldLate
  <2>1. ToldLate(t)
    BY <1>1 DEF ToldLate
  <2> QED BY <2>1, StaysHonest
<1>2. ASSUME \A th \in Thread : dead'[th] \subseteq dead[th] \cup ExpiredIn(q),
             \A th \in Thread : pc'[th] \in {"expire", "late"} => pc'[th] = pc[th] /\ cur'[th] = cur[th]
      PROVE  Owed'
  <2>1. pc'[Receiver] = "expire" => cur'[Receiver] \in Task \ fresh /\ Excuse(cur'[Receiver])
    BY <1>2, <1>c DEF Honest, Owed
  <2>2. \A w \in Worker : pc'[w] = "late" => cur'[w] \in Task \ fresh /\ Expired(cur'[w])
    BY <1>2, <1>c DEF Honest, Owed
  <2> QED BY <1>2, <2>1, <2>2, StaysOwed
<1>3. ASSUME GiveUp, Excuse(cur[Receiver]), pc[Receiver] \in {"lock", "wait"} PROVE Owed'
  <2>1. pc' = [pc EXCEPT ![Receiver] = "expire"] /\ cur' = cur /\ dead' = dead
    BY <1>3 DEF GiveUp
  <2>2. cur'[Receiver] \in Task \ fresh /\ Excuse(cur'[Receiver])
    BY <1>3, <1>c, <2>1
  <2>3. \A w \in Worker : pc'[w] = "late" => cur'[w] \in Task \ fresh /\ Expired(cur'[w])
    BY <1>t, <1>c, <2>1 DEF Honest, Owed
  <2> QED BY <2>1, <2>2, <2>3, StaysOwed
<1>4. ASSUME WaitOnce \/ enqueueLocked(cur[Receiver]) PROVE Owed'
  BY <1>2, <1>4, <1>t DEF WaitOnce, TakeExpired, enqueueLocked
<1>5. ASSUME NEW t \in Task, Submit(t) PROVE Honest'
  <2>1. /\ pc' = [pc EXCEPT ![Receiver] = IF Deadline[t] - Reserve < MinBudget
                                            THEN "expire" ELSE "collect"]
        /\ cur' = [cur EXCEPT ![Receiver] = t] /\ enq' = [enq EXCEPT ![t] = now]
        /\ UNCHANGED <<dead, now, timer, replies>>
    BY <1>5 DEF Submit
  <2>2. pc'[Receiver] = "expire" => Expired(cur[Receiver])'
    <3>1. now \in Nat /\ enq'[t] = now /\ Deadline[t] \in Nat /\ Reserve \in Nat /\ cur'[Receiver] = t
      BY <1>t, <2>1, TimeAssumption DEF Typed, TypeOK
    <3>2. pc'[Receiver] = "expire" => Deadline[t] - Reserve < MinBudget
      BY <1>t, <2>1
    <3>3. Deadline[t] - (now' - enq'[t]) - Reserve = Deadline[t] - Reserve
      BY <2>1, <3>1
    <3> QED BY <3>1, <3>2, <3>3 DEF Expired, Left
  <2>3. \A th \in Thread : \A u \in dead[th] : Expired(u)'
    BY NotFresh, TimeRunsOut DEF Honest, Owed
  <2>4. ASSUME NEW w \in Worker, pc'[w] = "late" PROVE Expired(cur[w])'
    <3>1. pc[w] = "late" /\ cur'[w] = cur[w] /\ cur[w] \in Task \ fresh
      BY <1>t, <1>c, <2>1, <2>4
    <3>2. PICK u \in Task \ fresh : u = cur[w] /\ Expired(u)
      BY <3>1 DEF Honest, Owed
    <3>3. Expired(u)'
      BY <3>2, TimeRunsOut
    <3> QED BY <3>1, <3>2, <3>3 DEF Expired, Left
  <2>5. Owed'
    BY <2>1, <2>2, <2>3, <2>4 DEF Owed, Excuse
  <2> QED BY <1>0, <1>1, <2>1, <2>5 DEF Honest
<1>6. ASSUME NEW t \in Task, TimerDue(t) \/ TimerFire(t) PROVE Honest'
  <2>1. /\ \/ timer[t] = "armed" /\ Left(t) <= 0 /\ timer' = [timer EXCEPT ![t] = "firing"]
           \/ timer[t] = "firing" /\ timer' = [timer EXCEPT ![t] = "fired"]
        /\ UNCHANGED <<now, enq, fresh, pc, cur, dead, replies>>
    BY <1>6 DEF TimerDue, TimerFire
  <2>2. TimersHonest'
    BY <1>t, <2>1 DEF Honest, TimersHonest, Left
  <2> QED BY <1>1, <1>2, <2>1, <2>2 DEF Honest
<1>7. CASE SubmitCollect
  BY <1>0, <1>1, <1>2, <1>7, <1>t DEF SubmitCollect, TakeExpired, Honest
<1>8. CASE SubmitLock
  <2>1. pc[Receiver] = "lock" /\ UNCHANGED <<now, fresh, enq, closer, replies>>
    BY <1>8 DEF SubmitLock, At
  <2>2. timer' = timer \/ timer' = [timer EXCEPT ![cur[Receiver]] = "armed"]
    BY <1>8 DEF SubmitLock
  <2>3. TimersHonest'
    BY <1>0, <1>t, <1>c, <2>1, <2>2 DEF Honest, TimersHonest, Left
  <2>4. CASE Goto(Receiver, "shed") /\ UNCHANGED <<q, ticket, counters, cur, dead, waiting>>
    BY <1>1, <1>2, <1>t, <2>1, <2>3, <2>4 DEF Honest
  <2>5. CASE GiveUp /\ (Closed \/ Expired(cur[Receiver]))
    BY <1>1, <1>3, <2>1, <2>3, <2>5 DEF Honest, Excuse
  <2>6. CASE WaitOnce \/ enqueueLocked(cur[Receiver])
    BY <1>1, <1>4, <2>1, <2>3, <2>6 DEF Honest
  <2> QED BY <1>8, <2>4, <2>5, <2>6 DEF SubmitLock
<1>9. CASE WaitLoop
  BY <1>0, <1>1, <1>4, <1>9 DEF WaitLoop, Honest
<1>10. CASE WaitExit
  <2>1. pc[Receiver] = "wait" /\ UNCHANGED <<now, fresh, enq, closer, replies>>
    BY <1>10 DEF WaitExit, At
  <2>2. timer' = timer \/ timer' = [timer EXCEPT ![cur[Receiver]] = "off"]
    BY <1>10 DEF WaitExit
  <2>3. TimersHonest'
    BY <1>0, <1>t, <1>c, <2>1, <2>2 DEF Honest, TimersHonest, Left
  <2>4. CASE GiveUp /\ (Closed \/ timer[cur[Receiver]] = "fired")
    <3>1. Excuse(cur[Receiver])
      BY <1>c, <2>1, <2>4 DEF Honest, TimersHonest, Excuse
    <3> QED BY <1>1, <1>3, <2>1, <2>3, <2>4, <3>1 DEF Honest
  <2>5. CASE enqueueLocked(cur[Receiver])
    BY <1>1, <1>4, <2>1, <2>3, <2>5 DEF Honest
  <2> QED BY <1>10, <2>4, <2>5 DEF WaitExit
<1>11. ASSUME NEW th \in Thread, NEW t \in Task \ fresh, NEW v \in Verdict, Answer(t, v),
              v = "deadline" => Excuse(t), replies[t] = <<>>
       PROVE  DeadlineIsHonest'
  <2>1. replies'[t] = <<v>> /\ \A u \in Task \ {t} : replies'[u] = replies[u]
    <3>1. TypeOK /\ replies \in [Task -> Seq(Verdict)]
      BY DEF Typed, TypeOK
    <3>2. replies' = [replies EXCEPT ![t] = <<v>>]
      BY <1>11, <3>1, FirstAnswer
    <3> QED BY <3>1, <3>2
  <2>2. <<v>> = <<"deadline">> => v = "deadline"
    OBVIOUS
  <2> SUFFICES ASSUME NEW u \in Task, ToldLate(u)' PROVE Excuse(u)'
    BY DEF DeadlineIsHonest, Excuse, ToldLate
  <2>3. CASE u = t
    BY <1>11, <2>1, <2>2, <2>3, StaysHonest DEF ToldLate
  <2>4. CASE u # t
    <3>1. ToldLate(u)
      BY <2>1, <2>4 DEF ToldLate
    <3> QED BY <3>1, StaysHonest
  <2> QED BY <2>3, <2>4
<1>12. \A th \in Thread : \A t \in HeldBy(th) : replies[t] = <<>> /\ t \in Task \ fresh
  BY <1>t, TaskAssumption DEF OnePlace, InOnePlace, HeldBy, Answered
<1>13. ASSUME NEW th \in Thread, cur[th] \in Task, NEW v \in Verdict, Answer(cur[th], v),
              v = "deadline" => Excuse(cur[th])
       PROVE  DeadlineIsHonest'
  <2>1. cur[th] \in HeldBy(th)
    BY <1>13, TaskAssumption DEF HeldBy
  <2> QED BY <1>11, <1>12, <1>13, <2>1
<1>14. CASE SubmitExpire
  <2>1. DeadlineIsHonest'
    BY <1>13, <1>14, <1>c DEF SubmitExpire, HandlerReturns, At, Verdict, Honest, Owed
  <2> QED BY <1>0, <1>2, <1>14, <1>t, <2>1 DEF SubmitExpire, HandlerReturns, Honest
<1>15. CASE SubmitShed
  <2>1. DeadlineIsHonest'
    BY <1>13, <1>15, <1>c DEF SubmitShed, HandlerReturns, At, Verdict
  <2> QED BY <1>0, <1>2, <1>15, <1>t, <2>1 DEF SubmitShed, HandlerReturns, Honest
<1>23. CASE shedLimit \/ \E th \in Thread : expire(th)
  BY <1>0, <1>1, <1>2, <1>23 DEF shedLimit, expire, Honest
<1>16. ASSUME NEW th \in Thread, ReplyDead(th) PROVE Honest'
  <2>1. PICK t \in dead[th] : Answer(t, "deadline") /\ dead' = [dead EXCEPT ![th] = @ \ {t}]
    BY <1>16 DEF ReplyDead
  <2>2. t \in HeldBy(th) /\ Excuse(t)
    BY <2>1 DEF HeldBy, Honest, Owed, Excuse
  <2>3. DeadlineIsHonest'
    BY <1>11, <1>12, <2>1, <2>2 DEF Verdict
  <2> QED BY <1>0, <1>2, <1>16, <1>t, <2>1, <2>3 DEF ReplyDead, Honest
<1>17. ASSUME NEW w \in Worker, Pop(w) PROVE Honest'
  <2>1. /\ pc[w] = "pop" /\ dead' = [dead EXCEPT ![w] = ExpiredIn(q)] /\ UNCHANGED <<timer, replies>>
        /\ \E l \in {"budget", "done", "pop"} : pc' = [pc EXCEPT ![w] = l]
        /\ cur' = cur \/ \E t : cur' = [cur EXCEPT ![w] = t]
    BY <1>17 DEF Pop, At
  <2> QED BY <1>0, <1>1, <1>2, <1>t, <2>1 DEF Honest
<1>18. ASSUME NEW w \in Worker, budget(w) PROVE Honest'
  <2>1. /\ pc[w] = "budget" /\ UNCHANGED <<timer, replies, cur, dead>>
        /\ pc' = [pc EXCEPT ![w] = IF Expired(cur[w]) THEN "late" ELSE "evaluate"]
    BY <1>18 DEF budget, At
  <2>2. pc'[Receiver] = "expire" => cur'[Receiver] \in Task \ fresh /\ Excuse(cur'[Receiver])
    BY <1>t, <1>c, <2>1 DEF Honest, Owed
  <2>3. \A v \in Worker : pc'[v] = "late" => cur'[v] \in Task \ fresh /\ Expired(cur'[v])
    BY <1>t, <1>c, <2>1 DEF Honest, Owed
  <2>4. Owed'
    BY <2>1, <2>2, <2>3, StaysOwed
  <2> QED BY <1>0, <1>1, <2>1, <2>4 DEF Honest
<1>19. ASSUME NEW w \in Worker, LateReply(w) \/ Evaluate(w) PROVE Honest'
  <2>1. PICK v \in Verdict : /\ Answer(cur[w], v)
                             /\ v = "deadline" => pc[w] = "late"
                             /\ pc[w] \in {"late", "evaluate"}
                             /\ pc' = [pc EXCEPT ![w] = "pop"] /\ cur' = [cur EXCEPT ![w] = NoTask]
                             /\ UNCHANGED <<timer, dead>>
    BY <1>19 DEF LateReply, Evaluate, Finish, At, Verdict
  <2>2. DeadlineIsHonest'
    <3>1. w \in Thread /\ cur[w] \in Task
      BY <1>c, <2>1
    <3>2. v = "deadline" => Excuse(cur[w])
      BY <2>1 DEF Honest, Owed, Excuse
    <3>3. Answer(cur[w], v)
      BY <2>1
    <3> QED BY <1>13, <3>1, <3>2, <3>3
  <2> QED BY <1>0, <1>2, <1>t, <2>1, <2>2 DEF Honest
<1>20. CASE Sweep
  BY <1>0, <1>1, <1>2, <1>20, <1>t DEF Sweep, TakeExpired, Honest
<1>21. CASE SweepStop
  BY <1>0, <1>1, <1>2, <1>21, <1>t DEF SweepStop, Honest
<1>22. CASE CloseStop \/ CloseLock \/ CloseReturn \/ Tick \/ UNCHANGED vars
  BY <1>0, <1>1, <1>2, <1>22 DEF CloseStop, CloseLock, CloseReturn, Tick, vars, Honest
<1> QED
  BY <1>5, <1>6, <1>7, <1>8, <1>9, <1>10, <1>14, <1>15, <1>16, <1>17, <1>18, <1>19, <1>20,
     <1>21, <1>22, <1>23
     DEF Next, ReceiverStep, WorkerStep, SweeperStep, TimerStep, CloserStep, Finished

(* Who is told DEADLINE_EXCEEDED has no time left, or the pool is closing: *)
(* however long ago and by whichever goroutine the deadline was checked,   *)
(* and although the timer's callback and the receiver race.                *)
THEOREM DeadlineIsHonestAlways == Safe => []DeadlineIsHonest
<1>1. Init => Honest
  BY ThreadAssumption
     DEF Init, Honest, TimersHonest, Owed, DeadlineIsHonest, Thread
<1>2. Typed /\ OnePlace /\ Honest /\ [Next]_vars => Honest'
  BY NextTyped, HonestNext
<1>3. Honest => DeadlineIsHonest
  BY DEF Honest
<1> QED BY <1>1, <1>2, <1>3, InitTyped, NextTyped, OnePlaceAlways, PTL DEF Safe
-----------------------------------------------------------------------------
(***************************************************************************)
(* The counters.  A task is counted before its handler is called, so the   *)
(* threads that are in such a call make up the difference between what is  *)
(* counted and what is answered.                                           *)
(***************************************************************************)
Told(v) == {t \in Task : replies[t] = <<v>>}
LateWorkers == {w \in Worker : pc[w] = "late"}
Shedding == {th \in calling : pc[th] = "shed"}
Expiring == {th \in calling : pc[th] # "shed"}

(* A thread calls the handler for the next of its expired tasks, or for    *)
(* the one Submit has given up, and then it owes no other an answer.       *)
Calls == /\ pc[Receiver] \in {"expire", "shed"} => dead[Receiver] = {}
         /\ \A th \in calling : dead[th] # {} \/ pc[th] \in {"expire", "shed"}

Counted == /\ IsFiniteSet(Told("limit")) /\ IsFiniteSet(Told("deadline"))
           /\ shed = Cardinality(Told("limit")) + Cardinality(Shedding)
           /\ expired = Cardinality(Told("deadline"))
                        + (Cardinality(LateWorkers) + Cardinality(Expiring))

LEMMA CallsNext == ASSUME Typed, Typed', Calls, [Next]_vars PROVE Calls'
<1> USE ThreadAssumption DEF Goto, At
<1>t. /\ pc \in [Thread -> ReceiverAt \cup WorkerAt \cup {"sweep"}]
      /\ Thread = Worker \cup {Receiver, Sweeper}
      /\ dead \in [Thread -> SUBSET Task] /\ calling \subseteq Thread
  BY DEF Typed, TypeOK, Thread
<1>1. ASSUME UNCHANGED <<pc, dead, calling>> PROVE Calls'
  BY <1>1 DEF Calls
<1>2. ASSUME NEW th \in Thread, dead[th] = {}, pc[th] \notin {"expire", "shed"}, NEW l, NEW D,
             pc' = [pc EXCEPT ![th] = l], dead' = [dead EXCEPT ![th] = D], UNCHANGED calling,
             th = Receiver /\ l \in {"expire", "shed"} => D = {}
      PROVE  Calls'
  <2>1. th \notin calling /\ pc'[th] = l /\ dead'[th] = D
    BY <1>2, <1>t DEF Calls
  <2>2. \A o \in Thread \ {th} : pc'[o] = pc[o] /\ dead'[o] = dead[o]
    BY <1>2, <1>t
  <2> QED BY <1>2, <1>t, <2>1, <2>2 DEF Calls
<1>3. ASSUME NEW th \in Thread, dead[th] = {}, pc[th] \notin {"expire", "shed"}, NEW l,
             pc' = [pc EXCEPT ![th] = l], UNCHANGED <<dead, calling>>
      PROVE  Calls'
  <2>1. dead' = [dead EXCEPT ![th] = {}]
    BY <1>3, <1>t
  <2> QED BY <1>2, <1>3, <2>1
<1>4. ASSUME NEW t \in Task, Submit(t) \/ TimerDue(t) \/ TimerFire(t) PROVE Calls'
  BY <1>1, <1>3, <1>4, <1>t DEF Submit, TimerDue, TimerFire
<1>5. CASE SubmitCollect
  BY <1>2, <1>5, <1>t DEF SubmitCollect, TakeExpired
<1>6. CASE SubmitLock \/ WaitLoop \/ WaitExit
  <2>1. /\ pc[Receiver] \in {"lock", "wait"} /\ dead[Receiver] = {} /\ UNCHANGED calling
        /\ \/ GiveUp \/ enqueueLocked(cur[Receiver]) \/ WaitOnce
           \/ Goto(Receiver, "shed") /\ UNCHANGED dead
    BY <1>6 DEF SubmitLock, WaitLoop, WaitExit
  <2>2. CASE GiveUp \/ enqueueLocked(cur[Receiver]) \/ (Goto(Receiver, "shed") /\ UNCHANGED dead)
    BY <1>3, <1>t, <2>1, <2>2 DEF GiveUp, enqueueLocked
  <2>3. CASE WaitOnce
    <3>1. CASE ExpiredIn(q) # {}
      BY <1>2, <1>t, <2>1, <2>3, <3>1 DEF WaitOnce, TakeExpired
    <3>2. CASE ExpiredIn(q) = {}
      BY <1>3, <1>t, <2>1, <2>3, <3>2 DEF WaitOnce
    <3> QED BY <3>1, <3>2
  <2> QED BY <2>1, <2>2, <2>3
<1>7. CASE SubmitExpire \/ SubmitShed
  BY <1>7, <1>t DEF SubmitExpire, SubmitShed, HandlerReturns, Calls
<1>8. CASE shedLimit
  BY <1>8, <1>t DEF shedLimit, Calls
<1>9. ASSUME NEW th \in Thread, expire(th) PROVE Calls'
  BY <1>9, <1>t DEF expire, Calls
<1>10. ASSUME NEW th \in Thread, ReplyDead(th) PROVE Calls'
  BY <1>10, <1>t DEF ReplyDead, Calls
<1>11. ASSUME NEW w \in Worker, Pop(w) PROVE Calls'
  <2>1. /\ pc[w] = "pop" /\ dead[w] = {} /\ UNCHANGED calling
        /\ dead' = [dead EXCEPT ![w] = ExpiredIn(q)]
        /\ \E l \in {"budget", "done", "pop"} : pc' = [pc EXCEPT ![w] = l]
    BY <1>11 DEF Pop
  <2> QED BY <1>2, <1>t, <2>1
<1>12. ASSUME NEW w \in Worker, budget(w) \/ LateReply(w) \/ Evaluate(w) PROVE Calls'
  BY <1>3, <1>12, <1>t DEF budget, LateReply, Evaluate, Finish
<1>13. CASE Sweep
  <2>1. pc' = [pc EXCEPT ![Sweeper] = "sweep"]
    BY <1>13, <1>t DEF Sweep
  <2> QED BY <1>2, <1>13, <1>t, <2>1 DEF Sweep, TakeExpired
<1>14. CASE SweepStop
  BY <1>3, <1>14, <1>t DEF SweepStop
<1>15. CASE CloseStop \/ CloseLock \/ CloseReturn \/ Tick \/ UNCHANGED vars
  BY <1>1, <1>15 DEF CloseStop, CloseLock, CloseReturn, Tick, vars
<1> HIDE DEF At
<1> QED
  BY <1>4, <1>5, <1>6, <1>7, <1>8, <1>9, <1>10, <1>11, <1>12, <1>13, <1>14, <1>15, <1>t
     DEF Next, ReceiverStep, WorkerStep, SweeperStep, TimerStep, CloserStep, Finished

LEMMA ThreadFinite == IsFiniteSet(Worker \cup {Receiver, Sweeper})
<1>1. IsFiniteSet(Worker \cup {Receiver})
  BY WorkerAssumption, FS_AddElement
<1>2. IsFiniteSet((Worker \cup {Receiver}) \cup {Sweeper})
  BY <1>1, FS_AddElement
<1>3. (Worker \cup {Receiver}) \cup {Sweeper} = Worker \cup {Receiver, Sweeper}
  OBVIOUS
<1> QED BY <1>2, <1>3

(* The sets of threads that are counted are finite. *)
LEMMA ThreadsFinite ==
  ASSUME Typed, Typed'
  PROVE  /\ IsFiniteSet(LateWorkers) /\ Cardinality(LateWorkers) \in Nat
         /\ IsFiniteSet(LateWorkers') /\ Cardinality(LateWorkers') \in Nat
         /\ IsFiniteSet(Shedding) /\ Cardinality(Shedding) \in Nat
         /\ IsFiniteSet(Shedding') /\ Cardinality(Shedding') \in Nat
         /\ IsFiniteSet(Expiring) /\ Cardinality(Expiring) \in Nat
         /\ IsFiniteSet(Expiring') /\ Cardinality(Expiring') \in Nat
<1>2. ASSUME NEW S, S \subseteq Worker \cup {Receiver, Sweeper}
      PROVE  IsFiniteSet(S) /\ Cardinality(S) \in Nat
  BY <1>2, ThreadFinite, FS_Subset, FS_CardinalityType
<1>3. calling \subseteq Worker \cup {Receiver, Sweeper} /\ calling' \subseteq Worker \cup {Receiver, Sweeper}
  BY DEF Typed, TypeOK, Thread
<1>4. LateWorkers \subseteq Worker /\ LateWorkers' \subseteq Worker
  BY DEF LateWorkers
<1>5. /\ Shedding \subseteq calling /\ Shedding' \subseteq calling'
      /\ Expiring \subseteq calling /\ Expiring' \subseteq calling'
  BY DEF Shedding, Expiring
<1> QED BY <1>2, <1>3, <1>4, <1>5

(* An answer to a task somebody holds is a new one of its kind. *)
LEMMA AnswerCounts ==
  ASSUME Typed, NEW t \in Task, replies[t] = <<>>, NEW v \in Verdict, Answer(t, v)
  PROVE  /\ Told(v)' = Told(v) \cup {t} /\ t \notin Told(v)
         /\ \A u \in Verdict \ {v} : Told(u)' = Told(u)
<1>1. TypeOK /\ replies \in [Task -> Seq(Verdict)]
  BY DEF Typed, TypeOK
<1>2. replies' = [replies EXCEPT ![t] = <<v>>]
  BY <1>1, FirstAnswer
<1>3. \A u : <<u>> # <<>> /\ (<<u>> = <<v>> => u = v)
  OBVIOUS
<1>4. replies'[t] = <<v>> /\ \A o \in Task \ {t} : replies'[o] = replies[o]
  BY <1>1, <1>2
<1>5. ASSUME NEW u \in Verdict, NEW o \in Task PROVE
        o \in Told(u)' <=> IF o = t THEN u = v ELSE o \in Told(u)
  BY <1>3, <1>4 DEF Told
<1>6. t \notin Told(v) /\ \A u \in Verdict : t \notin Told(u) /\ Told(u) \subseteq Task /\ Told(u)' \subseteq Task
  BY <1>3 DEF Told
<1>7. Told(v)' = Told(v) \cup {t}
  BY <1>5, <1>6
<1>8. ASSUME NEW u \in Verdict \ {v} PROVE Told(u)' = Told(u)
  BY <1>5, <1>6
<1> QED BY <1>6, <1>7, <1>8

LEMMA CountedNext ==
  ASSUME Typed, Typed', OnePlace, Calls, Counted, [Next]_vars
  PROVE  Counted'
<1> USE ThreadAssumption DEF Goto, At
<1> DEFINE nL == Cardinality(Told("limit"))
           nD == Cardinality(Told("deadline"))
           nW == Cardinality(LateWorkers)
           nS == Cardinality(Shedding)
           nE == Cardinality(Expiring)
<1>n. nL \in Nat /\ nD \in Nat /\ nW \in Nat /\ nS \in Nat /\ nE \in Nat
  BY ThreadsFinite, FS_CardinalityType DEF Counted
<1>s. shed = nL + nS /\ expired = nD + (nW + nE)
  BY DEF Counted
<1>t. /\ pc \in [Thread -> ReceiverAt \cup WorkerAt \cup {"sweep"}]
      /\ Thread = Worker \cup {Receiver, Sweeper}
      /\ \A th \in Thread : pc[th] \notin {"idle", "pop", "sweep", "done"} => cur[th] \in Task
      /\ \A w \in Worker : pc[w] \notin {"expire", "shed"}
      /\ pc[Receiver] # "late" /\ pc[Sweeper] \in {"sweep", "done"}
      /\ dead \in [Thread -> SUBSET Task] /\ calling \subseteq Thread
  BY DEF Typed, TypeOK, Thread, ReceiverAt, WorkerAt
<1>u. \A th \in Thread : /\ cur[th] \in Task => replies[cur[th]] = <<>>
                         /\ \A t \in dead[th] : replies[t] = <<>>
  BY <1>t, TaskAssumption DEF OnePlace, InOnePlace, HeldBy, Answered
<1>1. ASSUME UNCHANGED <<replies, shed, expired, calling>>,
             \A w \in Worker : pc'[w] = "late" <=> pc[w] = "late",
             \A th \in calling : pc'[th] = "shed" <=> pc[th] = "shed"
      PROVE  Counted'
  <2>1. /\ LateWorkers' = LateWorkers /\ Shedding' = Shedding /\ Expiring' = Expiring
        /\ Told("limit")' = Told("limit") /\ Told("deadline")' = Told("deadline")
    BY <1>1 DEF LateWorkers, Shedding, Expiring, Told
  <2> QED BY <1>1, <2>1 DEF Counted
<1>2. ASSUME NEW t \in Task, replies[t] = <<>>, Answer(t, "deadline")
      PROVE  /\ IsFiniteSet(Told("deadline")') /\ Cardinality(Told("deadline")') = nD + 1
             /\ Told("limit")' = Told("limit")
  <2>1. Told("deadline")' = Told("deadline") \cup {t} /\ t \notin Told("deadline")
        /\ Told("limit")' = Told("limit")
    BY <1>2, AnswerCounts DEF Verdict
  <2> QED BY <2>1, FS_AddElement DEF Counted
<1>3. ASSUME NEW th \in Expiring, NEW t \in Task, replies[t] = <<>>, Answer(t, "deadline"),
             UNCHANGED <<shed, expired>>, Shedding' = Shedding, LateWorkers' = LateWorkers,
             Expiring' = Expiring \ {th}
      PROVE  Counted'
  <2>1. Cardinality(Expiring') = nE - 1
    BY <1>3, ThreadsFinite, FS_RemoveElement
  <2>2. expired' = (nD + 1) + (nW + (nE - 1))
    BY <1>3, <1>n, <1>s
  <2> QED BY <1>2, <1>3, <1>s, <2>1, <2>2 DEF Counted
<1>4. CASE SubmitExpire
  <2>1. /\ pc[Receiver] = "expire" /\ Receiver \in calling /\ calling' = calling \ {Receiver}
        /\ pc' = [pc EXCEPT ![Receiver] = "idle"] /\ UNCHANGED <<shed, expired>>
        /\ Answer(cur[Receiver], "deadline") /\ cur[Receiver] \in Task
    BY <1>4, <1>t DEF SubmitExpire, HandlerReturns, counters
  <2>2. /\ Receiver \in Expiring /\ Shedding' = Shedding /\ LateWorkers' = LateWorkers
        /\ Expiring' = Expiring \ {Receiver}
    BY <1>t, <2>1 DEF Shedding, Expiring, LateWorkers
  <2> QED BY <1>3, <1>t, <1>u, <2>1, <2>2
<1>5. ASSUME NEW th \in Thread, ReplyDead(th) PROVE Counted'
  <2>1. PICK t \in dead[th] : Answer(t, "deadline")
    BY <1>5 DEF ReplyDead
  <2>2. /\ th \in calling /\ calling' = calling \ {th} /\ UNCHANGED <<pc, shed, expired>>
        /\ pc[th] # "shed"
    BY <1>5, <1>t, <2>1 DEF ReplyDead, counters, Calls
  <2>3. /\ th \in Expiring /\ Shedding' = Shedding /\ LateWorkers' = LateWorkers
        /\ Expiring' = Expiring \ {th}
    BY <2>2 DEF Shedding, Expiring, LateWorkers
  <2> QED BY <1>3, <1>t, <1>u, <2>1, <2>2, <2>3
<1>6. ASSUME NEW th \in Thread, expire(th) PROVE Counted'
  <2>1. /\ th \notin calling /\ calling' = calling \cup {th} /\ UNCHANGED <<pc, shed, replies>>
        /\ expired' = expired + 1 /\ pc[th] # "shed"
    BY <1>6, <1>t DEF expire, Calls
  <2>2. /\ th \notin Expiring /\ Shedding' = Shedding /\ LateWorkers' = LateWorkers
        /\ Expiring' = Expiring \cup {th}
        /\ Told("limit")' = Told("limit") /\ Told("deadline")' = Told("deadline")
    BY <2>1 DEF Shedding, Expiring, LateWorkers, Told
  <2>3. Cardinality(Expiring') = nE + 1
    BY <2>2, ThreadsFinite, FS_AddElement
  <2>4. expired' = nD + (nW + (nE + 1))
    BY <1>n, <1>s, <2>1
  <2> QED BY <1>s, <2>1, <2>2, <2>3, <2>4 DEF Counted
<1>15. CASE shedLimit
  <2>1. /\ pc[Receiver] = "shed" /\ Receiver \notin calling /\ calling' = calling \cup {Receiver}
        /\ UNCHANGED <<pc, expired, replies>> /\ shed' = shed + 1
    BY <1>15 DEF shedLimit
  <2>2. /\ Receiver \notin Shedding /\ Expiring' = Expiring /\ LateWorkers' = LateWorkers
        /\ Shedding' = Shedding \cup {Receiver}
        /\ Told("limit")' = Told("limit") /\ Told("deadline")' = Told("deadline")
    BY <2>1 DEF Shedding, Expiring, LateWorkers, Told
  <2>3. Cardinality(Shedding') = nS + 1
    BY <2>2, ThreadsFinite, FS_AddElement
  <2>4. shed' = nL + (nS + 1)
    BY <1>n, <1>s, <2>1
  <2> QED BY <1>s, <2>1, <2>2, <2>3, <2>4 DEF Counted
<1>16. CASE SubmitShed
  <2> DEFINE t == cur[Receiver]
  <2>1. /\ pc[Receiver] = "shed" /\ Receiver \in calling /\ calling' = calling \ {Receiver}
        /\ pc' = [pc EXCEPT ![Receiver] = "idle"] /\ UNCHANGED <<shed, expired>>
        /\ t \in Task /\ replies[t] = <<>> /\ Answer(t, "limit")
    BY <1>16, <1>t, <1>u DEF SubmitShed, HandlerReturns, counters
  <2>2. /\ Receiver \in Shedding /\ Expiring' = Expiring /\ LateWorkers' = LateWorkers
        /\ Shedding' = Shedding \ {Receiver}
    BY <1>t, <2>1 DEF Shedding, Expiring, LateWorkers
  <2>3. /\ Told("limit")' = Told("limit") \cup {t} /\ t \notin Told("limit")
        /\ Told("deadline")' = Told("deadline")
    BY <2>1, AnswerCounts DEF Verdict
  <2>4. IsFiniteSet(Told("limit")') /\ Cardinality(Told("limit")') = nL + 1
    BY <2>3, FS_AddElement DEF Counted
  <2>5. Cardinality(Shedding') = nS - 1
    BY <2>2, ThreadsFinite, FS_RemoveElement
  <2>6. shed' = (nL + 1) + (nS - 1)
    BY <1>n, <1>s, <2>1
  <2> QED BY <1>s, <2>1, <2>2, <2>3, <2>4, <2>5, <2>6 DEF Counted
<1>7. ASSUME NEW w \in Worker, budget(w) PROVE Counted'
  <2>1. /\ pc[w] = "budget" /\ UNCHANGED <<replies, shed, calling>>
        /\ pc' = [pc EXCEPT ![w] = IF Expired(cur[w]) THEN "late" ELSE "evaluate"]
        /\ expired' = IF Expired(cur[w]) THEN expired + 1 ELSE expired
    BY <1>7 DEF budget
  <2>0. \A th \in calling : pc'[th] = "shed" <=> pc[th] = "shed"
    BY <1>t, <2>1
  <2>2. CASE Expired(cur[w])
    <3>1. LateWorkers' = LateWorkers \cup {w} /\ w \notin LateWorkers
      BY <1>t, <2>1, <2>2 DEF LateWorkers
    <3>2. Cardinality(LateWorkers') = nW + 1
      BY <3>1, ThreadsFinite, FS_AddElement
    <3>3. /\ Told("limit")' = Told("limit") /\ Told("deadline")' = Told("deadline")
          /\ Shedding' = Shedding /\ Expiring' = Expiring
      BY <2>0, <2>1 DEF Told, Shedding, Expiring
    <3>4. expired' = nD + ((nW + 1) + nE)
      BY <1>n, <1>s, <2>1, <2>2
    <3> QED BY <1>s, <2>1, <3>2, <3>3, <3>4 DEF Counted
  <2>3. CASE ~Expired(cur[w])
    BY <1>1, <1>t, <2>0, <2>1, <2>3
  <2> QED BY <2>2, <2>3
<1>8. ASSUME NEW w \in Worker, LateReply(w) PROVE Counted'
  <2>1. /\ pc[w] = "late" /\ cur[w] \in Task /\ replies[cur[w]] = <<>>
        /\ Answer(cur[w], "deadline") /\ pc' = [pc EXCEPT ![w] = "pop"]
        /\ UNCHANGED <<shed, expired, calling>>
    BY <1>8, <1>t, <1>u DEF LateReply, Finish, counters
  <2>2. LateWorkers' = LateWorkers \ {w} /\ w \in LateWorkers
    BY <1>t, <2>1 DEF LateWorkers
  <2>3. Cardinality(LateWorkers') = nW - 1
    BY <2>2, ThreadsFinite, FS_RemoveElement
  <2>5. \A th \in calling : pc'[th] = "shed" <=> pc[th] = "shed"
    BY <1>t, <2>1
  <2>6. Shedding' = Shedding /\ Expiring' = Expiring
    BY <2>1, <2>5 DEF Shedding, Expiring
  <2>4. expired' = (nD + 1) + ((nW - 1) + nE)
    BY <1>n, <1>s, <2>1
  <2> QED BY <1>2, <1>s, <2>1, <2>3, <2>4, <2>6 DEF Counted
<1>9. ASSUME NEW w \in Worker, Evaluate(w) PROVE Counted'
  <2>1. /\ pc[w] = "evaluate" /\ cur[w] \in Task /\ replies[cur[w]] = <<>>
        /\ Answer(cur[w], "evaluated") /\ pc' = [pc EXCEPT ![w] = "pop"]
        /\ UNCHANGED <<shed, expired, calling>>
    BY <1>9, <1>t, <1>u DEF Evaluate, Finish, counters
  <2>4. \A th \in calling : pc'[th] = "shed" <=> pc[th] = "shed"
    BY <1>t, <2>1
  <2>2. LateWorkers' = LateWorkers /\ Shedding' = Shedding /\ Expiring' = Expiring
    BY <1>t, <2>1, <2>4 DEF LateWorkers, Shedding, Expiring
  <2>3. Told("limit")' = Told("limit") /\ Told("deadline")' = Told("deadline")
    BY <2>1, AnswerCounts DEF Verdict
  <2> QED BY <2>1, <2>2, <2>3 DEF Counted
<1>17. ASSUME NEW th \in Thread, dead[th] = {}, pc[th] \notin {"expire", "shed", "late"}, NEW l,
              th = Receiver \/ l # "late", pc' = [pc EXCEPT ![th] = l],
              UNCHANGED <<replies, shed, expired, calling>>
       PROVE  Counted'
  <2>1. th \notin calling /\ \A o \in Thread \ {th} : pc'[o] = pc[o]
    BY <1>17, <1>t DEF Calls
  <2>2. \A w \in Worker : pc'[w] = "late" <=> pc[w] = "late"
    BY <1>17, <1>t, <2>1
  <2>3. \A o \in calling : pc'[o] = "shed" <=> pc[o] = "shed"
    BY <1>t, <2>1
  <2> QED BY <1>1, <1>17, <2>2, <2>3
<1>10. ASSUME NEW t \in Task, Submit(t) \/ TimerDue(t) \/ TimerFire(t) PROVE Counted'
  BY <1>1, <1>10, <1>17, <1>t DEF Submit, TimerDue, TimerFire, counters
<1>11. CASE SubmitCollect \/ SubmitLock \/ WaitLoop \/ WaitExit
  <2>1. /\ pc[Receiver] \in {"collect", "lock", "wait"} /\ dead[Receiver] = {}
        /\ UNCHANGED <<replies, shed, expired, calling>>
        /\ \E l \in ReceiverAt : pc' = [pc EXCEPT ![Receiver] = l]
    BY <1>11
       DEF SubmitCollect, SubmitLock, WaitLoop, WaitExit, GiveUp, WaitOnce, enqueueLocked,
           counters, ReceiverAt
  <2> QED BY <1>17, <1>t, <2>1
<1>12. ASSUME NEW w \in Worker, Pop(w) PROVE Counted'
  <2>1. /\ pc[w] = "pop" /\ \E l \in {"budget", "done", "pop"} : pc' = [pc EXCEPT ![w] = l]
        /\ dead[w] = {} /\ UNCHANGED <<replies, shed, expired, calling>>
    BY <1>12 DEF Pop, counters
  <2> QED BY <1>17, <1>t, <2>1
<1>13. CASE Sweep \/ SweepStop
  BY <1>1, <1>13, <1>17, <1>t DEF Sweep, SweepStop, counters
<1>14. CASE CloseStop \/ CloseLock \/ CloseReturn \/ Tick \/ UNCHANGED vars
  BY <1>1, <1>14 DEF CloseStop, CloseLock, CloseReturn, Tick, vars, counters
<1> HIDE DEF At
<1> QED
  BY <1>4, <1>5, <1>6, <1>7, <1>8, <1>9, <1>10, <1>11, <1>12, <1>13, <1>14, <1>15, <1>16, <1>t
     DEF Next, ReceiverStep, WorkerStep, SweeperStep, TimerStep, CloserStep, Finished

(* The heartbeat's shed and expired count the answers given, each task     *)
(* once, and are ahead only by the tasks whose handler is being called:    *)
(* expire, shedLimit and budget count before the call.                     *)
THEOREM CountersAgreeAlways == Safe => []CountersAgree
<1>1. Init => Calls /\ Counted
  <2> SUFFICES ASSUME Init PROVE Calls /\ Counted
    OBVIOUS
  <2>1. \A v : <<v>> # <<>>
    OBVIOUS
  <2>2. Told("limit") = {} /\ Told("deadline") = {}
    BY <2>1 DEF Init, Told
  <2>3. LateWorkers = {} /\ Shedding = {} /\ Expiring = {}
    BY ThreadAssumption DEF Init, LateWorkers, Shedding, Expiring, Thread
  <2>4. shed = 0 /\ expired = 0
    BY DEF Init
  <2>5. IsFiniteSet({}) /\ Cardinality({}) = 0
    BY FS_EmptySet
  <2>6. Calls
    BY DEF Init, Calls, Thread
  <2> QED BY <2>2, <2>3, <2>4, <2>5, <2>6 DEF Counted
<1>2. Typed /\ OnePlace /\ Calls /\ Counted /\ [Next]_vars => Calls' /\ Counted'
  BY NextTyped, CallsNext, CountedNext
<1>3. Typed /\ Counted => CountersAgree
  <2> SUFFICES ASSUME Typed, Counted PROVE CountersAgree
    OBVIOUS
  <2>2. LateWorkers \subseteq Worker \cup {Receiver, Sweeper} /\ Expiring \subseteq Worker \cup {Receiver, Sweeper}
    BY DEF LateWorkers, Expiring, Typed, TypeOK, Thread
  <2>3. Cardinality(LateWorkers) \in Nat /\ Cardinality(Expiring) \in Nat
        /\ Cardinality(Told("deadline")) \in Nat
    BY <2>2, ThreadFinite, FS_Subset, FS_CardinalityType DEF Counted
  <2>4. expired = Cardinality(Told("deadline")) + Cardinality(LateWorkers) + Cardinality(Expiring)
    BY <2>3 DEF Counted
  <2> QED BY <2>4 DEF Counted, CountersAgree, Told, LateWorkers, Shedding, Expiring
<1> QED BY <1>1, <1>2, <1>3, InitTyped, NextTyped, OnePlaceAlways, PTL DEF Safe
=============================================================================
