----------------------------- MODULE PoolProofs -----------------------------
(***************************************************************************)
(* Theorems about Pool, for any number of tasks and workers, any depth and *)
(* any deadlines.                                                          *)
(***************************************************************************)
EXTENDS Pool, FiniteSetTheorems, TLAPS

Safe == Init /\ [][Next]_vars

(* The type invariant is inductive together with the finiteness of the     *)
(* queue, without which its length is not a number.                        *)
Typed == TypeOK /\ IsFiniteSet(q)

(* The percentage of fillLocked is one. *)
LEMMA FillRange ==
  ASSUME NEW c \in Nat, NEW d \in Nat \ {0}, c < d
  PROVE  (c * 100) \div d \in 0..100
<1>1. c * 100 < d * 100
  OBVIOUS
<1>2. (c * 100) \div d \in Nat
  OBVIOUS
<1>3. d * ((c * 100) \div d) <= c * 100
  OBVIOUS
<1>4. ~ (100 < (c * 100) \div d)
  BY <1>1, <1>2, <1>3
<1> QED BY <1>2, <1>4

LEMMA FillType == ASSUME Typed PROVE fillLocked \in 0..100
<1>1. Cardinality(q) \in Nat
  BY FS_CardinalityType DEF Typed
<1>2. CASE Full
  BY <1>2 DEF fillLocked
<1>3. CASE ~Full
  <2>1. Cardinality(q) < Depth
    BY <1>1, <1>3, DepthAssumption DEF Full
  <2> QED BY <1>1, <1>3, <2>1, FillRange, DepthAssumption DEF fillLocked
<1> QED BY <1>2, <1>3

(* An answer is appended to the answers of its task. *)
LEMMA AnswerType ==
  ASSUME TypeOK, NEW t \in Task, NEW v \in Verdict, Answer(t, v)
  PROVE  replies' \in [Task -> Seq(Verdict)]
<1>1. Append(replies[t], v) \in Seq(Verdict)
  BY DEF TypeOK
<1> QED BY <1>1 DEF Answer, TypeOK

(* The tail of Submit that puts the task into the queue. *)
LEMMA EnqueueType ==
  ASSUME Typed, enqueueLocked(cur[Receiver]), pc[Receiver] \in {"lock", "wait"}
  PROVE  /\ IsFiniteSet(q') /\ q' \subseteq Task
         /\ ticket' \in [Task -> Nat] /\ accepted' \in Nat
         /\ waiting' \subseteq Thread
         /\ pc' = [pc EXCEPT ![Receiver] = "idle"]
         /\ cur' = [cur EXCEPT ![Receiver] = NoTask]
         /\ UNCHANGED <<shed, expired, dead>>
<1>1. cur[Receiver] \in Task
  BY DEF Typed, TypeOK, Thread
<1>2. IsFiniteSet(q')
  BY FS_AddElement DEF Typed, enqueueLocked
<1>3. waiting' \subseteq Thread
  BY DEF Typed, TypeOK, enqueueLocked, Signal
<1> QED BY <1>1, <1>2, <1>3 DEF Typed, TypeOK, enqueueLocked, Goto

LEMMA TakeExpiredType ==
  ASSUME Typed, NEW th \in Thread, TakeExpired(th)
  PROVE  /\ IsFiniteSet(q') /\ q' \subseteq q
         /\ dead' \in [Thread -> SUBSET Task]
         /\ waiting' \subseteq Thread
<1>1. IsFiniteSet(q')
  BY FS_Subset DEF Typed, TakeExpired
<1> QED BY <1>1 DEF Typed, TypeOK, TakeExpired, ExpiredIn, Broadcast

LEMMA InitTyped == Init => Typed
<1> SUFFICES ASSUME Init PROVE Typed
  OBVIOUS
<1>1. IsFiniteSet(q)
  BY FS_EmptySet DEF Init
<1>2. \A t \in Task : <<>> \in Seq(Verdict)
  OBVIOUS
<1> QED
  BY <1>1, <1>2, ThreadAssumption, TaskAssumption
     DEF Init, Typed, TypeOK, Thread, ReceiverAt, WorkerAt
LEMMA NextTyped == Typed /\ [Next]_vars => Typed'
<1> SUFFICES ASSUME Typed, [Next]_vars PROVE Typed'
  OBVIOUS
<1> USE ThreadAssumption, TaskAssumption
        DEF Typed, TypeOK, Thread, ReceiverAt, WorkerAt, At, Goto, counters
<1>1. ASSUME NEW t \in Task, Submit(t) PROVE Typed'
  BY <1>1, TimeAssumption DEF Submit
<1>2. ASSUME NEW t \in Task, TimerDue(t) PROVE Typed'
  BY <1>2 DEF TimerDue
<1>3. ASSUME NEW t \in Task, TimerFire(t) PROVE Typed'
  BY <1>3 DEF TimerFire, Broadcast
<1>4. CASE SubmitCollect
  BY <1>4, TakeExpiredType DEF SubmitCollect
<1>5. ASSUME WaitOnce, pc[Receiver] \in {"lock", "wait"}
      PROVE  /\ IsFiniteSet(q') /\ q' \subseteq q
             /\ dead' \in [Thread -> SUBSET Task] /\ waiting' \subseteq Thread
             /\ pc' = [pc EXCEPT ![Receiver] = "wait"]
             /\ UNCHANGED <<ticket, accepted, shed, expired, cur>>
  <2>1. CASE ExpiredIn(q) # {}
    BY <1>5, <2>1, TakeExpiredType DEF WaitOnce
  <2>2. CASE ExpiredIn(q) = {}
    BY <1>5, <2>2 DEF WaitOnce
  <2> QED BY <2>1, <2>2
<1>6. CASE SubmitLock
  <2> DEFINE t == cur[Receiver]
  <2>1. t \in Task
    BY <1>6 DEF SubmitLock
  <2>2. fill' \in [Task -> 0..100]
    BY <1>6, <2>1, FillType DEF SubmitLock
  <2>3. timer' \in [Task -> {"off", "armed", "firing", "fired"}]
    BY <1>6, <2>1 DEF SubmitLock
  <2>4. CASE GiveUp
    BY <1>6, <2>2, <2>3, <2>4 DEF SubmitLock, GiveUp
  <2>8. UNCHANGED <<now, fresh, enq, calling, closer, replies>> /\ pc[Receiver] = "lock"
    BY <1>6 DEF SubmitLock
  <2>5. CASE enqueueLocked(t)
    <3>1. pc[Receiver] \in {"lock", "wait"}
      BY <2>8
    <3> HIDE DEF t, Goto
    <3>2. /\ IsFiniteSet(q') /\ q' \subseteq Task
          /\ ticket' \in [Task -> Nat] /\ accepted' \in Nat
          /\ waiting' \subseteq Thread
          /\ pc' = [pc EXCEPT ![Receiver] = "idle"]
          /\ cur' = [cur EXCEPT ![Receiver] = NoTask]
          /\ UNCHANGED <<shed, expired, dead>>
      BY <2>5, <3>1, EnqueueType DEF t
    <3> QED BY <2>2, <2>3, <2>8, <3>2
  <2>6. CASE WaitOnce
    <3>1. /\ IsFiniteSet(q') /\ q' \subseteq q
          /\ dead' \in [Thread -> SUBSET Task] /\ waiting' \subseteq Thread
          /\ pc' = [pc EXCEPT ![Receiver] = "wait"]
          /\ UNCHANGED <<ticket, accepted, shed, expired, cur>>
      BY <1>5, <2>6, <2>8
    <3> QED BY <2>2, <2>3, <2>8, <3>1
  <2>7. CASE Goto(Receiver, "shed") /\ UNCHANGED <<q, ticket, counters, cur, dead, waiting>>
    BY <1>6, <2>2, <2>3, <2>7 DEF SubmitLock
  <2> QED BY <1>6, <2>4, <2>5, <2>6, <2>7 DEF SubmitLock
<1>7. CASE WaitLoop
  BY <1>5, <1>7 DEF WaitLoop
<1>8. CASE WaitExit
  <2> DEFINE t == cur[Receiver]
  <2>1. timer' \in [Task -> {"off", "armed", "firing", "fired"}]
    BY <1>8 DEF WaitExit
  <2>2. CASE GiveUp
    BY <1>8, <2>1, <2>2 DEF WaitExit, GiveUp
  <2>4. UNCHANGED <<now, fresh, enq, fill, calling, closer, replies>> /\ pc[Receiver] = "wait"
    BY <1>8 DEF WaitExit
  <2>3. CASE enqueueLocked(t)
    <3> HIDE DEF t, Goto
    <3>1. pc[Receiver] \in {"lock", "wait"}
      BY <2>4
    <3>2. /\ IsFiniteSet(q') /\ q' \subseteq Task
          /\ ticket' \in [Task -> Nat] /\ accepted' \in Nat
          /\ waiting' \subseteq Thread
          /\ pc' = [pc EXCEPT ![Receiver] = "idle"]
          /\ cur' = [cur EXCEPT ![Receiver] = NoTask]
          /\ UNCHANGED <<shed, expired, dead>>
      BY <2>3, <3>1, EnqueueType DEF t
    <3> QED BY <2>1, <2>4, <3>2
  <2> QED BY <1>8, <2>2, <2>3 DEF WaitExit
<1>9. CASE SubmitExpire \/ SubmitShed
  <2>1. PICK v \in Verdict : HandlerReturns(v) /\ pc[Receiver] \in {"expire", "shed"}
    BY <1>9 DEF SubmitExpire, SubmitShed, Verdict
  <2>2. replies' \in [Task -> Seq(Verdict)]
    BY <2>1, AnswerType DEF HandlerReturns
  <2> QED BY <2>1, <2>2 DEF HandlerReturns
<1>10. CASE shedLimit
  BY <1>10 DEF shedLimit
<1>23. ASSUME NEW th \in Thread, expire(th) PROVE Typed'
  BY <1>23 DEF expire
<1>11. ASSUME NEW th \in Thread, ReplyDead(th) PROVE Typed'
  <2>1. PICK t \in dead[th] : /\ Answer(t, "deadline")
                              /\ dead' = [dead EXCEPT ![th] = @ \ {t}]
    BY <1>11 DEF ReplyDead
  <2>2. replies' \in [Task -> Seq(Verdict)]
    BY <1>11, <2>1, AnswerType DEF Verdict
  <2> QED BY <1>11, <2>1, <2>2 DEF ReplyDead
<1>12. ASSUME NEW w \in Worker, Pop(w) PROVE Typed'
  <2>1. IsFiniteSet(q') /\ q' \subseteq q
    BY <1>12, FS_Subset DEF Pop
  <2>2. dead' \in [Thread -> SUBSET Task] /\ waiting' \subseteq Thread
    <3>1. ExpiredIn(q) \subseteq Task
      BY DEF ExpiredIn
    <3>2. dead' = [dead EXCEPT ![w] = ExpiredIn(q)]
      BY <1>12 DEF Pop
    <3>3. waiting' = {} \/ waiting' \subseteq waiting \cup {w}
      BY <1>12 DEF Pop, Broadcast, PopWake
    <3> QED BY <3>1, <3>2, <3>3
  <2>3. CASE \E t \in q \ ExpiredIn(q) : cur' = [cur EXCEPT ![w] = t] /\ Goto(w, "budget")
    BY <1>12, <2>1, <2>2, <2>3 DEF Pop
  <2>4. CASE UNCHANGED cur /\ Goto(w, IF Closed THEN "done" ELSE "pop")
    BY <1>12, <2>1, <2>2, <2>4 DEF Pop
  <2> QED BY <1>12, <2>3, <2>4 DEF Pop
<1>13. ASSUME NEW w \in Worker, budget(w) PROVE Typed'
  BY <1>13 DEF budget
<1>14. ASSUME NEW w \in Worker, NEW v \in Verdict, pc[w] \in {"late", "evaluate"},
              Finish(w, v)
       PROVE  Typed'
  <2>1. replies' \in [Task -> Seq(Verdict)]
    BY <1>14, AnswerType DEF Finish
  <2> QED BY <1>14, <2>1 DEF Finish
<1>15. CASE Sweep
  BY <1>15, TakeExpiredType DEF Sweep
<1>16. CASE SweepStop
  BY <1>16 DEF SweepStop
<1>17. CASE CloseStop \/ CloseLock \/ CloseReturn
  BY <1>17 DEF CloseStop, CloseLock, CloseReturn, Broadcast
<1>18. CASE Tick
  BY <1>18 DEF Tick
<1>19. CASE UNCHANGED vars
  BY <1>19 DEF vars
<1> HIDE DEF Typed, At
<1>20. CASE ReceiverStep
  BY <1>20, <1>4, <1>6, <1>7, <1>8, <1>9, <1>10, <1>11, <1>23 DEF ReceiverStep
<1>21. ASSUME NEW w \in Worker, WorkerStep(w) \/ Evaluate(w) PROVE Typed'
  BY <1>21, <1>11, <1>12, <1>13, <1>14, <1>23 DEF WorkerStep, LateReply, Evaluate, At, Verdict
<1>22. CASE SweeperStep
  BY <1>22, <1>11, <1>15, <1>16, <1>23 DEF SweeperStep
<1> QED
  BY <1>1, <1>2, <1>3, <1>17, <1>18, <1>19, <1>20, <1>21, <1>22
     DEF Next, TimerStep, CloserStep, Finished

(* Every variable keeps its type, and a thread holds a task exactly where  *)
(* the code of Submit and work has one in hand.                            *)
THEOREM TypeCorrect == Safe => []TypeOK
<1>1. Typed => TypeOK
  BY DEF Typed
<1> QED BY <1>1, InitTyped, NextTyped, PTL DEF Safe
-----------------------------------------------------------------------------
(***************************************************************************)
(* Where the tasks are.  Of everything a step does, only seven kinds of    *)
(* move concern the place of a task.                                       *)
(***************************************************************************)
MoveNone == UNCHANGED <<fresh, q, dead, cur, replies>>

MoveArrive ==
    \E t \in fresh : /\ cur[Receiver] = NoTask
                     /\ fresh' = fresh \ {t}
                     /\ cur' = [cur EXCEPT ![Receiver] = t]
                     /\ UNCHANGED <<q, dead, replies>>

MoveExpired(th) ==
    \E S \in SUBSET q : /\ dead[th] = {}
                        /\ q' = q \ S
                        /\ dead' = [dead EXCEPT ![th] = S]
                        /\ UNCHANGED <<fresh, cur, replies>>

MoveIn == /\ cur[Receiver] \in Task
          /\ q' = q \cup {cur[Receiver]}
          /\ cur' = [cur EXCEPT ![Receiver] = NoTask]
          /\ UNCHANGED <<fresh, dead, replies>>

MoveOut(w) ==
    \E S \in SUBSET q : \E t \in q \ S :
       /\ dead[w] = {} /\ cur[w] = NoTask
       /\ q' = (q \ S) \ {t}
       /\ dead' = [dead EXCEPT ![w] = S]
       /\ cur' = [cur EXCEPT ![w] = t]
       /\ UNCHANGED <<fresh, replies>>

MoveAnswer(th) ==
    \E v \in Verdict : /\ cur[th] \in Task
                       /\ Answer(cur[th], v)
                       /\ cur' = [cur EXCEPT ![th] = NoTask]
                       /\ UNCHANGED <<fresh, q, dead>>

MoveReply(th) ==
    \E t \in dead[th] : /\ Answer(t, "deadline")
                        /\ dead' = [dead EXCEPT ![th] = @ \ {t}]
                        /\ UNCHANGED <<fresh, q, cur>>

Move == \/ MoveNone \/ MoveArrive \/ MoveIn
        \/ \E th \in Thread : MoveExpired(th) \/ MoveAnswer(th) \/ MoveReply(th)
        \/ \E w \in Worker : MoveOut(w)

LEMMA TakeExpiredMove ==
  ASSUME NEW th \in Thread, dead[th] = {}, TakeExpired(th), UNCHANGED <<fresh, cur, replies>>
  PROVE  Move
<1>1. ExpiredIn(q) \in SUBSET q
  BY DEF ExpiredIn
<1>2. MoveExpired(th)
  BY <1>1 DEF TakeExpired, MoveExpired
<1> QED BY <1>2 DEF Move

LEMMA WaitOnceMove ==
  ASSUME dead[Receiver] = {}, WaitOnce, UNCHANGED <<fresh, replies>>
  PROVE  Move
<1>1. CASE ExpiredIn(q) # {}
  BY <1>1, TakeExpiredMove DEF WaitOnce, Thread
<1>2. CASE ExpiredIn(q) = {}
  BY <1>2 DEF WaitOnce, Move, MoveNone
<1> QED BY <1>1, <1>2

LEMMA EnqueueMove ==
  ASSUME cur[Receiver] \in Task, enqueueLocked(cur[Receiver]), UNCHANGED <<fresh, replies>>
  PROVE  Move
BY DEF enqueueLocked, Move, MoveIn

LEMMA GiveUpMove == ASSUME GiveUp, UNCHANGED <<fresh, replies>> PROVE Move
BY DEF GiveUp, Move, MoveNone

(* Every step is one of the moves. *)
LEMMA StepIsMove == ASSUME TypeOK, [Next]_vars PROVE Move
<1> USE DEF At, Thread
<1>t. /\ \A th \in Thread : pc[th] \notin {"idle", "pop", "sweep", "done"} => cur[th] \in Task
      /\ \A th \in Thread : pc[th] \in {"idle", "pop", "sweep", "done"} => cur[th] = NoTask
  BY DEF TypeOK
<1>1. ASSUME NEW t \in Task, Submit(t) PROVE Move
  BY <1>1, <1>t DEF Submit, Move, MoveArrive
<1>2. ASSUME NEW t \in Task, TimerDue(t) \/ TimerFire(t) PROVE Move
  BY <1>2 DEF TimerDue, TimerFire, Move, MoveNone
<1>3. CASE SubmitCollect
  BY <1>3, TakeExpiredMove DEF SubmitCollect
<1>4. CASE SubmitLock
  <2>1. /\ UNCHANGED <<fresh, replies>> /\ dead[Receiver] = {} /\ cur[Receiver] \in Task
        /\ \/ GiveUp \/ enqueueLocked(cur[Receiver]) \/ WaitOnce
           \/ UNCHANGED <<q, ticket, counters, cur, dead, waiting>>
    BY <1>4, <1>t DEF SubmitLock
  <2>2. CASE UNCHANGED <<q, ticket, counters, cur, dead, waiting>>
    BY <2>1, <2>2 DEF Move, MoveNone
  <2> QED BY <2>1, <2>2, GiveUpMove, EnqueueMove, WaitOnceMove
<1>5. CASE WaitLoop
  BY <1>5, WaitOnceMove DEF WaitLoop
<1>6. CASE WaitExit
  <2>1. /\ UNCHANGED <<fresh, replies>> /\ cur[Receiver] \in Task
        /\ GiveUp \/ enqueueLocked(cur[Receiver])
    BY <1>6, <1>t DEF WaitExit
  <2> QED BY <2>1, GiveUpMove, EnqueueMove
<1>7. CASE SubmitExpire \/ SubmitShed
  <2>1. MoveAnswer(Receiver)
    BY <1>7, <1>t DEF SubmitExpire, SubmitShed, HandlerReturns, MoveAnswer, Verdict
  <2> QED BY <2>1 DEF Move
<1>14. CASE shedLimit \/ \E th \in Thread : expire(th)
  BY <1>14 DEF shedLimit, expire, Move, MoveNone
<1>8. ASSUME NEW th \in Thread, ReplyDead(th) PROVE Move
  <2>1. MoveReply(th)
    BY <1>8 DEF ReplyDead, MoveReply
  <2> QED BY <2>1 DEF Move
<1>9. ASSUME NEW w \in Worker, Pop(w) PROVE Move
  <2>1. ExpiredIn(q) \in SUBSET q /\ cur[w] = NoTask /\ dead[w] = {}
    BY <1>9, <1>t DEF ExpiredIn, Pop
  <2>2. CASE \E t \in q \ ExpiredIn(q) :
               q' = (q \ ExpiredIn(q)) \ {t} /\ cur' = [cur EXCEPT ![w] = t]
    <3>1. MoveOut(w)
      BY <1>9, <2>1, <2>2 DEF MoveOut, Pop
    <3> QED BY <3>1 DEF Move
  <2>3. CASE q' = q \ ExpiredIn(q) /\ UNCHANGED cur
    <3>1. MoveExpired(w)
      BY <1>9, <2>1, <2>3 DEF MoveExpired, Pop
    <3> QED BY <3>1 DEF Move
  <2> QED BY <1>9, <2>2, <2>3 DEF Pop
<1>10. ASSUME NEW w \in Worker, budget(w) PROVE Move
  BY <1>10 DEF budget, Move, MoveNone
<1>11. ASSUME NEW w \in Worker, LateReply(w) \/ Evaluate(w) PROVE Move
  <2>1. MoveAnswer(w)
    BY <1>11, <1>t DEF LateReply, Evaluate, Finish, MoveAnswer, Verdict
  <2> QED BY <2>1 DEF Move
<1>12. CASE Sweep
  BY <1>12, TakeExpiredMove DEF Sweep
<1>13. CASE SweepStop \/ CloseStop \/ CloseLock \/ CloseReturn \/ Tick \/ UNCHANGED vars
  BY <1>13 DEF SweepStop, CloseStop, CloseLock, CloseReturn, Tick, vars, Move, MoveNone
<1> QED
  BY <1>1, <1>2, <1>3, <1>4, <1>5, <1>6, <1>7, <1>8, <1>9, <1>10, <1>11, <1>12, <1>13,
     <1>14
     DEF Next, ReceiverStep, WorkerStep, SweeperStep, TimerStep, CloserStep, Finished
(* The first answer to a task is its only one. *)
LEMMA FirstAnswer ==
  ASSUME TypeOK, NEW t \in Task, NEW v \in Verdict, Answer(t, v), replies[t] = <<>>
  PROVE  /\ replies' = [replies EXCEPT ![t] = <<v>>]
         /\ replies'[t] # <<>> /\ Len(replies'[t]) = 1
         /\ \A u \in Task \ {t} : replies'[u] = replies[u]
<1>1. Append(<<>>, v) = <<v>> /\ <<v>> # <<>> /\ Len(<<v>>) = 1
  OBVIOUS
<1> QED BY <1>1 DEF Answer, TypeOK

LEMMA OnePlaceMove == ASSUME TypeOK, OnePlace, Move PROVE OnePlace'
<1> USE ThreadAssumption, TaskAssumption DEF Thread, HeldBy, Answered, InOnePlace
<1>t. /\ cur \in [Thread -> Task \cup {NoTask}] /\ dead \in [Thread -> SUBSET Task]
      /\ q \subseteq Task /\ fresh \subseteq Task
  BY DEF TypeOK
<1>1. CASE MoveNone
  BY <1>1 DEF MoveNone, OnePlace
<1>2. CASE MoveArrive
  BY <1>2, <1>t DEF MoveArrive, OnePlace
<1>3. CASE MoveIn
  BY <1>3, <1>t DEF MoveIn, OnePlace
<1>4. ASSUME NEW th \in Thread, MoveExpired(th) PROVE OnePlace'
  BY <1>4, <1>t DEF MoveExpired, OnePlace
<1>5. ASSUME NEW w \in Worker, MoveOut(w) PROVE OnePlace'
  BY <1>5, <1>t DEF MoveOut, OnePlace
<1>6. ASSUME NEW th \in Thread, MoveAnswer(th) PROVE OnePlace'
  <2>1. PICK t \in Task, v \in Verdict : t = cur[th] /\ Answer(t, v)
    BY <1>6 DEF MoveAnswer
  <2>2. /\ replies[t] = <<>> /\ t \notin fresh /\ t \notin q
        /\ \A o \in Thread : t \notin dead[o]
        /\ \A o \in Thread \ {th} : t # cur[o]
    BY <2>1, <1>t DEF OnePlace
  <2>3. /\ replies'[t] # <<>> /\ Len(replies'[t]) = 1
        /\ \A u \in Task \ {t} : replies'[u] = replies[u]
    BY <2>1, <2>2, FirstAnswer
  <2>4. cur' = [cur EXCEPT ![th] = NoTask] /\ UNCHANGED <<fresh, q, dead>>
    BY <1>6 DEF MoveAnswer
  <2>5. InOnePlace(t)'
    BY <2>2, <2>3, <2>4, <1>t
  <2>6. ASSUME NEW u \in Task \ {t} PROVE InOnePlace(u)'
    <3>1. \A o \in Thread : u \in HeldBy(o)' <=> u \in HeldBy(o)
      BY <2>1, <2>4, <1>t
    <3>2. \A o \in Thread : u = cur'[o] <=> u = cur[o]
      BY <2>1, <2>4, <1>t
    <3>3. InOnePlace(u)
      BY DEF OnePlace
    <3> QED BY <2>3, <2>4, <3>1, <3>2, <3>3
  <2> QED BY <2>5, <2>6 DEF OnePlace
<1>7. ASSUME NEW th \in Thread, MoveReply(th) PROVE OnePlace'
  <2>1. PICK t \in dead[th] : /\ Answer(t, "deadline")
                              /\ dead' = [dead EXCEPT ![th] = @ \ {t}]
                              /\ UNCHANGED <<fresh, q, cur>>
    BY <1>7 DEF MoveReply
  <2>2. /\ t \in Task /\ replies[t] = <<>> /\ t \notin fresh /\ t \notin q
        /\ \A o \in Thread : t # cur[o]
        /\ \A o \in Thread \ {th} : t \notin dead[o]
    BY <2>1, <1>t DEF OnePlace
  <2>3. /\ replies'[t] # <<>> /\ Len(replies'[t]) = 1
        /\ \A u \in Task \ {t} : replies'[u] = replies[u]
    BY <2>1, <2>2, FirstAnswer DEF Verdict
  <2>5. InOnePlace(t)'
    BY <2>1, <2>2, <2>3, <1>t
  <2>6. ASSUME NEW u \in Task \ {t} PROVE InOnePlace(u)'
    <3>1. \A o \in Thread : u \in dead'[o] <=> u \in dead[o]
      BY <2>1, <1>t
    <3>2. InOnePlace(u)
      BY DEF OnePlace
    <3> QED BY <2>1, <2>3, <3>1, <3>2
  <2> QED BY <2>5, <2>6 DEF OnePlace
<1> QED BY <1>1, <1>2, <1>3, <1>4, <1>5, <1>6, <1>7 DEF Move

(* A task is in one place and answered at most once, in every state. *)
THEOREM OnePlaceAlways == Safe => []OnePlace
<1>1. Init => OnePlace
  BY TaskAssumption DEF Init, OnePlace, InOnePlace, HeldBy, Answered
<1>2. TypeOK /\ OnePlace /\ [Next]_vars => OnePlace'
  BY StepIsMove, OnePlaceMove
<1> QED BY <1>1, <1>2, TypeCorrect, PTL DEF Safe

(* The queue implements its promise, apart from the promise that the       *)
(* answer comes: no step answers a task twice, or one not taken.           *)
THEOREM KeepsPromise == Safe => PromiseSafe
<1>1. Init => Ask!AInit
  BY DEF Init, Ask!AInit
<1>2. TypeOK /\ OnePlace /\ [Next]_vars => [Ask!ANext]_(Ask!avars)
  <2> SUFFICES ASSUME TypeOK, OnePlace, Move PROVE [Ask!ANext]_(Ask!avars)
    BY StepIsMove
  <2> USE ThreadAssumption, TaskAssumption DEF Thread, Ask!ANext, Ask!avars
  <2>1. CASE UNCHANGED <<fresh, replies>>
    BY <2>1
  <2>2. CASE MoveArrive
    <3>1. PICK t \in fresh : fresh' = fresh \ {t} /\ UNCHANGED replies
      BY <2>2 DEF MoveArrive
    <3>2. t \in Task /\ fresh \subseteq Task
      BY <3>1 DEF TypeOK
    <3>3. Ask!ATake(t)
      BY <3>1, <3>2 DEF Ask!ATake
    <3> QED BY <3>2, <3>3
  <2>3. ASSUME NEW t \in Task, NEW v \in Verdict, Answer(t, v), replies[t] = <<>>,
               t \notin fresh, UNCHANGED fresh
        PROVE  Ask!ANext
    <3>1. Ask!AAnswer(t, v)
      BY <2>3, FirstAnswer DEF Ask!AAnswer
    <3> QED BY <3>1, <2>3 DEF Verdict, Ask!Verdict
  <2>4. ASSUME NEW th \in Thread, MoveAnswer(th) PROVE Ask!ANext
    <3>1. cur[th] \in HeldBy(th) /\ cur[th] \in Task
      BY <2>4 DEF MoveAnswer, HeldBy
    <3> QED BY <2>3, <2>4, <3>1 DEF MoveAnswer, OnePlace, InOnePlace, Answered
  <2>5. ASSUME NEW th \in Thread, MoveReply(th) PROVE Ask!ANext
    <3>1. PICK t \in dead[th] : Answer(t, "deadline") /\ UNCHANGED fresh
      BY <2>5 DEF MoveReply
    <3>2. t \in HeldBy(th) /\ t \in Task
      BY <3>1 DEF HeldBy, TypeOK
    <3> QED BY <2>3, <3>1, <3>2 DEF OnePlace, InOnePlace, Answered, Verdict
  <2> QED
    BY <2>1, <2>2, <2>4, <2>5
       DEF Move, MoveNone, MoveIn, MoveExpired, MoveOut
<1> QED BY <1>1, <1>2, TypeCorrect, OnePlaceAlways, PTL DEF Safe, PromiseSafe, Ask!ASafe
-----------------------------------------------------------------------------
(***************************************************************************)
(* Who sleeps.  Beside the two sleeping rules the induction needs that     *)
(* only a worker at pop or the receiver at wait is ever asleep, and that a *)
(* worker leaves only from a closed, empty queue.                          *)
(***************************************************************************)
Sleepers ==
    \A th \in waiting : \/ th \in Worker /\ pc[th] = "pop"
                        \/ th = Receiver /\ pc[th] = "wait"

Home == \A w \in Worker : pc[w] = "done" => Closed /\ q = {}

Awake == Sleepers /\ NoLostWakeup /\ ReceiverSleepsOnlyWhenFull /\ Home

LEMMA AwakeNext == ASSUME Typed, Typed', Awake, [Next]_vars PROVE Awake'
<1> USE ThreadAssumption
        DEF Typed, TypeOK, Thread, ReceiverAt, WorkerAt, At, Goto, counters, Awake, Closed,
            Sleepers, NoLostWakeup, ReceiverSleepsOnlyWhenFull, Home, Full
<1>1. ASSUME NEW t \in Task, Submit(t) PROVE Awake'
  BY <1>1 DEF Submit
<1>2. ASSUME NEW t \in Task, TimerDue(t) PROVE Awake'
  BY <1>2 DEF TimerDue
<1>3. ASSUME NEW t \in Task, TimerFire(t) PROVE Awake'
  BY <1>3 DEF TimerFire, Broadcast
<1>4. CASE SubmitCollect
  BY <1>4 DEF SubmitCollect, TakeExpired, Broadcast, ExpiredIn
<1>5. ASSUME enqueueLocked(cur[Receiver]), Receiver \notin waiting, ~Closed, UNCHANGED closer
      PROVE  Awake'
  <2>1. /\ pc' = [pc EXCEPT ![Receiver] = "idle"]
        /\ \/ waiting = {} /\ waiting' = {}
           \/ \E th \in waiting : waiting' = waiting \ {th}
    BY <1>5 DEF enqueueLocked, Signal
  <2>2. \A th \in Worker : pc'[th] = pc[th] /\ pc[th] # "done"
    BY <1>5, <2>1
  <2>3. CASE waiting' = {}
    BY <1>5, <2>1, <2>2, <2>3
  <2>4. ASSUME NEW th \in waiting, waiting' = waiting \ {th} PROVE Awake'
    <3>1. th \in Worker /\ pc'[th] = "pop" /\ th \notin waiting'
      BY <1>5, <2>2, <2>4
    <3> QED BY <1>5, <2>2, <2>4, <3>1
  <2> QED BY <2>1, <2>3, <2>4
<1>6. ASSUME GiveUp, Receiver \notin waiting, UNCHANGED closer PROVE Awake'
  BY <1>6 DEF GiveUp
<1>8. ASSUME WaitOnce, Receiver \notin waiting, pc[Receiver] \in {"lock", "wait"},
             ~Closed, Full, timer'[cur[Receiver]] # "fired", UNCHANGED closer
      PROVE  Awake'
  <2>1. pc' = [pc EXCEPT ![Receiver] = "wait"] /\ cur' = cur
    BY <1>8 DEF WaitOnce
  <2>2. CASE waiting' = {} /\ q' \subseteq q
    BY <1>8, <2>1, <2>2
  <2>3. CASE waiting' = waiting \cup {Receiver} /\ q' = q
    BY <1>8, <2>1, <2>3
  <2> QED BY <1>8, <2>2, <2>3 DEF WaitOnce, TakeExpired, Broadcast
<1>7. CASE WaitLoop
  BY <1>7, <1>8 DEF WaitLoop
<1>10. CASE WaitExit
  BY <1>10, <1>5, <1>6 DEF WaitExit
<1>20. CASE SubmitLock
  <2>0. Receiver \notin waiting /\ pc[Receiver] = "lock" /\ UNCHANGED closer
    BY <1>20 DEF SubmitLock
  <2>1. Receiver \notin waiting /\ pc[Receiver] = "lock" /\ UNCHANGED closer /\ cur[Receiver] \in Task
    BY <2>0
  <2>2. CASE GiveUp
    BY <2>1, <2>2, <1>6
  <2>3. CASE enqueueLocked(cur[Receiver]) /\ ~Closed
    BY <2>1, <2>3, <1>5
  <2>4. CASE WaitOnce /\ ~Closed /\ Full /\ WaitMode /\ ~Expired(cur[Receiver])
    <3>1. timer'[cur[Receiver]] = "armed"
      BY <1>20, <2>1, <2>4 DEF SubmitLock
    <3> QED BY <2>1, <2>4, <3>1, <1>8
  <2>5. CASE Goto(Receiver, "shed") /\ UNCHANGED <<q, cur, waiting>>
    BY <2>1, <2>5
  <2> QED BY <1>20, <2>2, <2>3, <2>4, <2>5 DEF SubmitLock
<1>9. CASE SubmitExpire \/ SubmitShed
  <2>1. /\ Receiver \notin waiting /\ UNCHANGED <<q, timer, waiting, closer>>
        /\ pc' = [pc EXCEPT ![Receiver] = "idle"]
    BY <1>9 DEF SubmitExpire, SubmitShed, HandlerReturns
  <2> QED BY <2>1
<1>22. CASE shedLimit
  BY <1>22 DEF shedLimit
<1>21. ASSUME NEW th \in Thread, expire(th) PROVE Awake'
  BY <1>21 DEF expire
<1>11. ASSUME NEW th \in Thread, ReplyDead(th) PROVE Awake'
  BY <1>11 DEF ReplyDead
<1>12. ASSUME NEW w \in Worker, Pop(w) PROVE Awake'
  <2>1. /\ pc[w] = "pop" /\ w \notin waiting
        /\ q' \subseteq q
        /\ UNCHANGED <<timer, closer>>
    BY <1>12 DEF Pop
  <2>2. CASE waiting' = {} /\ pc' = [pc EXCEPT ![w] = "budget"]
    BY <2>1, <2>2
  <2>3. CASE q' = {} /\ pc' = [pc EXCEPT ![w] = "done"] /\ Closed /\ waiting' \subseteq waiting
    BY <2>1, <2>3
  <2>4. CASE pc' = pc /\ waiting' = {} /\ ~Closed
    BY <2>1, <2>4
  <2>5. CASE /\ pc' = pc /\ waiting' = waiting \cup {w} /\ ~Closed
             /\ q' = {} /\ q = {} /\ UNCHANGED cur
    BY <2>1, <2>5
  <2>6. pc[w] = "pop" => pc = [pc EXCEPT ![w] = "pop"]
    OBVIOUS
  <2>7. CASE \E t \in q : waiting' = {} /\ Goto(w, "budget")
    BY <2>2, <2>7
  <2>8. CASE /\ q \ ExpiredIn(q) = {} /\ q' = q \ ExpiredIn(q) /\ UNCHANGED cur
             /\ Goto(w, IF Closed THEN "done" ELSE "pop")
             /\ IF ExpiredIn(q) # {} THEN waiting' = {}
                ELSE waiting' = IF Closed THEN waiting ELSE waiting \cup {w}
    BY <2>1, <2>3, <2>4, <2>5, <2>6, <2>8
  <2> QED BY <1>12, <2>7, <2>8 DEF Pop, Broadcast, PopWake
<1>13. ASSUME NEW w \in Worker, budget(w) PROVE Awake'
  BY <1>13 DEF budget
<1>14. ASSUME NEW w \in Worker, LateReply(w) \/ Evaluate(w) PROVE Awake'
  <2>1. /\ pc[w] \in {"late", "evaluate"} /\ w \notin waiting
        /\ pc' = [pc EXCEPT ![w] = "pop"] /\ cur' = [cur EXCEPT ![w] = NoTask]
        /\ UNCHANGED <<q, timer, waiting, closer>>
    BY <1>14 DEF LateReply, Evaluate, Finish
  <2>2. cur'[Receiver] = cur[Receiver] /\ pc'[Receiver] = pc[Receiver]
    BY <2>1
  <2>3. \A v \in Worker : pc[v] \in {"pop", "done"} => pc'[v] = pc[v]
    BY <2>1
  <2>4. Sleepers' /\ Home'
    BY <2>1
  <2>5. NoLostWakeup'
    BY <2>1, <2>3
  <2>6. ReceiverSleepsOnlyWhenFull'
    BY <2>1, <2>2
  <2> QED BY <2>4, <2>5, <2>6
<1>15. CASE Sweep
  BY <1>15 DEF Sweep, TakeExpired, Broadcast, ExpiredIn
<1>16. CASE SweepStop
  BY <1>16 DEF SweepStop
<1>17. CASE CloseStop \/ CloseLock \/ CloseReturn
  BY <1>17 DEF CloseStop, CloseLock, CloseReturn, Broadcast
<1>18. CASE Tick
  BY <1>18 DEF Tick
<1>19. CASE UNCHANGED vars
  BY <1>19 DEF vars
<1> HIDE DEF Typed, TypeOK, Awake, At
<1> QED
  BY <1>1, <1>2, <1>3, <1>4, <1>7, <1>9, <1>10, <1>11, <1>12, <1>13, <1>14, <1>15, <1>16,
     <1>17, <1>18, <1>19, <1>20, <1>21, <1>22
     DEF Next, ReceiverStep, WorkerStep, SweeperStep, TimerStep, CloserStep, Finished

(* The two sleeping rules hold in every state, with what their induction   *)
(* needs.                                                                  *)
THEOREM AwakeAlways == Safe => []Awake
<1>1. Init => Awake
  BY ThreadAssumption
     DEF Init, Awake, Sleepers, NoLostWakeup, ReceiverSleepsOnlyWhenFull, Home, Thread
<1>2. Typed /\ Awake /\ [Next]_vars => Awake'
  BY NextTyped, AwakeNext
<1> QED BY <1>1, <1>2, InitTyped, NextTyped, PTL DEF Safe

(* No wake-up is lost: with a task in the queue, a worker at pop is awake. *)
THEOREM WakeupsKept == Safe => []NoLostWakeup
<1>1. Awake => NoLostWakeup
  BY DEF Awake
<1> QED BY <1>1, AwakeAlways, PTL

(* The receiver never sleeps when it could go on. *)
THEOREM ReceiverWoken == Safe => []ReceiverSleepsOnlyWhenFull
<1>1. Awake => ReceiverSleepsOnlyWhenFull
  BY DEF Awake
<1> QED BY <1>1, AwakeAlways, PTL
(* Once a worker has left, the queue is empty for good; once Close has     *)
(* returned, a request that was delivered is answered, or the receiver     *)
(* holds it: the one it submits or an expired one it took out of the queue.*)
THEOREM Drained == Safe => []DrainedOnExit
<1> DEFINE Returned == closer = "returned" =>
             \A th \in Worker \cup {Sweeper} : pc[th] = "done" /\ dead[th] = {}
           R == Returned
<1>1. Init => R
  BY DEF Init
<1>2. Typed /\ R /\ [Next]_vars => R'
  <2> SUFFICES ASSUME Typed, R, [Next]_vars PROVE R'
    OBVIOUS
  <2> USE ThreadAssumption DEF Typed, TypeOK, Thread, ReceiverAt, WorkerAt, At, Goto
  <2>1. ASSUME \A th \in Worker \cup {Sweeper} : pc[th] = "done" /\ dead[th] = {} =>
                 pc'[th] = "done" /\ dead'[th] = {},
               UNCHANGED closer
        PROVE  R'
    BY <2>1
  <2>2. CASE CloseStop \/ CloseLock \/ CloseReturn
    BY <2>2 DEF CloseStop, CloseLock, CloseReturn
  <2>3. ASSUME NEW t \in Task, Submit(t) \/ TimerDue(t) \/ TimerFire(t) PROVE R'
    BY <2>1, <2>3 DEF Submit, TimerDue, TimerFire
  <2>4. CASE SubmitCollect
    BY <2>1, <2>4 DEF SubmitCollect, TakeExpired
  <2>5. CASE SubmitLock
    BY <2>1, <2>5 DEF SubmitLock, GiveUp, enqueueLocked, WaitOnce, TakeExpired
  <2>6. CASE WaitLoop \/ WaitExit
    BY <2>1, <2>6 DEF WaitLoop, WaitExit, GiveUp, enqueueLocked, WaitOnce, TakeExpired
  <2>7. CASE SubmitExpire \/ SubmitShed \/ shedLimit
    BY <2>1, <2>7 DEF SubmitExpire, SubmitShed, HandlerReturns, shedLimit
  <2>13. ASSUME NEW th \in Thread, expire(th) PROVE R'
    BY <2>1, <2>13 DEF expire
  <2>8. ASSUME NEW th \in Thread, ReplyDead(th) PROVE R'
    BY <2>1, <2>8 DEF ReplyDead
  <2>9. ASSUME NEW w \in Worker, Pop(w) PROVE R'
    BY <2>1, <2>9 DEF Pop
  <2>10. ASSUME NEW w \in Worker, budget(w) \/ LateReply(w) \/ Evaluate(w) PROVE R'
    BY <2>1, <2>10 DEF budget, LateReply, Evaluate, Finish
  <2>11. CASE Sweep \/ SweepStop
    BY <2>1, <2>11 DEF Sweep, SweepStop, TakeExpired
  <2>12. CASE Tick \/ UNCHANGED vars
    BY <2>1, <2>12 DEF Tick, vars
  <2> HIDE DEF Typed, TypeOK, At, R
  <2> QED
    BY <2>2, <2>3, <2>4, <2>5, <2>6, <2>7, <2>8, <2>9, <2>10, <2>11, <2>12, <2>13
       DEF Next, ReceiverStep, WorkerStep, SweeperStep, TimerStep, CloserStep, Finished
<1>3. Typed /\ Awake /\ OnePlace /\ R => DrainedOnExit
  <2> SUFFICES ASSUME Typed, Awake, OnePlace, R PROVE DrainedOnExit
    OBVIOUS
  <2>1. \A w \in Worker : pc[w] = "done" => Closed /\ q = {}
    BY DEF Awake, Home
  <2>2. ASSUME closer = "returned", NEW t \in Task \ fresh
        PROVE  Answered(t) \/ t \in HeldBy(Receiver)
    <3>1. \A th \in Worker \cup {Sweeper} : HeldBy(th) = {}
      BY <2>2 DEF Typed, TypeOK, HeldBy, Thread
    <3>2. q = {}
      BY <2>1, <2>2, WorkerAssumption
    <3> QED BY <3>1, <3>2 DEF OnePlace, InOnePlace, Thread
  <2> QED BY <2>1, <2>2 DEF DrainedOnExit
<1> HIDE DEF R
<1> QED
  BY <1>1, <1>2, <1>3, InitTyped, NextTyped, AwakeAlways, OnePlaceAlways, PTL DEF Safe

(* The queue never grows past its depth. *)
THEOREM DepthKept == Safe => []DepthBound
<1>1. Init => DepthBound
  BY FS_EmptySet, DepthAssumption DEF Init, DepthBound
<1>2. Typed /\ Typed' /\ DepthBound /\ [Next]_vars => DepthBound'
  <2> SUFFICES ASSUME Typed, DepthBound, [Next]_vars PROVE DepthBound'
    OBVIOUS
  <2>0. Cardinality(q) \in Nat
    BY FS_CardinalityType DEF Typed
  <2>1. ASSUME q' \subseteq q PROVE DepthBound'
    BY <2>0, <2>1, FS_Subset, FS_CardinalityType, DepthAssumption DEF Typed, DepthBound
  <2>2. ASSUME NEW t, enqueueLocked(t), ~Full PROVE DepthBound'
    <3>1. q' = q \cup {t}
      BY <2>2 DEF enqueueLocked
    <3>2. Cardinality(q') <= Cardinality(q) + 1
      BY <3>1, <2>0, FS_AddElement DEF Typed
    <3>3. Cardinality(q) < Depth
      BY <2>0, <2>2, DepthAssumption DEF Full
    <3>4. Cardinality(q') \in Nat
      BY <3>1, FS_AddElement, FS_CardinalityType DEF Typed
    <3> QED BY <2>0, <3>2, <3>3, <3>4, DepthAssumption DEF DepthBound
  <2>3. CASE SubmitLock
    <3>1. CASE q' \subseteq q
      BY <2>1, <3>1
    <3>2. CASE enqueueLocked(cur[Receiver]) /\ ~Full
      BY <2>2, <3>2
    <3> QED
      BY <2>3, <3>1, <3>2 DEF SubmitLock, GiveUp, WaitOnce, TakeExpired
  <2>4. CASE WaitExit
    BY <2>1, <2>2, <2>4 DEF WaitExit, GiveUp
  <2>5. \/ q' \subseteq q \/ SubmitLock \/ WaitExit
    BY DEF Next, vars, ReceiverStep, WorkerStep, SweeperStep, TimerStep, CloserStep, Finished,
           Submit, TimerDue, TimerFire, SubmitCollect, WaitLoop, WaitOnce, SubmitExpire,
           SubmitShed, HandlerReturns, expire, shedLimit, ReplyDead, Pop, budget, LateReply, Evaluate, Finish, Sweep, SweepStop,
           CloseStop, CloseLock, CloseReturn, Tick, TakeExpired
  <2> QED BY <2>1, <2>3, <2>4, <2>5
<1> QED BY <1>1, <1>2, InitTyped, NextTyped, PTL DEF Safe
=============================================================================
