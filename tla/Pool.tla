-------------------------------- MODULE Pool --------------------------------
(***************************************************************************)
(* internal/queue: the bounded queue between the NATS subscription and the *)
(* workers.  One receiver goroutine calls Submit, the workers loop in      *)
(* work, a sweeper removes what waited too long, main calls Close.  All of *)
(* them share one mutex and ONE condition variable: workers sleep on it    *)
(* for a task, the receiver sleeps on it for room.                         *)
(*                                                                         *)
(* A critical section is one action.  A goroutine that took expired tasks  *)
(* out of the queue answers them one by one outside the lock (dead) before *)
(* it goes on at pc.                                                       *)
(***************************************************************************)
EXTENDS Integers, FiniteSets, Sequences

CONSTANTS
    Task,        \* the requests the subscription may deliver
    NoTask,      \* nil
    Worker,      \* the worker goroutines
    Receiver,    \* the goroutine of the subscription's callback
    Sweeper,     \* the goroutine of sweep
    Depth,       \* p.depth
    WaitMode,    \* p.full = FullWait
    Reserve,     \* p.reserve
    MinBudget,   \* p.minBudget
    Deadline,    \* t.Req.DeadlineMS of each task
    MaxTime      \* bound: the clock stops here

Thread == Worker \cup {Receiver, Sweeper}

ASSUME TaskAssumption == NoTask \notin Task
ASSUME WorkerAssumption == IsFiniteSet(Worker) /\ Worker # {}
ASSUME ThreadAssumption ==
    Receiver \notin Worker /\ Sweeper \notin Worker /\ Receiver # Sweeper
ASSUME DepthAssumption == Depth \in Nat \ {0}      \* New lifts 0 to 1
ASSUME ModeAssumption == WaitMode \in BOOLEAN
ASSUME TimeAssumption ==
    /\ Reserve \in Nat /\ MinBudget \in Nat /\ MaxTime \in Nat
    /\ Deadline \in [Task -> Nat]

Verdict == {"evaluated", "deadline", "limit"}

VARIABLES
    now,       \* the monotonic clock
    fresh,     \* tasks not delivered yet
    q,         \* p.q as a set; its order is that of the tickets
    ticket,    \* the value of Accepted when the task was appended
    accepted, shed, expired,   \* p.Accepted, p.Shed, p.Expired
    enq,       \* t.enqueued
    fill,      \* t.Fill
    timer,     \* the AfterFunc of submitWaitLocked, per task
    pc,        \* where a thread goes on, once dead is answered
    cur,       \* the task a thread works on
    dead,      \* expired tasks a thread has still to answer
    calling,   \* threads that have counted a task and call its handler
    waiting,   \* threads asleep in cond.Wait
    closer,    \* progress of Close
    replies    \* handler calls that ended, per task

counters == <<accepted, shed, expired>>
vars == <<now, fresh, q, ticket, accepted, shed, expired, enq, fill, timer, pc,
          cur, dead, calling, waiting, closer, replies>>

Stopped == closer # "open"                      \* p.stop is closed
Closed == closer \in {"waiting", "returned"}    \* p.closed

-----------------------------------------------------------------------------
(* Deadlines *)

Left(t) == Deadline[t] - (now - enq[t]) - Reserve

Expired(t) == Left(t) < MinBudget

ExpiredIn(S) == {t \in S : Expired(t)}

(* The head of p.q is the task with the smallest ticket. *)
IsHead(t, S) == t \in S /\ \A u \in S : ticket[t] <= ticket[u]

Full_offByOne == Cardinality(q) > Depth
Full == Cardinality(q) >= Depth

fillLocked_withSelf == ((Cardinality(q) + 1) * 100) \div Depth
fillLocked == IF Full THEN 100 ELSE (Cardinality(q) * 100) \div Depth

-----------------------------------------------------------------------------
(* Pieces of the critical sections *)

(* The thread is at l and owes no answer to an expired task. *)
At(th, l) == pc[th] = l /\ dead[th] = {} /\ th \notin waiting

Goto(th, l) == pc' = [pc EXCEPT ![th] = l]

(* handler(t, left, reason) for a task the thread gives up afterwards. *)
Answer(t, v) == replies' = [replies EXCEPT ![t] = Append(@, v)]

(* cond.Signal wakes one sleeper, whichever; cond.Broadcast wakes all. *)
Signal_lost == UNCHANGED waiting
Signal ==
    IF waiting = {} THEN UNCHANGED waiting
                    ELSE \E th \in waiting : waiting' = waiting \ {th}
Broadcast_workers == waiting' = waiting \ Worker
Broadcast == waiting' = {}

(* pop wakes everybody for the room it made, not for the task it took. *)
PopWake_one == Signal
PopWake == Broadcast

(* takeExpiredLocked on its own: the thread now owes the expired an answer. *)
TakeExpired_keepsQueue(th) ==
    /\ dead' = [dead EXCEPT ![th] = ExpiredIn(q)]
    /\ UNCHANGED <<q, waiting>>
TakeExpired(th) ==
    LET gone == ExpiredIn(q) IN
    /\ q' = q \ gone
    /\ dead' = [dead EXCEPT ![th] = gone]
    /\ IF gone = {} THEN UNCHANGED waiting ELSE Broadcast

enqueueLocked(t) ==
    /\ q' = q \cup {t}
    /\ ticket' = [ticket EXCEPT ![t] = accepted]
    /\ accepted' = accepted + 1
    /\ Signal
    /\ cur' = [cur EXCEPT ![Receiver] = NoTask]
    /\ Goto(Receiver, "idle")
    /\ UNCHANGED <<shed, expired, dead>>

(* The receiver leaves the lock and has to tell the task that it expired. *)
GiveUp == /\ Goto(Receiver, "expire")
          /\ UNCHANGED <<q, ticket, counters, cur, dead, waiting>>

-----------------------------------------------------------------------------
(* Submit *)

(* The arrival and the check before the lock.  The bound lets every        *)
(* deadline pass before the clock stops.                                   *)
Submit(t) ==
    /\ At(Receiver, "idle")
    /\ t \in fresh
    /\ now + Deadline[t] <= MaxTime
    /\ fresh' = fresh \ {t}
    /\ enq' = [enq EXCEPT ![t] = now]
    /\ cur' = [cur EXCEPT ![Receiver] = t]
    /\ Goto(Receiver, IF Deadline[t] - Reserve < MinBudget THEN "expire" ELSE "collect")
    /\ UNCHANGED <<now, q, ticket, counters, fill, timer, dead, waiting, calling, closer, replies>>

SubmitCollect ==
    /\ At(Receiver, "collect")
    /\ TakeExpired(Receiver)
    /\ Goto(Receiver, "lock")
    /\ UNCHANGED <<now, fresh, ticket, counters, enq, fill, timer, cur, calling, closer, replies>>

(* The body of the wait loop: answer the expired, or sleep. *)
WaitOnce ==
    /\ IF ExpiredIn(q) # {}
         THEN TakeExpired(Receiver)
         ELSE /\ waiting' = waiting \cup {Receiver}
              /\ UNCHANGED <<q, dead>>
    /\ Goto(Receiver, "wait")
    /\ UNCHANGED <<ticket, counters, cur>>

(* The critical section of Submit.  In wait mode it runs on into the first *)
(* turn of the loop of submitWaitLocked, with the lock held.               *)
SubmitLock ==
    LET t == cur[Receiver] IN
    /\ At(Receiver, "lock")
    /\ fill' = IF Closed THEN fill ELSE [fill EXCEPT ![t] = fillLocked]
    /\ timer' = IF ~Closed /\ Full /\ WaitMode /\ ~Expired(t)
                  THEN [timer EXCEPT ![t] = "armed"] ELSE timer
    /\ \/ Closed /\ GiveUp
       \/ ~Closed /\ ~Full /\ enqueueLocked(t)
       \/ ~Closed /\ Full /\ WaitMode /\ Expired(t) /\ GiveUp
       \/ ~Closed /\ Full /\ WaitMode /\ ~Expired(t) /\ WaitOnce
       \/ /\ ~Closed /\ Full /\ ~WaitMode
          /\ Goto(Receiver, "shed")
          /\ UNCHANGED <<q, ticket, counters, cur, dead, waiting>>
    /\ UNCHANGED <<now, fresh, enq, calling, closer, replies>>

(* The loop condition after a wake-up or after answering the expired.  It  *)
(* goes round when the callback of an earlier request's timer, which Stop  *)
(* came too late for, has woken the receiver.                              *)
WaitLoop ==
    LET t == cur[Receiver] IN
    /\ At(Receiver, "wait")
    /\ Full /\ timer[t] # "fired" /\ ~Closed
    /\ WaitOnce
    /\ UNCHANGED <<now, fresh, enq, fill, timer, calling, closer, replies>>

(* The loop is over: timer.Stop, which cannot stop a callback that runs. *)
WaitExit_anyWake ==
    LET t == cur[Receiver] IN
    /\ At(Receiver, "wait")
    /\ timer' = IF timer[t] = "armed" THEN [timer EXCEPT ![t] = "off"] ELSE timer
    /\ IF Closed \/ Full THEN GiveUp ELSE enqueueLocked(t)
    /\ UNCHANGED <<now, fresh, enq, fill, calling, closer, replies>>
WaitExit_ignoresClosed ==
    LET t == cur[Receiver] IN
    /\ At(Receiver, "wait")
    /\ ~Full \/ timer[t] = "fired" \/ Closed
    /\ timer' = IF timer[t] = "armed" THEN [timer EXCEPT ![t] = "off"] ELSE timer
    /\ IF Full THEN GiveUp ELSE enqueueLocked(t)
    /\ UNCHANGED <<now, fresh, enq, fill, calling, closer, replies>>
WaitExit ==
    LET t == cur[Receiver] IN
    /\ At(Receiver, "wait")
    /\ ~Full \/ timer[t] = "fired" \/ Closed
    /\ timer' = IF timer[t] = "armed" THEN [timer EXCEPT ![t] = "off"] ELSE timer
    /\ IF Closed \/ Full THEN GiveUp ELSE enqueueLocked(t)
    /\ UNCHANGED <<now, fresh, enq, fill, calling, closer, replies>>

(* expire counts the task and then calls the handler, which takes its      *)
(* time: the next task of dead, or the one Submit gives up.                *)
expire(th) ==
    /\ th \notin calling
    /\ dead[th] # {} \/ At(th, "expire")
    /\ expired' = expired + 1
    /\ calling' = calling \cup {th}
    /\ UNCHANGED <<now, fresh, q, ticket, accepted, shed, enq, fill, timer, pc, cur, dead, waiting, closer, replies>>

(* The handler of a task that Submit gave up returns. *)
HandlerReturns(v) ==
    /\ Receiver \in calling
    /\ Answer(cur[Receiver], v)
    /\ cur' = [cur EXCEPT ![Receiver] = NoTask]
    /\ calling' = calling \ {Receiver}
    /\ Goto(Receiver, "idle")
    /\ UNCHANGED <<now, fresh, q, ticket, counters, enq, fill, timer, dead, waiting, closer>>

SubmitExpire == At(Receiver, "expire") /\ HandlerReturns("deadline")

(* shedLimit counts and calls the handler in the same way. *)
shedLimit ==
    /\ At(Receiver, "shed")
    /\ Receiver \notin calling
    /\ shed' = shed + 1
    /\ calling' = calling \cup {Receiver}
    /\ UNCHANGED <<now, fresh, q, ticket, accepted, expired, enq, fill, timer, pc, cur, dead, waiting, closer, replies>>

SubmitShed == At(Receiver, "shed") /\ HandlerReturns("limit")

(* The runtime starts the callback of a due timer, which then takes the lock. *)
TimerDue(t) ==
    /\ timer[t] = "armed" /\ Left(t) <= 0
    /\ timer' = [timer EXCEPT ![t] = "firing"]
    /\ UNCHANGED <<now, fresh, q, ticket, counters, enq, fill, pc, cur, dead, waiting, calling, closer, replies>>

TimerFire(t) ==
    /\ timer[t] = "firing"
    /\ timer' = [timer EXCEPT ![t] = "fired"]
    /\ Broadcast
    /\ UNCHANGED <<now, fresh, q, ticket, counters, enq, fill, pc, cur, dead, calling, closer, replies>>

-----------------------------------------------------------------------------
(* replyDead, of whichever thread: expire for one task after the other, in *)
(* queue order.  Here the handler of the next one returns.                 *)
ReplyDead(th) ==
    /\ th \in calling
    /\ \E t \in dead[th] :
         /\ IsHead(t, dead[th])
         /\ Answer(t, "deadline")
         /\ dead' = [dead EXCEPT ![th] = @ \ {t}]
    /\ calling' = calling \ {th}
    /\ UNCHANGED <<now, fresh, q, ticket, counters, enq, fill, timer, pc, cur, waiting, closer>>

-----------------------------------------------------------------------------
(* The workers *)

(* One turn of the loop in pop: it returns a task, or the end, or nothing  *)
(* but expired tasks, or it sleeps.                                        *)
Pop(w) ==
    LET gone == ExpiredIn(q)
        kept == q \ gone IN
    /\ At(w, "pop")
    /\ dead' = [dead EXCEPT ![w] = gone]
    /\ \/ \E t \in kept :
            /\ IsHead(t, kept)
            /\ q' = kept \ {t}
            /\ cur' = [cur EXCEPT ![w] = t]
            /\ Goto(w, "budget")
            /\ PopWake
       \/ /\ kept = {}
          /\ q' = kept
          /\ UNCHANGED cur
          /\ Goto(w, IF Closed THEN "done" ELSE "pop")
          /\ IF gone # {} THEN Broadcast
             ELSE waiting' = IF Closed THEN waiting ELSE waiting \cup {w}
    /\ UNCHANGED <<now, fresh, ticket, counters, enq, fill, timer, calling, closer, replies>>

(* The last look at the clock before the rules run. *)
budget_uncounted(w) ==
    /\ At(w, "budget")
    /\ Goto(w, IF Expired(cur[w]) THEN "late" ELSE "evaluate")
    /\ UNCHANGED <<now, fresh, q, ticket, counters, enq, fill, timer, cur, dead, waiting, calling, closer, replies>>
budget(w) ==
    /\ At(w, "budget")
    /\ Goto(w, IF Expired(cur[w]) THEN "late" ELSE "evaluate")
    /\ expired' = IF Expired(cur[w]) THEN expired + 1 ELSE expired
    /\ UNCHANGED <<now, fresh, q, ticket, accepted, shed, enq, fill, timer, cur, dead, waiting, calling, closer, replies>>

Finish(w, v) ==
    /\ Answer(cur[w], v)
    /\ cur' = [cur EXCEPT ![w] = NoTask]
    /\ Goto(w, "pop")
    /\ UNCHANGED <<now, fresh, q, ticket, counters, enq, fill, timer, dead, waiting, calling, closer>>

(* handler(t, budget, shed): with the reason of a late task, or the rules. *)
LateReply(w) == At(w, "late") /\ Finish(w, "deadline")
Evaluate(w) == At(w, "evaluate") /\ Finish(w, "evaluated")

-----------------------------------------------------------------------------
(* The sweeper: select between the tick and p.stop *)

Sweep_once ==
    /\ At(Sweeper, "sweep")
    /\ ExpiredIn(q) # {}
    /\ TakeExpired(Sweeper)
    /\ Goto(Sweeper, "done")
    /\ UNCHANGED <<now, fresh, ticket, counters, enq, fill, timer, cur, calling, closer, replies>>
Sweep ==
    /\ At(Sweeper, "sweep")
    /\ ExpiredIn(q) # {}      \* a tick with nothing to do changes nothing
    /\ TakeExpired(Sweeper)
    /\ UNCHANGED <<now, fresh, ticket, counters, enq, fill, timer, pc, cur, calling, closer, replies>>

SweepStop ==
    /\ At(Sweeper, "sweep")
    /\ Stopped
    /\ Goto(Sweeper, "done")
    /\ UNCHANGED <<now, fresh, q, ticket, counters, enq, fill, timer, cur, dead, waiting, calling, closer, replies>>

-----------------------------------------------------------------------------
(* Close, called by main after the signal *)

CloseStop ==
    /\ closer = "open"
    /\ closer' = "stopping"
    /\ UNCHANGED <<now, fresh, q, ticket, counters, enq, fill, timer, pc, cur, dead, waiting, calling, replies>>

CloseLock_quiet ==
    /\ closer = "stopping"
    /\ closer' = "waiting"
    /\ UNCHANGED <<now, fresh, q, ticket, counters, enq, fill, timer, pc, cur, dead, waiting, calling, replies>>
CloseLock ==
    /\ closer = "stopping"
    /\ closer' = "waiting"
    /\ Broadcast
    /\ UNCHANGED <<now, fresh, q, ticket, counters, enq, fill, timer, pc, cur, dead, calling, replies>>

(* wg.Wait returns: a thread's Done runs when its function returns. *)
CloseReturn ==
    /\ closer = "waiting"
    /\ \A th \in Worker \cup {Sweeper} : At(th, "done")
    /\ closer' = "returned"
    /\ UNCHANGED <<now, fresh, q, ticket, counters, enq, fill, timer, pc, cur, dead, waiting, calling, replies>>

-----------------------------------------------------------------------------
Tick ==
    /\ now < MaxTime
    /\ now' = now + 1
    /\ UNCHANGED <<fresh, q, ticket, counters, enq, fill, timer, pc, cur, dead, waiting, calling, closer, replies>>

(* Nothing is left to do: main returns and the process ends. *)
Finished ==
    /\ closer = "returned"
    /\ now = MaxTime
    /\ pc[Receiver] = "idle"
    /\ \A t \in Task : timer[t] # "firing"
    /\ UNCHANGED vars

Init ==
    /\ now = 0
    /\ fresh = Task
    /\ q = {}
    /\ ticket = [t \in Task |-> 0]
    /\ accepted = 0 /\ shed = 0 /\ expired = 0
    /\ enq = [t \in Task |-> 0]
    /\ fill = [t \in Task |-> 0]
    /\ timer = [t \in Task |-> "off"]
    /\ pc = [th \in Thread |-> IF th = Receiver THEN "idle"
                               ELSE IF th = Sweeper THEN "sweep" ELSE "pop"]
    /\ cur = [th \in Thread |-> NoTask]
    /\ dead = [th \in Thread |-> {}]
    /\ calling = {}
    /\ waiting = {}
    /\ closer = "open"
    /\ replies = [t \in Task |-> <<>>]

ReceiverStep == \/ SubmitCollect \/ SubmitLock \/ WaitLoop \/ WaitExit
                \/ expire(Receiver) \/ SubmitExpire \/ ReplyDead(Receiver)
                \/ shedLimit \/ SubmitShed
TimerStep(t) == TimerDue(t) \/ TimerFire(t)
WorkerStep(w) == Pop(w) \/ budget(w) \/ LateReply(w) \/ expire(w) \/ ReplyDead(w)
SweeperStep == Sweep \/ SweepStop \/ expire(Sweeper) \/ ReplyDead(Sweeper)
CloserStep == CloseLock \/ CloseReturn

Next == \/ \E t \in Task : Submit(t) \/ TimerStep(t)
        \/ ReceiverStep
        \/ \E w \in Worker : WorkerStep(w) \/ Evaluate(w)
        \/ SweeperStep
        \/ CloseStop \/ CloserStep
        \/ Tick \/ Finished

(***************************************************************************)
(* A runnable goroutine runs: a thread's step stays enabled until it takes *)
(* it, because a Go mutex is starvation free.  The clock moves and a due   *)
(* timer fires.  Nothing makes a request arrive or Close be called.        *)
(***************************************************************************)
PoolFairness == /\ WF_vars(ReceiverStep)
                /\ \A t \in Task : WF_vars(TimerStep(t))
                /\ \A w \in Worker : WF_vars(WorkerStep(w))
                /\ WF_vars(SweeperStep)
                /\ WF_vars(CloserStep)
                /\ WF_vars(Tick)

(* The rules may take for ever (a body or a list that is not answered). *)
Spec == Init /\ [][Next]_vars /\ PoolFairness

(* Every evaluation ends. *)
EvaluationsEnd == \A w \in Worker : WF_vars(Evaluate(w))
-----------------------------------------------------------------------------
(* Properties *)

ReceiverAt == {"idle", "collect", "lock", "wait", "expire", "shed"}
WorkerAt == {"pop", "budget", "late", "evaluate", "done"}

(* The states the variables range over; a thread holds a task exactly      *)
(* where Submit or work has one in hand.                                   *)
TypeOK ==
    /\ now \in Nat
    /\ fresh \subseteq Task /\ q \subseteq Task
    /\ ticket \in [Task -> Nat] /\ enq \in [Task -> Nat]
    /\ accepted \in Nat /\ shed \in Nat /\ expired \in Nat
    /\ fill \in [Task -> 0..100]
    /\ timer \in [Task -> {"off", "armed", "firing", "fired"}]
    /\ pc \in [Thread -> ReceiverAt \cup WorkerAt \cup {"sweep"}]
    /\ pc[Receiver] \in ReceiverAt
    /\ \A w \in Worker : pc[w] \in WorkerAt
    /\ pc[Sweeper] \in {"sweep", "done"}
    /\ cur \in [Thread -> Task \cup {NoTask}]
    /\ \A th \in Thread :
         cur[th] = NoTask <=> pc[th] \in {"idle", "pop", "sweep", "done"}
    /\ dead \in [Thread -> SUBSET Task]
    /\ calling \subseteq Thread
    /\ waiting \subseteq Thread
    /\ closer \in {"open", "stopping", "waiting", "returned"}
    /\ replies \in [Task -> Seq(Verdict)]

Answered(t) == replies[t] # <<>>
HeldBy(th) == dead[th] \cup ({cur[th]} \ {NoTask})

(* No request is dropped on a path and none is handled twice: at any       *)
(* moment it is not delivered yet, or queued, or in the hands of one       *)
(* thread, or answered once, and never two of these.                       *)
InOnePlace(t) ==
    /\ Len(replies[t]) <= 1
    /\ t \in fresh \/ t \in q \/ Answered(t) \/ \E th \in Thread : t \in HeldBy(th)
    /\ t \in fresh => t \notin q /\ ~Answered(t)
    /\ t \in q => ~Answered(t)
    /\ \A th \in Thread : t \in HeldBy(th) =>
         /\ t \notin fresh /\ t \notin q /\ ~Answered(t)
         /\ \A o \in Thread \ {th} : t \notin HeldBy(o)
         /\ ~(t \in dead[th] /\ t = cur[th])
OnePlace == \A t \in Task : InOnePlace(t)

(* p.q never holds more than p.depth tasks, although the receiver looks,   *)
(* lets go of the lock and comes back.                                     *)
DepthBound == Cardinality(q) <= Depth

(* A worker sleeps only when every queued task has another worker awake    *)
(* and on its way to pop: Signal was never spent on the wrong sleeper.     *)
WorkConserving ==
    \A w \in Worker \cap waiting :
      Cardinality(q) <= Cardinality({v \in Worker : pc[v] = "pop" /\ v \notin waiting})

(* The same, as far as it is needed for progress: with a task in the queue *)
(* not every worker at pop is asleep.                                      *)
NoLostWakeup ==
    q # {} /\ Worker \cap waiting # {} =>
      \E v \in Worker : pc[v] = "pop" /\ v \notin waiting

(* The receiver in submitWaitLocked sleeps only while the queue is full,   *)
(* the timer has not run and the pool is open: whatever makes its loop     *)
(* condition false has woken it.                                           *)
ReceiverSleepsOnlyWhenFull ==
    Receiver \in waiting => /\ pc[Receiver] = "wait"
                            /\ Full /\ ~Closed
                            /\ timer[cur[Receiver]] # "fired"

(* DEADLINE_EXCEEDED is not an excuse: a request is told so only when its  *)
(* time is really used up, or because the pool is closing.                 *)
DeadlineIsHonest ==
    \A t \in Task : replies[t] = <<"deadline">> =>
      Closed \/ Expired(t) \/ Left(t) <= 0

(* Once a worker has gone home the queue is empty and stays so: nothing is *)
(* accepted that nobody will take.  When Close returns, every request      *)
(* delivered so far is answered, except those in the hands of the receiver,*)
(* for which Close does not wait: the one it is submitting, and the queued *)
(* ones it found expired and has still to tell.                            *)
DrainedOnExit ==
    /\ \A w \in Worker : pc[w] = "done" => Closed /\ q = {}
    /\ closer = "returned" =>
         \A t \in Task \ fresh : Answered(t) \/ t \in HeldBy(Receiver)

(* The counters of the heartbeat agree with the answers given, but for the *)
(* tasks that are counted and whose handler has not returned: at most one  *)
(* per thread.  A late task counts as expired although it was accepted     *)
(* before.                                                                 *)
CountersAgree ==
    /\ shed = Cardinality({t \in Task : replies[t] = <<"limit">>})
              + Cardinality({th \in calling : pc[th] = "shed"})
    /\ expired = Cardinality({t \in Task : replies[t] = <<"deadline">>})
                 + Cardinality({w \in Worker : pc[w] = "late"})
                 + Cardinality({th \in calling : pc[th] # "shed"})

(* Pool keeps the promise of Answering: one answer, and in the end one,    *)
(* provided the workers' evaluations end.                                  *)
Ask == INSTANCE Answering WITH taken <- Task \ fresh, replies <- replies
PromiseSafe == Ask!ASafe
Promise == Ask!ASafe /\ (EvaluationsEnd => Ask!ALive)

(* Close comes back, whoever is asleep when it is called, provided the     *)
(* workers' evaluations end.                                               *)
CloseReturns == EvaluationsEnd => (closer = "stopping" ~> closer = "returned")

(* With every worker stuck in its rules a queued request is still answered *)
(* by the sweeper, or until Close has stopped it.                          *)
QueuedIsSwept ==
    \A t \in Task : (t \in q) ~> (Answered(t) \/ Stopped \/ \E w \in Worker : cur[w] = t)

(* ... and the subscription's goroutine is never blocked for good.         *)
ReceiverReturns == (pc[Receiver] # "idle") ~> (pc[Receiver] = "idle")
=============================================================================
