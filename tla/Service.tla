------------------------------ MODULE Service ------------------------------
(***************************************************************************)
(* The inspector from the bus to the bus: the subscription's buffer, the   *)
(* callback (handler.receive), the pool, handler.send, the audit sink, and *)
(* main's shutdown, which runs beside all of them.                         *)
(*                                                                         *)
(* Of the pool only its promise is used: what it accepts is answered by a  *)
(* worker, by the sweeper or by the callback that found it expired, what   *)
(* it refuses the callback answers, and Close comes back when nothing      *)
(* accepted is left but with the callback (Pool: Promise, DrainedOnExit).  *)
(* The events of Sink are the requests.                                    *)
(***************************************************************************)
EXTENDS Sink

CONSTANT NoRequest      \* the callback is idle

ASSUME RequestAssumption == NoRequest \notin Event

VARIABLES
    where,         \* how far a request is
    cb,            \* the request the callback is busy with
    pooled,        \* history: the requests the pool accepted
    taken,         \* history: those the callback took out of the queue again
    late,          \* history: those unfinished when pool.Close returned
    main           \* progress of run after it has subscribed

vars == <<pending, size, dropped, wake, stop, loop, hand, added, sent, gone, lost,
          where, cb, pooled, taken, late, main>>

Goto(r, l) == where' = [where EXCEPT ![r] = l]

-----------------------------------------------------------------------------
(* The bus: a message reaches the client's buffer.  One that is lost on    *)
(* the way, or because the buffer is full, is never delivered.             *)

Deliver(r) ==
    /\ where[r] = "out"
    /\ Goto(r, "buffer")
    /\ UNCHANGED <<sinkVars, cb, pooled, taken, late, main>>

(* The subscription runs one callback at a time. *)
Callback(r) ==
    /\ where[r] = "buffer" /\ cb = NoRequest
    /\ cb' = r
    /\ Goto(r, "receive")
    /\ UNCHANGED <<sinkVars, pooled, taken, late, main>>

-----------------------------------------------------------------------------
(* handler *)

Leave_never(r) == UNCHANGED cb
Leave(r) == cb' = IF cb = r THEN NoRequest ELSE cb

(* "release ignored" *)
ReceiveRelease(r) ==
    /\ where[r] = "receive"
    /\ Goto(r, "done")
    /\ Leave(r)
    /\ UNCHANGED <<sinkVars, pooled, taken, late, main>>

PoolClosed == main \notin {"run", "signalled", "draining"}

Busy(r) == where[r] \notin {"out", "buffer", "done"}

(* pool.Submit begins. *)
Submit(r) ==
    /\ where[r] = "receive"
    /\ Goto(r, "submit")
    /\ UNCHANGED <<sinkVars, cb, pooled, taken, late, main>>

(* Submit finds a queued request expired and has to answer it itself. *)
TakeExpired(r) ==
    /\ cb # NoRequest /\ where[cb] = "submit"
    /\ r \in pooled \ taken /\ where[r] = "held"
    /\ taken' = taken \cup {r}
    /\ UNCHANGED <<sinkVars, where, cb, pooled, late, main>>

(* The callback answers one request at a time, and the expired ones first. *)
Turn(r) ==
    /\ r = cb => \A t \in taken : ~Busy(t)
    /\ r \in taken => \A t \in taken : where[t] \notin {"told", "kick"}

(* The pool takes the request and the callback is free again. *)
SubmitAccepts(r) ==
    /\ where[r] = "submit" /\ ~PoolClosed /\ Turn(r)
    /\ Goto(r, "held")
    /\ pooled' = pooled \cup {r}
    /\ Leave(r)
    /\ UNCHANGED <<sinkVars, taken, late, main>>

(***************************************************************************)
(* send up to nc.Publish.  The callback answers what receive rejects, what *)
(* Submit refuses and what it took; a worker or the sweeper the rest.      *)
(***************************************************************************)
Unanswered(r) == where[r] \in {"receive", "submit", "held"}

Tell(r) ==
    /\ Unanswered(r) /\ Turn(r)
    /\ Goto(r, "told")
    /\ UNCHANGED <<sinkVars, cb, pooled, taken, late, main>>

(* Nothing to audit: a malformed message, and a panic that recoverInto has *)
(* caught, is answered without the request, and the request may name no    *)
(* audit subject.  Without a reply subject send does nothing at all.       *)
TellBare(r) ==
    /\ Unanswered(r) /\ Turn(r)
    /\ Goto(r, "done")
    /\ Leave(r)
    /\ UNCHANGED <<sinkVars, pooled, taken, late, main>>

(* The second half of send: audit.Add, then kick outside its lock. *)
Audit(r) ==
    /\ where[r] = "told"
    /\ Add(r)
    /\ IF Full(Len(pending'), size') THEN Goto(r, "kick") /\ UNCHANGED cb
                                     ELSE Goto(r, "done") /\ Leave(r)
    /\ UNCHANGED <<pooled, taken, late, main>>

Kick(r) ==
    /\ where[r] = "kick"
    /\ kick
    /\ Goto(r, "done")
    /\ Leave(r)
    /\ UNCHANGED <<pooled, taken, late, main>>

-----------------------------------------------------------------------------
(* main: waitForSignal; sub.Drain, which only starts the draining;         *)
(* pool.Close; auditSink.Close; nc.Close on return, and the process ends.  *)

Main(from, to) == main = from /\ main' = to /\ UNCHANGED <<where, cb, pooled, taken>>

Signal == Main("run", "signalled") /\ UNCHANGED <<sinkVars, late>>
Drain == Main("signalled", "draining") /\ UNCHANGED <<sinkVars, late>>
ClosePool == Main("draining", "pool") /\ UNCHANGED <<sinkVars, late>>

CloseSink_early ==
    /\ Main("pool", "sink")
    /\ stop' = TRUE
    /\ late' = {r \in pooled : Busy(r)}
    /\ UNCHANGED <<fields, wake, loop, hand, history>>
CloseSink_silent ==
    /\ Main("pool", "sink")
    /\ \A r \in pooled \ taken : ~Busy(r)
    /\ late' = {r \in pooled : Busy(r)}
    /\ UNCHANGED sinkVars
(* pool.Close has returned: workers and sweeper are done; it does not wait *)
(* for the callback.                                                       *)
CloseSink ==
    /\ Main("pool", "sink")
    /\ \A r \in pooled \ taken : ~Busy(r)
    /\ stop' = TRUE
    /\ late' = {r \in pooled : Busy(r)}
    /\ UNCHANGED <<fields, wake, loop, hand, history>>

Exit == Main("sink", "exited") /\ loop = "done" /\ UNCHANGED <<sinkVars, late>>

-----------------------------------------------------------------------------
Finished == main = "exited" /\ UNCHANGED vars

Init ==
    /\ SinkInit
    /\ where = [r \in Event |-> "out"]
    /\ cb = NoRequest /\ pooled = {} /\ taken = {} /\ late = {}
    /\ main = "run"

HandlerStep(r) == Callback(r) \/ Tell(r) \/ TellBare(r) \/ Audit(r) \/ Kick(r)
MainStep == Drain \/ ClosePool \/ CloseSink \/ Exit
SinkStep == LoopStep /\ UNCHANGED <<where, cb, pooled, taken, late, main>>

Next == \/ /\ main # "exited"
           /\ \/ \E r \in Event : Deliver(r) \/ ReceiveRelease(r) \/ HandlerStep(r)
              \/ \E r \in Event : Submit(r) \/ TakeExpired(r) \/ SubmitAccepts(r)
              \/ Signal \/ MainStep \/ SinkStep
        \/ Finished

(***************************************************************************)
(* Goroutines run, evaluations end and the ticker ticks.  Nothing makes a  *)
(* message or the signal come.                                             *)
(***************************************************************************)
Fairness == /\ \A r \in Event : WF_vars(main # "exited" /\ HandlerStep(r))
            /\ WF_vars(MainStep)
            /\ WF_vars(main # "exited" /\ SinkStep)

Spec == Init /\ [][Next]_vars /\ Fairness

-----------------------------------------------------------------------------
(* Properties *)

(* The values the variables range over. *)
TypeOK ==
    /\ SinkTypeOK
    /\ where \in [Event -> {"out", "buffer", "receive", "submit", "held", "told", "kick", "done"}]
    /\ cb \in Event \cup {NoRequest}
    /\ pooled \subseteq Event /\ taken \subseteq pooled /\ late \subseteq pooled
    /\ \A r \in Event : Busy(r) => (r = cb <=> r \notin pooled)
    /\ main \in {"run", "signalled", "draining", "pool", "sink", "exited"}

(* The limits of a batch are watched: what the sink thinks is pending is   *)
(* what is, never more than maxPending, and when it is enough for a batch  *)
(* the loop does not sleep on it until the next tick: a kick is on its way *)
(* although wake holds only one.                                           *)
Thresholds ==
    /\ size = sizeOf(pending) /\ Len(pending) <= MaxPending
    /\ loop = "select" /\ (Len(pending) >= MaxItems \/ sizeOf(pending) >= MaxSize)
         => wake \/ stop \/ \E r \in Event : where[r] = "kick"

Out == gone \cup lost \cup UNION {Elements(sent[sub]) : sub \in Subjects}

(* When the process ends, everything the pool accepted was answered and    *)
(* its event is out: the sink is closed after the last worker and the      *)
(* sweeper could add to it, and with nothing of theirs left in it.  Except *)
(* for what the callback took out of the queue and had not finished when   *)
(* pool.Close returned, which nobody waits for.                            *)
AuditIsComplete ==
    main = "exited" => \A r \in pooled :
      \/ r \in late \cap taken
      \/ where[r] = "done" /\ (r \in Elements(added) => r \in Out)

(* Without a signal an event does not wait for ever, however few come.     *)
EventsLeave ==
    \A e \in Event : (e \in Elements(pending) /\ ~stop) ~> (e \notin Elements(pending) \/ stop)

(* The shutdown ends. *)
ShutdownEnds == main = "signalled" ~> main = "exited"

(* Every message that reached the inspector was answered, or ignored for a *)
(* reason, when it ends (inspector.conf: "Every path answers").            *)
EveryPathAnswers ==
    main = "exited" => \A r \in Event : where[r] \in {"out", "done"}
=============================================================================
