--------------------------- MODULE ServiceProofs ---------------------------
(***************************************************************************)
(* What is proved of Service, for every set of requests and subjects and   *)
(* every limit of the sink.                                                *)
(***************************************************************************)
EXTENDS Service, SinkProofs

(* Where a request is, and what has become of it.  An event is added once, *)
(* on the way from "told".                                                 *)
Places ==
    /\ \A r \in pooled : where[r] \in {"held", "told", "kick", "done"}
    /\ \A r \in Event : where[r] \notin {"kick", "done"} => r \notin Elements(added)

(* Nobody sleeps on a full batch. *)
Kicked ==
    loop = "select" /\ Full(Len(pending), size)
      => wake \/ stop \/ \E r \in Event : where[r] = "kick"

(* What nobody waits for: it was with the callback when pool.Close came    *)
(* back.                                                                   *)
Left == late \cap taken

(* The order of the shutdown: the sink is told to stop when the pool has   *)
(* nothing left but with the callback, and its loop ends with nothing else *)
(* of the pool's in it.                                                    *)
Ending ==
    /\ stop <=> main \in {"sink", "exited"}
    /\ stop => \A r \in pooled \ Left : where[r] = "done"
    /\ loop \in {"last", "done"} => stop
    /\ loop \in {"select", "done"} => hand = <<>>
    /\ loop = "done" => pooled \cap Elements(pending) \subseteq Left
    /\ main = "exited" => loop = "done"

IInv == TypeOK /\ SinkInv /\ Places /\ Kicked /\ Ending

Steps == {"out", "buffer", "receive", "submit", "held", "told", "kick", "done"}

(* The rest of TypeOK: a busy request is the callback's or the pool's. *)
Hands ==
    /\ where \in [Event -> Steps]
    /\ cb \in Event \cup {NoRequest}
    /\ pooled \subseteq Event /\ taken \subseteq pooled /\ late \subseteq pooled
    /\ \A r \in Event : Busy(r) => (r = cb <=> r \notin pooled)
    /\ main \in {"run", "signalled", "draining", "pool", "sink", "exited"}

LEMMA IInvSplit == IInv <=> SinkInv /\ Hands /\ Places /\ Kicked /\ Ending
BY DEF IInv, SinkInv, TypeOK, Hands, Steps

LEMMA IInvNext == SinkInv' /\ Hands' /\ Places' /\ Kicked' /\ Ending' => IInv'
BY DEF IInv, SinkInv, TypeOK, Hands, Steps, Busy

LEMMA InitIInv == Init => IInv
<1> SUFFICES ASSUME Init PROVE IInv
  OBVIOUS
<1>1. SinkInv
  BY SinkInitInv DEF Init
<1>2. Elements(added) = {} /\ Elements(pending) = {} /\ Len(pending) = 0 /\ size = 0
  BY DEF Init, SinkInit, Elements
<1>3. Hands
  BY DEF Init, Hands, Steps, Busy
<1>4. Places
  BY <1>2 DEF Init, Places
<1>5. Kicked
  BY <1>2, LimitAssumption DEF Kicked, Full
<1>6. Ending
  BY DEF Init, SinkInit, Ending
<1> QED BY <1>1, <1>3, <1>4, <1>5, <1>6, IInvSplit

-----------------------------------------------------------------------------
(* Steps beside the sink *)

LEMMA SinkStays ==
  ASSUME SinkInv, UNCHANGED sinkVars
  PROVE  SinkInv'
<1>1. wake \in BOOLEAN /\ stop \in BOOLEAN /\ loop \in {"select", "flush", "last", "done"}
  BY DEF SinkInv, SinkTypeOK
<1> QED BY <1>1, IdleKeeps DEF sinkVars

(* A request that goes on, without its event being added. *)
LEMMA RequestMoves ==
  ASSUME IInv, NEW r \in Event, UNCHANGED <<sinkVars, taken, late, main>>,
         \/ Deliver(r) \/ Callback(r) \/ ReceiveRelease(r) \/ Submit(r) \/ SubmitAccepts(r)
         \/ Tell(r) \/ TellBare(r)
  PROVE  IInv'
<1>0. SinkInv /\ Hands /\ Places /\ Kicked /\ Ending
  BY IInvSplit
<1>1. SinkInv'
  BY <1>0, SinkStays
<1>2. UNCHANGED <<pending, size, wake, stop, loop, hand, added, taken, late, main>>
  BY DEF sinkVars
<1>3. /\ \E l \in Steps \ {"kick"} : where' = [where EXCEPT ![r] = l]
      /\ where[r] \in {"out", "buffer", "receive", "submit", "held"}
  BY DEF Deliver, Callback, ReceiveRelease, Submit, SubmitAccepts, Tell, TellBare, Unanswered, Goto, Steps
<1>4. Hands'
  <2>1. CASE Deliver(r)
    BY <1>0, <1>2, <2>1 DEF Deliver, Goto, Hands, Busy, Steps
  <2>2. CASE Callback(r)
    BY <1>0, <1>2, <2>2, RequestAssumption DEF Callback, Goto, Hands, Places, Busy, Steps
  <2>3. CASE ReceiveRelease(r)
    BY <1>0, <1>2, <2>3, RequestAssumption DEF ReceiveRelease, Leave, Goto, Hands, Busy, Steps
  <2>4. CASE SubmitAccepts(r)
    BY <1>0, <1>2, <2>4, RequestAssumption DEF SubmitAccepts, Leave, Goto, Hands, Places, Busy, Steps
  <2>5. CASE Tell(r)
    BY <1>0, <1>2, <2>5 DEF Tell, Unanswered, Goto, Hands, Busy, Steps
  <2>6. CASE TellBare(r)
    BY <1>0, <1>2, <2>6, RequestAssumption DEF TellBare, Unanswered, Leave, Goto, Hands, Busy, Steps
  <2>7. CASE Submit(r)
    BY <1>0, <1>2, <2>7 DEF Submit, Goto, Hands, Busy, Steps
  <2> QED BY <2>1, <2>2, <2>3, <2>4, <2>5, <2>6, <2>7
<1>5. \A q \in pooled' : q \in pooled \/ (q = r /\ where' = [where EXCEPT ![r] = "held"] /\ ~PoolClosed)
  BY DEF Deliver, Callback, ReceiveRelease, Submit, SubmitAccepts, Tell, TellBare, Goto
<1>6. Places'
  <2>1. ASSUME NEW q \in pooled'
        PROVE  where'[q] \in {"held", "told", "kick", "done"}
    <3>1. CASE q # r
      BY <1>0, <1>3, <1>5, <3>1 DEF Hands, Places
    <3>2. CASE q = r /\ q \notin pooled
      BY <1>0, <1>5, <3>2 DEF Hands
    <3>3. CASE q = r /\ q \in pooled
      <4>1. where[r] = "held"
        BY <1>0, <1>3, <3>3 DEF Places
      <4>2. where'[r] \in {"told", "done"}
        BY <1>0, <4>1 DEF Deliver, Callback, ReceiveRelease, Submit, SubmitAccepts, Tell, TellBare, Goto, Hands
      <4> QED BY <3>3, <4>2
    <3> QED BY <3>1, <3>2, <3>3
  <2>2. \A q \in Event : where'[q] \notin {"kick", "done"} => q \notin Elements(added')
    BY <1>0, <1>2, <1>3 DEF Hands, Places
  <2> QED BY <2>1, <2>2 DEF Places
<1>7. Kicked'
  <2>1. \A q \in Event : where[q] = "kick" => where'[q] = "kick"
    BY <1>0, <1>3 DEF Hands
  <2> QED BY <1>0, <1>2, <2>1 DEF Kicked, Full
<1>8. Ending'
  <2>1. ASSUME stop
        PROVE  \A q \in pooled' \ Left : where'[q] = "done" /\ q \in pooled
    <3>1. PoolClosed
      BY <1>0, <2>1 DEF Ending, PoolClosed
    <3>2. \A q \in pooled \ Left : where[q] = "done" /\ q # r
      BY <1>0, <1>3, <2>1 DEF Ending
    <3> QED BY <1>0, <1>3, <1>5, <3>1, <3>2 DEF Hands
  <2>2. Left' = Left
    BY <1>2 DEF Left
  <2> QED BY <1>0, <1>2, <2>1, <2>2 DEF Ending
<1> QED BY <1>1, <1>4, <1>6, <1>7, <1>8, IInvNext

(* The callback takes an expired request out of the queue. *)
LEMMA Taking ==
  ASSUME IInv, NEW r \in Event, TakeExpired(r)
  PROVE  IInv'
<1>0. SinkInv /\ Hands /\ Places /\ Kicked /\ Ending
  BY IInvSplit
<1>1. /\ UNCHANGED <<sinkVars, where, cb, pooled, late, main>>
      /\ taken' = taken \cup {r} /\ r \in pooled
  BY DEF TakeExpired
<1>2. UNCHANGED <<pending, size, wake, stop, loop, hand, added>>
  BY <1>1 DEF sinkVars
<1>3. SinkInv'
  BY <1>0, <1>1, SinkStays
<1>4. Hands'
  BY <1>0, <1>1 DEF Hands, Busy
<1>5. Places' /\ Kicked'
  BY <1>0, <1>1, <1>2 DEF Places, Kicked, Full
<1>6. Left \subseteq Left'
  BY <1>1 DEF Left
<1>7. Ending'
  BY <1>0, <1>1, <1>2, <1>6 DEF Ending
<1> QED BY <1>3, <1>4, <1>5, <1>7, IInvNext

(* The shutdown. *)
LEMMA MainMoves ==
  ASSUME IInv, main # "exited", Signal \/ MainStep
  PROVE  IInv'
<1>0. SinkInv /\ Hands /\ Places /\ Kicked /\ Ending
  BY IInvSplit
<1>1. UNCHANGED <<where, cb, pooled, taken, pending, size, dropped, wake, loop, hand, added, sent, gone, lost>>
  BY DEF Signal, MainStep, Drain, ClosePool, CloseSink, Exit, Main, sinkVars, fields, history
<1>2. Hands'
  BY <1>0, <1>1 DEF Signal, MainStep, Drain, ClosePool, CloseSink, Exit, Main, Hands, Busy
<1>3. Places'
  BY <1>0, <1>1 DEF Places
<1>4. stop' = stop \/ stop' = TRUE
  BY DEF Signal, MainStep, Drain, ClosePool, CloseSink, Exit, sinkVars
<1>5. SinkInv'
  <2>1. wake \in BOOLEAN /\ stop \in BOOLEAN /\ loop \in {"select", "flush", "last", "done"}
    BY <1>0 DEF SinkInv, SinkTypeOK
  <2>2. stop' \in BOOLEAN
    BY <1>4, <2>1
  <2> QED BY <1>0, <1>1, <2>1, <2>2, IdleKeeps
<1>6. Kicked'
  BY <1>0, <1>1, <1>4 DEF Kicked, Full
<1>7. Ending'
  <2>1. CASE Signal \/ Drain \/ ClosePool
    <3>1. late' = late /\ stop' = stop /\ main \in {"run", "signalled", "draining"} /\ main' \in {"signalled", "draining", "pool"}
      BY <2>1 DEF Signal, Drain, ClosePool, Main, sinkVars
    <3> QED BY <1>0, <1>1, <3>1 DEF Ending, Left
  <2>2. CASE CloseSink
    <3>1. /\ main = "pool" /\ main' = "sink" /\ stop' = TRUE /\ late' = {r \in pooled : Busy(r)}
          /\ \A r \in pooled \ taken : ~Busy(r)
      BY <2>2 DEF CloseSink, Main
    <3>2. \A r \in pooled \ Left' : where[r] = "done"
      BY <1>0, <1>1, <3>1 DEF Places, Busy, Left
    <3>3. ~stop
      BY <1>0, <3>1 DEF Ending
    <3> QED BY <1>0, <1>1, <3>1, <3>2, <3>3 DEF Ending
  <2>3. CASE Exit
    <3>1. main = "sink" /\ main' = "exited" /\ stop' = stop /\ late' = late /\ loop = "done"
      BY <2>3 DEF Exit, Main, sinkVars
    <3> QED BY <1>0, <1>1, <3>1 DEF Ending, Left
  <2> QED BY <2>1, <2>2, <2>3 DEF MainStep
<1> QED BY <1>2, <1>3, <1>5, <1>6, <1>7, IInvNext

-----------------------------------------------------------------------------
(* Steps of the sink and at it *)

LEMMA EventAdded ==
  ASSUME IInv, NEW r \in Event, Audit(r)
  PROVE  IInv'
<1>0. SinkInv /\ Hands /\ Places /\ Kicked /\ Ending
  BY IInvSplit
<1>1. where[r] = "told" /\ Add(r) /\ UNCHANGED <<pooled, taken, late, main>>
  BY DEF Audit
<1>2. r \notin Elements(added)
  BY <1>0, <1>1 DEF Places
<1>3. SinkInv'
  BY <1>0, <1>1, <1>2, AddKeeps
<1>4. added' = Append(added, r) /\ UNCHANGED <<wake, stop, loop, hand>>
  BY <1>1 DEF Add
<1>5. Elements(added') = Elements(added) \cup {r}
  BY <1>0, <1>4, ElementsAppend DEF SinkInv, SinkTypeOK
<1>6. Elements(pending') \subseteq Elements(pending) \cup {r}
  BY <1>0, <1>1, <1>2, AddCuts
<1>7. \/ where' = [where EXCEPT ![r] = "kick"] /\ cb' = cb
      \/ where' = [where EXCEPT ![r] = "done"] /\ cb' = (IF cb = r THEN NoRequest ELSE cb) /\ ~Full(Len(pending'), size')
  BY DEF Audit, Goto, Leave
<1>8. Hands'
  BY <1>0, <1>1, <1>7, RequestAssumption DEF Hands, Busy, Steps
<1>9. Places'
  BY <1>0, <1>1, <1>5, <1>7 DEF Hands, Places
<1>10. Kicked'
  <2>1. CASE where' = [where EXCEPT ![r] = "kick"]
    <3>1. where'[r] = "kick"
      BY <1>0, <2>1 DEF Hands
    <3> QED BY <3>1 DEF Kicked
  <2>2. CASE ~Full(Len(pending'), size')
    BY <2>2 DEF Kicked, Full
  <2> QED BY <1>7, <2>1, <2>2
<1>11. Ending'
  <2>1. stop => r \notin pooled \ Left
    BY <1>0, <1>1 DEF Ending
  <2>2. \A q \in pooled : where[q] = "done" => where'[q] = "done"
    BY <1>0, <1>1, <1>7 DEF Hands
  <2>3. Left' = Left
    BY <1>1 DEF Left
  <2> QED BY <1>0, <1>1, <1>4, <1>6, <2>1, <2>2, <2>3 DEF Ending
<1> QED BY <1>3, <1>8, <1>9, <1>10, <1>11, IInvNext

LEMMA SinkKicked ==
  ASSUME IInv, NEW r \in Event, Kick(r)
  PROVE  IInv'
<1>0. SinkInv /\ Hands /\ Places /\ Kicked /\ Ending
  BY IInvSplit
<1>1. /\ where[r] = "kick" /\ where' = [where EXCEPT ![r] = "done"]
      /\ cb' = (IF cb = r THEN NoRequest ELSE cb) /\ wake' = TRUE
      /\ UNCHANGED <<pooled, taken, late, main, pending, size, dropped, stop, loop, hand, added, sent, gone, lost>>
  BY DEF Kick, kick, Goto, Leave, fields, history
<1>2. SinkInv'
  <2>1. stop \in BOOLEAN /\ loop \in {"select", "flush", "last", "done"}
    BY <1>0 DEF SinkInv, SinkTypeOK
  <2>2. wake' \in BOOLEAN
    BY <1>1, Zenon
  <2> QED BY <1>0, <1>1, <2>1, <2>2, IdleKeeps
<1>3. Hands'
  BY <1>0, <1>1, RequestAssumption DEF Hands, Busy, Steps
<1>4. Places'
  BY <1>0, <1>1 DEF Hands, Places
<1>5. Kicked'
  BY <1>1 DEF Kicked
<1>6. Ending'
  <2>1. Left' = Left
    BY <1>1 DEF Left
  <2> QED BY <1>0, <1>1, <2>1 DEF Hands, Ending
<1> QED BY <1>2, <1>3, <1>4, <1>5, <1>6, IInvNext

LEMMA LoopMoves ==
  ASSUME IInv, SinkStep
  PROVE  IInv'
<1>0. SinkInv /\ Hands /\ Places /\ Kicked /\ Ending
  BY IInvSplit
<1>1. LoopStep /\ UNCHANGED <<where, cb, pooled, taken, late, main>>
  BY DEF SinkStep
<1>7. Left' = Left
  BY <1>1 DEF Left
<1>2. SinkInv'
  BY <1>0, <1>1, LoopKeeps
<1>3. Hands'
  BY <1>0, <1>1 DEF Hands, Busy
<1>4. UNCHANGED <<added, stop>>
  BY <1>1 DEF LoopStep, LoopStop, LoopWake, LoopTick, FlushTake, FlushEnd, SendOK, SendFails, history
<1>5. Places'
  BY <1>0, <1>1, <1>4 DEF Places
<1>6. Kicked' /\ Ending'
  <2>1. CASE LoopStop
    BY <1>0, <1>1, <1>7, <2>1 DEF LoopStop, fields, Kicked, Ending
  <2>2. CASE LoopWake \/ LoopTick
    BY <1>0, <1>1, <1>7, <2>2 DEF LoopWake, LoopTick, fields, Kicked, Ending
  <2>3. CASE FlushTake
    BY <1>0, <1>1, <1>7, <2>3 DEF FlushTake, Flushing, Kicked, Ending
  <2>4. CASE FlushEnd
    <3>1. /\ loop \in {"flush", "last"} /\ hand = <<>> /\ pending = <<>> /\ loop' = (IF loop = "last" THEN "done" ELSE "select")
          /\ UNCHANGED <<pending, size, hand>>
      BY <2>4 DEF FlushEnd, Flushing, fields
    <3>2. Len(pending) = 0 /\ size = 0 /\ Elements(pending) = {}
      BY <1>0, <3>1, SizeEmpty DEF SinkInv, Sized, Elements
    <3>3. Kicked'
      BY <3>1, <3>2, LimitAssumption DEF Kicked, Full
    <3>4. Ending'
      BY <1>0, <1>1, <1>7, <1>4, <3>1, <3>2 DEF Ending
    <3> QED BY <3>3, <3>4
  <2>5. CASE SendOK \/ SendFails
    <3>1. hand # <<>> /\ UNCHANGED <<pending, size, wake, stop, loop>>
      BY <2>5 DEF SendOK, SendFails, fields
    <3>2. loop \in {"flush", "last"}
      BY <1>0, <3>1 DEF Ending, SinkInv, SinkTypeOK
    <3> QED BY <1>0, <1>1, <1>7, <3>1, <3>2 DEF Kicked, Ending
  <2> QED BY <1>1, <2>1, <2>2, <2>3, <2>4, <2>5 DEF LoopStep
<1> QED BY <1>2, <1>3, <1>5, <1>6, IInvNext

LEMMA NextIInv == IInv /\ [Next]_vars => IInv'
<1> SUFFICES ASSUME IInv, [Next]_vars PROVE IInv'
  OBVIOUS
<1>1. ASSUME NEW r \in Event,
             \/ Deliver(r) \/ Callback(r) \/ ReceiveRelease(r) \/ Submit(r) \/ SubmitAccepts(r)
             \/ Tell(r) \/ TellBare(r)
      PROVE  IInv'
  <2>1. UNCHANGED <<sinkVars, taken, late, main>>
    BY <1>1 DEF Deliver, Callback, ReceiveRelease, Submit, SubmitAccepts, Tell, TellBare
  <2> QED BY <1>1, <2>1, RequestMoves
<1>2. CASE Finished \/ UNCHANGED vars
  <2>1. UNCHANGED <<sinkVars, where, cb, pooled, taken, late, main>>
    BY <1>2 DEF Finished, vars, sinkVars
  <2>2. SinkInv'
    BY <2>1, SinkStays, IInvSplit
  <2>3. Hands' /\ Places' /\ Kicked' /\ Ending'
    BY <2>1, IInvSplit DEF Hands, Places, Kicked, Ending, Left, Busy, sinkVars
  <2> QED BY <2>2, <2>3, IInvNext
<1> QED BY <1>1, <1>2, Taking, MainMoves, EventAdded, SinkKicked, LoopMoves DEF Next, HandlerStep

-----------------------------------------------------------------------------
(* The theorems *)

(* The inductive invariant holds in every behaviour of callback, workers,  *)
(* sink and main, wherever the signal falls.                               *)
THEOREM Invariance == Spec => []IInv
BY InitIInv, NextIInv, PTL DEF Spec

(* The variables keep their types, and a request that is being worked on   *)
(* is in the hands of the callback or of the pool and not of both.         *)
THEOREM TypeCorrect == Spec => []TypeOK
<1>1. IInv => TypeOK
  BY DEF IInv
<1> QED BY <1>1, Invariance, PTL

(* Sink.Add, flush and publish lose, double and reorder nothing, whatever  *)
(* the limits and however the goroutines interleave: under each subject,   *)
(* what was published, what is on its way and what waits is what was       *)
(* added, without what was cut off and counted and what the bus refused.   *)
THEOREM ConservedAlways == Spec => []Conserved
<1>1. IInv => Conserved
  BY InvIsConserved DEF IInv
<1> QED BY <1>1, Invariance, PTL

(* The size kept beside the list is the size of the list, the list is      *)
(* within its limit, and a full batch is never left to the next tick.      *)
THEOREM ThresholdsAlways == Spec => []Thresholds
<1>1. IInv => Thresholds
  BY DEF IInv, SinkInv, Sized, Kicked, Full, Thresholds
<1> QED BY <1>1, Invariance, PTL

(* When run returns, everything the pool accepted was answered, and what   *)
(* was audited of it has left the sink; except for requests the callback   *)
(* took out of the queue as expired and still had in hand when pool.Close, *)
(* which waits for workers and sweeper only, came back.                    *)
THEOREM AuditIsCompleteAlways == Spec => []AuditIsComplete
<1>1. ASSUME IInv, main = "exited", NEW r \in pooled \ Left
      PROVE  where[r] = "done" /\ (r \in Elements(added) => r \in Out)
  <2>0. SinkInv /\ Hands /\ Ending
    BY <1>1, IInvSplit
  <2>1. where[r] = "done" /\ hand = <<>> /\ r \notin Elements(pending)
    BY <1>1, <2>0 DEF Ending
  <2>2. ASSUME r \in Elements(added), r \notin gone \cup lost
        PROVE  r \in Out
    <3> DEFINE sub == Subject[r]
               x == sent[sub]
               u == Under(hand, sub)
               v == Under(pending, sub)
    <3>1. r \in Event /\ sub \in Subjects /\ r \in Of(sub)
      BY <1>1, <2>0 DEF Hands, Subjects, Of
    <3>2. /\ added \in Seq(Event) /\ hand \in Seq(Event) /\ pending \in Seq(Event) /\ x \in Seq(Event)
      BY <2>0, <3>1 DEF SinkInv, SinkTypeOK
    <3>3. (x \o u) \o v = Filter(added, Of(sub) \ (gone \cup lost))
      BY <2>0, <3>1 DEF SinkInv, Kept
    <3>4. r \in Elements(Filter(added, Of(sub) \ (gone \cup lost)))
      BY <2>2, <3>1, <3>2, FilterElements
    <3>5. u \in Seq(Event) /\ v \in Seq(Event)
      BY <3>2, FilterType DEF Under
    <3>6. Elements(u) \subseteq Elements(hand) /\ Elements(v) \subseteq Elements(pending)
      <4>1. Elements(Filter(hand, Of(sub))) = Elements(hand) \cap Of(sub)
        BY <3>2, FilterElements
      <4>2. Elements(Filter(pending, Of(sub))) = Elements(pending) \cap Of(sub)
        BY <3>2, FilterElements
      <4> QED BY <4>1, <4>2 DEF Under
    <3>7. Elements(hand) = {}
      BY <2>1 DEF Elements
    <3> HIDE DEF sub, x, u, v
    <3>8. x \o u \in Seq(Event) /\ Elements(x \o u) = Elements(x) \cup Elements(u)
      BY <3>2, <3>5, ElementsConcat
    <3>9. Elements((x \o u) \o v) = Elements(x \o u) \cup Elements(v)
      BY <3>5, <3>8, ElementsConcat
    <3>10. r \in Elements(x)
      BY <2>1, <3>3, <3>4, <3>6, <3>7, <3>8, <3>9
    <3> QED BY <3>1, <3>10 DEF Out, x
  <2> QED BY <2>1, <2>2 DEF Out
<1>2. IInv => AuditIsComplete
  BY <1>1 DEF AuditIsComplete, Left
<1> QED BY <1>2, Invariance, PTL
=============================================================================
