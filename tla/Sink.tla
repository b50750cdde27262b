-------------------------------- MODULE Sink --------------------------------
(***************************************************************************)
(* internal/audit/sink.go: audit events wait in a list and go out in       *)
(* batches, one per subject.  Whoever answers a request calls Add; one     *)
(* goroutine (loop) takes what has gathered, under the mutex, and          *)
(* publishes it outside.  A critical section is one action.                *)
(***************************************************************************)
EXTENDS Integers, FiniteSets, Sequences

CONSTANTS
    Event,         \* the events that may be added, each once
    Subject,       \* the AuditSubject of the request of an event
    Size,          \* len(body) + 2
    MaxItems,      \* maxItems
    MaxSize,       \* maxSize
    MaxPending,    \* maxPending
    MaxLost        \* bound: no batch fails once as many events are lost

ASSUME EventAssumption ==
    Size \in [Event -> Nat] /\ DOMAIN Subject = Event
ASSUME LimitAssumption ==
    /\ MaxItems \in Nat \ {0} /\ MaxSize \in Nat \ {0}
    /\ MaxPending \in Nat /\ MaxPending >= MaxItems /\ MaxLost \in Nat

VARIABLES
    pending, size, dropped,   \* the fields under mu
    wake,          \* something is in the channel wake, of capacity one
    stop,          \* the channel stop is closed
    loop,          \* where the goroutine is; done is closed at "done"
    hand,          \* what is left of take while publish goes through it
    added,         \* history: the events in the order they were added
    sent,          \* history: what went out under each subject, in order
    gone, lost     \* history: cut off in Add; in a batch that was not sent

fields == <<pending, size, dropped>>
history == <<added, sent, gone, lost>>
sinkVars == <<pending, size, dropped, wake, stop, loop, hand, added, sent, gone, lost>>

Subjects == {Subject[e] : e \in Event}

Elements(s) == {s[i] : i \in DOMAIN s}
Of(sub) == {e \in Event : Subject[e] = sub}

(* What of the items is in S, in their order. *)
Filter(items, S) ==
    LET kept[i \in 0..Len(items)] ==
          IF i = 0 THEN <<>>
          ELSE IF items[i] \in S THEN Append(kept[i-1], items[i]) ELSE kept[i-1]
    IN  kept[Len(items)]

Under(s, sub) == Filter(s, Of(sub))

sizeOf(items) ==
    LET sum[i \in 0..Len(items)] == IF i = 0 THEN 0 ELSE sum[i-1] + Size[items[i]]
    IN  sum[Len(items)]

-----------------------------------------------------------------------------
(* Add *)

(* Above maxPending the oldest are cut off and counted. *)
Add(e) ==
    LET all == Append(pending, e)
        cut == IF Len(all) > MaxPending THEN Len(all) - MaxPending ELSE 0 IN
    /\ pending' = SubSeq(all, cut + 1, Len(all))
    /\ dropped' = dropped + cut
    /\ size' = IF cut > 0 THEN sizeOf(pending') ELSE size + Size[e]
    /\ added' = Append(added, e)
    /\ gone' = gone \cup Elements(SubSeq(all, 1, cut))
    /\ UNCHANGED <<wake, stop, loop, hand, sent, lost>>

(* What Add decides under the lock, and does after it. *)
Full_countOnly(n, s) == n >= MaxItems
Full(n, s) == n >= MaxItems \/ s >= MaxSize

kick ==
    /\ wake' = TRUE
    /\ UNCHANGED <<fields, stop, loop, hand, history>>

-----------------------------------------------------------------------------
(* loop: select takes any of the three that is ready *)

LoopStop ==
    /\ loop = "select" /\ stop
    /\ loop' = "last"
    /\ UNCHANGED <<fields, wake, stop, hand, history>>

LoopWake ==
    /\ loop = "select" /\ wake
    /\ wake' = FALSE
    /\ loop' = "flush"
    /\ UNCHANGED <<fields, stop, hand, history>>

(* A tick with nothing pending changes nothing. *)
LoopTick_whenFull ==
    /\ loop = "select" /\ pending # <<>> /\ Full(Len(pending), size)
    /\ loop' = "flush"
    /\ UNCHANGED <<fields, wake, stop, hand, history>>
LoopTick ==
    /\ loop = "select" /\ pending # <<>>
    /\ loop' = "flush"
    /\ UNCHANGED <<fields, wake, stop, hand, history>>

(* flush: it takes and publishes until nothing is pending. *)
Flushing == loop \in {"flush", "last"} /\ hand = <<>>

FlushTake ==
    LET n == IF Len(pending) > MaxItems THEN MaxItems ELSE Len(pending) IN
    /\ Flushing /\ pending # <<>>
    /\ hand' = SubSeq(pending, 1, n)
    /\ pending' = SubSeq(pending, n + 1, Len(pending))
    /\ size' = sizeOf(pending')
    /\ UNCHANGED <<dropped, wake, stop, loop, history>>

FlushEnd ==
    /\ Flushing /\ pending = <<>>
    /\ loop' = IF loop = "last" THEN "done" ELSE "select"
    /\ UNCHANGED <<fields, wake, stop, hand, history>>

(* publish, one subject after the other in the order they first appear;    *)
(* an error of the bus is logged and the batch is gone.                    *)
Batch == Under(hand, Subject[hand[1]])
Rest == Filter(hand, Event \ Of(Subject[hand[1]]))

SendOK ==
    /\ hand # <<>>
    /\ sent' = [sent EXCEPT ![Subject[hand[1]]] = @ \o Batch]
    /\ hand' = Rest
    /\ UNCHANGED <<fields, wake, stop, loop, added, gone, lost>>

SendFails_givesUp ==
    /\ hand # <<>> /\ Cardinality(lost) < MaxLost
    /\ lost' = lost \cup Elements(Batch)
    /\ hand' = <<>>
    /\ UNCHANGED <<fields, wake, stop, loop, added, sent, gone>>
SendFails ==
    /\ hand # <<>> /\ Cardinality(lost) < MaxLost
    /\ lost' = lost \cup Elements(Batch)
    /\ hand' = Rest
    /\ UNCHANGED <<fields, wake, stop, loop, added, sent, gone>>

-----------------------------------------------------------------------------
SinkInit ==
    /\ pending = <<>> /\ size = 0 /\ dropped = 0
    /\ wake = FALSE /\ stop = FALSE
    /\ loop = "select" /\ hand = <<>>
    /\ added = <<>> /\ sent = [s \in Subjects |-> <<>>]
    /\ gone = {} /\ lost = {}

LoopStep == LoopStop \/ LoopWake \/ LoopTick \/ FlushTake \/ FlushEnd \/ SendOK \/ SendFails

-----------------------------------------------------------------------------
(* Properties *)

SinkTypeOK ==
    /\ pending \in Seq(Event) /\ size \in Nat /\ dropped \in Nat
    /\ wake \in BOOLEAN /\ stop \in BOOLEAN
    /\ loop \in {"select", "flush", "last", "done"}
    /\ hand \in Seq(Event) /\ Len(hand) <= MaxItems
    /\ added \in Seq(Event) /\ sent \in [Subjects -> Seq(Event)]
    /\ gone \subseteq Event /\ lost \subseteq Event

(* No event is forgotten, doubled or overtaken: under each subject what    *)
(* went out, what is on its way and what is pending are, in this order,    *)
(* the events that were added, but for those cut off, each of which was    *)
(* counted, and those of batches the bus did not take.                     *)
Conserved ==
    /\ dropped = Cardinality(gone)
    /\ \A sub \in Subjects :
         sent[sub] \o Under(hand, sub) \o Under(pending, sub)
           = Filter(added, Of(sub) \ (gone \cup lost))
=============================================================================
