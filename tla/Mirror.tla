------------------------------- MODULE Mirror -------------------------------
(***************************************************************************)
(* internal/livelist: the copy of one live list.  A keeper outside this    *)
(* repository owns the list: it numbers the changes within an epoch, puts  *)
(* each change as a package into Redis under its number (and NOT under its *)
(* epoch), announces it in a frame on NATS, repeats the current number in  *)
(* ticks and gives out snapshots on request.  Frames get lost, packages    *)
(* expire, and a keeper that lost its state starts a new epoch.            *)
(*                                                                         *)
(* One goroutine per list runs run: it takes frames from a bounded channel *)
(* and reads packages and snapshots while the keeper moves on.  Requests   *)
(* look into comp between any two of its steps.                            *)
(***************************************************************************)
EXTENDS Integers, FiniteSets, Sequences

CONSTANTS
    Width,         \* bits of an address
    MaxExpiry,     \* bound: the last moment a record expires at
    MaxEpoch,      \* bound: epochs of the keeper
    MaxSeq,        \* bound: changes within an epoch
    Content,       \* the list after change s of epoch e: Content[e][s]
                   \* maps its networks to the moment they expire, 0 = never
    BadEpoch,      \* epochs whose records do not add up to the keeper's hash
    QueueDepth,    \* queueDepth, of the channel
    PackagesPerRead

Epoch == 1..MaxEpoch
Time == 0..MaxExpiry

(***************************************************************************)
(* A network is the leading bits of its addresses.  A list of single       *)
(* values is one whose elements all have the full length.                  *)
(***************************************************************************)
Bits(b) == [1..b -> {0, 1}]
Address == Bits(Width)
Prefix == UNION {Bits(b) : b \in 0..Width}
List == UNION {[S -> Time] : S \in SUBSET Prefix}

ASSUME BoundAssumption ==
    /\ MaxEpoch \in Nat \ {0} /\ MaxSeq \in Nat
    /\ Width \in Nat /\ MaxExpiry \in Nat
    /\ QueueDepth \in Nat \ {0} /\ PackagesPerRead \in Nat \ {0}
ASSUME ContentAssumption ==
    /\ \A e \in Epoch, s \in 0..MaxSeq : Content[e][s] \in List
    /\ BadEpoch \subseteq Epoch

VARIABLES
    kepoch, kseq,   \* the keeper's position
    pkg,            \* packages in Redis: number -> epoch, 0 when gone
    chan,           \* st.in
    ready, epoch, seq, comp, snapBad,   \* the mirrored set
    pc,             \* where the goroutine is
    ref,            \* the snapshot object it was given
    upto, batch     \* the target of catchUp and the packages it has read

keeper == <<kepoch, kseq, pkg>>
set == <<ready, epoch, seq, comp, snapBad>>
vars == <<kepoch, kseq, pkg, chan, ready, epoch, seq, comp, snapBad, pc, ref, upto, batch>>

-----------------------------------------------------------------------------
(* composition *)

(***************************************************************************)
(* The composition is a map of networks to expiries, and a count of the    *)
(* networks of every length, which says where a look-up has to look.  The  *)
(* hash is over the networks alone: it stands for their set.               *)
(***************************************************************************)
newComposition == [nets |-> [p \in {} |-> 0], lens |-> [b \in 0..Width |-> 0]]

Hash(list) == DOMAIN list

OfLength(S, b) == Cardinality(S \cap Bits(b))

(* composition.apply for the records of one object, each about another     *)
(* network: adds maps what it adds to its expiry, dels is what it removes. *)
(* Adding what is there renews its expiry.                                 *)
apply(c, adds, dels) ==
    LET had == DOMAIN c.nets IN
    [nets |-> [p \in (had \ dels) \cup DOMAIN adds |->
                 IF p \in DOMAIN adds THEN adds[p] ELSE c.nets[p]],
     lens |-> [b \in 0..Width |->
                 c.lens[b] + OfLength(DOMAIN adds \ had, b) - OfLength(dels \cap had, b)]]

(* The records of package s of epoch e: what is new or has a new expiry,   *)
(* and what is gone.                                                       *)
Adds(e, s) ==
    LET old == Content[e][s-1]
        new == Content[e][s] IN
    [p \in {p \in DOMAIN new : p \in DOMAIN old => new[p] # old[p]} |-> new[p]]
Dels(e, s) == DOMAIN Content[e][s-1] \ DOMAIN Content[e][s]

(* The records of a snapshot; those of a bad epoch are something else. *)
Decoded(e, s) == IF e \in BadEpoch THEN [p \in Prefix \ DOMAIN Content[e][s] |-> 0]
                                   ELSE Content[e][s]

alive(exp, t) == exp = 0 \/ exp > t

masked(a, b) == [i \in 1..b |-> a[i]]

(* containsAddr: every length in use is looked up, an expired hit is none. *)
containsAddr(c, a, t) ==
    \E b \in 0..Width :
      /\ c.lens[b] # 0
      /\ masked(a, b) \in DOMAIN c.nets
      /\ alive(c.nets[masked(a, b)], t)

(* What a request gets to know of an address at moment t. *)
Contains(a, t) == ready /\ containsAddr(comp, a, t)

-----------------------------------------------------------------------------
(* The keeper, and what happens on the way *)

(* The subscription's callback: a frame is lost, or finds the channel full *)
(* and is dropped, or is queued.                                           *)
Deliver_offByOne(f) == Len(chan) <= QueueDepth /\ chan' = Append(chan, f)
Deliver(f) == Len(chan) < QueueDepth /\ chan' = Append(chan, f)
Publish(f) == UNCHANGED chan \/ Deliver(f)

Frame(op, e, s, inline) == [op |-> op, epoch |-> e, seq |-> s, inline |-> inline]

KeeperChange ==
    /\ kseq < MaxSeq
    /\ kseq' = kseq + 1
    /\ pkg' = [pkg EXCEPT ![kseq + 1] = kepoch]
    /\ \E inline \in BOOLEAN : Publish(Frame("diff", kepoch, kseq + 1, inline))
    /\ UNCHANGED <<kepoch, set, pc, ref, upto, batch>>

KeeperTick ==
    /\ Deliver(Frame("tick", kepoch, kseq, FALSE))
    /\ UNCHANGED <<keeper, set, pc, ref, upto, batch>>

KeeperRestart ==
    /\ kepoch < MaxEpoch
    /\ kepoch' = kepoch + 1
    /\ kseq' = 0
    /\ UNCHANGED <<pkg, chan, set, pc, ref, upto, batch>>

PackageGone(s) ==
    /\ pkg[s] # 0
    /\ pkg' = [pkg EXCEPT ![s] = 0]
    /\ UNCHANGED <<kepoch, kseq, chan, set, pc, ref, upto, batch>>

(* resync: a set that has nothing yet is asked to try again *)
Resync ==
    /\ ~ready
    /\ Deliver(Frame("resync", 0, 0, FALSE))
    /\ UNCHANGED <<keeper, set, pc, ref, upto, batch>>

-----------------------------------------------------------------------------
(* snapshot *)

(* The entry of snapshot: a set known to be bad is not asked for again. *)
snapshot_always == pc' = "request"
snapshot == pc' = IF snapBad THEN "idle" ELSE "request"

RequestOK ==
    /\ pc = "request"
    /\ ref' = <<kepoch, kseq>>
    /\ pc' = "object"
    /\ UNCHANGED <<keeper, chan, set, upto, batch>>

(* no answer, a refusal, an object that is gone, unreadable or malformed *)
SnapshotFails ==
    /\ pc \in {"request", "object"}
    /\ pc' = "idle"
    /\ UNCHANGED <<keeper, chan, set, ref, upto, batch>>

ObjectOK ==
    /\ pc = "object"
    /\ ready' = TRUE
    /\ epoch' = ref[1]
    /\ seq' = ref[2]
    /\ comp' = apply(newComposition, Decoded(ref[1], ref[2]), {})
    /\ snapBad' = (Hash(comp'.nets) # Hash(Content[ref[1]][ref[2]]))
    /\ pc' = "idle"
    /\ UNCHANGED <<keeper, chan, ref, upto, batch>>

-----------------------------------------------------------------------------
(* Packages *)

(* verify: the list must be the one of (e, s), or a snapshot is taken *)
verify(c, e, s, next) == IF Hash(c.nets) = Hash(Content[e][s]) THEN pc' = next ELSE snapshot

(* applyPackage for number seq + 1, read from epoch e *)
applyPackage_anyEpoch(e, next) ==
    /\ comp' = apply(comp, Adds(e, seq + 1), Dels(e, seq + 1))
    /\ seq' = seq + 1
    /\ verify(comp', e, seq + 1, next)
applyPackage(e, next) ==
    IF e # epoch
      THEN snapshot /\ UNCHANGED <<comp, seq>>
      ELSE /\ comp' = apply(comp, Adds(e, seq + 1), Dels(e, seq + 1))
           /\ seq' = seq + 1
           /\ verify(comp', e, seq + 1, next)

(* catchUp: the end of its loop, a read of the next packages, a failed one *)
CatchUpDone ==
    /\ pc = "read" /\ seq >= upto
    /\ verify(comp, epoch, upto, "idle")
    /\ UNCHANGED <<keeper, chan, set, ref, upto, batch>>

CatchUpRead ==
    LET n == IF upto - seq > PackagesPerRead THEN PackagesPerRead ELSE upto - seq IN
    /\ pc = "read" /\ seq < upto
    /\ batch' = [i \in 1..n |-> pkg[seq + i]]
    /\ pc' = "apply"
    /\ UNCHANGED <<keeper, chan, set, ref, upto>>

CatchUpFails ==
    /\ pc = "read" /\ seq < upto
    /\ pc' = "idle"
    /\ UNCHANGED <<keeper, chan, set, ref, upto, batch>>

(* "package gone, taking a snapshot" *)
PackageMissing_skips ==
    /\ pc = "apply" /\ Head(batch) = 0
    /\ pc' = "idle"
    /\ batch' = <<>>
    /\ UNCHANGED <<keeper, chan, set, ref, upto>>
PackageMissing ==
    /\ pc = "apply" /\ Head(batch) = 0
    /\ snapshot
    /\ batch' = <<>>
    /\ UNCHANGED <<keeper, chan, set, ref, upto>>

CatchUpApply ==
    /\ pc = "apply" /\ Head(batch) # 0
    /\ applyPackage(Head(batch), IF Len(batch) > 1 THEN "apply" ELSE "read")
    /\ batch' = IF pc' = "apply" THEN Tail(batch) ELSE <<>>
    /\ UNCHANGED <<keeper, chan, ready, epoch, snapBad, ref, upto>>

-----------------------------------------------------------------------------
(* onFrame *)

Take == pc = "idle" /\ chan # <<>> /\ chan' = Tail(chan)

FrameNotReady ==
    /\ Take /\ ~ready
    /\ snapshot
    /\ UNCHANGED <<keeper, set, ref, upto, batch>>

FrameOfEpoch == Take /\ ready /\ Head(chan).epoch = epoch

(* A frame the set has passed, or a resync it does not need any more *)
FrameIgnored ==
    /\ \/ Take /\ ready /\ Head(chan).op = "resync"
       \/ FrameOfEpoch /\ Head(chan).seq < seq
    /\ UNCHANGED <<keeper, set, pc, ref, upto, batch>>

FrameNewEpoch ==
    /\ Take /\ ready /\ Head(chan).op # "resync" /\ Head(chan).epoch # epoch
    /\ snapBad' = FALSE
    /\ pc' = "request"
    /\ UNCHANGED <<keeper, ready, epoch, seq, comp, ref, upto, batch>>

FrameSame ==
    /\ FrameOfEpoch /\ Head(chan).seq = seq
    /\ verify(comp, epoch, seq, "idle")
    /\ UNCHANGED <<keeper, set, ref, upto, batch>>

FrameInline ==
    /\ FrameOfEpoch /\ Head(chan).inline /\ Head(chan).seq = seq + 1
    /\ applyPackage(Head(chan).epoch, "idle")
    /\ UNCHANGED <<keeper, ready, epoch, snapBad, ref, upto, batch>>

FrameAhead ==
    /\ FrameOfEpoch /\ Head(chan).seq > seq
    /\ ~(Head(chan).inline /\ Head(chan).seq = seq + 1)
    /\ upto' = Head(chan).seq
    /\ pc' = "read"
    /\ UNCHANGED <<keeper, set, ref, batch>>

-----------------------------------------------------------------------------
(* run begins with a snapshot. *)
Init ==
    /\ kepoch = 1 /\ kseq = 0
    /\ pkg = [s \in 1..MaxSeq |-> 0]
    /\ chan = <<>>
    /\ ready = FALSE /\ epoch = 0 /\ seq = 0 /\ comp = newComposition /\ snapBad = FALSE
    /\ pc = "request"
    /\ ref = <<0, 0>>
    /\ upto = 0 /\ batch = <<>>

OnFrame == \/ FrameNotReady \/ FrameIgnored \/ FrameNewEpoch
           \/ FrameSame \/ FrameInline \/ FrameAhead
CatchUp == CatchUpDone \/ CatchUpRead \/ CatchUpFails \/ PackageMissing \/ CatchUpApply
MirrorStep == OnFrame \/ CatchUp \/ RequestOK \/ SnapshotFails \/ ObjectOK
KeeperStep == KeeperChange \/ KeeperRestart \/ \E s \in 1..MaxSeq : PackageGone(s)

Next == MirrorStep \/ KeeperStep \/ KeeperTick \/ Resync

(***************************************************************************)
(* The goroutine runs; the keeper goes on ticking and some tick gets       *)
(* through; a snapshot or a read that is tried again and again succeeds.   *)
(***************************************************************************)
Fairness == /\ WF_vars(MirrorStep) /\ WF_vars(Resync) /\ SF_vars(KeeperTick)
            /\ SF_vars(RequestOK) /\ SF_vars(ObjectOK) /\ SF_vars(CatchUpRead)

Spec == Init /\ [][Next]_vars /\ Fairness

-----------------------------------------------------------------------------
(* Properties *)

Composition == [nets : List, lens : [0..Width -> Nat]]
FrameType == [op : {"diff", "tick", "resync"}, epoch : 0..MaxEpoch, seq : 0..MaxSeq,
              inline : BOOLEAN]

(* The values the variables range over. *)
TypeOK ==
    /\ kepoch \in Epoch /\ kseq \in 0..MaxSeq
    /\ pkg \in [1..MaxSeq -> 0..MaxEpoch]
    /\ chan \in Seq(FrameType) /\ Len(chan) <= QueueDepth
    /\ ready \in BOOLEAN /\ snapBad \in BOOLEAN
    /\ epoch \in 0..MaxEpoch /\ seq \in 0..MaxSeq
    /\ comp \in Composition
    /\ pc \in {"idle", "request", "object", "read", "apply"}
    /\ ref \in (0..MaxEpoch) \X (0..MaxSeq)
    /\ upto \in 0..MaxSeq
    /\ batch \in Seq(0..MaxEpoch) /\ seq + Len(batch) <= MaxSeq

(* The list holds an address at moment t. *)
Holds(list, a, t) ==
    \E p \in DOMAIN list :
      /\ \A i \in DOMAIN p : a[i] = p[i]
      /\ alive(list[p], t)

(* What a request sees, at whatever moment it looks, is the keeper's list  *)
(* at the point the mirror says it is at, in every state between two       *)
(* packages: no package of another epoch and none out of turn reaches the  *)
(* composition, a renewed record lives on (the hash would not tell), and   *)
(* an expired network does not hide a wider one that is alive.             *)
Faithful ==
    ready /\ epoch \notin BadEpoch =>
      \A a \in Address, t \in Time : Contains(a, t) <=> Holds(Content[epoch][seq], a, t)

(* A set whose snapshot did not add up is not asked for again until the    *)
(* keeper shows another epoch.                                             *)
NoStorm == snapBad => pc \notin {"request", "object"}

(* When the keeper comes to rest, the mirror has its list in the end,      *)
(* whatever was lost, gone or bad before.                                  *)
Converges ==
    <>[](kepoch \notin BadEpoch =>
           ready /\ epoch = kepoch /\ seq = kseq /\ comp.nets = Content[kepoch][kseq])
=============================================================================
