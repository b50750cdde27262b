---------------------------- MODULE MirrorProofs ----------------------------
(***************************************************************************)
(* Theorems about Mirror, for addresses of any width, any history of the   *)
(* keeper's list in any number of epochs, good or bad, and any depth of    *)
(* the channel.                                                            *)
(***************************************************************************)
EXTENDS Mirror, FunctionTheorems, FiniteSetTheorems, SequenceTheorems, TLAPS

Safe == Init /\ [][Next]_vars

(* Where the goroutine is tells what it holds. *)
Stage ==
    /\ ready => epoch \in Epoch
    /\ pc = "object" => ref[1] \in Epoch
    /\ pc = "apply" <=> batch # <<>>
    /\ pc \in {"read", "apply"} => ready

(* The counts by length are those of the networks, whatever was applied. *)
Counts(c) == \A b \in 0..Width : c.lens[b] = OfLength(DOMAIN c.nets, b)
Counted == Counts(comp)

(* The composition of a good epoch is the keeper's list, expiries too. *)
SameList == ready /\ epoch \notin BadEpoch => comp.nets = Content[epoch][seq]

IInv == TypeOK /\ Stage /\ Counted /\ SameList /\ NoStorm

-----------------------------------------------------------------------------
(* Lists and their compositions *)

(* A string of bits is told by the places of its ones. *)
LEMMA BitsFinite == ASSUME NEW b \in Nat PROVE IsFiniteSet(Bits(b))
<1> DEFINE ones == [p \in Bits(b) |-> {i \in 1..b : p[i] = 1}]
<1>1. IsFiniteSet(SUBSET (1..b))
  <2>1. IsFiniteSet(1..b)
    BY FS_Interval
  <2> QED BY <2>1, FS_SUBSET
<1>2. ones \in [Bits(b) -> SUBSET (1..b)]
  OBVIOUS
<1>3. ASSUME NEW p \in Bits(b), NEW r \in Bits(b), ones[p] = ones[r] PROVE p = r
  <2>1. \A i \in 1..b : p[i] = 1 <=> r[i] = 1
    BY <1>3
  <2>2. \A i \in 1..b : p[i] = r[i]
    BY <2>1 DEF Bits
  <2> QED BY <2>2 DEF Bits
<1>4. ones \in Injection(Bits(b), SUBSET (1..b))
  BY <1>2, <1>3 DEF Injection, IsInjective
<1> QED BY <1>1, <1>4, FS_Injection

LEMMA PrefixFinite == IsFiniteSet(Prefix)
<1> DEFINE Lengths == {Bits(b) : b \in 0..Width}
           bits == [b \in 0..Width |-> Bits(b)]
<1>1. bits \in Surjection(0..Width, Lengths)
  BY DEF Surjection
<1>2. IsFiniteSet(0..Width)
  BY BoundAssumption, FS_Interval
<1>3. IsFiniteSet(Lengths)
  BY <1>1, <1>2, FS_Surjection
<1>4. \A S \in Lengths : IsFiniteSet(S)
  BY BitsFinite, BoundAssumption
<1> QED BY <1>3, <1>4, FS_UNION DEF Prefix

LEMMA ListType ==
  ASSUME NEW list
  PROVE  list \in List <=> /\ list \in [DOMAIN list -> Time]
                           /\ DOMAIN list \subseteq Prefix
BY DEF List

LEMMA ListFinite == ASSUME NEW list \in List PROVE IsFiniteSet(DOMAIN list)
BY ListType, PrefixFinite, FS_Subset

(* A length is in use when some network has it. *)
LEMMA LengthInUse ==
  ASSUME NEW list \in List, NEW b \in 0..Width
  PROVE  /\ OfLength(DOMAIN list, b) \in Nat
         /\ OfLength(DOMAIN list, b) # 0 <=> \E p \in DOMAIN list : p \in Bits(b)
<1>1. IsFiniteSet(DOMAIN list \cap Bits(b))
  BY ListFinite, FS_Intersection
<1> QED BY <1>1, FS_CardinalityType, FS_EmptySet DEF OfLength

(* What records of different networks do to a count: the new ones come,    *)
(* and the removed ones that were there go.                                *)
LEMMA CountAfter ==
  ASSUME NEW H, IsFiniteSet(H), NEW A, IsFiniteSet(A), NEW D, A \cap D = {}
  PROVE  Cardinality((H \ D) \cup A)
           = Cardinality(H) + Cardinality(A \ H) - Cardinality(D \cap H)
<1>1. /\ IsFiniteSet(H \ D) /\ IsFiniteSet(A \ H) /\ IsFiniteSet(H \cap D)
      /\ Cardinality(H \ D) = Cardinality(H) - Cardinality(H \cap D)
  BY FS_Difference, FS_Intersection
<1>2. /\ (H \ D) \cup A = (H \ D) \cup (A \ H)
      /\ (H \ D) \cap (A \ H) = {}
      /\ H \cap D = D \cap H
  OBVIOUS
<1>3. Cardinality((H \ D) \cup (A \ H))
        = Cardinality(H \ D) + Cardinality(A \ H) - Cardinality((H \ D) \cap (A \ H))
  BY <1>1, FS_Union
<1>4. Cardinality((H \ D) \cap (A \ H)) = 0
  BY <1>2, FS_EmptySet
<1>5. /\ Cardinality(H) \in Nat /\ Cardinality(A \ H) \in Nat
      /\ Cardinality(H \ D) \in Nat /\ Cardinality(H \cap D) \in Nat
  BY <1>1, FS_CardinalityType
<1>6. Cardinality((H \ D) \cup A) = Cardinality(H \ D) + Cardinality(A \ H)
  BY <1>2, <1>3, <1>4, <1>5
<1>7. Cardinality(D \cap H) = Cardinality(H \cap D)
  BY <1>2
<1> QED BY <1>1, <1>5, <1>6, <1>7

(* The records of an object keep a composition one, and its counts right.  *)
LEMMA ApplyType ==
  ASSUME NEW c \in Composition, Counts(c), NEW adds \in List,
         NEW dels, dels \cap DOMAIN adds = {}
  PROVE  apply(c, adds, dels) \in Composition /\ Counts(apply(c, adds, dels))
<1> DEFINE r == apply(c, adds, dels)
           had == DOMAIN c.nets
<1>1. c.nets \in List
  BY DEF Composition
<1>2. r.nets \in List /\ DOMAIN r.nets = (had \ dels) \cup DOMAIN adds
  BY <1>1, ListType DEF apply
<1>3. ASSUME NEW b \in 0..Width
      PROVE  c.lens[b] + OfLength(DOMAIN adds \ had, b) - OfLength(dels \cap had, b)
               = OfLength((had \ dels) \cup DOMAIN adds, b)
  <2> DEFINE H == had \cap Bits(b)
             A == DOMAIN adds \cap Bits(b)
             D == dels \cap Bits(b)
  <2>1. IsFiniteSet(H) /\ IsFiniteSet(A) /\ A \cap D = {}
    BY <1>1, ListFinite, FS_Intersection
  <2>2. Cardinality((H \ D) \cup A)
          = Cardinality(H) + Cardinality(A \ H) - Cardinality(D \cap H)
    BY <2>1, CountAfter
  <2>3. /\ ((had \ dels) \cup DOMAIN adds) \cap Bits(b) = (H \ D) \cup A
        /\ (DOMAIN adds \ had) \cap Bits(b) = A \ H
        /\ (dels \cap had) \cap Bits(b) = D \cap H
    OBVIOUS
  <2>4. c.lens[b] = Cardinality(H)
    BY DEF Counts, OfLength
  <2> HIDE DEF H, A, D
  <2> QED BY <2>2, <2>3, <2>4 DEF OfLength
<1>4. r.lens = [b \in 0..Width |-> OfLength(DOMAIN r.nets, b)]
  BY <1>2, <1>3 DEF apply
<1>5. \A b \in 0..Width : OfLength(DOMAIN r.nets, b) \in Nat
  BY <1>2, LengthInUse
<1>6. r = [nets |-> r.nets, lens |-> r.lens]
  BY DEF apply
<1> HIDE DEF r
<1>7. r \in Composition
  BY <1>2, <1>4, <1>5, <1>6 DEF Composition
<1>8. Counts(r)
  BY <1>4 DEF Counts
<1> QED BY <1>7, <1>8 DEF r

LEMMA NewComposition == newComposition \in Composition /\ Counts(newComposition)
<1>1. newComposition.nets \in List /\ DOMAIN newComposition.nets = {}
  BY ListType DEF newComposition
<1>2. \A b \in 0..Width : OfLength({}, b) = 0
  BY FS_EmptySet DEF OfLength
<1> QED BY <1>1, <1>2 DEF newComposition, Composition, Counts

(* The records of a package lead from one list to the next, expiries too.  *)
LEMMA PackageIsStep ==
  ASSUME NEW e \in Epoch, NEW s \in 1..MaxSeq
  PROVE  /\ Adds(e, s) \in List
         /\ Dels(e, s) \cap DOMAIN Adds(e, s) = {}
         /\ \A c \in Composition : c.nets = Content[e][s-1]
               => apply(c, Adds(e, s), Dels(e, s)).nets = Content[e][s]
<1> DEFINE old == Content[e][s-1]
           new == Content[e][s]
<1>1. old \in List /\ new \in List
  BY ContentAssumption, BoundAssumption
<1> HIDE DEF old, new
<1>2. Adds(e, s) = [p \in {p \in DOMAIN new : p \in DOMAIN old => new[p] # old[p]} |-> new[p]]
  BY DEF Adds, old, new
<1>3. Dels(e, s) = DOMAIN old \ DOMAIN new
  BY DEF Dels, old, new
<1>4. Adds(e, s) \in List
  BY <1>1, <1>2, ListType
<1>5. ASSUME NEW c \in Composition, c.nets = old
      PROVE  apply(c, Adds(e, s), Dels(e, s)).nets = new
  <2>1. (DOMAIN old \ Dels(e, s)) \cup DOMAIN Adds(e, s) = DOMAIN new
    BY <1>2, <1>3
  <2>2. \A p \in DOMAIN new :
          (IF p \in DOMAIN Adds(e, s) THEN Adds(e, s)[p] ELSE old[p]) = new[p]
    BY <1>2
  <2>3. new = [p \in DOMAIN new |-> new[p]]
    BY <1>1, ListType
  <2> QED BY <1>5, <2>1, <2>2, <2>3 DEF apply
<1> QED BY <1>2, <1>3, <1>4, <1>5 DEF old, new

(* Looking up the lengths in use finds what the list holds: no network is  *)
(* missed, and none is found that does not cover the address.              *)
LEMMA LookUp ==
  ASSUME NEW c \in Composition, Counts(c), NEW a \in Address, NEW t
  PROVE  containsAddr(c, a, t) <=> Holds(c.nets, a, t)
<1>1. c.nets \in List /\ DOMAIN c.nets \subseteq Prefix
  BY ListType DEF Composition
<1>2. ASSUME containsAddr(c, a, t) PROVE Holds(c.nets, a, t)
  <2>1. PICK b \in 0..Width : masked(a, b) \in DOMAIN c.nets /\ alive(c.nets[masked(a, b)], t)
    BY <1>2 DEF containsAddr
  <2>2. \A i \in DOMAIN masked(a, b) : a[i] = masked(a, b)[i]
    BY DEF masked
  <2> QED BY <2>1, <2>2 DEF Holds
<1>3. ASSUME Holds(c.nets, a, t) PROVE containsAddr(c, a, t)
  <2>1. PICK p \in DOMAIN c.nets : (\A i \in DOMAIN p : a[i] = p[i]) /\ alive(c.nets[p], t)
    BY <1>3 DEF Holds
  <2>2. PICK b \in 0..Width : p \in Bits(b)
    BY <1>1 DEF Prefix
  <2>3. p = masked(a, b)
    BY <2>1, <2>2 DEF masked, Bits
  <2>4. c.lens[b] # 0
    BY <1>1, <2>2, LengthInUse DEF Counts
  <2> QED BY <2>1, <2>3, <2>4 DEF containsAddr
<1> QED BY <1>2, <1>3

-----------------------------------------------------------------------------
(* The invariant *)

LEMMA InitIInv == Init => IInv
<1> SUFFICES ASSUME Init PROVE IInv
  OBVIOUS
<1>1. ready \in BOOLEAN /\ snapBad \in BOOLEAN
  BY DEF Init
<1>2. <<>> \in Seq(FrameType) /\ <<>> \in Seq(0..MaxEpoch)
  OBVIOUS
<1>3. TypeOK
  BY <1>1, <1>2, BoundAssumption, NewComposition DEF Init, TypeOK, Epoch
<1>4. Stage /\ SameList /\ NoStorm
  BY DEF Init, Stage, SameList, NoStorm
<1> QED BY <1>3, <1>4, NewComposition DEF Init, IInv, Counted

LEMMA EmptyBatch ==
  ASSUME NEW s \in 0..MaxSeq
  PROVE  <<>> \in Seq(0..MaxEpoch) /\ s + Len(<<>>) <= MaxSeq
BY BoundAssumption

(* A frame goes into the channel when there is room, one comes out. *)
LEMMA DeliverType ==
  ASSUME TypeOK, NEW f \in FrameType, Deliver(f)
  PROVE  chan' \in Seq(FrameType) /\ Len(chan') <= QueueDepth
BY BoundAssumption DEF TypeOK, Deliver

LEMMA TakeType ==
  ASSUME TypeOK, Take
  PROVE  /\ chan' \in Seq(FrameType) /\ Len(chan') <= QueueDepth
         /\ Head(chan) \in FrameType /\ pc = "idle"
<1>1. chan \in Seq(FrameType) /\ chan # <<>> /\ chan' = Tail(chan) /\ pc = "idle"
  BY DEF TypeOK, Take
<1>2. Head(chan) \in FrameType /\ Tail(chan) \in Seq(FrameType) /\ Len(Tail(chan)) = Len(chan) - 1
  BY <1>1
<1> QED BY <1>1, <1>2, BoundAssumption DEF TypeOK

(* A check of the hash leads on, or to a snapshot, which is not asked for  *)
(* when it is known to be bad.                                             *)
LEMMA VerifyLeads ==
  ASSUME NEW c, NEW e, NEW s, NEW next \in {"idle", "read", "apply"}, verify(c, e, s, next)
  PROVE  pc' \in {next, "idle", "request"} /\ (snapBad => pc' # "request")
BY DEF verify, snapshot

(* A package of the epoch of the set, in turn, takes the set one further;  *)
(* one of another epoch leaves it where it is.                             *)
LEMMA PackageApplied ==
  ASSUME IInv, ready, seq < MaxSeq, NEW e \in 0..MaxEpoch,
         NEW next \in {"idle", "read", "apply"}, applyPackage(e, next),
         UNCHANGED <<ready, epoch, snapBad>>
  PROVE  /\ pc' \in {next, "idle", "request"} /\ (snapBad => pc' # "request")
         /\ e # epoch => pc' # next \/ next = "idle"
         /\ seq' \in {seq, seq + 1} /\ comp' \in Composition
         /\ Counted' /\ SameList'
<1>1. CASE e # epoch
  BY <1>1 DEF IInv, TypeOK, applyPackage, snapshot, Counted, SameList
<1>2. CASE e = epoch
  <2> DEFINE adds == Adds(epoch, seq + 1)
             dels == Dels(epoch, seq + 1)
  <2>1. /\ comp' = apply(comp, adds, dels) /\ seq' = seq + 1
        /\ verify(comp', e, seq + 1, next)
    BY <1>2 DEF applyPackage
  <2>2. epoch \in Epoch /\ seq + 1 \in 1..MaxSeq /\ seq + 1 - 1 = seq
    BY BoundAssumption DEF IInv, TypeOK, Stage
  <2>3. /\ adds \in List /\ dels \cap DOMAIN adds = {}
        /\ comp.nets = Content[epoch][seq]
             => apply(comp, adds, dels).nets = Content[epoch][seq + 1]
    <3>1. comp \in Composition
      BY DEF IInv, TypeOK
    <3> DEFINE n == seq + 1
    <3>2. n \in 1..MaxSeq /\ n - 1 = seq
      BY <2>2 DEF IInv, TypeOK
    <3> HIDE DEF n
    <3>3. /\ Adds(epoch, n) \in List
          /\ Dels(epoch, n) \cap DOMAIN Adds(epoch, n) = {}
          /\ comp.nets = Content[epoch][n - 1]
               => apply(comp, Adds(epoch, n), Dels(epoch, n)).nets = Content[epoch][n]
      BY <2>2, <3>1, <3>2, PackageIsStep
    <3> QED BY <3>2, <3>3 DEF n
  <2> HIDE DEF adds, dels
  <2>4. comp' \in Composition /\ Counted'
    BY <2>1, <2>3, ApplyType DEF IInv, TypeOK, Counted
  <2>5. SameList'
    BY <2>1, <2>3 DEF IInv, SameList
  <2> QED BY <1>2, <2>1, <2>4, <2>5, VerifyLeads
<1> QED BY <1>1, <1>2

LEMMA NextIInv == IInv /\ [Next]_vars => IInv'
<1> SUFFICES ASSUME IInv, [Next]_vars PROVE IInv'
  OBVIOUS
<1> USE DEF IInv, keeper, set
<1>t. TypeOK /\ Stage /\ Counted /\ SameList /\ NoStorm
  OBVIOUS
<1>0. ASSUME UNCHANGED <<ready, epoch, seq, comp>> PROVE Counted' /\ SameList'
  BY <1>0 DEF Counted, SameList
<1>1. ASSUME UNCHANGED <<set, pc, ref, upto, batch>>, kepoch' \in Epoch, kseq' \in 0..MaxSeq,
             pkg' \in [1..MaxSeq -> 0..MaxEpoch],
             chan' \in Seq(FrameType) /\ Len(chan') <= QueueDepth
      PROVE  IInv'
  <2>1. TypeOK'
    BY <1>1 DEF TypeOK
  <2>2. Stage' /\ NoStorm'
    BY <1>1 DEF Stage, NoStorm
  <2> QED BY <1>0, <1>1, <2>1, <2>2
<1>2. CASE KeeperChange
  <2>1. \A i \in BOOLEAN : Frame("diff", kepoch, kseq + 1, i) \in FrameType
    BY <1>2, BoundAssumption DEF KeeperChange, TypeOK, Frame, FrameType, Epoch
  <2>2. chan' \in Seq(FrameType) /\ Len(chan') <= QueueDepth
    BY <1>2, <2>1, DeliverType DEF KeeperChange, Publish, TypeOK
  <2>3. kseq' \in 0..MaxSeq /\ pkg' \in [1..MaxSeq -> 0..MaxEpoch]
    BY <1>2, BoundAssumption DEF KeeperChange, TypeOK, Epoch
  <2> QED BY <1>1, <1>2, <2>2, <2>3 DEF KeeperChange, TypeOK
<1>3. CASE KeeperTick
  <2>1. Frame("tick", kepoch, kseq, FALSE) \in FrameType
    BY BoundAssumption DEF TypeOK, Frame, FrameType, Epoch
  <2> QED BY <1>1, <1>3, <2>1, DeliverType DEF KeeperTick, TypeOK
<1>4. CASE KeeperRestart
  BY <1>1, <1>4, BoundAssumption DEF KeeperRestart, TypeOK, Epoch
<1>5. ASSUME NEW s \in 1..MaxSeq, PackageGone(s) PROVE IInv'
  <2>1. pkg' \in [1..MaxSeq -> 0..MaxEpoch]
    BY <1>5, BoundAssumption DEF PackageGone, TypeOK
  <2> QED BY <1>1, <1>5, <2>1 DEF PackageGone, TypeOK
<1>6. CASE Resync
  <2>1. Frame("resync", 0, 0, FALSE) \in FrameType
    BY BoundAssumption DEF Frame, FrameType
  <2> QED BY <1>1, <1>6, <2>1, DeliverType DEF Resync, TypeOK
<1>7. CASE RequestOK
  <2>1. ref' \in (0..MaxEpoch) \X (0..MaxSeq)
    BY <1>7, BoundAssumption DEF RequestOK, TypeOK, Epoch
  <2>3. TypeOK'
    BY <1>7, <2>1 DEF RequestOK, TypeOK
  <2>2. Stage' /\ NoStorm'
    BY <1>7 DEF RequestOK, Stage, NoStorm, TypeOK
  <2> QED BY <1>0, <1>7, <2>2, <2>3 DEF RequestOK
<1>8. CASE SnapshotFails
  <2>1. TypeOK'
    BY <1>8 DEF SnapshotFails, TypeOK
  <2>2. Stage' /\ NoStorm'
    BY <1>8 DEF SnapshotFails, Stage, NoStorm
  <2> QED BY <1>0, <1>8, <2>1, <2>2 DEF SnapshotFails
<1>9. CASE ObjectOK
  <2> DEFINE e == ref[1]
             s == ref[2]
  <2>1. e \in Epoch /\ s \in 0..MaxSeq /\ batch = <<>>
    BY <1>9 DEF ObjectOK, TypeOK, Stage
  <2> HIDE DEF e, s
  <2>2. Content[e][s] \in List
    BY <2>1, ContentAssumption
  <2>3. Decoded(e, s) \in List
    BY <2>2, ListType, BoundAssumption DEF Decoded, Time
  <2>4. comp' = apply(newComposition, Decoded(e, s), {})
    BY <1>9 DEF ObjectOK, e, s
  <2>5. comp' \in Composition /\ Counted'
    BY <2>3, <2>4, NewComposition, ApplyType DEF Counted
  <2>6. ready' /\ epoch' = e /\ seq' = s /\ pc' = "idle" /\ UNCHANGED <<keeper, chan, ref, upto, batch>>
    BY <1>9 DEF ObjectOK, e, s
  <2>7. SameList'
    <3>1. ASSUME e \notin BadEpoch PROVE comp'.nets = Content[e][s]
      <4>1. Decoded(e, s) = Content[e][s]
        BY <3>1 DEF Decoded
      <4>2. Content[e][s] = [p \in DOMAIN Content[e][s] |-> Content[e][s][p]]
        BY <2>2, ListType
      <4> QED BY <2>4, <4>1, <4>2 DEF apply, newComposition
    <3> QED BY <2>6, <3>1 DEF SameList
  <2>8. ready' \in BOOLEAN /\ snapBad' \in BOOLEAN
    BY <1>9 DEF ObjectOK
  <2>9. TypeOK'
    BY <2>1, <2>5, <2>6, <2>8, BoundAssumption DEF TypeOK, Epoch
  <2>10. Stage' /\ NoStorm'
    BY <2>1, <2>6 DEF Stage, NoStorm
  <2> QED BY <2>5, <2>7, <2>9, <2>10
<1>10. CASE CatchUpDone
  <2>1. pc' \in {"idle", "request"} /\ (snapBad => pc' # "request")
    BY <1>10, VerifyLeads DEF CatchUpDone
  <2>2. TypeOK'
    BY <1>10, <2>1 DEF CatchUpDone, TypeOK
  <2>3. Stage' /\ NoStorm'
    BY <1>10, <2>1 DEF CatchUpDone, Stage, NoStorm
  <2> QED BY <1>0, <1>10, <2>2, <2>3 DEF CatchUpDone
<1>11. CASE CatchUpRead
  <2> DEFINE n == IF upto - seq > PackagesPerRead THEN PackagesPerRead ELSE upto - seq
  <2>1. n \in 1..MaxSeq /\ seq + n <= MaxSeq /\ seq \in Nat
    BY <1>11, BoundAssumption DEF CatchUpRead, TypeOK
  <2>2. batch' = [i \in 1..n |-> pkg[seq + i]]
    BY <1>11 DEF CatchUpRead
  <2>3. \A i \in 1..n : pkg[seq + i] \in 0..MaxEpoch
    BY <2>1, BoundAssumption DEF TypeOK
  <2> HIDE DEF n
  <2>4. batch' \in Seq(0..MaxEpoch) /\ Len(batch') = n /\ batch' # <<>>
    BY <2>1, <2>2, <2>3
  <2>5. pc' = "apply" /\ UNCHANGED <<keeper, chan, set, ref, upto>>
    BY <1>11 DEF CatchUpRead
  <2>6. TypeOK'
    BY <2>1, <2>4, <2>5 DEF TypeOK
  <2>7. Stage' /\ NoStorm'
    BY <1>11, <2>4, <2>5 DEF CatchUpRead, Stage, NoStorm
  <2> QED BY <1>0, <2>5, <2>6, <2>7
<1>12. CASE CatchUpFails
  <2>1. TypeOK'
    BY <1>12 DEF CatchUpFails, TypeOK
  <2>2. Stage' /\ NoStorm'
    BY <1>12 DEF CatchUpFails, Stage, NoStorm
  <2> QED BY <1>0, <1>12, <2>1, <2>2 DEF CatchUpFails
<1>13. CASE PackageMissing
  <2>1. pc' \in {"idle", "request"} /\ (snapBad => pc' # "request")
    BY <1>13 DEF PackageMissing, snapshot
  <2>2. TypeOK'
    BY <1>13, <2>1 DEF PackageMissing, TypeOK
  <2>3. Stage' /\ NoStorm'
    BY <1>13, <2>1 DEF PackageMissing, Stage, NoStorm
  <2> QED BY <1>0, <1>13, <2>2, <2>3 DEF PackageMissing
<1>14. CASE CatchUpApply
  <2> DEFINE next == IF Len(batch) > 1 THEN "apply" ELSE "read"
  <2>1. /\ batch \in Seq(0..MaxEpoch) /\ batch # <<>> /\ ready
        /\ seq + Len(batch) <= MaxSeq /\ seq \in Nat
    BY <1>14, BoundAssumption DEF CatchUpApply, Stage, TypeOK
  <2>2. /\ Head(batch) \in 0..MaxEpoch /\ Tail(batch) \in Seq(0..MaxEpoch)
        /\ Len(Tail(batch)) = Len(batch) - 1 /\ Len(batch) \in Nat \ {0}
        /\ Len(batch) > 1 => Tail(batch) # <<>>
    <3>1. Len(batch) \in Nat /\ Len(batch) # 0
      BY <2>1, EmptySeq
    <3>2. /\ Head(batch) \in 0..MaxEpoch /\ Tail(batch) \in Seq(0..MaxEpoch)
          /\ Len(Tail(batch)) = Len(batch) - 1
      BY <2>1, HeadTailProperties
    <3>3. Len(batch) > 1 => Len(Tail(batch)) # 0
      BY <3>1, <3>2
    <3> QED BY <3>1, <3>2, <3>3, EmptySeq
  <2>3. applyPackage(Head(batch), next) /\ next \in {"read", "apply"}
    BY <1>14 DEF CatchUpApply
  <2>4. /\ batch' = IF pc' = "apply" THEN Tail(batch) ELSE <<>>
        /\ UNCHANGED <<keeper, chan, ready, epoch, snapBad, ref, upto>>
    BY <1>14 DEF CatchUpApply
  <2>5. next = "apply" => Len(batch) > 1
    OBVIOUS
  <2> HIDE DEF next
  <2>6. seq < MaxSeq
    BY <2>1, <2>2, BoundAssumption
  <2>7. /\ pc' \in {next, "idle", "request"} /\ (snapBad => pc' # "request")
        /\ seq' \in {seq, seq + 1} /\ comp' \in Composition
        /\ Counted' /\ SameList'
    BY <2>1, <2>2, <2>3, <2>4, <2>6, PackageApplied
  <2>8. batch' \in Seq(0..MaxEpoch) /\ Len(batch') <= Len(batch) - 1
    <3>1. <<>> \in Seq(0..MaxEpoch) /\ Len(<<>>) = 0
      OBVIOUS
    <3>2. CASE pc' = "apply"
      BY <2>2, <2>4, <3>2
    <3>3. CASE pc' # "apply"
      <4>1. batch' = <<>>
        BY <2>4, <3>3
      <4> QED BY <2>2, <3>1, <4>1
    <3> QED BY <3>2, <3>3
  <2>9. seq' \in 0..MaxSeq /\ seq' + Len(batch') <= MaxSeq
    <3>1. /\ seq \in Nat /\ seq' \in {seq, seq + 1} /\ seq < MaxSeq
          /\ Len(batch) \in Nat /\ seq + Len(batch) <= MaxSeq
      BY <2>1, <2>2, <2>6, <2>7
    <3>2. Len(batch') \in Nat /\ Len(batch') <= Len(batch) - 1
      BY <2>8
    <3> QED BY <3>1, <3>2, BoundAssumption
  <2>10. TypeOK'
    BY <2>3, <2>4, <2>7, <2>8, <2>9 DEF TypeOK
  <2>11. Stage'
    BY <2>1, <2>2, <2>3, <2>4, <2>5, <2>7 DEF Stage
  <2>12. NoStorm'
    BY <2>3, <2>4, <2>7 DEF NoStorm
  <2> QED BY <2>7, <2>10, <2>11, <2>12
<1>15. CASE FrameNotReady
  <2>1. Take /\ snapshot /\ UNCHANGED <<keeper, set, ref, upto, batch>>
    BY <1>15 DEF FrameNotReady
  <2>2. pc' \in {"idle", "request"} /\ (snapBad => pc' # "request")
    BY <2>1 DEF snapshot
  <2>3. TypeOK'
    BY <2>1, <2>2, TakeType DEF TypeOK
  <2>4. Stage' /\ NoStorm'
    BY <2>1, <2>2, TakeType DEF Stage, NoStorm
  <2> QED BY <1>0, <2>1, <2>3, <2>4
<1>16. CASE FrameIgnored
  <2>1. Take /\ UNCHANGED <<keeper, set, pc, ref, upto, batch>>
    BY <1>16 DEF FrameIgnored, FrameOfEpoch
  <2> QED BY <1>1, <2>1, TakeType DEF TypeOK
<1>17. CASE FrameNewEpoch
  <2>1. /\ Take /\ ready /\ pc' = "request"
        /\ UNCHANGED <<keeper, ready, epoch, seq, comp, ref, upto, batch>>
    BY <1>17 DEF FrameNewEpoch
  <2>2. ~snapBad' /\ snapBad' \in BOOLEAN
    BY <1>17 DEF FrameNewEpoch
  <2>3. TypeOK'
    BY <2>1, <2>2, TakeType DEF TypeOK
  <2>4. Stage' /\ NoStorm'
    BY <2>1, <2>2, TakeType DEF Stage, NoStorm
  <2> QED BY <1>0, <2>1, <2>3, <2>4
<1>18. CASE FrameSame
  <2>1. /\ Take /\ verify(comp, epoch, seq, "idle")
        /\ UNCHANGED <<keeper, set, ref, upto, batch>>
    BY <1>18 DEF FrameSame, FrameOfEpoch
  <2>2. pc' \in {"idle", "request"} /\ (snapBad => pc' # "request")
    BY <2>1, VerifyLeads
  <2>3. TypeOK'
    BY <2>1, <2>2, TakeType DEF TypeOK
  <2>4. Stage' /\ NoStorm'
    BY <2>1, <2>2, TakeType DEF Stage, NoStorm
  <2> QED BY <1>0, <2>1, <2>3, <2>4
<1>19. CASE FrameInline
  <2>1. /\ Take /\ ready /\ Head(chan).seq = seq + 1
        /\ applyPackage(Head(chan).epoch, "idle")
        /\ UNCHANGED <<keeper, ready, epoch, snapBad, ref, upto, batch>>
    BY <1>19 DEF FrameInline, FrameOfEpoch
  <2>2. Head(chan).epoch \in 0..MaxEpoch /\ Head(chan).seq \in 0..MaxSeq
    BY <2>1, TakeType DEF FrameType
  <2>3. seq < MaxSeq /\ batch = <<>> /\ pc = "idle"
    <3>1. seq \in Int /\ pc = "idle"
      BY <2>1, TakeType, BoundAssumption DEF TypeOK
    <3>2. seq < MaxSeq
      BY <2>1, <2>2, <3>1, BoundAssumption
    <3> QED BY <3>1, <3>2 DEF Stage
  <2>4. /\ pc' \in {"idle", "request"} /\ (snapBad => pc' # "request")
        /\ seq' \in {seq, seq + 1} /\ comp' \in Composition
        /\ Counted' /\ SameList'
    BY <2>1, <2>2, <2>3, PackageApplied
  <2>5. seq' \in 0..MaxSeq
    <3>1. seq \in 0..MaxSeq
      BY DEF TypeOK
    <3> QED BY <2>1, <2>3, <2>4, <3>1, BoundAssumption
  <2>6. chan' \in Seq(FrameType) /\ Len(chan') <= QueueDepth
    BY <2>1, TakeType
  <2>7. TypeOK'
    <3>1. batch' \in Seq(0..MaxEpoch) /\ seq' + Len(batch') <= MaxSeq
      BY <2>1, <2>3, <2>5, EmptyBatch
    <3> QED BY <2>1, <2>4, <2>5, <2>6, <3>1 DEF TypeOK
  <2>8. Stage' /\ NoStorm'
    BY <2>1, <2>3, <2>4 DEF Stage, NoStorm
  <2> QED BY <2>4, <2>7, <2>8
<1>20. CASE FrameAhead
  <2>1. /\ Take /\ ready /\ upto' = Head(chan).seq /\ pc' = "read"
        /\ UNCHANGED <<keeper, set, ref, batch>>
    BY <1>20 DEF FrameAhead, FrameOfEpoch
  <2>2. upto' \in 0..MaxSeq
    BY <2>1, TakeType DEF FrameType
  <2>3. TypeOK'
    BY <2>1, <2>2, TakeType DEF TypeOK
  <2>4. Stage' /\ NoStorm'
    BY <2>1, TakeType DEF Stage, NoStorm
  <2> QED BY <1>0, <2>1, <2>3, <2>4
<1>21. CASE UNCHANGED vars
  BY <1>1, <1>21 DEF vars, TypeOK
<1> QED
  BY <1>2, <1>3, <1>4, <1>5, <1>6, <1>7, <1>8, <1>9, <1>10, <1>11, <1>12, <1>13, <1>14,
     <1>15, <1>16, <1>17, <1>18, <1>19, <1>20, <1>21
     DEF Next, MirrorStep, KeeperStep, OnFrame, CatchUp

(* The variables keep their types; the channel never holds more than its   *)
(* depth, and a package is never numbered past the end.                    *)
THEOREM TypeCorrect == Safe => []TypeOK
<1>1. IInv => TypeOK
  BY DEF IInv
<1> QED BY <1>1, InitIInv, NextIInv, PTL DEF Safe

(* A look-up answers as the keeper's list does at the point the mirror     *)
(* says it is at, between any two steps of the goroutine, for every        *)
(* address and moment: the goroutine's packages, inline or read in         *)
(* batches, come in turn and from the epoch of the set, and the counts by  *)
(* length that steer containsAddr stay exact.                              *)
THEOREM FaithfulAlways == Safe => []Faithful
<1>1. IInv => Faithful
  <2> SUFFICES ASSUME IInv, ready, epoch \notin BadEpoch, NEW a \in Address, NEW t \in Time
               PROVE  Contains(a, t) <=> Holds(Content[epoch][seq], a, t)
    BY DEF Faithful
  <2>1. containsAddr(comp, a, t) <=> Holds(comp.nets, a, t)
    BY LookUp DEF IInv, TypeOK, Counted
  <2> QED BY <2>1 DEF IInv, SameList, Contains
<1> QED BY <1>1, InitIInv, NextIInv, PTL DEF Safe

(* A set whose snapshot did not add up is not asked for again until the    *)
(* keeper shows another epoch, whichever of the four ways to a snapshot    *)
(* the goroutine takes.                                                    *)
THEOREM NoStormAlways == Safe => []NoStorm
<1>1. IInv => NoStorm
  BY DEF IInv
<1> QED BY <1>1, InitIInv, NextIInv, PTL DEF Safe
=============================================================================
