----------------------------- MODULE Generation -----------------------------
(***************************************************************************)
(* How a generation of profiles gets from the controller into the memory   *)
(* of the inspector: internal/desired (the KV watcher, the fetch of the    *)
(* static lists, the exchange of directories) and internal/policy/store.go *)
(* (the snapshot the requests see, and the goroutine that reloads a        *)
(* directory whose files changed).                                         *)
(*                                                                         *)
(* Two goroutines run side by side: the desired watcher (hpc) and the      *)
(* store watcher (wpc).  They share the directories and the store, and the *)
(* store's mutex does not span a load and the swap that follows it.  The   *)
(* process may crash between any two steps; the directories survive.       *)
(***************************************************************************)
EXTENDS Integers

CONSTANTS
    MaxRev,      \* bound: generations the controller publishes
    Rejected,    \* revisions whose manifest Parse refuses
    Bad,         \* revisions whose profiles LoadDir refuses
    Listed,      \* revisions that carry static lists
    Blobs,       \* the internal Redis is configured
    MaxEdit,     \* bound: edits of the bootstrap profiles by hand
    MaxCrash,    \* bound: crashes
    MaxFault     \* bound: steps in which the file system returns errors

Rev == 1..MaxRev

ASSUME BoundAssumption ==
    MaxRev \in Nat /\ MaxEdit \in Nat /\ MaxCrash \in Nat /\ MaxFault \in Nat
ASSUME RevAssumption ==
    Rejected \subseteq Rev /\ Bad \subseteq Rev /\ Listed \subseteq Rev
ASSUME BlobsAssumption == Blobs \in BOOLEAN

(***************************************************************************)
(* A directory tree stands for its content.  Torn is a tree with files     *)
(* missing or left over: one a failing removal or write has left, or what  *)
(* a load makes of names read from one tree and files read from another.   *)
(* Two equal trees have the same fingerprint, two different ones a         *)
(* different one.                                                          *)
(***************************************************************************)
Gen(r) == <<"gen", r>>
Boot(k) == <<"boot", k>>
NoTree == <<"none", 0>>
Torn == <<"torn", 0>>
Generations == {Gen(r) : r \in Rev}
Bootstraps == {Boot(k) : k \in 0..MaxEdit}
Tree == Generations \cup Bootstraps \cup {NoTree, Torn}

(* Parse of the manifest: profiles, names, list hashes, the hash of it all *)
Parse(r) == r \notin Rejected

(* LoadDir: a torn tree may load or not. *)
Loadable(t) == t # NoTree /\ t \notin {Gen(r) : r \in Bad}
Refusable(t) == ~Loadable(t) \/ t = Torn

VARIABLES
    kv,        \* the last revision published under Key
    boot,      \* the tree under WAF_COOKIE_PROFILES
    live, prev, staging,   \* profiles, .prev and .next under WAF_COOKIE_DATA
    sdir,      \* store.dir: "boot" or "live"
    sprint,    \* store.print
    current,   \* store.current
    seen,      \* the last revision taken from the watcher
    applied,   \* Applied: hash and rev as one, and the outcome
    pending,   \* the revision to try again, 0 for none
    hpc, hrev, lived,      \* the desired watcher, in handle and Apply
    wpc, wdir, wprint, wload,   \* the store watcher; wload is what a load has read so far
    damage,    \* history: what an error that Apply ignores did to the generation in force
    crashes, faults

disk == <<boot, live, prev, staging>>
store == <<sdir, sprint, current>>
handler == <<applied, pending, hpc, hrev, lived>>
watcher == <<wpc, wdir, wprint, wload>>
bounds == <<damage, crashes, faults>>
vars == <<kv, boot, live, prev, staging, sdir, sprint, current, seen, applied, pending,
          hpc, hrev, lived, wpc, wdir, wprint, wload, damage, crashes, faults>>

TreeAt(d) == IF d = "boot" THEN boot ELSE live

(* The tree write puts on disk for a manifest. *)
write(r) == Gen(r)

(* Names, sizes, times of the files and lists: it tells two trees apart. *)
fingerprint(t) == t

(* An error of the file system. *)
Fault == faults < MaxFault /\ faults' = faults + 1

(* A load fails because of what it reads, or because reading fails. *)
LoadFails(t) == (Refusable(t) /\ UNCHANGED faults) \/ Fault

-----------------------------------------------------------------------------
(* The controller, and an operator with an editor *)

Publish ==
    /\ kv < MaxRev
    /\ kv' = kv + 1
    /\ UNCHANGED <<disk, store, seen, handler, watcher, bounds>>

HandEdit ==
    /\ boot[2] < MaxEdit
    /\ boot' = Boot(boot[2] + 1)
    /\ UNCHANGED <<kv, live, prev, staging, store, seen, handler, watcher, bounds>>

-----------------------------------------------------------------------------
(* Start and crash *)

(* NewStore on the bootstrap profiles: LoadDir reads the names and then    *)
(* the files, and the fingerprint is taken last, of whatever is there by   *)
(* then.  A load that fails ends the process.                              *)
StartNames ==
    /\ hpc = "down"
    /\ wload' = boot
    /\ hpc' = "files"
    /\ UNCHANGED <<kv, disk, store, seen, applied, pending, hrev, lived, wpc, wdir, wprint, bounds>>

StartFiles ==
    /\ hpc = "files"
    /\ \/ /\ current' = IF wload = boot THEN boot ELSE Torn
          /\ hpc' = "print" /\ UNCHANGED faults
       \/ /\ (wload # boot /\ UNCHANGED faults) \/ LoadFails(wload)
          /\ hpc' = "down" /\ UNCHANGED current
    /\ UNCHANGED <<kv, disk, sdir, sprint, seen, applied, pending, hrev, lived, watcher, damage, crashes>>

StartPrint ==
    /\ hpc = "print"
    /\ sdir' = "boot" /\ sprint' = fingerprint(boot)
    /\ hpc' = "bootstrap"
    /\ UNCHANGED <<kv, disk, current, seen, applied, pending, hrev, lived, watcher, bounds>>

(* Bootstrap on the live tree, then the two watchers.  The KV watcher      *)
(* starts with the last value of the key.                                  *)
Bootstrap ==
    /\ hpc = "bootstrap"
    /\ \/ /\ Loadable(live) /\ sdir' = "live" /\ sprint' = fingerprint(live) /\ current' = live
          /\ UNCHANGED faults
       \/ LoadFails(live) /\ UNCHANGED store
    /\ hpc' = "select"
    /\ wpc' = "tick" /\ wload' = NoTree
    /\ seen' = IF kv = 0 THEN 0 ELSE kv - 1
    /\ UNCHANGED <<kv, disk, applied, pending, hrev, lived, wdir, wprint, damage, crashes>>

NotApplied == [rev |-> 0, apply |-> "none"]
Reported(r) == [rev |-> r, apply |-> "ok"]

Crash ==
    /\ hpc # "down" /\ crashes < MaxCrash
    /\ crashes' = crashes + 1
    /\ hpc' = "down" /\ wpc' = "off"
    /\ applied' = NotApplied /\ pending' = 0 /\ hrev' = 0 /\ lived' = FALSE
    /\ wdir' = "boot" /\ wprint' = NoTree /\ wload' = NoTree
    /\ damage' = "none"
    /\ UNCHANGED <<kv, disk, store, seen, faults>>

-----------------------------------------------------------------------------
(* The desired watcher *)

(* handle up to FetchLists: a manifest is refused, known already, or taken. *)
Handle(r) ==
    hpc' = IF ~Parse(r) \/ applied = Reported(r)
             THEN "select" ELSE "fetch"

(* case entry := <-watcher.Updates().  A new entry cancels the retry. *)
TakeEntry_nilEntry ==
    /\ hpc = "select" /\ seen <= kv
    /\ seen' = seen + 1
    /\ UNCHANGED <<kv, disk, store, handler, watcher, bounds>>
TakeEntry_keepsPending ==
    /\ hpc = "select" /\ seen < kv
    /\ seen' = seen + 1
    /\ hrev' = seen + 1
    /\ Handle(seen + 1)
    /\ UNCHANGED <<kv, disk, store, applied, pending, lived, watcher, bounds>>
TakeEntry ==
    /\ hpc = "select" /\ seen < kv
    /\ seen' = seen + 1
    /\ pending' = 0
    /\ hrev' = seen + 1
    /\ Handle(seen + 1)
    /\ UNCHANGED <<kv, disk, store, applied, lived, watcher, bounds>>

(* case <-retry *)
Retry ==
    /\ hpc = "select" /\ pending # 0
    /\ pending' = 0
    /\ hrev' = pending
    /\ Handle(pending)
    /\ UNCHANGED <<kv, disk, store, seen, applied, lived, watcher, bounds>>

(* The generation is not applied; the report keeps the revision in force. *)
Fail == applied' = [applied EXCEPT !.apply = "failed"] /\ hpc' = "select"

FetchOK ==
    /\ hpc = "fetch"
    /\ hrev \in Listed => Blobs
    /\ hpc' = "stage"
    /\ UNCHANGED <<kv, disk, store, seen, applied, pending, hrev, lived, watcher, bounds>>

(* Redis is away, a body is missing or does not hash to its name. *)
FetchFails_forgets ==
    /\ hpc = "fetch" /\ hrev \in Listed
    /\ Fail
    /\ UNCHANGED <<kv, disk, store, seen, pending, hrev, lived, watcher, bounds>>
FetchFails ==
    /\ hpc = "fetch" /\ hrev \in Listed
    /\ Fail
    /\ pending' = IF Blobs THEN hrev ELSE 0
    /\ UNCHANGED <<kv, disk, store, seen, hrev, lived, watcher, bounds>>

-----------------------------------------------------------------------------
(* Apply.  Every call to the file system may fail.  Apply returns the      *)
(* errors of MkdirAll, write and the renames forward, and ignores those of *)
(* the removals and of the renames back.  A rename onto a directory that   *)
(* exists fails always.                                                    *)

(* What RemoveAll(staging) leaves when it may have failed.  The leftovers  *)
(* are never read, so whatever they are they count as torn.                *)
Remains == {NoTree, Torn}

(* RemoveAll(staging), write; when the write fails staging goes again.     *)
(* What a failing removal leaves is mixed with what is written.            *)
Stage ==
    /\ hpc = "stage"
    /\ \/ staging' = write(hrev) /\ hpc' = "unprev" /\ UNCHANGED <<applied, faults>>
       \/ staging # NoTree /\ staging' = Torn /\ hpc' = "unprev" /\ Fault /\ UNCHANGED applied
       \/ staging' \in Remains /\ Fail /\ Fault
    /\ UNCHANGED <<kv, boot, live, prev, store, seen, pending, hrev, lived, watcher, damage, crashes>>

(* RemoveAll(prev).  After a rename back that failed this is the only copy *)
(* of the generation in force.                                             *)
RemovePrev ==
    /\ hpc = "unprev"
    /\ \/ prev' = NoTree /\ UNCHANGED faults
       \/ prev # NoTree /\ prev' \in {prev, Torn} /\ Fault
    /\ damage' = IF damage = "parked" /\ prev' # prev THEN "gone" ELSE damage
    /\ hpc' = "park"
    /\ UNCHANGED <<kv, boot, live, staging, store, seen, applied, pending, hrev, lived, watcher, crashes>>

(* Rename(live, prev); there may be no live tree. *)
Park_removes ==
    /\ hpc = "park"
    /\ lived' = FALSE /\ live' = NoTree /\ hpc' = "promote"
    /\ UNCHANGED <<kv, boot, prev, staging, store, seen, applied, pending, hrev, watcher, bounds>>
Park ==
    /\ hpc = "park"
    /\ \/ live # NoTree /\ prev = NoTree /\ prev' = live /\ live' = NoTree /\ lived' = TRUE
       \/ live = NoTree /\ lived' = FALSE /\ UNCHANGED <<live, prev>>
    /\ hpc' = "promote"
    /\ UNCHANGED <<kv, boot, staging, store, seen, applied, pending, hrev, watcher, bounds>>

ParkFails ==
    /\ hpc = "park" /\ live # NoTree
    /\ \/ prev # NoTree /\ staging' = NoTree /\ UNCHANGED faults
       \/ staging' \in Remains /\ Fault
    /\ Fail
    /\ UNCHANGED <<kv, boot, live, prev, store, seen, pending, hrev, lived, watcher, damage, crashes>>

(* Rename(staging, live) *)
Promote ==
    /\ hpc = "promote"
    /\ live' = staging
    /\ staging' = NoTree
    /\ hpc' = "reload"
    /\ UNCHANGED <<kv, boot, prev, store, seen, applied, pending, hrev, lived, watcher, bounds>>

(* The rename back failed: the tree that was live stays under .prev. *)
StaysParked ==
    /\ damage' = IF applied.rev # 0 /\ damage = "none" THEN "parked" ELSE damage
    /\ UNCHANGED <<live, prev>>

PromoteFails ==
    /\ hpc = "promote" /\ Fault
    /\ \/ lived /\ live' = prev /\ prev' = NoTree /\ UNCHANGED damage
       \/ lived /\ StaysParked
       \/ ~lived /\ UNCHANGED <<live, prev, damage>>
    /\ staging' \in Remains
    /\ Fail
    /\ UNCHANGED <<kv, boot, store, seen, pending, hrev, lived, watcher, crashes>>

(* ReloadFrom(live): load and fingerprint, then dir and print under the    *)
(* lock, then the swap in a step of its own.                               *)
Reload ==
    /\ hpc = "reload"
    /\ \/ Loadable(live) /\ sdir' = "live" /\ sprint' = fingerprint(live) /\ hpc' = "swap" /\ UNCHANGED faults
       \/ LoadFails(live) /\ hpc' = "drop" /\ UNCHANGED <<sdir, sprint>>
    /\ UNCHANGED <<kv, disk, current, seen, applied, pending, hrev, lived, watcher, damage, crashes>>

Swap ==
    /\ hpc = "swap"
    /\ current' = live
    /\ hpc' = "clean"
    /\ UNCHANGED <<kv, disk, sdir, sprint, seen, applied, pending, hrev, lived, watcher, bounds>>

(* RemoveAll(prev), of which nobody reads the leftovers; handle reports    *)
(* the generation, which is mixed with another when staging could not be   *)
(* cleared before it was written.                                          *)
Clean ==
    /\ hpc = "clean"
    /\ \/ prev' = NoTree /\ UNCHANGED faults
       \/ prev # NoTree /\ prev' = Torn /\ Fault
    /\ applied' = Reported(hrev)
    /\ damage' = IF live = Gen(hrev) THEN "none" ELSE "mixed"
    /\ hpc' = "select"
    /\ UNCHANGED <<kv, boot, live, staging, store, seen, pending, hrev, lived, watcher, crashes>>

(* The new tree does not load: it goes, and the parked one comes back. *)
Drop ==
    /\ hpc = "drop"
    /\ \/ live' = NoTree /\ UNCHANGED faults
       \/ live' \in {live, Torn} /\ Fault
    /\ IF lived THEN hpc' = "restore" /\ UNCHANGED applied ELSE Fail
    /\ UNCHANGED <<kv, boot, prev, staging, store, seen, pending, hrev, lived, watcher, damage, crashes>>

Restore_forgotten ==
    /\ hpc = "restore"
    /\ Fail
    /\ UNCHANGED <<kv, disk, store, seen, pending, hrev, lived, watcher, bounds>>
Restore ==
    /\ hpc = "restore" /\ live = NoTree
    /\ live' = prev
    /\ prev' = NoTree
    /\ hpc' = "rereload"
    /\ UNCHANGED <<kv, boot, staging, store, seen, applied, pending, hrev, lived, watcher, bounds>>

(* The rename back fails: always, when the bad tree could not be removed. *)
RestoreFails ==
    /\ hpc = "restore"
    /\ IF live # NoTree THEN UNCHANGED faults ELSE Fault
    /\ StaysParked
    /\ Fail
    /\ UNCHANGED <<kv, boot, staging, store, seen, pending, hrev, lived, watcher, crashes>>

(* The second ReloadFrom; its error is ignored. *)
Rereload ==
    /\ hpc = "rereload"
    /\ \/ /\ Loadable(live) /\ sdir' = "live" /\ sprint' = fingerprint(live)
          /\ hpc' = "reswap" /\ UNCHANGED <<applied, faults>>
       \/ LoadFails(live) /\ Fail /\ UNCHANGED <<sdir, sprint>>
    /\ UNCHANGED <<kv, disk, current, seen, pending, hrev, lived, watcher, damage, crashes>>

Reswap ==
    /\ hpc = "reswap"
    /\ current' = live
    /\ Fail
    /\ UNCHANGED <<kv, disk, sdir, sprint, seen, pending, hrev, lived, watcher, bounds>>

-----------------------------------------------------------------------------
(* The store watcher: Store.Watch, one turn per tick *)

WatchDir ==
    /\ wpc = "tick"
    /\ wdir' = sdir
    /\ wpc' = "print"
    /\ UNCHANGED <<kv, disk, store, seen, handler, wprint, wload, bounds>>

(* fingerprint(dir), which fails when the tree is away *)
WatchPrint ==
    /\ wpc = "print"
    /\ wprint' = fingerprint(TreeAt(wdir))
    /\ wpc' = IF TreeAt(wdir) = NoTree THEN "tick" ELSE "compare"
    /\ UNCHANGED <<kv, disk, store, seen, handler, wdir, wload, bounds>>

WatchCompare ==
    /\ wpc = "compare"
    /\ wpc' = IF wprint = sprint /\ wdir = sdir THEN "tick" ELSE "names"
    /\ UNCHANGED <<kv, disk, store, seen, handler, wdir, wprint, wload, bounds>>

(* LoadDir: the names first, then the files.  A load that fails still      *)
(* records the fingerprint, so that it is not tried again.                 *)
WatchNames ==
    /\ wpc = "names"
    /\ wload' = TreeAt(wdir)
    /\ wpc' = IF TreeAt(wdir) = NoTree THEN "giveup" ELSE "files"
    /\ UNCHANGED <<kv, disk, store, seen, handler, wdir, wprint, bounds>>

WatchFiles ==
    /\ wpc = "files"
    /\ \/ /\ TreeAt(wdir) # NoTree /\ (wload = TreeAt(wdir) => Loadable(wload))
          /\ wload' = IF wload = TreeAt(wdir) THEN wload ELSE Torn
          /\ wpc' = "set"
          /\ UNCHANGED faults
       \/ /\ (wload # TreeAt(wdir) /\ UNCHANGED faults) \/ LoadFails(wload)
          /\ wpc' = "giveup"
          /\ UNCHANGED wload
    /\ UNCHANGED <<kv, disk, store, seen, handler, wdir, wprint, damage, crashes>>

(* setPrint(dir, print), with the fingerprint taken before the load *)
setPrint_late == IF sdir = wdir THEN sprint' = TreeAt(wdir) ELSE UNCHANGED sprint
setPrint == IF sdir = wdir THEN sprint' = wprint ELSE UNCHANGED sprint

WatchGiveUp ==
    /\ wpc = "giveup"
    /\ setPrint
    /\ wpc' = "tick"
    /\ UNCHANGED <<kv, disk, sdir, current, seen, handler, wdir, wprint, wload, bounds>>

WatchSet ==
    /\ wpc = "set"
    /\ setPrint
    /\ wpc' = "swap"
    /\ UNCHANGED <<kv, disk, sdir, current, seen, handler, wdir, wprint, wload, bounds>>

(* swap(snap): whatever the store has become meanwhile *)
WatchSwap ==
    /\ wpc = "swap"
    /\ current' = wload
    /\ wpc' = "tick"
    /\ UNCHANGED <<kv, disk, sdir, sprint, seen, handler, wdir, wprint, wload, bounds>>

-----------------------------------------------------------------------------
Init ==
    /\ kv = 0
    /\ boot = Boot(0)
    /\ live = NoTree /\ prev = NoTree /\ staging = NoTree
    /\ sdir = "boot" /\ sprint = NoTree /\ current = NoTree
    /\ seen = 0 /\ applied = NotApplied /\ pending = 0
    /\ hpc = "down" /\ hrev = 0 /\ lived = FALSE
    /\ wpc = "off" /\ wdir = "boot" /\ wprint = NoTree /\ wload = NoTree
    /\ damage = "none" /\ crashes = 0 /\ faults = 0

ApplyStep == \/ Stage \/ RemovePrev \/ Park \/ ParkFails \/ Promote \/ PromoteFails
             \/ Reload \/ Swap \/ Clean \/ Drop \/ Restore \/ RestoreFails \/ Rereload \/ Reswap
StartStep == StartNames \/ StartFiles \/ StartPrint \/ Bootstrap
DesiredStep == StartStep \/ TakeEntry \/ Retry \/ FetchOK \/ FetchFails \/ ApplyStep
WatchStep == \/ WatchDir \/ WatchPrint \/ WatchCompare \/ WatchNames \/ WatchFiles
             \/ WatchGiveUp \/ WatchSet \/ WatchSwap

Next == Publish \/ HandEdit \/ Crash \/ DesiredStep \/ WatchStep

(***************************************************************************)
(* Both goroutines run.  The retry timer fires, and a Redis that is away   *)
(* comes back: a fetch tried again and again succeeds at some point.       *)
(***************************************************************************)
Fairness == WF_vars(DesiredStep) /\ WF_vars(WatchStep) /\ SF_vars(FetchOK)

Spec == Init /\ [][Next]_vars /\ Fairness
-----------------------------------------------------------------------------
(* Properties *)

(* The values the variables range over. *)
TypeOK ==
    /\ kv \in 0..MaxRev /\ seen \in 0..kv
    /\ boot \in Bootstraps
    /\ {live, prev, staging} \subseteq Generations \cup {NoTree, Torn}
    /\ sdir \in {"boot", "live"} /\ sprint \in Tree /\ current \in Tree
    /\ applied \in [rev : 0..MaxRev, apply : {"none", "ok", "failed"}]
    /\ pending \in 0..MaxRev /\ hrev \in 0..MaxRev /\ lived \in BOOLEAN
    /\ hpc \in {"down", "files", "print", "bootstrap", "select", "fetch", "stage", "unprev", "park", "promote", "reload",
                "swap", "clean", "drop", "restore", "rereload", "reswap"}
    /\ wpc \in {"off", "tick", "print", "compare", "names", "files", "giveup", "set", "swap"}
    /\ wdir \in {"boot", "live"} /\ wprint \in Tree /\ wload \in Tree
    /\ damage \in {"none", "mixed", "parked", "gone"}
    /\ crashes \in 0..MaxCrash /\ faults \in 0..MaxFault

(* Between two manifests the store points at the live tree, and that is    *)
(* the generation the heartbeat reports: an Apply that failed at any step  *)
(* has put it back.  The exceptions are the errors Apply ignores: a rename *)
(* back that fails leaves no generation live, or the bad one, and what is  *)
(* written over a staging tree that could not be removed goes live mixed.  *)
ReportedIsLive ==
    hpc = "select" /\ applied.rev # 0 =>
      sdir = "live" /\ (damage = "none" => live = Gen(applied.rev))

(* While Apply exchanges the directories, the generation in force is on    *)
(* disk, live or parked, until its successor has been loaded: a crash      *)
(* cannot lose it.  This holds after a rename back that failed as well,    *)
(* but only until the next Apply: that one removes .prev, the last copy,   *)
(* before it has loaded anything (damage = "gone").                        *)
InForceIsOnDisk ==
    applied.rev # 0 /\ hpc \notin {"swap", "clean"} /\ damage \in {"none", "parked"}
      => Gen(applied.rev) \in {live, prev}

(* A process never goes back to an older generation: a fetch that is tried *)
(* again does not undo what arrived after it.                              *)
NeverGoesBack == [][hpc' = "down" \/ applied'.rev >= applied.rev]_vars

(* When the controller has published its last generation, and it is a good *)
(* one, it ends up live and reported, whatever was refused, could not be   *)
(* fetched or crashed before.  An error of the file system is not tried    *)
(* again, so there must have been none.                                    *)
LatestIsApplied ==
    <>[](faults = 0 /\ kv \in Rev \ (Bad \cup Rejected) =>
           live = Gen(kv) /\ applied = Reported(kv))

(* As long as no generation has come, the store watcher serves in the end  *)
(* whatever differs from the fingerprint it has, even an edit that lands   *)
(* while it is loading.  An edit that lands between the load and the       *)
(* fingerprint of NewStore does not differ and is never served, nor is one *)
(* whose load met a read error: the fingerprint is recorded all the same.  *)
EditIsServed ==
    (kv = 0 /\ wpc # "off" /\ sprint # boot)
      ~> (kv # 0 \/ wpc = "off" \/ faults # 0 \/ current = boot)

(* At rest the store serves the generation it reports as applied           *)
(* (INSTALL.md: "controller generations override them").                   *)
ServesTheGeneration ==
    hpc = "select" /\ applied.apply = "ok" /\ wpc = "tick" /\ sprint = live
      => current = Gen(applied.rev)
=============================================================================
