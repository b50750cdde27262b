-------------------------- MODULE GenerationProofs --------------------------
(***************************************************************************)
(* Theorems about Generation, for any number of revisions, any choice of   *)
(* refused, unloadable and listed ones, and any number of crashes, file    *)
(* system errors and edits.                                                *)
(***************************************************************************)
EXTENDS Generation, TLAPS

Safe == Init /\ [][Next]_vars

(* From a start to its Bootstrap *)
Starting == {"down", "files", "print", "bootstrap"}

(* Between the select of the watcher and its return, hrev is the revision  *)
(* taken last; so is the one that waits for its retry.                     *)
Newest ==
    /\ hpc \notin Starting \cup {"select"} => hrev \in Rev /\ hrev = seen
    /\ pending # 0 => pending = seen
    /\ applied.rev <= seen
    /\ hpc \in Starting => applied = NotApplied /\ pending = 0

(* What Apply has put on disk so far. *)
OnDisk ==
    /\ hpc \in {"unprev", "park", "promote"} => staging \in {Gen(hrev), Torn}
    /\ hpc \in {"reload", "swap", "clean"} => live \in {Gen(hrev), Torn}
    /\ hpc \in {"swap", "clean"} => sdir = "live"

(* Where the generation in force is while Apply works on its successor:    *)
(* live until Park, then parked under .prev until Restore or Clean.  When  *)
(* a rename back has failed it is under .prev all along, and nothing that  *)
(* Apply parks or puts back takes its place.                               *)
Kept ==
    applied.rev # 0 =>
      /\ sdir = "live"
      /\ damage = "none" =>
           /\ hpc \in {"select", "fetch", "stage", "unprev", "park", "rereload", "reswap"}
                => live = Gen(applied.rev)
           /\ hpc \in {"promote", "reload", "drop", "restore"}
                => prev = Gen(applied.rev) /\ lived
      /\ damage = "parked" =>
           /\ prev = Gen(applied.rev)
           /\ hpc \in {"promote", "reload", "swap", "clean", "drop"} => ~lived
           /\ hpc \notin {"restore", "rereload", "reswap"}

IInv == TypeOK /\ Newest /\ OnDisk /\ Kept

(* A tree write has made is a generation, and not the missing one. *)
LEMMA GenType == \A r \in Rev : Gen(r) \in Generations /\ Gen(r) # NoTree /\ Gen(r) # Torn
BY DEF Generations, Gen, NoTree, Torn

LEMMA InitIInv == Init => IInv
<1> SUFFICES ASSUME Init PROVE IInv
  OBVIOUS
<1>1. Boot(0) \in Bootstraps
  BY BoundAssumption DEF Bootstraps
<1>2. applied \in [rev : 0..MaxRev, apply : {"none", "ok", "failed"}]
  BY BoundAssumption DEF Init, NotApplied
<1>3. lived \in BOOLEAN
  BY DEF Init
<1>4. TypeOK
  BY <1>1, <1>2, <1>3, BoundAssumption DEF Init, TypeOK, Tree, NotApplied
<1> QED BY <1>4 DEF Init, IInv, Newest, OnDisk, Kept, Starting, NotApplied

(* An edit by hand and the steps of the store watcher touch nothing the    *)
(* desired watcher relies on.                                              *)
LEMMA OthersKeep ==
  ASSUME IInv, UNCHANGED <<live, prev, staging, sdir, seen, handler, damage>>
  PROVE  (Newest /\ OnDisk /\ Kept)'
BY DEF IInv, Newest, OnDisk, Kept, Starting, handler

(* The tree a goroutine sees under either directory is one of the trees. *)
LEMMA TreeType ==
  ASSUME TypeOK
  PROVE  /\ boot \in Tree /\ live \in Tree /\ prev \in Tree /\ staging \in Tree
         /\ TreeAt(wdir) \in Tree /\ NoTree \in Tree /\ Torn \in Tree
BY DEF TypeOK, TreeAt, Tree

LEMMA NextIInv == IInv /\ [Next]_vars => IInv'
<1> SUFFICES ASSUME IInv, [Next]_vars PROVE IInv'
  OBVIOUS
<1> USE BoundAssumption, TreeType, GenType
    DEF IInv, disk, store, handler, watcher, bounds, fingerprint, write, Rev, Starting
<1>0. TypeOK /\ Newest /\ OnDisk /\ Kept
  OBVIOUS
<1>1. CASE Publish
  <2>1. TypeOK'
    BY <1>1 DEF Publish, TypeOK, Newest, OnDisk
  <2>2. Newest'
    BY <1>1 DEF Publish, TypeOK, Newest
  <2>3. OnDisk'
    BY <1>1 DEF Publish, TypeOK, Newest, OnDisk
  <2>4. Kept'
    BY <1>1 DEF Publish, TypeOK, Newest, OnDisk, Kept
  <2> QED BY <2>1, <2>2, <2>3, <2>4
<1>2. CASE HandEdit
  <2>1. PICK k \in 0..MaxEdit : boot = Boot(k)
    BY DEF TypeOK, Bootstraps
  <2>2. k + 1 \in 0..MaxEdit /\ boot' = Boot(k + 1)
    BY <1>2, <2>1 DEF HandEdit, Boot
  <2>3. TypeOK'
    BY <1>2, <2>2 DEF HandEdit, TypeOK, Bootstraps
  <2> QED BY <1>2, <2>3, OthersKeep DEF HandEdit
<1>3. CASE Crash
  <2>0. applied' \in [rev : 0..MaxRev, apply : {"none", "ok", "failed"}]
    BY <1>3 DEF Crash, NotApplied
  <2>5. lived' \in BOOLEAN
    BY <1>3 DEF Crash
  <2>1. TypeOK'
    BY <1>3, <2>0, <2>5 DEF Crash, TypeOK
  <2>2. Newest'
    BY <1>3 DEF Crash, NotApplied, TypeOK, Newest
  <2>3. OnDisk'
    BY <1>3 DEF Crash, NotApplied, TypeOK, Newest, OnDisk
  <2>4. Kept'
    BY <1>3 DEF Crash, NotApplied, TypeOK, Newest, OnDisk, Kept
  <2> QED BY <2>1, <2>2, <2>3, <2>4
<1>4. CASE StartNames
  <2>1. TypeOK'
    BY <1>4 DEF StartNames, NotApplied, TypeOK, Newest, OnDisk
  <2>2. Newest'
    BY <1>4 DEF StartNames, NotApplied, TypeOK, Newest
  <2>3. OnDisk'
    BY <1>4 DEF StartNames, NotApplied, TypeOK, Newest, OnDisk
  <2>4. Kept'
    BY <1>4 DEF StartNames, NotApplied, TypeOK, Newest, OnDisk, Kept
  <2> QED BY <2>1, <2>2, <2>3, <2>4
<1>4a. CASE StartFiles
  <2>1. TypeOK'
    BY <1>4a DEF StartFiles, NotApplied, Fault, LoadFails, TypeOK, Newest, OnDisk
  <2>2. Newest'
    BY <1>4a DEF StartFiles, NotApplied, Fault, LoadFails, TypeOK, Newest
  <2>3. OnDisk'
    BY <1>4a DEF StartFiles, NotApplied, Fault, LoadFails, TypeOK, Newest, OnDisk
  <2>4. Kept'
    BY <1>4a DEF StartFiles, NotApplied, Fault, LoadFails, TypeOK, Newest, OnDisk, Kept
  <2> QED BY <2>1, <2>2, <2>3, <2>4
<1>4b. CASE StartPrint
  <2>1. TypeOK'
    BY <1>4b DEF StartPrint, NotApplied, TypeOK, Newest, OnDisk
  <2>2. Newest'
    BY <1>4b DEF StartPrint, NotApplied, TypeOK, Newest
  <2>3. OnDisk'
    BY <1>4b DEF StartPrint, NotApplied, TypeOK, Newest, OnDisk
  <2>4. Kept'
    BY <1>4b DEF StartPrint, NotApplied, TypeOK, Newest, OnDisk, Kept
  <2> QED BY <2>1, <2>2, <2>3, <2>4
<1>4c. CASE Bootstrap
  <2>1. TypeOK'
    BY <1>4c DEF Bootstrap, NotApplied, Fault, LoadFails, TypeOK, Newest, OnDisk
  <2>2. Newest'
    BY <1>4c DEF Bootstrap, NotApplied, Fault, LoadFails, TypeOK, Newest
  <2>3. OnDisk'
    BY <1>4c DEF Bootstrap, NotApplied, Fault, LoadFails, TypeOK, Newest, OnDisk
  <2>4. Kept'
    BY <1>4c DEF Bootstrap, NotApplied, Fault, LoadFails, TypeOK, Newest, OnDisk, Kept
  <2> QED BY <2>1, <2>2, <2>3, <2>4
<1>5. CASE TakeEntry
  <2>1. TypeOK'
    BY <1>5 DEF TakeEntry, Handle, TypeOK, Newest, OnDisk
  <2>2. Newest'
    BY <1>5 DEF TakeEntry, Handle, TypeOK, Newest
  <2>3. OnDisk'
    BY <1>5 DEF TakeEntry, Handle, TypeOK, Newest, OnDisk
  <2>4. Kept'
    BY <1>5 DEF TakeEntry, Handle, TypeOK, Newest, OnDisk, Kept
  <2> QED BY <2>1, <2>2, <2>3, <2>4
<1>6. CASE Retry
  <2>1. TypeOK'
    BY <1>6 DEF Retry, Handle, TypeOK, Newest, OnDisk
  <2>2. Newest'
    BY <1>6 DEF Retry, Handle, TypeOK, Newest
  <2>3. OnDisk'
    BY <1>6 DEF Retry, Handle, TypeOK, Newest, OnDisk
  <2>4. Kept'
    BY <1>6 DEF Retry, Handle, TypeOK, Newest, OnDisk, Kept
  <2> QED BY <2>1, <2>2, <2>3, <2>4
<1>7. CASE FetchOK
  <2>1. TypeOK'
    BY <1>7 DEF FetchOK, TypeOK, Newest, OnDisk
  <2>2. Newest'
    BY <1>7 DEF FetchOK, TypeOK, Newest
  <2>3. OnDisk'
    BY <1>7 DEF FetchOK, TypeOK, Newest, OnDisk
  <2>4. Kept'
    BY <1>7 DEF FetchOK, TypeOK, Newest, OnDisk, Kept
  <2> QED BY <2>1, <2>2, <2>3, <2>4
<1>8. CASE FetchFails
  <2>1. TypeOK'
    BY <1>8 DEF FetchFails, Fail, TypeOK, Newest, OnDisk
  <2>2. Newest'
    BY <1>8 DEF FetchFails, Fail, TypeOK, Newest
  <2>3. OnDisk'
    BY <1>8 DEF FetchFails, Fail, TypeOK, Newest, OnDisk
  <2>4. Kept'
    BY <1>8 DEF FetchFails, Fail, TypeOK, Newest, OnDisk, Kept
  <2> QED BY <2>1, <2>2, <2>3, <2>4
<1>9. CASE Stage
  <2>1. TypeOK'
    BY <1>9 DEF Stage, Remains, Fail, Fault, TypeOK, Newest, OnDisk
  <2>2. Newest'
    BY <1>9 DEF Stage, Remains, Fail, Fault, TypeOK, Newest
  <2>3. OnDisk'
    BY <1>9 DEF Stage, Remains, Fail, Fault, TypeOK, Newest, OnDisk
  <2>4. Kept'
    BY <1>9 DEF Stage, Remains, Fail, Fault, TypeOK, Newest, OnDisk, Kept
  <2> QED BY <2>1, <2>2, <2>3, <2>4
<1>10. CASE RemovePrev
  <2>1. TypeOK'
    BY <1>10 DEF RemovePrev, Fault, TypeOK, Newest, OnDisk
  <2>2. Newest'
    BY <1>10 DEF RemovePrev, Fault, TypeOK, Newest
  <2>3. OnDisk'
    BY <1>10 DEF RemovePrev, Fault, TypeOK, Newest, OnDisk
  <2>4. Kept'
    BY <1>10 DEF RemovePrev, Fault, TypeOK, Newest, OnDisk, Kept
  <2> QED BY <2>1, <2>2, <2>3, <2>4
<1>11. CASE Park
  <2>1. TypeOK'
    BY <1>11 DEF Park, TypeOK, Newest, OnDisk
  <2>2. Newest'
    BY <1>11 DEF Park, TypeOK, Newest
  <2>3. OnDisk'
    BY <1>11 DEF Park, TypeOK, Newest, OnDisk
  <2>4. Kept'
    <3> SUFFICES ASSUME applied.rev # 0
                 PROVE  Kept'
      BY <1>11 DEF Park, Kept
    <3>1. applied.rev \in Rev
      BY DEF TypeOK
    <3>2. Gen(applied.rev) # NoTree
      BY <3>1
    <3>3. CASE damage = "none"
      BY <1>11, <3>2, <3>3 DEF Park, Kept
    <3>4. CASE damage = "parked"
      BY <1>11, <3>2, <3>4 DEF Park, Kept
    <3> QED BY <1>11, <3>3, <3>4 DEF Park, Kept
  <2> QED BY <2>1, <2>2, <2>3, <2>4
<1>12. CASE ParkFails
  <2>1. TypeOK'
    BY <1>12 DEF ParkFails, Remains, Fail, Fault, TypeOK, Newest, OnDisk
  <2>2. Newest'
    BY <1>12 DEF ParkFails, Remains, Fail, Fault, TypeOK, Newest
  <2>3. OnDisk'
    BY <1>12 DEF ParkFails, Remains, Fail, Fault, TypeOK, Newest, OnDisk
  <2>4. Kept'
    BY <1>12 DEF ParkFails, Remains, Fail, Fault, TypeOK, Newest, OnDisk, Kept
  <2> QED BY <2>1, <2>2, <2>3, <2>4
<1>13. CASE Promote
  <2>1. TypeOK'
    BY <1>13 DEF Promote, TypeOK, Newest, OnDisk
  <2>2. Newest'
    BY <1>13 DEF Promote, TypeOK, Newest
  <2>3. OnDisk'
    BY <1>13 DEF Promote, TypeOK, Newest, OnDisk
  <2>4. Kept'
    BY <1>13 DEF Promote, TypeOK, Newest, OnDisk, Kept
  <2> QED BY <2>1, <2>2, <2>3, <2>4
<1>14. CASE PromoteFails
  <2>1. TypeOK'
    BY <1>14 DEF PromoteFails, StaysParked, Remains, Fail, Fault, TypeOK, Newest, OnDisk
  <2>2. Newest'
    BY <1>14 DEF PromoteFails, StaysParked, Remains, Fail, Fault, TypeOK, Newest
  <2>3. OnDisk'
    BY <1>14 DEF PromoteFails, StaysParked, Remains, Fail, Fault, TypeOK, Newest, OnDisk
  <2>4. Kept'
    BY <1>14 DEF PromoteFails, StaysParked, Remains, Fail, Fault, TypeOK, Newest, OnDisk, Kept
  <2> QED BY <2>1, <2>2, <2>3, <2>4
<1>15. CASE Reload
  <2>1. TypeOK'
    BY <1>15 DEF Reload, Fault, LoadFails, TypeOK, Newest, OnDisk
  <2>2. Newest'
    BY <1>15 DEF Reload, Fault, LoadFails, TypeOK, Newest
  <2>3. OnDisk'
    BY <1>15 DEF Reload, Fault, LoadFails, TypeOK, Newest, OnDisk
  <2>4. Kept'
    BY <1>15 DEF Reload, Fault, LoadFails, TypeOK, Newest, OnDisk, Kept
  <2> QED BY <2>1, <2>2, <2>3, <2>4
<1>16. CASE Swap
  <2>1. TypeOK'
    BY <1>16 DEF Swap, TypeOK, Newest, OnDisk
  <2>2. Newest'
    BY <1>16 DEF Swap, TypeOK, Newest
  <2>3. OnDisk'
    BY <1>16 DEF Swap, TypeOK, Newest, OnDisk
  <2>4. Kept'
    BY <1>16 DEF Swap, TypeOK, Newest, OnDisk, Kept
  <2> QED BY <2>1, <2>2, <2>3, <2>4
<1>17. CASE Clean
  <2>1. TypeOK'
    BY <1>17 DEF Clean, Fault, Reported, TypeOK, Newest, OnDisk
  <2>2. Newest'
    BY <1>17 DEF Clean, Fault, Reported, TypeOK, Newest
  <2>3. OnDisk'
    BY <1>17 DEF Clean, Fault, Reported, TypeOK, Newest, OnDisk
  <2>4. Kept'
    BY <1>17 DEF Clean, Fault, Reported, TypeOK, Newest, OnDisk, Kept
  <2> QED BY <2>1, <2>2, <2>3, <2>4
<1>18. CASE Drop
  <2>1. TypeOK'
    BY <1>18 DEF Drop, Fail, Fault, TypeOK, Newest, OnDisk
  <2>2. Newest'
    BY <1>18 DEF Drop, Fail, Fault, TypeOK, Newest
  <2>3. OnDisk'
    BY <1>18 DEF Drop, Fail, Fault, TypeOK, Newest, OnDisk
  <2>4. Kept'
    BY <1>18 DEF Drop, Fail, Fault, TypeOK, Newest, OnDisk, Kept
  <2> QED BY <2>1, <2>2, <2>3, <2>4
<1>19. CASE Restore
  <2>1. TypeOK'
    BY <1>19 DEF Restore, TypeOK, Newest, OnDisk
  <2>2. Newest'
    BY <1>19 DEF Restore, TypeOK, Newest
  <2>3. OnDisk'
    BY <1>19 DEF Restore, TypeOK, Newest, OnDisk
  <2>4. Kept'
    BY <1>19 DEF Restore, TypeOK, Newest, OnDisk, Kept
  <2> QED BY <2>1, <2>2, <2>3, <2>4
<1>19a. CASE RestoreFails
  <2>1. TypeOK'
    BY <1>19a DEF RestoreFails, StaysParked, Fail, Fault, TypeOK, Newest, OnDisk
  <2>2. Newest'
    BY <1>19a DEF RestoreFails, StaysParked, Fail, Fault, TypeOK, Newest
  <2>3. OnDisk'
    BY <1>19a DEF RestoreFails, StaysParked, Fail, Fault, TypeOK, Newest, OnDisk
  <2>4. Kept'
    BY <1>19a DEF RestoreFails, StaysParked, Fail, Fault, TypeOK, Newest, OnDisk, Kept
  <2> QED BY <2>1, <2>2, <2>3, <2>4
<1>20. CASE Rereload
  <2>1. TypeOK'
    BY <1>20 DEF Rereload, Fault, LoadFails, Fail, TypeOK, Newest, OnDisk
  <2>2. Newest'
    BY <1>20 DEF Rereload, Fault, LoadFails, Fail, TypeOK, Newest
  <2>3. OnDisk'
    BY <1>20 DEF Rereload, Fault, LoadFails, Fail, TypeOK, Newest, OnDisk
  <2>4. Kept'
    BY <1>20 DEF Rereload, Fault, LoadFails, Fail, TypeOK, Newest, OnDisk, Kept
  <2> QED BY <2>1, <2>2, <2>3, <2>4
<1>21. CASE Reswap
  <2>1. TypeOK'
    BY <1>21 DEF Reswap, Fail, TypeOK, Newest, OnDisk
  <2>2. Newest'
    BY <1>21 DEF Reswap, Fail, TypeOK, Newest
  <2>3. OnDisk'
    BY <1>21 DEF Reswap, Fail, TypeOK, Newest, OnDisk
  <2>4. Kept'
    BY <1>21 DEF Reswap, Fail, TypeOK, Newest, OnDisk, Kept
  <2> QED BY <2>1, <2>2, <2>3, <2>4
<1>22. CASE WatchStep
  <2>1. UNCHANGED <<kv, disk, sdir, seen, handler, damage, crashes>> /\ faults' \in 0..MaxFault
    BY <1>22 DEF WatchStep, WatchDir, WatchPrint, WatchCompare, WatchNames, WatchFiles,
                 WatchGiveUp, WatchSet, WatchSwap, Fault, LoadFails, TypeOK
  <2>2. /\ sprint' \in Tree /\ current' \in Tree
        /\ wdir' \in {"boot", "live"} /\ wprint' \in Tree /\ wload' \in Tree
        /\ wpc' \in {"off", "tick", "print", "compare", "names", "files", "giveup", "set", "swap"}
    BY <1>22 DEF WatchStep, WatchDir, WatchPrint, WatchCompare, WatchNames, WatchFiles,
                 WatchGiveUp, WatchSet, WatchSwap, setPrint, LoadFails, TypeOK
  <2>3. TypeOK'
    BY <2>1, <2>2 DEF TypeOK
  <2> QED BY <2>1, <2>3, OthersKeep
<1>23. CASE UNCHANGED vars
  BY <1>23 DEF vars, TypeOK, Newest, OnDisk, Kept
<1> QED
  BY <1>1, <1>2, <1>3, <1>4, <1>4a, <1>4b, <1>4c, <1>5, <1>6, <1>7, <1>8, <1>9, <1>10, <1>11, <1>12, <1>13,
     <1>14, <1>15, <1>16, <1>17, <1>18, <1>19, <1>19a, <1>20, <1>21, <1>22, <1>23
     DEF Next, DesiredStep, StartStep, ApplyStep

(* The variables keep their types in every behaviour. *)
THEOREM TypeCorrect == Safe => []TypeOK
<1>1. IInv => TypeOK
  BY DEF IInv
<1> QED BY <1>1, InitIInv, NextIInv, PTL DEF Safe

(* Between two manifests the store points at the live tree, and that is    *)
(* the generation the heartbeat reports, whichever step of Apply failed    *)
(* and however the store watcher ran beside it.  Left out are just the     *)
(* states after an error Apply ignores: a failed rename back, and a        *)
(* generation written over a staging tree that could not be removed.       *)
THEOREM ReportedIsLiveAlways == Safe => []ReportedIsLive
<1>1. IInv => ReportedIsLive
  BY DEF IInv, Kept, ReportedIsLive
<1> QED BY <1>1, InitIInv, NextIInv, PTL DEF Safe

(* At every step of the exchange of directories, the generation in force   *)
(* is on disk until its successor has been loaded, although any call may   *)
(* fail.  After a rename back that failed it is under .prev until the next *)
(* Apply removes it.                                                       *)
THEOREM InForceIsOnDiskAlways == Safe => []InForceIsOnDisk
<1>1. IInv => InForceIsOnDisk
  BY DEF IInv, TypeOK, Kept, InForceIsOnDisk, Newest, Starting, NotApplied
<1> QED BY <1>1, InitIInv, NextIInv, PTL DEF Safe

(* No step of a running process reports an older generation than the one   *)
(* before: a retry that comes late does not undo a newer manifest.         *)
THEOREM NeverGoesBackAlways == Safe => NeverGoesBack
<1>1. ASSUME IInv, [Next]_vars
      PROVE  [hpc' = "down" \/ applied'.rev >= applied.rev]_vars
  <2> USE <1>1 DEF IInv, handler
  <2>1. applied' = applied \/ hpc' = "down" \/ Clean \/ applied' = [applied EXCEPT !.apply = "failed"]
    BY DEF Next, Publish, HandEdit, Crash, DesiredStep, ApplyStep, StartStep, StartNames,
           StartFiles, StartPrint, Bootstrap, TakeEntry, Retry, FetchOK, FetchFails, Stage, RemovePrev, Park, ParkFails, Promote, PromoteFails, Reload,
           Swap, Drop, Restore, RestoreFails, Rereload, Reswap, Fail, WatchStep, WatchDir, WatchPrint,
           WatchCompare, WatchNames, WatchFiles, WatchGiveUp, WatchSet, WatchSwap, vars
  <2>2. applied.rev \in Int /\ applied \in [rev : 0..MaxRev, apply : {"none", "ok", "failed"}]
    BY BoundAssumption DEF TypeOK
  <2>3. CASE Clean
    BY <2>2, <2>3 DEF Clean, Reported, Newest, Starting, Rev
  <2> QED BY <2>1, <2>2, <2>3
<1> QED BY <1>1, InitIInv, NextIInv, PTL DEF Safe, NeverGoesBack
=============================================================================
