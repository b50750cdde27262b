----------------------------- MODULE MCPoolLive -----------------------------
(* Pool on the instance of the liveness runs: no symmetry. *)
EXTENDS Pool, TLC
CONSTANTS w1, t1, t2, t3
MCWorker == {w1}
MCTask == {t1, t2, t3}
MCDeadline == (t1 :> 2) @@ (t2 :> 1) @@ (t3 :> 1)
=============================================================================
