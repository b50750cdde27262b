------------------------------- MODULE MCPool -------------------------------
(* Pool on a small instance: two workers and three requests. *)
EXTENDS Pool, TLC
CONSTANTS w1, w2, t1, t2, t3
MCWorker == {w1, w2}
MCTask == {t1, t2, t3}
MCDeadline == (t1 :> 2) @@ (t2 :> 3) @@ (t3 :> 3)
Symmetry == Permutations({w1, w2})
=============================================================================
