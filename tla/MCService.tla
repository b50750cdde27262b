----------------------------- MODULE MCService -----------------------------
(***************************************************************************)
(* Service with three requests over two audit subjects, the last with an   *)
(* event that is a batch by its size alone.                                *)
(***************************************************************************)
EXTENDS Service, TLC
CONSTANTS r1, r2, r3, a, b
MCEvent == {r1, r2, r3}
MCSubject == (r1 :> a) @@ (r2 :> b) @@ (r3 :> a)
MCSize == (r1 :> 1) @@ (r2 :> 1) @@ (r3 :> 3)
=============================================================================
