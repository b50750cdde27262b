------------------------------ MODULE MCMirror ------------------------------
(***************************************************************************)
(* Mirror on addresses of one bit: half, other and all are the networks.   *)
(* The changes add, renew and remove, and within an epoch a network that   *)
(* expires early lies inside one that does not.                            *)
(***************************************************************************)
EXTENDS Mirror, TLC
all == <<>>
half == <<0>>
other == <<1>>
MCContent == [e \in 1..MaxEpoch |-> [s \in 0..MaxSeq |->
    IF e = 1 THEN << half :> 1,
                     (half :> 2) @@ (all :> 0),
                     all :> 0,
                     (other :> 2) @@ (half :> 1) >>[s + 1]
             ELSE << other :> 0,
                     (other :> 1) @@ (all :> 2),
                     (other :> 1) @@ (all :> 0),
                     half :> 0 >>[s + 1]]]
=============================================================================
