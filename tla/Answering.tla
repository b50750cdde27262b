------------------------------ MODULE Answering ------------------------------
(***************************************************************************)
(* What the inspector's queue promises the module that asks it: a request  *)
(* that was handed to it gets one answer, with one of the three reasons,   *)
(* and gets it at some point.  Nothing is said of how long a request waits *)
(* or of who answers it.                                                   *)
(***************************************************************************)
EXTENDS Sequences

CONSTANT Task        \* the requests

(***************************************************************************)
(* How a request ends: the worker ran the rules, its time was up, or there *)
(* was no place in the queue.                                              *)
(***************************************************************************)
Verdict == {"evaluated", "deadline", "limit"}

VARIABLES taken,     \* requests handed to the queue
          replies    \* the answers given to each request

avars == <<taken, replies>>

AInit == /\ taken = {}
         /\ replies = [t \in Task |-> <<>>]

ATake(t) == /\ t \in Task \ taken
            /\ taken' = taken \cup {t}
            /\ UNCHANGED replies

AAnswer(t, v) == /\ t \in taken
                 /\ replies[t] = <<>>
                 /\ replies' = [replies EXCEPT ![t] = <<v>>]
                 /\ UNCHANGED taken

ANext == \E t \in Task : ATake(t) \/ \E v \in Verdict : AAnswer(t, v)

ASafe == AInit /\ [][ANext]_avars

ALive == \A t \in Task : WF_avars(\E v \in Verdict : AAnswer(t, v))

ASpec == ASafe /\ ALive
==============================================================================
