----------------------------- MODULE MCTaskQueue -----------------------------
(* Small programs around one queue.                                        *)
EXTENDS TaskQueue, TLC

CONSTANTS p1, p2, c1, c2, j1

(* One thread of each kind: four puts through rings of one to three slots, *)
(* so that the ring wraps and both the empty and the full wait occur.      *)
OneEachCalls == (p1 :> 4) @@ (c1 :> 4) @@ (j1 :> 2)

(* Two of each: four puts in two threads, gets split two and two.          *)
TwoEachCalls == (p1 :> 2) @@ (p2 :> 2) @@ (c1 :> 2) @@ (c2 :> 2) @@ (j1 :> 1)

(* Two producers, one of which puts once, and a single consumer.           *)
TwoPutCalls == (p1 :> 3) @@ (p2 :> 1) @@ (c1 :> 4) @@ (j1 :> 1)

=============================================================================
