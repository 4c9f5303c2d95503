----------------------------- MODULE MCContexts -----------------------------
(* A small embedding: host threads that launch programs on the three      *)
(* engines, and threads that the programs create.                          *)
EXTENDS Contexts, TLC

CONSTANTS h1, h2, w1, w2, p1, p2, p3, a1, a2

MCEngine == [p \in Programs |-> IF p = p1 THEN "vm"
                               ELSE IF p = p2 THEN "x86_32" ELSE "esp32s3"]
MCCallbacks == [p \in Programs |-> IF p = p2 THEN 2 ELSE 1]

=============================================================================
