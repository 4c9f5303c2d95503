------------------------------- MODULE Chores -------------------------------
(***************************************************************************)
(* How native code saves stack traffic between neighbours.  The top cell   *)
(* lives in a register, top; depth points to the cell under it in memory.  *)
(* A fragment that pushes begins with the chores                           *)
(*     A   move depth up        B   store top at depth                     *)
(* and one that drops ends with                                            *)
(*     Y   load top from depth  Z   move depth down                        *)
(* A fragment leaves chores out when its neighbour's chores undo them      *)
(* (m4_backend_fragment_get_needed_chores in mcp_forth.c).  CLOB says that *)
(* the fragment loads top right after A and B.                             *)
(***************************************************************************)
EXTENDS Integers, Sequences, FiniteSets

Flags == {"A", "B", "CLOB", "Y", "Z"}

(* backend_generator.py derives flags in this order: B only after A, CLOB  *)
(* only with both, Y only before Z.                                        *)
WellFormed(fl) ==
    /\ fl \subseteq Flags
    /\ "B" \in fl => "A" \in fl
    /\ "CLOB" \in fl => "B" \in fl
    /\ "Y" \in fl => "Z" \in fl

(* Chores the fragment above makes unnecessary.                            *)
DoneAbove(up) == {c \in {"A", "B"} : "Z" \in up /\ (c = "B" => "Y" \in up)}

(* The flags of a listing, and what is left of it without its chores.      *)
GeneratedFlags(src, clobber) ==
    LET a == Len(src) > 0 /\ src[1] = "A"
        b == a /\ Len(src) > 1 /\ src[2] = "B"
        z == Len(src) > 0 /\ src[Len(src)] = "Z"
        y == z /\ Len(src) > 1 /\ src[Len(src) - 1] = "Y"
    IN  {f \in Flags : CASE f = "A" -> a [] f = "B" -> b [] f = "CLOB" -> b /\ clobber
                         [] f = "Y" -> y [] f = "Z" -> z}
Reduced(src, fl) ==
    LET front == Cardinality(fl \cap {"A", "B"})
    IN  [i \in 1..(Len(src) - front - Cardinality(fl \cap {"Y", "Z"})) |-> src[front + i]]

(* Fault: Y is left out although the fragment below reads top.             *)
DoneBelowKeepsTop(down) == {c \in {"Y", "Z"} : "A" \in down /\ (c = "Y" => "B" \in down)}

(* Chores the fragment below makes unnecessary.                            *)
DoneBelow(down) == {c \in {"Y", "Z"} : "A" \in down /\ (c = "Y" => {"B", "CLOB"} \subseteq down)}

(* The chores a fragment still needs between fragments with the flags up   *)
(* and down; no neighbour has none.                                        *)
NeededChores(fl, up, down) == fl \ (DoneAbove(up) \cup DoneBelow(down))

-----------------------------------------------------------------------------
(* One chore on the registers and the stack memory.                        *)
Chore(c, m) ==
    CASE c = "A" -> [m EXCEPT !.depth = @ + 1]
      [] c = "B" -> [m EXCEPT !.cells = [@ EXCEPT ![m.depth] = m.top]]
      [] c = "Y" -> [m EXCEPT !.top = m.cells[m.depth]]
      [] c = "Z" -> [m EXCEPT !.depth = @ - 1]
ChoreIf(c, fl, m) == IF c \in fl THEN Chore(c, m) ELSE m

(* The code in front of a fragment's body and behind it.                   *)
Opening(fl, m) == ChoreIf("B", fl, ChoreIf("A", fl, m))
Closing(fl, m) == ChoreIf("Z", fl, ChoreIf("Y", fl, m))

=============================================================================
