------------------------------ MODULE WorkQueue ------------------------------
(***************************************************************************)
(* What the queue of runtime_threadutil.c promises to the programs that    *)
(* use it: a bounded first-in first-out queue of tasks that loses none,    *)
(* hands none out twice, and lets a joiner go only at a moment when every  *)
(* task put so far is done.  No mutex, no condition variable, no ring.     *)
(***************************************************************************)
EXTENDS Naturals, Sequences

CONSTANTS Producers, Consumers, Joiners, NoElement, Capacities, Calls

VARIABLES
    bound,      \* how many tasks fit
    items,      \* the tasks waiting, oldest first
    hand,       \* the task each consumer works on, or NoElement
    unfinished, \* tasks put and not yet reported done
    owed        \* puts and joins that have yet to take effect

vars == <<bound, items, hand, unfinished, owed>>

Init ==
    /\ bound \in Capacities
    /\ items = <<>>
    /\ hand = [c \in Consumers |-> NoElement]
    /\ unfinished = 0
    /\ owed = [t \in Producers \cup Joiners |-> Calls[t]]

Put(p) ==
    /\ owed[p] > 0 /\ Len(items) < bound
    /\ items' = Append(items, <<p, owed[p]>>)
    /\ unfinished' = unfinished + 1
    /\ owed' = [owed EXCEPT ![p] = @ - 1]
    /\ UNCHANGED <<bound, hand>>

Get(c) ==
    /\ hand[c] = NoElement /\ items # <<>>
    /\ hand' = [hand EXCEPT ![c] = Head(items)]
    /\ items' = Tail(items)
    /\ UNCHANGED <<bound, unfinished, owed>>

Done(c) ==
    /\ hand[c] # NoElement /\ unfinished > 0
    /\ hand' = [hand EXCEPT ![c] = NoElement]
    /\ unfinished' = unfinished - 1
    /\ UNCHANGED <<bound, items, owed>>

Join(j) ==
    /\ owed[j] > 0 /\ unfinished = 0
    /\ owed' = [owed EXCEPT ![j] = @ - 1]
    /\ UNCHANGED <<bound, items, hand, unfinished>>

Next ==
    \/ \E p \in Producers : Put(p)
    \/ \E c \in Consumers : Get(c) \/ Done(c)
    \/ \E j \in Joiners : Join(j)

Spec == Init /\ [][Next]_vars

=============================================================================
