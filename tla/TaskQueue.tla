------------------------------ MODULE TaskQueue ------------------------------
(***************************************************************************)
(* The bounded task queue of runtime_threadutil.c: a ring buffer guarded   *)
(* by one mutex and three condition variables, offered to Forth programs   *)
(* as queue-init, queue-put, queue-get, queue-task-done, queue-join and    *)
(* queue-destroy.                                                          *)
(*                                                                         *)
(* A thread that is inside a call has op[t] # "none", and at[t] says where *)
(* it is: waiting for the mutex ("lock"), in front of the while condition  *)
(* ("check"), in front of pthread_cond_signal ("signal"), in front of the  *)
(* bookkeeping and the unlock ("commit"), or inside pthread_cond_wait      *)
(* ("asleep").  A thread that pthread_cond_wait lets go, because it was    *)
(* signalled or spuriously, is back at "lock".                             *)
(***************************************************************************)
EXTENDS Naturals, FiniteSets

CONSTANTS
    Producers, Consumers, Joiners,  \* threads, by the operation they call
    Nobody,                         \* the holder of a free mutex
    NoElement,                      \* a slot or a hand without an element
    Capacities,                     \* values of nels a program may ask for
    Calls,                          \* how many calls each thread makes
    MaxSpurious                     \* bound on spurious wakeups

Threads == Producers \cup Consumers \cup Joiners

(* What a producer's k-th last call puts; payload bytes are not modelled.  *)
Elements == UNION {{<<p, k>> : k \in 1..Calls[p]} : p \in Producers}

ASSUME QueueAssumption ==
    /\ Producers \cap Consumers = {}
    /\ Producers \cap Joiners = {}
    /\ Consumers \cap Joiners = {}
    /\ Nobody \notin Threads
    /\ NoElement \notin Elements
    /\ Capacities \subseteq Nat \ {0}
    /\ Calls \in [Threads -> Nat]
    /\ MaxSpurious \in Nat

(* The calls of queue-get a program makes.                                 *)
Requests == UNION {{<<c, k>> : k \in 1..Calls[c]} : c \in Consumers}

(* What a program that destroys its queue answers for: it gets no more     *)
(* often than it puts, and whoever destroys the queue has joined it.       *)
ASSUME WorkloadAssumption ==
    /\ IsFiniteSet(Elements) /\ IsFiniteSet(Requests)
    /\ Cardinality(Requests) <= Cardinality(Elements)
    /\ \A j \in Joiners : Calls[j] > 0

VARIABLES
    nels, slots, nextOut, len, unfinished,  \* the fields of queue_t
    mutex,                                  \* its holder
    op, at, el,                             \* each thread's call
    calls,                                  \* calls a thread has yet to make
    spurious,                               \* spurious wakeups so far
    destroyed                               \* queue-destroy was called

ring == <<nels, slots, nextOut, len, unfinished>>
vars == <<ring, mutex, op, at, el, calls, spurious, destroyed>>

Ops == {"none", "put", "get", "task_done", "join"}
Places == {"out", "lock", "check", "signal", "commit", "asleep"}
Critical == {"check", "signal", "commit"}

(* Fault: the wrap comes one slot late.                                    *)
WrapLate(i) == IF i > nels THEN i - nels ELSE i

(* The wrap of next_in and next_out: one conditional subtraction.          *)
Wrap(i) == IF i >= nels THEN i - nels ELSE i

(* queue_init, before any thread uses the queue.                           *)
Init ==
    /\ nels \in Capacities
    /\ slots = [i \in 0..(nels - 1) |-> NoElement]
    /\ nextOut = 0
    /\ len = 0
    /\ unfinished = 0
    /\ mutex = Nobody
    /\ op = [t \in Threads |-> "none"]
    /\ at = [t \in Threads |-> "out"]
    /\ el = [t \in Threads |-> NoElement]
    /\ calls = Calls
    /\ spurious = 0
    /\ destroyed = FALSE

-----------------------------------------------------------------------------
(* Condition variables.                                                    *)

(* Fault: queue_join looks at len instead of unfinished_tasks.             *)
BlockedByLen(o) ==
    \/ o = "put" /\ len = nels
    \/ o = "get" /\ len = 0
    \/ o = "join" /\ len # 0

(* The while condition in front of which a caller of o waits.              *)
Blocked(o) ==
    \/ o = "put" /\ len = nels
    \/ o = "get" /\ len = 0
    \/ o = "join" /\ unfinished # 0

(* The threads inside pthread_cond_wait on the condition callers of o use. *)
Sleepers(o) == {t \in Threads : op[t] = o /\ at[t] = "asleep"}

(* Thread t goes on to `next`, signalling the condition of o on its way if *)
(* `when` holds: pthread_cond_signal lets one sleeper go, if there is one. *)
Signal(t, next, when, o) ==
    IF when /\ Sleepers(o) # {}
    THEN \E w \in Sleepers(o) : at' = [at EXCEPT ![t] = next, ![w] = "lock"]
    ELSE at' = [at EXCEPT ![t] = next]

(* The call of t ends: its mutex is released and its caller goes on.       *)
Return(t) ==
    /\ mutex' = Nobody
    /\ op' = [op EXCEPT ![t] = "none"]

-----------------------------------------------------------------------------
(* The client: what the threads of a program call.                         *)

Start(t, o) ==
    /\ op[t] = "none"
    /\ op' = [op EXCEPT ![t] = o]
    /\ at' = [at EXCEPT ![t] = "lock"]
    /\ UNCHANGED <<ring, mutex, spurious, destroyed>>

StartPut(t) ==
    /\ t \in Producers /\ calls[t] > 0
    /\ Start(t, "put")
    /\ el' = [el EXCEPT ![t] = <<t, calls[t]>>]
    /\ calls' = [calls EXCEPT ![t] = @ - 1]

StartGet(t) ==
    /\ t \in Consumers /\ calls[t] > 0 /\ el[t] = NoElement
    /\ Start(t, "get")
    /\ calls' = [calls EXCEPT ![t] = @ - 1]
    /\ UNCHANGED el

(* A consumer reports the task it got before it asks for another.          *)
StartTaskDone(t) ==
    /\ t \in Consumers /\ el[t] # NoElement
    /\ Start(t, "task_done")
    /\ UNCHANGED <<el, calls>>

AllPutsReturned == \A p \in Producers : calls[p] = 0 /\ op[p] = "none"

(* The last join of a thread is made when no put is outstanding: it is the *)
(* one that a program relies on before queue-destroy.                      *)
StartJoin(t) ==
    /\ t \in Joiners /\ calls[t] > 0
    /\ calls[t] = 1 => AllPutsReturned
    /\ Start(t, "join")
    /\ calls' = [calls EXCEPT ![t] = @ - 1]
    /\ UNCHANGED el

(* queue_destroy, once every joiner is back from its last join.            *)
Destroy(t) ==
    /\ t \in Joiners /\ ~destroyed
    /\ \A j \in Joiners : calls[j] = 0 /\ op[j] = "none"
    /\ destroyed' = TRUE
    /\ UNCHANGED <<ring, mutex, op, at, el, calls, spurious>>

-----------------------------------------------------------------------------
(* The operations, from pthread_mutex_lock to pthread_mutex_unlock.        *)

(* Fault: the mutex is not waited for.                                     *)
LockTaken(t) ==
    /\ at[t] = "lock"
    /\ mutex' = t
    /\ at' = [at EXCEPT ![t] = "check"]
    /\ UNCHANGED <<ring, op, el, calls, spurious, destroyed>>

Lock(t) ==
    /\ at[t] = "lock" /\ mutex = Nobody
    /\ mutex' = t
    /\ at' = [at EXCEPT ![t] = "check"]
    /\ UNCHANGED <<ring, op, el, calls, spurious, destroyed>>

(* pthread_cond_wait releases the mutex and sleeps in one step.            *)
Wait(t) ==
    /\ at[t] = "check" /\ Blocked(op[t])
    /\ mutex' = Nobody
    /\ at' = [at EXCEPT ![t] = "asleep"]
    /\ UNCHANGED <<ring, op, el, calls, spurious, destroyed>>

SpuriousWakeup(t) ==
    /\ at[t] = "asleep" /\ spurious < MaxSpurious
    /\ spurious' = spurious + 1
    /\ at' = [at EXCEPT ![t] = "lock"]
    /\ UNCHANGED <<ring, mutex, op, el, calls, destroyed>>

PutCopy(t) ==
    /\ op[t] = "put" /\ at[t] = "check" /\ ~Blocked("put")
    /\ slots' = [slots EXCEPT ![Wrap(nextOut + len)] = el[t]]
    /\ at' = [at EXCEPT ![t] = "signal"]
    /\ UNCHANGED <<nels, nextOut, len, unfinished, mutex, op, el, calls,
                   spurious, destroyed>>

(* Fault: the test of queue_put is made as if len were already greater.    *)
PutSignalLate(t) ==
    /\ op[t] = "put" /\ at[t] = "signal"
    /\ Signal(t, "commit", len = 1, "get")
    /\ UNCHANGED <<ring, mutex, op, el, calls, spurious, destroyed>>

PutSignal(t) ==
    /\ op[t] = "put" /\ at[t] = "signal"
    /\ Signal(t, "commit", len = 0, "get")
    /\ UNCHANGED <<ring, mutex, op, el, calls, spurious, destroyed>>

PutCommit(t) ==
    /\ op[t] = "put" /\ at[t] = "commit"
    /\ len' = len + 1
    /\ unfinished' = unfinished + 1
    /\ el' = [el EXCEPT ![t] = NoElement]
    /\ at' = [at EXCEPT ![t] = "out"]
    /\ Return(t)
    /\ UNCHANGED <<nels, slots, nextOut, calls, spurious, destroyed>>

(* Fault: queue_get copies the newest element instead of the oldest.       *)
GetCopyNewest(t) ==
    /\ op[t] = "get" /\ at[t] = "check" /\ ~Blocked("get")
    /\ el' = [el EXCEPT ![t] = slots[Wrap(nextOut + len - 1)]]
    /\ at' = [at EXCEPT ![t] = "signal"]
    /\ UNCHANGED <<ring, mutex, op, calls, spurious, destroyed>>

GetCopy(t) ==
    /\ op[t] = "get" /\ at[t] = "check" /\ ~Blocked("get")
    /\ el' = [el EXCEPT ![t] = slots[nextOut]]
    /\ at' = [at EXCEPT ![t] = "signal"]
    /\ UNCHANGED <<ring, mutex, op, calls, spurious, destroyed>>

(* Fault: the test of queue_get is made as if len were already smaller.    *)
GetSignalLate(t) ==
    /\ op[t] = "get" /\ at[t] = "signal"
    /\ Signal(t, "commit", len - 1 = nels, "put")
    /\ UNCHANGED <<ring, mutex, op, el, calls, spurious, destroyed>>

GetSignal(t) ==
    /\ op[t] = "get" /\ at[t] = "signal"
    /\ Signal(t, "commit", len = nels, "put")
    /\ UNCHANGED <<ring, mutex, op, el, calls, spurious, destroyed>>

(* Fault: queue_get already counts the task as finished.                   *)
GetCommitDone(t) ==
    /\ op[t] = "get" /\ at[t] = "commit"
    /\ len' = len - 1
    /\ unfinished' = unfinished - 1
    /\ nextOut' = Wrap(nextOut + 1)
    /\ at' = [at EXCEPT ![t] = "out"]
    /\ Return(t)
    /\ UNCHANGED <<nels, slots, el, calls, spurious, destroyed>>

GetCommit(t) ==
    /\ op[t] = "get" /\ at[t] = "commit"
    /\ len' = len - 1
    /\ nextOut' = Wrap(nextOut + 1)
    /\ at' = [at EXCEPT ![t] = "out"]
    /\ Return(t)
    /\ UNCHANGED <<nels, slots, unfinished, el, calls, spurious, destroyed>>

(* The guard unfinished # 0 is the assertion of queue_task_done: a program *)
(* that fails it is aborted.                                               *)
TaskDone(t) ==
    /\ op[t] = "task_done" /\ at[t] = "check" /\ unfinished # 0
    /\ unfinished' = unfinished - 1
    /\ el' = [el EXCEPT ![t] = NoElement]
    /\ Signal(t, "out", unfinished' = 0, "join")
    /\ Return(t)
    /\ UNCHANGED <<nels, slots, nextOut, len, calls, spurious, destroyed>>

JoinReturn(t) ==
    /\ op[t] = "join" /\ at[t] = "check" /\ ~Blocked("join")
    /\ at' = [at EXCEPT ![t] = "out"]
    /\ Return(t)
    /\ UNCHANGED <<ring, el, calls, spurious, destroyed>>

-----------------------------------------------------------------------------
Step(t) ==
    \/ StartPut(t) \/ StartGet(t) \/ StartTaskDone(t) \/ StartJoin(t)
    \/ Lock(t) \/ Wait(t)
    \/ PutCopy(t) \/ PutSignal(t) \/ PutCommit(t)
    \/ GetCopy(t) \/ GetSignal(t) \/ GetCommit(t)
    \/ TaskDone(t) \/ JoinReturn(t) \/ Destroy(t)

Next == \E t \in Threads : Step(t) \/ SpuriousWakeup(t)

Spec == Init /\ [][Next]_vars

(* Every thread keeps running its program; nothing is assumed of the order *)
(* in which the mutex is granted.  The calls are finitely many, so nobody  *)
(* can be overtaken for ever.                                              *)
FairSpec == Spec /\ \A t \in Threads : WF_vars(Step(t))

-----------------------------------------------------------------------------
(* Properties.                                                             *)

(* Every field stays in its range; in particular next_out indexes buf and  *)
(* len never leaves 0..nels, whatever the order of the calls.              *)
TypeOK ==
    /\ nels \in Capacities
    /\ slots \in [0..(nels - 1) -> Elements \cup {NoElement}]
    /\ nextOut \in 0..(nels - 1)
    /\ len \in 0..nels
    /\ unfinished \in Nat
    /\ mutex \in Threads \cup {Nobody}
    /\ op \in [Threads -> Ops]
    /\ at \in [Threads -> Places]
    /\ el \in [Threads -> Elements \cup {NoElement}]
    /\ calls \in [Threads -> Nat]
    /\ spurious \in Nat
    /\ destroyed \in BOOLEAN

(* A thread inside a call is one whose role is to make it, and what it     *)
(* carries fits the call.                                                  *)
CallsFit ==
    \A t \in Threads :
        /\ calls[t] <= Calls[t]
        /\ op[t] = "none" <=> at[t] = "out"
        /\ op[t] = "put" => /\ t \in Producers /\ calls[t] < Calls[t]
                            /\ el[t] = <<t, calls[t] + 1>>
        /\ op[t] = "get" => t \in Consumers /\ calls[t] < Calls[t]
        /\ op[t] = "task_done" => /\ t \in Consumers /\ el[t] # NoElement
                                  /\ at[t] \in {"lock", "check"}
        /\ op[t] = "join" => /\ t \in Joiners
                             /\ at[t] \in {"lock", "check", "asleep"}

MutexHeld == \A t \in Threads : at[t] \in Critical <=> mutex = t

(* Between the copy and the bookkeeping the ring still has room for the    *)
(* element put, or still counts the element taken, and nobody has touched  *)
(* its slot: len, next_out and the slot read before pthread_cond_signal    *)
(* are what the commit after it relies on.                                 *)
InFlight ==
    \A t \in Threads : at[t] \in {"signal", "commit"} =>
        /\ op[t] = "put" => len < nels /\ slots[Wrap(nextOut + len)] = el[t]
        /\ op[t] = "get" => len > 0 /\ slots[nextOut] = el[t]

Lone(S) == \A a, b \in S : a = b

(* When the single pthread_cond_signal on an empty-to-nonempty or          *)
(* full-to-nonfull change is enough: the queue holds one element, or at    *)
(* most one thread ever waits on each condition.                           *)
SignalsSuffice(o) ==
    CASE o = "put"  -> nels = 1 \/ Lone(Producers)
      [] o = "get"  -> nels = 1 \/ Lone(Consumers)
      [] o = "join" -> Lone(Joiners)

(* A thread is serving itself: it has been let go or has just called, and  *)
(* will look at the while condition again or is already past it.           *)
OnTheWay(o) ==
    \E t \in Threads : op[t] = o /\ at[t] \in {"lock", "check", "signal", "commit"}

(* No lost wakeup: where signals suffice, a thread sleeps in queue_put,    *)
(* queue_get or queue_join while its condition is over only if another     *)
(* caller of the same operation is on its way to take the turn.            *)
NoLostWakeup ==
    \A o \in {"put", "get", "join"} :
        (SignalsSuffice(o) /\ Sleepers(o) # {} /\ ~Blocked(o)) => OnTheWay(o)

(* The signal comes before the change it announces: when the change is     *)
(* about to be made, a thread it concerns is on its way or none sleeps.    *)
Announced ==
    \A t \in Threads : at[t] = "commit" =>
        /\ (op[t] = "put" /\ len = 0) => (Sleepers("get") = {} \/ OnTheWay("get"))
        /\ (op[t] = "get" /\ len = nels) => (Sleepers("put") = {} \/ OnTheWay("put"))

(* The inductive invariant.                                                *)
QueueInv == TypeOK /\ CallsFit /\ MutexHeld /\ InFlight /\ Announced /\ NoLostWakeup

(* The elements in the ring, oldest first.                                 *)
Contents == [i \in 1..len |-> slots[Wrap(nextOut + i - 1)]]

Pending(t, o) == IF op[t] = o THEN calls[t] + 1 ELSE calls[t]

(* The tasks handed out, the puts not yet in the ring and the gets that    *)
(* have not yet taken anything out of it.                                  *)
Holding == {c \in Consumers : op[c] # "get" /\ el[c] # NoElement}
OwedPuts == {e \in Elements : e[2] <= Pending(e[1], "put")}
OwedGets == {r \in Requests : r[2] <= Pending(r[1], "get")}

(* The elements len counts are elements.                                   *)
Filled == \A i \in 1..len : Contents[i] # NoElement

(* unfinished_tasks counts the tasks in the ring and those handed out.     *)
Tally == IsFiniteSet(Holding) /\ unfinished = len + Cardinality(Holding)

(* The ring and the puts to come serve every get to come.                  *)
Served == Cardinality(OwedGets) <= Cardinality(OwedPuts) + len

(* The last join of a thread starts behind the last put, and ends when     *)
(* nothing is unfinished; the queue is destroyed behind all of them.       *)
JoinedLast ==
    \A j \in Joiners : calls[j] = 0 =>
        AllPutsReturned /\ (op[j] = "none" => unfinished = 0)
DestroyedLast ==
    destroyed => Joiners # {} /\ \A j \in Joiners : calls[j] = 0 /\ op[j] = "none"

(* What the counts of the queue add up to, in every state: inductive       *)
(* beside QueueInv.                                                        *)
CountInv == Filled /\ Tally /\ Served /\ JoinedLast /\ DestroyedLast

(* The assertion of queue_task_done at runtime_threadutil.c:115 holds for  *)
(* consumers that report each task they got once: neither a get nor a put  *)
(* in flight can leave unfinished_tasks behind the tasks handed out.       *)
TaskDoneAsserts ==
    \A t \in Threads : (op[t] = "task_done" /\ at[t] = "check") => unfinished # 0

(* queue-destroy after the last queue-join finds nobody inside the queue   *)
(* and nothing in it, although queue_join looks only at unfinished_tasks   *)
(* and never at len, at the mutex or at the sleepers.                      *)
DestroyedIdle ==
    destroyed => /\ mutex = Nobody /\ len = 0
                 /\ \A t \in Threads : op[t] = "none" /\ calls[t] = 0


Abstract == INSTANCE WorkQueue WITH
    bound <- nels,
    items <- Contents,
    hand <- [c \in Consumers |-> IF op[c] = "get" THEN NoElement ELSE el[c]],
    owed <- [t \in Producers \cup Joiners |->
                Pending(t, IF t \in Producers THEN "put" ELSE "join")]

(* The queue implements the abstract one: tasks leave in the order of the  *)
(* puts, each once, never more than nels wait, and a joiner returns only   *)
(* when all tasks put so far are done.                                     *)
ImplementsWorkQueue == Abstract!Spec

(* Where signals suffice every call returns, and the program gets as far   *)
(* as queue-destroy.                                                       *)
WorkloadCompletes ==
    (\A o \in {"put", "get", "join"} : SignalsSuffice(o)) ~> destroyed

(* What the while condition of queue_put says, and what does not hold for  *)
(* two producers of a longer queue: a thread in queue_put waits for a full *)
(* queue to drain, and so returns when the consumers take everything.      *)
EveryPutReturns ==
    \A p \in Producers : op[p] = "put" ~> op[p] = "none"

=============================================================================
