------------------------------ MODULE Contexts ------------------------------
(***************************************************************************)
(* Who runs on which context.                                              *)
(*                                                                         *)
(* A context holds the stacks and tables of a running program.  A host     *)
(* thread launches programs (m4_*_engine_run); a program starts further    *)
(* threads with thread-create, each on a context of its own that lies in   *)
(* the frame of thread_entry and is filled from its creator's context.  C  *)
(* code may call a callback of a program on any of the program's threads;  *)
(* the thread-local m4_global_ tells which context the callback runs on.   *)
(*                                                                         *)
(* Source: mcp_forth.c, global.h and the three engines.  The root context  *)
(* of a program is named by the program, the context of a created thread   *)
(* by the thread.  A program is launched at most once and a thread is      *)
(* created at most once: the names bound the launches and the threads.     *)
(***************************************************************************)
EXTENDS Integers, Sequences, FiniteSets

CONSTANTS
  Hosts,        \* threads the embedding program runs on
  Workers,      \* threads that thread-create may start
  Programs,     \* the launches that may happen
  Engine,       \* the engine that runs a program: "vm", "x86_32", "esp32s3"
  Callbacks,    \* the number of callbacks a program declares
  MaxCallbacks, \* M4_MAX_CALLBACKS
  Rooms,        \* memory that may be left for a program's data space
  Args,         \* values a thread may be given
  Nobody,       \* no thread, context or argument
  MaxDepth,     \* bound on nested runs and callbacks of one thread
  Disciplined   \* programs join the threads they create before they end

Threads == Hosts \cup Workers
Ctxs == Programs \cup Workers
NoGlobal == [is_main |-> FALSE, used |-> 0, ctxs |-> <<>>]

ASSUME ContextsAssumption ==
  /\ Hosts \cap Workers = {} /\ Programs \cap Threads = {}
  /\ Nobody \notin Threads \cup Ctxs \cup Args
  /\ Engine \in [Programs -> {"vm", "x86_32", "esp32s3"}]
  /\ Callbacks \in [Programs -> Nat]
  /\ MaxCallbacks \in Nat /\ MaxDepth \in Nat
  /\ Rooms \subseteq Nat /\ Disciplined \in BOOLEAN

VARIABLES
  at,       \* control location of each thread
  frames,   \* the contexts a thread is executing on, innermost last
  global,   \* m4_global_ of each thread
  owner,    \* the host that launched a program, or Nobody
  live,     \* programs whose callback slots have not been cleaned up
  offset,   \* callbacks_used when a program was launched
  prog,     \* the program whose tables a context holds, or Nobody
  extra,    \* total_extra_memory_size of a context
  cell,     \* data[-3] of a creator's stack: the argument, then the handle
  entry,    \* entry_arg, on the creator's C stack
  sem,      \* done_with_arg_sem
  thread,   \* the handle pthread_create returned, on the creator's C stack
  parent,   \* whose entry_arg arg_void of a thread points to, or Nobody
  passed,   \* ghost: the argument its creator meant for a thread
  local     \* locals of thread_entry: root, arg, memory_len

launchVars == <<owner, live, offset>>
ctxVars == <<prog, extra>>
createVars == <<cell, entry, sem, thread, parent, passed, local>>
vars == <<at, frames, global, launchVars, ctxVars, createVars>>

-----------------------------------------------------------------------------
(* Memory of a created thread.  Sizes are in bytes; a context is its fields *)
(* of four bytes, a stack STACK_CELL_COUNT of them.                         *)

STACK_BYTES == 100 * 4
(* Fault: the return stack of a created thread is not paid for. *)
NoReturnStackSpace(room) == 16 * 4 + STACK_BYTES + room
VmThreadSpace(room)  == 18 * 4 + STACK_BYTES + STACK_BYTES + room
X86ThreadSpace(room) == 13 * 4 + STACK_BYTES + room
EspThreadSpace(room) == 16 * 4 + STACK_BYTES * 2 + room

thread_extra_stack_space_get(e, room) ==
  CASE e = "vm"      -> VmThreadSpace(room)
    [] e = "x86_32"  -> X86ThreadSpace(room)
    [] e = "esp32s3" -> EspThreadSpace(room)

(* What thread_entry carves out before the data space begins. *)
VmCarved  == 18 * 4 + 2 * STACK_BYTES
X86Carved == 13 * 4 + STACK_BYTES
EspCarved == 16 * 4 + 2 * STACK_BYTES
Carved(e) == CASE e = "vm" -> VmCarved
               [] e = "x86_32" -> X86Carved
               [] e = "esp32s3" -> EspCarved

-----------------------------------------------------------------------------
Gone(t) == at[t] \in {"ended", "joined"}
Top(t) == frames[t][Len(frames[t])]

(* A context of a thread that returned lies in a stack frame that is given *)
(* back: reading it finds anything.                                        *)
Readable(c) == c \in Programs \/ ~Gone(c)
ReadRoom(c) == IF Readable(c) THEN {extra[c]} ELSE Rooms
ReadProg(c) == IF Readable(c) THEN {prog[c]} ELSE Programs

(* m4_global_main_get_callbacks_used *)
MayLaunch(t) == global[t] = NoGlobal \/ global[t].is_main
callbacks_used(t) == global[t].used

(* m4_global_get_ctx *)
get_ctx(t, i) == IF global[t].is_main THEN global[t].ctxs[i + 1]
                 ELSE global[t].ctxs[1]

(* Fault: the new thread is given its creator's context. *)
CreatorRecord(w) == [is_main |-> FALSE, used |-> 0, ctxs |-> <<local[w].root>>]
(* m4_global_thread_set *)
ThreadRecord(w) == [is_main |-> FALSE, used |-> 0, ctxs |-> <<w>>]

(* Fault: the first slots are handed out again. *)
ReusedSlots(t, n, c) ==
  IF n = 0 /\ global[t] = NoGlobal THEN global[t]
  ELSE [is_main |-> TRUE, used |-> callbacks_used(t) + n,
        ctxs |-> [k \in 1..n |-> c] \o global[t].ctxs]
(* m4_global_main_callbacks_set_ctx: the record is allocated for the first *)
(* program with callbacks; each callback gets the next slot.               *)
SetCtx(t, n, c) ==
  IF n = 0 /\ global[t] = NoGlobal THEN global[t]
  ELSE [is_main |-> TRUE, used |-> callbacks_used(t) + n,
        ctxs |-> global[t].ctxs \o [k \in 1..n |-> c]]

(* Fault: the slots that are in use are not counted. *)
FitsAlone(t, p) == Callbacks[p] <= MaxCallbacks
Fits(t, p) == Callbacks[p] <= MaxCallbacks - callbacks_used(t)

-----------------------------------------------------------------------------
Init ==
  /\ at = [t \in Threads |-> IF t \in Hosts THEN "c_code" ELSE "unborn"]
  /\ frames = [t \in Threads |-> <<>>]
  /\ global = [t \in Threads |-> NoGlobal]
  /\ owner = [p \in Programs |-> Nobody]
  /\ live = {}
  /\ offset = [p \in Programs |-> 0]
  /\ prog = [c \in Ctxs |-> IF c \in Programs THEN c ELSE Nobody]
  /\ extra = [c \in Ctxs |-> 0]
  /\ cell = [c \in Ctxs |-> Nobody]
  /\ entry = [t \in Threads |-> [stack |-> Nobody, arg |-> Nobody]]
  /\ sem = [t \in Threads |-> 0]
  /\ thread = [t \in Threads |-> Nobody]
  /\ parent = [w \in Workers |-> Nobody]
  /\ passed = [w \in Workers |-> Nobody]
  /\ local = [w \in Workers |->
                [root |-> Nobody, arg |-> Nobody, memory_len |-> 0]]

(* C code runs outside the engines on a host thread, and inside a run      *)
(* whenever a program calls a runtime word.                                *)
Refusals == {"threads_cannot_launch", "too_many_callbacks"}
InC(t) == at[t] \in {"c_code", "running"}

(* m4_*_engine_run up to m4_unpack_binary_header, which refuses a program  *)
(* with more callbacks than are left. Only host threads may launch.        *)
Refuse(t, p) ==
  /\ InC(t) /\ owner[p] = Nobody /\ Len(frames[t]) < MaxDepth
  /\ at' = [at EXCEPT ![t] = IF ~MayLaunch(t) THEN "threads_cannot_launch"
                             ELSE "too_many_callbacks"]
  /\ MayLaunch(t) => ~Fits(t, p)
  /\ UNCHANGED <<frames, global, launchVars, ctxVars, createVars>>

(* The caller handles the error it was returned and goes on. *)
GoOn(t) ==
  /\ at[t] \in Refusals
  /\ at' = [at EXCEPT ![t] = IF frames[t] = <<>> THEN "c_code" ELSE "running"]
  /\ UNCHANGED <<frames, global, launchVars, ctxVars, createVars>>

(* callbacks_used is read here and the slots are taken in EnterRun. *)
Launch(t, p) ==
  /\ InC(t) /\ owner[p] = Nobody /\ Len(frames[t]) < MaxDepth
  /\ MayLaunch(t) /\ Fits(t, p)
  /\ offset' = [offset EXCEPT ![p] = callbacks_used(t)]
  /\ owner' = [owner EXCEPT ![p] = t]
  /\ \E room \in Rooms : extra' = [extra EXCEPT ![p] = room]
  /\ at' = [at EXCEPT ![t] = "launching"]
  /\ frames' = [frames EXCEPT ![t] = Append(@, p)]
  /\ UNCHANGED <<global, live, prog, createVars>>

EnterRun(t) ==
  /\ at[t] = "launching"
  /\ global' = [global EXCEPT ![t] = SetCtx(t, Callbacks[Top(t)], Top(t))]
  /\ live' = live \cup {Top(t)}
  /\ at' = [at EXCEPT ![t] = "running"]
  /\ UNCHANGED <<frames, owner, offset, ctxVars, createVars>>

(* callback_handle: C code on thread t calls callback k of program p.  The *)
(* function it was given is callback_targets[offset + k].                  *)
CallbackSlot(p, k) == offset[p] + k

(* The word a callback runs: the engine finds it in the tables of the      *)
(* context, at the slot number less callback_array_offset.                 *)
callback_word(c, i) == <<prog[c], i - offset[prog[c]]>>

Callback(t, p, k) ==
  /\ InC(t) /\ Len(frames[t]) < MaxDepth
  /\ IF t \in Hosts THEN owner[p] = t /\ p \in live
     ELSE prog[t] = p /\ at[t] = "running"
  /\ frames' = [frames EXCEPT ![t] = Append(@, get_ctx(t, CallbackSlot(p, k)))]
  /\ at' = [at EXCEPT ![t] = "running"]
  /\ UNCHANGED <<global, launchVars, ctxVars, createVars>>

(* run_inner returns: to C code, or to thread_entry, which ends the thread. *)
Return(t) ==
  /\ at[t] = "running"
  /\ frames' = [frames EXCEPT ![t] = SubSeq(@, 1, Len(@) - 1)]
  /\ at' = [at EXCEPT ![t] = IF Len(frames[t]) > 1 THEN "running"
                             ELSE IF t \in Hosts THEN "c_code" ELSE "ended"]
  /\ Disciplined /\ t \in Workers /\ Len(frames[t]) = 1
       => \A w \in Workers : parent[w] = t => at[w] = "joined"
  /\ UNCHANGED <<global, launchVars, ctxVars, createVars>>

(* m4_global_cleanup, which frees the record of a host thread that is not  *)
(* inside a run. *)
Cleanup(t) ==
  /\ t \in Hosts /\ at[t] = "c_code" /\ global[t] # NoGlobal
  /\ global' = [global EXCEPT ![t] = NoGlobal]
  /\ live' = live \ {p \in Programs : owner[p] = t}
  /\ UNCHANGED <<at, frames, owner, offset, ctxVars, createVars>>

-----------------------------------------------------------------------------
(* thread-create: m4_engine_thread_create on the creator's thread. *)
Create(t, w, a) ==
  /\ at[t] = "running" /\ at[w] = "unborn"
  /\ entry' = [entry EXCEPT ![t] = [stack |-> Top(t), arg |-> a]]
  /\ cell' = [cell EXCEPT ![Top(t)] = a]
  /\ sem' = [sem EXCEPT ![t] = 0]
  /\ thread' = [thread EXCEPT ![t] = w]
  /\ parent' = [parent EXCEPT ![w] = t]
  /\ passed' = [passed EXCEPT ![w] = a]
  /\ at' = [at EXCEPT ![t] = "store", ![w] = "born"]
  /\ UNCHANGED <<frames, global, launchVars, ctxVars, local>>

(* The handle takes the place of the argument on the creator's stack. *)
StoreHandle(t) ==
  /\ at[t] = "store"
  /\ cell' = [cell EXCEPT ![Top(t)] = thread[t]]
  /\ at' = [at EXCEPT ![t] = "wait"]
  /\ UNCHANGED <<frames, global, launchVars, ctxVars, entry, sem, thread,
                 parent, passed, local>>

(* Fault: the creator does not wait for the new thread. *)
LeaveAtOnce(t) ==
  /\ at[t] = "wait"
  /\ at' = [at EXCEPT ![t] = "running"]
  /\ sem' = [sem EXCEPT ![t] = 0]
  /\ entry' = [entry EXCEPT ![t] = [stack |-> Nobody, arg |-> Nobody]]
  /\ thread' = [thread EXCEPT ![t] = Nobody]
  /\ UNCHANGED <<frames, global, launchVars, ctxVars, cell, parent, passed,
                 local>>

(* sem_wait, sem_destroy and the return, which ends entry_arg. *)
Leave(t) ==
  /\ at[t] = "wait" /\ sem[t] = 1
  /\ at' = [at EXCEPT ![t] = "running"]
  /\ sem' = [sem EXCEPT ![t] = 0]
  /\ entry' = [entry EXCEPT ![t] = [stack |-> Nobody, arg |-> Nobody]]
  /\ thread' = [thread EXCEPT ![t] = Nobody]
  /\ UNCHANGED <<frames, global, launchVars, ctxVars, cell, parent, passed,
                 local>>

-----------------------------------------------------------------------------
(* Fault: the argument is read from the creator's stack. *)
ReadArgFromStack(w) ==
  /\ at[w] = "born"
  /\ local' = [local EXCEPT ![w] = [root |-> entry[parent[w]].stack,
                                    arg |-> cell[entry[parent[w]].stack],
                                    memory_len |-> 0]]
  /\ at' = [at EXCEPT ![w] = "post"]
  /\ UNCHANGED <<frames, global, launchVars, ctxVars, cell, entry, sem,
                 thread, parent, passed>>

(* thread_entry *)
ReadArg(w) ==
  /\ at[w] = "born"
  /\ local' = [local EXCEPT ![w] = [root |-> entry[parent[w]].stack,
                                    arg |-> entry[parent[w]].arg,
                                    memory_len |-> 0]]
  /\ at' = [at EXCEPT ![w] = "post"]
  /\ UNCHANGED <<frames, global, launchVars, ctxVars, cell, entry, sem,
                 thread, parent, passed>>

(* Fault: the creator is released and never told. *)
PostNothing(w) ==
  /\ at[w] = "post"
  /\ sem' = sem
  /\ at' = [at EXCEPT ![w] = "size"]
  /\ UNCHANGED <<frames, global, launchVars, ctxVars, cell, entry, thread,
                 parent, passed, local>>

Post(w) ==
  /\ at[w] = "post"
  /\ sem' = [sem EXCEPT ![parent[w]] = 1]
  /\ at' = [at EXCEPT ![w] = "size"]
  /\ UNCHANGED <<frames, global, launchVars, ctxVars, cell, entry, thread,
                 parent, passed, local>>

(* The space is sized from the root context and taken with alloca. *)
SizeSpace(w) ==
  /\ at[w] = "size"
  /\ \E p \in ReadProg(local[w].root), room \in ReadRoom(local[w].root) :
        local' = [local EXCEPT ![w].memory_len =
                    thread_extra_stack_space_get(Engine[p], room)]
  /\ at' = [at EXCEPT ![w] = "inherit"]
  /\ UNCHANGED <<frames, global, launchVars, ctxVars, cell, entry, sem,
                 thread, parent, passed>>

(* The tables are inherited from the root, the assertion on the space is   *)
(* evaluated, m4_global_ is set and the thread starts to run.              *)
Inherit(w) ==
  /\ at[w] = "inherit"
  /\ \E p \in ReadProg(local[w].root), room \in ReadRoom(local[w].root) :
       IF room = local[w].memory_len - Carved(Engine[p])
       THEN /\ prog' = [prog EXCEPT ![w] = p]
            /\ extra' = [extra EXCEPT ![w] = room]
            /\ global' = [global EXCEPT ![w] = ThreadRecord(w)]
            /\ frames' = [frames EXCEPT ![w] = <<w>>]
            /\ at' = [at EXCEPT ![w] = "running"]
       ELSE /\ at' = [at EXCEPT ![w] = "aborted"]
            /\ UNCHANGED <<prog, extra, global, frames>>
  /\ UNCHANGED <<launchVars, createVars>>

(* thread-join takes the handle its creator was given. *)
Join(t, w) ==
  /\ at[t] = "running" /\ parent[w] = t /\ at[w] = "ended"
  /\ at' = [at EXCEPT ![w] = "joined"]
  /\ UNCHANGED <<frames, global, launchVars, ctxVars, createVars>>

-----------------------------------------------------------------------------
Handshake(t) ==
  \/ StoreHandle(t) \/ Leave(t)
  \/ t \in Workers /\ (ReadArg(t) \/ Post(t) \/ SizeSpace(t) \/ Inherit(t))

Next ==
  \/ \E t \in Threads :
       \/ \E p \in Programs : Refuse(t, p) \/ Launch(t, p)
       \/ GoOn(t) \/ EnterRun(t) \/ Return(t) \/ Cleanup(t)
       \/ \E p \in Programs : \E k \in 0..(Callbacks[p] - 1) : Callback(t, p, k)
       \/ \E w \in Workers : Join(t, w) \/ \E a \in Args : Create(t, w, a)
       \/ Handshake(t)

-----------------------------------------------------------------------------
NoThreads == {"unborn", "ended", "joined"}
Locations == {"c_code", "launching", "running", "store", "wait", "born",
              "post", "size", "inherit", "aborted"} \cup NoThreads \cup Refusals

(* Type invariant, with the assertion of mcp_forth.c:105 on the slots. *)
TypeOK ==
  /\ at \in [Threads -> Locations]
  /\ frames \in [Threads -> Seq(Ctxs)]
  /\ global \in [Threads -> [is_main : BOOLEAN, used : Nat, ctxs : Seq(Ctxs)]]
  /\ \A t \in Threads : global[t].used <= MaxCallbacks
  /\ owner \in [Programs -> Hosts \cup {Nobody}]
  /\ live \subseteq Programs /\ offset \in [Programs -> Nat]
  /\ prog \in [Ctxs -> Programs \cup {Nobody}] /\ extra \in [Ctxs -> Nat]
  /\ cell \in [Ctxs -> Args \cup Workers \cup {Nobody}]
  /\ entry \in [Threads -> [stack : Ctxs \cup {Nobody},
                            arg : Args \cup {Nobody}]]
  /\ sem \in [Threads -> {0, 1}]
  /\ thread \in [Threads -> Workers \cup {Nobody}]
  /\ parent \in [Workers -> Threads \cup {Nobody}]
  /\ passed \in [Workers -> Args \cup {Nobody}]
  /\ local \in [Workers -> [root : Ctxs \cup {Nobody}, memory_len : Nat,
                            arg : Args \cup Workers \cup {Nobody}]]

(* While a new thread may still touch entry_arg, its creator is inside     *)
(* m4_engine_thread_create with that entry_arg in scope (the comment at    *)
(* mcp_forth.c:174), and has not been released.                            *)
ArgOutlivesUse ==
  \A w \in Workers : at[w] \in {"born", "post"} =>
    /\ parent[w] \in Threads
    /\ at[parent[w]] \in {"store", "wait"}
    /\ thread[parent[w]] = w /\ sem[parent[w]] = 0

(* A thread starts with the argument its creator gave it, although the     *)
(* creator puts the handle in the argument's cell meanwhile.               *)
ArgPassed ==
  \A w \in Workers :
    at[w] \notin {"unborn", "born"} => local[w].arg = passed[w]

(* No two threads execute on one context: neither runs, nor callbacks.     *)
ContextExclusive ==
  \A t, u \in Threads : t # u =>
    \A i \in 1..Len(frames[t]), j \in 1..Len(frames[u]) :
       frames[t][i] # frames[u][j]

(* The assertion of thread_entry on the space it took (vm_engine.c:142,    *)
(* x86-32_engine.c:78, esp32s3_engine.c:84) holds: what it read of the     *)
(* root context before and after is the same.                              *)
EntryAssertHolds == \A w \in Workers : at[w] # "aborted"

(* A callback C code calls runs the word it was made from, on whichever of *)
(* the program's threads, with other programs' slots around it.            *)
CallbackRunsItsWord ==
  [][\A t \in Threads, p \in Programs : \A k \in 0..(Callbacks[p] - 1) :
       Callback(t, p, k) =>
         callback_word(frames'[t][Len(frames'[t])], CallbackSlot(p, k))
           = <<p, k>>]_vars

Fairness == \A t \in Threads : WF_vars(Handshake(t))
Spec == Init /\ [][Next]_vars /\ Fairness

(* thread-create returns: the new thread releases its creator. *)
CreateReturns ==
  \A t \in Threads : at[t] \in {"store", "wait"} ~> at[t] = "running"

=============================================================================
