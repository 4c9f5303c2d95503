------------------------------ MODULE Engines -------------------------------
(***************************************************************************)
(* Compiled programs on the three engines: the bytecode interpreter        *)
(* (run_inner and callback_handle in vm_engine.c), x86-32 machine code     *)
(* (fragment_bin_dump in x86-32_backend.c, x86-32_engine_asm.s) and        *)
(* ESP32-S3 machine code (esp32s3_backend.c, esp32s3_engine_asm.S).        *)
(* One step runs one fragment.  The interpreter keeps the whole data stack *)
(* in memory and a base for the running word on the return stack.  Machine *)
(* code keeps the top cell in a register, leaves chores out between        *)
(* neighbours, and a word saves only what its flags say:                   *)
(*   x86-32    the frame pointer, when the word has an exit in a loop      *)
(*   ESP32-S3  the loop base for that reason; the link register, when the  *)
(*             word calls anything                                         *)
(* Machine code checks nothing: a program that needs more than there is,   *)
(* or does what C leaves undefined, stops here.                            *)
(***************************************************************************)
EXTENDS NativeCode

CONSTANTS
    Tasks,          \* what runs where: [backend, program]
    VariableCount

VARIABLES
    task, k,        \* the fragment to execute next
    m,              \* the machine, see NativeCode; on the interpreter depth
                    \* is the number of cells, all of them in memory
    base,           \* return_stack_len_base, ebp, rb
    lr, home,       \* ESP32-S3: the link register, and where ENTRY keeps it
    native,         \* C functions that have called back into the program
    vars, status,
    frames          \* auxiliary: the calls that are open, the main program first

vars_ == <<task, k, m, base, lr, home, native, vars, status, frames>>

Junk == 85              \* in registers and memory before they are written
Host == -1              \* the address that run_asm called from
ToC == 0                \* the address that a callback's word returns to

ASSUME EnginesAssumption == VariableCount \in Nat

program == task.program
backend == task.backend
Code == program.code
Fragment == Code[k]

-----------------------------------------------------------------------------
(* get_flags.  Both backends agree on all but the builtin words.           *)
FlagsOf(b, f) ==
    CASE f.op = "BUILTIN_WORD" -> GeneratedFlags(Listing(b, f.p), f.p \in Clobber)
      [] f.op \in {"PUSH_LITERAL", "PUSH_DATA_ADDRESS", "PUSH_OFFSET_ADDRESS", "PUSH_CALLBACK",
                   "USE_VARIABLE_OR_CONSTANT"} -> {"A", "B", "CLOB"}
      [] f.op = "DECLARE_CONSTANT" -> {"Y", "Z"}
      [] OTHER -> {}
FlagsAt(i) == IF i \in DOMAIN Code THEN FlagsOf(backend, Code[i]) ELSE {}
NeedsAt(i) == NeededChores(FlagsAt(i), FlagsAt(i - 1), FlagsAt(i + 1))

-----------------------------------------------------------------------------
(* The state a program sees.                                               *)

(* The machine with what fragment k - 1 left out, for fragment k to make   *)
(* up for.                                                                 *)
Whole == Closing(FlagsAt(k - 1) \ NeedsAt(k - 1), m)
InMemory(x) == [i \in 1..x.depth |-> x.cells[i - 1]]
DataStack == IF backend = "vm" THEN InMemory(m) ELSE InRegisters(Whole)

(* A frame remembers of a call how high the return stack was (at), and how *)
(* high behind what the call and the word's location saved (own), what the *)
(* program may count on below (below), the word and where it returns to,   *)
(* the base at the call, whether C has called, and how many calls by C     *)
(* were open.                                                              *)
Frame == frames[Len(frames)]
End(i) == IF i < Len(frames) THEN frames[i + 1].at ELSE Len(m.rs)
Calls ==
    [i \in DOMAIN frames |->
        [ret |-> frames[i].ret, below |-> frames[i].below, rs |-> CellsOf(m.rs, frames[i].own + 1, End(i))]]

Forth == INSTANCE ForthMachine
    WITH ds <- DataStack, calls <- Calls, dp <- m.dp, heap <- m.heap

ASSUME TasksAssumption ==
    \A t \in Tasks : t.backend \in {"vm", "x86_32", "esp32s3"} /\ Forth!IsProgram(t.program)

Running(op) == status = "running" /\ Fragment.op = op
On(b) == backend = b

(* What the interpreter checks before it goes on.  It has no other checks; *)
(* what is not defined then is out of reach of every engine's model.       *)
VmTakes(f) ==
    CASE f.op \in {"BRANCH_IF_ZERO", "DECLARE_CONSTANT", "EXECUTE"} -> 1
      [] f.op = "DO" -> 2
      [] f.op = "RUNTIME_WORD" -> IF f.p.kind = "lit" THEN 0 ELSE 1
      [] OTHER -> 0
VmPushes(f) ==
    \/ f.op \in {"PUSH_LITERAL", "PUSH_DATA_ADDRESS", "PUSH_OFFSET_ADDRESS", "PUSH_CALLBACK",
                 "USE_VARIABLE_OR_CONSTANT"}
    \/ f.op = "RUNTIME_WORD" /\ f.p.kind = "lit"
VmCalls(f) ==
    f.op \in {"DEFINED_WORD", "EXECUTE"} \/ (f.op = "RUNTIME_WORD" /\ f.p.kind = "invoke")
VmState == [ds |-> DataStack, rs |-> CellsOf(m.rs, base + 1, Len(m.rs)), dp |-> m.dp, heap |-> m.heap]
VmChecks(f) ==
    /\ f.op = "BUILTIN_WORD" => Enough(f.p, VmState, base)
    /\ m.depth >= VmTakes(f)
    /\ VmPushes(f) => m.depth < MaxCells
    /\ (VmCalls(f) \/ f.op = "DO") => Len(m.rs) + 2 <= MaxCells
    /\ f.op = "DECLARE_VARIABLE" => Align(m.dp) + 4 <= Limit
Vm(op) == On("vm") /\ Running(op) /\ VmChecks(Fragment) /\ Forth!DefinedFor(Fragment)

(* Machine code checks nothing, and it wants a spare cell of stack memory  *)
(* to hand the stack to C, or back to C.                                   *)
Native(op) ==
    /\ ~On("vm") /\ Running(op)
    /\ Forth!EnoughFor(Fragment) /\ Forth!DefinedFor(Fragment)
    /\ op = "RUNTIME_WORD" \/ (op = "EXIT_WORD" /\ Frame.fromC) => Len(DataStack) < MaxCells

-----------------------------------------------------------------------------
Init ==
    /\ task \in Tasks
    /\ k = 1
    /\ m = [top |-> Junk, depth |-> IF On("vm") THEN 0 ELSE -1, scratch |-> Junk,
            cells |-> [i \in 0..(MaxCells - 1) |-> Junk], rs |-> <<>>,
            dp |-> Bottom, heap |-> <<>>]
    /\ base = 0
    /\ lr = Host /\ home = Junk
    /\ native = <<>>
    /\ vars = [i \in 0..(VariableCount - 1) |-> 0]
    /\ status = "running"
    /\ frames = <<[at |-> 0, own |-> 0, below |-> 0, word |-> 0, ret |-> 0, base |-> 0,
                   fromC |-> FALSE, open |-> 0]>>

(* Parts of steps.                                                         *)
InWord == UNCHANGED <<base, lr, home, native, frames>>
Stays == UNCHANGED <<task, status>>
Called(fromC) ==
    frames' = Append(frames,
        [at |-> Len(m.rs), own |-> Len(m'.rs), below |-> Frame.below + Len(m.rs) - Frame.own + 2,
         word |-> k', ret |-> k + 1, base |-> base, fromC |-> fromC, open |-> Len(native)])
Saved == frames' = [frames EXCEPT ![Len(frames)].own = Len(m'.rs)]
Returned == frames' = SubSeq(frames, 1, Len(frames) - 1)

(* The value of a fragment that pushes one.                                *)
PushedValue == IF Fragment.op = "USE_VARIABLE_OR_CONSTANT" THEN vars[Fragment.p] ELSE Fragment.p
Pushing(R(_)) ==
    \E op \in {"PUSH_LITERAL", "PUSH_DATA_ADDRESS", "PUSH_OFFSET_ADDRESS", "PUSH_CALLBACK",
               "USE_VARIABLE_OR_CONSTANT"} : R(op)

-----------------------------------------------------------------------------
(* The interpreter.                                                        *)

(* The machine with another data stack; cells above it keep what they had. *)
VmStack(x, s) ==
    [x EXCEPT !.depth = Len(s),
              !.cells = [i \in DOMAIN @ |-> IF i < Len(s) THEN s[i + 1] ELSE @[i]]]
Tagged(s) == [i \in DOMAIN s |-> <<"cell", s[i]>>]

VmBuiltin ==
    /\ Vm("BUILTIN_WORD")
    /\ LET t == Meaning(Fragment.p, VmState)
       IN  m' = [VmStack(m, t.ds) EXCEPT !.rs = SubSeq(@, 1, base) \o Tagged(t.rs),
                                         !.dp = t.dp, !.heap = t.heap]
    /\ k' = k + 1
    /\ UNCHANGED vars /\ InWord /\ Stays

VmPush ==
    /\ Pushing(Vm)
    /\ m' = VmStack(m, Append(DataStack, PushedValue))
    /\ k' = k + 1
    /\ UNCHANGED vars /\ InWord /\ Stays

VmDeclare ==
    /\ \/ /\ Vm("DECLARE_VARIABLE")
          /\ vars' = [vars EXCEPT ![Fragment.p] = Align(m.dp)]
          /\ m' = [m EXCEPT !.dp = Align(@) + 4]
       \/ /\ Vm("DECLARE_CONSTANT")
          /\ vars' = [vars EXCEPT ![Fragment.p] = Nth(DataStack, 1)]
          /\ m' = VmStack(m, Below(DataStack, 1))
    /\ k' = k + 1
    /\ InWord /\ Stays

VmBranch ==
    /\ \/ Vm("BRANCH") /\ k' = Fragment.p /\ UNCHANGED m
       \/ /\ Vm("BRANCH_IF_ZERO")
          /\ k' = IF Nth(DataStack, 1) = 0 THEN Fragment.p ELSE k + 1
          /\ m' = VmStack(m, Below(DataStack, 1))
    /\ UNCHANGED vars /\ InWord /\ Stays

VmDo ==
    /\ Vm("DO")
    /\ m' = [VmStack(m, Below(DataStack, 2)) EXCEPT
                !.rs = @ \o Tagged(<<Nth(DataStack, 2), Nth(DataStack, 1)>>)]
    /\ k' = k + 1
    /\ UNCHANGED vars /\ InWord /\ Stays

VmLoop ==
    /\ Vm("LOOP")
    /\ LET i == Nth(m.rs, 1)[2] + 1
           end == Nth(m.rs, 2)[2]
           rest == Below(m.rs, 2)
       IN  IF i < end
           THEN k' = Fragment.p /\ m' = [m EXCEPT !.rs = rest \o Tagged(<<end, i>>)]
           ELSE k' = k + 1 /\ m' = [m EXCEPT !.rs = rest]
    /\ UNCHANGED vars /\ InWord /\ Stays

(* The base and the return address go on the return stack.                 *)
VmFrame(x, return) ==
    /\ m' = [x EXCEPT !.rs = @ \o <<<<"base", base>>, <<"return", return>>>>]
    /\ base' = Len(m.rs) + 2

(* callback_handle pushes NULL for the return address and runs the word in *)
(* a run_inner of its own; the C function that called has popped the cell  *)
(* that is the argument.                                                   *)
VmEnterWord ==
    /\ \/ Vm("DEFINED_WORD") /\ VmFrame(m, k + 1) /\ k' = Fragment.p /\ UNCHANGED native
       \/ /\ Vm("EXECUTE")
          /\ VmFrame(VmStack(m, Below(DataStack, 1)), k + 1)
          /\ k' = Nth(DataStack, 1)
          /\ UNCHANGED native
       \/ /\ Vm("RUNTIME_WORD") /\ Fragment.p.kind = "invoke"
          /\ VmFrame(m, ToC)
          /\ native' = Append(native, [next |-> k + 1, base |-> base])
          /\ k' = program.callbacks[Fragment.p.v]
    /\ Called(Fragment.op = "RUNTIME_WORD")
    /\ UNCHANGED <<vars, lr, home>> /\ Stays

(* Everything above the base goes; NULL ends the run_inner of a callback,  *)
(* and its result, if any, is popped to be pushed by the C function.       *)
VmLeaveWord ==
    /\ Vm("EXIT_WORD")
    /\ LET return == m.rs[base][2]
       IN  IF return # ToC THEN k' = return /\ UNCHANGED native
           ELSE k' = Nth(native, 1).next /\ native' = Below(native, 1)
    /\ base' = m.rs[base - 1][2]
    /\ m' = [m EXCEPT !.rs = SubSeq(@, 1, base - 2)]
    /\ Returned
    /\ UNCHANGED <<vars, lr, home>> /\ Stays

VmRuntime ==
    /\ Vm("RUNTIME_WORD") /\ Fragment.p.kind # "invoke"
    /\ m' = VmStack(m, IF Fragment.p.kind = "lit" THEN Append(DataStack, Fragment.p.v)
                       ELSE Append(Below(DataStack, 1), Wrap(Nth(DataStack, 1) + 1)))
    /\ k' = k + 1
    /\ UNCHANGED vars /\ InWord /\ Stays

VmFail ==
    /\ On("vm") /\ status = "running" /\ ~VmChecks(Fragment)
    /\ status' = "failed"
    /\ UNCHANGED <<task, k, m, base, lr, home, native, vars, frames>>

-----------------------------------------------------------------------------
(* Where ESP32-S3 code lies.  A narrow instruction has two bytes, any other *)
(* three; variables, callbacks and words are reached by at most 255 cells, *)
(* 96 runtime words and 2 KiB of code, before the literal pool is needed.  *)

(* op_uses_lr, and M4_DEFINED_WORD_LOCATION_PARAM_CALLS with it.           *)
UsesLr == {"DEFINED_WORD", "RUNTIME_WORD", "EXECUTE", "THREAD_CREATE", "THREAD_JOIN"}
CallsAny(code, w) ==
    \E i \in (w + 1)..Len(code) : Forth!WordOf(code, i) = w /\ code[i].op \in UsesLr

(* The bytes of a word's listing without its chores.                       *)
EspListed(w) ==
    CASE w \in {"dup", "drop", "nip"} -> 0
      [] w \in {"over", "allot", "1+", "i", "j", "1-", "@", "here", "2*", "2drop", "cell+", "r@"} -> 2
      [] w \in {"invert", "c@", "0<", "2/", "0<>", "w@", "cells", "abs", "negate"} -> 3
      [] w \in {"+", ",", ">r", "r>"} -> 4
      [] w \in {"-", "mod", "*", "xor", "or", "and", "c,", "max", "align", "?dup", "/", "min", "w,"} -> 5
      [] w \in {"swap", "!", "tuck", "2dup"} -> 6
      [] w \in {"0=", "c!", "w!"} -> 7
      [] w \in {"rot", "pick", "lshift", "rshift", "<>"} -> 8
      [] w = "0>" -> 9
      [] w \in {">", "=", "<", ">=", "<=", "depth", "2>r", "+!"} -> 10
      [] w = "2r>" -> 11

(* Execution goes on at an address that is 0 or 1 modulo 4 after a call    *)
(* and after a jump.                                                       *)
Aligned(at) == at % 4 <= 1
CallBytes(at) == IF Aligned(at + 3) THEN 3 ELSE 5
AccessBytes(i) == IF i <= 15 THEN 2 ELSE 3              \* s32i_l32i_auto_size, cell i
AddiFits(r, n) == CASE r = 0 -> n = 0 [] r = 1 -> n \in {-1} \cup 1..15 [] r = 2 -> n \in -128..127
                    [] r = 3 -> n \in -32..95 [] OTHER -> TRUE
AddiBytes(r) == <<0, 2, 3, 4, 5>>[r + 1]
SavedBytes(code, w) ==                                  \* by a location, by an exit
    LET loops == Forth!Loops(code, w)
    IN  IF loops /\ CallsAny(code, w) THEN <<8, 6>>
        ELSE IF loops THEN <<6, 4>> ELSE IF CallsAny(code, w) THEN <<4, 4>> ELSE <<0, 0>>

(* The fragments, with what does not depend on where they lie: the bytes   *)
(* of the chores they need, and of what their word saves.                  *)
ChoreBytes(needs) == 2 * Cardinality(needs)
EspMeasured(code) ==
    LET flags == [i \in 0..(Len(code) + 1) |->
                    IF i \in DOMAIN code THEN FlagsOf("esp32s3", code[i]) ELSE {}]
        needs == [i \in DOMAIN code |-> NeededChores(flags[i], flags[i - 1], flags[i + 1])]
    IN  [i \in DOMAIN code |->
            [op |-> code[i].op, p |-> code[i].p,
             opening |-> ChoreBytes(needs[i] \cap {"A", "B"}),
             closing |-> ChoreBytes(needs[i] \cap {"Y", "Z"}),
             saved |-> SavedBytes(code, IF code[i].op = "EXIT_WORD" THEN code[i].p ELSE i)]]

(* fragment_bin_size: measured fragment f at address `at` with relaxation   *)
(* r; its body, and with its chores.                                       *)
EspBody(f, at, r) ==
    CASE f.op = "BUILTIN_WORD" -> EspListed(f.p)
      [] f.op = "DEFINED_WORD" -> CallBytes(at)
      [] f.op \in {"RUNTIME_WORD", "THREAD_CREATE", "THREAD_JOIN"} -> 2 + CallBytes(at + 2)
      [] f.op = "EXECUTE" -> 6 + CallBytes(at + 6)
      [] f.op = "PUSH_LITERAL" -> IF f.p \in -32..95 THEN 2 ELSE 3
      [] f.op = "DEFINED_WORD_LOCATION" -> f.saved[1]
      [] f.op = "EXIT_WORD" -> 2 + f.saved[2]
      [] f.op = "PUSH_DATA_ADDRESS" ->
            2 + AddiBytes(CHOOSE n \in 0..4 : AddiFits(n, f.p) /\ \A l \in 0..(n - 1) : ~AddiFits(l, f.p))
      [] f.op = "PUSH_OFFSET_ADDRESS" -> 2 + AddiBytes(r)
      [] f.op = "DECLARE_VARIABLE" -> 7 + AccessBytes(f.p)
      [] f.op \in {"DECLARE_CONSTANT", "USE_VARIABLE_OR_CONSTANT"} -> AccessBytes(f.p)
      [] f.op = "PUSH_CALLBACK" -> 2 + AccessBytes(f.p)
      [] f.op = "BRANCH_IF_ZERO" -> 6 + (IF r < 2 THEN 2 + r ELSE IF Aligned(at + 11) THEN 5 ELSE 7)
      [] f.op = "LOOP" -> 8 + (IF r = 0 THEN 3 ELSE IF Aligned(at + 14) THEN 6 ELSE 8) + 3
      [] f.op = "BRANCH" -> 3
      [] f.op = "DO" -> 13
      [] f.op = "HALT" -> 4
      [] f.op = "ENTRY" -> 2
      [] f.op = "BRANCH_LOCATION" -> 0
EspBytes(f, at, r) == f.opening + EspBody(f, at + f.opening, r) + f.closing

(* The filling in front of a location, behind code that ends at `end`.     *)
EspFilling(code, i, end) ==
    LET before(op) == i < Len(code) /\ code[i + 1].op = op
    IN  CASE before("DEFINED_WORD_LOCATION") -> (4 - (end % 4)) % 4
          [] before("BRANCH_LOCATION") -> IF Aligned(end) THEN 0 ELSE 2
          [] OTHER -> 0

(* m4_compile's loop: positions under the relaxations rs, and a pass that  *)
(* relaxes each fragment whose displacement does not fit, until all do.    *)
EspPositions(code, rs) ==
    LET behind[i \in DOMAIN code, at \in Nat] ==
            LET end == at + EspBytes(code[i], at, rs[i]) IN end + EspFilling(code, i, end)
        position[i \in 1..(Len(code) + 1)] ==
            IF i = 1 THEN 0 ELSE behind[i - 1, position[i - 1]]
    IN  position
EspFits(code, at, i, r) ==
    LET f == code[i]
        offset == at[f.p] - at[i] - 4
    IN  CASE f.op = "BRANCH_IF_ZERO" ->
                (r = 0 => offset \in 0..63) /\ (r = 1 => offset \in -2048..2047)
          [] f.op = "LOOP" -> r = 0 => offset \in -128..127
          [] f.op = "PUSH_OFFSET_ADDRESS" -> AddiFits(r, at[f.p])
          [] OTHER -> TRUE
EspPass(code, at, rs) ==
    [i \in DOMAIN code |-> IF EspFits(code, at, i, rs[i]) THEN rs[i] ELSE rs[i] + 1]
EspSolved(code) ==
    LET solve[rs \in [DOMAIN code -> 0..4]] ==
            LET relaxed == EspPass(code, EspPositions(code, rs), rs)
            IN  IF relaxed = rs THEN rs ELSE solve[relaxed]
    IN  solve[[i \in DOMAIN code |-> 0]]

(* Where the counted code of measured fragment i ends, without filling.    *)
CountedEnd(code, i) ==
    LET rs == EspSolved(code)
        at == EspPositions(code, rs)[i]
    IN  at + EspBytes(code[i], at, rs[i])

(* Fault: PUSH_CALLBACK falls through to the store of DECLARE_CONSTANT,    *)
(* which fragment_bin_size does not count.  The next fragment is dumped    *)
(* over the store, unless that lies where a filling was counted: in front  *)
(* of a branch location, when the counted code does not end aligned.       *)
StoreStays(code, i) ==
    /\ code[i].op = "PUSH_CALLBACK"
    /\ i < Len(code) /\ code[i + 1].op = "BRANCH_LOCATION"
    /\ ~Aligned(CountedEnd(EspMeasured(code), i))

-----------------------------------------------------------------------------
(* Machine code: chores in front of the body, the body, chores behind it.  *)
Body(x) ==
    IF Fragment.op = "BUILTIN_WORD"
    THEN Execute(backend, Fragment.p, Reduced(Listing(backend, Fragment.p), FlagsOf(backend, Fragment)), x)
    ELSE IF FlagsOf(backend, Fragment) = {"A", "B", "CLOB"} THEN [x EXCEPT !.top = PushedValue]
    ELSE x
Dumped == [Closing(NeedsAt(k), Body(Opening(NeedsAt(k), m))) EXCEPT !.scratch = Junk]

NativeStraight ==
    /\ Native("BUILTIN_WORD") \/ Pushing(Native)
    /\ m' = Dumped
    /\ k' = k + 1
    (* A stray store has the two bytes of the filling, or is cut off.      *)
    /\ IF On("esp32s3") /\ StoreStays(Code, k)
       THEN AccessBytes(Fragment.p) = 2 /\ vars' = [vars EXCEPT ![Fragment.p] = PushedValue]
       ELSE UNCHANGED vars
    /\ InWord /\ Stays

NativeDeclare ==
    /\ \/ /\ Native("DECLARE_VARIABLE")
          /\ vars' = [vars EXCEPT ![Fragment.p] = Align(m.dp)]
          /\ m' = [m EXCEPT !.dp = Align(@) + 4]
       \/ /\ Native("DECLARE_CONSTANT")
          /\ vars' = [vars EXCEPT ![Fragment.p] = m.top]
          /\ m' = Dumped
    /\ k' = k + 1
    /\ InWord /\ Stays

(* The test comes before the stack is popped on x86-32, from a copy on the *)
(* ESP32-S3.                                                               *)
NativeBranch ==
    /\ \/ Native("BRANCH") /\ k' = Fragment.p /\ UNCHANGED m
       \/ /\ Native("BRANCH_IF_ZERO")
          /\ k' = IF m.top = 0 THEN Fragment.p ELSE k + 1
          /\ m' = Closing({"Y", "Z"}, m)
    /\ UNCHANGED vars /\ InWord /\ Stays

NativeDo ==
    /\ Native("DO")
    /\ m' = [m EXCEPT !.rs = @ \o Tagged(<<m.cells[m.depth], m.top>>),
                      !.top = m.cells[m.depth - 1], !.depth = @ - 2]
    /\ k' = k + 1
    /\ UNCHANGED vars /\ InWord /\ Stays

NativeLoop ==
    /\ Native("LOOP")
    /\ LET i == Nth(m.rs, 1)[2] + 1
       IN  IF i < Nth(m.rs, 2)[2]
           THEN k' = Fragment.p /\ m' = [m EXCEPT !.rs[Len(m.rs)] = <<"cell", i>>]
           ELSE k' = k + 1 /\ m' = [m EXCEPT !.rs = Below(@, 2)]
    /\ UNCHANGED vars /\ InWord /\ Stays

(* A call leaves its return address on the stack, or in the link register. *)
Jump(x, to, return) ==
    /\ k' = to
    /\ IF On("x86_32") THEN m' = [x EXCEPT !.rs = Append(@, <<"return", return>>)] /\ UNCHANGED lr
                       ELSE m' = x /\ lr' = return

(* The stack goes to C and comes back: a flush, and a reload.              *)
Flushed(x) == Opening({"A", "B"}, x)
Reloaded(x) == Closing({"Y", "Z"}, x)

(* call_runtime_word flushes the stack, and the callback handler starts    *)
(* the word from what the C function left on it.  What ebp and rb hold     *)
(* then is C's business, and so is that they come back.                    *)
NativeEnterWord ==
    /\ \/ Native("DEFINED_WORD") /\ Jump(m, Fragment.p, k + 1) /\ UNCHANGED <<native, base>>
       \/ Native("EXECUTE") /\ Jump(Closing({"Y", "Z"}, m), m.top, k + 1) /\ UNCHANGED <<native, base>>
       \/ /\ Native("RUNTIME_WORD") /\ Fragment.p.kind = "invoke"
          /\ Jump(Reloaded(Flushed(m)), program.callbacks[Fragment.p.v], ToC)
          /\ native' = Append(native, [next |-> k + 1, base |-> base])
          /\ base' = Junk
    /\ Called(Fragment.op = "RUNTIME_WORD")
    /\ UNCHANGED <<home, vars>> /\ Stays

(* m4_lit leaves the memory alone; other C functions get the whole stack.  *)
NativeRuntime ==
    /\ Native("RUNTIME_WORD") /\ Fragment.p.kind # "invoke"
    /\ LET c == Flushed(m)
       IN  m' = IF Fragment.p.kind = "lit" THEN [c EXCEPT !.top = Fragment.p.v]
                ELSE Reloaded([c EXCEPT !.cells[c.depth] = Wrap(@ + 1)])
    /\ lr' = IF On("esp32s3") THEN k + 1 ELSE lr
    /\ k' = k + 1
    /\ UNCHANGED <<base, home, native, vars, frames>> /\ Stays

(* The location of a word saves what the word's exits restore.             *)
X86Location ==
    /\ On("x86_32") /\ Native("DEFINED_WORD_LOCATION")
    /\ IF Forth!Loops(Code, k) THEN m' = [m EXCEPT !.rs = Append(@, <<"base", base>>)] /\ base' = Len(m.rs) + 1
                         ELSE UNCHANGED <<m, base>>
    /\ Saved
    /\ k' = k + 1
    /\ UNCHANGED <<lr, home, native, vars>> /\ Stays

EspLocation ==
    /\ On("esp32s3") /\ Native("DEFINED_WORD_LOCATION")
    /\ m' = [m EXCEPT !.rs = @ \o (IF Forth!Loops(Code, k) THEN <<<<"base", base>>>> ELSE <<>>)
                               \o (IF CallsAny(Code, k) THEN <<<<"return", lr>>>> ELSE <<>>)]
    /\ base' = IF Forth!Loops(Code, k) THEN Len(m.rs) ELSE base
    /\ Saved
    /\ k' = k + 1
    /\ UNCHANGED <<lr, home, native, vars>> /\ Stays

(* Back in the word that called, or in the callback handler: it leaves the *)
(* result, if the callback has one, to the C function to push, and flushes *)
(* the rest; call_runtime_word reloads.  Either way all cells are flushed. *)
Return(to, x, b) ==
    IF to # ToC THEN k' = to /\ m' = x /\ base' = b /\ lr' = (IF On("esp32s3") THEN to ELSE lr)
                     /\ UNCHANGED native
    ELSE LET c == Nth(native, 1)
         IN  /\ k' = c.next /\ m' = Reloaded(Flushed(x)) /\ base' = c.base
             /\ lr' = (IF On("esp32s3") THEN c.next ELSE lr)
             /\ native' = Below(native, 1)

(* leave and ret, or ret alone.                                            *)
X86Exit ==
    /\ On("x86_32") /\ Native("EXIT_WORD")
    /\ LET framed == Forth!Loops(Code, Fragment.p)
           rs == IF framed THEN SubSeq(m.rs, 1, base - 1) ELSE m.rs
       IN  Return(Nth(rs, 1)[2], [m EXCEPT !.rs = Below(rs, 1)], IF framed THEN m.rs[base][2] ELSE base)
    /\ Returned
    /\ UNCHANGED <<home, vars>> /\ Stays

EspExit ==
    /\ On("esp32s3") /\ Native("EXIT_WORD")
    /\ LET loops == Forth!Loops(Code, Fragment.p)
           calls == CallsAny(Code, Fragment.p)
           bottom == IF loops THEN base ELSE Len(m.rs) - (IF calls THEN 1 ELSE 0)
           saved == SubSeq(m.rs, bottom + 1, Len(m.rs))
       IN  Return(IF calls THEN saved[IF loops THEN 2 ELSE 1][2] ELSE lr,
                  [m EXCEPT !.rs = SubSeq(@, 1, bottom)],
                  IF loops THEN saved[1][2] ELSE base)
    /\ Returned
    /\ UNCHANGED <<home, vars>> /\ Stays

-----------------------------------------------------------------------------
(* Fragments without code, or that only begin and end a run.               *)
Skip ==
    /\ \/ status = "running" /\ Fragment.op = "BRANCH_LOCATION"
       \/ On("vm") /\ status = "running" /\ Fragment.op = "DEFINED_WORD_LOCATION"
    /\ k' = k + 1
    /\ UNCHANGED <<m, vars>> /\ InWord /\ Stays

Entry ==
    /\ status = "running" /\ Fragment.op = "ENTRY"
    /\ home' = IF On("esp32s3") THEN lr ELSE home
    /\ k' = k + 1
    /\ UNCHANGED <<m, base, lr, native, vars, frames>> /\ Stays

(* On the ESP32-S3 the way out of the main program is what ENTRY kept.     *)
Halt ==
    /\ Vm("HALT") \/ Native("HALT")
    /\ status' = IF On("esp32s3") /\ home # Host THEN "lost" ELSE "done"
    /\ UNCHANGED <<task, k, m, base, lr, home, native, vars, frames>>

Next ==
    \/ VmBuiltin \/ VmPush \/ VmDeclare \/ VmBranch \/ VmDo \/ VmLoop
    \/ VmEnterWord \/ VmLeaveWord \/ VmRuntime \/ VmFail
    \/ NativeStraight \/ NativeDeclare \/ NativeBranch \/ NativeDo \/ NativeLoop
    \/ NativeEnterWord \/ NativeRuntime
    \/ X86Location \/ EspLocation \/ X86Exit \/ EspExit
    \/ Skip \/ Entry \/ Halt

Spec == Init /\ [][Next]_vars_

-----------------------------------------------------------------------------
TypeOK ==
    /\ k \in DOMAIN Code /\ WellFormed(FlagsAt(k))
    /\ m.top \in Cell /\ m.scratch = Junk
    /\ DOMAIN m.cells = 0..(MaxCells - 1) /\ \A i \in DOMAIN m.cells : m.cells[i] \in Cell
    /\ m.depth \in (IF On("vm") THEN 0..MaxCells ELSE -1..(MaxCells - 1))
    /\ Len(m.rs) <= MaxCells /\ base \in {Junk} \cup 0..Len(m.rs)
    /\ m.dp \in Bottom..Limit /\ DOMAIN m.heap \subseteq Bottom..(Limit - 1)
    /\ \A i \in DOMAIN vars : vars[i] \in Cell
    /\ status \in {"running", "done", "failed"}

(* Every engine does what the words and fragments mean: whichever chores   *)
(* neighbours save each other, whichever registers a word leaves unsaved   *)
(* because its flags allow it, however deep callbacks nest, the program    *)
(* sees the same stacks, the same memory and the same way back.            *)
ImplementsForth == Forth!Spec

(* Variables and constants change where they are declared and nowhere      *)
(* else.                                                                   *)
OnlyDeclarationsStore ==
    [][vars' # vars => Fragment.op \in {"DECLARE_VARIABLE", "DECLARE_CONSTANT"}]_vars_

=============================================================================
