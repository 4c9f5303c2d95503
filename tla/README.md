# A TLA+ model of mcp_forth

mcp_forth is a Forth compiler with three code generators (a bytecode VM, x86-32 and the
ESP32-S3), an engine for each that runs what was compiled, and a small library of runtime
words. This directory holds TLA+ modules that model its parts, TLC configurations that
model-check them on small instances, and proofs for TLAPS. Line numbers refer to the files
of the repository.

## The system

```
source --> m4_compile front end --> fragments in order --> layout --> binary
             compile.c:445-799                   compile.c:801-820,   (header compile.c:822-912,
                                                 vm_backend.c,         code   compile.c:914-919)
                                                 x86-32_backend.c,
                                                 esp32s3_backend.c
binary --> m4_unpack_binary_header --> engine: vm, x86-32, ESP32-S3 --> runtime words
             mcp_forth.c:268-370         |     thread-create, thread-join     |
                                         +---- contexts and callbacks         +-- task queue
                                               mcp_forth.c:28-181                 runtime_threadutil.c
```

| component | state it keeps | operations | interacts with | hard behaviour | correct when |
|---|---|---|---|---|---|
| Task queue (`runtime_threadutil.c`) | ring buffer, `next_out`, `len`, `unfinished_tasks`, mutex, three conditions | `queue-init` `queue-put` `queue-get` `queue-task-done` `queue-join` `queue-destroy` | called by any Forth thread | every interleaving of threads at the mutex; signals that wake one of several; spurious wakeups; the wrap | FIFO, nothing lost or doubled; nobody sleeps through what it waits for; join waits for all tasks; idle when destroyed |
| Compiler front end (`compile.c`) | fragments, `sequence`, control-flow stack, name tables, `defining_word` | one per word of the language; end of source | backend's `op_uses_lr` | long sequences of legal words; constructs opened in one place and closed in another; two kinds of index | accepted code is structured, every branch has a target, every reference an entry, names keep their meaning |
| Layout (`compile.c`, backends) | relaxation and position of each fragment | size, representability and dump of a fragment; one round of the loop | fragments of the front end | sizes depend on positions and positions on sizes; limits of encodings | it ends; what is measured is what is written; no displacement is cut off |
| Chore elision (`mcp_forth.c:372-398`, `backend_generator.py`) | none | which stack-cache moves a fragment needs | backends | each fragment decides for itself, from both neighbours | the stack cache is what the next fragment expects |
| Numbers and header (`compile.c:822-919`, `mcp_forth.c:184-370`) | binary, memory laid out for a program | measure, write, encode, decode, unpack | layout, engines | widths, alignment, limits | what is read is what was written; no field outside the memory given |
| Bytecode engine (`vm_engine.c`) | two stacks, pc, data space | one per opcode and builtin | runtime words, callbacks | errors in the middle of a primitive; nested runs | every word does what it means, or the right error comes; return addresses return to their caller |
| Native engines (`x86-32_backend.c`, `esp32s3_backend.c`, `*_engine_asm.*`, listings) | registers that cache the stack, frame pointer or loop base, link register | machine code per fragment, calls to C, callbacks | chores, runtime words | what is saved depends on flags; C and machine code take turns on one stack | the same as the bytecode engine, where nothing is missing |
| Threads and contexts (`mcp_forth.c:28-53`, `114-181`) | thread-local pointer, entry argument, semaphore | `thread-create`, `thread-join`, `m4_global_get_ctx` | engines | creator and new thread share the creator's stack | the argument outlives its use; a callback finds its own context |
| Callback registry (`mcp_forth.c:55-112`) | slots, `callbacks_used` | reserve, look up, clean up | engines, host C code | several programs one after another | a slot leads to the program that reserved it |
| Instruction encoders, ELF writers, tools, runtime libraries | – | – | – | bit patterns, or one C call each | out of scope, see below |

## Modules

| module | models |
|---|---|
| `TaskQueue` | `runtime_threadutil.c`, every operation |
| `WorkQueue` | what the queue promises: the abstract specification |
| `TaskQueueProofs` | proofs about `TaskQueue` |
| `Compiler` | `compile.c:445-799`, every word and every `RASSERT` |
| `CompilerProofs`, `CompilerShape` | proofs about `Compiler`: of single words and whole compilations; of the shape of code while it is read, and of what an accepted program is |
| `Layout` | `compile.c:801-820` with sizes, representability and dump of the three backends |
| `LayoutProofs` | proofs about `Layout` |
| `Contexts` | `mcp_forth.c:22-181`, the thread entries and launches of the engines |
| `ContextsProofs` | proofs about `Contexts` |
| `Binary` | `compile.c:822-919`, `mcp_forth.c:184-370`, `vm_backend.c`, how engines carve up memory |
| `BinaryProofs` | proofs about `Binary`: of what stands where in a binary; of loading and reading it |
| `Primitives` | the 63 builtin words, `vm_engine.c:184-625` |
| `ForthMachine` | what a compiled program means: the abstract specification of the engines |
| `Chores` | `mcp_forth.c:372-398`, `backend_generator.py:53-66` |
| `NativeCode` | the listings of the builtin words in both generators |
| `NativeProofs` | proofs about `Primitives`, `Chores` and `NativeCode`: of each word, its listings and the chores between neighbours |
| `Engines` | programs on the bytecode engine, in x86-32 and in ESP32-S3 machine code |
| `EnginesProofs` | proofs about `Engines`, on top of `NativeProofs`: frames, calls, every step a step of `ForthMachine` |
| `MCTaskQueue`, `MCCompiler`, `MCLayout`, `MCContexts`, `MCBinary`, `MCEngines` | instances for TLC |

`ForthMachine` extends `Primitives`; `NativeCode` extends `Primitives` and `Chores`;
`Engines` extends `NativeCode` and takes `ForthMachine` as an instance with a refinement
mapping. `TaskQueue` takes `WorkQueue` in the same way. The community module `Bitwise` declares
recursive operators, which the prover cannot take, so `Primitives` has bit operations of its own
(`Bit`, `OfBits`).

Some operators begin with the comment "Fault:". Nothing uses them. Each is a version of the
operator behind it with a plausible bug; put in its place it makes TLC report the property
that the bug breaks (`PROJECT.json`, "mutants"), so a property that is listed is one that
can fail.

### TaskQueue and WorkQueue

The variables `nels`, `slots`, `nextOut`, `len`, `unfinished` are the fields of `queue_t`
(`runtime_threadutil.c:10-16`); `mutex` is its holder. `op[t]` is the call thread `t` is
inside, `at[t]` where: at the lock, in front of the `while` condition, in front of the
signal, in front of the bookkeeping, or asleep. A wait set is not a variable of its own:
the sleepers of a condition are the threads asleep in the operation that waits on it.

An operation is cut wherever another thread can see or do something: `Lock`, `Wait` (one
step that releases the mutex and sleeps, as `pthread_cond_wait` does), `PutCopy` /
`PutSignal` / `PutCommit`, `GetCopy` / `GetSignal` / `GetCommit`. The signal is a step of
its own because the code signals **before** it changes `len` (lines 65-70 and 94-99), and
what a woken thread may find is the point. `queue_task_done` has one step under the mutex,
which covers lines 115-124, and so has the end of `queue_join`. Payload bytes are one value
per put. `pthread_cond_signal` wakes one sleeper, any one; `SpuriousWakeup` lets any go.

The client is part of the model, because the queue is used from Forth: a consumer reports
each task it got before it asks for the next (`StartTaskDone`), the last join is made when
the puts have returned, and `queue-destroy` follows the joins. `Calls` gives each thread a
finite number of calls.

`WorkQueue` has no mutex and no ring: a sequence of tasks, what each consumer works on, and
a count. `TaskQueue!Abstract` maps the ring to it (`Contents` reads the ring in order). A
put takes effect at `PutCommit`, a get at `GetCommit`, everything else stutters.

### Compiler

One action per word of the language. `Checks(w, n)` lists the `RASSERT`s of a word in the
order of the code; `Accepts` needs all of them, `Fail` takes the first that does not hold
and abandons everything, as the label `end` does. The order of look-up (defined words,
variables, builtins, intrinsics, runtime words) is in `Known` and in the guards. `frags`,
`sequence`, `cf`, `words`, `runtime`, `variables`, `callbacks`, `strings`, `defining` are
the arrays of `m4_compile` and its flag. A word's fragment parameter holds only its two
flags in the code; here they are `words[k].flags`, and the stack comment packed into
`ext_param` is `words[k].sig`.

Abstracted: characters (the scanner delivers words; a comment is its two counts, a string
its decoded length), number syntax (`1` stands for all literals), the 56 builtins (one that
nests, `i`, `j`, and one that does not, `dup`). Indexes are 1-based.

### Layout

A program is a sequence of fragments that either have a displacement, or are a location, or
are a `FILL` of fixed size. `Pass` is one round of the `while` loop of `compile.c:805-820`:
positions from sizes, then every fragment that is not representable is relaxed by one.
`Dump` asks of every fragment whether the displacement the backend writes fits the
instruction it writes. `Representable` and `Encodable` are transcribed from different
functions, `fragment_bin_is_representable` and `fragment_bin_dump`; that they agree is a
property, and on the ESP32-S3 they do not.

Abstracted: fragments of fixed size; chores at the ends of a `FILL` (the ones of a fragment
with a displacement are part of its size); `addi` displacements beyond 2 KiB, where the
ESP32-S3 falls back on literals; VM displacements of more than three bytes (`CodeLimit`).

### Contexts

A context is named by the program or by the created thread it belongs to. `frames[t]` is the
stack of contexts that thread `t` executes on: a launch, a callback and the start of a
thread push one, a return pops it. `global[t]` is the thread-local `m4_global_`, `prog` and
`extra` are what matters of a context's tables. `Launch` and `EnterRun` are the two halves
of `m4_*_engine_run`, because `callbacks_used` is read in the first and the slots are taken
in the second; `Refuse` is the early returns. `Callback` looks the context up as
`m4_global_get_ctx` does and the word as `callback_handle` does.

`thread-create` is cut where creator and new thread can see each other: `Create`
(`pthread_create`), `StoreHandle` (the handle takes the argument's place on the creator's
stack), `Leave` (`sem_wait`); and in the new thread `ReadArg`, `Post`, `SizeSpace` (the first
look at the creator's context, and the `alloca`), `Inherit` (the second look, the assertion
on the size, `m4_global_thread_set`). Reading the context of a thread that has returned finds
any of the values there could be (`ReadProg`, `ReadRoom`): its stack frame is gone.

`Disciplined` chooses between programs that join the threads they create before they end
and programs that may not. Assumed of the embedding: a program's memory and binary stay
where they are, and C code calls a callback only on the host thread that launched the program
or on the program's own threads. Each context has one cell for the argument of
`thread-create`; the rest of the stacks is in `Engines`.

### Binary

`Compile` is the end of `m4_compile`: it measures (`Measured`) and writes (`Written`).
`Carve` is the context and stacks that `m4_*_engine_run` takes from memory, then each part
of `m4_unpack_binary_header` is an action with its error: `Variables`, `RuntimeWords`,
`LookUp` (one entry of one array at a time), `Data`, `Callbacks`, `Literals`. `Enter`
hands the tables over; native engines move callback addresses when code runs from a copy.
On the bytecode engine `Step` then reads one instruction after the other as `pc_step` and
`run_inner` do. Bytes are numbers, and numbers are encoded and decoded byte by byte, because
that is what the properties are about. The loops of the encoder are in closed form:
`Shifted(n, k)` is the number (or its complement, when it is negative) after `k` shifts by
seven bits, and `Shifts(n)` how often the code shifts. An int needs four shifts at most.

`LegalSource` says what the front end and the layout may hand to this part: names are
sequences of bytes other than 0, callbacks have at most 31 parameters, a displacement has at
least the width of its encoding, which is what the relaxation loop ends with, and all
lengths fit an int. `JobsAssumption` adds that memory is at a natural address, that its size
and what the program needs of it fit an int, and that runtime words are C strings. With
these the sums of the code, which are sums of ints and differences of pointers, do not
overflow, and are written as sums of integers. Nothing relates a program to the memory it is
given, to the words that are offered or to the slots that are left.

### Primitives, ForthMachine, NativeCode, Engines

`Primitives` gives the meaning of each builtin word as a function on a state (data stack,
the running word's return stack, data space pointer, memory), read off the C code of the
interpreter, with `Enough` for the interpreter's checks and `Defined` for what C leaves
undefined. Cells have eight bits in four units of two bits, where the program has 32 in four
bytes of eight: alignment and the sizes of the memory words are the program's, the ranges
are small. Signed overflow wraps, as the builds make it.

`ForthMachine` is the abstract machine: a stack of calls each with its own return stack. It
has no registers, no saved addresses and no chores. `IsProgram` is what the front end's accepted
code looks like, in terms of fragments: it follows `Compiler!Regions`, `Structured` and the types
of fragments, and `Tasks` are assumed to be such programs (`TasksAssumption`). `Outcomes` allows what engines may differ
in: `2/` of a negative odd number, which the interpreter rounds to zero and machine code
rounds down, and an order comparison whose difference overflows, which the ESP32-S3 decides
by the sign of the difference.

`NativeCode` lists the words as the generators do, one symbol per instruction or per few of
them, with the chores as symbols of their own; `GeneratedFlags` derives the flags as the
scripts do, so a wrong flag shows as a wrong result.

`Engines` has one action per
opcode and engine, where the engines differ. One return stack `rs` holds what is really on
it: cells, saved bases and return addresses. `frames` is auxiliary: no step of an engine
depends on it, with the one exception below. It remembers of each call where it began on the
return stack, what it saved there, the word and where it returns to, so that the mapping to
`ForthMachine` (`DataStack`, `Calls`) can take the stack apart; whether the engine really
returns there is what the refinement says. The mapping runs the chores that a fragment left
to the next one (`Whole`).
Runtime words are `m4_lit`, a C function that changes the top cell (`bump`), and one that
calls a callback with the top cell and pushes its result (`invoke`).

Where ESP32-S3 code lies matters in one place: whether the store that `PUSH_CALLBACK` falls
through to is written over by the next fragment or stays (`StoreStays`). `EspMeasured`,
`EspBytes` and `EspFilling` are `fragment_bin_size`, `EspPositions` and `EspPass` a round of
`m4_compile`'s loop, and `EspSolved` the loop. The sizes are those of programs with at most
256 variables and 256 callbacks, fewer than 96 runtime words and less than 2 KiB of code,
and are `Layout`'s otherwise; chores are counted by `NeededChores`, what a word saves by its
flags. A store of three bytes in the place of two bytes of filling would be cut off: there
is no step for it in the model.

Machine code checks nothing. `Native` therefore only runs a fragment when nothing is missing
and nothing is undefined; behind that point there is no promise to check. It also leaves one
cell of stack memory for the flush in front of a C call and behind a word that C has called
(`x86-32_engine_asm.s:48-50`, `118-133`), which is where `frames` is asked whether C is the
caller. On the interpreter, `VmFail` ends
the run when a check fails; what a failing word has popped by then, and where a failing
`allot` has left the data space pointer, is not told apart, since nothing runs afterwards. The
interpreter's words and checks are `Meaning` and `Enough`, as the abstract machine's are: of
the bytecode engine the refinement is about calls, frames and the return stack; of a builtin's
own result it says something for machine code, whose listings are executed instruction by
instruction.

## Runs

| run | instance | shows |
|---|---|---|
| `task_queue_one_each` | one producer with 4 puts, one consumer, one joiner with 2 joins; 1 to 3 slots; 2 spurious wakeups | `TypeOK`; `WorkloadCompletes`: every call returns and the program gets to `queue-destroy` |
| `task_queue_two_each` | two producers and two consumers with 2 calls each, one join; 1 and 2 slots; 1 spurious wakeup | `QueueInv`, `CountInv`, `NoLostWakeup`, `TaskDoneAsserts`, `DestroyedIdle`, `ImplementsWorkQueue` |
| `task_queue_stranded` | two producers (3 puts and 1), one consumer, 2 slots | violation of `EveryPutReturns`, see Findings |
| `compiler_control` | every source of at most 7 words from all control-flow words, definitions, `exit`, `recurse`, `i`, `j` and a runtime word | `TypeOK`, `Placement`, `WordIndexAgrees`, `WhileOnBegin`, `Structured`, `Regions`, `FlagsExact` |
| `compiler_names` | every source of at most 4 words from all words that enter or look up a name, with three names, three strings and four stack comments | `TypeOK`, `CallbackSignatures`, `StringAddresses`, `NameKeepsMeaning` |
| `layout_solves` | 4,746 programs of five shapes, on three backends, fillings at and next to each encoding's limit | `TypeOK`, `DumpFits`, `LeastLayout`, `Terminates` |
| `layout_esp` | 180 short programs for the ESP32-S3 | violation of `AssertedRanges`, see Findings |
| `contexts` | one host thread, two threads it may lead to, three programs (one per engine) that want four callbacks of two slots; runs and callbacks nested two deep; threads are joined | `TypeOK`, `ArgOutlivesUse`, `ArgPassed`, `ContextExclusive`, `EntryAssertHolds`, `CallbackRunsItsWord`, `CreateReturns` |
| `thread_root` | one program, a thread and a thread of that thread; nobody has to join | violation of `EntryAssertHolds`, see Findings |
| `binary` | four sources, three engines, three sets of runtime arrays, two counts of free slots, aligned and odd memory of five sizes, in place or copied: 1,440 jobs | `TypeOK`, `MeasuredIsWritten`, `TablesRestored`, `MemoryKept`, `LoadsIffPossible`, `InstructionsDecoded` |
| `engines` | the programs of `MCEngines`: every word on seven values and on too short and full stacks, the data space at its ends, all pairs of 31 neighbours on two stacks, all triples of seven, and 21 programs with branches, loops with exits, calls, recursion, callbacks and nested callbacks, one of them at the end of a branch where its stray store is written over; 10,119 tasks, a program and an engine each | `TypeOK`, `ImplementsForth` |
| `esp_callback` | a callback pushed at the end of a branch, alone and behind `1+`, on the ESP32-S3: alone the stray store is written over, behind `1+` it stays | violation of `OnlyDeclarationsStore`, see Findings |

Deadlock is not checked: the calls of the clients are finite, the source ends, the code is
written, the threads and programs are used up, the programs halt.

**Why the bounds are enough.** With 4 puts through 1 to 3 slots the ring wraps, is full and
is empty; two threads of a kind are what it takes to steal a wakeup, or to sleep beside each
other; the proofs below remove these bounds for everything but liveness. Seven control words
hold a loop in a construct in a definition, or two definitions, and every pair of an opener
and a terminator in between; the deepest thing a check looks at is two entries of the
control-flow stack. Four words with their operands are enough to use a name, define it, and
use it again, in any table; the proofs remove these bounds for every property of `Compiler`.
The programs of `layout_solves` have one branch across another,
so that relaxing one moves the other's target across a limit; the fillings lie within a few
bytes of 63, 64, 127, 128, 2047 and 8191.

Of threads, a creator, its thread and a thread of that one are the longest chain that
`thread_entry` can look along: it only reads its own creator. Two slots for four callbacks
make launches fail, succeed after a cleanup, and share the table. The proofs remove these
bounds. The numbers of `binary` are the last of each encoded size and the first of the next,
and memory is exactly enough, one byte short, one byte more, 13 bytes short (inside the
tables) and 264 bytes short (before or inside the variables). The proofs remove these bounds, too.
The stacks of `engines` have
12 cells and the data space 12 units, enough for every word and for two nested calls with
two open loops, and small enough to overflow. Chores are decided from the next fragment and
the one before it, so triples show every case; full pairs run every listing beside every other.
The proofs remove these bounds, but for the width of a cell.

**Fairness.** `TaskQueue!FairSpec` is weak fairness of each thread's own steps, that is:
threads run, and a thread that the mutex is free for gets it if it stays free. Because calls
are finite nobody can be overtaken for ever, so weak fairness of the lock is enough; nothing
is assumed of the choice `pthread_cond_signal` makes, nor that spurious wakeups happen.
`WorkloadCompletes` is claimed only where one signal suffices (`SignalsSuffice`): one slot,
or one thread of each kind. `Layout!FairSpec` is weak fairness of `Next`: `m4_compile` is a
sequential function and runs on. `Contexts!Fairness` is weak fairness of each thread's steps
in `thread-create` and `thread_entry` (`Handshake`): threads that can run do run. Nothing is
assumed of programs: they need not return, call back or join.

## Properties worth a comment

- `NoLostWakeup`: where signals suffice, a thread asleep although its condition is over has
  another caller of the same operation on its way that takes the turn. It speaks of the
  state between signal and commit as well, where `len` is out of date.
- `DestroyedIdle`: `queue_join` reads only `unfinished_tasks`; that this is enough to
  destroy the mutex rests on the order of calls.
- `Placement`: the fragments not yet emitted are exactly the targets that open constructs
  owe. In accepted code none is left.
- `WordIndexAgrees`: `update_defined_word_nested_call_param` compares a sequence index with
  a fragment index. They agree at words' locations only because a definition begins when no
  construct is open.
- `Structured`: read off the opcodes, not off the control-flow stack: branches keep to
  their word and to their loop depth, and `i` and `j` have the loops they need.
- `NameKeepsMeaning`: an action property over three tables. A builtin or a control word such
  as `."` that the program defines anew is outside it.
- `LeastLayout`: relaxing in rounds from below, never taking a relaxation back, yields the
  pointwise least layout on the VM and on x86-32. On the ESP32-S3 it is not claimed: padding
  makes sizes depend on positions.
- `ArgOutlivesUse`: `entry_arg` lies on the creator's C stack; the property relates the
  control locations of two threads and the semaphore.
- `ContextExclusive`: callbacks on several threads, nested runs and threads of threads never
  bring two threads onto the same stacks.
- `CallbackRunsItsWord`: an action property about the tables of two programs with slots from
  one table.
- `LoadsIffPossible`: the error paths of `m4_unpack_binary_header` against an independent
  sum of what a program needs: no program is refused that fits, to the last byte, and none
  started that does not.
- `MemoryKept`: the pieces of a program's memory as intervals that neither overlap nor
  leave the memory given.
- `ImplementsForth`: a refinement; on every engine each step is a step of `ForthMachine`.
  It speaks of every word, every flag, every register that a word leaves unsaved and every
  turn between C and machine code at once.

## What is proved

For every set of threads, every set of capacities, and every number of calls and spurious
wakeups (`QueueAssumption`: the three kinds of threads are disjoint, `Nobody` and
`NoElement` are not threads or elements, capacities are positive):

- `TaskQueueProofs!QueueInvariant`: `Spec => []QueueInv`.
- `TaskQueueProofs!TypeCorrect`, `NoWakeupIsLost`: its consequences `[]TypeOK` and
  `[]NoLostWakeup`.
- `TaskQueueProofs!QueueRefinesWorkQueue`: `Spec => ImplementsWorkQueue`.
- `TaskQueueProofs!CountsAddUp`, `TaskDoneNeverAborts`, `DestroyFindsIdle`: `Spec` implies
  `[]CountInv`, `[]TaskDoneAsserts` and `[]DestroyedIdle`, with `WorkloadAssumption` as well:
  there are finitely many calls, no more gets than puts, and every joiner joins at least
  once. A program that gets more than it puts waits for ever, and one that destroys a queue
  it has not joined destroys it under its users; neither is the queue's promise.

For every vocabulary, every set of names, signatures and strings, and sources of any length
(`CompilerAssumption`: names are words of the vocabulary, counts are natural):

- `CompilerProofs!CompilerInvariant`: `Spec => []CompilerInv`.
- `CompilerTypes`, `TypesHold`: `Spec => [](TypeInv /\ FinalCode)` and `Spec => []TypeOK`:
  what a fragment carries leads into the tables, and a defined word to a location.
- `PlacedToTheEnd`: `Spec => []Placement`: each fragment is emitted once or owed once, and
  compiled code, with the main program moved in front, holds each fragment exactly once.
- `IndexesAgree`, `WhilesOnBegin`, `SignaturesStay`: `Spec` implies `[]WordIndexAgrees`,
  `[]WhileOnBegin` and `[]CallbackSignatures`.
- `MeaningsStay`: `Spec => NameKeepsMeaning`.
- `CompilerShape!CodeFits`: `Spec => []ShapeInv`: while words are read, the code emitted so
  far fits the constructs that are open.
- `CompilerShape!RegionsHold`, `StructureHolds`, `FlagsAreExact`: `Spec` implies `[]Regions`,
  `[]Structured` and `[]FlagsExact`: an accepted program falls into the bodies of its words
  and a main program, branches stay within their part and at their loop depth, and a word is
  flagged exactly if something in its body overwrites the link register, or an exit leaves a
  loop.
- `CompilerShape!StringsAreAddressed`: `Spec => []StringAddresses`.

For every set of programs and every choice of backends (`LayoutAssumption`: jumps lead to
locations and the code ends with a fragment of a fixed size; `SizeAssumption`: with every
fragment at its longest, code stays below `CodeLimit`, and on the ESP32-S3 the words whose
addresses are pushed begin below 2 KiB, the reach of `movi`, behind which the literal pool
begins that is not modelled):

- `LayoutProofs!SolvedFits`: `Spec => []SolvedInv`: when the loop has ended, every fragment
  is representable at the positions and relaxations that the code is written with.
- `LayoutProofs!NothingCutOff`: `Spec => []DumpFits`: hence no displacement of the VM and
  x86-32 backends is cut off.
- `LayoutTypes`: `Spec => []TypeOK`: no fragment is relaxed beyond the last encoding its
  backend has, where the backends assert.
- `LayoutIsLeast`: `Spec => []LeastLayout`: on the VM and the x86-32 no byte is wasted.

For every set of jobs, that is: sources, engines, arrays of runtime words, free slots,
memory of any size at any address, and code in place or copied (`JobsAssumption`, see
Binary above):

- `BinaryProofs!BinaryInvariant`: `Spec => []BinaryInv`.
- `MeasureHolds`: `Spec => []MeasuredIsWritten`: `m4_compile` writes the bytes it measured,
  and the engine finds the code behind them.
- `TablesHold`: `Spec => []TablesRestored`: the tables have what the source had.
- `MemoryHolds`: `Spec => []MemoryKept`: nothing is written outside the memory, or twice.
- `LoadingIsExact`: `Spec => []LoadsIffPossible`: the checks of the engines and of the
  header add up to exactly what is needed, to the last byte.
- `DecodingHolds`: `Spec => []InstructionsDecoded`: the bytecode engine reads the
  instructions that were written, whatever the operands and their widths.
- `TypesHold`: `Spec => []TypeOK`: no reader passes the end of the binary.
- `BinaryProofs!Decoded`, `BinaryHolds`, `InstructionHere`: the lemmas underneath, for every
  int, every source and every fragment: decoding is the inverse of encoding in any width
  that has room, each part of the binary stands where the measured sizes of those before it
  say, and an instruction is read where it was written.

For any fragments and neighbours with flags a listing can have, and stacks of any contents:

- `NativeProofs!FlagsWellFormed`: B comes only with A, CLOB only with both, Y only with Z,
  for any listing.
- `NativeProofs!BothOrNeither`: a fragment leaves A out exactly when the one above it leaves
  Z out, though each looks only at flags and neither at the other's decision.
- `NativeProofs!LeavingOutIsSafe`: in front of the second body, depth and the memory of the
  stack are the same with and without the chores left out, and so is the top cell, unless
  that body loads it anyway.

For each of the 63 builtin words and both generators, any contents of stacks, data space and
memory (`PrimitivesAssumption`: the stacks have at least one cell and a length that a cell can
hold, and the data space starts at a multiple of four and ends at an address that a cell can
hold):

- `NativeProofs!WordDone`: between its chores, the listing of a word does what the word may do.
- `NativeProofs!WordStep`: so does the code that is written between any two neighbours, without
  the chores that they make unnecessary.

For any tasks, that is: programs that `IsProgram` accepts, on each of the three engines, any
number of variables, and stacks and data spaces of any size:

- `EnginesProofs!EngineTypes`: `Spec => []TypeOK`.
- `EnginesProofs!EnginesImplementForth`: `Spec => ImplementsForth`, assuming
  `NoStrayStore`: on the ESP32-S3 the store of no `PUSH_CALLBACK` stays, that is, none stands in
  front of a branch location with counted code that does not end aligned (`StoreStays`).
  Without it the statement is false, which the run `esp_callback` shows.
- `EnginesProofs!DeclarationsStore`: `Spec => OnlyDeclarationsStore`, under the same assumption.

For any sets of hosts, threads and programs, any engines, numbers of callbacks and slots, and
any nesting (`ContextsAssumption`: the sets are disjoint, numbers are natural):

- `ContextsProofs!ContextsInvariant`: `Spec => []CtxInv`.
- `ContextTypes`, `EntryArgOutlivesUse`, `ThreadsGetTheirArgument`, `ContextsAreExclusive`,
  `CallbacksRunTheirWords`: `Spec` implies the properties of the run `contexts`, whether
  programs join their threads or not, and for any number of hosts.
- `EntryAssertionHolds`: `EntryAssertHolds`, assuming `Disciplined`. Without the assumption
  it is false, which the run `thread_root` shows.

`NoLostWakeup` is not inductive. `QueueInv` adds what it rests on: which thread can be where
(`CallsFit`), that the thread between lock and unlock is the holder of the mutex
(`MutexHeld`), that what was read in front of the signal still holds behind it (`InFlight`:
the slot is free or taken, and `len` has not moved), and that a change about to be committed
has been announced (`Announced`). `MutexHeld` makes the critical sections exclusive, which
`InFlight` needs; `InFlight` gives the ranges in `TypeOK`; `Announced` turns into
`NoLostWakeup` at the commit. One lemma per action; each assumes the invariant and proves
its next value. The refinement uses the same invariant: at `PutCommit` the slot behind the
last one holds the element, so `Contents` grows by it, and at `GetCommit` the first slot is
what the consumer holds.

`TaskDoneAsserts` needs a count. `CountInv` says that `unfinished_tasks` is `len` plus the
number of consumers with a task in hand, that the elements in the ring and the puts to come
are at least the gets to come, and who may be on the way to the last join and to
`queue-destroy`. A consumer in front of `queue_task_done` has a task in hand, so the count is
positive; the last join returns at 0, when ring and hands are empty, and then no get is to
come. The lemmas count sets of threads and of pairs of a thread and a call, which change by
one element at each step.

`TypeOK` of `Layout` is inductive with the domains spelt out (`Typed`), but for one thing: a
misfit must not be at the last encoding. `MostRelaxedFits` says that the last encoding fits
any displacement there is, which takes a bound on positions: `PositionsStep` and
`FarthestStep` unfold the recursive functions by one step (that they exist is shown by
`IterationExists`, with a least counterexample in place of an induction), and
`WithinFarthest` compares the two. `LeastLayout` speaks of the end of the loop only.
`BelowFitting` is what every round keeps: the relaxations are below any that fit.
`DistancesGrow` says that less relaxed code lies closer together, and `CloserFits` that a
displacement encoded in one layout can be encoded as short in a closer one; so a misfit whose
relaxation is already that of a fitting layout would fit there, too.

`CtxInv` has five parts. `TypeOK` and the argument properties are not inductive: they rest
on where creator and new thread are in the handshake (`HandshakeInv`), on which contexts a
thread may execute on (`FramesInv`: hosts on programs they launched, created threads on their
own), on what the slots of a host's table lead to (`SlotsInv`: slot `offset[p] + k` of the
launching host leads to `p` as long as `p` is live), and on what the
root of a starting thread is (`RootsInv`: a program that has been launched, or a thread that
has started, whose tables do not change any more). `ContextExclusive` follows from
`FramesInv`, `CallbackRunsItsWord` from `SlotsInv` and `FramesInv`, `EntryAssertHolds` from
`RootsInv`. Steps that leave most of this alone are dealt with once (`Calm`, `Quiet`, `Kept`);
there is one lemma per action and part where they do not.

`CompilerInv` consists of the code (`CodeOK`: `Placed` says that every fragment is emitted or
owed, never both and never twice; `OnBegin` is `WhileOnBegin`), of where the defined words are
(`Located`), of the callbacks' signatures (`CallbacksOK`), and of what keeps these: a word
whose signature a comment may still give is not a callback yet (`Fresh`), because `c'` emits a
fragment behind the word's location. `IndexesAgree` rests on `Placed` with an empty stack: a
colon is accepted only with no construct open, and then as many fragments are emitted as exist
(`AllPlaced`), so the index of the new location is its place. Error paths matter: a step that
fails frees everything, and that the first failing RASSERT gives the code takes a least element
(`LeastElement`), as does `find_nstring` (`FindFirst`), on which `MeaningsStay` rests: tables
only grow at the end (`FindKept`), and by names without a meaning (`Adds`).

`CompilerInv` does not say what fragments carry; `TypeInv` does, on top of it. A fragment is
`Sound` when its parameter is one that the opcode takes from the tables as they are; old
fragments stay sound because the tables they refer to only grow (`Grows`, `OperandsGrow`), new
ones because every emitting action looks the parameter up or adds it. Words being defined
need that there is a last word. `FinalCode` is what `MainFirst` leaves at the end: `NoLater`
is a total order on the positions (`TotalOrder`), so `Place`, the number of positions no later
than a given one, is strictly monotone and hence a permutation (`PlaceOrder`, `TakesAll`,
`MainFirstReorders`), and being placed once does not depend on the order (`Rearranged`). Where
a string starts is a recursive function, which exists by taking the least index at which it
might not (`SumsExist`, `Offsets`).

`Structured`, `Regions` and `FlagsExact` say what is true of an accepted program, so the work
is to say what is true of every prefix of it. `Fits` relates the code so far to the
control-flow stack. Its part `Regional` says that words and the main program take turns only
where no loop is open and behind an exit; its part `Nested` that a branch to a target
already emitted arrives at its own depth (`Arrives`), that one to a target an open construct
owes is at the depth of the loops below that construct (`Awaited`), that the targets of
`begin` and `do` are in the part being written and at the depth of the loops up to theirs
(`Begun`), and that `i` and `j` have their loops (`Indexed`). The loops open by opcodes are
those on the stack. `FlagsIn` says that flags describe the exits of the body so far; an exit is
checked against the loops of the stack, which are the loops of the code. There is
one lemma for each way to add to the code (`RegionalNext`, `RegionalColon`, ...). At the end,
`MainFirst` moves the main program in front. `MovesTogether` says that the move keeps the
order of both parts, and neighbours that belong to the same part; so regions and depths carry
over (`FinalShape`), and with them all three properties.

`StringAddresses` rests on the literal being written next to its address while reading
(`StringsInv`, `StringsMoved` for the final move), on a string keeping its offset when the
table grows (`OffsetsStay`), and on offsets lying a string and its zero apart
(`OffsetsApart`).

`Binary` is about texts that stand behind each other. `Holds(b, p, t)` says that the bytes
`t` stand in `b` from `p` on; it passes to parts (`HoldsCat`, `HoldsWithin`), and `Flattened`
gives the place of each element of a list. `EncodedBytes` says what the bytes of a number
are and `Decoded` reads them back; `HeaderParts`, `BinaryParts` and `BinaryHolds` place every
part of the binary at the sum of the sizes that `m4_compile` measures. So `Reads`,
`CallbackHere`, `NameHere` and `InstructionHere` can say what a reader finds at each of these
places, and `BinaryInv` that the reader is there: `Placed` gives its position and the next
free address at each stage, `Searched` the state of the search for a runtime word (no entry
passed by has the name), `Restored` what the tables have by then. `Kept` strengthens
`MemoryKept`: ranges end at the next free address at the latest. `Justified` has one half of
`LoadsIffPossible`; the other half is what `Placed` says of the last stage. `Ends` adds up
the pieces of memory: all begin at multiples of four, so the alignments in between cost
nothing but what `Needed` counts. `Decoding` says that `pc` stands at the end of some
fragments and that their instructions have been read. Marks have no bytes, so the number of
fragments is not determined by `pc`; `AheadOrRead` says that behind them is an instruction
or the end. Sums, texts laid end to end and the list of instructions are recursive
functions; that they exist is shown by counting up (`UpTo`), with a set in place of the
induction.

`LeavingOutIsSafe` goes by cases of B: left out because the cell is in memory already; still
stored, and then there was no Y to leave out; or not there at all.

The proof that engines implement `ForthMachine` has three layers.

*Words.* `NativeProofs` begins with the C code: from a state of the program the `Meaning` of
each word leads to another one, and does not look below the operands that the word pops. Then the listings. `Shown` says what flags a listing gets and what is
left of it; for each word, its body runs instruction by instruction from any machine (`Opened`:
behind the opening chores that the flags ask for) to one that a last part, the closing chores,
makes whole. `Restacks` says what that leaves of the data stack when the machine keeps its top in
a register, and `Does` that it is one of the `Outcomes` of the word's C code. The native
comparisons, shifts and memory operations are compared with C's operators one by one, and
`WordDone` collects the words.

*Neighbours.* A machine may lack what the fragment before has left out: `Restored` runs the
chores that are missing, and `Ready` says that the restored machine is whole and which parts of
the real one can be relied on. `WordStep`, `PushStep` and `DropStep` take a machine that is ready
for a fragment to one that is ready for the next: what the fragment before left out, this one
does not do (`BothOrNeither`), and where it is not done at all, it made no difference.

*Programs.* `ImplementsForth` is not inductive: that a return goes to its caller depends on the
return stack below. `Inv` is: `FramesInv`, `MachineOK` and `VarsOK`. `FramesInv` says of each
frame which header the engine has put on the return stack for it: the base and the address on the
interpreter, address and perhaps base on the x86-32, perhaps base and perhaps address on the
ESP32-S3 (`Header`); that cells above it are the word's own (`Holds`); that a frame goes on behind
a call of the frame below, with the base it had (`CalledBy`); that C's calls nest (`NativeOK`);
and that the link register has the address when it is not on the stack (`LinkOK`). Which words
save what is decided at their location by flags of the whole word, so a frame has two states,
before its location and behind (`SavesBase`, `SavesLr`): a word without a call still has its
return address in the link register, and one without an exit from a loop leaves the base as it
found it.
`MachineOK` is `Ready` for the fragment to come, or a stack within memory on the interpreter.
There is one lemma for each way the frames can change (`within a word`, `call`, `return`,
`location`), one for the calls read off them, and one per action and engine that puts the three
layers together; `EveryStep` goes by the actions of `Next`.

Control may come to a location from many places. Locations, branches and calls have no flags, so
no chore is left out beside them, and the machine that a jump arrives with is whole.

Left to TLC:

- liveness: `WorkloadCompletes`, `Terminates`, `CreateReturns`;
- cells of more than eight bits: the widths are definitions of `Primitives`, not constants, so
  the proofs about words are proofs about cells of eight bits in units of two.

## Findings

- **A producer can sleep for ever on an empty queue** (`task_queue_stranded`).
  `queue_get` signals `not_full_cond` only when the queue was full
  (`runtime_threadutil.c:94`). Two producers asleep on a full queue of two, two gets: one
  signal. The second producer stays asleep; the consumer empties the queue and waits, too.
  `queue_put` has the same shape for two consumers (line 65). It does not happen with one
  slot or with one thread of each kind, which is what `SignalsSuffice` says.
- **On the ESP32-S3 a branch is measured from the wrong place** (`layout_esp`).
  `fragment_bin_is_representable` measures from the end of the start chores
  (`esp32s3_backend.c:856-860`), `fragment_bin_dump` from the instruction, 6 or 8 bytes
  further on (964-965, 987-988). `if then` with nothing in between fails the assertion at
  line 647, and loops whose bodies end close to the limit the one at line 704.

- **A thread may read the context of a creator that has returned** (`thread_root`).
  `done_with_arg_sem` releases the creator when the new thread has read its argument
  (`vm_engine.c:109`), but `thread_entry` goes on reading the creator's context
  (`vm_engine.c:112`, `135-142`). If the creator is itself a created thread and ends without
  a join, its context was in the frame of its own `thread_entry`. The assertion at
  `vm_engine.c:142`, which compares the first look with the second, can fail; so can the
  same ones in `x86-32_engine.c:78` and `esp32s3_engine.c:84`.
- **A callback pushed on the ESP32-S3 may overwrite a constant** (`esp_callback`). The case
  `M4_OPCODE_PUSH_CALLBACK` of `fragment_bin_dump` has no `break`
  (`esp32s3_backend.c:997-1001`) and writes a store that `fragment_bin_size` does not count.
  The next fragment is written over it, except in front of a branch location whose filling
  was counted, because the counted code does not end aligned: `(position + size) % 4 > 1`
  (`esp32s3_backend.c:827`). There the store takes the place of the two bytes of filling. A
  `PUSH_CALLBACK` alone between two branch locations has 8 bytes from an aligned position, so
  its store is written over. In `7 constant n 3 0 if 1 else 1+ c' w then n` it takes positions
  39 to 47 and its store stays; the constant or variable with the callback's index is
  overwritten with the callback's address.

## Not modelled

- The bit patterns of x86 and Xtensa instructions, the literal pool of the ESP32-S3, and C's
  calling conventions (stack alignment, register windows): a comparison with an assembler
  says more than a model. What the instructions do is modelled.
- What native code does when a program uses more stack or memory than there is, divides by
  zero or writes outside its data space: nothing is promised there. The last cell of a stack
  is such a place as well: the flush in front of a C call stores one cell behind it.
- Where within a failing word the interpreter stops, since nothing looks at the stacks
  afterwards.
- `thread-create` and `thread-join` as instructions inside `Engines`: what they do is in
  `Contexts`.
- ELF writers, command-line programs, `mcp_forth_generator.py`, the runtime libraries other
  than the task queue: input and output, without state of their own worth a module.
- Tests, benchmarks and Forth programs are inputs to the system.

`PROJECT.json` lists each component with its status, and the hazards of the code with the
properties that cover them or the reason why none does.
