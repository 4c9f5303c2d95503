------------------------------- MODULE Binary -------------------------------
(***************************************************************************)
(* The binary between the compiler and the engines.                        *)
(*                                                                         *)
(* The end of m4_compile measures a header and writes it, with the code,   *)
(* into the space it measured.  m4_*_engine_run carves a context and       *)
(* stacks out of the memory it is given, and m4_unpack_binary_header reads *)
(* the header step by step, looks the runtime words up and carves further  *)
(* tables.  Then the bytecode engine reads instructions with the number    *)
(* format the backend wrote them in.                                       *)
(*                                                                         *)
(* A byte is a number, the binary a sequence of bytes at an address that   *)
(* is a multiple of four, and the memory of a program a range of           *)
(* addresses: only the ranges written are kept, not their content.         *)
(***************************************************************************)
EXTENDS Integers, Sequences, SequencesExt

CONSTANTS
  Jobs   \* [source, engine, arrays, slots, base, len, code]: what is
         \* compiled, and with what it is run

VARIABLES
  job,       \* the job at hand
  stage,     \* control location, or the error returned
  bin_len,   \* the length m4_compile measured
  bin,       \* the bytes m4_compile wrote
  bin_p,     \* reader's position in bin
  memory_p,  \* next free address of the program's memory
  lookup,    \* runtime words still to find, and the array entry looked at
  tables,    \* what the engine's context is given
  wrote,     \* ranges of memory written: <<first, last>>
  pc,        \* the bytecode engine's position in bin
  decoded    \* instructions it has read

vars == <<job, stage, bin_len, bin, bin_p, memory_p, lookup, tables, wrote,
          pc, decoded>>

BINARY_ERRORS == {"out_of_memory", "runtime_word_missing",
                  "too_many_callbacks"}

-----------------------------------------------------------------------------
(* Numbers: groups of seven bits, least significant first, all but the     *)
(* last with the eighth bit set; the last has six bits and a sign.         *)

Complement(n) == IF n < 0 THEN -(n + 1) ELSE n   \* u, or ~u of a negative

(* u, or ~u, after k shifts by seven bits. *)
Weights == <<1, 128, 128 * 128, 128 * 128 * 128, 128 * 128 * 128 * 128>>
Shifted(n, k) == Complement(n) \div Weights[k + 1]

(* How often a loop shifts until no bit above the sixth is set. *)
Shifts(n) == CHOOSE k \in 0..4 : /\ Shifted(n, k) < 64
                                 /\ \A j \in 0..(k - 1) : Shifted(n, j) >= 64

(* Fault: the sign bit is counted as a bit of the number. *)
SevenBitSize(n) ==
  1 + CHOOSE k \in 0..4 : /\ Shifted(n, k) < 128
                          /\ \A j \in 0..(k - 1) : Shifted(n, j) >= 128

(* m4_num_encoded_size_from_int *)
encoded_size_from_int(n) == 1 + Shifts(n)

SignBit(n) == IF n < 0 THEN 64 ELSE 0

(* Fault: room to spare is filled in front of the number. *)
FilledInFront(n, size) ==
  LET spare == IF size > Shifts(n) THEN size - Shifts(n) - 1 ELSE 0
      last == spare + Shifts(n) + 1
  IN  [k \in 1..last |->
         IF k <= spare THEN 128
         ELSE IF k < last THEN 128 + (Shifted(n, k - 1 - spare) % 128)
         ELSE Shifted(n, Shifts(n)) + SignBit(n)]

(* m4_num_encode_with_size: short numbers are filled up to the size, with  *)
(* what six bits hold in the first byte and nothing in the others.         *)
encode_with_size(n, size) ==
  LET last == IF size > Shifts(n) THEN size ELSE Shifts(n) + 1
  IN  [k \in 1..last |->
         IF k < last THEN 128 + (Shifted(n, k - 1) % 128)
         ELSE Shifted(n, k - 1) + SignBit(n)]

encode(n) == encode_with_size(n, encoded_size_from_int(n))

(* m4_num_decode: the number at address p, and the address behind it. *)
Byte(p) == bin[p + 1]
decode(p) ==
  LET last == CHOOSE q \in p..(p + 4) :
                Byte(q) < 128 /\ \A r \in p..(q - 1) : Byte(r) >= 128
      value[q \in p..last] ==
        IF q = last THEN Byte(q) % 64 ELSE value[q + 1] * 128 + (Byte(q) % 128)
  IN  [n |-> IF Byte(last) >= 64 THEN -value[p] - 1 ELSE value[p],
       next |-> last + 1]

(* M4_ALIGN and m4_align *)
m4_align(x) == ((x + 3) \div 4) * 4

-----------------------------------------------------------------------------
(* The compiler's side. A source has the number of variables, the names of *)
(* the runtime words, data strings and literals as sequences of bytes,     *)
(* callbacks [params, results, position], and the code: bytecode           *)
(* fragments [op, param, width], of which a displacement has the width     *)
(* that relaxation found.                                                  *)

OPCODES == <<"DEFINED_WORD", "RUNTIME_WORD", "PUSH_LITERAL", "EXIT_WORD",
  "DEFINED_WORD_LOCATION", "PUSH_DATA_ADDRESS", "DECLARE_VARIABLE",
  "USE_VARIABLE_OR_CONSTANT", "HALT", "BRANCH_LOCATION", "BRANCH_IF_ZERO",
  "BRANCH", "DO", "LOOP", "PUSH_OFFSET_ADDRESS", "PUSH_CALLBACK",
  "DECLARE_CONSTANT", "EXECUTE", "THREAD_CREATE", "THREAD_JOIN", "ENTRY">>
opcode(op) == IF op = "BUILTIN_WORD" THEN 0
              ELSE CHOOSE i \in DOMAIN OPCODES : OPCODES[i] = op
OPCODE_LAST == Len(OPCODES) + 1
NUM_MAX_ONE_BYTE == 63

WithParam == {"RUNTIME_WORD", "PUSH_LITERAL", "PUSH_DATA_ADDRESS",
  "DECLARE_VARIABLE", "USE_VARIABLE_OR_CONSTANT", "PUSH_CALLBACK",
  "DECLARE_CONSTANT"}
Displaced == {"DEFINED_WORD", "BRANCH_IF_ZERO", "BRANCH", "LOOP",
  "PUSH_OFFSET_ADDRESS"}
Plain == {"EXIT_WORD", "HALT", "DO", "EXECUTE", "THREAD_CREATE", "THREAD_JOIN"}
Marks == {"DEFINED_WORD_LOCATION", "BRANCH_LOCATION", "ENTRY"}

OneByteBuiltins == 0..(NUM_MAX_ONE_BYTE - OPCODE_LAST)

(* fragment_bin_dump of vm_backend.c *)
fragment_bin_dump(f) ==
  CASE f.op = "BUILTIN_WORD" /\ f.param \in OneByteBuiltins ->
         <<f.param + OPCODE_LAST>>
    [] f.op = "BUILTIN_WORD" /\ f.param \notin OneByteBuiltins ->
         encode(0) \o encode(f.param)
    [] f.op \in WithParam -> encode(opcode(f.op)) \o encode(f.param)
    [] f.op \in Displaced ->
         encode(opcode(f.op)) \o encode_with_size(f.param, f.width)
    [] f.op \in Plain -> encode(opcode(f.op))
    [] f.op \in Marks -> <<>>

Each(f(_), ss) == FlattenSeq([i \in DOMAIN ss |-> f(ss[i])])
(* The sums of the first i numbers of ns. *)
Sums(ns) ==
  LET sum[i \in 0..Len(ns)] == IF i = 0 THEN 0 ELSE sum[i - 1] + ns[i]
  IN  sum
Total(f(_), ss) == Sums([i \in DOMAIN ss |-> f(ss[i])])[Len(ss)]
Padded(bytes) == bytes \o [i \in 1..(m4_align(Len(bytes)) - Len(bytes)) |-> 0]

tolower(c) == IF c \in 65..90 THEN c + 32 ELSE c
lower(name) == [i \in DOMAIN name |-> tolower(name[i])]
(* What the caller of a callback has to know: params_info. *)
params_info(c) == c.params * 2 + (IF c.results > 0 THEN 1 ELSE 0)

terminated(t) == Len(t) + 1
callback_size(c) == 1 + encoded_size_from_int(c.position)

(* fragment_bin_size of vm_backend.c *)
fragment_bin_size(f) ==
  CASE f.op = "BUILTIN_WORD" /\ f.param \in OneByteBuiltins -> 1
    [] f.op = "BUILTIN_WORD" /\ f.param \notin OneByteBuiltins ->
         1 + encoded_size_from_int(f.param)
    [] f.op \in WithParam -> 1 + encoded_size_from_int(f.param)
    [] f.op \in Displaced -> 1 + f.width
    [] f.op \in Plain -> 1
    [] f.op \in Marks -> 0

(* What m4_compile measures: code_offset, and the whole. *)
code_offset(s) ==
  LET data_len == Total(terminated, s.data)
  IN  m4_align(encoded_size_from_int(s.variables)
               + encoded_size_from_int(Len(s.words))
               + Total(terminated, s.words)
               + encoded_size_from_int(data_len) + data_len
               + encoded_size_from_int(Len(s.callbacks))
               + Total(callback_size, s.callbacks)
               + encoded_size_from_int(Len(s.literals)))
      + 4 * Len(s.literals)

Measured(s) == m4_align(code_offset(s) + Total(fragment_bin_size, s.code))

(* What it writes. *)
word(t) == lower(t) \o <<0>>
text(t) == t \o <<0>>
callback(c) == <<params_info(c)>> \o encode(c.position)

Header(s) ==
  encode(s.variables)
  \o encode(Len(s.words)) \o Each(word, s.words)
  \o encode(Total(terminated, s.data)) \o Each(text, s.data)
  \o encode(Len(s.callbacks)) \o Each(callback, s.callbacks)
  \o encode(Len(s.literals))

Written(s) ==
  Padded(Padded(Header(s)) \o FlattenSeq(s.literals)
         \o Each(fragment_bin_dump, s.code))

-----------------------------------------------------------------------------
(* What may be compiled, and with what it may be run.  The sizes and the   *)
(* lengths of the program are ints: those that do not fit are left out, so *)
(* that the sums of the code are sums of integers.                         *)
INT_MAX == 2147483647
Counts == 0..INT_MAX
Bytes == 0..255
Names == Seq(1..255)   \* what C takes for a string

Fragments ==
  [op : {"BUILTIN_WORD"} \cup WithParam \cup Displaced \cup Plain \cup Marks,
   param : (-INT_MAX - 1)..INT_MAX, width : 0..5]

LegalSource(s) ==
  /\ s.variables \in Counts
  /\ s.words \in Seq(Names) /\ Len(s.words) \in Counts
  /\ s.data \in Seq(Seq(Bytes)) /\ Total(terminated, s.data) \in Counts
  /\ s.callbacks \in Seq([params : 0..31, results : 0..3, position : Counts])
  /\ Len(s.callbacks) \in Counts
  /\ s.literals \in Seq([1..4 -> Bytes]) /\ Len(s.literals) \in Counts
  /\ s.code \in Seq(Fragments)
  /\ \A k \in DOMAIN s.code :
       /\ s.code[k].op = "BUILTIN_WORD" => s.code[k].param >= 0
       /\ s.code[k].op \in Displaced =>
            s.code[k].width >= encoded_size_from_int(s.code[k].param)
  /\ Measured(s) \in Counts

(* The context and the stacks that each engine takes first. *)
VmSpace == <<18 * 4, 400, 400>>
X86Space == <<13 * 4, 400>>
EspSpace == <<16 * 4, 400, 400>>
Space(e) == CASE e = "vm" -> VmSpace
              [] e = "x86_32" -> X86Space
              [] e = "esp32s3" -> EspSpace

(* The memory taken in front of a program's data space. *)
Needed(s, engine, base) ==
  (m4_align(base) - base) + Sums(Space(engine))[Len(Space(engine))]
  + 4 * s.variables + 4 * Len(s.words)
  + m4_align(Len(s.callbacks)) + 4 * Len(s.callbacks)

NoCopy == -1   \* the code is run where it is
ASSUME JobsAssumption == \A j \in Jobs :
  /\ j.engine \in {"vm", "x86_32", "esp32s3"} /\ j.arrays \in Seq(Seq(Names))
  /\ j.slots \in Nat /\ j.base \in Nat /\ j.len \in Counts
  /\ j.code \in Nat \cup {NoCopy} /\ LegalSource(j.source)
  /\ Needed(j.source, j.engine, j.base) \in Counts

-----------------------------------------------------------------------------
(* The memory of a program. *)

(* Fault: the bytes lost in front of the aligned start are not counted. *)
RemainingFromAligned(m) == job.len - (m - m4_align(job.base))
(* m4_bytes_remaining(memory_start, m, memory_len) *)
bytes_remaining(m) == job.len - (m - job.base)

(* Fault: memory that is filled to the last byte is taken for too small. *)
FullOrMore(m) == bytes_remaining(m) <= 0
TooFar(m) == bytes_remaining(m) < 0

NoTables == [variables |-> 0, runtime_cbs |-> <<>>, data_start |-> 0,
             callback_info |-> <<>>, callback_words |-> <<>>, literals |-> 0,
             program_start |-> 0, room |-> 0]

Init ==
  /\ job \in Jobs
  /\ stage = "measure" /\ bin_len = 0 /\ bin = <<>> /\ bin_p = 0
  /\ memory_p = 0 /\ lookup = [todo |-> 0, array |-> 1, entry |-> 1]
  /\ tables = NoTables /\ wrote = {} /\ pc = 0 /\ decoded = <<>>

Compile ==
  /\ stage = "measure"
  /\ bin_len' = Measured(job.source)
  /\ bin' = Written(job.source)
  /\ stage' = "carve"
  /\ memory_p' = m4_align(job.base)
  /\ UNCHANGED <<job, bin_p, lookup, tables, wrote, pc, decoded>>

Fail(error) ==
  /\ stage' = error
  /\ UNCHANGED <<job, bin_len, bin, bin_p, memory_p, lookup, tables, wrote,
                 pc, decoded>>

(* m4_*_engine_run: each piece is checked once it has been counted. *)
Carve ==
  /\ stage = "carve"
  /\ LET ends == [i \in 1..Len(Space(job.engine)) |->
                    memory_p + Sums(Space(job.engine))[i]]
         end == ends[Len(ends)]
     IN  IF \E i \in DOMAIN ends : TooFar(ends[i]) THEN Fail("out_of_memory")
         ELSE /\ wrote' = {<<memory_p, end>>} /\ memory_p' = m4_align(end)
              /\ stage' = "variables"
              /\ UNCHANGED <<job, bin_len, bin, bin_p, lookup, tables, pc,
                             decoded>>

(* m4_unpack_binary_header *)
Variables ==
  /\ stage = "variables"
  /\ LET n == decode(bin_p)
         end == memory_p + n.n * 4
     IN  IF TooFar(end) THEN Fail("out_of_memory")
         ELSE /\ tables' = [tables EXCEPT !.variables = memory_p]
              /\ wrote' = wrote \cup {<<memory_p, end>>}
              /\ memory_p' = end /\ bin_p' = n.next /\ stage' = "runtime"
              /\ UNCHANGED <<job, bin_len, bin, lookup, pc, decoded>>

RuntimeWords ==
  /\ stage = "runtime"
  /\ LET n == decode(bin_p)
     IN  IF n.n > 0 /\ job.arrays = <<>> THEN Fail("runtime_word_missing")
         ELSE IF bytes_remaining(memory_p) < n.n * 4 THEN Fail("out_of_memory")
         ELSE /\ lookup' = [todo |-> n.n, array |-> 1, entry |-> 1]
              /\ bin_p' = n.next /\ stage' = "lookup"
              /\ UNCHANGED <<job, bin_len, bin, memory_p, tables, wrote, pc,
                             decoded>>

(* strcmp with the name at bin_p, and its length. *)
NameEnd == CHOOSE q \in bin_p..(Len(bin) - 1) :
             Byte(q) = 0 /\ \A r \in bin_p..(q - 1) : Byte(r) # 0
Name == SubSeq(bin, bin_p + 1, NameEnd)

LookUp ==
  LET array == job.arrays[lookup.array]
      atEnd == lookup.entry > Len(array)
  IN  /\ stage = "lookup" /\ lookup.todo > 0
      /\ \/ /\ atEnd /\ lookup.array = Len(job.arrays)
            /\ Fail("runtime_word_missing")
         \/ /\ atEnd /\ lookup.array < Len(job.arrays)
            /\ lookup' = [lookup EXCEPT !.array = @ + 1, !.entry = 1]
            /\ UNCHANGED <<stage, bin_p, memory_p, tables, wrote>>
         \/ /\ ~atEnd /\ array[lookup.entry] # Name
            /\ lookup' = [lookup EXCEPT !.entry = @ + 1]
            /\ UNCHANGED <<stage, bin_p, memory_p, tables, wrote>>
         \/ /\ ~atEnd /\ array[lookup.entry] = Name
            /\ tables' = [tables EXCEPT !.runtime_cbs =
                            Append(@, <<lookup.array, lookup.entry>>)]
            /\ wrote' = wrote \cup {<<memory_p, memory_p + 4>>}
            /\ memory_p' = memory_p + 4 /\ bin_p' = NameEnd + 1
            /\ lookup' = [todo |-> lookup.todo - 1, array |-> 1, entry |-> 1]
            /\ UNCHANGED stage
      /\ UNCHANGED <<job, bin_len, bin, pc, decoded>>

(* Fault: the length of the data is taken for cells. *)
DataInCells ==
  /\ stage = "lookup" /\ lookup.todo = 0
  /\ LET n == decode(bin_p)
     IN  /\ tables' = [tables EXCEPT !.data_start = n.next]
         /\ bin_p' = n.next + 4 * n.n
  /\ stage' = "callbacks"
  /\ UNCHANGED <<job, bin_len, bin, memory_p, lookup, wrote, pc, decoded>>

Data ==
  /\ stage = "lookup" /\ lookup.todo = 0
  /\ LET n == decode(bin_p)
     IN  /\ tables' = [tables EXCEPT !.data_start = n.next]
         /\ bin_p' = n.next + n.n
  /\ stage' = "callbacks"
  /\ UNCHANGED <<job, bin_len, bin, memory_p, lookup, wrote, pc, decoded>>

(* The positions of the callbacks: where each number ends the next byte    *)
(* of information follows.                                                 *)
CallbackAt(p, n) ==
  LET at[i \in 1..(n + 1)] == IF i = 1 THEN p ELSE decode(at[i - 1] + 1).next
  IN  at

Callbacks ==
  /\ stage = "callbacks"
  /\ LET n == decode(bin_p)
         info == memory_p
         offsets == m4_align(memory_p + n.n)
         end == offsets + n.n * 4
         at == CallbackAt(n.next, n.n)
     IN  IF n.n > job.slots THEN Fail("too_many_callbacks")
         ELSE IF TooFar(end) THEN Fail("out_of_memory")
         ELSE /\ tables' = [tables EXCEPT
                   !.callback_info = [i \in 1..n.n |-> Byte(at[i])],
                   !.callback_words = [i \in 1..n.n |-> decode(at[i] + 1).n]]
              /\ wrote' = wrote \cup {<<info, info + n.n>>, <<offsets, end>>}
              /\ memory_p' = end /\ bin_p' = at[n.n + 1] /\ stage' = "literals"
              /\ UNCHANGED <<job, bin_len, bin, lookup, pc, decoded>>

Literals ==
  /\ stage = "literals"
  /\ LET n == decode(bin_p)
         literals == m4_align(n.next)
         start == literals + 4 * n.n
     IN  /\ tables' = [tables EXCEPT
              !.literals = literals,
              !.callback_words = [i \in DOMAIN @ |-> start + @[i]],
              !.program_start = start]
         /\ bin_p' = start
  /\ stage' = "enter"
  /\ UNCHANGED <<job, bin_len, bin, memory_p, lookup, wrote, pc, decoded>>

(* The engine starts the code in the binary, or a copy of it at job.code;  *)
(* the native engines then move the callbacks to the copy.                 *)
VmWords == tables.callback_words
NativeWords == [i \in DOMAIN tables.callback_words |->
                  job.code + (tables.callback_words[i] - tables.program_start)]
Enter ==
  /\ stage = "enter"
  /\ tables' = [tables EXCEPT
        !.callback_words =
          IF job.code = NoCopy \/ job.engine = "vm" THEN VmWords ELSE NativeWords,
        !.program_start = IF job.code = NoCopy THEN @ ELSE job.code,
        !.room = bytes_remaining(memory_p)]
  /\ pc' = tables.program_start
  /\ stage' = "running"
  /\ UNCHANGED <<job, bin_len, bin, bin_p, memory_p, lookup, wrote, decoded>>

-----------------------------------------------------------------------------
(* run_inner reads an instruction; pc_step reads its parts. *)
Instruction(p) ==
  LET op == decode(p)
      param == decode(op.next)
      one(name) == [op |-> name, param |-> 0, next |-> op.next]
      two(name) == [op |-> name, param |-> param.n, next |-> param.next]
  IN  IF op.n >= OPCODE_LAST /\ op.n <= NUM_MAX_ONE_BYTE
      THEN [op |-> "BUILTIN_WORD", param |-> op.n - OPCODE_LAST,
            next |-> op.next]
      ELSE IF op.n = 0 THEN two("BUILTIN_WORD")
      ELSE IF OPCODES[op.n] \in Plain THEN one(OPCODES[op.n])
      ELSE two(OPCODES[op.n])

CodeEnd == code_offset(job.source) + Total(fragment_bin_size, job.source.code)

Step ==
  /\ stage = "running" /\ job.engine = "vm" /\ pc < CodeEnd
  /\ LET i == Instruction(pc)
     IN  /\ decoded' = Append(decoded, [op |-> i.op, param |-> i.param])
         /\ pc' = i.next
  /\ UNCHANGED <<job, stage, bin_len, bin, bin_p, memory_p, lookup, tables,
                 wrote>>

Next ==
  \/ Compile \/ Carve
  \/ Variables \/ RuntimeWords \/ LookUp \/ Data \/ Callbacks \/ Literals
  \/ Enter \/ Step

Spec == Init /\ [][Next]_vars

-----------------------------------------------------------------------------
(* Type invariant. *)
TypeOK ==
  /\ job \in Jobs
  /\ stage \in {"measure", "carve", "variables", "runtime", "lookup",
                "callbacks", "literals", "enter", "running"} \cup BINARY_ERRORS
  /\ \A i \in DOMAIN bin : bin[i] \in 0..255
  /\ bin_len \in Nat /\ bin_p \in 0..Len(bin) /\ pc \in 0..Len(bin)
  /\ memory_p \in Nat /\ lookup.todo \in Nat
  /\ DOMAIN tables = DOMAIN NoTables

(* m4_compile writes exactly the bytes it allocated, and code_offset_out   *)
(* is where the engine finds the code.                                     *)
MeasuredIsWritten ==
  /\ stage # "measure" => Len(bin) = bin_len
  /\ stage = "enter" => tables.program_start = code_offset(job.source)

(* A word runs the first entry that has its name, in the order in which    *)
(* the arrays were given; upper case in the source makes no difference.    *)
FirstEntry(name, e) ==
  /\ job.arrays[e[1]][e[2]] = name
  /\ \A a \in 1..e[1] : \A k \in DOMAIN job.arrays[a] :
       job.arrays[a][k] = name => a = e[1] /\ k >= e[2]

(* An engine finds in its tables what the compiler put in the binary: data *)
(* and literals, callbacks with their signatures, at the words' positions  *)
(* in the code that runs, and the right function for every runtime word.   *)
TablesRestored ==
  stage = "running" =>
    LET s == job.source
        bytes(at, b) == SubSeq(bin, at + 1, at + Len(b)) = b
        base == IF job.engine = "vm" THEN code_offset(s) ELSE tables.program_start
    IN  /\ Len(tables.runtime_cbs) = Len(s.words)
        /\ \A i \in DOMAIN s.words :
             FirstEntry([k \in DOMAIN s.words[i] |->
                           IF s.words[i][k] \in 65..90 THEN s.words[i][k] + 32
                           ELSE s.words[i][k]], tables.runtime_cbs[i])
        /\ bytes(tables.data_start, Each(text, s.data))
        /\ tables.literals % 4 = 0 /\ bytes(tables.literals, FlattenSeq(s.literals))
        /\ Len(tables.callback_words) = Len(s.callbacks)
        /\ \A i \in DOMAIN s.callbacks :
             /\ tables.callback_words[i] - base = s.callbacks[i].position
             /\ tables.callback_info[i] \div 2 = s.callbacks[i].params
             /\ tables.callback_info[i] % 2 = 1 <=> s.callbacks[i].results > 0

(* Whatever is written lies inside the memory the caller gave, pieces do   *)
(* not overlap, and the data space begins behind them all.                 *)
MemoryKept ==
  /\ \A r \in wrote : /\ job.base <= r[1] /\ r[2] <= job.base + job.len
                      /\ r[2] <= memory_p
  /\ \A r, q \in wrote : r = q \/ r[2] <= q[1] \/ q[2] <= r[1]
  /\ stage = "running" =>
       /\ tables.variables % 4 = 0 /\ memory_p % 4 = 0
       /\ tables.room = job.base + job.len - memory_p /\ tables.room >= 0

(* A program starts exactly if its words are there, its callbacks fit the  *)
(* slots that are left and its tables fit the memory, to the last byte.    *)
Offered == UNION {Range(job.arrays[a]) : a \in DOMAIN job.arrays}
LoadsIffPossible ==
  LET s == job.source
      possible == /\ job.len >= Needed(s, job.engine, job.base)
                  /\ Len(s.callbacks) <= job.slots
                  /\ \A i \in DOMAIN s.words : lower(s.words[i]) \in Offered
  IN  /\ stage = "running" => possible
      /\ stage \in BINARY_ERRORS => ~possible

(* The fragments among the first i that are instructions, not marks.       *)
Instructions(code) ==
  LET found[i \in 0..Len(code)] ==
        IF i = 0 THEN <<>>
        ELSE IF code[i].op \in Marks THEN found[i - 1]
        ELSE Append(found[i - 1], code[i])
  IN  found

(* The bytecode engine reads the instructions the compiler wrote, marks    *)
(* left out, whatever their operands and the widths they were given, and   *)
(* at the end of the code it has read them all.                            *)
InstructionsDecoded ==
  LET written == Instructions(job.source.code)[Len(job.source.code)]
  IN  /\ decoded = [i \in 1..Len(decoded) |->
                      [op |-> written[i].op,
                       param |-> IF written[i].op \in Plain THEN 0
                                 ELSE written[i].param]]
      /\ stage = "running" /\ job.engine = "vm" /\ pc >= CodeEnd =>
           Len(decoded) = Len(written)

=============================================================================
