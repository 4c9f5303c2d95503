------------------------------- MODULE Layout -------------------------------
(***************************************************************************)
(* The second half of m4_compile: how the fragments, in emission order,    *)
(* are given sizes and positions, and how branches are measured with them. *)
(* compile.c repeats a pass over all fragments until each backend says     *)
(* that every displacement is representable at the fragment's relaxation;  *)
(* then the backend writes the code.  The three backends are vm            *)
(* (vm_backend.c), x86_32 (x86-32_backend.c) and esp32s3                   *)
(* (esp32s3_backend.c).                                                    *)
(*                                                                         *)
(* A program is a sequence of fragments.  FILL is any run of fragments of  *)
(* a fixed size that neither begin nor end with an elidable chore; `to` is *)
(* the sequence index of the fragment a displacement leads to.             *)
(***************************************************************************)
EXTENDS Integers, Sequences

CONSTANTS
    Backends,       \* the backends to compile with
    Programs        \* sequences of fragments [op, to, bytes]

VARIABLES
    backend, program,   \* what is compiled, and for which machine
    relaxation,         \* of each fragment
    position,           \* of each fragment, and the end of the code
    stage               \* "solving", "solved", "dumped", "misencoded"

vars == <<backend, program, relaxation, position, stage>>

Locations == {"BRANCH_LOCATION", "DEFINED_WORD_LOCATION"}
Jumps == {"BRANCH_IF_ZERO", "BRANCH", "LOOP", "DEFINED_WORD", "PUSH_OFFSET_ADDRESS"}

(* Code stays below 2^20 bytes: displacements of at most three VM bytes.   *)
CodeLimit == 1048576

Fragment == [op : Jumps \cup Locations \cup {"FILL"}, to : Nat, bytes : 0..CodeLimit]

ASSUME LayoutAssumption ==
    /\ Backends \subseteq {"vm", "x86_32", "esp32s3"}
    /\ Programs \subseteq Seq(Fragment)
    /\ \A p \in Programs :
        /\ Len(p) > 0 /\ p[Len(p)].op = "FILL"
        /\ \A k \in DOMAIN p :
            p[k].op \in Jumps => p[k].to \in DOMAIN p /\ p[p[k].to].op \in Locations

(* The longest encoding a backend has for a fragment, and the most padding *)
(* it puts behind it.                                                      *)
LongestSize(p, k) ==
    LET longest == CASE p[k].op = "FILL" -> p[k].bytes
                     [] p[k].op = "BRANCH_IF_ZERO" -> 14
                     [] p[k].op = "LOOP" -> 19
                     [] p[k].op = "PUSH_OFFSET_ADDRESS" -> 16
                     [] OTHER -> IF p[k].op \in Jumps THEN 5 ELSE 0
        padding == IF k < Len(p) /\ p[k + 1].op \in Locations THEN 3 ELSE 0
    IN  longest + padding

(* Where the fragments of p, and its code, begin and end at most.          *)
Farthest(p) ==
    LET farthest[k \in 1..(Len(p) + 1)] ==
            IF k = 1 THEN 0 ELSE farthest[k - 1] + LongestSize(p, k - 1)
    IN  farthest

(* What the integers of the model are wide enough for: code below          *)
(* CodeLimit, and on the ESP32-S3 words below the limit of movi, behind    *)
(* which addi_auto_using_relaxation turns to the literal pool.             *)
ASSUME SizeAssumption ==
    \A p \in Programs :
        /\ Farthest(p)[Len(p) + 1] <= CodeLimit
        /\ "esp32s3" \in Backends =>
                \A k \in DOMAIN p : p[k].op = "PUSH_OFFSET_ADDRESS" =>
                                        Farthest(p)[p[k].to] <= 2047

-----------------------------------------------------------------------------
(* What the instruction sets can express.                                  *)

(* m4_num_encoded_size_from_int, for values below CodeLimit.               *)
EncodedSize(n) ==
    LET u == IF n < 0 THEN -n - 1 ELSE n
    IN  IF u < 64 THEN 1 ELSE IF u < 8192 THEN 2 ELSE 3

(* asm_num_is_small: a signed byte.                                        *)
Small(n) == n \in -128..127

(* The offsets of the narrow and the wide beqz of the ESP32-S3.            *)
Beqz(wide, n) == IF wide THEN n \in -2048..2047 ELSE n \in 0..63

(* An instruction that calls or jumps over another must leave the next     *)
(* word at an address 0 or 1 modulo 4.                                     *)
Aligned(n) == n % 4 <= 1

(* The widths of addi_auto_using_relaxation, for code below 2 KiB.         *)
AddiFits(r, n) ==
    CASE r = 0 -> n = 0
      [] r = 1 -> n \in -1..15 /\ n # 0
      [] r = 2 -> Small(n)
      [] r = 3 -> n \in -32..95
      [] OTHER -> n \in -2048..2047
AddiSize == <<0, 2, 3, 4, 5>>

-----------------------------------------------------------------------------
(* fragment_bin_size: f at position pos with relaxation r.                 *)

VmSize(f, r) == IF f.op \in Jumps THEN 1 + r + 1 ELSE 0

X86Size(f, r) ==
    CASE f.op = "BRANCH_IF_ZERO" -> IF r = 0 THEN 10 ELSE 14
      [] f.op = "BRANCH" -> IF r = 0 THEN 2 ELSE 5
      [] f.op = "LOOP" -> IF r = 0 THEN 11 ELSE 15
      [] f.op = "DEFINED_WORD" -> 5
      [] f.op = "PUSH_OFFSET_ADDRESS" -> 5 + 6 + (IF r = 0 THEN 0 ELSE IF r = 1 THEN 3 ELSE 5)
      [] OTHER -> 0

EspSize(f, r, pos) ==
    CASE f.op = "BRANCH_IF_ZERO" ->
            6 + (IF r < 2 THEN 2 + r ELSE IF Aligned(pos + 6 + 5) THEN 5 ELSE 7)
      [] f.op = "BRANCH" -> 3
      [] f.op = "LOOP" ->
            8 + (IF r = 0 THEN 3 ELSE IF Aligned(pos + 8 + 6) THEN 6 ELSE 8) + 3
      [] f.op = "DEFINED_WORD" -> IF Aligned(pos + 3) THEN 3 ELSE 5
      [] f.op = "PUSH_OFFSET_ADDRESS" -> 4 + 2 + AddiSize[r + 1]
      [] OTHER -> 0

(* The ESP32-S3 fills up in front of a location.                           *)
EspPadding(pos, next) ==
    CASE next = "DEFINED_WORD_LOCATION" -> (4 - (pos % 4)) % 4
      [] next = "BRANCH_LOCATION" -> IF Aligned(pos) THEN 0 ELSE 2
      [] OTHER -> 0

Size(k, pos, r) ==
    LET f == program[k]
        next == IF k < Len(program) THEN program[k + 1].op ELSE "none"
        esp == (IF f.op = "FILL" THEN f.bytes ELSE EspSize(f, r, pos))
    IN  IF backend = "esp32s3" THEN esp + EspPadding(pos + esp, next)
        ELSE IF f.op = "FILL" THEN f.bytes
        ELSE IF backend = "vm" THEN VmSize(f, r) ELSE X86Size(f, r)

(* The positions of all fragments under relaxations rs; the last one is    *)
(* code_len.                                                               *)
Positions(rs) ==
    LET at[k \in 1..(Len(program) + 1)] ==
            IF k = 1 THEN 0 ELSE at[k - 1] + Size(k - 1, at[k - 1], rs[k - 1])
    IN  at

(* The greatest relaxation a backend has an encoding for.                  *)
MostRelaxed(o) ==
    LET most(x86, esp) ==
            CASE backend = "vm" -> 2 [] backend = "x86_32" -> x86 [] OTHER -> esp
    IN  CASE o = "BRANCH_IF_ZERO" -> most(1, 2)
          [] o = "BRANCH" -> most(1, 0)
          [] o = "LOOP" -> most(1, 1)
          [] o = "DEFINED_WORD" -> most(0, 0)
          [] o = "PUSH_OFFSET_ADDRESS" -> most(2, 4)
          [] OTHER -> 0

-----------------------------------------------------------------------------
(* fragment_bin_is_representable: fragment k at positions at.              *)

VmRepresentable(k, at, r) == EncodedSize(at[program[k].to] - at[k]) <= r + 1

(* Fault: displacements are measured from where the fragment starts.       *)
X86FromStart(k, at, r) ==
    LET target == at[program[k].to]
    IN  CASE program[k].op \in {"BRANCH_IF_ZERO", "BRANCH", "LOOP"} ->
                r = 0 => Small(target - at[k])
          [] program[k].op = "PUSH_OFFSET_ADDRESS" ->
                LET offset == target - at[k]
                IN  CASE r = 0 -> offset = 0 [] r = 1 -> Small(offset) [] OTHER -> TRUE
          [] OTHER -> TRUE

X86Representable(k, at, r) ==
    LET target == at[program[k].to]
    IN  CASE program[k].op \in {"BRANCH_IF_ZERO", "BRANCH"} ->
                r = 0 => Small(target - at[k + 1])
          [] program[k].op = "LOOP" -> r = 0 => Small(target - (at[k + 1] - 3))
          [] program[k].op = "PUSH_OFFSET_ADDRESS" ->
                LET offset == target - (at[k] + 5 + 5)
                IN  CASE r = 0 -> offset = 0 [] r = 1 -> Small(offset) [] OTHER -> TRUE
          [] OTHER -> TRUE

EspRepresentable(k, at, r) ==
    LET target == at[program[k].to]
        offset == target - at[k] - 4
    IN  CASE program[k].op = "BRANCH_IF_ZERO" -> r = 2 \/ Beqz(r = 1, offset)
          [] program[k].op = "LOOP" -> r = 1 \/ Small(offset)
          [] program[k].op = "PUSH_OFFSET_ADDRESS" -> AddiFits(r, target)
          [] OTHER -> TRUE

Representable(k, at, r) ==
    program[k].op \in Jumps =>
        CASE backend = "vm" -> VmRepresentable(k, at, r)
          [] backend = "x86_32" -> X86Representable(k, at, r)
          [] OTHER -> EspRepresentable(k, at, r)

(* fragment_bin_dump: the displacement it writes fits the instruction that *)
(* it chose, measured from where the processor measures it.                *)
VmEncodable(k, at, r) ==
    program[k].op \in Jumps => EncodedSize(at[program[k].to] - at[k]) <= r + 1

X86Encodable(k, at, r) ==
    LET o == program[k].op
        target == at[program[k].to]
        push == target - (at[k] + 5 + 5)
    IN  /\ o \in {"BRANCH_IF_ZERO", "BRANCH"} => r # 0 \/ Small(target - at[k + 1])
        /\ o = "LOOP" => r # 0 \/ Small(target - (at[k + 1] - 3))
        /\ o = "PUSH_OFFSET_ADDRESS" => CASE r = 0 -> push = 0
                                          [] r = 1 -> Small(push)
                                          [] OTHER -> TRUE

EspEncodable(k, at, r) ==
    LET o == program[k].op
        target == at[program[k].to]
    IN  /\ o = "BRANCH_IF_ZERO" => r = 2 \/ Beqz(r = 1, target - (at[k] + 6) - 4)
        /\ o = "LOOP" => r = 1 \/ Small(target - (at[k] + 8) - 4)
        /\ o = "PUSH_OFFSET_ADDRESS" => AddiFits(r, target)

Encodable(k, at, r) ==
    CASE backend = "vm" -> VmEncodable(k, at, r)
      [] backend = "x86_32" -> X86Encodable(k, at, r)
      [] OTHER -> EspEncodable(k, at, r)

-----------------------------------------------------------------------------
Init ==
    /\ backend \in Backends
    /\ program \in Programs
    /\ relaxation = [k \in DOMAIN program |-> 0]
    /\ position = [k \in 1..(Len(program) + 1) |-> 0]
    /\ stage = "solving"

Misfits(at) == {k \in DOMAIN program : ~Representable(k, at, relaxation[k])}

(* Fault: a misfit relaxes every branch of the program.                    *)
RelaxedAll(misfits) ==
    [k \in DOMAIN program |-> IF misfits # {} THEN relaxation[k] + 1 ELSE relaxation[k]]

(* Fault: relaxation is looked at but never raised.                        *)
RelaxedNever(misfits) == relaxation

Relaxed(misfits) ==
    [k \in DOMAIN program |-> IF k \in misfits THEN relaxation[k] + 1 ELSE relaxation[k]]

(* One round of the while loop.                                            *)
Pass ==
    /\ stage = "solving"
    /\ position' = Positions(relaxation)
    /\ relaxation' = Relaxed(Misfits(position'))
    /\ stage' = IF Misfits(position') = {} THEN "solved" ELSE "solving"
    /\ UNCHANGED <<backend, program>>

(* The backend writes the fragments.  A displacement that does not fit is  *)
(* an assertion failure on the ESP32-S3; the others would cut it off.      *)
Dump ==
    /\ stage = "solved"
    /\ stage' = IF \A k \in DOMAIN program : Encodable(k, position, relaxation[k])
                 THEN "dumped" ELSE "misencoded"
    /\ UNCHANGED <<backend, program, relaxation, position>>

Next == Pass \/ Dump

Spec == Init /\ [][Next]_vars

(* m4_compile is one sequential call.                                      *)
FairSpec == Spec /\ WF_vars(Next)

-----------------------------------------------------------------------------
(* Properties.                                                             *)

(* No fragment is relaxed beyond the encodings its backend has: there the  *)
(* backends assert.                                                        *)
TypeOK ==
    /\ backend \in Backends
    /\ DOMAIN relaxation = DOMAIN program
    /\ \A k \in DOMAIN program : relaxation[k] \in 0..MostRelaxed(program[k].op)
    /\ \A k \in DOMAIN position : position[k] \in 0..CodeLimit
    /\ stage \in {"solving", "solved", "dumped", "misencoded"}

(* The loop of compile.c:804-820 ends, also where the size of a fragment   *)
(* depends on its position and code can move back when other code grows.   *)
Terminates == <>(stage \in {"dumped", "misencoded"})

(* What is_representable promises is what dump needs: the positions of the *)
(* last round are those the code is written with, and no displacement of   *)
(* the vm and x86_32 backends is cut off.                                  *)
DumpFits == backend # "esp32s3" => stage # "misencoded"

(* The layout is the least one: with any fragment less relaxed, and none   *)
(* more, some displacement cannot be encoded.  Relaxing in rounds from     *)
(* below, and never taking a relaxation back, wastes no byte.              *)
LeastLayout ==
    (stage = "solved" /\ backend # "esp32s3") =>
        \A rs \in {s \in [DOMAIN program -> 0..2] :
                    \A k \in DOMAIN program : s[k] <= relaxation[k]} :
            rs = relaxation \/
                \E k \in DOMAIN program : ~Encodable(k, Positions(rs), rs[k])

(* The range assertions of esp32s3_backend.c:647, 651 and 704 hold.        *)
AssertedRanges == stage # "misencoded"

=============================================================================
