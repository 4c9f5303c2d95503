----------------------------- MODULE NativeCode -----------------------------
(***************************************************************************)
(* The builtin words in machine code, as x86_32_backend_generator.py and   *)
(* esp32s3_backend_generator.py list them, and the flags that              *)
(* backend_generator.py derives from the listing.  The processor's state m *)
(* has                                                                     *)
(*   top      eax, dt: the top of the data stack                           *)
(*   depth    ebx, ds: the memory cell under the top                       *)
(*   scratch  ecx, s0                                                      *)
(*   cells    the memory of the data stack                                 *)
(*   rs       the return stack, as pairs of what a cell is and its value   *)
(*   dp, heap the data space                                               *)
(* An instruction is named for its effect.  What an arithmetic instruction *)
(* computes is the word's Meaning, unless NativeValue says otherwise.      *)
(***************************************************************************)
EXTENDS Primitives, Chores, FiniteSets

(* The data stack a machine holds, the top in the register, and the values *)
(* in cells i to j of a return stack.                                      *)
InRegisters(m) == [i \in 1..(m.depth + 1) |-> IF i <= m.depth THEN m.cells[i] ELSE m.top]
CellsOf(rs, i, j) == [n \in 1..(j - i + 1) |-> rs[i + n - 1][2]]

(* The x86-32 listing.  A, B, Y and Z are the elidable lines.              *)
X86Word(w) ==
    CASE w = "dup" -> <<"A", "B">>
      [] w \in Binary -> <<"value2", "Z">>
      [] w \in Unary -> <<"value1">>
      [] w = "over" -> <<"A", "B", "load1">>
      [] w = "drop" -> <<"Y", "Z">>
      [] w = "swap" -> <<"keep", "B", "move">>
      [] w = "allot" -> <<"allot", "Y", "Z">>
      [] w \in {"i", "r@"} -> <<"A", "B", "rtop">>
      [] w = "j" -> <<"A", "B", "rthird">>
      [] w = "rot" -> <<"keep", "B", "load1", "put1">>
      [] w = "pick" -> <<"pick">>
      [] w = "depth" -> <<"A", "B", "depth">>
      [] w \in {"c!", "!", "w!", "+!"} -> <<"keep", "poke", "Z", "Y", "Z">>
      [] w \in {"c,", ",", "w,"} -> <<"comma", "Y", "Z">>
      [] w = "here" -> <<"A", "B", "here">>
      [] w = "2drop" -> <<"Z", "Y", "Z">>
      [] w = "tuck" -> <<"A", "keep1", "put", "store1">>
      [] w = "align" -> <<"align">>
      [] w = "?dup" -> <<"A", "B", "unless0">>
      [] w = ">r" -> <<"rpush", "Y", "Z">>
      [] w = "r>" -> <<"A", "B", "rpop">>
      [] w = "2>r" -> <<"rpush2", "Z", "Y", "Z">>
      [] w = "2r>" -> <<"A", "B", "A", "rpop", "rpopcell">>
      [] w = "2dup" -> <<"A", "B", "keep1", "A", "put">>
      [] w = "nip" -> <<"Z">>

(* The ESP32-S3 listing goes about every word in the same way but 2r>,     *)
(* which it reads cell by cell before it drops both.                       *)
EspWord(w) ==
    IF w = "2r>" THEN <<"A", "B", "A", "rsecond", "B", "rtop", "rdrop2">> ELSE X86Word(w)

Listing(b, w) == IF b = "x86_32" THEN X86Word(w) ELSE EspWord(w)

(* The words marked "clobber" in both listings.                            *)
Clobber == {"over", "i", "j", "depth", "here", "r>", "2r>", "r@"}

-----------------------------------------------------------------------------
(* Instructions.                                                           *)
UnitsOf(w) == CASE w \in {"c!", "c,"} -> 1 [] w \in {"w!", "w,"} -> 2 [] OTHER -> 4

(* sar rounds down; the ESP32-S3 compares by the sign of a difference.     *)
NativeValue(b, w, m) ==
    LET x == m.top
        y == m.cells[m.depth]
        s == [ds |-> IF w \in Unary THEN <<x>> ELSE <<y, x>>,
              rs |-> <<>>, dp |-> m.dp, heap |-> m.heap]
    IN  CASE w = "2/" -> x \div 2
          [] b = "esp32s3" /\ w = "<" -> Truth(Wrap(y - x) < 0)
          [] b = "esp32s3" /\ w = ">=" -> Truth(Wrap(y - x) >= 0)
          [] b = "esp32s3" /\ w = ">" -> Truth(Wrap(x - y) < 0)
          [] b = "esp32s3" /\ w = "<=" -> Truth(Wrap(x - y) >= 0)
          [] w # "2/" /\ ~(b = "esp32s3" /\ w \in Comparisons) -> Nth(Meaning(w, s).ds, 1)

PopCells(m, n) == [m EXCEPT !.rs = Below(@, n)]

Instruction(b, w, i, m) ==
    LET d == m.depth
        value(n) == Nth(m.rs, n)[2]
        stored(v) == [m EXCEPT !.heap = Store(@, m.top, UnitsOf(w), v)]
    IN  CASE i \in Flags -> Chore(i, m)
          [] i \in {"value1", "value2"} -> [m EXCEPT !.top = NativeValue(b, w, m)]
          [] i = "load1" -> [m EXCEPT !.top = m.cells[d - 1]]
          [] i = "store1" -> [m EXCEPT !.cells[d - 1] = m.top]
          [] i = "keep" -> [m EXCEPT !.scratch = m.cells[d]]
          [] i = "keep1" -> [m EXCEPT !.scratch = m.cells[d - 1]]
          [] i = "put" -> [m EXCEPT !.cells[d] = m.scratch]
          [] i = "put1" -> [m EXCEPT !.cells[d - 1] = m.scratch]
          [] i = "move" -> [m EXCEPT !.top = m.scratch]
          [] i = "pick" -> [m EXCEPT !.top = m.cells[d - m.top]]
          [] i = "depth" -> [m EXCEPT !.top = d]
          [] i = "unless0" -> [m EXCEPT !.depth = IF m.top = 0 THEN d - 1 ELSE d]
          [] i = "poke" -> stored(IF w = "+!" THEN Load(m.heap, m.top, 4) + m.scratch ELSE m.scratch)
          [] i = "comma" -> [m EXCEPT !.heap = Store(@, m.dp, UnitsOf(w), m.top), !.dp = @ + UnitsOf(w)]
          [] i = "allot" -> [m EXCEPT !.dp = @ + m.top]
          [] i = "align" -> [m EXCEPT !.dp = Align(@)]
          [] i = "here" -> [m EXCEPT !.top = m.dp]
          [] i = "rtop" -> [m EXCEPT !.top = value(1)]
          [] i = "rsecond" -> [m EXCEPT !.top = value(2)]
          [] i = "rthird" -> [m EXCEPT !.top = value(3)]
          [] i = "rpush" -> [m EXCEPT !.rs = Append(@, <<"cell", m.top>>)]
          [] i = "rpush2" -> [m EXCEPT !.rs = @ \o <<<<"cell", m.cells[d]>>, <<"cell", m.top>>>>]
          [] i = "rpop" -> PopCells([m EXCEPT !.top = value(1)], 1)
          [] i = "rpopcell" -> PopCells([m EXCEPT !.cells[d] = value(1)], 1)
          [] i = "rdrop2" -> PopCells(m, 2)

(* A run of instructions of word w.                                        *)
Execute(b, w, code, m) ==
    LET run[i \in 0..Len(code)] == IF i = 0 THEN m ELSE Instruction(b, w, code[i], run[i - 1])
    IN  run[Len(code)]

=============================================================================
