----------------------------- MODULE Primitives -----------------------------
(***************************************************************************)
(* The 63 builtin words as the bytecode interpreter's C code defines them  *)
(* (run_inner in vm_engine.c), as functions on the program's state s:      *)
(*   s.ds    the data stack, the top last                                  *)
(*   s.rs    the part of the return stack that is the running word's own   *)
(*   s.dp    the data space pointer                                        *)
(*   s.heap  the data space: a function from the addresses written so far  *)
(* A cell has Bits bits: four units of two bits, where the program has     *)
(* four bytes of eight.  What C leaves undefined is not Defined here, but  *)
(* for signed overflow, which the builds wrap.                             *)
(***************************************************************************)
EXTENDS Integers, Sequences

CONSTANTS
    MaxCells,           \* cells of the data stack and of the return stack
    Bottom, Limit       \* where the data space starts and ends

Bits == 8
Range256 == 256                             \* 2^Bits
Half == 128
Unit == 4                                   \* values of an addressable unit
Cell == -Half..(Half - 1)

ASSUME PrimitivesAssumption ==
    /\ MaxCells \in 1..(Half - 1)          \* depth is a cell
    /\ Bottom \in 1..(Half - 1) /\ Limit \in Bottom..(Half - 1)
    /\ Bottom % 4 = 0

-----------------------------------------------------------------------------
(* Arithmetic of cells.                                                    *)
Power2(i) == <<1, 2, 4, 8, 16, 32, 64, 128>>[i + 1]
Wrap(x) == ((x + Half) % Range256) - Half
Unsigned(x) == x % Range256
Truth(b) == IF b THEN -1 ELSE 0
Magnitude(x) == IF x < 0 THEN -x ELSE x

(* C divides towards zero.                                                 *)
Quotient(l, r) ==
    IF (l < 0) = (r < 0) THEN Magnitude(l) \div Magnitude(r)
                         ELSE -(Magnitude(l) \div Magnitude(r))
Remainder(l, r) == l - r * Quotient(l, r)

(* The bits of a cell, and the cell that has given ones.                   *)
Bit(x, i) == (Unsigned(x) \div Power2(i)) % 2
OfBits(b) ==
    Wrap(b[0] + 2 * b[1] + 4 * b[2] + 8 * b[3] + 16 * b[4] + 32 * b[5] + 64 * b[6] + 128 * b[7])

Larger(a, b) == IF a > b THEN a ELSE b
Smaller(a, b) == IF a < b THEN a ELSE b

(* Memory of n units at address a, the least significant one first.        *)
Place(i) == <<1, 4, 16, 64>>[i + 1]
Load(h, a, n) ==
    LET u(i) == IF i < n /\ a + i \in DOMAIN h THEN h[a + i] * Place(i) ELSE 0
    IN  u(0) + u(1) + u(2) + u(3)
Store(h, a, n, v) ==
    LET units == a..(a + n - 1)
    IN  [b \in units \cup DOMAIN h |->
            IF b \in units THEN (Unsigned(v) \div Place(b - a)) % Unit ELSE h[b]]

(* m4_align.                                                               *)
Align(a) == ((a + 3) \div 4) * 4

-----------------------------------------------------------------------------
(* The nth cell from the top, the stack below the top n, and the state     *)
(* with the top n cells replaced.                                          *)
Nth(s, n) == s[Len(s) + 1 - n]
Below(s, n) == SubSeq(s, 1, Len(s) - n)
Put(s, n, new) == [s EXCEPT !.ds = Below(@, n) \o new]

(* dup to 1-: the first third of the switch.                               *)
FromDup(w, s) ==
    LET x == Nth(s.ds, 1)
        y == Nth(s.ds, 2)
    IN  CASE w = "dup" -> Put(s, 1, <<x, x>>)
          [] w = "-" -> Put(s, 2, <<Wrap(y - x)>>)
          [] w = ">" -> Put(s, 2, <<Truth(y > x)>>)
          [] w = "+" -> Put(s, 2, <<Wrap(y + x)>>)
          [] w = "=" -> Put(s, 2, <<Truth(y = x)>>)
          [] w = "over" -> Put(s, 2, <<y, x, y>>)
          [] w = "mod" -> Put(s, 2, <<Remainder(y, x)>>)
          [] w = "drop" -> Put(s, 1, <<>>)
          [] w = "swap" -> Put(s, 2, <<x, y>>)
          [] w = "*" -> Put(s, 2, <<Wrap(y * x)>>)
          [] w = "allot" -> [Put(s, 1, <<>>) EXCEPT !.dp = @ + x]
          [] w = "1+" -> Put(s, 1, <<Wrap(x + 1)>>)
          [] w = "invert" -> Put(s, 1, <<-x - 1>>)
          [] w = "0=" -> Put(s, 1, <<Truth(x = 0)>>)
          [] w = "i" -> Put(s, 0, <<Nth(s.rs, 1)>>)
          [] w = "j" -> Put(s, 0, <<Nth(s.rs, 3)>>)
          [] w = "1-" -> Put(s, 1, <<Wrap(x - 1)>>)

(* rot to c, in the middle.                                                *)
FromRot(w, s) ==
    LET x == Nth(s.ds, 1)
        y == Nth(s.ds, 2)
    IN  CASE w = "rot" -> Put(s, 3, <<y, x, Nth(s.ds, 3)>>)
          [] w = "pick" -> Put(s, 1, <<Nth(s.ds, x + 2)>>)
          [] w = "xor" -> Put(s, 2, <<OfBits([i \in 0..(Bits - 1) |-> (Bit(y, i) + Bit(x, i)) % 2])>>)
          [] w = "lshift" -> Put(s, 2, <<Wrap(Unsigned(y) * Power2(x))>>)
          [] w = "rshift" -> Put(s, 2, <<Wrap(Unsigned(y) \div Power2(x))>>)
          [] w = "<" -> Put(s, 2, <<Truth(y < x)>>)
          [] w = ">=" -> Put(s, 2, <<Truth(y >= x)>>)
          [] w = "<=" -> Put(s, 2, <<Truth(y <= x)>>)
          [] w = "or" -> Put(s, 2, <<OfBits([i \in 0..(Bits - 1) |-> Larger(Bit(y, i), Bit(x, i))])>>)
          [] w = "and" -> Put(s, 2, <<OfBits([i \in 0..(Bits - 1) |-> Bit(y, i) * Bit(x, i)])>>)
          [] w = "depth" -> Put(s, 0, <<Len(s.ds)>>)
          [] w = "c!" -> [Put(s, 2, <<>>) EXCEPT !.heap = Store(@, x, 1, y)]
          [] w = "c@" -> Put(s, 1, <<Load(s.heap, x, 1)>>)
          [] w = "0<" -> Put(s, 1, <<Truth(x < 0)>>)
          [] w = "!" -> [Put(s, 2, <<>>) EXCEPT !.heap = Store(@, x, 4, y)]
          [] w = "@" -> Put(s, 1, <<Wrap(Load(s.heap, x, 4))>>)
          [] w = "c," -> [Put(s, 1, <<>>) EXCEPT !.heap = Store(@, s.dp, 1, x), !.dp = @ + 1]

(* here to 2r>.                                                            *)
FromHere(w, s) ==
    LET x == Nth(s.ds, 1)
        y == Nth(s.ds, 2)
    IN  CASE w = "here" -> Put(s, 0, <<s.dp>>)
          [] w = "max" -> Put(s, 2, <<Larger(y, x)>>)
          [] w = "2*" -> Put(s, 1, <<Wrap(x * 2)>>)
          [] w = "2drop" -> Put(s, 2, <<>>)
          [] w = "tuck" -> Put(s, 2, <<x, y, x>>)
          [] w = "cell+" -> Put(s, 1, <<Wrap(x + 4)>>)
          [] w = "align" -> [s EXCEPT !.dp = Align(@)]
          [] w = "," -> [Put(s, 1, <<>>) EXCEPT !.heap = Store(@, s.dp, 4, x), !.dp = @ + 4]
          [] w = "?dup" -> Put(s, 1, IF x # 0 THEN <<x, x>> ELSE <<x>>)
          [] w = "<>" -> Put(s, 2, <<Truth(y # x)>>)
          [] w = ">r" -> [Put(s, 1, <<>>) EXCEPT !.rs = Append(@, x)]
          [] w = "r>" -> [Put(s, 0, <<Nth(s.rs, 1)>>) EXCEPT !.rs = Below(@, 1)]
          [] w = "2>r" -> [Put(s, 2, <<>>) EXCEPT !.rs = @ \o <<y, x>>]
          [] w = "2r>" -> [Put(s, 0, <<Nth(s.rs, 2), Nth(s.rs, 1)>>) EXCEPT !.rs = Below(@, 2)]

(* 2/ to negate: the rest.                                                    *)
FromHalve(w, s) ==
    LET x == Nth(s.ds, 1)
        y == Nth(s.ds, 2)
    IN  CASE w = "2/" -> Put(s, 1, <<Quotient(x, 2)>>)
          [] w = "2dup" -> Put(s, 2, <<y, x, y, x>>)
          [] w = "0<>" -> Put(s, 1, <<Truth(x # 0)>>)
          [] w = "0>" -> Put(s, 1, <<Truth(x > 0)>>)
          [] w = "w@" -> Put(s, 1, <<Load(s.heap, x, 2)>>)
          [] w = "w!" -> [Put(s, 2, <<>>) EXCEPT !.heap = Store(@, x, 2, y)]
          [] w = "+!" -> [Put(s, 2, <<>>) EXCEPT !.heap = Store(@, x, 4, Load(@, x, 4) + y)]
          [] w = "/" -> Put(s, 2, <<Quotient(y, x)>>)
          [] w = "cells" -> Put(s, 1, <<Wrap(x * 4)>>)
          [] w = "nip" -> Put(s, 2, <<x>>)
          [] w = "min" -> Put(s, 2, <<Smaller(y, x)>>)
          [] w = "abs" -> Put(s, 1, <<Wrap(Magnitude(x))>>)
          [] w = "r@" -> Put(s, 0, <<Nth(s.rs, 1)>>)
          [] w = "w," -> [Put(s, 1, <<>>) EXCEPT !.heap = Store(@, s.dp, 2, x), !.dp = @ + 2]
          [] w = "negate" -> Put(s, 1, <<Wrap(-x)>>)

Words1 == {"dup", "-", ">", "+", "=", "over", "mod", "drop", "swap", "*", "allot",
           "1+", "invert", "0=", "i", "j", "1-"}
Words2 == {"rot", "pick", "xor", "lshift", "rshift", "<", ">=", "<=", "or", "and",
           "depth", "c!", "c@", "0<", "!", "@", "c,"}
Words3 == {"here", "max", "2*", "2drop", "tuck", "cell+", "align", ",", "?dup", "<>",
           ">r", "r>", "2>r", "2r>"}
Words4 == {"2/", "2dup", "0<>", "0>", "w@", "w!", "+!", "/", "cells", "nip", "min",
           "abs", "r@", "w,", "negate"}
Words == Words1 \cup Words2 \cup Words3 \cup Words4

Meaning(w, s) ==
    CASE w \in Words1 -> FromDup(w, s)
      [] w \in Words2 -> FromRot(w, s)
      [] w \in Words3 -> FromHere(w, s)
      [] OTHER -> FromHalve(w, s)

-----------------------------------------------------------------------------
(* What a word takes from the stacks.                                      *)
Comparisons == {"<", ">=", ">", "<="}
Binary == Comparisons \cup {"-", "+", "=", "mod", "*", "xor", "lshift", "rshift", "or",
                            "and", "max", "<>", "/", "min"}
Unary == {"1+", "invert", "0=", "1-", "c@", "0<", "@", "2*", "cell+", "2/", "0<>",
          "0>", "w@", "cells", "abs", "negate"}
Pops(w) ==
    CASE w \in Binary \cup {"over", "swap", "c!", "!", "2drop", "tuck", "2>r", "2dup",
                            "w!", "+!", "nip"} -> 2
      [] w \in Unary \cup {"dup", "drop", "allot", "pick", "c,", ",", "?dup", ">r", "w,"} -> 1
      [] w = "rot" -> 3
      [] OTHER -> 0
ReturnPops(w) == CASE w \in {"r>", "i", "r@"} -> 1 [] w = "2r>" -> 2 [] w = "j" -> 3 [] OTHER -> 0

(* Fault: allot is checked at the upper end only.                          *)
AllotBelowLimit(s) == s.dp + Nth(s.ds, 1) <= Limit

(* allot may give space back, but not more than there is.                  *)
AllotFits(s) == s.dp + Nth(s.ds, 1) \in Bottom..Limit

(* The checks of the interpreter: cells and room on both stacks (POP, PUSH *)
(* and their return stack twins; the compiler answers for i and j), room   *)
(* in the data space.  reserved: the return stack below s.rs.              *)
Enough(w, s, reserved) ==
    /\ Len(s.ds) >= Pops(w)
    /\ w \notin {"i", "j"} => reserved + Len(s.rs) >= ReturnPops(w)
    /\ w = "pick" => Len(s.ds) - 1 > Nth(s.ds, 1)
    /\ w = "," => Limit - s.dp >= 4
    /\ w = "w," => Limit - s.dp >= 2
    /\ w = "c," => Limit - s.dp >= 1
    /\ w = "allot" => AllotFits(s)
    /\ w = "align" => Align(s.dp) <= Limit
    /\ (w \notin {"pick", "lshift", "rshift", "/", "mod"} /\ Len(s.rs) >= ReturnPops(w)) =>
        LET t == Meaning(w, s)
        IN  Len(t.ds) <= MaxCells /\ reserved + Len(t.rs) <= MaxCells

(* What C or the program must not do: the engines do not check.            *)
Defined(w, s) ==
    LET x == Nth(s.ds, 1)
        inside(a, n) == a \in Bottom..(Limit - n) /\ a % n = 0
    IN  /\ Len(s.rs) >= ReturnPops(w)
        /\ w \in {"/", "mod"} => x # 0 /\ (x = -1 => Nth(s.ds, 2) # -Half)
        /\ w \in {"lshift", "rshift"} => x \in 0..(Bits - 1)
        /\ w = "pick" => x >= 0
        /\ w \in {"!", "@", "+!"} => inside(x, 4)
        /\ w \in {"w!", "w@"} => inside(x, 2)
        /\ w \in {"c!", "c@"} => inside(x, 1)
        /\ w = "," => s.dp % 4 = 0
        /\ w = "w," => s.dp % 2 = 0

(* What a program may rely on for all engines: the meaning, except that 2/ *)
(* may round down, and that an order comparison may be wrong when the      *)
(* difference of its operands does not fit a cell.                         *)
Outcomes(w, s) ==
    LET x == Nth(s.ds, 1)
        y == Nth(s.ds, 2)
    IN  {Meaning(w, s)} \cup
        (IF w = "2/" THEN {Put(s, 1, <<x \div 2>>)} ELSE {}) \cup
        (IF \/ w \in {"<", ">="} /\ y - x \notin Cell
            \/ w \in {">", "<="} /\ x - y \notin Cell
         THEN {Put(s, 2, <<b>>) : b \in {-1, 0}} ELSE {})

=============================================================================
