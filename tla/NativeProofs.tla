---------------------------- MODULE NativeProofs ----------------------------
(***************************************************************************)
(* What the machine code of a word does. First that leaving chores out is  *)
(* safe between any two neighbours; then, word by word, that the code      *)
(* which a backend dumps for it, with the chores that are needed between   *)
(* the fragments around it, does to the stacks, the data space and the     *)
(* heap what the word means, on the x86-32 and on the ESP32-S3.            *)
(***************************************************************************)
EXTENDS NativeCode, SequenceTheorems, FiniteSetTheorems, TLAPS

(* The part of the processor that chores are about, with any values.       *)
Machines(Value) == [top : Value, depth : Int, cells : [Int -> Value]]

(* What runs between the bodies of a fragment with the flags above and the *)
(* next one with the flags below, up and down being the flags around them: *)
(* all chores, or those that are needed.                                   *)
AllChores(above, below, m) == Opening(below, Closing(above, m))
LeanChores(above, below, up, down, m) ==
    Opening(NeededChores(below, above, down), Closing(NeededChores(above, up, below), m))

-----------------------------------------------------------------------------
(* backend_generator.py gives B only with A, CLOB only with both and Y     *)
(* only with Z, for any listing.                                           *)
THEOREM FlagsWellFormed ==
    ASSUME NEW src, NEW clobber \in BOOLEAN
    PROVE  WellFormed(GeneratedFlags(src, clobber))
  BY DEF WellFormed, GeneratedFlags, Flags

(* A fragment leaves A out exactly when the one above leaves Z out, so     *)
(* depth moves both ways or not at all, though each fragment decides for   *)
(* itself.                                                                 *)
THEOREM BothOrNeither ==
    ASSUME NEW above, WellFormed(above), NEW below, WellFormed(below),
           NEW up, WellFormed(up), NEW down, WellFormed(down)
    PROVE  "A" \in below \ NeededChores(below, above, down)
           <=> "Z" \in above \ NeededChores(above, up, below)
  BY DEF WellFormed, Flags, NeededChores, DoneAbove, DoneBelow

(* B is left out only where the stack memory already holds the cell, and   *)
(* Y only where top is about to be overwritten.                            *)
LEMMA LeftOutLast ==
    ASSUME NEW above, WellFormed(above), NEW below, WellFormed(below),
           NEW up, WellFormed(up), NEW down, WellFormed(down)
    PROVE  /\ "B" \in below \ NeededChores(below, above, down) => "Y" \in above
           /\ "Y" \in above \ NeededChores(above, up, below) => "CLOB" \in below
  BY DEF WellFormed, Flags, NeededChores, DoneAbove, DoneBelow

-----------------------------------------------------------------------------
(* The chores above, one case of flags at a time.                          *)
LEMMA ClosingEffect ==
    ASSUME NEW Value, NEW m \in Machines(Value), NEW fl
    PROVE  /\ Closing(fl, m) \in Machines(Value)
           /\ Closing(fl, m).depth = IF "Z" \in fl THEN m.depth - 1 ELSE m.depth
           /\ Closing(fl, m).top = IF "Y" \in fl THEN m.cells[m.depth] ELSE m.top
           /\ Closing(fl, m).cells = m.cells
  BY DEF Closing, ChoreIf, Chore, Machines

LEMMA OpeningEffect ==
    ASSUME NEW Value, NEW m \in Machines(Value), NEW fl,
           NEW d, d = IF "A" \in fl THEN m.depth + 1 ELSE m.depth
    PROVE  /\ Opening(fl, m).depth = d
           /\ Opening(fl, m).top = m.top
           /\ Opening(fl, m).cells =
                IF "B" \in fl THEN [m.cells EXCEPT ![d] = m.top] ELSE m.cells
  BY DEF Opening, ChoreIf, Chore, Machines

(* m4_backend_fragment_get_needed_chores: with the chores it leaves out,   *)
(* depth and the memory of the stack are the same in front of the second   *)
(* body, and so is top, unless that body loads top anyway.                 *)
THEOREM LeavingOutIsSafe ==
    ASSUME NEW Value, NEW m \in Machines(Value),
           NEW above, WellFormed(above), NEW below, WellFormed(below),
           NEW up, WellFormed(up), NEW down, WellFormed(down)
    PROVE  LET all == AllChores(above, below, m)
               lean == LeanChores(above, below, up, down, m)
           IN  /\ lean.depth = all.depth
               /\ lean.cells = all.cells
               /\ lean.top = all.top \/ "CLOB" \in below
<1> DEFINE closed == Closing(above, m)
           closedLean == Closing(NeededChores(above, up, below), m)
           some == NeededChores(below, above, down)
           depthAll == IF "A" \in below THEN closed.depth + 1 ELSE closed.depth
           depthLean == IF "A" \in some THEN closedLean.depth + 1 ELSE closedLean.depth
<1>1. /\ closed \in Machines(Value) /\ closedLean \in Machines(Value)
      /\ closed.cells = m.cells /\ closedLean.cells = m.cells
      /\ closed.depth = IF "Z" \in above THEN m.depth - 1 ELSE m.depth
      /\ closed.top = IF "Y" \in above THEN m.cells[m.depth] ELSE m.top
      /\ closedLean.depth =
            IF "Z" \in NeededChores(above, up, below) THEN m.depth - 1 ELSE m.depth
      /\ closedLean.top =
            IF "Y" \in NeededChores(above, up, below) THEN m.cells[m.depth] ELSE m.top
  BY ClosingEffect
<1>2. /\ AllChores(above, below, m).depth = depthAll
      /\ AllChores(above, below, m).top = closed.top
      /\ AllChores(above, below, m).cells =
            IF "B" \in below THEN [m.cells EXCEPT ![depthAll] = closed.top] ELSE m.cells
  BY <1>1, OpeningEffect DEF AllChores
<1>3. /\ LeanChores(above, below, up, down, m).depth = depthLean
      /\ LeanChores(above, below, up, down, m).top = closedLean.top
      /\ LeanChores(above, below, up, down, m).cells =
            IF "B" \in some THEN [m.cells EXCEPT ![depthLean] = closedLean.top] ELSE m.cells
  BY <1>1, OpeningEffect DEF LeanChores
<1>4. m.depth \in Int /\ m.cells \in [Int -> Value]
  BY DEF Machines
<1>5. depthAll = depthLean
  BY <1>1, <1>4, BothOrNeither DEF NeededChores, DoneAbove, DoneBelow
<1>6. closedLean.top = closed.top \/ "CLOB" \in below
  BY <1>1, LeftOutLast DEF NeededChores
<1>7. CASE "B" \notin below
  <2>1. "B" \notin some
    BY <1>7 DEF NeededChores
  <2> QED
    BY <1>2, <1>3, <1>5, <1>6, <1>7, <2>1
(* The memory already holds what B would store.                            *)
<1>8. CASE "B" \in below /\ "B" \notin some
  <2>1. "Y" \in above /\ "Z" \in above /\ "A" \in below
    BY <1>8, LeftOutLast DEF WellFormed
  <2>2. depthAll = m.depth /\ closed.top = m.cells[m.depth]
    BY <1>1, <1>4, <2>1
  <2>3. [m.cells EXCEPT ![depthAll] = closed.top] = m.cells
    BY <1>4, <2>2
  <2> QED
    BY <1>2, <1>3, <1>5, <1>6, <1>8, <2>3
(* When B is stored, there was no Y to leave out.                          *)
<1>9. CASE "B" \in below /\ "B" \in some
  <2>1. "Y" \in above => "Z" \notin above
    BY <1>9 DEF NeededChores, DoneAbove
  <2>2. "Y" \notin above /\ "Y" \notin NeededChores(above, up, below)
    BY <2>1 DEF WellFormed, NeededChores
  <2>3. closedLean.top = closed.top
    BY <1>1, <2>2
  <2> QED
    BY <1>2, <1>3, <1>5, <1>9, <2>3
<1> QED
  BY <1>7, <1>8, <1>9

-----------------------------------------------------------------------------
(* The cells, heaps and states that words are about, and what replaces the   *)
(* cells on top of a stack.                                                  *)

Heaps == UNION {[D -> 0..(Unit - 1)] : D \in SUBSET (Bottom..(Limit - 1))}
States == [ds : Seq(Cell), rs : Seq(Cell), dp : Bottom..Limit, heap : Heaps]

LEMMA TopCells ==
    ASSUME NEW q \in Seq(Cell), NEW n \in 1..Len(q)
    PROVE  Nth(q, n) \in Cell
  BY DEF Nth

LEMMA SetStack ==
    ASSUME NEW s \in States, NEW v
    PROVE  [s EXCEPT !.ds = v] = [ds |-> v, rs |-> s.rs, dp |-> s.dp, heap |-> s.heap]
  BY DEF States

LEMMA PutEffect ==
    ASSUME NEW s \in States, NEW n \in 0..Len(s.ds), NEW new \in Seq(Cell)
    PROVE  /\ Put(s, n, new) = [ds |-> Below(s.ds, n) \o new, rs |-> s.rs, dp |-> s.dp, heap |-> s.heap]
           /\ Put(s, n, new) \in States
           /\ Len(Put(s, n, new).ds) = Len(s.ds) - n + Len(new)
           /\ Below(s.ds, n) \in Seq(Cell) /\ Len(Below(s.ds, n)) = Len(s.ds) - n
           /\ Put(s, n, new).rs = s.rs /\ Put(s, n, new).dp = s.dp /\ Put(s, n, new).heap = s.heap
<1>1. Below(s.ds, n) \in Seq(Cell) /\ Len(Below(s.ds, n)) = Len(s.ds) - n
  BY DEF States, Below
<1>2. Below(s.ds, n) \o new \in Seq(Cell) /\ Len(Below(s.ds, n) \o new) = Len(s.ds) - n + Len(new)
  BY <1>1
<1>3. Put(s, n, new) = [ds |-> Below(s.ds, n) \o new, rs |-> s.rs, dp |-> s.dp, heap |-> s.heap]
  BY SetStack DEF Put
<1> QED
  BY <1>1, <1>2, <1>3 DEF States

LEMMA Division ==
    \A a \in Nat, b \in Nat \ {0} :
        a \div b \in Nat /\ a = b * (a \div b) + (a % b) /\ a % b \in 0..(b - 1)
  OBVIOUS

LEMMA DivisionRest ==
    ASSUME NEW a \in 0..128, NEW b \in 1..128
    PROVE  a \div b \in Nat /\ a - b * (a \div b) \in 0..127
<1>1. a \div b \in Nat /\ a = b * (a \div b) + (a % b) /\ a % b \in 0..(b - 1)
  BY Division
<1> QED BY <1>1

LEMMA PutOne ==
    ASSUME NEW s \in States, NEW n \in 0..Len(s.ds), NEW v \in Cell
    PROVE  /\ Put(s, n, <<v>>) \in States
           /\ Len(Put(s, n, <<v>>).ds) = Len(s.ds) - n + 1
           /\ Put(s, n, <<v>>).rs = s.rs
<1> DEFINE new == <<v>>
<1>1. new \in Seq(Cell) /\ Len(new) = 1
  OBVIOUS
<1> HIDE DEF new
<1>2. /\ Put(s, n, new) \in States /\ Len(Put(s, n, new).ds) = Len(s.ds) - n + Len(new)
      /\ Put(s, n, new).rs = s.rs
  BY <1>1, PutEffect, Zenon
<1> QED
  BY <1>1, <1>2 DEF new

LEMMA WrapCell == \A x \in Int : Wrap(x) \in Cell
  BY DEF Wrap, Cell, Half, Range256

LEMMA TruthCell == \A b : Truth(b) \in Cell
  BY DEF Truth, Cell, Half

LEMMA QuotientCell ==
    ASSUME NEW x \in Cell, NEW y \in Cell, y # 0, y = -1 => x # -Half PROVE Quotient(x,y) \in Cell
  BY DEF Quotient, Magnitude, Cell, Half

LEMMA UnsignedRange == \A x \in Cell : Unsigned(x) \in 0..255
  BY DEF Unsigned, Cell, Half, Range256

LEMMA Powers == \A i \in 0..7 : Power2(i) \in 1..128
  BY DEF Power2

LEMMA BitRange == \A x \in Cell, i \in 0..7 : Bit(x, i) \in 0..1
<1> TAKE x \in Cell, i \in 0..7
<1>1. Unsigned(x) \div Power2(i) \in Nat
  <2>1. Unsigned(x) \in Nat /\ Power2(i) \in Nat \ {0}
    BY UnsignedRange, Powers
  <2> QED BY <2>1, Division, Zenon
<1> QED BY <1>1 DEF Bit

LEMMA OfBitsCell == ASSUME NEW b \in [0..7 -> 0..1] PROVE OfBits(b) \in Cell
  BY WrapCell DEF OfBits

LEMMA RemainderCell ==
    ASSUME NEW x \in Cell, NEW y \in Cell, y # 0
    PROVE  Remainder(x, y) \in Cell
<1> DEFINE p == Magnitude(x)
           q == Magnitude(y)
<1>1. p \in 0..128 /\ q \in 1..128
  BY DEF Cell, Half, Magnitude
<1> DEFINE d == p \div q
<1>3. d \in Nat /\ p - q * d \in 0..127
  <2> HIDE DEF p, q
  <2> QED BY <1>1, DivisionRest, Zenon
<1>4. Remainder(x, y) = IF x < 0 THEN -(p - q * d) ELSE p - q * d
  <2> HIDE DEF d
  <2>1. Quotient(x, y) = IF (x < 0) = (y < 0) THEN d ELSE -d
    BY DEF Quotient, d
  <2>2. CASE x < 0 /\ y < 0
    BY <2>1, <2>2, <1>3 DEF Remainder, Magnitude, Cell, Half
  <2>3. CASE x < 0 /\ ~(y < 0)
    BY <2>1, <2>3, <1>3 DEF Remainder, Magnitude, Cell, Half
  <2>4. CASE ~(x < 0) /\ y < 0
    BY <2>1, <2>4, <1>3 DEF Remainder, Magnitude, Cell, Half
  <2>5. CASE ~(x < 0) /\ ~(y < 0)
    BY <2>1, <2>5, <1>3 DEF Remainder, Magnitude, Cell, Half
  <2> QED BY <2>2, <2>3, <2>4, <2>5
<1> QED
  BY <1>3, <1>4 DEF Cell, Half

-----------------------------------------------------------------------------
(* Meaning, one word at a time: the four parts of its table.                 *)

LEMMA DupMeanings ==
    \A s :
        /\ Meaning("dup", s) = Put(s, 1, <<Nth(s.ds, 1), Nth(s.ds, 1)>>)
        /\ Meaning("-", s) = Put(s, 2, <<Wrap(Nth(s.ds, 2) - Nth(s.ds, 1))>>)
        /\ Meaning(">", s) = Put(s, 2, <<Truth(Nth(s.ds, 2) > Nth(s.ds, 1))>>)
        /\ Meaning("+", s) = Put(s, 2, <<Wrap(Nth(s.ds, 2) + Nth(s.ds, 1))>>)
        /\ Meaning("=", s) = Put(s, 2, <<Truth(Nth(s.ds, 2) = Nth(s.ds, 1))>>)
        /\ Meaning("over", s) = Put(s, 2, <<Nth(s.ds, 2), Nth(s.ds, 1), Nth(s.ds, 2)>>)
        /\ Meaning("mod", s) = Put(s, 2, <<Remainder(Nth(s.ds, 2), Nth(s.ds, 1))>>)
        /\ Meaning("drop", s) = Put(s, 1, <<>>)
        /\ Meaning("swap", s) = Put(s, 2, <<Nth(s.ds, 1), Nth(s.ds, 2)>>)
        /\ Meaning("*", s) = Put(s, 2, <<Wrap(Nth(s.ds, 2) * Nth(s.ds, 1))>>)
        /\ Meaning("allot", s) = [Put(s, 1, <<>>) EXCEPT !.dp = @ + Nth(s.ds, 1)]
        /\ Meaning("1+", s) = Put(s, 1, <<Wrap(Nth(s.ds, 1) + 1)>>)
        /\ Meaning("invert", s) = Put(s, 1, <<-Nth(s.ds, 1) - 1>>)
        /\ Meaning("0=", s) = Put(s, 1, <<Truth(Nth(s.ds, 1) = 0)>>)
        /\ Meaning("i", s) = Put(s, 0, <<Nth(s.rs, 1)>>)
        /\ Meaning("j", s) = Put(s, 0, <<Nth(s.rs, 3)>>)
        /\ Meaning("1-", s) = Put(s, 1, <<Wrap(Nth(s.ds, 1) - 1)>>)
  BY DEF Meaning, FromDup, Words1, Words2, Words3

LEMMA RotMeanings ==
    \A s :
        /\ Meaning("rot", s) = Put(s, 3, <<Nth(s.ds, 2), Nth(s.ds, 1), Nth(s.ds, 3)>>)
        /\ Meaning("pick", s) = Put(s, 1, <<Nth(s.ds, Nth(s.ds, 1) + 2)>>)
        /\ Meaning("xor", s) = Put(s, 2, <<OfBits([i \in 0..(Bits - 1) |-> (Bit(Nth(s.ds, 2), i) + Bit(Nth(s.ds, 1), i)) % 2])>>)
        /\ Meaning("lshift", s) = Put(s, 2, <<Wrap(Unsigned(Nth(s.ds, 2)) * Power2(Nth(s.ds, 1)))>>)
        /\ Meaning("rshift", s) = Put(s, 2, <<Wrap(Unsigned(Nth(s.ds, 2)) \div Power2(Nth(s.ds, 1)))>>)
        /\ Meaning("<", s) = Put(s, 2, <<Truth(Nth(s.ds, 2) < Nth(s.ds, 1))>>)
        /\ Meaning(">=", s) = Put(s, 2, <<Truth(Nth(s.ds, 2) >= Nth(s.ds, 1))>>)
        /\ Meaning("<=", s) = Put(s, 2, <<Truth(Nth(s.ds, 2) <= Nth(s.ds, 1))>>)
        /\ Meaning("or", s) = Put(s, 2, <<OfBits([i \in 0..(Bits - 1) |-> Larger(Bit(Nth(s.ds, 2), i), Bit(Nth(s.ds, 1), i))])>>)
        /\ Meaning("and", s) = Put(s, 2, <<OfBits([i \in 0..(Bits - 1) |-> Bit(Nth(s.ds, 2), i) * Bit(Nth(s.ds, 1), i)])>>)
        /\ Meaning("depth", s) = Put(s, 0, <<Len(s.ds)>>)
        /\ Meaning("c!", s) = [Put(s, 2, <<>>) EXCEPT !.heap = Store(@, Nth(s.ds, 1), 1, Nth(s.ds, 2))]
        /\ Meaning("c@", s) = Put(s, 1, <<Load(s.heap, Nth(s.ds, 1), 1)>>)
        /\ Meaning("0<", s) = Put(s, 1, <<Truth(Nth(s.ds, 1) < 0)>>)
        /\ Meaning("!", s) = [Put(s, 2, <<>>) EXCEPT !.heap = Store(@, Nth(s.ds, 1), 4, Nth(s.ds, 2))]
        /\ Meaning("@", s) = Put(s, 1, <<Wrap(Load(s.heap, Nth(s.ds, 1), 4))>>)
        /\ Meaning("c,", s) = [Put(s, 1, <<>>) EXCEPT !.heap = Store(@, s.dp, 1, Nth(s.ds, 1)), !.dp = @ + 1]
  BY DEF Meaning, FromRot, Words1, Words2, Words3

LEMMA HereMeanings ==
    \A s :
        /\ Meaning("here", s) = Put(s, 0, <<s.dp>>)
        /\ Meaning("max", s) = Put(s, 2, <<Larger(Nth(s.ds, 2), Nth(s.ds, 1))>>)
        /\ Meaning("2*", s) = Put(s, 1, <<Wrap(Nth(s.ds, 1) * 2)>>)
        /\ Meaning("2drop", s) = Put(s, 2, <<>>)
        /\ Meaning("tuck", s) = Put(s, 2, <<Nth(s.ds, 1), Nth(s.ds, 2), Nth(s.ds, 1)>>)
        /\ Meaning("cell+", s) = Put(s, 1, <<Wrap(Nth(s.ds, 1) + 4)>>)
        /\ Meaning("align", s) = [s EXCEPT !.dp = Align(@)]
        /\ Meaning(",", s) = [Put(s, 1, <<>>) EXCEPT !.heap = Store(@, s.dp, 4, Nth(s.ds, 1)), !.dp = @ + 4]
        /\ Meaning("?dup", s) = Put(s, 1, IF Nth(s.ds, 1) # 0 THEN <<Nth(s.ds, 1), Nth(s.ds, 1)>> ELSE <<Nth(s.ds, 1)>>)
        /\ Meaning("<>", s) = Put(s, 2, <<Truth(Nth(s.ds, 2) # Nth(s.ds, 1))>>)
        /\ Meaning(">r", s) = [Put(s, 1, <<>>) EXCEPT !.rs = Append(@, Nth(s.ds, 1))]
        /\ Meaning("r>", s) = [Put(s, 0, <<Nth(s.rs, 1)>>) EXCEPT !.rs = Below(@, 1)]
        /\ Meaning("2>r", s) = [Put(s, 2, <<>>) EXCEPT !.rs = @ \o <<Nth(s.ds, 2), Nth(s.ds, 1)>>]
        /\ Meaning("2r>", s) = [Put(s, 0, <<Nth(s.rs, 2), Nth(s.rs, 1)>>) EXCEPT !.rs = Below(@, 2)]
  BY DEF Meaning, FromHere, Words1, Words2, Words3

LEMMA HalveMeanings ==
    \A s :
        /\ Meaning("2/", s) = Put(s, 1, <<Quotient(Nth(s.ds, 1), 2)>>)
        /\ Meaning("2dup", s) = Put(s, 2, <<Nth(s.ds, 2), Nth(s.ds, 1), Nth(s.ds, 2), Nth(s.ds, 1)>>)
        /\ Meaning("0<>", s) = Put(s, 1, <<Truth(Nth(s.ds, 1) # 0)>>)
        /\ Meaning("0>", s) = Put(s, 1, <<Truth(Nth(s.ds, 1) > 0)>>)
        /\ Meaning("w@", s) = Put(s, 1, <<Load(s.heap, Nth(s.ds, 1), 2)>>)
        /\ Meaning("w!", s) = [Put(s, 2, <<>>) EXCEPT !.heap = Store(@, Nth(s.ds, 1), 2, Nth(s.ds, 2))]
        /\ Meaning("+!", s) = [Put(s, 2, <<>>) EXCEPT !.heap = Store(@, Nth(s.ds, 1), 4, Load(@, Nth(s.ds, 1), 4) + Nth(s.ds, 2))]
        /\ Meaning("/", s) = Put(s, 2, <<Quotient(Nth(s.ds, 2), Nth(s.ds, 1))>>)
        /\ Meaning("cells", s) = Put(s, 1, <<Wrap(Nth(s.ds, 1) * 4)>>)
        /\ Meaning("nip", s) = Put(s, 2, <<Nth(s.ds, 1)>>)
        /\ Meaning("min", s) = Put(s, 2, <<Smaller(Nth(s.ds, 2), Nth(s.ds, 1))>>)
        /\ Meaning("abs", s) = Put(s, 1, <<Wrap(Magnitude(Nth(s.ds, 1)))>>)
        /\ Meaning("r@", s) = Put(s, 0, <<Nth(s.rs, 1)>>)
        /\ Meaning("w,", s) = [Put(s, 1, <<>>) EXCEPT !.heap = Store(@, s.dp, 2, Nth(s.ds, 1)), !.dp = @ + 2]
        /\ Meaning("negate", s) = Put(s, 1, <<Wrap(-Nth(s.ds, 1))>>)
  BY DEF Meaning, FromHalve, Words1, Words2, Words3

-----------------------------------------------------------------------------
(* The values of shifts, loads, and of every word that takes one or two      *)
(* cells and leaves one, are cells.                                          *)

LEMMA Integer == \A x \in Cell : x \in Int
  BY DEF Cell, Half

LEMMA ShiftCell ==
    ASSUME NEW y \in Cell, NEW i \in 0..(Bits - 1)
    PROVE  Wrap(Unsigned(y) * Power2(i)) \in Cell /\ Wrap(Unsigned(y) \div Power2(i)) \in Cell
<1>1. Unsigned(y) \in Nat /\ Power2(i) \in Nat \ {0}
  BY UnsignedRange, Powers DEF Bits
<1>2. Unsigned(y) \div Power2(i) \in Nat
  BY <1>1, Division, Zenon
<1> QED
  BY <1>1, <1>2, WrapCell

LEMMA LoadRange ==
    ASSUME NEW h \in Heaps, NEW a \in Int
    PROVE  Load(h, a, 1) \in 0..3 /\ Load(h, a, 2) \in 0..15 /\ Load(h, a, 4) \in 0..255
<1>1. PICK D \in SUBSET (Bottom..(Limit - 1)) : h \in [D -> 0..3]
  BY DEF Heaps, Unit
<1>2. Place(0) = 1 /\ Place(1) = 4 /\ Place(2) = 16 /\ Place(3) = 64
  BY DEF Place
<1>3. \A i \in 0..3 : a + i \in DOMAIN h => h[a + i] \in 0..3
  BY <1>1
<1> QED
  BY <1>2, <1>3 DEF Load

LEMMA BinaryMeaning ==
    ASSUME NEW w \in Binary, NEW x \in Cell, NEW y \in Cell,
           w \in {"/", "mod"} => x # 0 /\ (x = -1 => y # -Half),
           w \in {"lshift", "rshift"} => x \in 0..(Bits - 1)
    PROVE  \E v \in Cell : \A s \in States :
                Nth(s.ds, 1) = x /\ Nth(s.ds, 2) = y => Meaning(w, s) = Put(s, 2, <<v>>)
<1>1. CASE w = "<"
  <2>1. Truth(y < x) \in Cell
    BY <1>1, TruthCell
  <2>8. \A s : Meaning("<", s) = Put(s, 2, <<Truth(Nth(s.ds, 2) < Nth(s.ds, 1))>>)
    BY RotMeanings, Zenon
  <2> QED
    BY <1>1, <2>1, <2>8
<1>2. CASE w = ">="
  <2>1. Truth(y >= x) \in Cell
    BY <1>2, TruthCell
  <2>8. \A s : Meaning(">=", s) = Put(s, 2, <<Truth(Nth(s.ds, 2) >= Nth(s.ds, 1))>>)
    BY RotMeanings, Zenon
  <2> QED
    BY <1>2, <2>1, <2>8
<1>3. CASE w = ">"
  <2>1. Truth(y > x) \in Cell
    BY <1>3, TruthCell
  <2>8. \A s : Meaning(">", s) = Put(s, 2, <<Truth(Nth(s.ds, 2) > Nth(s.ds, 1))>>)
    BY DupMeanings, Zenon
  <2> QED
    BY <1>3, <2>1, <2>8
<1>4. CASE w = "<="
  <2>1. Truth(y <= x) \in Cell
    BY <1>4, TruthCell
  <2>8. \A s : Meaning("<=", s) = Put(s, 2, <<Truth(Nth(s.ds, 2) <= Nth(s.ds, 1))>>)
    BY RotMeanings, Zenon
  <2> QED
    BY <1>4, <2>1, <2>8
<1>5. CASE w = "-"
  <2>1. Wrap(y - x) \in Cell
    BY <1>5, Integer, WrapCell
  <2>8. \A s : Meaning("-", s) = Put(s, 2, <<Wrap(Nth(s.ds, 2) - Nth(s.ds, 1))>>)
    BY DupMeanings, Zenon
  <2> QED
    BY <1>5, <2>1, <2>8
<1>6. CASE w = "+"
  <2>1. Wrap(y + x) \in Cell
    BY <1>6, Integer, WrapCell
  <2>8. \A s : Meaning("+", s) = Put(s, 2, <<Wrap(Nth(s.ds, 2) + Nth(s.ds, 1))>>)
    BY DupMeanings, Zenon
  <2> QED
    BY <1>6, <2>1, <2>8
<1>7. CASE w = "="
  <2>1. Truth(y = x) \in Cell
    BY <1>7, TruthCell
  <2>8. \A s : Meaning("=", s) = Put(s, 2, <<Truth(Nth(s.ds, 2) = Nth(s.ds, 1))>>)
    BY DupMeanings, Zenon
  <2> QED
    BY <1>7, <2>1, <2>8
<1>8. CASE w = "mod"
  <2>1. Remainder(y, x) \in Cell
    BY <1>8, RemainderCell
  <2>8. \A s : Meaning("mod", s) = Put(s, 2, <<Remainder(Nth(s.ds, 2), Nth(s.ds, 1))>>)
    BY DupMeanings, Zenon
  <2> QED
    BY <1>8, <2>1, <2>8
<1>9. CASE w = "*"
  <2>1. Wrap(y * x) \in Cell
    BY <1>9, Integer, WrapCell
  <2>8. \A s : Meaning("*", s) = Put(s, 2, <<Wrap(Nth(s.ds, 2) * Nth(s.ds, 1))>>)
    BY DupMeanings, Zenon
  <2> QED
    BY <1>9, <2>1, <2>8
<1>10. CASE w = "xor"
  <2>1. [i \in 0..(Bits - 1) |-> (Bit(y, i) + Bit(x, i)) % 2] \in [0..7 -> 0..1]
    BY BitRange DEF Bits
  <2>2. OfBits([i \in 0..(Bits - 1) |-> (Bit(y, i) + Bit(x, i)) % 2]) \in Cell
    BY <2>1, OfBitsCell
  <2>8. \A s : Meaning("xor", s) = Put(s, 2, <<OfBits([i \in 0..(Bits - 1) |-> (Bit(Nth(s.ds, 2), i) + Bit(Nth(s.ds, 1), i)) % 2])>>)
    BY RotMeanings, Zenon
  <2> QED
    BY <1>10, <2>2, <2>8
<1>11. CASE w = "lshift"
  <2>1. Wrap(Unsigned(y) * Power2(x)) \in Cell
    BY <1>11, ShiftCell
  <2>8. \A s : Meaning("lshift", s) = Put(s, 2, <<Wrap(Unsigned(Nth(s.ds, 2)) * Power2(Nth(s.ds, 1)))>>)
    BY RotMeanings, Zenon
  <2> QED
    BY <1>11, <2>1, <2>8
<1>12. CASE w = "rshift"
  <2>1. Wrap(Unsigned(y) \div Power2(x)) \in Cell
    BY <1>12, ShiftCell
  <2>8. \A s : Meaning("rshift", s) = Put(s, 2, <<Wrap(Unsigned(Nth(s.ds, 2)) \div Power2(Nth(s.ds, 1)))>>)
    BY RotMeanings, Zenon
  <2> QED
    BY <1>12, <2>1, <2>8
<1>13. CASE w = "or"
  <2>1. [i \in 0..(Bits - 1) |-> Larger(Bit(y, i), Bit(x, i))] \in [0..7 -> 0..1]
    BY BitRange DEF Bits, Larger
  <2>2. OfBits([i \in 0..(Bits - 1) |-> Larger(Bit(y, i), Bit(x, i))]) \in Cell
    BY <2>1, OfBitsCell
  <2>8. \A s : Meaning("or", s) = Put(s, 2, <<OfBits([i \in 0..(Bits - 1) |-> Larger(Bit(Nth(s.ds, 2), i), Bit(Nth(s.ds, 1), i))])>>)
    BY RotMeanings, Zenon
  <2> QED
    BY <1>13, <2>2, <2>8
<1>14. CASE w = "and"
  <2>1. [i \in 0..(Bits - 1) |-> Bit(y, i) * Bit(x, i)] \in [0..7 -> 0..1]
    BY BitRange DEF Bits
  <2>2. OfBits([i \in 0..(Bits - 1) |-> Bit(y, i) * Bit(x, i)]) \in Cell
    BY <2>1, OfBitsCell
  <2>8. \A s : Meaning("and", s) = Put(s, 2, <<OfBits([i \in 0..(Bits - 1) |-> Bit(Nth(s.ds, 2), i) * Bit(Nth(s.ds, 1), i)])>>)
    BY RotMeanings, Zenon
  <2> QED
    BY <1>14, <2>2, <2>8
<1>15. CASE w = "max"
  <2>1. Larger(y, x) \in Cell
    BY <1>15 DEF Larger
  <2>8. \A s : Meaning("max", s) = Put(s, 2, <<Larger(Nth(s.ds, 2), Nth(s.ds, 1))>>)
    BY HereMeanings, Zenon
  <2> QED
    BY <1>15, <2>1, <2>8
<1>16. CASE w = "<>"
  <2>1. Truth(y # x) \in Cell
    BY <1>16, TruthCell
  <2>8. \A s : Meaning("<>", s) = Put(s, 2, <<Truth(Nth(s.ds, 2) # Nth(s.ds, 1))>>)
    BY HereMeanings, Zenon
  <2> QED
    BY <1>16, <2>1, <2>8
<1>17. CASE w = "/"
  <2>1. Quotient(y, x) \in Cell
    BY <1>17, QuotientCell
  <2>8. \A s : Meaning("/", s) = Put(s, 2, <<Quotient(Nth(s.ds, 2), Nth(s.ds, 1))>>)
    BY HalveMeanings, Zenon
  <2> QED
    BY <1>17, <2>1, <2>8
<1>18. CASE w = "min"
  <2>1. Smaller(y, x) \in Cell
    BY <1>18 DEF Smaller
  <2>8. \A s : Meaning("min", s) = Put(s, 2, <<Smaller(Nth(s.ds, 2), Nth(s.ds, 1))>>)
    BY HalveMeanings, Zenon
  <2> QED
    BY <1>18, <2>1, <2>8
<1> QED
  BY <1>1, <1>2, <1>3, <1>4, <1>5, <1>6, <1>7, <1>8, <1>9, <1>10, <1>11, <1>12, <1>13, <1>14, <1>15, <1>16, <1>17, <1>18 DEF Binary, Comparisons

LEMMA UnaryMeaning ==
    ASSUME NEW w \in Unary, NEW x \in Cell, NEW h \in Heaps
    PROVE  \E v \in Cell : \A s \in States :
                Nth(s.ds, 1) = x /\ s.heap = h => Meaning(w, s) = Put(s, 1, <<v>>)
<1>1. CASE w = "1+"
  <2>1. Wrap(x + 1) \in Cell
    BY <1>1, Integer, WrapCell
  <2>8. \A s : Meaning("1+", s) = Put(s, 1, <<Wrap(Nth(s.ds, 1) + 1)>>)
    BY DupMeanings, Zenon
  <2> QED
    BY <1>1, <2>1, <2>8
<1>2. CASE w = "invert"
  <2>1. -x - 1 \in Cell
    BY <1>2 DEF Cell, Half
  <2>8. \A s : Meaning("invert", s) = Put(s, 1, <<-Nth(s.ds, 1) - 1>>)
    BY DupMeanings, Zenon
  <2> QED
    BY <1>2, <2>1, <2>8
<1>3. CASE w = "0="
  <2>1. Truth(x = 0) \in Cell
    BY <1>3, TruthCell
  <2>8. \A s : Meaning("0=", s) = Put(s, 1, <<Truth(Nth(s.ds, 1) = 0)>>)
    BY DupMeanings, Zenon
  <2> QED
    BY <1>3, <2>1, <2>8
<1>4. CASE w = "1-"
  <2>1. Wrap(x - 1) \in Cell
    BY <1>4, Integer, WrapCell
  <2>8. \A s : Meaning("1-", s) = Put(s, 1, <<Wrap(Nth(s.ds, 1) - 1)>>)
    BY DupMeanings, Zenon
  <2> QED
    BY <1>4, <2>1, <2>8
<1>5. CASE w = "c@"
  <2>1. Load(h, x, 1) \in Cell
    BY <1>5, LoadRange DEF Cell, Half
  <2>8. \A s : Meaning("c@", s) = Put(s, 1, <<Load(s.heap, Nth(s.ds, 1), 1)>>)
    BY RotMeanings, Zenon
  <2> QED
    BY <1>5, <2>1, <2>8
<1>6. CASE w = "0<"
  <2>1. Truth(x < 0) \in Cell
    BY <1>6, TruthCell
  <2>8. \A s : Meaning("0<", s) = Put(s, 1, <<Truth(Nth(s.ds, 1) < 0)>>)
    BY RotMeanings, Zenon
  <2> QED
    BY <1>6, <2>1, <2>8
<1>7. CASE w = "@"
  <2>1. Wrap(Load(h, x, 4)) \in Cell
    BY <1>7, LoadRange, WrapCell, Integer
  <2>8. \A s : Meaning("@", s) = Put(s, 1, <<Wrap(Load(s.heap, Nth(s.ds, 1), 4))>>)
    BY RotMeanings, Zenon
  <2> QED
    BY <1>7, <2>1, <2>8
<1>8. CASE w = "2*"
  <2>1. Wrap(x * 2) \in Cell
    BY <1>8, Integer, WrapCell
  <2>8. \A s : Meaning("2*", s) = Put(s, 1, <<Wrap(Nth(s.ds, 1) * 2)>>)
    BY HereMeanings, Zenon
  <2> QED
    BY <1>8, <2>1, <2>8
<1>9. CASE w = "cell+"
  <2>1. Wrap(x + 4) \in Cell
    BY <1>9, Integer, WrapCell
  <2>8. \A s : Meaning("cell+", s) = Put(s, 1, <<Wrap(Nth(s.ds, 1) + 4)>>)
    BY HereMeanings, Zenon
  <2> QED
    BY <1>9, <2>1, <2>8
<1>10. CASE w = "2/"
  <2>0. 2 \in Cell
    BY DEF Cell, Half
  <2>1. Quotient(x, 2) \in Cell
    BY <2>0, QuotientCell
<2>8. \A s : Meaning("2/", s) = Put(s, 1, <<Quotient(Nth(s.ds, 1), 2)>>)
    BY HalveMeanings, Zenon
  <2> QED
    BY <1>10, <2>1, <2>8
<1>11. CASE w = "0<>"
  <2>1. Truth(x # 0) \in Cell
    BY <1>11, TruthCell
  <2>8. \A s : Meaning("0<>", s) = Put(s, 1, <<Truth(Nth(s.ds, 1) # 0)>>)
    BY HalveMeanings, Zenon
  <2> QED
    BY <1>11, <2>1, <2>8
<1>12. CASE w = "0>"
  <2>1. Truth(x > 0) \in Cell
    BY <1>12, TruthCell
  <2>8. \A s : Meaning("0>", s) = Put(s, 1, <<Truth(Nth(s.ds, 1) > 0)>>)
    BY HalveMeanings, Zenon
  <2> QED
    BY <1>12, <2>1, <2>8
<1>13. CASE w = "w@"
  <2>1. Load(h, x, 2) \in Cell
    BY <1>13, LoadRange DEF Cell, Half
  <2>8. \A s : Meaning("w@", s) = Put(s, 1, <<Load(s.heap, Nth(s.ds, 1), 2)>>)
    BY HalveMeanings, Zenon
  <2> QED
    BY <1>13, <2>1, <2>8
<1>14. CASE w = "cells"
  <2>1. Wrap(x * 4) \in Cell
    BY <1>14, Integer, WrapCell
  <2>8. \A s : Meaning("cells", s) = Put(s, 1, <<Wrap(Nth(s.ds, 1) * 4)>>)
    BY HalveMeanings, Zenon
  <2> QED
    BY <1>14, <2>1, <2>8
<1>15. CASE w = "abs"
  <2>1. Wrap(Magnitude(x)) \in Cell
    BY <1>15, WrapCell DEF Magnitude, Cell, Half
  <2>8. \A s : Meaning("abs", s) = Put(s, 1, <<Wrap(Magnitude(Nth(s.ds, 1)))>>)
    BY HalveMeanings, Zenon
  <2> QED
    BY <1>15, <2>1, <2>8
<1>16. CASE w = "negate"
  <2>1. Wrap(-x) \in Cell
    BY <1>16, Integer, WrapCell
  <2>8. \A s : Meaning("negate", s) = Put(s, 1, <<Wrap(-Nth(s.ds, 1))>>)
    BY HalveMeanings, Zenon
  <2> QED
    BY <1>16, <2>1, <2>8
<1> QED
  BY <1>1, <1>2, <1>3, <1>4, <1>5, <1>6, <1>7, <1>8, <1>9, <1>10, <1>11, <1>12, <1>13, <1>14, <1>15, <1>16 DEF Unary

-----------------------------------------------------------------------------
(* What the words pop, and what storing does to a heap.                      *)

LEMMA PopsAre ==
    /\ \A w \in Binary : Pops(w) = 2
    /\ \A w \in Unary : Pops(w) = 1
    /\ Pops("dup") = 1
    /\ Pops("over") = 2
    /\ Pops("drop") = 1
    /\ Pops("swap") = 2
    /\ Pops("allot") = 1
    /\ Pops("i") = 0
    /\ Pops("j") = 0
    /\ Pops("rot") = 3
    /\ Pops("pick") = 1
    /\ Pops("depth") = 0
    /\ Pops("c!") = 2
    /\ Pops("!") = 2
    /\ Pops("c,") = 1
    /\ Pops("here") = 0
    /\ Pops("2drop") = 2
    /\ Pops("tuck") = 2
    /\ Pops("align") = 0
    /\ Pops(",") = 1
    /\ Pops("?dup") = 1
    /\ Pops(">r") = 1
    /\ Pops("r>") = 0
    /\ Pops("2>r") = 2
    /\ Pops("2r>") = 0
    /\ Pops("2dup") = 2
    /\ Pops("w!") = 2
    /\ Pops("+!") = 2
    /\ Pops("nip") = 2
    /\ Pops("r@") = 0
    /\ Pops("w,") = 1
  BY DEF Pops, Binary, Comparisons, Unary

LEMMA ReturnPopsAre ==
    /\ \A w \in Words \ {"r>", "i", "r@", "2r>", "j"} : ReturnPops(w) = 0
    /\ ReturnPops("r>") = 1 /\ ReturnPops("i") = 1 /\ ReturnPops("r@") = 1
    /\ ReturnPops("2r>") = 2 /\ ReturnPops("j") = 3
  BY DEF ReturnPops

LEMMA StoreHeap ==
    ASSUME NEW h \in Heaps, NEW n \in 1..4, NEW a \in Bottom..(Limit - n), NEW v \in Int
    PROVE  Store(h, a, n, v) \in Heaps
<1>1. PICK D \in SUBSET (Bottom..(Limit - 1)) : h \in [D -> 0..3]
  BY DEF Heaps, Unit
<1> DEFINE units == a..(a + n - 1)
<1>2. units \cup D \in SUBSET (Bottom..(Limit - 1))
  BY PrimitivesAssumption DEF Half
<1>3. \A b \in units : (Unsigned(v) \div Place(b - a)) % Unit \in 0..3
  <2> TAKE b \in units
  <2>1. b - a \in 0..3
    BY PrimitivesAssumption DEF Half
  <2>2. Place(b - a) \in Nat \ {0}
    BY <2>1 DEF Place
  <2>3. Unsigned(v) \in Nat
    BY DEF Unsigned, Range256
  <2>4. Unsigned(v) \div Place(b - a) \in Nat
    BY <2>2, <2>3, Division, Zenon
  <2> QED
    BY <2>4 DEF Unit
<1>4. Store(h, a, n, v) \in [units \cup D -> 0..(Unit - 1)]
  BY <1>1, <1>3 DEF Store, Unit
<1> QED
  BY <1>2, <1>4, Zenon DEF Heaps

-----------------------------------------------------------------------------
(* A word that has what it needs, with its operands defined, leaves a state. *)

LEMMA SetSpace ==
    ASSUME NEW s \in States, NEW a \in Bottom..Limit, NEW h \in Heaps
    PROVE  /\ [s EXCEPT !.dp = a] \in States
           /\ [s EXCEPT !.heap = h] \in States
           /\ [s EXCEPT !.heap = h, !.dp = a] \in States
  BY DEF States

LEMMA SetReturns ==
    ASSUME NEW s \in States, NEW q \in Seq(Cell)
    PROVE  [s EXCEPT !.rs = q] \in States
  BY DEF States

(* The data space a word leaves.                                             *)
LEMMA Spaces ==
    \A a \in Bottom..Limit :
        /\ a \in Cell
        /\ Limit - a >= 4 => a \in Bottom..(Limit - 4) /\ a + 4 \in Bottom..Limit
        /\ Limit - a >= 2 => a \in Bottom..(Limit - 2) /\ a + 2 \in Bottom..Limit
        /\ Limit - a >= 1 => a \in Bottom..(Limit - 1) /\ a + 1 \in Bottom..Limit
        /\ Align(a) <= Limit => Align(a) \in Bottom..Limit
  BY PrimitivesAssumption DEF Half, Cell, Align

LEMMA Depths == \A n \in Nat : n <= MaxCells => n \in Cell
  BY PrimitivesAssumption DEF Half, Cell

LEMMA Sum == \A a \in 0..255, b \in Int : a + b \in Int
  OBVIOUS

LEMMA AlignUp == \A a \in Nat : Align(a) \in Nat /\ Align(a) >= a /\ Align(a) < a + 4 /\ Align(a) % 4 = 0
  BY DEF Align

(* What a word means is a state.                                             *)
LEMMA MeaningState ==
    ASSUME NEW w \in Words, NEW s \in States, Len(s.ds) <= MaxCells, NEW r \in Nat,
           Enough(w, s, r), Defined(w, s)
    PROVE  Meaning(w, s) \in States
<1> DEFINE x == Nth(s.ds, 1)
           y == Nth(s.ds, 2)
<1>1. s.ds \in Seq(Cell) /\ s.rs \in Seq(Cell) /\ s.dp \in Bottom..Limit /\ s.heap \in Heaps
  BY DEF States
<1>2. Len(s.ds) \in Nat /\ Len(s.rs) \in Nat
  BY <1>1
<1>3. Len(s.ds) >= Pops(w) /\ Len(s.rs) >= ReturnPops(w)
  BY DEF Enough, Defined
<1>4. \A n \in 1..Len(s.ds) : Nth(s.ds, n) \in Cell
  BY <1>1, TopCells
<1>5. \A n \in 1..Len(s.rs) : Nth(s.rs, n) \in Cell
  BY <1>1, TopCells
<1>6. \A n \in 0..Len(s.ds), new \in Seq(Cell) : Put(s, n, new) \in States /\ Put(s, n, new).heap = s.heap
                                              /\ Put(s, n, new).dp = s.dp /\ Put(s, n, new).rs = s.rs
  BY PutEffect
<1>7. /\ w = "pick" => Len(s.ds) - 1 > x
      /\ w = "," => Limit - s.dp >= 4
      /\ w = "w," => Limit - s.dp >= 2
      /\ w = "c," => Limit - s.dp >= 1
      /\ w = "allot" => s.dp + x \in Bottom..Limit
      /\ w = "align" => Align(s.dp) <= Limit
  BY Zenon DEF Enough, AllotFits
<1>8. /\ w = "pick" => x >= 0
      /\ w \in {"!", "@", "+!"} => x \in Bottom..(Limit - 4)
      /\ w \in {"w!", "w@"} => x \in Bottom..(Limit - 2)
      /\ w \in {"c!", "c@"} => x \in Bottom..(Limit - 1)
  BY Zenon DEF Defined
<1>9. CASE w = "dup"
  <2>1. Meaning("dup", s) = Put(s, 1, <<x, x>>)
    BY DupMeanings, Zenon
  <2>0. Pops(w) = 1
    BY <1>9, PopsAre, Zenon
  <2>2. Len(s.ds) >= 1 /\ 1 \in 0..Len(s.ds)
    BY <1>2, <1>3, <2>0
  <2>4. <<x, x>> \in Seq(Cell)
    BY <1>1, <1>2, <1>4, <1>5, <2>2
  <2> QED
    BY <1>6, <1>9, <2>1, <2>2, <2>4, Zenon
<1>10. CASE w = "over"
  <2>1. Meaning("over", s) = Put(s, 2, <<y, x, y>>)
    BY DupMeanings, Zenon
  <2>0. Pops(w) = 2
    BY <1>10, PopsAre, Zenon
  <2>2. Len(s.ds) >= 2 /\ 2 \in 0..Len(s.ds)
    BY <1>2, <1>3, <2>0
  <2>4. <<y, x, y>> \in Seq(Cell)
    BY <1>1, <1>2, <1>4, <1>5, <2>2
  <2> QED
    BY <1>6, <1>10, <2>1, <2>2, <2>4, Zenon
<1>11. CASE w = "drop"
  <2>1. Meaning("drop", s) = Put(s, 1, <<>>)
    BY DupMeanings, Zenon
  <2>0. Pops(w) = 1
    BY <1>11, PopsAre, Zenon
  <2>2. Len(s.ds) >= 1 /\ 1 \in 0..Len(s.ds)
    BY <1>2, <1>3, <2>0
  <2>4. <<>> \in Seq(Cell)
    BY <1>1, <1>2, <1>4, <1>5, <2>2
  <2> QED
    BY <1>6, <1>11, <2>1, <2>2, <2>4, Zenon
<1>12. CASE w = "swap"
  <2>1. Meaning("swap", s) = Put(s, 2, <<x, y>>)
    BY DupMeanings, Zenon
  <2>0. Pops(w) = 2
    BY <1>12, PopsAre, Zenon
  <2>2. Len(s.ds) >= 2 /\ 2 \in 0..Len(s.ds)
    BY <1>2, <1>3, <2>0
  <2>4. <<x, y>> \in Seq(Cell)
    BY <1>1, <1>2, <1>4, <1>5, <2>2
  <2> QED
    BY <1>6, <1>12, <2>1, <2>2, <2>4, Zenon
<1>13. CASE w = "allot"
  <2>1. Meaning("allot", s) = [Put(s, 1, <<>>) EXCEPT !.dp = @ + x]
    BY DupMeanings, Zenon
  <2>0. Pops(w) = 1
    BY <1>13, PopsAre, Zenon
  <2>2. Len(s.ds) >= 1 /\ 1 \in 0..Len(s.ds)
    BY <1>2, <1>3, <2>0
  <2>4. <<>> \in Seq(Cell)
    BY <1>1, <1>2, <1>4, <1>5, <2>2
  <2>5. Put(s, 1, <<>>) \in States /\ Put(s, 1, <<>>).heap = s.heap
        /\ Put(s, 1, <<>>).dp = s.dp /\ Put(s, 1, <<>>).rs = s.rs
    BY <1>6, <2>2, <2>4, Zenon
  <2>6. s.dp + x \in Bottom..Limit
    BY <1>7, <1>13
  <2>7. Put(s, 1, <<>>).dp + x \in Bottom..Limit
    BY <2>5, <2>6, Zenon
  <2> QED
    BY <1>1, <1>13, <2>1, <2>5, <2>7, SetSpace, Zenon
<1>14. CASE w = "i"
  <2>1. Meaning("i", s) = Put(s, 0, <<Nth(s.rs, 1)>>)
    BY DupMeanings, Zenon
  <2>0. Pops(w) = 0 /\ ReturnPops(w) = 1
    BY <1>14, PopsAre, ReturnPopsAre, Zenon
  <2>2. Len(s.ds) >= 0 /\ 0 \in 0..Len(s.ds) /\ Len(s.rs) >= 1
    BY <1>2, <1>3, <2>0
  <2>4. <<Nth(s.rs, 1)>> \in Seq(Cell)
    BY <1>1, <1>2, <1>4, <1>5, <2>2
  <2> QED
    BY <1>6, <1>14, <2>1, <2>2, <2>4, Zenon
<1>15. CASE w = "j"
  <2>1. Meaning("j", s) = Put(s, 0, <<Nth(s.rs, 3)>>)
    BY DupMeanings, Zenon
  <2>0. Pops(w) = 0 /\ ReturnPops(w) = 3
    BY <1>15, PopsAre, ReturnPopsAre, Zenon
  <2>2. Len(s.ds) >= 0 /\ 0 \in 0..Len(s.ds) /\ Len(s.rs) >= 3
    BY <1>2, <1>3, <2>0
  <2>4. <<Nth(s.rs, 3)>> \in Seq(Cell)
    BY <1>1, <1>2, <1>4, <1>5, <2>2
  <2> QED
    BY <1>6, <1>15, <2>1, <2>2, <2>4, Zenon
<1>16. CASE w = "rot"
  <2>1. Meaning("rot", s) = Put(s, 3, <<y, x, Nth(s.ds, 3)>>)
    BY RotMeanings, Zenon
  <2>0. Pops(w) = 3
    BY <1>16, PopsAre, Zenon
  <2>2. Len(s.ds) >= 3 /\ 3 \in 0..Len(s.ds)
    BY <1>2, <1>3, <2>0
  <2>4. <<y, x, Nth(s.ds, 3)>> \in Seq(Cell)
    BY <1>1, <1>2, <1>4, <1>5, <2>2
  <2> QED
    BY <1>6, <1>16, <2>1, <2>2, <2>4, Zenon
<1>17. CASE w = "pick"
  <2>1. Meaning("pick", s) = Put(s, 1, <<Nth(s.ds, x + 2)>>)
    BY RotMeanings, Zenon
  <2>0. Pops(w) = 1
    BY <1>17, PopsAre, Zenon
  <2>2. Len(s.ds) >= 1 /\ 1 \in 0..Len(s.ds)
    BY <1>2, <1>3, <2>0
  <2>3. x \in Nat /\ x + 2 \in 1..Len(s.ds)
    BY <1>2, <1>4, <1>7, <1>8, <1>17, <2>2, Integer
  <2>4. <<Nth(s.ds, x + 2)>> \in Seq(Cell)
    BY <1>1, <1>2, <1>4, <1>5, <2>2, <2>3
  <2> QED
    BY <1>6, <1>17, <2>1, <2>2, <2>4, Zenon
<1>18. CASE w = "depth"
  <2>1. Meaning("depth", s) = Put(s, 0, <<Len(s.ds)>>)
    BY RotMeanings, Zenon
  <2>0. Pops(w) = 0
    BY <1>18, PopsAre, Zenon
  <2>2. Len(s.ds) >= 0 /\ 0 \in 0..Len(s.ds)
    BY <1>2, <1>3, <2>0
  <2>4. <<Len(s.ds)>> \in Seq(Cell)
    BY <1>1, <1>2, <1>4, <1>5, <2>2, Depths
  <2> QED
    BY <1>6, <1>18, <2>1, <2>2, <2>4, Zenon
<1>19. CASE w = "c!"
  <2>1. Meaning("c!", s) = [Put(s, 2, <<>>) EXCEPT !.heap = Store(@, x, 1, y)]
    BY RotMeanings, Zenon
  <2>0. Pops(w) = 2
    BY <1>19, PopsAre, Zenon
  <2>2. Len(s.ds) >= 2 /\ 2 \in 0..Len(s.ds)
    BY <1>2, <1>3, <2>0
  <2>4. <<>> \in Seq(Cell)
    BY <1>1, <1>2, <1>4, <1>5, <2>2
  <2>5. Put(s, 2, <<>>) \in States /\ Put(s, 2, <<>>).heap = s.heap
        /\ Put(s, 2, <<>>).dp = s.dp /\ Put(s, 2, <<>>).rs = s.rs
    BY <1>6, <2>2, <2>4, Zenon
  <2>6. x \in Bottom..(Limit - 1)
    BY <1>8, <1>19
  <2>61. x \in Int /\ y \in Int
    BY <1>4, <2>2, Integer
  <2>7. y \in Int
    BY <2>61
  <2>8. Store(s.heap, x, 1, y) \in Heaps
    BY <1>1, <2>6, <2>7, StoreHeap
  <2>9. Store(Put(s, 2, <<>>).heap, x, 1, y) \in Heaps
    BY <2>5, <2>8, Zenon
  <2>10. Meaning("c!", s) = [Put(s, 2, <<>>) EXCEPT !.heap = Store(Put(s, 2, <<>>).heap, x, 1, y)]
    BY <2>1
  <2> QED
    BY <1>1, <1>19, <2>10, <2>5, <2>9, SetSpace, Zenon
<1>20. CASE w = "!"
  <2>1. Meaning("!", s) = [Put(s, 2, <<>>) EXCEPT !.heap = Store(@, x, 4, y)]
    BY RotMeanings, Zenon
  <2>0. Pops(w) = 2
    BY <1>20, PopsAre, Zenon
  <2>2. Len(s.ds) >= 2 /\ 2 \in 0..Len(s.ds)
    BY <1>2, <1>3, <2>0
  <2>4. <<>> \in Seq(Cell)
    BY <1>1, <1>2, <1>4, <1>5, <2>2
  <2>5. Put(s, 2, <<>>) \in States /\ Put(s, 2, <<>>).heap = s.heap
        /\ Put(s, 2, <<>>).dp = s.dp /\ Put(s, 2, <<>>).rs = s.rs
    BY <1>6, <2>2, <2>4, Zenon
  <2>6. x \in Bottom..(Limit - 4)
    BY <1>8, <1>20
  <2>61. x \in Int /\ y \in Int
    BY <1>4, <2>2, Integer
  <2>7. y \in Int
    BY <2>61
  <2>8. Store(s.heap, x, 4, y) \in Heaps
    BY <1>1, <2>6, <2>7, StoreHeap
  <2>9. Store(Put(s, 2, <<>>).heap, x, 4, y) \in Heaps
    BY <2>5, <2>8, Zenon
  <2>10. Meaning("!", s) = [Put(s, 2, <<>>) EXCEPT !.heap = Store(Put(s, 2, <<>>).heap, x, 4, y)]
    BY <2>1
  <2> QED
    BY <1>1, <1>20, <2>10, <2>5, <2>9, SetSpace, Zenon
<1>21. CASE w = "c,"
  <2>1. Meaning("c,", s) = [Put(s, 1, <<>>) EXCEPT !.heap = Store(@, s.dp, 1, x), !.dp = @ + 1]
    BY RotMeanings, Zenon
  <2>0. Pops(w) = 1
    BY <1>21, PopsAre, Zenon
  <2>2. Len(s.ds) >= 1 /\ 1 \in 0..Len(s.ds)
    BY <1>2, <1>3, <2>0
  <2>4. <<>> \in Seq(Cell)
    BY <1>1, <1>2, <1>4, <1>5, <2>2
  <2>5. Put(s, 1, <<>>) \in States /\ Put(s, 1, <<>>).heap = s.heap
        /\ Put(s, 1, <<>>).dp = s.dp /\ Put(s, 1, <<>>).rs = s.rs
    BY <1>6, <2>2, <2>4, Zenon
  <2>6. s.dp \in Bottom..(Limit - 1) /\ s.dp + 1 \in Bottom..Limit
    BY <1>1, <1>7, <1>21, Spaces, Zenon
  <2>7. x \in Int
    BY <1>4, <2>2, Integer
  <2>8. Store(s.heap, s.dp, 1, x) \in Heaps
    BY <1>1, <2>6, <2>7, StoreHeap
  <2>9. Store(Put(s, 1, <<>>).heap, s.dp, 1, x) \in Heaps /\ Put(s, 1, <<>>).dp + 1 \in Bottom..Limit
    BY <2>5, <2>6, <2>8, Zenon
  <2>10. Meaning("c,", s) = [Put(s, 1, <<>>) EXCEPT !.heap = Store(Put(s, 1, <<>>).heap, s.dp, 1, x), !.dp = Put(s, 1, <<>>).dp + 1]
    BY <2>1
  <2> QED
    BY <1>1, <1>21, <2>10, <2>5, <2>9, SetSpace, Zenon
<1>22. CASE w = "here"
  <2>1. Meaning("here", s) = Put(s, 0, <<s.dp>>)
    BY HereMeanings, Zenon
  <2>0. Pops(w) = 0
    BY <1>22, PopsAre, Zenon
  <2>2. Len(s.ds) >= 0 /\ 0 \in 0..Len(s.ds)
    BY <1>2, <1>3, <2>0
  <2>4. <<s.dp>> \in Seq(Cell)
    BY <1>1, <1>2, <1>4, <1>5, <2>2, Spaces
  <2> QED
    BY <1>6, <1>22, <2>1, <2>2, <2>4, Zenon
<1>23. CASE w = "2drop"
  <2>1. Meaning("2drop", s) = Put(s, 2, <<>>)
    BY HereMeanings, Zenon
  <2>0. Pops(w) = 2
    BY <1>23, PopsAre, Zenon
  <2>2. Len(s.ds) >= 2 /\ 2 \in 0..Len(s.ds)
    BY <1>2, <1>3, <2>0
  <2>4. <<>> \in Seq(Cell)
    BY <1>1, <1>2, <1>4, <1>5, <2>2
  <2> QED
    BY <1>6, <1>23, <2>1, <2>2, <2>4, Zenon
<1>24. CASE w = "tuck"
  <2>1. Meaning("tuck", s) = Put(s, 2, <<x, y, x>>)
    BY HereMeanings, Zenon
  <2>0. Pops(w) = 2
    BY <1>24, PopsAre, Zenon
  <2>2. Len(s.ds) >= 2 /\ 2 \in 0..Len(s.ds)
    BY <1>2, <1>3, <2>0
  <2>4. <<x, y, x>> \in Seq(Cell)
    BY <1>1, <1>2, <1>4, <1>5, <2>2
  <2> QED
    BY <1>6, <1>24, <2>1, <2>2, <2>4, Zenon
<1>25. CASE w = "align"
  <2>1. Meaning("align", s) = [s EXCEPT !.dp = Align(@)]
    BY HereMeanings, Zenon
  <2>0. Pops(w) = 0
    BY <1>25, PopsAre, Zenon
  <2>2. Len(s.ds) >= 0 /\ 0 \in 0..Len(s.ds)
    BY <1>2, <1>3, <2>0
  <2>6. Align(s.dp) \in Bottom..Limit
    BY <1>1, <1>7, <1>25, Spaces, Zenon
  <2> QED
    BY <1>1, <1>25, <2>1, <2>6, SetSpace, Zenon
<1>26. CASE w = ","
  <2>1. Meaning(",", s) = [Put(s, 1, <<>>) EXCEPT !.heap = Store(@, s.dp, 4, x), !.dp = @ + 4]
    BY HereMeanings, Zenon
  <2>0. Pops(w) = 1
    BY <1>26, PopsAre, Zenon
  <2>2. Len(s.ds) >= 1 /\ 1 \in 0..Len(s.ds)
    BY <1>2, <1>3, <2>0
  <2>4. <<>> \in Seq(Cell)
    BY <1>1, <1>2, <1>4, <1>5, <2>2
  <2>5. Put(s, 1, <<>>) \in States /\ Put(s, 1, <<>>).heap = s.heap
        /\ Put(s, 1, <<>>).dp = s.dp /\ Put(s, 1, <<>>).rs = s.rs
    BY <1>6, <2>2, <2>4, Zenon
  <2>6. s.dp \in Bottom..(Limit - 4) /\ s.dp + 4 \in Bottom..Limit
    BY <1>1, <1>7, <1>26, Spaces, Zenon
  <2>7. x \in Int
    BY <1>4, <2>2, Integer
  <2>8. Store(s.heap, s.dp, 4, x) \in Heaps
    BY <1>1, <2>6, <2>7, StoreHeap
  <2>9. Store(Put(s, 1, <<>>).heap, s.dp, 4, x) \in Heaps /\ Put(s, 1, <<>>).dp + 4 \in Bottom..Limit
    BY <2>5, <2>6, <2>8, Zenon
  <2>10. Meaning(",", s) = [Put(s, 1, <<>>) EXCEPT !.heap = Store(Put(s, 1, <<>>).heap, s.dp, 4, x), !.dp = Put(s, 1, <<>>).dp + 4]
    BY <2>1
  <2> QED
    BY <1>1, <1>26, <2>10, <2>5, <2>9, SetSpace, Zenon
<1>27. CASE w = "?dup"
  <2>1. Meaning("?dup", s) = Put(s, 1, IF x # 0 THEN <<x, x>> ELSE <<x>>)
    BY HereMeanings, Zenon
  <2>0. Pops(w) = 1
    BY <1>27, PopsAre, Zenon
  <2>2. Len(s.ds) >= 1 /\ 1 \in 0..Len(s.ds)
    BY <1>2, <1>3, <2>0
  <2>4. (IF x # 0 THEN <<x, x>> ELSE <<x>>) \in Seq(Cell)
    BY <1>1, <1>2, <1>4, <1>5, <2>2
  <2> QED
    BY <1>6, <1>27, <2>1, <2>2, <2>4, Zenon
<1>28. CASE w = ">r"
  <2>1. Meaning(">r", s) = [Put(s, 1, <<>>) EXCEPT !.rs = Append(@, x)]
    BY HereMeanings, Zenon
  <2>0. Pops(w) = 1
    BY <1>28, PopsAre, Zenon
  <2>2. Len(s.ds) >= 1 /\ 1 \in 0..Len(s.ds)
    BY <1>2, <1>3, <2>0
  <2>4. <<>> \in Seq(Cell)
    BY <1>1, <1>2, <1>4, <1>5, <2>2
  <2>5. Put(s, 1, <<>>) \in States /\ Put(s, 1, <<>>).heap = s.heap
        /\ Put(s, 1, <<>>).dp = s.dp /\ Put(s, 1, <<>>).rs = s.rs
    BY <1>6, <2>2, <2>4, Zenon
  <2>6. Append(s.rs, x) \in Seq(Cell)
    BY <1>1, <1>2, <1>4, <2>2
  <2> QED
    BY <1>28, <2>1, <2>5, <2>6, SetReturns, Zenon
<1>29. CASE w = "r>"
  <2>1. Meaning("r>", s) = [Put(s, 0, <<Nth(s.rs, 1)>>) EXCEPT !.rs = Below(@, 1)]
    BY HereMeanings, Zenon
  <2>0. Pops(w) = 0 /\ ReturnPops(w) = 1
    BY <1>29, PopsAre, ReturnPopsAre, Zenon
  <2>2. Len(s.ds) >= 0 /\ 0 \in 0..Len(s.ds) /\ Len(s.rs) >= 1
    BY <1>2, <1>3, <2>0
  <2>4. <<Nth(s.rs, 1)>> \in Seq(Cell)
    BY <1>1, <1>2, <1>4, <1>5, <2>2
  <2>5. Put(s, 0, <<Nth(s.rs, 1)>>) \in States /\ Put(s, 0, <<Nth(s.rs, 1)>>).heap = s.heap
        /\ Put(s, 0, <<Nth(s.rs, 1)>>).dp = s.dp /\ Put(s, 0, <<Nth(s.rs, 1)>>).rs = s.rs
    BY <1>6, <2>2, <2>4, Zenon
  <2>6. Below(s.rs, 1) \in Seq(Cell)
    BY <1>1, <1>2, <1>4, <2>2 DEF Below
  <2> QED
    BY <1>29, <2>1, <2>5, <2>6, SetReturns, Zenon
<1>30. CASE w = "2>r"
  <2>1. Meaning("2>r", s) = [Put(s, 2, <<>>) EXCEPT !.rs = @ \o <<y, x>>]
    BY HereMeanings, Zenon
  <2>0. Pops(w) = 2
    BY <1>30, PopsAre, Zenon
  <2>2. Len(s.ds) >= 2 /\ 2 \in 0..Len(s.ds)
    BY <1>2, <1>3, <2>0
  <2>4. <<>> \in Seq(Cell)
    BY <1>1, <1>2, <1>4, <1>5, <2>2
  <2>5. Put(s, 2, <<>>) \in States /\ Put(s, 2, <<>>).heap = s.heap
        /\ Put(s, 2, <<>>).dp = s.dp /\ Put(s, 2, <<>>).rs = s.rs
    BY <1>6, <2>2, <2>4, Zenon
  <2>6. s.rs \o <<y, x>> \in Seq(Cell)
    BY <1>1, <1>2, <1>4, <2>2
  <2> QED
    BY <1>30, <2>1, <2>5, <2>6, SetReturns, Zenon
<1>31. CASE w = "2r>"
  <2>1. Meaning("2r>", s) = [Put(s, 0, <<Nth(s.rs, 2), Nth(s.rs, 1)>>) EXCEPT !.rs = Below(@, 2)]
    BY HereMeanings, Zenon
  <2>0. Pops(w) = 0 /\ ReturnPops(w) = 2
    BY <1>31, PopsAre, ReturnPopsAre, Zenon
  <2>2. Len(s.ds) >= 0 /\ 0 \in 0..Len(s.ds) /\ Len(s.rs) >= 2
    BY <1>2, <1>3, <2>0
  <2>4. <<Nth(s.rs, 2), Nth(s.rs, 1)>> \in Seq(Cell)
    BY <1>1, <1>2, <1>4, <1>5, <2>2
  <2>5. Put(s, 0, <<Nth(s.rs, 2), Nth(s.rs, 1)>>) \in States /\ Put(s, 0, <<Nth(s.rs, 2), Nth(s.rs, 1)>>).heap = s.heap
        /\ Put(s, 0, <<Nth(s.rs, 2), Nth(s.rs, 1)>>).dp = s.dp /\ Put(s, 0, <<Nth(s.rs, 2), Nth(s.rs, 1)>>).rs = s.rs
    BY <1>6, <2>2, <2>4, Zenon
  <2>6. Below(s.rs, 2) \in Seq(Cell)
    BY <1>1, <1>2, <1>4, <2>2 DEF Below
  <2> QED
    BY <1>31, <2>1, <2>5, <2>6, SetReturns, Zenon
<1>32. CASE w = "2dup"
  <2>1. Meaning("2dup", s) = Put(s, 2, <<y, x, y, x>>)
    BY HalveMeanings, Zenon
  <2>0. Pops(w) = 2
    BY <1>32, PopsAre, Zenon
  <2>2. Len(s.ds) >= 2 /\ 2 \in 0..Len(s.ds)
    BY <1>2, <1>3, <2>0
  <2>4. <<y, x, y, x>> \in Seq(Cell)
    BY <1>1, <1>2, <1>4, <1>5, <2>2
  <2> QED
    BY <1>6, <1>32, <2>1, <2>2, <2>4, Zenon
<1>33. CASE w = "w!"
  <2>1. Meaning("w!", s) = [Put(s, 2, <<>>) EXCEPT !.heap = Store(@, x, 2, y)]
    BY HalveMeanings, Zenon
  <2>0. Pops(w) = 2
    BY <1>33, PopsAre, Zenon
  <2>2. Len(s.ds) >= 2 /\ 2 \in 0..Len(s.ds)
    BY <1>2, <1>3, <2>0
  <2>4. <<>> \in Seq(Cell)
    BY <1>1, <1>2, <1>4, <1>5, <2>2
  <2>5. Put(s, 2, <<>>) \in States /\ Put(s, 2, <<>>).heap = s.heap
        /\ Put(s, 2, <<>>).dp = s.dp /\ Put(s, 2, <<>>).rs = s.rs
    BY <1>6, <2>2, <2>4, Zenon
  <2>6. x \in Bottom..(Limit - 2)
    BY <1>8, <1>33
  <2>61. x \in Int /\ y \in Int
    BY <1>4, <2>2, Integer
  <2>7. y \in Int
    BY <2>61
  <2>8. Store(s.heap, x, 2, y) \in Heaps
    BY <1>1, <2>6, <2>7, StoreHeap
  <2>9. Store(Put(s, 2, <<>>).heap, x, 2, y) \in Heaps
    BY <2>5, <2>8, Zenon
  <2>10. Meaning("w!", s) = [Put(s, 2, <<>>) EXCEPT !.heap = Store(Put(s, 2, <<>>).heap, x, 2, y)]
    BY <2>1
  <2> QED
    BY <1>1, <1>33, <2>10, <2>5, <2>9, SetSpace, Zenon
<1>34. CASE w = "+!"
  <2>1. Meaning("+!", s) = [Put(s, 2, <<>>) EXCEPT !.heap = Store(@, x, 4, Load(@, x, 4) + y)]
    BY HalveMeanings, Zenon
  <2>0. Pops(w) = 2
    BY <1>34, PopsAre, Zenon
  <2>2. Len(s.ds) >= 2 /\ 2 \in 0..Len(s.ds)
    BY <1>2, <1>3, <2>0
  <2>4. <<>> \in Seq(Cell)
    BY <1>1, <1>2, <1>4, <1>5, <2>2
  <2>5. Put(s, 2, <<>>) \in States /\ Put(s, 2, <<>>).heap = s.heap
        /\ Put(s, 2, <<>>).dp = s.dp /\ Put(s, 2, <<>>).rs = s.rs
    BY <1>6, <2>2, <2>4, Zenon
  <2>6. x \in Bottom..(Limit - 4)
    BY <1>8, <1>34
  <2>61. x \in Int /\ y \in Int
    BY <1>4, <2>2, Integer
  <2>62. Load(s.heap, x, 4) \in 0..255
    BY <1>1, <2>61, LoadRange, Zenon
  <2>7. Load(s.heap, x, 4) + y \in Int
    BY <2>61, <2>62, Sum, Zenon
  <2>8. Store(s.heap, x, 4, Load(s.heap, x, 4) + y) \in Heaps
    BY <1>1, <2>6, <2>7, StoreHeap
  <2>9. Store(Put(s, 2, <<>>).heap, x, 4, Load(Put(s, 2, <<>>).heap, x, 4) + y) \in Heaps
    BY <2>5, <2>8, Zenon
  <2>10. Meaning("+!", s) = [Put(s, 2, <<>>) EXCEPT !.heap = Store(Put(s, 2, <<>>).heap, x, 4, Load(Put(s, 2, <<>>).heap, x, 4) + y)]
    BY <2>1
  <2> QED
    BY <1>1, <1>34, <2>10, <2>5, <2>9, SetSpace, Zenon
<1>35. CASE w = "nip"
  <2>1. Meaning("nip", s) = Put(s, 2, <<x>>)
    BY HalveMeanings, Zenon
  <2>0. Pops(w) = 2
    BY <1>35, PopsAre, Zenon
  <2>2. Len(s.ds) >= 2 /\ 2 \in 0..Len(s.ds)
    BY <1>2, <1>3, <2>0
  <2>4. <<x>> \in Seq(Cell)
    BY <1>1, <1>2, <1>4, <1>5, <2>2
  <2> QED
    BY <1>6, <1>35, <2>1, <2>2, <2>4, Zenon
<1>36. CASE w = "r@"
  <2>1. Meaning("r@", s) = Put(s, 0, <<Nth(s.rs, 1)>>)
    BY HalveMeanings, Zenon
  <2>0. Pops(w) = 0 /\ ReturnPops(w) = 1
    BY <1>36, PopsAre, ReturnPopsAre, Zenon
  <2>2. Len(s.ds) >= 0 /\ 0 \in 0..Len(s.ds) /\ Len(s.rs) >= 1
    BY <1>2, <1>3, <2>0
  <2>4. <<Nth(s.rs, 1)>> \in Seq(Cell)
    BY <1>1, <1>2, <1>4, <1>5, <2>2
  <2> QED
    BY <1>6, <1>36, <2>1, <2>2, <2>4, Zenon
<1>37. CASE w = "w,"
  <2>1. Meaning("w,", s) = [Put(s, 1, <<>>) EXCEPT !.heap = Store(@, s.dp, 2, x), !.dp = @ + 2]
    BY HalveMeanings, Zenon
  <2>0. Pops(w) = 1
    BY <1>37, PopsAre, Zenon
  <2>2. Len(s.ds) >= 1 /\ 1 \in 0..Len(s.ds)
    BY <1>2, <1>3, <2>0
  <2>4. <<>> \in Seq(Cell)
    BY <1>1, <1>2, <1>4, <1>5, <2>2
  <2>5. Put(s, 1, <<>>) \in States /\ Put(s, 1, <<>>).heap = s.heap
        /\ Put(s, 1, <<>>).dp = s.dp /\ Put(s, 1, <<>>).rs = s.rs
    BY <1>6, <2>2, <2>4, Zenon
  <2>6. s.dp \in Bottom..(Limit - 2) /\ s.dp + 2 \in Bottom..Limit
    BY <1>1, <1>7, <1>37, Spaces, Zenon
  <2>7. x \in Int
    BY <1>4, <2>2, Integer
  <2>8. Store(s.heap, s.dp, 2, x) \in Heaps
    BY <1>1, <2>6, <2>7, StoreHeap
  <2>9. Store(Put(s, 1, <<>>).heap, s.dp, 2, x) \in Heaps /\ Put(s, 1, <<>>).dp + 2 \in Bottom..Limit
    BY <2>5, <2>6, <2>8, Zenon
  <2>10. Meaning("w,", s) = [Put(s, 1, <<>>) EXCEPT !.heap = Store(Put(s, 1, <<>>).heap, s.dp, 2, x), !.dp = Put(s, 1, <<>>).dp + 2]
    BY <2>1
  <2> QED
    BY <1>1, <1>37, <2>10, <2>5, <2>9, SetSpace, Zenon
<1>38. CASE w \in Binary
  <2>1. Len(s.ds) >= 2
    BY <1>3, <1>38, PopsAre
  <2>2. x \in Cell /\ y \in Cell
    BY <1>2, <1>4, <2>1
  <2>3. /\ w \in {"/", "mod"} => x # 0 /\ (x = -1 => y # -Half)
        /\ w \in {"lshift", "rshift"} => x \in 0..(Bits - 1)
    BY DEF Defined
  <2>4. PICK v \in Cell : Meaning(w, s) = Put(s, 2, <<v>>)
    BY <1>38, <2>2, <2>3, BinaryMeaning
  <2>5. 2 \in 0..Len(s.ds) /\ <<v>> \in Seq(Cell)
    BY <1>2, <2>1
  <2> QED
    BY <1>6, <2>4, <2>5, Zenon
<1>39. CASE w \in Unary
  <2>1. Len(s.ds) >= 1
    BY <1>3, <1>39, PopsAre
  <2>2. x \in Cell
    BY <1>2, <1>4, <2>1
  <2>3. PICK v \in Cell : Meaning(w, s) = Put(s, 1, <<v>>)
    BY <1>1, <1>39, <2>2, UnaryMeaning
  <2>4. 1 \in 0..Len(s.ds) /\ <<v>> \in Seq(Cell)
    BY <1>2, <2>1
  <2> QED
    BY <1>6, <2>3, <2>4, Zenon
<1>40. w \in Binary \cup Unary \cup {"dup", "over", "drop", "swap", "allot", "i", "j", "rot", "pick", "depth", "c!", "!", "c,", "here", "2drop", "tuck", "align", ",", "?dup", ">r", "r>", "2>r", "2r>", "2dup", "w!", "+!", "nip", "r@", "w,"}
  BY DEF Words, Words1, Words2, Words3, Words4, Binary, Comparisons, Unary
<1> QED
  BY <1>40, <1>9, <1>10, <1>11, <1>12, <1>13, <1>14, <1>15, <1>16, <1>17, <1>18, <1>19, <1>20, <1>21, <1>22, <1>23, <1>24, <1>25, <1>26, <1>27, <1>28, <1>29, <1>30, <1>31, <1>32, <1>33, <1>34, <1>35, <1>36, <1>37, <1>38, <1>39

-----------------------------------------------------------------------------
(* So does each outcome the C leaves open, and within the limits of both     *)
(* stacks.                                                                   *)

LEMMA MeaningFits ==
    ASSUME NEW w \in Words, NEW s \in States, Len(s.ds) <= MaxCells, NEW r \in Nat,
           r + Len(s.rs) <= MaxCells, Enough(w, s, r), Defined(w, s)
    PROVE  Len(Meaning(w, s).ds) <= MaxCells /\ r + Len(Meaning(w, s).rs) <= MaxCells
<1> DEFINE x == Nth(s.ds, 1)
           y == Nth(s.ds, 2)
<1>1. s.ds \in Seq(Cell) /\ s.rs \in Seq(Cell)
  BY DEF States
<1>2. Len(s.ds) \in Nat /\ Len(s.rs) \in Nat
  BY <1>1
<1>3. Len(s.ds) >= Pops(w) /\ Len(s.rs) >= ReturnPops(w)
  BY DEF Enough, Defined
<1>4. \A n \in 1..Len(s.ds) : Nth(s.ds, n) \in Cell
  BY <1>1, TopCells
<1>5. CASE w \notin {"pick", "lshift", "rshift", "/", "mod"}
  BY <1>3, <1>5, Zenon DEF Enough
<1>6. CASE w \in {"lshift", "rshift", "/", "mod"}
  <2>1. w \in Binary
    BY <1>6 DEF Binary
  <2>a. Pops(w) = 2
    BY <2>1, PopsAre, Zenon
  <2>2. Len(s.ds) >= 2
    BY <1>3, <2>a
  <2>3. x \in Cell /\ y \in Cell
    BY <1>2, <1>4, <2>2
  <2>4. /\ w \in {"/", "mod"} => x # 0 /\ (x = -1 => y # -Half)
        /\ w \in {"lshift", "rshift"} => x \in 0..(Bits - 1)
    BY Zenon DEF Defined
  <2>5. PICK v \in Cell : Meaning(w, s) = Put(s, 2, <<v>>)
    BY <2>1, <2>3, <2>4, BinaryMeaning
  <2>6. 2 \in 0..Len(s.ds)
    BY <1>2, <2>2
  <2>7. Len(Meaning(w, s).ds) = Len(s.ds) - 2 + 1 /\ Meaning(w, s).rs = s.rs
    <3>1. Len(Put(s, 2, <<v>>).ds) = Len(s.ds) - 2 + 1 /\ Put(s, 2, <<v>>).rs = s.rs
      BY <2>6, PutOne, Zenon
    <3> QED
      BY <2>5, <3>1
  <2> QED
    BY <1>2, <2>7, PrimitivesAssumption
<1>7. CASE w = "pick"
  <2>1. Meaning("pick", s) = Put(s, 1, <<Nth(s.ds, x + 2)>>)
    BY RotMeanings, Zenon
  <2>2. Pops(w) = 1
    BY <1>7, PopsAre, Zenon
  <2>3. Len(s.ds) - 1 > x /\ x >= 0
    BY <1>7, Zenon DEF Enough, Defined
  <2>4. x \in Int /\ 1 \in 0..Len(s.ds)
    BY <1>2, <1>3, <1>4, <2>2, Integer
  <2>5. x + 2 \in 1..Len(s.ds)
    BY <1>2, <2>3, <2>4
  <2>6. Len(Meaning(w, s).ds) = Len(s.ds) - 1 + 1 /\ Meaning(w, s).rs = s.rs
  <3>1. Nth(s.ds, x + 2) \in Cell
    BY <1>4, <2>5
  <3> QED
    BY <1>7, <2>1, <2>4, <3>1, PutOne, Zenon
  <2> QED
    BY <1>2, <2>6, PrimitivesAssumption
<1> QED
  BY <1>5, <1>6, <1>7

LEMMA HalfCell == \A x \in Cell : x \div 2 \in Cell
  BY DEF Cell, Half

(* Every outcome of a word is a state within the limits.                     *)
LEMMA OutcomeState ==
    ASSUME NEW w \in Words, NEW s \in States, Len(s.ds) <= MaxCells, NEW r \in Nat,
           r + Len(s.rs) <= MaxCells, Enough(w, s, r), Defined(w, s),
           NEW t \in Outcomes(w, s)
    PROVE  t \in States /\ Len(t.ds) <= MaxCells /\ r + Len(t.rs) <= MaxCells
<1> DEFINE x == Nth(s.ds, 1)
<1>1. s.ds \in Seq(Cell) /\ Len(s.ds) \in Nat
  BY DEF States
<1>2. Len(s.ds) >= Pops(w)
  BY DEF Enough
<1>3. CASE t = Meaning(w, s)
  BY <1>3, MeaningState, MeaningFits
<1>4. CASE w = "2/" /\ t = Put(s, 1, <<x \div 2>>)
  <2>0. w \in Unary
    BY <1>4 DEF Unary
  <2>a. Pops(w) = 1
    BY <2>0, PopsAre, Zenon
  <2>1. 1 \in 1..Len(s.ds) /\ 1 \in 0..Len(s.ds)
    BY <1>1, <1>2, <2>a
  <2>2. x \in Cell
    BY <1>1, <2>1, TopCells
  <2>3. x \div 2 \in Cell
    BY <2>2, HalfCell
  <2>4. t \in States /\ Len(t.ds) = Len(s.ds) - 1 + 1 /\ t.rs = s.rs
    BY <1>4, <2>1, <2>3, PutOne, Zenon
  <2> QED
    BY <1>1, <2>4, PrimitivesAssumption
<1>5. CASE /\ w \in {"<", ">=", ">", "<="}
           /\ \E b \in {-1, 0} : t = Put(s, 2, <<b>>)
  <2>1. PICK b \in {-1, 0} : t = Put(s, 2, <<b>>)
    BY <1>5
  <2>0. w \in Binary
    BY <1>5 DEF Binary, Comparisons
  <2>a. Pops(w) = 2
    BY <2>0, PopsAre, Zenon
  <2>2. 2 \in 0..Len(s.ds)
    BY <1>1, <1>2, <2>a
  <2>3. b \in Cell
    BY DEF Cell, Half
  <2>4. t \in States /\ Len(t.ds) = Len(s.ds) - 2 + 1 /\ t.rs = s.rs
    BY <2>1, <2>2, <2>3, PutOne, Zenon
  <2> QED
    BY <1>1, <2>4, PrimitivesAssumption
<1> QED
  BY <1>3, <1>4, <1>5 DEF Outcomes

-----------------------------------------------------------------------------
(* What GeneratedFlags makes of a listing, and how many of its instructions  *)
(* are left.                                                                 *)

LEMMA FlagsAre ==
    ASSUME NEW src, NEW clobber \in BOOLEAN
    PROVE  LET fl == GeneratedFlags(src, clobber)
               a == Len(src) > 0 /\ src[1] = "A"
               b == a /\ Len(src) > 1 /\ src[2] = "B"
               z == Len(src) > 0 /\ src[Len(src)] = "Z"
           IN  /\ fl \subseteq Flags
               /\ "A" \in fl <=> a
               /\ "B" \in fl <=> b
               /\ "CLOB" \in fl <=> b /\ clobber
               /\ "Z" \in fl <=> z
               /\ "Y" \in fl <=> z /\ Len(src) > 1 /\ src[Len(src) - 1] = "Y"
  BY DEF GeneratedFlags, Flags

LEMMA Two == "A" # "B" /\ "Y" # "Z"
  OBVIOUS

LEMMA Cardinalities ==
    ASSUME NEW c, NEW d, c # d
    PROVE  Cardinality({}) = 0 /\ Cardinality({c}) = 1 /\ Cardinality({c, d}) = 2
<1>1. Cardinality({c}) = 1 /\ IsFiniteSet({c})
  BY FS_Singleton
<1>2. d \notin {c}
  OBVIOUS
<1>3. Cardinality({c} \cup {d}) = 2
  BY <1>1, <1>2, FS_AddElement
<1>4. {c} \cup {d} = {c, d}
  OBVIOUS
<1> QED
  BY <1>1, <1>3, <1>4, FS_EmptySet

(* How many instructions a word loses in front and behind.                  *)
Front(fl) == IF "B" \in fl THEN 2 ELSE IF "A" \in fl THEN 1 ELSE 0
Back(fl) == IF "Y" \in fl THEN 2 ELSE IF "Z" \in fl THEN 1 ELSE 0

LEMMA ReducedIs ==
    ASSUME NEW src, Len(src) \in Nat,
           NEW fl, fl \subseteq Flags, "B" \in fl => "A" \in fl, "Y" \in fl => "Z" \in fl
    PROVE  LET n == Len(src) - Front(fl) - Back(fl)
           IN  n >= 0 =>
                    /\ Len(Reduced(src, fl)) = n
                    /\ \A i \in 1..n : Reduced(src, fl)[i] = src[Front(fl) + i]
<1> DEFINE front == Front(fl)
           back == Back(fl)
           n == Len(src) - front - back
<1>2. fl \cap {"A", "B"} = IF "B" \in fl THEN {"A", "B"} ELSE IF "A" \in fl THEN {"A"} ELSE {}
  OBVIOUS
<1>3. fl \cap {"Y", "Z"} = IF "Y" \in fl THEN {"Y", "Z"} ELSE IF "Z" \in fl THEN {"Z"} ELSE {}
  OBVIOUS
<1>4. Cardinality(fl \cap {"A", "B"}) = IF "B" \in fl THEN 2 ELSE IF "A" \in fl THEN 1 ELSE 0
  <2>1. Cardinality({}) = 0 /\ Cardinality({"A"}) = 1 /\ Cardinality({"A", "B"}) = 2
    BY Two, Cardinalities, Zenon
  <2>2. CASE "B" \in fl
    BY <1>2, <2>1, <2>2, Zenon
  <2>3. CASE "B" \notin fl /\ "A" \in fl
    BY <1>2, <2>1, <2>3, Zenon
  <2>4. CASE "B" \notin fl /\ "A" \notin fl
    BY <1>2, <2>1, <2>4, Zenon
  <2> QED
    BY <2>2, <2>3, <2>4
<1>5. Cardinality(fl \cap {"Y", "Z"}) = IF "Y" \in fl THEN 2 ELSE IF "Z" \in fl THEN 1 ELSE 0
  <2>1. Cardinality({}) = 0 /\ Cardinality({"Z"}) = 1 /\ Cardinality({"Y", "Z"}) = 2
    BY Two, Cardinalities, Zenon
  <2>2. CASE "Y" \in fl
    BY <1>3, <2>1, <2>2, Zenon
  <2>3. CASE "Y" \notin fl /\ "Z" \in fl
    BY <1>3, <2>1, <2>3, Zenon
  <2>4. CASE "Y" \notin fl /\ "Z" \notin fl
    BY <1>3, <2>1, <2>4, Zenon
  <2> QED
    BY <2>2, <2>3, <2>4
<1>6. Cardinality(fl \cap {"A", "B"}) = front /\ Cardinality(fl \cap {"Y", "Z"}) = back
  BY <1>4, <1>5 DEF Front, Back
<1>7. Reduced(src, fl) = [i \in 1..n |-> src[front + i]]
  BY <1>6, Zenon DEF Reduced
<1>8. n \in Int
  BY DEF Front, Back
<1> HIDE DEF n, front
<1>9. n >= 0 => Len(Reduced(src, fl)) = n /\ \A i \in 1..n : Reduced(src, fl)[i] = src[front + i]
  BY <1>7, <1>8
<1> QED
  BY <1>9 DEF n, front

-----------------------------------------------------------------------------
(* A machine by its parts, and each instruction of a listing as a step from  *)
(* one to the next.                                                          *)

(* A processor's state by its parts.                                       *)
Machine(t, d, s, c, r, p, h) ==
    [top |-> t, depth |-> d, scratch |-> s, cells |-> c, rs |-> r, dp |-> p, heap |-> h]

LEMMA Parts ==
    ASSUME NEW t, NEW d, NEW s, NEW c, NEW r, NEW p, NEW h, NEW x
    PROVE  LET m == Machine(t, d, s, c, r, p, h)
           IN  /\ m.top = t /\ m.depth = d /\ m.scratch = s /\ m.cells = c /\ m.rs = r
               /\ m.dp = p /\ m.heap = h
               /\ [m EXCEPT !.top = x] = Machine(x, d, s, c, r, p, h)
               /\ [m EXCEPT !.depth = x] = Machine(t, x, s, c, r, p, h)
               /\ [m EXCEPT !.scratch = x] = Machine(t, d, x, c, r, p, h)
               /\ [m EXCEPT !.cells = x] = Machine(t, d, s, x, r, p, h)
               /\ [m EXCEPT !.rs = x] = Machine(t, d, s, c, x, p, h)
               /\ [m EXCEPT !.dp = x] = Machine(t, d, s, c, r, x, h)
               /\ [m EXCEPT !.heap = x] = Machine(t, d, s, c, r, p, x)
  BY DEF Machine

LEMMA ChoreUp ==
    ASSUME NEW t, NEW d, NEW s, NEW c, NEW r, NEW p, NEW h
    PROVE  Chore("A", Machine(t, d, s, c, r, p, h)) = Machine(t, d + 1, s, c, r, p, h)
  BY DEF Machine, Chore

LEMMA ChoreLoad ==
    ASSUME NEW t, NEW d, NEW s, NEW c, NEW r, NEW p, NEW h
    PROVE  Chore("Y", Machine(t, d, s, c, r, p, h)) = Machine(c[d], d, s, c, r, p, h)
  BY DEF Machine, Chore

LEMMA ChoreDown ==
    ASSUME NEW t, NEW d, NEW s, NEW c, NEW r, NEW p, NEW h
    PROVE  Chore("Z", Machine(t, d, s, c, r, p, h)) = Machine(t, d - 1, s, c, r, p, h)
  BY DEF Machine, Chore

LEMMA PopEffect ==
    ASSUME NEW t, NEW d, NEW s, NEW c, NEW r, NEW p, NEW h, NEW n
    PROVE  PopCells(Machine(t, d, s, c, r, p, h), n) = Machine(t, d, s, c, Below(r, n), p, h)
<1> DEFINE m == Machine(t, d, s, c, r, p, h)
<1>1. m.rs = r /\ \A x : [m EXCEPT !.rs = x] = Machine(t, d, s, c, x, p, h)
  BY DEF Machine
<1> HIDE DEF m
<1>2. PopCells(m, n) = Machine(t, d, s, c, Below(r, n), p, h)
  BY <1>1, Zenon DEF PopCells
<1> QED
  BY <1>2 DEF m

LEMMA Twice ==
    ASSUME NEW f, NEW x, NEW y
    PROVE  [f EXCEPT !.heap = x, !.dp = y] = [[f EXCEPT !.heap = x] EXCEPT !.dp = y]
  OBVIOUS

(* What each instruction does to it.                                       *)
LEMMA Does_A ==
    ASSUME NEW b, NEW w, NEW t, NEW d, NEW s, NEW c, NEW r, NEW p, NEW h
    PROVE  Instruction(b, w, "A", Machine(t, d, s, c, r, p, h)) =
                Machine(t, d + 1, s, c, r, p, h)
<1> DEFINE m == Machine(t, d, s, c, r, p, h)
<1> HIDE DEF m
<1>1. Instruction(b, w, "A", m) = Chore("A", m)
  BY Zenon DEF Instruction, Flags
<1>2. Chore("A", m) = Machine(t, d + 1, s, c, r, p, h)
  BY DEF m, Machine, Chore
<1> QED
  BY <1>1, <1>2, Zenon DEF m

LEMMA Does_B ==
    ASSUME NEW b, NEW w, NEW t, NEW d, NEW s, NEW c, NEW r, NEW p, NEW h
    PROVE  Instruction(b, w, "B", Machine(t, d, s, c, r, p, h)) =
                Machine(t, d, s, [c EXCEPT ![d] = t], r, p, h)
<1> DEFINE m == Machine(t, d, s, c, r, p, h)
<1> HIDE DEF m
<1>1. Instruction(b, w, "B", m) = Chore("B", m)
  BY Zenon DEF Instruction, Flags
<1>2. Chore("B", m) = Machine(t, d, s, [c EXCEPT ![d] = t], r, p, h)
  BY DEF m, Machine, Chore
<1> QED
  BY <1>1, <1>2, Zenon DEF m

LEMMA Does_Z ==
    ASSUME NEW b, NEW w, NEW t, NEW d, NEW s, NEW c, NEW r, NEW p, NEW h
    PROVE  Instruction(b, w, "Z", Machine(t, d, s, c, r, p, h)) =
                Machine(t, d - 1, s, c, r, p, h)
<1> DEFINE m == Machine(t, d, s, c, r, p, h)
<1> HIDE DEF m
<1>1. Instruction(b, w, "Z", m) = Chore("Z", m)
  BY Zenon DEF Instruction, Flags
<1>2. Chore("Z", m) = Machine(t, d - 1, s, c, r, p, h)
  BY DEF m, Machine, Chore
<1> QED
  BY <1>1, <1>2, Zenon DEF m

LEMMA Does_value1 ==
    ASSUME NEW b, NEW w, NEW t, NEW d, NEW s, NEW c, NEW r, NEW p, NEW h
    PROVE  Instruction(b, w, "value1", Machine(t, d, s, c, r, p, h)) =
                Machine(NativeValue(b, w, Machine(t, d, s, c, r, p, h)), d, s, c, r, p, h)
<1> DEFINE m == Machine(t, d, s, c, r, p, h)
<1> HIDE DEF m
<1>1. Instruction(b, w, "value1", m) = [m EXCEPT !.top = NativeValue(b, w, m)]
  BY Zenon DEF Instruction, Flags
<1>2. [m EXCEPT !.top = NativeValue(b, w, m)] = Machine(NativeValue(b, w, m), d, s, c, r, p, h)
  BY DEF m, Machine, PopCells
<1> QED
  BY <1>1, <1>2, Zenon DEF m

LEMMA Does_value2 ==
    ASSUME NEW b, NEW w, NEW t, NEW d, NEW s, NEW c, NEW r, NEW p, NEW h
    PROVE  Instruction(b, w, "value2", Machine(t, d, s, c, r, p, h)) =
                Machine(NativeValue(b, w, Machine(t, d, s, c, r, p, h)), d, s, c, r, p, h)
<1> DEFINE m == Machine(t, d, s, c, r, p, h)
<1> HIDE DEF m
<1>1. Instruction(b, w, "value2", m) = [m EXCEPT !.top = NativeValue(b, w, m)]
  BY Zenon DEF Instruction, Flags
<1>2. [m EXCEPT !.top = NativeValue(b, w, m)] = Machine(NativeValue(b, w, m), d, s, c, r, p, h)
  BY DEF m, Machine, PopCells
<1> QED
  BY <1>1, <1>2, Zenon DEF m

LEMMA Does_load1 ==
    ASSUME NEW b, NEW w, NEW t, NEW d, NEW s, NEW c, NEW r, NEW p, NEW h
    PROVE  Instruction(b, w, "load1", Machine(t, d, s, c, r, p, h)) =
                Machine(c[d - 1], d, s, c, r, p, h)
<1> DEFINE m == Machine(t, d, s, c, r, p, h)
<1> HIDE DEF m
<1>1. Instruction(b, w, "load1", m) = [m EXCEPT !.top = m.cells[m.depth - 1]]
  BY Zenon DEF Instruction, Flags
<1>2. [m EXCEPT !.top = m.cells[m.depth - 1]] = Machine(c[d - 1], d, s, c, r, p, h)
  BY DEF m, Machine, PopCells
<1> QED
  BY <1>1, <1>2, Zenon DEF m

LEMMA Does_store1 ==
    ASSUME NEW b, NEW w, NEW t, NEW d, NEW s, NEW c, NEW r, NEW p, NEW h
    PROVE  Instruction(b, w, "store1", Machine(t, d, s, c, r, p, h)) =
                Machine(t, d, s, [c EXCEPT ![d - 1] = t], r, p, h)
<1> DEFINE m == Machine(t, d, s, c, r, p, h)
<1> HIDE DEF m
<1>1. Instruction(b, w, "store1", m) = [m EXCEPT !.cells[m.depth - 1] = m.top]
  BY Zenon DEF Instruction, Flags
<1>2. [m EXCEPT !.cells[m.depth - 1] = m.top] = Machine(t, d, s, [c EXCEPT ![d - 1] = t], r, p, h)
  BY DEF m, Machine, PopCells
<1> QED
  BY <1>1, <1>2, Zenon DEF m

LEMMA Does_keep ==
    ASSUME NEW b, NEW w, NEW t, NEW d, NEW s, NEW c, NEW r, NEW p, NEW h
    PROVE  Instruction(b, w, "keep", Machine(t, d, s, c, r, p, h)) =
                Machine(t, d, c[d], c, r, p, h)
<1> DEFINE m == Machine(t, d, s, c, r, p, h)
<1> HIDE DEF m
<1>1. Instruction(b, w, "keep", m) = [m EXCEPT !.scratch = m.cells[m.depth]]
  BY Zenon DEF Instruction, Flags
<1>2. [m EXCEPT !.scratch = m.cells[m.depth]] = Machine(t, d, c[d], c, r, p, h)
  BY DEF m, Machine, PopCells
<1> QED
  BY <1>1, <1>2, Zenon DEF m

LEMMA Does_keep1 ==
    ASSUME NEW b, NEW w, NEW t, NEW d, NEW s, NEW c, NEW r, NEW p, NEW h
    PROVE  Instruction(b, w, "keep1", Machine(t, d, s, c, r, p, h)) =
                Machine(t, d, c[d - 1], c, r, p, h)
<1> DEFINE m == Machine(t, d, s, c, r, p, h)
<1> HIDE DEF m
<1>1. Instruction(b, w, "keep1", m) = [m EXCEPT !.scratch = m.cells[m.depth - 1]]
  BY Zenon DEF Instruction, Flags
<1>2. [m EXCEPT !.scratch = m.cells[m.depth - 1]] = Machine(t, d, c[d - 1], c, r, p, h)
  BY DEF m, Machine, PopCells
<1> QED
  BY <1>1, <1>2, Zenon DEF m

LEMMA Does_put ==
    ASSUME NEW b, NEW w, NEW t, NEW d, NEW s, NEW c, NEW r, NEW p, NEW h
    PROVE  Instruction(b, w, "put", Machine(t, d, s, c, r, p, h)) =
                Machine(t, d, s, [c EXCEPT ![d] = s], r, p, h)
<1> DEFINE m == Machine(t, d, s, c, r, p, h)
<1> HIDE DEF m
<1>1. Instruction(b, w, "put", m) = [m EXCEPT !.cells[m.depth] = m.scratch]
  BY Zenon DEF Instruction, Flags
<1>2. [m EXCEPT !.cells[m.depth] = m.scratch] = Machine(t, d, s, [c EXCEPT ![d] = s], r, p, h)
  BY DEF m, Machine, PopCells
<1> QED
  BY <1>1, <1>2, Zenon DEF m

LEMMA Does_put1 ==
    ASSUME NEW b, NEW w, NEW t, NEW d, NEW s, NEW c, NEW r, NEW p, NEW h
    PROVE  Instruction(b, w, "put1", Machine(t, d, s, c, r, p, h)) =
                Machine(t, d, s, [c EXCEPT ![d - 1] = s], r, p, h)
<1> DEFINE m == Machine(t, d, s, c, r, p, h)
<1> HIDE DEF m
<1>1. Instruction(b, w, "put1", m) = [m EXCEPT !.cells[m.depth - 1] = m.scratch]
  BY Zenon DEF Instruction, Flags
<1>2. [m EXCEPT !.cells[m.depth - 1] = m.scratch] = Machine(t, d, s, [c EXCEPT ![d - 1] = s], r, p, h)
  BY DEF m, Machine, PopCells
<1> QED
  BY <1>1, <1>2, Zenon DEF m

LEMMA Does_move ==
    ASSUME NEW b, NEW w, NEW t, NEW d, NEW s, NEW c, NEW r, NEW p, NEW h
    PROVE  Instruction(b, w, "move", Machine(t, d, s, c, r, p, h)) =
                Machine(s, d, s, c, r, p, h)
<1> DEFINE m == Machine(t, d, s, c, r, p, h)
<1> HIDE DEF m
<1>1. Instruction(b, w, "move", m) = [m EXCEPT !.top = m.scratch]
  BY Zenon DEF Instruction, Flags
<1>2. [m EXCEPT !.top = m.scratch] = Machine(s, d, s, c, r, p, h)
  BY DEF m, Machine, PopCells
<1> QED
  BY <1>1, <1>2, Zenon DEF m

LEMMA Does_pick ==
    ASSUME NEW b, NEW w, NEW t, NEW d, NEW s, NEW c, NEW r, NEW p, NEW h
    PROVE  Instruction(b, w, "pick", Machine(t, d, s, c, r, p, h)) =
                Machine(c[d - t], d, s, c, r, p, h)
<1> DEFINE m == Machine(t, d, s, c, r, p, h)
<1> HIDE DEF m
<1>1. Instruction(b, w, "pick", m) = [m EXCEPT !.top = m.cells[m.depth - m.top]]
  BY Zenon DEF Instruction, Flags
<1>2. [m EXCEPT !.top = m.cells[m.depth - m.top]] = Machine(c[d - t], d, s, c, r, p, h)
  BY DEF m, Machine, PopCells
<1> QED
  BY <1>1, <1>2, Zenon DEF m

LEMMA Does_depth ==
    ASSUME NEW b, NEW w, NEW t, NEW d, NEW s, NEW c, NEW r, NEW p, NEW h
    PROVE  Instruction(b, w, "depth", Machine(t, d, s, c, r, p, h)) =
                Machine(d, d, s, c, r, p, h)
<1> DEFINE m == Machine(t, d, s, c, r, p, h)
<1> HIDE DEF m
<1>1. Instruction(b, w, "depth", m) = [m EXCEPT !.top = m.depth]
  BY Zenon DEF Instruction, Flags
<1>2. [m EXCEPT !.top = m.depth] = Machine(d, d, s, c, r, p, h)
  BY DEF m, Machine, PopCells
<1> QED
  BY <1>1, <1>2, Zenon DEF m

LEMMA Does_unless0 ==
    ASSUME NEW b, NEW w, NEW t, NEW d, NEW s, NEW c, NEW r, NEW p, NEW h
    PROVE  Instruction(b, w, "unless0", Machine(t, d, s, c, r, p, h)) =
                Machine(t, IF t = 0 THEN d - 1 ELSE d, s, c, r, p, h)
<1> DEFINE m == Machine(t, d, s, c, r, p, h)
<1> HIDE DEF m
<1>1. Instruction(b, w, "unless0", m) = [m EXCEPT !.depth = IF m.top = 0 THEN m.depth - 1 ELSE m.depth]
  BY Zenon DEF Instruction, Flags
<1>2. [m EXCEPT !.depth = IF m.top = 0 THEN m.depth - 1 ELSE m.depth] = Machine(t, IF t = 0 THEN d - 1 ELSE d, s, c, r, p, h)
  BY DEF m, Machine, PopCells
<1> QED
  BY <1>1, <1>2, Zenon DEF m

LEMMA Does_poke ==
    ASSUME NEW b, NEW w, NEW t, NEW d, NEW s, NEW c, NEW r, NEW p, NEW h
    PROVE  Instruction(b, w, "poke", Machine(t, d, s, c, r, p, h)) =
                Machine(t, d, s, c, r, p, Store(h, t, UnitsOf(w), IF w = "+!" THEN Load(h, t, 4) + s ELSE s))
<1> DEFINE m == Machine(t, d, s, c, r, p, h)
<1> HIDE DEF m
<1>1. Instruction(b, w, "poke", m) = [m EXCEPT !.heap = Store(@, m.top, UnitsOf(w), IF w = "+!" THEN Load(m.heap, m.top, 4) + m.scratch ELSE m.scratch)]
  BY Zenon DEF Instruction, Flags
<1>2. [m EXCEPT !.heap = Store(@, m.top, UnitsOf(w), IF w = "+!" THEN Load(m.heap, m.top, 4) + m.scratch ELSE m.scratch)] = Machine(t, d, s, c, r, p, Store(h, t, UnitsOf(w), IF w = "+!" THEN Load(h, t, 4) + s ELSE s))
  BY DEF m, Machine, PopCells
<1> QED
  BY <1>1, <1>2, Zenon DEF m

LEMMA Does_comma ==
    ASSUME NEW b, NEW w, NEW t, NEW d, NEW s, NEW c, NEW r, NEW p, NEW h
    PROVE  Instruction(b, w, "comma", Machine(t, d, s, c, r, p, h)) =
                Machine(t, d, s, c, r, p + UnitsOf(w), Store(h, p, UnitsOf(w), t))
<1> DEFINE m == Machine(t, d, s, c, r, p, h)
<1> HIDE DEF m
<1>1. Instruction(b, w, "comma", m) = [m EXCEPT !.heap = Store(@, m.dp, UnitsOf(w), m.top), !.dp = @ + UnitsOf(w)]
  BY Zenon DEF Instruction, Flags
<1>2. [m EXCEPT !.heap = Store(@, m.dp, UnitsOf(w), m.top), !.dp = @ + UnitsOf(w)] = Machine(t, d, s, c, r, p + UnitsOf(w), Store(h, p, UnitsOf(w), t))
  <2>1. m.top = t /\ m.dp = p /\ m.heap = h
    BY DEF m, Machine
  <2>2. \A x : [m EXCEPT !.heap = x] = Machine(t, d, s, c, r, p, x)
    BY DEF m, Machine
  <2>3. \A x, y : [Machine(t, d, s, c, r, p, x) EXCEPT !.dp = y] = Machine(t, d, s, c, r, y, x)
    BY DEF Machine
  <2> DEFINE x == Store(h, p, UnitsOf(w), t)
             y == p + UnitsOf(w)
  <2>4. Store(m.heap, m.dp, UnitsOf(w), m.top) = x /\ m.dp + UnitsOf(w) = y
    BY <2>1, Zenon
  <2> HIDE DEF x, y
  <2>5. [m EXCEPT !.heap = x, !.dp = y] = [[m EXCEPT !.heap = x] EXCEPT !.dp = y]
    BY Twice, Zenon
  <2>6. [m EXCEPT !.heap = x, !.dp = y] = Machine(t, d, s, c, r, y, x)
    BY <2>2, <2>3, <2>5, Zenon
  <2>7. [m EXCEPT !.heap = Store(@, m.dp, UnitsOf(w), m.top), !.dp = @ + UnitsOf(w)]
        = [m EXCEPT !.heap = x, !.dp = y]
    BY <2>4, Zenon
  <2> QED
    BY <2>6, <2>7, Zenon DEF x, y
<1> QED
  BY <1>1, <1>2, Zenon DEF m

LEMMA Does_allot ==
    ASSUME NEW b, NEW w, NEW t, NEW d, NEW s, NEW c, NEW r, NEW p, NEW h
    PROVE  Instruction(b, w, "allot", Machine(t, d, s, c, r, p, h)) =
                Machine(t, d, s, c, r, p + t, h)
<1> DEFINE m == Machine(t, d, s, c, r, p, h)
<1> HIDE DEF m
<1>1. Instruction(b, w, "allot", m) = [m EXCEPT !.dp = @ + m.top]
  BY Zenon DEF Instruction, Flags
<1>2. [m EXCEPT !.dp = @ + m.top] = Machine(t, d, s, c, r, p + t, h)
  BY DEF m, Machine, PopCells
<1> QED
  BY <1>1, <1>2, Zenon DEF m

LEMMA Does_align ==
    ASSUME NEW b, NEW w, NEW t, NEW d, NEW s, NEW c, NEW r, NEW p, NEW h
    PROVE  Instruction(b, w, "align", Machine(t, d, s, c, r, p, h)) =
                Machine(t, d, s, c, r, Align(p), h)
<1> DEFINE m == Machine(t, d, s, c, r, p, h)
<1> HIDE DEF m
<1>1. Instruction(b, w, "align", m) = [m EXCEPT !.dp = Align(@)]
  BY Zenon DEF Instruction, Flags
<1>2. [m EXCEPT !.dp = Align(@)] = Machine(t, d, s, c, r, Align(p), h)
  BY DEF m, Machine, PopCells
<1> QED
  BY <1>1, <1>2, Zenon DEF m

LEMMA Does_here ==
    ASSUME NEW b, NEW w, NEW t, NEW d, NEW s, NEW c, NEW r, NEW p, NEW h
    PROVE  Instruction(b, w, "here", Machine(t, d, s, c, r, p, h)) =
                Machine(p, d, s, c, r, p, h)
<1> DEFINE m == Machine(t, d, s, c, r, p, h)
<1> HIDE DEF m
<1>1. Instruction(b, w, "here", m) = [m EXCEPT !.top = m.dp]
  BY Zenon DEF Instruction, Flags
<1>2. [m EXCEPT !.top = m.dp] = Machine(p, d, s, c, r, p, h)
  BY DEF m, Machine, PopCells
<1> QED
  BY <1>1, <1>2, Zenon DEF m

LEMMA Does_rtop ==
    ASSUME NEW b, NEW w, NEW t, NEW d, NEW s, NEW c, NEW r, NEW p, NEW h
    PROVE  Instruction(b, w, "rtop", Machine(t, d, s, c, r, p, h)) =
                Machine(Nth(r, 1)[2], d, s, c, r, p, h)
<1> DEFINE m == Machine(t, d, s, c, r, p, h)
<1> HIDE DEF m
<1>1. Instruction(b, w, "rtop", m) = [m EXCEPT !.top = Nth(m.rs, 1)[2]]
  BY Zenon DEF Instruction, Flags
<1>2. [m EXCEPT !.top = Nth(m.rs, 1)[2]] = Machine(Nth(r, 1)[2], d, s, c, r, p, h)
  BY DEF m, Machine, PopCells
<1> QED
  BY <1>1, <1>2, Zenon DEF m

LEMMA Does_rsecond ==
    ASSUME NEW b, NEW w, NEW t, NEW d, NEW s, NEW c, NEW r, NEW p, NEW h
    PROVE  Instruction(b, w, "rsecond", Machine(t, d, s, c, r, p, h)) =
                Machine(Nth(r, 2)[2], d, s, c, r, p, h)
<1> DEFINE m == Machine(t, d, s, c, r, p, h)
<1> HIDE DEF m
<1>1. Instruction(b, w, "rsecond", m) = [m EXCEPT !.top = Nth(m.rs, 2)[2]]
  BY Zenon DEF Instruction, Flags
<1>2. [m EXCEPT !.top = Nth(m.rs, 2)[2]] = Machine(Nth(r, 2)[2], d, s, c, r, p, h)
  BY DEF m, Machine, PopCells
<1> QED
  BY <1>1, <1>2, Zenon DEF m

LEMMA Does_rthird ==
    ASSUME NEW b, NEW w, NEW t, NEW d, NEW s, NEW c, NEW r, NEW p, NEW h
    PROVE  Instruction(b, w, "rthird", Machine(t, d, s, c, r, p, h)) =
                Machine(Nth(r, 3)[2], d, s, c, r, p, h)
<1> DEFINE m == Machine(t, d, s, c, r, p, h)
<1> HIDE DEF m
<1>1. Instruction(b, w, "rthird", m) = [m EXCEPT !.top = Nth(m.rs, 3)[2]]
  BY Zenon DEF Instruction, Flags
<1>2. [m EXCEPT !.top = Nth(m.rs, 3)[2]] = Machine(Nth(r, 3)[2], d, s, c, r, p, h)
  BY DEF m, Machine, PopCells
<1> QED
  BY <1>1, <1>2, Zenon DEF m

LEMMA Does_rpush ==
    ASSUME NEW b, NEW w, NEW t, NEW d, NEW s, NEW c, NEW r, NEW p, NEW h
    PROVE  Instruction(b, w, "rpush", Machine(t, d, s, c, r, p, h)) =
                Machine(t, d, s, c, Append(r, <<"cell", t>>), p, h)
<1> DEFINE m == Machine(t, d, s, c, r, p, h)
<1> HIDE DEF m
<1>1. Instruction(b, w, "rpush", m) = [m EXCEPT !.rs = Append(@, <<"cell", m.top>>)]
  BY Zenon DEF Instruction, Flags
<1>2. [m EXCEPT !.rs = Append(@, <<"cell", m.top>>)] = Machine(t, d, s, c, Append(r, <<"cell", t>>), p, h)
  BY DEF m, Machine, PopCells
<1> QED
  BY <1>1, <1>2, Zenon DEF m

LEMMA Does_rpush2 ==
    ASSUME NEW b, NEW w, NEW t, NEW d, NEW s, NEW c, NEW r, NEW p, NEW h
    PROVE  Instruction(b, w, "rpush2", Machine(t, d, s, c, r, p, h)) =
                Machine(t, d, s, c, r \o <<<<"cell", c[d]>>, <<"cell", t>>>>, p, h)
<1> DEFINE m == Machine(t, d, s, c, r, p, h)
<1> HIDE DEF m
<1>1. Instruction(b, w, "rpush2", m) = [m EXCEPT !.rs = @ \o <<<<"cell", m.cells[m.depth]>>, <<"cell", m.top>>>>]
  BY Zenon DEF Instruction, Flags
<1>2. [m EXCEPT !.rs = @ \o <<<<"cell", m.cells[m.depth]>>, <<"cell", m.top>>>>] = Machine(t, d, s, c, r \o <<<<"cell", c[d]>>, <<"cell", t>>>>, p, h)
  <2>1. m.rs = r /\ m.cells = c /\ m.depth = d /\ m.top = t
    BY DEF m, Machine
  <2>2. \A x : [m EXCEPT !.rs = x] = Machine(t, d, s, c, x, p, h)
    BY DEF m, Machine
  <2> QED
    BY <2>1, <2>2, Zenon
<1> QED
  BY <1>1, <1>2, Zenon DEF m

LEMMA Does_rpop ==
    ASSUME NEW b, NEW w, NEW t, NEW d, NEW s, NEW c, NEW r, NEW p, NEW h
    PROVE  Instruction(b, w, "rpop", Machine(t, d, s, c, r, p, h)) =
                Machine(Nth(r, 1)[2], d, s, c, Below(r, 1), p, h)
<1> DEFINE m == Machine(t, d, s, c, r, p, h)
<1> HIDE DEF m
<1>1. Instruction(b, w, "rpop", m) = PopCells([m EXCEPT !.top = Nth(m.rs, 1)[2]], 1)
  BY Zenon DEF Instruction, Flags
<1>2. PopCells([m EXCEPT !.top = Nth(m.rs, 1)[2]], 1) = Machine(Nth(r, 1)[2], d, s, c, Below(r, 1), p, h)
  <2>1. m.rs = r /\ m.cells = c /\ m.depth = d
    BY DEF m, Machine
  <2>2. \A x : [m EXCEPT !.top = x] = Machine(x, d, s, c, r, p, h)
    BY DEF m, Machine
  <2> QED
    BY <2>1, <2>2, PopEffect
<1> QED
  BY <1>1, <1>2, Zenon DEF m

LEMMA Does_rpopcell ==
    ASSUME NEW b, NEW w, NEW t, NEW d, NEW s, NEW c, NEW r, NEW p, NEW h
    PROVE  Instruction(b, w, "rpopcell", Machine(t, d, s, c, r, p, h)) =
                Machine(t, d, s, [c EXCEPT ![d] = Nth(r, 1)[2]], Below(r, 1), p, h)
<1> DEFINE m == Machine(t, d, s, c, r, p, h)
<1> HIDE DEF m
<1>1. Instruction(b, w, "rpopcell", m) = PopCells([m EXCEPT !.cells[m.depth] = Nth(m.rs, 1)[2]], 1)
  BY Zenon DEF Instruction, Flags
<1>2. PopCells([m EXCEPT !.cells[m.depth] = Nth(m.rs, 1)[2]], 1) = Machine(t, d, s, [c EXCEPT ![d] = Nth(r, 1)[2]], Below(r, 1), p, h)
  <2>1. m.rs = r /\ m.cells = c /\ m.depth = d
    BY DEF m, Machine
  <2>2. \A x : [m EXCEPT !.cells = x] = Machine(t, d, s, x, r, p, h)
    BY DEF m, Machine
  <2> QED
    BY <2>1, <2>2, PopEffect
<1> QED
  BY <1>1, <1>2, Zenon DEF m

LEMMA Does_rdrop2 ==
    ASSUME NEW b, NEW w, NEW t, NEW d, NEW s, NEW c, NEW r, NEW p, NEW h
    PROVE  Instruction(b, w, "rdrop2", Machine(t, d, s, c, r, p, h)) =
                Machine(t, d, s, c, Below(r, 2), p, h)
<1> DEFINE m == Machine(t, d, s, c, r, p, h)
<1> HIDE DEF m
<1>1. Instruction(b, w, "rdrop2", m) = PopCells(m, 2)
  BY Zenon DEF Instruction, Flags
<1>2. PopCells(m, 2) = Machine(t, d, s, c, Below(r, 2), p, h)
  BY PopEffect DEF m
<1> QED
  BY <1>1, <1>2, Zenon DEF m


(* A run of at most five instructions is their composition.                *)
LEMMA ExecuteShort ==
    ASSUME NEW b, NEW w, NEW code, Len(code) \in 0..5, NEW m, NEW m1, NEW m2, NEW m3, NEW m4, NEW m5,
           m1 = Instruction(b, w, code[1], m), m2 = Instruction(b, w, code[2], m1),
           m3 = Instruction(b, w, code[3], m2), m4 = Instruction(b, w, code[4], m3),
           m5 = Instruction(b, w, code[5], m4)
    PROVE  /\ Len(code) = 0 => Execute(b, w, code, m) = m
           /\ Len(code) = 1 => Execute(b, w, code, m) = m1
           /\ Len(code) = 2 => Execute(b, w, code, m) = m2
           /\ Len(code) = 3 => Execute(b, w, code, m) = m3
           /\ Len(code) = 4 => Execute(b, w, code, m) = m4
           /\ Len(code) = 5 => Execute(b, w, code, m) = m5
<1> DEFINE n == Len(code)
           I(i, z) == Instruction(b, w, code[i], z)
           IsRun(f) == f = [i \in 0..n |-> IF i = 0 THEN m ELSE I(i, f[i - 1])]
           run == CHOOSE f : IsRun(f)
           g == [i \in 0..n |->
                    IF i = 0 THEN m ELSE IF i = 1 THEN m1 ELSE IF i = 2 THEN m2
                    ELSE IF i = 3 THEN m3 ELSE IF i = 4 THEN m4 ELSE m5]
<1>1. Execute(b, w, code, m) = run[n]
  BY Zenon DEF Execute
<1>2. m1 = I(1, m) /\ m2 = I(2, m1) /\ m3 = I(3, m2) /\ m4 = I(4, m3) /\ m5 = I(5, m4)
  OBVIOUS
<1> HIDE DEF I
<1>3. IsRun(g)
  BY <1>2
<1>4. IsRun(run)
  BY <1>3, Zenon
<1> HIDE DEF run
<1>5. /\ run[0] = m
      /\ n >= 1 => run[1] = I(1, run[0])
      /\ n >= 2 => run[2] = I(2, run[1])
      /\ n >= 3 => run[3] = I(3, run[2])
      /\ n >= 4 => run[4] = I(4, run[3])
      /\ n >= 5 => run[5] = I(5, run[4])
  BY <1>4
<1>6. n = 0 => run[n] = m
  BY <1>2, <1>5
<1>7. n = 1 => run[n] = m1
  BY <1>2, <1>5
<1>8. n = 2 => run[n] = m2
  BY <1>2, <1>5
<1>9. n = 3 => run[n] = m3
  BY <1>2, <1>5
<1>10. n = 4 => run[n] = m4
  BY <1>2, <1>5
<1>11. n = 5 => run[n] = m5
  BY <1>2, <1>5
<1> QED
  BY <1>1, <1>6, <1>7, <1>8, <1>9, <1>10, <1>11, Zenon

LEMMA Execute0 ==
    ASSUME NEW b, NEW w, NEW code, Len(code) = 0, NEW m
    PROVE  Execute(b, w, code, m) = m
  BY ExecuteShort

LEMMA Execute1 ==
    ASSUME NEW b, NEW w, NEW code, Len(code) = 1, NEW m, NEW m1,
           Instruction(b, w, code[1], m) = m1
    PROVE  Execute(b, w, code, m) = m1
  BY ExecuteShort

LEMMA Execute2 ==
    ASSUME NEW b, NEW w, NEW code, Len(code) = 2, NEW m, NEW m1, NEW m2,
           Instruction(b, w, code[1], m) = m1,
           Instruction(b, w, code[2], m1) = m2
    PROVE  Execute(b, w, code, m) = m2
  BY ExecuteShort

LEMMA Execute3 ==
    ASSUME NEW b, NEW w, NEW code, Len(code) = 3, NEW m, NEW m1, NEW m2, NEW m3,
           Instruction(b, w, code[1], m) = m1,
           Instruction(b, w, code[2], m1) = m2,
           Instruction(b, w, code[3], m2) = m3
    PROVE  Execute(b, w, code, m) = m3
  BY ExecuteShort

LEMMA Execute4 ==
    ASSUME NEW b, NEW w, NEW code, Len(code) = 4, NEW m, NEW m1, NEW m2, NEW m3, NEW m4,
           Instruction(b, w, code[1], m) = m1,
           Instruction(b, w, code[2], m1) = m2,
           Instruction(b, w, code[3], m2) = m3,
           Instruction(b, w, code[4], m3) = m4
    PROVE  Execute(b, w, code, m) = m4
  BY ExecuteShort

LEMMA Execute5 ==
    ASSUME NEW b, NEW w, NEW code, Len(code) = 5, NEW m, NEW m1, NEW m2, NEW m3, NEW m4, NEW m5,
           Instruction(b, w, code[1], m) = m1,
           Instruction(b, w, code[2], m1) = m2,
           Instruction(b, w, code[3], m2) = m3,
           Instruction(b, w, code[4], m3) = m4,
           Instruction(b, w, code[5], m4) = m5
    PROVE  Execute(b, w, code, m) = m5
  BY ExecuteShort

LEMMA ClosingYZ ==
    ASSUME NEW fl, "Y" \in fl /\ "Z" \in fl, NEW t, NEW d, NEW s, NEW c, NEW r, NEW p, NEW h
    PROVE  Closing(fl, Machine(t, d, s, c, r, p, h)) = Machine(c[d], d - 1, s, c, r, p, h)
<1> DEFINE m0 == Machine(t, d, s, c, r, p, h)
           m1 == Machine(c[d], d, s, c, r, p, h)
           m2 == Machine(c[d], d - 1, s, c, r, p, h)
<1>1. Chore("Y", m0) = Machine(c[d], d, s, c, r, p, h)
  BY ChoreLoad
<1>2. Chore("Z", m1) = Machine(c[d], d - 1, s, c, r, p, h)
  BY ChoreDown
<1>3. ChoreIf("Y", fl, m0) = m1
  BY <1>1, Zenon DEF ChoreIf
<1>4. ChoreIf("Z", fl, m1) = m2
  BY <1>2, Zenon DEF ChoreIf
<1> QED
  BY <1>3, <1>4, Zenon DEF Closing

LEMMA ClosingZ ==
    ASSUME NEW fl, "Y" \notin fl /\ "Z" \in fl, NEW t, NEW d, NEW s, NEW c, NEW r, NEW p, NEW h
    PROVE  Closing(fl, Machine(t, d, s, c, r, p, h)) = Machine(t, d - 1, s, c, r, p, h)
<1> DEFINE m0 == Machine(t, d, s, c, r, p, h)
           m1 == Machine(t, d, s, c, r, p, h)
           m2 == Machine(t, d - 1, s, c, r, p, h)
<1>1. Chore("Y", m0) = Machine(c[d], d, s, c, r, p, h)
  BY ChoreLoad
<1>2. Chore("Z", m1) = Machine(t, d - 1, s, c, r, p, h)
  BY ChoreDown
<1>3. ChoreIf("Y", fl, m0) = m1
  BY <1>1, Zenon DEF ChoreIf
<1>4. ChoreIf("Z", fl, m1) = m2
  BY <1>2, Zenon DEF ChoreIf
<1> QED
  BY <1>3, <1>4, Zenon DEF Closing

LEMMA ClosingNone ==
    ASSUME NEW fl, "Y" \notin fl /\ "Z" \notin fl, NEW t, NEW d, NEW s, NEW c, NEW r, NEW p, NEW h
    PROVE  Closing(fl, Machine(t, d, s, c, r, p, h)) = Machine(t, d, s, c, r, p, h)
<1> DEFINE m0 == Machine(t, d, s, c, r, p, h)
           m1 == Machine(t, d, s, c, r, p, h)
           m2 == Machine(t, d, s, c, r, p, h)
<1>1. Chore("Y", m0) = Machine(c[d], d, s, c, r, p, h)
  BY ChoreLoad
<1>2. Chore("Z", m1) = Machine(t, d - 1, s, c, r, p, h)
  BY ChoreDown
<1>3. ChoreIf("Y", fl, m0) = m1
  BY <1>1, Zenon DEF ChoreIf
<1>4. ChoreIf("Z", fl, m1) = m2
  BY <1>2, Zenon DEF ChoreIf
<1> QED
  BY <1>3, <1>4, Zenon DEF Closing

-----------------------------------------------------------------------------
(* The body of every word between its own chores, from any machine: what     *)
(* Execute and Closing leave, instruction by instruction.                    *)

(* The stack memory with v in cell i.                                      *)
Kept(c, i, v) == [c EXCEPT ![i] = v]

LEMMA Kept_B ==
    ASSUME NEW b, NEW w, NEW t, NEW d, NEW s, NEW c, NEW r, NEW p, NEW h
    PROVE  Instruction(b, w, "B", Machine(t, d, s, c, r, p, h)) =
                Machine(t, d, s, Kept(c, d, t), r, p, h)
  BY Does_B DEF Kept

LEMMA Kept_put ==
    ASSUME NEW b, NEW w, NEW t, NEW d, NEW s, NEW c, NEW r, NEW p, NEW h
    PROVE  Instruction(b, w, "put", Machine(t, d, s, c, r, p, h)) =
                Machine(t, d, s, Kept(c, d, s), r, p, h)
  BY Does_put DEF Kept

LEMMA Kept_put1 ==
    ASSUME NEW b, NEW w, NEW t, NEW d, NEW s, NEW c, NEW r, NEW p, NEW h
    PROVE  Instruction(b, w, "put1", Machine(t, d, s, c, r, p, h)) =
                Machine(t, d, s, Kept(c, d - 1, s), r, p, h)
  BY Does_put1 DEF Kept

LEMMA Kept_store1 ==
    ASSUME NEW b, NEW w, NEW t, NEW d, NEW s, NEW c, NEW r, NEW p, NEW h
    PROVE  Instruction(b, w, "store1", Machine(t, d, s, c, r, p, h)) =
                Machine(t, d, s, Kept(c, d - 1, t), r, p, h)
  BY Does_store1 DEF Kept

LEMMA DupEffect ==
    ASSUME NEW b, NEW w, NEW fl, NEW code,
           "Y" \notin fl /\ "Z" \notin fl,
           Len(code) = 0,
           NEW t, NEW d \in Int, NEW s, NEW c, NEW r, NEW p, NEW h
    PROVE  Closing(fl, Execute(b, w, code, Machine(t, d, s, c, r, p, h))) =
                Machine(t, d, s, c, r, p, h)
<1> DEFINE m0 == Machine(t, d, s, c, r, p, h)
<1>e. Execute(b, w, code, m0) = m0
  <2> HIDE DEF m0
  <2> QED
    BY Execute0
<1> QED
  BY <1>e, ClosingNone

LEMMA BinaryEffect ==
    ASSUME NEW b, NEW w, NEW fl, NEW code,
           "Y" \notin fl /\ "Z" \in fl,
           Len(code) = 1 /\ code[1] = "value2",
           NEW t, NEW d \in Int, NEW s, NEW c, NEW r, NEW p, NEW h,
           NEW v, v = NativeValue(b, w, Machine(t, d, s, c, r, p, h))
    PROVE  Closing(fl, Execute(b, w, code, Machine(t, d, s, c, r, p, h))) =
                Machine(v, d - 1, s, c, r, p, h)
<1> DEFINE m0 == Machine(t, d, s, c, r, p, h)
           m1 == Machine(v, d, s, c, r, p, h)
<1>1. Instruction(b, w, "value2", m0) = m1
  BY Does_value2
<1>e. Execute(b, w, code, m0) = m1
  <2> HIDE DEF m0, m1
  <2> QED
    BY Execute1, <1>1, Zenon
<1> QED
  BY <1>e, ClosingZ

LEMMA UnaryEffect ==
    ASSUME NEW b, NEW w, NEW fl, NEW code,
           "Y" \notin fl /\ "Z" \notin fl,
           Len(code) = 1 /\ code[1] = "value1",
           NEW t, NEW d \in Int, NEW s, NEW c, NEW r, NEW p, NEW h,
           NEW v, v = NativeValue(b, w, Machine(t, d, s, c, r, p, h))
    PROVE  Closing(fl, Execute(b, w, code, Machine(t, d, s, c, r, p, h))) =
                Machine(v, d, s, c, r, p, h)
<1> DEFINE m0 == Machine(t, d, s, c, r, p, h)
           m1 == Machine(v, d, s, c, r, p, h)
<1>1. Instruction(b, w, "value1", m0) = m1
  BY Does_value1
<1>e. Execute(b, w, code, m0) = m1
  <2> HIDE DEF m0, m1
  <2> QED
    BY Execute1, <1>1, Zenon
<1> QED
  BY <1>e, ClosingNone

LEMMA OverEffect ==
    ASSUME NEW b, NEW w, NEW fl, NEW code,
           "Y" \notin fl /\ "Z" \notin fl,
           Len(code) = 1 /\ code[1] = "load1",
           NEW t, NEW d \in Int, NEW s, NEW c, NEW r, NEW p, NEW h
    PROVE  Closing(fl, Execute(b, w, code, Machine(t, d, s, c, r, p, h))) =
                Machine(c[d - 1], d, s, c, r, p, h)
<1> DEFINE m0 == Machine(t, d, s, c, r, p, h)
           m1 == Machine(c[d - 1], d, s, c, r, p, h)
<1>1. Instruction(b, w, "load1", m0) = m1
  BY Does_load1
<1>e. Execute(b, w, code, m0) = m1
  <2> HIDE DEF m0, m1
  <2> QED
    BY Execute1, <1>1, Zenon
<1> QED
  BY <1>e, ClosingNone

LEMMA DropEffect ==
    ASSUME NEW b, NEW w, NEW fl, NEW code,
           "Y" \in fl /\ "Z" \in fl,
           Len(code) = 0,
           NEW t, NEW d \in Int, NEW s, NEW c, NEW r, NEW p, NEW h
    PROVE  Closing(fl, Execute(b, w, code, Machine(t, d, s, c, r, p, h))) =
                Machine(c[d], d - 1, s, c, r, p, h)
<1> DEFINE m0 == Machine(t, d, s, c, r, p, h)
<1>e. Execute(b, w, code, m0) = m0
  <2> HIDE DEF m0
  <2> QED
    BY Execute0
<1> QED
  BY <1>e, ClosingYZ

LEMMA SwapEffect ==
    ASSUME NEW b, NEW w, NEW fl, NEW code,
           "Y" \notin fl /\ "Z" \notin fl,
           Len(code) = 3 /\ code[1] = "keep" /\ code[2] = "B" /\ code[3] = "move",
           NEW t, NEW d \in Int, NEW s, NEW c, NEW r, NEW p, NEW h
    PROVE  Closing(fl, Execute(b, w, code, Machine(t, d, s, c, r, p, h))) =
                Machine(c[d], d, c[d], Kept(c, d, t), r, p, h)
<1> DEFINE m0 == Machine(t, d, s, c, r, p, h)
           m1 == Machine(t, d, c[d], c, r, p, h)
           m2 == Machine(t, d, c[d], Kept(c, d, t), r, p, h)
           m3 == Machine(c[d], d, c[d], Kept(c, d, t), r, p, h)
<1>1. Instruction(b, w, "keep", m0) = m1
  BY Does_keep
<1>2. Instruction(b, w, "B", m1) = m2
  BY Kept_B
<1>3. Instruction(b, w, "move", m2) = m3
  BY Does_move
<1>e. Execute(b, w, code, m0) = m3
  <2> HIDE DEF m0, m1, m2, m3
  <2> QED
    BY Execute3, <1>1, <1>2, <1>3, Zenon
<1> QED
  BY <1>e, ClosingNone

LEMMA AllotEffect ==
    ASSUME NEW b, NEW w, NEW fl, NEW code,
           "Y" \in fl /\ "Z" \in fl,
           Len(code) = 1 /\ code[1] = "allot",
           NEW t, NEW d \in Int, NEW s, NEW c, NEW r, NEW p, NEW h
    PROVE  Closing(fl, Execute(b, w, code, Machine(t, d, s, c, r, p, h))) =
                Machine(c[d], d - 1, s, c, r, p + t, h)
<1> DEFINE m0 == Machine(t, d, s, c, r, p, h)
           m1 == Machine(t, d, s, c, r, p + t, h)
<1>1. Instruction(b, w, "allot", m0) = m1
  BY Does_allot
<1>e. Execute(b, w, code, m0) = m1
  <2> HIDE DEF m0, m1
  <2> QED
    BY Execute1, <1>1, Zenon
<1> QED
  BY <1>e, ClosingYZ

LEMMA TopEffect ==
    ASSUME NEW b, NEW w, NEW fl, NEW code,
           "Y" \notin fl /\ "Z" \notin fl,
           Len(code) = 1 /\ code[1] = "rtop",
           NEW t, NEW d \in Int, NEW s, NEW c, NEW r, NEW p, NEW h
    PROVE  Closing(fl, Execute(b, w, code, Machine(t, d, s, c, r, p, h))) =
                Machine(Nth(r, 1)[2], d, s, c, r, p, h)
<1> DEFINE m0 == Machine(t, d, s, c, r, p, h)
           m1 == Machine(Nth(r, 1)[2], d, s, c, r, p, h)
<1>1. Instruction(b, w, "rtop", m0) = m1
  BY Does_rtop
<1>e. Execute(b, w, code, m0) = m1
  <2> HIDE DEF m0, m1
  <2> QED
    BY Execute1, <1>1, Zenon
<1> QED
  BY <1>e, ClosingNone

LEMMA ThirdEffect ==
    ASSUME NEW b, NEW w, NEW fl, NEW code,
           "Y" \notin fl /\ "Z" \notin fl,
           Len(code) = 1 /\ code[1] = "rthird",
           NEW t, NEW d \in Int, NEW s, NEW c, NEW r, NEW p, NEW h
    PROVE  Closing(fl, Execute(b, w, code, Machine(t, d, s, c, r, p, h))) =
                Machine(Nth(r, 3)[2], d, s, c, r, p, h)
<1> DEFINE m0 == Machine(t, d, s, c, r, p, h)
           m1 == Machine(Nth(r, 3)[2], d, s, c, r, p, h)
<1>1. Instruction(b, w, "rthird", m0) = m1
  BY Does_rthird
<1>e. Execute(b, w, code, m0) = m1
  <2> HIDE DEF m0, m1
  <2> QED
    BY Execute1, <1>1, Zenon
<1> QED
  BY <1>e, ClosingNone

LEMMA RotEffect ==
    ASSUME NEW b, NEW w, NEW fl, NEW code,
           "Y" \notin fl /\ "Z" \notin fl,
           Len(code) = 4 /\ code[1] = "keep" /\ code[2] = "B" /\ code[3] = "load1" /\ code[4] = "put1",
           NEW t, NEW d \in Int, NEW s, NEW c, NEW r, NEW p, NEW h
    PROVE  Closing(fl, Execute(b, w, code, Machine(t, d, s, c, r, p, h))) =
                Machine(Kept(c, d, t)[d - 1], d, c[d], Kept(Kept(c, d, t), d - 1, c[d]), r, p, h)
<1> DEFINE m0 == Machine(t, d, s, c, r, p, h)
           m1 == Machine(t, d, c[d], c, r, p, h)
           m2 == Machine(t, d, c[d], Kept(c, d, t), r, p, h)
           m3 == Machine(Kept(c, d, t)[d - 1], d, c[d], Kept(c, d, t), r, p, h)
           m4 == Machine(Kept(c, d, t)[d - 1], d, c[d], Kept(Kept(c, d, t), d - 1, c[d]), r, p, h)
<1>1. Instruction(b, w, "keep", m0) = m1
  BY Does_keep
<1>2. Instruction(b, w, "B", m1) = m2
  BY Kept_B
<1>3. Instruction(b, w, "load1", m2) = m3
  BY Does_load1
<1>4. Instruction(b, w, "put1", m3) = m4
  BY Kept_put1
<1>e. Execute(b, w, code, m0) = m4
  <2> HIDE DEF m0, m1, m2, m3, m4
  <2> QED
    BY Execute4, <1>1, <1>2, <1>3, <1>4, Zenon
<1> QED
  BY <1>e, ClosingNone

LEMMA PickEffect ==
    ASSUME NEW b, NEW w, NEW fl, NEW code,
           "Y" \notin fl /\ "Z" \notin fl,
           Len(code) = 1 /\ code[1] = "pick",
           NEW t, NEW d \in Int, NEW s, NEW c, NEW r, NEW p, NEW h
    PROVE  Closing(fl, Execute(b, w, code, Machine(t, d, s, c, r, p, h))) =
                Machine(c[d - t], d, s, c, r, p, h)
<1> DEFINE m0 == Machine(t, d, s, c, r, p, h)
           m1 == Machine(c[d - t], d, s, c, r, p, h)
<1>1. Instruction(b, w, "pick", m0) = m1
  BY Does_pick
<1>e. Execute(b, w, code, m0) = m1
  <2> HIDE DEF m0, m1
  <2> QED
    BY Execute1, <1>1, Zenon
<1> QED
  BY <1>e, ClosingNone

LEMMA DepthEffect ==
    ASSUME NEW b, NEW w, NEW fl, NEW code,
           "Y" \notin fl /\ "Z" \notin fl,
           Len(code) = 1 /\ code[1] = "depth",
           NEW t, NEW d \in Int, NEW s, NEW c, NEW r, NEW p, NEW h
    PROVE  Closing(fl, Execute(b, w, code, Machine(t, d, s, c, r, p, h))) =
                Machine(d, d, s, c, r, p, h)
<1> DEFINE m0 == Machine(t, d, s, c, r, p, h)
           m1 == Machine(d, d, s, c, r, p, h)
<1>1. Instruction(b, w, "depth", m0) = m1
  BY Does_depth
<1>e. Execute(b, w, code, m0) = m1
  <2> HIDE DEF m0, m1
  <2> QED
    BY Execute1, <1>1, Zenon
<1> QED
  BY <1>e, ClosingNone

LEMMA PokeEffect ==
    ASSUME NEW b, NEW w, NEW fl, NEW code,
           "Y" \in fl /\ "Z" \in fl,
           Len(code) = 3 /\ code[1] = "keep" /\ code[2] = "poke" /\ code[3] = "Z",
           NEW t, NEW d \in Int, NEW s, NEW c, NEW r, NEW p, NEW h
    PROVE  Closing(fl, Execute(b, w, code, Machine(t, d, s, c, r, p, h))) =
                Machine(c[d - 1], d - 2, c[d], c, r, p, Store(h, t, UnitsOf(w), IF w = "+!" THEN Load(h, t, 4) + c[d] ELSE c[d]))
<1> DEFINE m0 == Machine(t, d, s, c, r, p, h)
           m1 == Machine(t, d, c[d], c, r, p, h)
           m2 == Machine(t, d, c[d], c, r, p, Store(h, t, UnitsOf(w), IF w = "+!" THEN Load(h, t, 4) + c[d] ELSE c[d]))
           m3 == Machine(t, d - 1, c[d], c, r, p, Store(h, t, UnitsOf(w), IF w = "+!" THEN Load(h, t, 4) + c[d] ELSE c[d]))
<1>1. Instruction(b, w, "keep", m0) = m1
  BY Does_keep
<1>2. Instruction(b, w, "poke", m1) = m2
  BY Does_poke
<1>3. Instruction(b, w, "Z", m2) = m3
  BY Does_Z
<1>e. Execute(b, w, code, m0) = m3
  <2> HIDE DEF m0, m1, m2, m3
  <2> QED
    BY Execute3, <1>1, <1>2, <1>3, Zenon
<1> QED
  BY <1>e, ClosingYZ

LEMMA CommaEffect ==
    ASSUME NEW b, NEW w, NEW fl, NEW code,
           "Y" \in fl /\ "Z" \in fl,
           Len(code) = 1 /\ code[1] = "comma",
           NEW t, NEW d \in Int, NEW s, NEW c, NEW r, NEW p, NEW h
    PROVE  Closing(fl, Execute(b, w, code, Machine(t, d, s, c, r, p, h))) =
                Machine(c[d], d - 1, s, c, r, p + UnitsOf(w), Store(h, p, UnitsOf(w), t))
<1> DEFINE m0 == Machine(t, d, s, c, r, p, h)
           m1 == Machine(t, d, s, c, r, p + UnitsOf(w), Store(h, p, UnitsOf(w), t))
<1>1. Instruction(b, w, "comma", m0) = m1
  BY Does_comma
<1>e. Execute(b, w, code, m0) = m1
  <2> HIDE DEF m0, m1
  <2> QED
    BY Execute1, <1>1, Zenon
<1> QED
  BY <1>e, ClosingYZ

LEMMA HereEffect ==
    ASSUME NEW b, NEW w, NEW fl, NEW code,
           "Y" \notin fl /\ "Z" \notin fl,
           Len(code) = 1 /\ code[1] = "here",
           NEW t, NEW d \in Int, NEW s, NEW c, NEW r, NEW p, NEW h
    PROVE  Closing(fl, Execute(b, w, code, Machine(t, d, s, c, r, p, h))) =
                Machine(p, d, s, c, r, p, h)
<1> DEFINE m0 == Machine(t, d, s, c, r, p, h)
           m1 == Machine(p, d, s, c, r, p, h)
<1>1. Instruction(b, w, "here", m0) = m1
  BY Does_here
<1>e. Execute(b, w, code, m0) = m1
  <2> HIDE DEF m0, m1
  <2> QED
    BY Execute1, <1>1, Zenon
<1> QED
  BY <1>e, ClosingNone

LEMMA Drop2Effect ==
    ASSUME NEW b, NEW w, NEW fl, NEW code,
           "Y" \in fl /\ "Z" \in fl,
           Len(code) = 1 /\ code[1] = "Z",
           NEW t, NEW d \in Int, NEW s, NEW c, NEW r, NEW p, NEW h
    PROVE  Closing(fl, Execute(b, w, code, Machine(t, d, s, c, r, p, h))) =
                Machine(c[d - 1], d - 2, s, c, r, p, h)
<1> DEFINE m0 == Machine(t, d, s, c, r, p, h)
           m1 == Machine(t, d - 1, s, c, r, p, h)
<1>1. Instruction(b, w, "Z", m0) = m1
  BY Does_Z
<1>e. Execute(b, w, code, m0) = m1
  <2> HIDE DEF m0, m1
  <2> QED
    BY Execute1, <1>1, Zenon
<1> QED
  BY <1>e, ClosingYZ

LEMMA TuckEffect ==
    ASSUME NEW b, NEW w, NEW fl, NEW code,
           "Y" \notin fl /\ "Z" \notin fl,
           Len(code) = 3 /\ code[1] = "keep1" /\ code[2] = "put" /\ code[3] = "store1",
           NEW t, NEW d \in Int, NEW s, NEW c, NEW r, NEW p, NEW h
    PROVE  Closing(fl, Execute(b, w, code, Machine(t, d, s, c, r, p, h))) =
                Machine(t, d, c[d - 1], Kept(Kept(c, d, c[d - 1]), d - 1, t), r, p, h)
<1> DEFINE m0 == Machine(t, d, s, c, r, p, h)
           m1 == Machine(t, d, c[d - 1], c, r, p, h)
           m2 == Machine(t, d, c[d - 1], Kept(c, d, c[d - 1]), r, p, h)
           m3 == Machine(t, d, c[d - 1], Kept(Kept(c, d, c[d - 1]), d - 1, t), r, p, h)
<1>1. Instruction(b, w, "keep1", m0) = m1
  BY Does_keep1
<1>2. Instruction(b, w, "put", m1) = m2
  BY Kept_put
<1>3. Instruction(b, w, "store1", m2) = m3
  BY Kept_store1
<1>e. Execute(b, w, code, m0) = m3
  <2> HIDE DEF m0, m1, m2, m3
  <2> QED
    BY Execute3, <1>1, <1>2, <1>3, Zenon
<1> QED
  BY <1>e, ClosingNone

LEMMA AlignEffect ==
    ASSUME NEW b, NEW w, NEW fl, NEW code,
           "Y" \notin fl /\ "Z" \notin fl,
           Len(code) = 1 /\ code[1] = "align",
           NEW t, NEW d \in Int, NEW s, NEW c, NEW r, NEW p, NEW h
    PROVE  Closing(fl, Execute(b, w, code, Machine(t, d, s, c, r, p, h))) =
                Machine(t, d, s, c, r, Align(p), h)
<1> DEFINE m0 == Machine(t, d, s, c, r, p, h)
           m1 == Machine(t, d, s, c, r, Align(p), h)
<1>1. Instruction(b, w, "align", m0) = m1
  BY Does_align
<1>e. Execute(b, w, code, m0) = m1
  <2> HIDE DEF m0, m1
  <2> QED
    BY Execute1, <1>1, Zenon
<1> QED
  BY <1>e, ClosingNone

LEMMA DupIfEffect ==
    ASSUME NEW b, NEW w, NEW fl, NEW code,
           "Y" \notin fl /\ "Z" \notin fl,
           Len(code) = 1 /\ code[1] = "unless0",
           NEW t, NEW d \in Int, NEW s, NEW c, NEW r, NEW p, NEW h
    PROVE  Closing(fl, Execute(b, w, code, Machine(t, d, s, c, r, p, h))) =
                Machine(t, IF t = 0 THEN d - 1 ELSE d, s, c, r, p, h)
<1> DEFINE m0 == Machine(t, d, s, c, r, p, h)
           m1 == Machine(t, IF t = 0 THEN d - 1 ELSE d, s, c, r, p, h)
<1>1. Instruction(b, w, "unless0", m0) = m1
  BY Does_unless0
<1>e. Execute(b, w, code, m0) = m1
  <2> HIDE DEF m0, m1
  <2> QED
    BY Execute1, <1>1, Zenon
<1> QED
  BY <1>e, ClosingNone

LEMMA ToREffect ==
    ASSUME NEW b, NEW w, NEW fl, NEW code,
           "Y" \in fl /\ "Z" \in fl,
           Len(code) = 1 /\ code[1] = "rpush",
           NEW t, NEW d \in Int, NEW s, NEW c, NEW r, NEW p, NEW h
    PROVE  Closing(fl, Execute(b, w, code, Machine(t, d, s, c, r, p, h))) =
                Machine(c[d], d - 1, s, c, Append(r, <<"cell", t>>), p, h)
<1> DEFINE m0 == Machine(t, d, s, c, r, p, h)
           m1 == Machine(t, d, s, c, Append(r, <<"cell", t>>), p, h)
<1>1. Instruction(b, w, "rpush", m0) = m1
  BY Does_rpush
<1>e. Execute(b, w, code, m0) = m1
  <2> HIDE DEF m0, m1
  <2> QED
    BY Execute1, <1>1, Zenon
<1> QED
  BY <1>e, ClosingYZ

LEMMA FromREffect ==
    ASSUME NEW b, NEW w, NEW fl, NEW code,
           "Y" \notin fl /\ "Z" \notin fl,
           Len(code) = 1 /\ code[1] = "rpop",
           NEW t, NEW d \in Int, NEW s, NEW c, NEW r, NEW p, NEW h
    PROVE  Closing(fl, Execute(b, w, code, Machine(t, d, s, c, r, p, h))) =
                Machine(Nth(r, 1)[2], d, s, c, Below(r, 1), p, h)
<1> DEFINE m0 == Machine(t, d, s, c, r, p, h)
           m1 == Machine(Nth(r, 1)[2], d, s, c, Below(r, 1), p, h)
<1>1. Instruction(b, w, "rpop", m0) = m1
  BY Does_rpop
<1>e. Execute(b, w, code, m0) = m1
  <2> HIDE DEF m0, m1
  <2> QED
    BY Execute1, <1>1, Zenon
<1> QED
  BY <1>e, ClosingNone

LEMMA ToR2Effect ==
    ASSUME NEW b, NEW w, NEW fl, NEW code,
           "Y" \in fl /\ "Z" \in fl,
           Len(code) = 2 /\ code[1] = "rpush2" /\ code[2] = "Z",
           NEW t, NEW d \in Int, NEW s, NEW c, NEW r, NEW p, NEW h
    PROVE  Closing(fl, Execute(b, w, code, Machine(t, d, s, c, r, p, h))) =
                Machine(c[d - 1], d - 2, s, c, r \o <<<<"cell", c[d]>>, <<"cell", t>>>>, p, h)
<1> DEFINE m0 == Machine(t, d, s, c, r, p, h)
           m1 == Machine(t, d, s, c, r \o <<<<"cell", c[d]>>, <<"cell", t>>>>, p, h)
           m2 == Machine(t, d - 1, s, c, r \o <<<<"cell", c[d]>>, <<"cell", t>>>>, p, h)
<1>1. Instruction(b, w, "rpush2", m0) = m1
  BY Does_rpush2
<1>2. Instruction(b, w, "Z", m1) = m2
  BY Does_Z
<1>e. Execute(b, w, code, m0) = m2
  <2> HIDE DEF m0, m1, m2
  <2> QED
    BY Execute2, <1>1, <1>2, Zenon
<1> QED
  BY <1>e, ClosingYZ

LEMMA FromR2Effect ==
    ASSUME NEW b, NEW w, NEW fl, NEW code,
           "Y" \notin fl /\ "Z" \notin fl,
           Len(code) = 3 /\ code[1] = "A" /\ code[2] = "rpop" /\ code[3] = "rpopcell",
           NEW t, NEW d \in Int, NEW s, NEW c, NEW r, NEW p, NEW h
    PROVE  Closing(fl, Execute(b, w, code, Machine(t, d, s, c, r, p, h))) =
                Machine(Nth(r, 1)[2], d + 1, s, Kept(c, d + 1, Nth(Below(r, 1), 1)[2]), Below(Below(r, 1), 1), p, h)
<1> DEFINE m0 == Machine(t, d, s, c, r, p, h)
           m1 == Machine(t, d + 1, s, c, r, p, h)
           m2 == Machine(Nth(r, 1)[2], d + 1, s, c, Below(r, 1), p, h)
           m3 == Machine(Nth(r, 1)[2], d + 1, s, Kept(c, d + 1, Nth(Below(r, 1), 1)[2]), Below(Below(r, 1), 1), p, h)
<1>1. Instruction(b, w, "A", m0) = m1
  BY Does_A
<1>2. Instruction(b, w, "rpop", m1) = m2
  BY Does_rpop
<1>3. Instruction(b, w, "rpopcell", m2) = m3
  BY Does_rpopcell DEF Kept
<1>e. Execute(b, w, code, m0) = m3
  <2> HIDE DEF m0, m1, m2, m3
  <2> QED
    BY Execute3, <1>1, <1>2, <1>3, Zenon
<1> QED
  BY <1>e, ClosingNone

LEMMA Dup2Effect ==
    ASSUME NEW b, NEW w, NEW fl, NEW code,
           "Y" \notin fl /\ "Z" \notin fl,
           Len(code) = 3 /\ code[1] = "keep1" /\ code[2] = "A" /\ code[3] = "put",
           NEW t, NEW d \in Int, NEW s, NEW c, NEW r, NEW p, NEW h
    PROVE  Closing(fl, Execute(b, w, code, Machine(t, d, s, c, r, p, h))) =
                Machine(t, d + 1, c[d - 1], Kept(c, d + 1, c[d - 1]), r, p, h)
<1> DEFINE m0 == Machine(t, d, s, c, r, p, h)
           m1 == Machine(t, d, c[d - 1], c, r, p, h)
           m2 == Machine(t, d + 1, c[d - 1], c, r, p, h)
           m3 == Machine(t, d + 1, c[d - 1], Kept(c, d + 1, c[d - 1]), r, p, h)
<1>1. Instruction(b, w, "keep1", m0) = m1
  BY Does_keep1
<1>2. Instruction(b, w, "A", m1) = m2
  BY Does_A
<1>3. Instruction(b, w, "put", m2) = m3
  BY Kept_put
<1>e. Execute(b, w, code, m0) = m3
  <2> HIDE DEF m0, m1, m2, m3
  <2> QED
    BY Execute3, <1>1, <1>2, <1>3, Zenon
<1> QED
  BY <1>e, ClosingNone

LEMMA NipEffect ==
    ASSUME NEW b, NEW w, NEW fl, NEW code,
           "Y" \notin fl /\ "Z" \in fl,
           Len(code) = 0,
           NEW t, NEW d \in Int, NEW s, NEW c, NEW r, NEW p, NEW h
    PROVE  Closing(fl, Execute(b, w, code, Machine(t, d, s, c, r, p, h))) =
                Machine(t, d - 1, s, c, r, p, h)
<1> DEFINE m0 == Machine(t, d, s, c, r, p, h)
<1>e. Execute(b, w, code, m0) = m0
  <2> HIDE DEF m0
  <2> QED
    BY Execute0
<1> QED
  BY <1>e, ClosingZ

LEMMA FromR2EspEffect ==
    ASSUME NEW b, NEW w, NEW fl, NEW code,
           "Y" \notin fl /\ "Z" \notin fl,
           Len(code) = 5 /\ code[1] = "A" /\ code[2] = "rsecond" /\ code[3] = "B" /\ code[4] = "rtop" /\ code[5] = "rdrop2",
           NEW t, NEW d \in Int, NEW s, NEW c, NEW r, NEW p, NEW h
    PROVE  Closing(fl, Execute(b, w, code, Machine(t, d, s, c, r, p, h))) =
                Machine(Nth(r, 1)[2], d + 1, s, Kept(c, d + 1, Nth(r, 2)[2]), Below(r, 2), p, h)
<1> DEFINE m0 == Machine(t, d, s, c, r, p, h)
           m1 == Machine(t, d + 1, s, c, r, p, h)
           m2 == Machine(Nth(r, 2)[2], d + 1, s, c, r, p, h)
           m3 == Machine(Nth(r, 2)[2], d + 1, s, Kept(c, d + 1, Nth(r, 2)[2]), r, p, h)
           m4 == Machine(Nth(r, 1)[2], d + 1, s, Kept(c, d + 1, Nth(r, 2)[2]), r, p, h)
           m5 == Machine(Nth(r, 1)[2], d + 1, s, Kept(c, d + 1, Nth(r, 2)[2]), Below(r, 2), p, h)
<1>1. Instruction(b, w, "A", m0) = m1
  BY Does_A
<1>2. Instruction(b, w, "rsecond", m1) = m2
  BY Does_rsecond
<1>3. Instruction(b, w, "B", m2) = m3
  BY Kept_B
<1>4. Instruction(b, w, "rtop", m3) = m4
  BY Does_rtop
<1>5. Instruction(b, w, "rdrop2", m4) = m5
  BY Does_rdrop2
<1>e. Execute(b, w, code, m0) = m5
  <2> HIDE DEF m0, m1, m2, m3, m4, m5
  <2> QED
    BY Execute5, <1>1, <1>2, <1>3, <1>4, <1>5, Zenon
<1> QED
  BY <1>e, ClosingNone

-----------------------------------------------------------------------------
(* A machine within its memory, the state that a word sees of it, and the    *)
(* stacks read off it.                                                       *)

Entries == {"cell", "base", "return"} \X Int
CellIndexes == 0..(MaxCells - 1)

(* A machine within its memory.                                            *)
IsMachine(m) ==
    /\ m = Machine(m.top, m.depth, m.scratch, m.cells, m.rs, m.dp, m.heap)
    /\ m.top \in Cell /\ m.depth \in -1..(MaxCells - 1)
    /\ m.cells \in [CellIndexes -> Cell]
    /\ m.rs \in Seq(Entries)
    /\ m.dp \in Bottom..Limit /\ m.heap \in Heaps

(* From behind cell own a return stack holds the running word's cells.     *)
OwnCells(rs, own) ==
    own \in 0..Len(rs) /\ \A j \in (own + 1)..Len(rs) : rs[j] \in {"cell"} \X Cell
Returns(rs, own) == CellsOf(rs, own + 1, Len(rs))
StateOf(m, own) == [ds |-> InRegisters(m), rs |-> Returns(m.rs, own), dp |-> m.dp, heap |-> m.heap]

LEMMA RegistersAre ==
    ASSUME NEW d \in Int, d >= -1, NEW m, m.depth = d
    PROVE  /\ Len(InRegisters(m)) = d + 1 /\ DOMAIN InRegisters(m) = 1..(d + 1)
           /\ \A i \in 1..d : InRegisters(m)[i] = m.cells[i]
           /\ d >= 0 => InRegisters(m)[d + 1] = m.top
  BY DEF InRegisters

LEMMA RegistersTyped ==
    ASSUME NEW m, IsMachine(m)
    PROVE  InRegisters(m) \in Seq(Cell) /\ Len(InRegisters(m)) = m.depth + 1
<1>1. m.depth \in Int /\ m.depth >= -1 /\ m.depth <= MaxCells - 1 /\ m.top \in Cell
  BY PrimitivesAssumption DEF IsMachine, Half
<1>2. \A i \in 1..m.depth : m.cells[i] \in Cell
  BY <1>1, PrimitivesAssumption DEF IsMachine, CellIndexes, Half
<1> QED
  BY <1>1, <1>2 DEF InRegisters

LEMMA ConcatIs ==
    ASSUME NEW S, NEW s \in Seq(S), NEW t \in Seq(S)
    PROVE  /\ s \o t \in Seq(S) /\ Len(s \o t) = Len(s) + Len(t)
           /\ \A i \in 1..Len(s) : (s \o t)[i] = s[i]
           /\ \A i \in 1..Len(t) : (s \o t)[Len(s) + i] = t[i]
  BY ConcatProperties

LEMMA ConcatCells ==
    \A s, t \in Seq(Cell) :
        /\ s \o t \in Seq(Cell) /\ Len(s \o t) = Len(s) + Len(t)
        /\ \A i \in 1..Len(s) : (s \o t)[i] = s[i]
        /\ \A i \in 1..Len(t) : (s \o t)[Len(s) + i] = t[i]
  BY ConcatIs

LEMMA ConcatEntries ==
    \A s, t \in Seq(Entries) :
        /\ s \o t \in Seq(Entries) /\ Len(s \o t) = Len(s) + Len(t)
        /\ \A i \in 1..Len(s) : (s \o t)[i] = s[i]
        /\ \A i \in 1..Len(t) : (s \o t)[Len(s) + i] = t[i]
  BY ConcatIs

LEMMA BelowIs ==
    ASSUME NEW S, NEW s \in Seq(S), NEW n \in 0..Len(s)
    PROVE  /\ Below(s, n) \in Seq(S) /\ Len(Below(s, n)) = Len(s) - n
           /\ Below(s, n) = [i \in 1..(Len(s) - n) |-> s[i]]
           /\ \A i \in 1..(Len(s) - n) : Below(s, n)[i] = s[i]
  BY DEF Below

(* An index is in the front or so far behind it.                           *)
LEMMA Halves ==
    \A l \in Nat : \A k \in 0..l : \A i \in 1..l : i \in 1..k \/ \E j \in 1..(l - k) : i = k + j
<1> SUFFICES ASSUME NEW l \in Nat, NEW k \in 0..l, NEW i \in 1..l, ~(i \in 1..k)
             PROVE  \E j \in 1..(l - k) : i = k + j
  OBVIOUS
<1>1. i - k \in 1..(l - k) /\ i = k + (i - k)
  OBVIOUS
<1> QED
  BY <1>1

LEMMA RegistersPut ==
    ASSUME NEW q \in Seq(Cell), NEW n \in 0..Len(q), NEW new \in Seq(Cell), NEW m,
           m.depth = Len(q) - n + Len(new) - 1,
           \A i \in 1..(Len(q) - n) : InRegisters(m)[i] = q[i],
           \A i \in 1..Len(new) : InRegisters(m)[Len(q) - n + i] = new[i]
    PROVE  InRegisters(m) = Below(q, n) \o new
<1> DEFINE r == InRegisters(m)
           b == Below(q, n)
           t == b \o new
           k == Len(q) - n
           l == k + Len(new)
<1>1. b \in Seq(Cell) /\ Len(b) = k /\ \A i \in 1..k : b[i] = q[i]
  BY BelowIs
<1>2. k \in Nat /\ l \in Nat /\ k <= l /\ l - k = Len(new) /\ m.depth + 1 = l
  OBVIOUS
<1>3. r = [i \in 1..l |-> r[i]]
  <2> HIDE DEF l
  <2> QED
    BY <1>2 DEF InRegisters
<1> HIDE DEF b, k
<1>4. /\ t \in Seq(Cell) /\ Len(t) = l
      /\ \A i \in 1..k : t[i] = b[i]
      /\ \A i \in 1..Len(new) : t[k + i] = new[i]
  <2> HIDE DEF k, l
  <2>1. /\ t \in Seq(Cell) /\ Len(t) = Len(b) + Len(new)
        /\ \A i \in 1..Len(b) : t[i] = b[i]
        /\ \A i \in 1..Len(new) : t[Len(b) + i] = new[i]
    BY <1>1, ConcatCells, Zenon
  <2> QED
    BY <1>1, <2>1 DEF l
<1> HIDE DEF t, l
<1>5. t = [i \in 1..l |-> t[i]]
  BY <1>2, <1>4
<1>6. /\ \A i \in 1..k : r[i] = q[i]
      /\ \A i \in 1..Len(new) : r[k + i] = new[i]
  BY DEF k
<1> HIDE DEF r
<1>7. \A i \in 1..k : r[i] = t[i]
  BY <1>1, <1>4, <1>6, Zenon
<1>8. \A i \in 1..(l - k) : r[k + i] = t[k + i]
  BY <1>2, <1>4, <1>6, Zenon
<1>9. k \in 0..l
  BY <1>2
<1>10. \A i \in 1..l : r[i] = t[i]
  <2> TAKE i \in 1..l
  <2>1. i \in 1..k \/ \E j \in 1..(l - k) : i = k + j
    BY <1>2, <1>9, Halves, Zenon
  <2> QED
    BY <1>7, <1>8, <2>1, Zenon
<1>11. r = t
  BY <1>3, <1>5, <1>10, Zenon
<1> QED
  BY <1>11 DEF r, t, b

-----------------------------------------------------------------------------

LEMMA ReturnsTyped ==
    ASSUME NEW rs \in Seq(Entries), NEW own, OwnCells(rs, own)
    PROVE  /\ Returns(rs, own) \in Seq(Cell) /\ Len(Returns(rs, own)) = Len(rs) - own
           /\ own \in Nat /\ own <= Len(rs)
           /\ \A i \in 1..(Len(rs) - own) : Returns(rs, own)[i] = rs[own + i][2]
<1> DEFINE l == Len(rs) - own
<1>1. l \in Nat /\ own \in Nat /\ own <= Len(rs)
  BY DEF OwnCells
<1>2. \A i \in 1..l : rs[own + i][2] \in Cell
  <2> TAKE i \in 1..l
  <2>1. own + i \in (own + 1)..Len(rs)
    BY <1>1
  <2>2. rs[own + i] \in {"cell"} \X Cell
    BY <2>1 DEF OwnCells
  <2> QED
    BY <2>2
<1>3. Returns(rs, own) = [i \in 1..l |-> rs[own + i][2]]
  <2>1. Len(rs) - (own + 1) + 1 = l /\ \A i \in 1..l : own + 1 + i - 1 = own + i
    BY <1>1
  <2> QED
    BY <2>1 DEF Returns, CellsOf
<1> HIDE DEF l
<1> QED
  BY <1>1, <1>2, <1>3 DEF l

LEMMA ReturnsNth ==
    ASSUME NEW rs \in Seq(Entries), NEW own, OwnCells(rs, own), NEW n \in 1..(Len(rs) - own)
    PROVE  Nth(rs, n)[2] = Nth(Returns(rs, own), n) /\ Nth(rs, n)[2] \in Cell
<1> DEFINE s == Returns(rs, own)
<1>1. /\ s \in Seq(Cell) /\ Len(s) = Len(rs) - own /\ own \in Nat /\ own <= Len(rs)
      /\ \A i \in 1..(Len(rs) - own) : s[i] = rs[own + i][2]
  BY ReturnsTyped
<1> HIDE DEF s
<1>2. Len(s) + 1 - n \in 1..Len(s) /\ own + (Len(s) + 1 - n) = Len(rs) + 1 - n
  BY <1>1
<1>3. s[Len(s) + 1 - n] = rs[own + (Len(s) + 1 - n)][2] /\ s[Len(s) + 1 - n] \in Cell
  BY <1>1, <1>2
<1>4. Nth(rs, n)[2] = Nth(s, n) /\ Nth(s, n) \in Cell
  BY <1>2, <1>3 DEF Nth
<1> QED
  BY <1>4 DEF s

LEMMA ReturnsBelow ==
    ASSUME NEW rs \in Seq(Entries), NEW own, OwnCells(rs, own), NEW n \in 0..(Len(rs) - own)
    PROVE  /\ Below(rs, n) \in Seq(Entries) /\ OwnCells(Below(rs, n), own)
           /\ Len(Below(rs, n)) = Len(rs) - n
           /\ Returns(Below(rs, n), own) = Below(Returns(rs, own), n)
           /\ \A j \in 1..own : Below(rs, n)[j] = rs[j]
<1> DEFINE b == Below(rs, n)
           s == Returns(rs, own)
           k == Len(rs) - own - n
<1>1. /\ s \in Seq(Cell) /\ Len(s) = Len(rs) - own /\ own \in Nat /\ own <= Len(rs)
      /\ \A i \in 1..(Len(rs) - own) : s[i] = rs[own + i][2]
  BY ReturnsTyped
<1>2. n \in 0..Len(rs)
  BY <1>1
<1>3. b \in Seq(Entries) /\ Len(b) = Len(rs) - n /\ \A j \in 1..(Len(rs) - n) : b[j] = rs[j]
  BY <1>2, BelowIs
<1> HIDE DEF b, s
<1>4. OwnCells(b, own)
  BY <1>1, <1>3 DEF OwnCells
<1>5. Below(s, n) = [i \in 1..k |-> s[i]]
  <2>1. n \in 0..Len(s) /\ Len(s) - n = k
    BY <1>1
  <2>2. Below(s, n) = [i \in 1..(Len(s) - n) |-> s[i]]
    BY <1>1, <2>1, BelowIs, Zenon
  <2> HIDE DEF k
  <2> QED
    BY <2>1, <2>2, Zenon
<1>6. /\ Returns(b, own) \in Seq(Cell) /\ Len(Returns(b, own)) = k
      /\ \A i \in 1..k : Returns(b, own)[i] = b[own + i][2]
  <2>1. Len(b) - own = k
    BY <1>1, <1>3
  <2> HIDE DEF k
  <2> QED
    BY <1>3, <1>4, <2>1, ReturnsTyped
<1>7. \A i \in 1..k : b[own + i][2] = s[i]
  BY <1>1, <1>3
<1> HIDE DEF k
<1>8. Returns(b, own) = [i \in 1..k |-> Returns(b, own)[i]]
  BY <1>6
<1>9. Returns(b, own) = Below(s, n)
  BY <1>5, <1>6, <1>7, <1>8
<1>10. \A j \in 1..own : b[j] = rs[j]
  BY <1>1, <1>3
<1> QED
  BY <1>3, <1>4, <1>9, <1>10 DEF b, s

(* Cells pushed on the return stack.                                       *)
Tags(tagged, cells) ==
    Len(tagged) = Len(cells) /\ \A i \in 1..Len(cells) : tagged[i] = <<"cell", cells[i]>>

(* What a push leaves: the entries below own, and the cells above them.    *)
PushedOn(rs, tagged, own, new) ==
    /\ rs \o tagged \in Seq(Entries)
    /\ OwnCells(rs \o tagged, own)
    /\ Len(rs \o tagged) = Len(rs) + Len(new)
    /\ Returns(rs \o tagged, own) = Returns(rs, own) \o new
    /\ \A j \in 1..own : (rs \o tagged)[j] = rs[j]

LEMMA ReturnsPush ==
    ASSUME NEW rs \in Seq(Entries), NEW own, OwnCells(rs, own), NEW new \in Seq(Cell),
           NEW tagged \in Seq(Entries), Tags(tagged, new)
    PROVE  PushedOn(rs, tagged, own, new)
<1> DEFINE t == rs \o tagged
           s == Returns(rs, own)
           u == s \o new
           k == Len(rs) - own
           l == k + Len(new)
<1>0. /\ Len(tagged) = Len(new) /\ \A i \in 1..Len(new) : tagged[i] = <<"cell", new[i]>>
      /\ Len(new) \in Nat /\ \A i \in 1..Len(new) : new[i] \in Cell
  BY DEF Tags
<1>1. /\ s \in Seq(Cell) /\ Len(s) = k /\ own \in Nat /\ own <= Len(rs)
      /\ \A i \in 1..k : s[i] = rs[own + i][2]
  BY ReturnsTyped
<1>2. t \in Seq(Entries) /\ Len(t) = Len(rs) + Len(new)
      /\ (\A j \in 1..Len(rs) : t[j] = rs[j])
      /\ \A j \in 1..Len(new) : t[Len(rs) + j] = tagged[j]
  <2>1. /\ t \in Seq(Entries) /\ Len(t) = Len(rs) + Len(tagged)
        /\ \A j \in 1..Len(rs) : t[j] = rs[j]
        /\ \A j \in 1..Len(tagged) : t[Len(rs) + j] = tagged[j]
    BY ConcatEntries, Zenon
  <2> HIDE DEF t
  <2> QED
    BY <1>0, <2>1
<1> HIDE DEF t, s
<1>3. OwnCells(t, own)
  <2> SUFFICES ASSUME NEW j \in (own + 1)..Len(t)
               PROVE  t[j] \in {"cell"} \X Cell
    BY <1>1, <1>2 DEF OwnCells
  <2>1. CASE j <= Len(rs)
    <3>1. j \in 1..Len(rs) /\ j \in (own + 1)..Len(rs)
      BY <1>1, <2>1
    <3>2. rs[j] \in {"cell"} \X Cell
      BY <3>1, Zenon DEF OwnCells
    <3> QED
      BY <1>2, <3>1, <3>2, Zenon
  <2>2. CASE j > Len(rs)
    <3>1. j - Len(rs) \in 1..Len(new) /\ j = Len(rs) + (j - Len(rs))
      BY <1>1, <1>2, <2>2
    <3>2. t[j] = <<"cell", new[j - Len(rs)]>> /\ new[j - Len(rs)] \in Cell
      BY <1>0, <1>2, <3>1
    <3> QED
      BY <3>2
  <2> QED
    BY <1>1, <1>2, <2>1, <2>2
<1>4. /\ u \in Seq(Cell) /\ Len(u) = l
      /\ (\A i \in 1..k : u[i] = s[i]) /\ \A i \in 1..Len(new) : u[k + i] = new[i]
  <2> HIDE DEF k
  <2> QED
    BY <1>1, ConcatCells, Zenon
<1>5. /\ Returns(t, own) \in Seq(Cell) /\ Len(Returns(t, own)) = l
      /\ \A i \in 1..l : Returns(t, own)[i] = t[own + i][2]
  <2>1. Len(t) - own = l
    BY <1>1, <1>2
  <2> HIDE DEF l
  <2> QED
    BY <1>2, <1>3, <2>1, ReturnsTyped
<1>6. k \in Nat /\ l \in Nat /\ k <= l /\ l - k = Len(new)
  BY <1>0, <1>1
<1>7. \A i \in 1..k : t[own + i][2] = s[i]
  <2> TAKE i \in 1..k
  <2>1. own + i \in 1..Len(rs)
    BY <1>1
  <2> QED
    BY <1>1, <1>2, <2>1
<1>8. \A i \in 1..Len(new) : t[own + (k + i)][2] = new[i]
  <2> TAKE i \in 1..Len(new)
  <2>1. own + (k + i) = Len(rs) + i
    BY <1>1
  <2>2. t[Len(rs) + i] = <<"cell", new[i]>>
    BY <1>0, <1>2
  <2> QED
    BY <2>1, <2>2
<1> HIDE DEF u, k, l
<1>9. u = [i \in 1..l |-> u[i]] /\ Returns(t, own) = [i \in 1..l |-> Returns(t, own)[i]]
  BY <1>4, <1>5
<1>10. \A i \in 1..k : Returns(t, own)[i] = u[i]
  <2> TAKE i \in 1..k
  <2>1. i \in 1..l
    BY <1>6
  <2> QED
    BY <1>4, <1>5, <1>7, <2>1
<1>11. \A i \in 1..(l - k) : Returns(t, own)[k + i] = u[k + i]
  <2> TAKE i \in 1..(l - k)
  <2>1. k + i \in 1..l /\ i \in 1..Len(new)
    BY <1>6
  <2> QED
    BY <1>4, <1>5, <1>8, <2>1
<1>12. Returns(t, own) = u
  <2>1. k \in 0..l /\ l \in Nat
    BY <1>6
  <2>3. \A i \in 1..l : i \in 1..k \/ \E j \in 1..(l - k) : i = k + j
    BY <2>1, Halves, Zenon
  <2>2. \A i \in 1..l : Returns(t, own)[i] = u[i]
    BY <1>10, <1>11, <2>3, Zenon
  <2> QED
    BY <1>9, <2>2, Zenon
<1>13. \A j \in 1..own : t[j] = rs[j]
  BY <1>1, <1>2
<1>14. PushedOn(rs, tagged, own, new) <=>
           t \in Seq(Entries) /\ OwnCells(t, own) /\ Len(t) = Len(rs) + Len(new)
           /\ Returns(t, own) = u /\ \A j \in 1..own : t[j] = rs[j]
  BY Zenon DEF PushedOn, t, u, s
<1> QED
  BY <1>2, <1>3, <1>12, <1>13, <1>14

-----------------------------------------------------------------------------
(* What a word may ask of a machine and what its code has to leave.          *)

(* A machine on which word w has what it needs: from cell own on the       *)
(* return stack is the running word's.                                     *)
Fit(w, m, own, r) ==
    /\ IsMachine(m) /\ OwnCells(m.rs, own) /\ r \in Nat
    /\ Enough(w, StateOf(m, own), r) /\ Defined(w, StateOf(m, own))

(* Machine x has what a body finds behind the chores in front of it.       *)
Opened(fl, m, x) ==
    /\ x = Machine(x.top, x.depth, x.scratch, x.cells, m.rs, m.dp, m.heap)
    /\ x.depth = m.depth + (IF "A" \in fl THEN 1 ELSE 0)
    /\ "CLOB" \notin fl => x.top = m.top
    /\ x.cells \in [CellIndexes -> Cell] /\ \A i \in 1..m.depth : x.cells[i] = m.cells[i]
    /\ "B" \in fl /\ x.depth \in CellIndexes => x.cells[x.depth] = m.top

(* Machine y has what word w may make of machine m.                        *)
Does(w, m, own, y) ==
    /\ y = Machine(y.top, y.depth, y.scratch, y.cells, y.rs, y.dp, y.heap)
    /\ y.top \in Cell /\ y.depth \in Int /\ y.depth >= -1 /\ y.cells \in [CellIndexes -> Cell]
    /\ y.rs \in Seq(Entries) /\ OwnCells(y.rs, own) /\ \A j \in 1..own : y.rs[j] = m.rs[j]
    /\ StateOf(y, own) \in Outcomes(w, StateOf(m, own))

LEMMA Basics ==
    ASSUME NEW w, NEW m, NEW own, NEW r, Fit(w, m, own, r), NEW fl, NEW x, Opened(fl, m, x)
    PROVE  LET q == InRegisters(m)
               s == StateOf(m, own)
               d == m.depth
           IN  /\ s \in States /\ q \in Seq(Cell) /\ Len(q) = d + 1 /\ Len(q) >= Pops(w)
               /\ d \in Int /\ d >= -1 /\ d <= MaxCells - 1 /\ MaxCells \in Int
               /\ s.ds = q /\ s.rs = Returns(m.rs, own) /\ s.dp = m.dp /\ s.heap = m.heap
               /\ \A i \in 1..d : q[i] = x.cells[i]
               /\ d >= 0 => q[d + 1] = m.top /\ Nth(q, 1) = m.top
               /\ d >= 1 => Nth(q, 2) = x.cells[d]
               /\ d >= 2 => Nth(q, 3) = x.cells[d - 1]
               /\ Len(s.rs) = Len(m.rs) - own /\ Len(s.rs) >= ReturnPops(w)
<1> DEFINE q == InRegisters(m)
           s == StateOf(m, own)
           d == m.depth
<1>1. IsMachine(m) /\ OwnCells(m.rs, own) /\ Enough(w, s, r) /\ Defined(w, s)
  BY DEF Fit
<1>2. q \in Seq(Cell) /\ Len(q) = d + 1
  BY <1>1, RegistersTyped
<1>3. Returns(m.rs, own) \in Seq(Cell) /\ Len(Returns(m.rs, own)) = Len(m.rs) - own
  BY <1>1, ReturnsTyped DEF IsMachine
<1>4. s.ds = q /\ s.rs = Returns(m.rs, own) /\ s.dp = m.dp /\ s.heap = m.heap
  BY DEF StateOf
<1>5. s \in States
  BY <1>1, <1>2, <1>3 DEF StateOf, States, IsMachine
<1>6. d \in Int /\ d >= -1 /\ d <= MaxCells - 1 /\ MaxCells \in Int
  BY <1>1, PrimitivesAssumption DEF IsMachine, Half
<1>7. /\ \A i \in 1..d : q[i] = m.cells[i]
      /\ d >= 0 => q[d + 1] = m.top
  BY <1>6, RegistersAre
<1>8. \A i \in 1..d : m.cells[i] = x.cells[i]
  BY DEF Opened
<1> HIDE DEF q
<1>9. /\ d >= 0 => Nth(q, 1) = m.top
      /\ d >= 1 => Nth(q, 2) = x.cells[d]
      /\ d >= 2 => Nth(q, 3) = x.cells[d - 1]
  <2> HIDE DEF d
  <2>1. d >= 0 => Nth(q, 1) = q[d + 1]
    BY <1>2, <1>6 DEF Nth
  <2>2. d >= 1 => Nth(q, 2) = q[d] /\ d \in 1..d
    BY <1>2, <1>6 DEF Nth
  <2>3. d >= 2 => Nth(q, 3) = q[d - 1] /\ d - 1 \in 1..d
    BY <1>2, <1>6 DEF Nth
  <2> QED
    BY <1>7, <1>8, <2>1, <2>2, <2>3
<1>10. Len(s.ds) >= Pops(w) /\ Len(s.rs) >= ReturnPops(w)
  BY <1>1, Zenon DEF Enough, Defined
<1> HIDE DEF s, d
<1> QED
  BY <1>2, <1>3, <1>4, <1>5, <1>6, <1>7, <1>8, <1>9, <1>10 DEF q, s, d

(* Only the data stack is another one.                                     *)
LEMMA Restacked ==
    ASSUME NEW w, NEW m, NEW own, NEW r, Fit(w, m, own, r),
           NEW t \in Cell, NEW d \in Int, NEW z, NEW c \in [CellIndexes -> Cell],
           NEW n \in 0..Len(InRegisters(m)), NEW new \in Seq(Cell),
           d = Len(InRegisters(m)) - n + Len(new) - 1,
           \A i \in 1..(Len(InRegisters(m)) - n) :
                InRegisters(m)[i] = IF i <= d THEN c[i] ELSE t,
           \A i \in 1..Len(new) :
                new[i] = IF Len(InRegisters(m)) - n + i <= d
                         THEN c[Len(InRegisters(m)) - n + i] ELSE t,
           Put(StateOf(m, own), n, new) \in Outcomes(w, StateOf(m, own))
    PROVE  Does(w, m, own, Machine(t, d, z, c, m.rs, m.dp, m.heap))
<1> DEFINE y == Machine(t, d, z, c, m.rs, m.dp, m.heap)
           q == InRegisters(m)
           s == StateOf(m, own)
<1>1. IsMachine(m) /\ OwnCells(m.rs, own)
  BY DEF Fit
<1>2. q \in Seq(Cell) /\ Len(q) = m.depth + 1
  BY <1>1, RegistersTyped
<1>3. /\ y.top = t /\ y.depth = d /\ y.scratch = z /\ y.cells = c
      /\ y.rs = m.rs /\ y.dp = m.dp /\ y.heap = m.heap
  BY DEF Machine
<1>4. s = [ds |-> q, rs |-> Returns(m.rs, own), dp |-> m.dp, heap |-> m.heap]
  BY DEF StateOf
<1>5. s \in States
  BY <1>1, <1>2, ReturnsTyped DEF StateOf, States, IsMachine
<1>6. y = Machine(y.top, y.depth, y.scratch, y.cells, y.rs, y.dp, y.heap)
  BY <1>3
<1>a. n \in 0..Len(q) /\ d = Len(q) - n + Len(new) - 1 /\ Len(q) \in Nat /\ Len(new) \in Nat
  BY <1>2
<1>b. /\ \A i \in 1..(Len(q) - n) : q[i] = IF i <= d THEN c[i] ELSE t
      /\ \A i \in 1..Len(new) :
            new[i] = IF Len(q) - n + i <= d THEN c[Len(q) - n + i] ELSE t
  OBVIOUS
<1> HIDE DEF y, q, s
<1>7. InRegisters(y) = [i \in 1..(d + 1) |-> IF i <= d THEN c[i] ELSE t]
  BY <1>3 DEF InRegisters
<1>c. \A i \in 1..(Len(q) - n) : InRegisters(y)[i] = q[i]
  <2> TAKE i \in 1..(Len(q) - n)
  <2>1. i \in 1..(d + 1)
    BY <1>a
  <2>2. InRegisters(y)[i] = IF i <= d THEN c[i] ELSE t
    BY <1>7, <2>1, Zenon
  <2> QED
    BY <1>b, <2>2, Zenon
<1>8. \A i \in 1..Len(new) : InRegisters(y)[Len(q) - n + i] = new[i]
  <2> TAKE i \in 1..Len(new)
  <2> DEFINE j == Len(q) - n + i
  <2>1. j \in 1..(d + 1)
    BY <1>a
  <2> HIDE DEF j
  <2>2. InRegisters(y)[j] = IF j <= d THEN c[j] ELSE t
    BY <1>7, <2>1, Zenon
  <2> QED
    BY <1>b, <2>2, Zenon DEF j
<1>9. InRegisters(y) = Below(q, n) \o new
  <2>1. y.depth = Len(q) - n + Len(new) - 1 /\ q \in Seq(Cell) /\ n \in 0..Len(q)
    BY <1>2, <1>3, <1>a
  <2> QED
    BY <2>1, <1>c, <1>8, RegistersPut
<1>10. Put(s, n, new) = [ds |-> Below(q, n) \o new, rs |-> Returns(m.rs, own), dp |-> m.dp, heap |-> m.heap]
  <2>1. s.ds = q /\ s.rs = Returns(m.rs, own) /\ s.dp = m.dp /\ s.heap = m.heap
    BY <1>4
  <2>2. Put(s, n, new) = [ds |-> Below(s.ds, n) \o new, rs |-> s.rs, dp |-> s.dp, heap |-> s.heap]
    BY <1>5, <1>a, <2>1, PutEffect
  <2> QED
    BY <2>1, <2>2, Zenon
<1>11. StateOf(y, own) = Put(s, n, new)
  BY <1>3, <1>9, <1>10 DEF StateOf
<1>d. Put(s, n, new) \in Outcomes(w, s)
  BY DEF s, q
<1>12. StateOf(y, own) \in Outcomes(w, s)
  BY <1>11, <1>d, Zenon
<1>13. /\ y.top \in Cell /\ y.depth \in Int /\ y.depth >= -1 /\ y.cells \in [CellIndexes -> Cell]
       /\ y.rs \in Seq(Entries) /\ OwnCells(y.rs, own) /\ \A j \in 1..own : y.rs[j] = m.rs[j]
  BY <1>1, <1>3 DEF IsMachine
<1>14. Does(w, m, own, y)
  BY <1>6, <1>12, <1>13, Zenon DEF Does, s
<1> QED
  BY <1>14, Zenon DEF y

-----------------------------------------------------------------------------
(* A word that only rearranges the data stack: its outcome is known once the *)
(* cells on top are.                                                         *)

(* What is put fits the stack.                                             *)
LEMMA Room ==
    ASSUME NEW w, NEW m, NEW own, NEW r, Fit(w, m, own, r),
           w \notin {"pick", "lshift", "rshift", "/", "mod"},
           NEW n \in 0..Len(InRegisters(m)), NEW new \in Seq(Cell),
           Meaning(w, StateOf(m, own)) = Put(StateOf(m, own), n, new)
    PROVE  Len(InRegisters(m)) - n + Len(new) <= MaxCells
<1> DEFINE s == StateOf(m, own)
<1>1. IsMachine(m) /\ OwnCells(m.rs, own) /\ Enough(w, s, r) /\ Defined(w, s)
  BY DEF Fit
<1>2. s \in States /\ s.ds = InRegisters(m)
  BY <1>1, RegistersTyped, ReturnsTyped DEF StateOf, States, IsMachine
<1>3. n \in 0..Len(s.ds)
  BY <1>2
<1>4. Len(Put(s, n, new).ds) = Len(s.ds) - n + Len(new)
  BY <1>2, <1>3, PutEffect
<1>5. Meaning(w, s) = Put(s, n, new)
  OBVIOUS
<1> HIDE DEF s
<1>6. Len(s.rs) >= ReturnPops(w)
  BY <1>1 DEF Defined
<1>7. Len(Meaning(w, s).ds) <= MaxCells
  BY <1>1, <1>6 DEF Enough
<1> QED
  BY <1>2, <1>4, <1>5, <1>7

LEMMA Meant == ASSUME NEW w, NEW s, NEW t, Meaning(w, s) = t PROVE t \in Outcomes(w, s)
  BY DEF Outcomes

(* The top n cells give way to new ones, whose last one is in t and the    *)
(* others in c.                                                            *)
Restacks(q, t, d, c, n, new) ==
    /\ t \in Cell /\ d \in Int /\ c \in [CellIndexes -> Cell]
    /\ n \in 0..Len(q) /\ new \in Seq(Cell) /\ d = Len(q) - n + Len(new) - 1
    /\ \A i \in 1..(Len(q) - n) : q[i] = IF i <= d THEN c[i] ELSE t
    /\ \A i \in 1..Len(new) : new[i] = IF Len(q) - n + i <= d THEN c[Len(q) - n + i] ELSE t

LEMMA Stacked ==
    ASSUME NEW w, NEW m, NEW own, NEW r, Fit(w, m, own, r),
           NEW t, NEW d, NEW c, NEW n, NEW new, Restacks(InRegisters(m), t, d, c, n, new),
           NEW z, Put(StateOf(m, own), n, new) \in Outcomes(w, StateOf(m, own))
    PROVE  Does(w, m, own, Machine(t, d, z, c, m.rs, m.dp, m.heap))
  BY Restacked DEF Restacks

-----------------------------------------------------------------------------
(* The words that rearrange the data stack, copy a cell of the return stack, *)
(* or push what is known.                                                    *)

LEMMA DupWord ==
    ASSUME NEW b, NEW m, NEW own, NEW r, Fit("dup", m, own, r), NEW fl, NEW x, Opened(fl, m, x),
           NEW code, "A" \in fl /\ "B" \in fl /\ "CLOB" \notin fl /\ "Y" \notin fl /\ "Z" \notin fl,
           Len(code) = 0
    PROVE  Does("dup", m, own, Closing(fl, Execute(b, "dup", code, x)))
<1> DEFINE q == InRegisters(m)
           s == StateOf(m, own)
           d == m.depth
           c == x.cells
           e == x.depth
           t == x.top
           t2 == t
           e2 == e
           c2 == c
           X == Nth(q, 1)
           new == <<X, X>>
<1>1. Pops("dup") = 1
  BY PopsAre
<1>2. /\ s \in States /\ q \in Seq(Cell) /\ s.ds = q /\ s.rs = Returns(m.rs, own) /\ s.dp = m.dp
      /\ \A i \in 1..d : q[i] = c[i]
  BY <1>1, Basics
<1>3. Len(q) = d + 1 /\ d \in Int /\ d >= 0 /\ d <= MaxCells - 1 /\ MaxCells \in Int
  BY <1>1, Basics
<1>4. q[d + 1] = m.top /\ X = m.top
  BY <1>3, Basics
<1>5. x = Machine(t, e, x.scratch, c, m.rs, m.dp, m.heap) /\ c \in [CellIndexes -> Cell]
  BY DEF Opened
<1>6. t = m.top /\ e = d + 1 /\ (e \in CellIndexes => c[e] = m.top)
  BY <1>3 DEF Opened
<1>7. X \in Cell
  <2>1. 1 \in 1..Len(q)
    BY <1>3
  <2> HIDE DEF q
  <2> QED
    BY <1>2, <2>1, TopCells
<1> HIDE DEF q, s, d, c, e, t, X
<1>8. Meaning("dup", s) = Put(s, 1, new)
  <2>1. Meaning("dup", s) = Put(s, 1, <<Nth(s.ds, 1), Nth(s.ds, 1)>>)
    BY DupMeanings, Zenon
  <2> QED
    BY <1>2, <2>1, Zenon DEF X
<1>9. new \in Seq(Cell) /\ Len(new) = 2 /\ new[1] = X /\ new[2] = X
  BY <1>7
<1> HIDE DEF new
<1>10. Closing(fl, Execute(b, "dup", code, x)) = Machine(t2, e2, x.scratch, c2, m.rs, m.dp, m.heap)
  <2>1. e \in Int
    BY <1>3, <1>6
  <2>2. Closing(fl, Execute(b, "dup", code, Machine(t, e, x.scratch, c, m.rs, m.dp, m.heap))) =
            Machine(t2, e2, x.scratch, c2, m.rs, m.dp, m.heap)
    BY <2>1, DupEffect
  <2> QED
    BY <1>5, <2>2, Zenon
<1>11. 1 \in 0..Len(q) /\ d + 2 <= MaxCells
  <2>1. 1 \in 0..Len(q)
    BY <1>3
  <2>2. Len(q) - 1 + Len(new) <= MaxCells
    BY <1>8, <1>9, <2>1, Room DEF q, s
  <2> QED
    BY <1>3, <1>9, <2>1, <2>2
<1>12. e2 \in Int /\ t2 \in Cell /\ c2 \in [CellIndexes -> Cell] /\ e2 = Len(q) - 1 + Len(new) - 1
  BY <1>3, <1>4, <1>5, <1>6, <1>7, <1>9, <1>11 DEF CellIndexes, Kept
<1>13. \A i \in 1..(Len(q) - 1) : q[i] = IF i <= e2 THEN c2[i] ELSE t2
  BY <1>2, <1>3, <1>4, <1>5, <1>6, <1>11 DEF CellIndexes, Kept
<1>14. \A i \in 1..Len(new) : new[i] = IF Len(q) - 1 + i <= e2 THEN c2[Len(q) - 1 + i] ELSE t2
  BY <1>3, <1>4, <1>5, <1>6, <1>7, <1>9, <1>11 DEF CellIndexes, Kept
<1>15. Put(s, 1, new) \in Outcomes("dup", s)
  BY <1>8, Meant
<1>16. Restacks(q, t2, e2, c2, 1, new)
  BY <1>9, <1>11, <1>12, <1>13, <1>14 DEF Restacks
<1> HIDE DEF e2, t2, c2
<1>17. Does("dup", m, own, Machine(t2, e2, x.scratch, c2, m.rs, m.dp, m.heap))
  BY <1>15, <1>16, Stacked DEF q, s
<1> QED
  BY <1>10, <1>17, Zenon

LEMMA OverWord ==
    ASSUME NEW b, NEW m, NEW own, NEW r, Fit("over", m, own, r), NEW fl, NEW x, Opened(fl, m, x),
           NEW code, "A" \in fl /\ "B" \in fl /\ "CLOB" \in fl /\ "Y" \notin fl /\ "Z" \notin fl,
           Len(code) = 1 /\ code[1] = "load1"
    PROVE  Does("over", m, own, Closing(fl, Execute(b, "over", code, x)))
<1> DEFINE q == InRegisters(m)
           s == StateOf(m, own)
           d == m.depth
           c == x.cells
           e == x.depth
           t == x.top
           t2 == c[e - 1]
           e2 == e
           c2 == c
           X == Nth(q, 1)
           Y == Nth(q, 2)
           new == <<Y, X, Y>>
<1>1. Pops("over") = 2
  BY PopsAre
<1>2. /\ s \in States /\ q \in Seq(Cell) /\ s.ds = q /\ s.rs = Returns(m.rs, own) /\ s.dp = m.dp
      /\ \A i \in 1..d : q[i] = c[i]
  BY <1>1, Basics
<1>3. Len(q) = d + 1 /\ d \in Int /\ d >= 1 /\ d <= MaxCells - 1 /\ MaxCells \in Int
  BY <1>1, Basics
<1>4. q[d + 1] = m.top /\ X = m.top /\ Y = c[d]
  BY <1>3, Basics
<1>5. x = Machine(t, e, x.scratch, c, m.rs, m.dp, m.heap) /\ c \in [CellIndexes -> Cell]
  BY DEF Opened
<1>6. e = d + 1 /\ (e \in CellIndexes => c[e] = m.top)
  BY <1>3 DEF Opened
<1>7. X \in Cell /\ Y \in Cell
  <2>1. 1 \in 1..Len(q) /\ 2 \in 1..Len(q)
    BY <1>3
  <2> HIDE DEF q
  <2> QED
    BY <1>2, <2>1, TopCells
<1> HIDE DEF q, s, d, c, e, t, X, Y
<1>8. Meaning("over", s) = Put(s, 2, new)
  <2>1. Meaning("over", s) = Put(s, 2, <<Nth(s.ds, 2), Nth(s.ds, 1), Nth(s.ds, 2)>>)
    BY DupMeanings, Zenon
  <2> QED
    BY <1>2, <2>1, Zenon DEF X, Y
<1>9. new \in Seq(Cell) /\ Len(new) = 3 /\ new[1] = Y /\ new[2] = X /\ new[3] = Y
  BY <1>7
<1> HIDE DEF new
<1>10. Closing(fl, Execute(b, "over", code, x)) = Machine(t2, e2, x.scratch, c2, m.rs, m.dp, m.heap)
  <2>1. e \in Int
    BY <1>3, <1>6
  <2>2. Closing(fl, Execute(b, "over", code, Machine(t, e, x.scratch, c, m.rs, m.dp, m.heap))) =
            Machine(t2, e2, x.scratch, c2, m.rs, m.dp, m.heap)
    BY <2>1, OverEffect
  <2> QED
    BY <1>5, <2>2, Zenon
<1>11. 2 \in 0..Len(q) /\ d + 2 <= MaxCells
  <2>1. 2 \in 0..Len(q)
    BY <1>3
  <2>2. Len(q) - 2 + Len(new) <= MaxCells
    BY <1>8, <1>9, <2>1, Room DEF q, s
  <2> QED
    BY <1>3, <1>9, <2>1, <2>2
<1>12. e2 \in Int /\ t2 \in Cell /\ c2 \in [CellIndexes -> Cell] /\ e2 = Len(q) - 2 + Len(new) - 1
  BY <1>3, <1>4, <1>5, <1>6, <1>7, <1>9, <1>11 DEF CellIndexes, Kept
<1>13. \A i \in 1..(Len(q) - 2) : q[i] = IF i <= e2 THEN c2[i] ELSE t2
  BY <1>2, <1>3, <1>4, <1>5, <1>6, <1>11 DEF CellIndexes, Kept
<1>14. \A i \in 1..Len(new) : new[i] = IF Len(q) - 2 + i <= e2 THEN c2[Len(q) - 2 + i] ELSE t2
  BY <1>3, <1>4, <1>5, <1>6, <1>7, <1>9, <1>11 DEF CellIndexes, Kept
<1>15. Put(s, 2, new) \in Outcomes("over", s)
  BY <1>8, Meant
<1>16. Restacks(q, t2, e2, c2, 2, new)
  BY <1>9, <1>11, <1>12, <1>13, <1>14 DEF Restacks
<1> HIDE DEF e2, t2, c2
<1>17. Does("over", m, own, Machine(t2, e2, x.scratch, c2, m.rs, m.dp, m.heap))
  BY <1>15, <1>16, Stacked DEF q, s
<1> QED
  BY <1>10, <1>17, Zenon

LEMMA DropWord ==
    ASSUME NEW b, NEW m, NEW own, NEW r, Fit("drop", m, own, r), NEW fl, NEW x, Opened(fl, m, x),
           NEW code, "A" \notin fl /\ "B" \notin fl /\ "CLOB" \notin fl /\ "Y" \in fl /\ "Z" \in fl,
           Len(code) = 0
    PROVE  Does("drop", m, own, Closing(fl, Execute(b, "drop", code, x)))
<1> DEFINE q == InRegisters(m)
           s == StateOf(m, own)
           d == m.depth
           c == x.cells
           e == x.depth
           t == x.top
           t2 == c[e]
           e2 == e - 1
           c2 == c
           X == Nth(q, 1)
           new == <<>>
<1>1. Pops("drop") = 1
  BY PopsAre
<1>2. /\ s \in States /\ q \in Seq(Cell) /\ s.ds = q /\ s.rs = Returns(m.rs, own) /\ s.dp = m.dp
      /\ \A i \in 1..d : q[i] = c[i]
  BY <1>1, Basics
<1>3. Len(q) = d + 1 /\ d \in Int /\ d >= 0 /\ d <= MaxCells - 1 /\ MaxCells \in Int
  BY <1>1, Basics
<1>4. q[d + 1] = m.top /\ X = m.top
  BY <1>3, Basics
<1>5. x = Machine(t, e, x.scratch, c, m.rs, m.dp, m.heap) /\ c \in [CellIndexes -> Cell]
  BY DEF Opened
<1>6. t = m.top /\ e = d
  BY <1>3 DEF Opened
<1>7. X \in Cell
  <2>1. 1 \in 1..Len(q)
    BY <1>3
  <2> HIDE DEF q
  <2> QED
    BY <1>2, <2>1, TopCells
<1> HIDE DEF q, s, d, c, e, t, X
<1>8. Meaning("drop", s) = Put(s, 1, new)
  <2>1. Meaning("drop", s) = Put(s, 1, <<>>)
    BY DupMeanings, Zenon
  <2> QED
    BY <1>2, <2>1, Zenon DEF X
<1>9. new \in Seq(Cell) /\ Len(new) = 0
  BY <1>7
<1> HIDE DEF new
<1>10. Closing(fl, Execute(b, "drop", code, x)) = Machine(t2, e2, x.scratch, c2, m.rs, m.dp, m.heap)
  <2>1. e \in Int
    BY <1>3, <1>6
  <2>2. Closing(fl, Execute(b, "drop", code, Machine(t, e, x.scratch, c, m.rs, m.dp, m.heap))) =
            Machine(t2, e2, x.scratch, c2, m.rs, m.dp, m.heap)
    BY <2>1, DropEffect
  <2> QED
    BY <1>5, <2>2, Zenon
<1>11. 1 \in 0..Len(q) /\ d + 0 <= MaxCells
  <2>1. 1 \in 0..Len(q)
    BY <1>3
  <2>2. Len(q) - 1 + Len(new) <= MaxCells
    BY <1>8, <1>9, <2>1, Room DEF q, s
  <2> QED
    BY <1>3, <1>9, <2>1, <2>2
<1>12. e2 \in Int /\ t2 \in Cell /\ c2 \in [CellIndexes -> Cell] /\ e2 = Len(q) - 1 + Len(new) - 1
  BY <1>3, <1>4, <1>5, <1>6, <1>7, <1>9, <1>11 DEF CellIndexes, Kept
<1>13. \A i \in 1..(Len(q) - 1) : q[i] = IF i <= e2 THEN c2[i] ELSE t2
  BY <1>2, <1>3, <1>4, <1>5, <1>6, <1>11 DEF CellIndexes, Kept
<1>14. \A i \in 1..Len(new) : new[i] = IF Len(q) - 1 + i <= e2 THEN c2[Len(q) - 1 + i] ELSE t2
  BY <1>3, <1>4, <1>5, <1>6, <1>7, <1>9, <1>11 DEF CellIndexes, Kept
<1>15. Put(s, 1, new) \in Outcomes("drop", s)
  BY <1>8, Meant
<1>16. Restacks(q, t2, e2, c2, 1, new)
  BY <1>9, <1>11, <1>12, <1>13, <1>14 DEF Restacks
<1> HIDE DEF e2, t2, c2
<1>17. Does("drop", m, own, Machine(t2, e2, x.scratch, c2, m.rs, m.dp, m.heap))
  BY <1>15, <1>16, Stacked DEF q, s
<1> QED
  BY <1>10, <1>17, Zenon

LEMMA SwapWord ==
    ASSUME NEW b, NEW m, NEW own, NEW r, Fit("swap", m, own, r), NEW fl, NEW x, Opened(fl, m, x),
           NEW code, "A" \notin fl /\ "B" \notin fl /\ "CLOB" \notin fl /\ "Y" \notin fl /\ "Z" \notin fl,
           Len(code) = 3 /\ code[1] = "keep" /\ code[2] = "B" /\ code[3] = "move"
    PROVE  Does("swap", m, own, Closing(fl, Execute(b, "swap", code, x)))
<1> DEFINE q == InRegisters(m)
           s == StateOf(m, own)
           d == m.depth
           c == x.cells
           e == x.depth
           t == x.top
           t2 == c[e]
           e2 == e
           c2 == Kept(c, e, t)
           X == Nth(q, 1)
           Y == Nth(q, 2)
           new == <<X, Y>>
<1>1. Pops("swap") = 2
  BY PopsAre
<1>2. /\ s \in States /\ q \in Seq(Cell) /\ s.ds = q /\ s.rs = Returns(m.rs, own) /\ s.dp = m.dp
      /\ \A i \in 1..d : q[i] = c[i]
  BY <1>1, Basics
<1>3. Len(q) = d + 1 /\ d \in Int /\ d >= 1 /\ d <= MaxCells - 1 /\ MaxCells \in Int
  BY <1>1, Basics
<1>4. q[d + 1] = m.top /\ X = m.top /\ Y = c[d]
  BY <1>3, Basics
<1>5. x = Machine(t, e, x.scratch, c, m.rs, m.dp, m.heap) /\ c \in [CellIndexes -> Cell]
  BY DEF Opened
<1>6. t = m.top /\ e = d
  BY <1>3 DEF Opened
<1>7. X \in Cell /\ Y \in Cell
  <2>1. 1 \in 1..Len(q) /\ 2 \in 1..Len(q)
    BY <1>3
  <2> HIDE DEF q
  <2> QED
    BY <1>2, <2>1, TopCells
<1> HIDE DEF q, s, d, c, e, t, X, Y
<1>8. Meaning("swap", s) = Put(s, 2, new)
  <2>1. Meaning("swap", s) = Put(s, 2, <<Nth(s.ds, 1), Nth(s.ds, 2)>>)
    BY DupMeanings, Zenon
  <2> QED
    BY <1>2, <2>1, Zenon DEF X, Y
<1>9. new \in Seq(Cell) /\ Len(new) = 2 /\ new[1] = X /\ new[2] = Y
  BY <1>7
<1> HIDE DEF new
<1>10. Closing(fl, Execute(b, "swap", code, x)) = Machine(t2, e2, c[e], c2, m.rs, m.dp, m.heap)
  <2>1. e \in Int
    BY <1>3, <1>6
  <2>2. Closing(fl, Execute(b, "swap", code, Machine(t, e, x.scratch, c, m.rs, m.dp, m.heap))) =
            Machine(t2, e2, c[e], c2, m.rs, m.dp, m.heap)
    BY <2>1, SwapEffect
  <2> QED
    BY <1>5, <2>2, Zenon
<1>11. 2 \in 0..Len(q) /\ d + 1 <= MaxCells
  <2>1. 2 \in 0..Len(q)
    BY <1>3
  <2>2. Len(q) - 2 + Len(new) <= MaxCells
    BY <1>8, <1>9, <2>1, Room DEF q, s
  <2> QED
    BY <1>3, <1>9, <2>1, <2>2
<1>12. e2 \in Int /\ t2 \in Cell /\ c2 \in [CellIndexes -> Cell] /\ e2 = Len(q) - 2 + Len(new) - 1
  BY <1>3, <1>4, <1>5, <1>6, <1>7, <1>9, <1>11 DEF CellIndexes, Kept
<1>13. \A i \in 1..(Len(q) - 2) : q[i] = IF i <= e2 THEN c2[i] ELSE t2
  BY <1>2, <1>3, <1>4, <1>5, <1>6, <1>11 DEF CellIndexes, Kept
<1>14. \A i \in 1..Len(new) : new[i] = IF Len(q) - 2 + i <= e2 THEN c2[Len(q) - 2 + i] ELSE t2
  BY <1>3, <1>4, <1>5, <1>6, <1>7, <1>9, <1>11 DEF CellIndexes, Kept
<1>15. Put(s, 2, new) \in Outcomes("swap", s)
  BY <1>8, Meant
<1>16. Restacks(q, t2, e2, c2, 2, new)
  BY <1>9, <1>11, <1>12, <1>13, <1>14 DEF Restacks
<1> HIDE DEF e2, t2, c2
<1>17. Does("swap", m, own, Machine(t2, e2, c[e], c2, m.rs, m.dp, m.heap))
  BY <1>15, <1>16, Stacked DEF q, s
<1> QED
  BY <1>10, <1>17, Zenon

LEMMA RotWord ==
    ASSUME NEW b, NEW m, NEW own, NEW r, Fit("rot", m, own, r), NEW fl, NEW x, Opened(fl, m, x),
           NEW code, "A" \notin fl /\ "B" \notin fl /\ "CLOB" \notin fl /\ "Y" \notin fl /\ "Z" \notin fl,
           Len(code) = 4 /\ code[1] = "keep" /\ code[2] = "B" /\ code[3] = "load1" /\ code[4] = "put1"
    PROVE  Does("rot", m, own, Closing(fl, Execute(b, "rot", code, x)))
<1> DEFINE q == InRegisters(m)
           s == StateOf(m, own)
           d == m.depth
           c == x.cells
           e == x.depth
           t == x.top
           t2 == Kept(c, e, t)[e - 1]
           e2 == e
           c2 == Kept(Kept(c, e, t), e - 1, c[e])
           X == Nth(q, 1)
           Y == Nth(q, 2)
           V == Nth(q, 3)
           new == <<Y, X, V>>
<1>1. Pops("rot") = 3
  BY PopsAre
<1>2. /\ s \in States /\ q \in Seq(Cell) /\ s.ds = q /\ s.rs = Returns(m.rs, own) /\ s.dp = m.dp
      /\ \A i \in 1..d : q[i] = c[i]
  BY <1>1, Basics
<1>3. Len(q) = d + 1 /\ d \in Int /\ d >= 2 /\ d <= MaxCells - 1 /\ MaxCells \in Int
  BY <1>1, Basics
<1>4. q[d + 1] = m.top /\ X = m.top /\ Y = c[d] /\ V = c[d - 1]
  BY <1>3, Basics
<1>5. x = Machine(t, e, x.scratch, c, m.rs, m.dp, m.heap) /\ c \in [CellIndexes -> Cell]
  BY DEF Opened
<1>6. t = m.top /\ e = d
  BY <1>3 DEF Opened
<1>7. X \in Cell /\ Y \in Cell /\ V \in Cell
  <2>1. 1 \in 1..Len(q) /\ 2 \in 1..Len(q) /\ 3 \in 1..Len(q)
    BY <1>3
  <2> HIDE DEF q
  <2> QED
    BY <1>2, <2>1, TopCells
<1> HIDE DEF q, s, d, c, e, t, X, Y, V
<1>8. Meaning("rot", s) = Put(s, 3, new)
  <2>1. Meaning("rot", s) = Put(s, 3, <<Nth(s.ds, 2), Nth(s.ds, 1), Nth(s.ds, 3)>>)
    BY RotMeanings, Zenon
  <2> QED
    BY <1>2, <2>1, Zenon DEF X, Y, V
<1>9. new \in Seq(Cell) /\ Len(new) = 3 /\ new[1] = Y /\ new[2] = X /\ new[3] = V
  BY <1>7
<1> HIDE DEF new
<1>10. Closing(fl, Execute(b, "rot", code, x)) = Machine(t2, e2, c[e], c2, m.rs, m.dp, m.heap)
  <2>1. e \in Int
    BY <1>3, <1>6
  <2>2. Closing(fl, Execute(b, "rot", code, Machine(t, e, x.scratch, c, m.rs, m.dp, m.heap))) =
            Machine(t2, e2, c[e], c2, m.rs, m.dp, m.heap)
    BY <2>1, RotEffect
  <2> QED
    BY <1>5, <2>2, Zenon
<1>11. 3 \in 0..Len(q) /\ d + 1 <= MaxCells
  <2>1. 3 \in 0..Len(q)
    BY <1>3
  <2>2. Len(q) - 3 + Len(new) <= MaxCells
    BY <1>8, <1>9, <2>1, Room DEF q, s
  <2> QED
    BY <1>3, <1>9, <2>1, <2>2
<1>12. e2 \in Int /\ t2 \in Cell /\ c2 \in [CellIndexes -> Cell] /\ e2 = Len(q) - 3 + Len(new) - 1
  BY <1>3, <1>4, <1>5, <1>6, <1>7, <1>9, <1>11 DEF CellIndexes, Kept
<1>13. \A i \in 1..(Len(q) - 3) : q[i] = IF i <= e2 THEN c2[i] ELSE t2
  BY <1>2, <1>3, <1>4, <1>5, <1>6, <1>11 DEF CellIndexes, Kept
<1>14. \A i \in 1..Len(new) : new[i] = IF Len(q) - 3 + i <= e2 THEN c2[Len(q) - 3 + i] ELSE t2
  BY <1>3, <1>4, <1>5, <1>6, <1>7, <1>9, <1>11 DEF CellIndexes, Kept
<1>15. Put(s, 3, new) \in Outcomes("rot", s)
  BY <1>8, Meant
<1>16. Restacks(q, t2, e2, c2, 3, new)
  BY <1>9, <1>11, <1>12, <1>13, <1>14 DEF Restacks
<1> HIDE DEF e2, t2, c2
<1>17. Does("rot", m, own, Machine(t2, e2, c[e], c2, m.rs, m.dp, m.heap))
  BY <1>15, <1>16, Stacked DEF q, s
<1> QED
  BY <1>10, <1>17, Zenon

LEMMA PickWord ==
    ASSUME NEW b, NEW m, NEW own, NEW r, Fit("pick", m, own, r), NEW fl, NEW x, Opened(fl, m, x),
           NEW code, "A" \notin fl /\ "B" \notin fl /\ "CLOB" \notin fl /\ "Y" \notin fl /\ "Z" \notin fl,
           Len(code) = 1 /\ code[1] = "pick"
    PROVE  Does("pick", m, own, Closing(fl, Execute(b, "pick", code, x)))
<1> DEFINE q == InRegisters(m)
           s == StateOf(m, own)
           d == m.depth
           c == x.cells
           e == x.depth
           t == x.top
           t2 == c[e - t]
           e2 == e
           c2 == c
           X == Nth(q, 1)
           U == Nth(q, Nth(q, 1) + 2)
           new == <<U>>
<1>1. Pops("pick") = 1
  BY PopsAre
<1>2. /\ s \in States /\ q \in Seq(Cell) /\ s.ds = q /\ s.rs = Returns(m.rs, own) /\ s.dp = m.dp
      /\ \A i \in 1..d : q[i] = c[i]
  BY <1>1, Basics
<1>3. Len(q) = d + 1 /\ d \in Int /\ d >= 0 /\ d <= MaxCells - 1 /\ MaxCells \in Int
  BY <1>1, Basics
<1>4. q[d + 1] = m.top /\ X = m.top
  BY <1>3, Basics
<1>5. x = Machine(t, e, x.scratch, c, m.rs, m.dp, m.heap) /\ c \in [CellIndexes -> Cell]
  BY DEF Opened
<1>6. t = m.top /\ e = d
  BY <1>3 DEF Opened
<1>7. X \in Cell
  <2>1. 1 \in 1..Len(q)
    BY <1>3
  <2> HIDE DEF q
  <2> QED
    BY <1>2, <2>1, TopCells
<1> HIDE DEF q, s, d, c, e, t, X, U
<1>u. U \in Cell /\ U = c[e - t] /\ e - t \in CellIndexes
  <2>1. X >= 0 /\ Len(q) - 1 > X
    <3>1. Defined("pick", s) /\ Enough("pick", s, r)
      BY DEF Fit, s
    <3>2. Nth(s.ds, 1) >= 0
      BY <3>1 DEF Defined
    <3>3. Len(s.ds) - 1 > Nth(s.ds, 1)
      BY <3>1 DEF Enough
    <3> QED
      BY <1>2, <3>2, <3>3 DEF X
  <2>2. X + 2 \in 1..Len(q) /\ Len(q) + 1 - (X + 2) = d - X /\ d - X \in 1..d
    BY <1>3, <1>7, <2>1, Integer
  <2>3. U = q[d - X] /\ U \in Cell
    BY <1>2, <2>2, TopCells DEF U, Nth, X
  <2> QED
    BY <1>2, <1>3, <1>4, <1>6, <2>2, <2>3 DEF CellIndexes
<1>8. Meaning("pick", s) = Put(s, 1, new)
  <2>1. Meaning("pick", s) = Put(s, 1, <<Nth(s.ds, Nth(s.ds, 1) + 2)>>)
    BY RotMeanings, Zenon
  <2> QED
    BY <1>2, <2>1, Zenon DEF X, U
<1>9. new \in Seq(Cell) /\ Len(new) = 1 /\ new[1] = U
  BY <1>7, <1>u
<1> HIDE DEF new
<1>10. Closing(fl, Execute(b, "pick", code, x)) = Machine(t2, e2, x.scratch, c2, m.rs, m.dp, m.heap)
  <2>1. e \in Int
    BY <1>3, <1>6
  <2>2. Closing(fl, Execute(b, "pick", code, Machine(t, e, x.scratch, c, m.rs, m.dp, m.heap))) =
            Machine(t2, e2, x.scratch, c2, m.rs, m.dp, m.heap)
    BY <2>1, PickEffect
  <2> QED
    BY <1>5, <2>2, Zenon
<1>11. 1 \in 0..Len(q) /\ d + 1 <= MaxCells
  BY <1>3
<1>12. e2 \in Int /\ t2 \in Cell /\ c2 \in [CellIndexes -> Cell] /\ e2 = Len(q) - 1 + Len(new) - 1
  BY <1>3, <1>4, <1>5, <1>6, <1>7, <1>9, <1>11, <1>u DEF CellIndexes, Kept
<1>13. \A i \in 1..(Len(q) - 1) : q[i] = IF i <= e2 THEN c2[i] ELSE t2
  BY <1>2, <1>3, <1>4, <1>5, <1>6, <1>11 DEF CellIndexes, Kept
<1>14. \A i \in 1..Len(new) : new[i] = IF Len(q) - 1 + i <= e2 THEN c2[Len(q) - 1 + i] ELSE t2
  BY <1>3, <1>4, <1>5, <1>6, <1>7, <1>9, <1>11, <1>u DEF CellIndexes, Kept
<1>15. Put(s, 1, new) \in Outcomes("pick", s)
  BY <1>8, Meant
<1>16. Restacks(q, t2, e2, c2, 1, new)
  BY <1>9, <1>11, <1>12, <1>13, <1>14 DEF Restacks
<1> HIDE DEF e2, t2, c2
<1>17. Does("pick", m, own, Machine(t2, e2, x.scratch, c2, m.rs, m.dp, m.heap))
  BY <1>15, <1>16, Stacked DEF q, s
<1> QED
  BY <1>10, <1>17, Zenon

LEMMA DepthWord ==
    ASSUME NEW b, NEW m, NEW own, NEW r, Fit("depth", m, own, r), NEW fl, NEW x, Opened(fl, m, x),
           NEW code, "A" \in fl /\ "B" \in fl /\ "CLOB" \in fl /\ "Y" \notin fl /\ "Z" \notin fl,
           Len(code) = 1 /\ code[1] = "depth"
    PROVE  Does("depth", m, own, Closing(fl, Execute(b, "depth", code, x)))
<1> DEFINE q == InRegisters(m)
           s == StateOf(m, own)
           d == m.depth
           c == x.cells
           e == x.depth
           t == x.top
           t2 == e
           e2 == e
           c2 == c
           U == Len(q)
           new == <<U>>
<1>1. Pops("depth") = 0
  BY PopsAre
<1>2. /\ s \in States /\ q \in Seq(Cell) /\ s.ds = q /\ s.rs = Returns(m.rs, own) /\ s.dp = m.dp
      /\ \A i \in 1..d : q[i] = c[i]
  BY <1>1, Basics
<1>3. Len(q) = d + 1 /\ d \in Int /\ d >= -1 /\ d <= MaxCells - 1 /\ MaxCells \in Int
  BY <1>1, Basics
<1>4. (d >= 0 => q[d + 1] = m.top)
  BY <1>3, Basics
<1>5. x = Machine(t, e, x.scratch, c, m.rs, m.dp, m.heap) /\ c \in [CellIndexes -> Cell]
  BY DEF Opened
<1>6. e = d + 1 /\ (e \in CellIndexes => c[e] = m.top)
  BY <1>3 DEF Opened
<1> HIDE DEF q, s, d, c, e, t, U
<1>u. U \in Cell /\ U = e
  <2>1. Len(q) \in Nat /\ Len(q) <= MaxCells /\ Len(q) = e
    BY <1>3, <1>6
  <2> QED
    BY <2>1, Depths DEF U
<1>8. Meaning("depth", s) = Put(s, 0, new)
  <2>1. Meaning("depth", s) = Put(s, 0, <<Len(s.ds)>>)
    BY RotMeanings, Zenon
  <2> QED
    BY <1>2, <2>1, Zenon DEF U
<1>9. new \in Seq(Cell) /\ Len(new) = 1 /\ new[1] = U
  BY <1>u
<1> HIDE DEF new
<1>10. Closing(fl, Execute(b, "depth", code, x)) = Machine(t2, e2, x.scratch, c2, m.rs, m.dp, m.heap)
  <2>1. e \in Int
    BY <1>3, <1>6
  <2>2. Closing(fl, Execute(b, "depth", code, Machine(t, e, x.scratch, c, m.rs, m.dp, m.heap))) =
            Machine(t2, e2, x.scratch, c2, m.rs, m.dp, m.heap)
    BY <2>1, DepthEffect
  <2> QED
    BY <1>5, <2>2, Zenon
<1>11. 0 \in 0..Len(q) /\ d + 2 <= MaxCells
  <2>1. 0 \in 0..Len(q)
    BY <1>3
  <2>2. Len(q) - 0 + Len(new) <= MaxCells
    BY <1>8, <1>9, <2>1, Room DEF q, s
  <2> QED
    BY <1>3, <1>9, <2>1, <2>2
<1>12. e2 \in Int /\ t2 \in Cell /\ c2 \in [CellIndexes -> Cell] /\ e2 = Len(q) - 0 + Len(new) - 1
  BY <1>3, <1>4, <1>5, <1>6, <1>9, <1>11, <1>u DEF CellIndexes, Kept
<1>13. \A i \in 1..(Len(q) - 0) : q[i] = IF i <= e2 THEN c2[i] ELSE t2
  BY <1>2, <1>3, <1>4, <1>5, <1>6, <1>11 DEF CellIndexes, Kept
<1>14. \A i \in 1..Len(new) : new[i] = IF Len(q) - 0 + i <= e2 THEN c2[Len(q) - 0 + i] ELSE t2
  BY <1>3, <1>4, <1>5, <1>6, <1>9, <1>11, <1>u DEF CellIndexes, Kept
<1>15. Put(s, 0, new) \in Outcomes("depth", s)
  BY <1>8, Meant
<1>16. Restacks(q, t2, e2, c2, 0, new)
  BY <1>9, <1>11, <1>12, <1>13, <1>14 DEF Restacks
<1> HIDE DEF e2, t2, c2
<1>17. Does("depth", m, own, Machine(t2, e2, x.scratch, c2, m.rs, m.dp, m.heap))
  BY <1>15, <1>16, Stacked DEF q, s
<1> QED
  BY <1>10, <1>17, Zenon

LEMMA HereWord ==
    ASSUME NEW b, NEW m, NEW own, NEW r, Fit("here", m, own, r), NEW fl, NEW x, Opened(fl, m, x),
           NEW code, "A" \in fl /\ "B" \in fl /\ "CLOB" \in fl /\ "Y" \notin fl /\ "Z" \notin fl,
           Len(code) = 1 /\ code[1] = "here"
    PROVE  Does("here", m, own, Closing(fl, Execute(b, "here", code, x)))
<1> DEFINE q == InRegisters(m)
           s == StateOf(m, own)
           d == m.depth
           c == x.cells
           e == x.depth
           t == x.top
           t2 == m.dp
           e2 == e
           c2 == c
           U == m.dp
           new == <<U>>
<1>1. Pops("here") = 0
  BY PopsAre
<1>2. /\ s \in States /\ q \in Seq(Cell) /\ s.ds = q /\ s.rs = Returns(m.rs, own) /\ s.dp = m.dp
      /\ \A i \in 1..d : q[i] = c[i]
  BY <1>1, Basics
<1>3. Len(q) = d + 1 /\ d \in Int /\ d >= -1 /\ d <= MaxCells - 1 /\ MaxCells \in Int
  BY <1>1, Basics
<1>4. (d >= 0 => q[d + 1] = m.top)
  BY <1>3, Basics
<1>5. x = Machine(t, e, x.scratch, c, m.rs, m.dp, m.heap) /\ c \in [CellIndexes -> Cell]
  BY DEF Opened
<1>6. e = d + 1 /\ (e \in CellIndexes => c[e] = m.top)
  BY <1>3 DEF Opened
<1> HIDE DEF q, s, d, c, e, t, U
<1>u. U \in Cell /\ U = m.dp
  <2>1. m.dp \in Bottom..Limit
    BY DEF Fit, IsMachine
  <2> QED
    BY <2>1, Spaces DEF U
<1>8. Meaning("here", s) = Put(s, 0, new)
  <2>1. Meaning("here", s) = Put(s, 0, <<s.dp>>)
    BY HereMeanings, Zenon
  <2> QED
    BY <1>2, <2>1, Zenon DEF U
<1>9. new \in Seq(Cell) /\ Len(new) = 1 /\ new[1] = U
  BY <1>u
<1> HIDE DEF new
<1>10. Closing(fl, Execute(b, "here", code, x)) = Machine(t2, e2, x.scratch, c2, m.rs, m.dp, m.heap)
  <2>1. e \in Int
    BY <1>3, <1>6
  <2>2. Closing(fl, Execute(b, "here", code, Machine(t, e, x.scratch, c, m.rs, m.dp, m.heap))) =
            Machine(t2, e2, x.scratch, c2, m.rs, m.dp, m.heap)
    BY <2>1, HereEffect
  <2> QED
    BY <1>5, <2>2, Zenon
<1>11. 0 \in 0..Len(q) /\ d + 2 <= MaxCells
  <2>1. 0 \in 0..Len(q)
    BY <1>3
  <2>2. Len(q) - 0 + Len(new) <= MaxCells
    BY <1>8, <1>9, <2>1, Room DEF q, s
  <2> QED
    BY <1>3, <1>9, <2>1, <2>2
<1>12. e2 \in Int /\ t2 \in Cell /\ c2 \in [CellIndexes -> Cell] /\ e2 = Len(q) - 0 + Len(new) - 1
  BY <1>3, <1>4, <1>5, <1>6, <1>9, <1>11, <1>u DEF CellIndexes, Kept
<1>13. \A i \in 1..(Len(q) - 0) : q[i] = IF i <= e2 THEN c2[i] ELSE t2
  BY <1>2, <1>3, <1>4, <1>5, <1>6, <1>11 DEF CellIndexes, Kept
<1>14. \A i \in 1..Len(new) : new[i] = IF Len(q) - 0 + i <= e2 THEN c2[Len(q) - 0 + i] ELSE t2
  BY <1>3, <1>4, <1>5, <1>6, <1>9, <1>11, <1>u DEF CellIndexes, Kept
<1>15. Put(s, 0, new) \in Outcomes("here", s)
  BY <1>8, Meant
<1>16. Restacks(q, t2, e2, c2, 0, new)
  BY <1>9, <1>11, <1>12, <1>13, <1>14 DEF Restacks
<1> HIDE DEF e2, t2, c2
<1>17. Does("here", m, own, Machine(t2, e2, x.scratch, c2, m.rs, m.dp, m.heap))
  BY <1>15, <1>16, Stacked DEF q, s
<1> QED
  BY <1>10, <1>17, Zenon

LEMMA Drop2Word ==
    ASSUME NEW b, NEW m, NEW own, NEW r, Fit("2drop", m, own, r), NEW fl, NEW x, Opened(fl, m, x),
           NEW code, "A" \notin fl /\ "B" \notin fl /\ "CLOB" \notin fl /\ "Y" \in fl /\ "Z" \in fl,
           Len(code) = 1 /\ code[1] = "Z"
    PROVE  Does("2drop", m, own, Closing(fl, Execute(b, "2drop", code, x)))
<1> DEFINE q == InRegisters(m)
           s == StateOf(m, own)
           d == m.depth
           c == x.cells
           e == x.depth
           t == x.top
           t2 == c[e - 1]
           e2 == e - 2
           c2 == c
           X == Nth(q, 1)
           Y == Nth(q, 2)
           new == <<>>
<1>1. Pops("2drop") = 2
  BY PopsAre
<1>2. /\ s \in States /\ q \in Seq(Cell) /\ s.ds = q /\ s.rs = Returns(m.rs, own) /\ s.dp = m.dp
      /\ \A i \in 1..d : q[i] = c[i]
  BY <1>1, Basics
<1>3. Len(q) = d + 1 /\ d \in Int /\ d >= 1 /\ d <= MaxCells - 1 /\ MaxCells \in Int
  BY <1>1, Basics
<1>4. q[d + 1] = m.top /\ X = m.top /\ Y = c[d]
  BY <1>3, Basics
<1>5. x = Machine(t, e, x.scratch, c, m.rs, m.dp, m.heap) /\ c \in [CellIndexes -> Cell]
  BY DEF Opened
<1>6. t = m.top /\ e = d
  BY <1>3 DEF Opened
<1>7. X \in Cell /\ Y \in Cell
  <2>1. 1 \in 1..Len(q) /\ 2 \in 1..Len(q)
    BY <1>3
  <2> HIDE DEF q
  <2> QED
    BY <1>2, <2>1, TopCells
<1> HIDE DEF q, s, d, c, e, t, X, Y
<1>8. Meaning("2drop", s) = Put(s, 2, new)
  <2>1. Meaning("2drop", s) = Put(s, 2, <<>>)
    BY HereMeanings, Zenon
  <2> QED
    BY <1>2, <2>1, Zenon DEF X, Y
<1>9. new \in Seq(Cell) /\ Len(new) = 0
  BY <1>7
<1> HIDE DEF new
<1>10. Closing(fl, Execute(b, "2drop", code, x)) = Machine(t2, e2, x.scratch, c2, m.rs, m.dp, m.heap)
  <2>1. e \in Int
    BY <1>3, <1>6
  <2>2. Closing(fl, Execute(b, "2drop", code, Machine(t, e, x.scratch, c, m.rs, m.dp, m.heap))) =
            Machine(t2, e2, x.scratch, c2, m.rs, m.dp, m.heap)
    BY <2>1, Drop2Effect
  <2> QED
    BY <1>5, <2>2, Zenon
<1>11. 2 \in 0..Len(q) /\ d + -1 <= MaxCells
  <2>1. 2 \in 0..Len(q)
    BY <1>3
  <2>2. Len(q) - 2 + Len(new) <= MaxCells
    BY <1>8, <1>9, <2>1, Room DEF q, s
  <2> QED
    BY <1>3, <1>9, <2>1, <2>2
<1>12. e2 \in Int /\ t2 \in Cell /\ c2 \in [CellIndexes -> Cell] /\ e2 = Len(q) - 2 + Len(new) - 1
  BY <1>3, <1>4, <1>5, <1>6, <1>7, <1>9, <1>11 DEF CellIndexes, Kept
<1>13. \A i \in 1..(Len(q) - 2) : q[i] = IF i <= e2 THEN c2[i] ELSE t2
  BY <1>2, <1>3, <1>4, <1>5, <1>6, <1>11 DEF CellIndexes, Kept
<1>14. \A i \in 1..Len(new) : new[i] = IF Len(q) - 2 + i <= e2 THEN c2[Len(q) - 2 + i] ELSE t2
  BY <1>3, <1>4, <1>5, <1>6, <1>7, <1>9, <1>11 DEF CellIndexes, Kept
<1>15. Put(s, 2, new) \in Outcomes("2drop", s)
  BY <1>8, Meant
<1>16. Restacks(q, t2, e2, c2, 2, new)
  BY <1>9, <1>11, <1>12, <1>13, <1>14 DEF Restacks
<1> HIDE DEF e2, t2, c2
<1>17. Does("2drop", m, own, Machine(t2, e2, x.scratch, c2, m.rs, m.dp, m.heap))
  BY <1>15, <1>16, Stacked DEF q, s
<1> QED
  BY <1>10, <1>17, Zenon

LEMMA TuckWord ==
    ASSUME NEW b, NEW m, NEW own, NEW r, Fit("tuck", m, own, r), NEW fl, NEW x, Opened(fl, m, x),
           NEW code, "A" \in fl /\ "B" \notin fl /\ "CLOB" \notin fl /\ "Y" \notin fl /\ "Z" \notin fl,
           Len(code) = 3 /\ code[1] = "keep1" /\ code[2] = "put" /\ code[3] = "store1"
    PROVE  Does("tuck", m, own, Closing(fl, Execute(b, "tuck", code, x)))
<1> DEFINE q == InRegisters(m)
           s == StateOf(m, own)
           d == m.depth
           c == x.cells
           e == x.depth
           t == x.top
           t2 == t
           e2 == e
           c2 == Kept(Kept(c, e, c[e - 1]), e - 1, t)
           X == Nth(q, 1)
           Y == Nth(q, 2)
           new == <<X, Y, X>>
<1>1. Pops("tuck") = 2
  BY PopsAre
<1>2. /\ s \in States /\ q \in Seq(Cell) /\ s.ds = q /\ s.rs = Returns(m.rs, own) /\ s.dp = m.dp
      /\ \A i \in 1..d : q[i] = c[i]
  BY <1>1, Basics
<1>3. Len(q) = d + 1 /\ d \in Int /\ d >= 1 /\ d <= MaxCells - 1 /\ MaxCells \in Int
  BY <1>1, Basics
<1>4. q[d + 1] = m.top /\ X = m.top /\ Y = c[d]
  BY <1>3, Basics
<1>5. x = Machine(t, e, x.scratch, c, m.rs, m.dp, m.heap) /\ c \in [CellIndexes -> Cell]
  BY DEF Opened
<1>6. t = m.top /\ e = d + 1
  BY <1>3 DEF Opened
<1>7. X \in Cell /\ Y \in Cell
  <2>1. 1 \in 1..Len(q) /\ 2 \in 1..Len(q)
    BY <1>3
  <2> HIDE DEF q
  <2> QED
    BY <1>2, <2>1, TopCells
<1> HIDE DEF q, s, d, c, e, t, X, Y
<1>8. Meaning("tuck", s) = Put(s, 2, new)
  <2>1. Meaning("tuck", s) = Put(s, 2, <<Nth(s.ds, 1), Nth(s.ds, 2), Nth(s.ds, 1)>>)
    BY HereMeanings, Zenon
  <2> QED
    BY <1>2, <2>1, Zenon DEF X, Y
<1>9. new \in Seq(Cell) /\ Len(new) = 3 /\ new[1] = X /\ new[2] = Y /\ new[3] = X
  BY <1>7
<1> HIDE DEF new
<1>10. Closing(fl, Execute(b, "tuck", code, x)) = Machine(t2, e2, c[e - 1], c2, m.rs, m.dp, m.heap)
  <2>1. e \in Int
    BY <1>3, <1>6
  <2>2. Closing(fl, Execute(b, "tuck", code, Machine(t, e, x.scratch, c, m.rs, m.dp, m.heap))) =
            Machine(t2, e2, c[e - 1], c2, m.rs, m.dp, m.heap)
    BY <2>1, TuckEffect
  <2> QED
    BY <1>5, <2>2, Zenon
<1>11. 2 \in 0..Len(q) /\ d + 2 <= MaxCells
  <2>1. 2 \in 0..Len(q)
    BY <1>3
  <2>2. Len(q) - 2 + Len(new) <= MaxCells
    BY <1>8, <1>9, <2>1, Room DEF q, s
  <2> QED
    BY <1>3, <1>9, <2>1, <2>2
<1>12. e2 \in Int /\ t2 \in Cell /\ c2 \in [CellIndexes -> Cell] /\ e2 = Len(q) - 2 + Len(new) - 1
  BY <1>3, <1>4, <1>5, <1>6, <1>7, <1>9, <1>11 DEF CellIndexes, Kept
<1>13. \A i \in 1..(Len(q) - 2) : q[i] = IF i <= e2 THEN c2[i] ELSE t2
  BY <1>2, <1>3, <1>4, <1>5, <1>6, <1>11 DEF CellIndexes, Kept
<1>14. \A i \in 1..Len(new) : new[i] = IF Len(q) - 2 + i <= e2 THEN c2[Len(q) - 2 + i] ELSE t2
  BY <1>3, <1>4, <1>5, <1>6, <1>7, <1>9, <1>11 DEF CellIndexes, Kept
<1>15. Put(s, 2, new) \in Outcomes("tuck", s)
  BY <1>8, Meant
<1>16. Restacks(q, t2, e2, c2, 2, new)
  BY <1>9, <1>11, <1>12, <1>13, <1>14 DEF Restacks
<1> HIDE DEF e2, t2, c2
<1>17. Does("tuck", m, own, Machine(t2, e2, c[e - 1], c2, m.rs, m.dp, m.heap))
  BY <1>15, <1>16, Stacked DEF q, s
<1> QED
  BY <1>10, <1>17, Zenon

LEMMA Dup2Word ==
    ASSUME NEW b, NEW m, NEW own, NEW r, Fit("2dup", m, own, r), NEW fl, NEW x, Opened(fl, m, x),
           NEW code, "A" \in fl /\ "B" \in fl /\ "CLOB" \notin fl /\ "Y" \notin fl /\ "Z" \notin fl,
           Len(code) = 3 /\ code[1] = "keep1" /\ code[2] = "A" /\ code[3] = "put"
    PROVE  Does("2dup", m, own, Closing(fl, Execute(b, "2dup", code, x)))
<1> DEFINE q == InRegisters(m)
           s == StateOf(m, own)
           d == m.depth
           c == x.cells
           e == x.depth
           t == x.top
           t2 == t
           e2 == e + 1
           c2 == Kept(c, e + 1, c[e - 1])
           X == Nth(q, 1)
           Y == Nth(q, 2)
           new == <<Y, X, Y, X>>
<1>1. Pops("2dup") = 2
  BY PopsAre
<1>2. /\ s \in States /\ q \in Seq(Cell) /\ s.ds = q /\ s.rs = Returns(m.rs, own) /\ s.dp = m.dp
      /\ \A i \in 1..d : q[i] = c[i]
  BY <1>1, Basics
<1>3. Len(q) = d + 1 /\ d \in Int /\ d >= 1 /\ d <= MaxCells - 1 /\ MaxCells \in Int
  BY <1>1, Basics
<1>4. q[d + 1] = m.top /\ X = m.top /\ Y = c[d]
  BY <1>3, Basics
<1>5. x = Machine(t, e, x.scratch, c, m.rs, m.dp, m.heap) /\ c \in [CellIndexes -> Cell]
  BY DEF Opened
<1>6. t = m.top /\ e = d + 1 /\ (e \in CellIndexes => c[e] = m.top)
  BY <1>3 DEF Opened
<1>7. X \in Cell /\ Y \in Cell
  <2>1. 1 \in 1..Len(q) /\ 2 \in 1..Len(q)
    BY <1>3
  <2> HIDE DEF q
  <2> QED
    BY <1>2, <2>1, TopCells
<1> HIDE DEF q, s, d, c, e, t, X, Y
<1>8. Meaning("2dup", s) = Put(s, 2, new)
  <2>1. Meaning("2dup", s) = Put(s, 2, <<Nth(s.ds, 2), Nth(s.ds, 1), Nth(s.ds, 2), Nth(s.ds, 1)>>)
    BY HalveMeanings, Zenon
  <2> QED
    BY <1>2, <2>1, Zenon DEF X, Y
<1>9. new \in Seq(Cell) /\ Len(new) = 4 /\ new[1] = Y /\ new[2] = X /\ new[3] = Y /\ new[4] = X
  BY <1>7
<1> HIDE DEF new
<1>10. Closing(fl, Execute(b, "2dup", code, x)) = Machine(t2, e2, c[e - 1], c2, m.rs, m.dp, m.heap)
  <2>1. e \in Int
    BY <1>3, <1>6
  <2>2. Closing(fl, Execute(b, "2dup", code, Machine(t, e, x.scratch, c, m.rs, m.dp, m.heap))) =
            Machine(t2, e2, c[e - 1], c2, m.rs, m.dp, m.heap)
    BY <2>1, Dup2Effect
  <2> QED
    BY <1>5, <2>2, Zenon
<1>11. 2 \in 0..Len(q) /\ d + 3 <= MaxCells
  <2>1. 2 \in 0..Len(q)
    BY <1>3
  <2>2. Len(q) - 2 + Len(new) <= MaxCells
    BY <1>8, <1>9, <2>1, Room DEF q, s
  <2> QED
    BY <1>3, <1>9, <2>1, <2>2
<1>12. e2 \in Int /\ t2 \in Cell /\ c2 \in [CellIndexes -> Cell] /\ e2 = Len(q) - 2 + Len(new) - 1
  BY <1>3, <1>4, <1>5, <1>6, <1>7, <1>9, <1>11 DEF CellIndexes, Kept
<1>13. \A i \in 1..(Len(q) - 2) : q[i] = IF i <= e2 THEN c2[i] ELSE t2
  BY <1>2, <1>3, <1>4, <1>5, <1>6, <1>11 DEF CellIndexes, Kept
<1>14. \A i \in 1..Len(new) : new[i] = IF Len(q) - 2 + i <= e2 THEN c2[Len(q) - 2 + i] ELSE t2
  BY <1>3, <1>4, <1>5, <1>6, <1>7, <1>9, <1>11 DEF CellIndexes, Kept
<1>15. Put(s, 2, new) \in Outcomes("2dup", s)
  BY <1>8, Meant
<1>16. Restacks(q, t2, e2, c2, 2, new)
  BY <1>9, <1>11, <1>12, <1>13, <1>14 DEF Restacks
<1> HIDE DEF e2, t2, c2
<1>17. Does("2dup", m, own, Machine(t2, e2, c[e - 1], c2, m.rs, m.dp, m.heap))
  BY <1>15, <1>16, Stacked DEF q, s
<1> QED
  BY <1>10, <1>17, Zenon

LEMMA NipWord ==
    ASSUME NEW b, NEW m, NEW own, NEW r, Fit("nip", m, own, r), NEW fl, NEW x, Opened(fl, m, x),
           NEW code, "A" \notin fl /\ "B" \notin fl /\ "CLOB" \notin fl /\ "Y" \notin fl /\ "Z" \in fl,
           Len(code) = 0
    PROVE  Does("nip", m, own, Closing(fl, Execute(b, "nip", code, x)))
<1> DEFINE q == InRegisters(m)
           s == StateOf(m, own)
           d == m.depth
           c == x.cells
           e == x.depth
           t == x.top
           t2 == t
           e2 == e - 1
           c2 == c
           X == Nth(q, 1)
           Y == Nth(q, 2)
           new == <<X>>
<1>1. Pops("nip") = 2
  BY PopsAre
<1>2. /\ s \in States /\ q \in Seq(Cell) /\ s.ds = q /\ s.rs = Returns(m.rs, own) /\ s.dp = m.dp
      /\ \A i \in 1..d : q[i] = c[i]
  BY <1>1, Basics
<1>3. Len(q) = d + 1 /\ d \in Int /\ d >= 1 /\ d <= MaxCells - 1 /\ MaxCells \in Int
  BY <1>1, Basics
<1>4. q[d + 1] = m.top /\ X = m.top /\ Y = c[d]
  BY <1>3, Basics
<1>5. x = Machine(t, e, x.scratch, c, m.rs, m.dp, m.heap) /\ c \in [CellIndexes -> Cell]
  BY DEF Opened
<1>6. t = m.top /\ e = d
  BY <1>3 DEF Opened
<1>7. X \in Cell /\ Y \in Cell
  <2>1. 1 \in 1..Len(q) /\ 2 \in 1..Len(q)
    BY <1>3
  <2> HIDE DEF q
  <2> QED
    BY <1>2, <2>1, TopCells
<1> HIDE DEF q, s, d, c, e, t, X, Y
<1>8. Meaning("nip", s) = Put(s, 2, new)
  <2>1. Meaning("nip", s) = Put(s, 2, <<Nth(s.ds, 1)>>)
    BY HalveMeanings, Zenon
  <2> QED
    BY <1>2, <2>1, Zenon DEF X, Y
<1>9. new \in Seq(Cell) /\ Len(new) = 1 /\ new[1] = X
  BY <1>7
<1> HIDE DEF new
<1>10. Closing(fl, Execute(b, "nip", code, x)) = Machine(t2, e2, x.scratch, c2, m.rs, m.dp, m.heap)
  <2>1. e \in Int
    BY <1>3, <1>6
  <2>2. Closing(fl, Execute(b, "nip", code, Machine(t, e, x.scratch, c, m.rs, m.dp, m.heap))) =
            Machine(t2, e2, x.scratch, c2, m.rs, m.dp, m.heap)
    BY <2>1, NipEffect
  <2> QED
    BY <1>5, <2>2, Zenon
<1>11. 2 \in 0..Len(q) /\ d + 0 <= MaxCells
  <2>1. 2 \in 0..Len(q)
    BY <1>3
  <2>2. Len(q) - 2 + Len(new) <= MaxCells
    BY <1>8, <1>9, <2>1, Room DEF q, s
  <2> QED
    BY <1>3, <1>9, <2>1, <2>2
<1>12. e2 \in Int /\ t2 \in Cell /\ c2 \in [CellIndexes -> Cell] /\ e2 = Len(q) - 2 + Len(new) - 1
  BY <1>3, <1>4, <1>5, <1>6, <1>7, <1>9, <1>11 DEF CellIndexes, Kept
<1>13. \A i \in 1..(Len(q) - 2) : q[i] = IF i <= e2 THEN c2[i] ELSE t2
  BY <1>2, <1>3, <1>4, <1>5, <1>6, <1>11 DEF CellIndexes, Kept
<1>14. \A i \in 1..Len(new) : new[i] = IF Len(q) - 2 + i <= e2 THEN c2[Len(q) - 2 + i] ELSE t2
  BY <1>3, <1>4, <1>5, <1>6, <1>7, <1>9, <1>11 DEF CellIndexes, Kept
<1>15. Put(s, 2, new) \in Outcomes("nip", s)
  BY <1>8, Meant
<1>16. Restacks(q, t2, e2, c2, 2, new)
  BY <1>9, <1>11, <1>12, <1>13, <1>14 DEF Restacks
<1> HIDE DEF e2, t2, c2
<1>17. Does("nip", m, own, Machine(t2, e2, x.scratch, c2, m.rs, m.dp, m.heap))
  BY <1>15, <1>16, Stacked DEF q, s
<1> QED
  BY <1>10, <1>17, Zenon

LEMMA IWord ==
    ASSUME NEW b, NEW m, NEW own, NEW r, Fit("i", m, own, r), NEW fl, NEW x, Opened(fl, m, x),
           NEW code, "A" \in fl /\ "B" \in fl /\ "CLOB" \in fl /\ "Y" \notin fl /\ "Z" \notin fl,
           Len(code) = 1 /\ code[1] = "rtop"
    PROVE  Does("i", m, own, Closing(fl, Execute(b, "i", code, x)))
<1> DEFINE q == InRegisters(m)
           s == StateOf(m, own)
           d == m.depth
           c == x.cells
           e == x.depth
           t == x.top
           t2 == Nth(m.rs, 1)[2]
           e2 == e
           c2 == c
           U == Nth(Returns(m.rs, own), 1)
           new == <<U>>
<1>1. Pops("i") = 0
  BY PopsAre
<1>2. /\ s \in States /\ q \in Seq(Cell) /\ s.ds = q /\ s.rs = Returns(m.rs, own) /\ s.dp = m.dp
      /\ \A i \in 1..d : q[i] = c[i]
  BY <1>1, Basics
<1>3. Len(q) = d + 1 /\ d \in Int /\ d >= -1 /\ d <= MaxCells - 1 /\ MaxCells \in Int
  BY <1>1, Basics
<1>4. (d >= 0 => q[d + 1] = m.top)
  BY <1>3, Basics
<1>5. x = Machine(t, e, x.scratch, c, m.rs, m.dp, m.heap) /\ c \in [CellIndexes -> Cell]
  BY DEF Opened
<1>6. e = d + 1 /\ (e \in CellIndexes => c[e] = m.top)
  BY <1>3 DEF Opened
<1> HIDE DEF q, s, d, c, e, t, U
<1>u. U \in Cell /\ U = Nth(m.rs, 1)[2]
  <2>1. ReturnPops("i") = 1 /\ m.rs \in Seq(Entries) /\ OwnCells(m.rs, own)
    BY ReturnPopsAre DEF Fit, IsMachine
  <2>2. Len(m.rs) - own >= 1 /\ Len(m.rs) \in Nat /\ own \in Nat
    BY <2>1, Basics DEF OwnCells
  <2>3. 1 \in 1..(Len(m.rs) - own)
    BY <2>2
  <2> QED
    BY <2>1, <2>3, ReturnsNth DEF U
<1>8. Meaning("i", s) = Put(s, 0, new)
  <2>1. Meaning("i", s) = Put(s, 0, <<Nth(s.rs, 1)>>)
    BY DupMeanings, Zenon
  <2> QED
    BY <1>2, <2>1, Zenon DEF U
<1>9. new \in Seq(Cell) /\ Len(new) = 1 /\ new[1] = U
  BY <1>u
<1> HIDE DEF new
<1>10. Closing(fl, Execute(b, "i", code, x)) = Machine(t2, e2, x.scratch, c2, m.rs, m.dp, m.heap)
  <2>1. e \in Int
    BY <1>3, <1>6
  <2>2. Closing(fl, Execute(b, "i", code, Machine(t, e, x.scratch, c, m.rs, m.dp, m.heap))) =
            Machine(t2, e2, x.scratch, c2, m.rs, m.dp, m.heap)
    BY <2>1, TopEffect
  <2> QED
    BY <1>5, <2>2, Zenon
<1>11. 0 \in 0..Len(q) /\ d + 2 <= MaxCells
  <2>1. 0 \in 0..Len(q)
    BY <1>3
  <2>2. Len(q) - 0 + Len(new) <= MaxCells
    BY <1>8, <1>9, <2>1, Room DEF q, s
  <2> QED
    BY <1>3, <1>9, <2>1, <2>2
<1>12. e2 \in Int /\ t2 \in Cell /\ c2 \in [CellIndexes -> Cell] /\ e2 = Len(q) - 0 + Len(new) - 1
  BY <1>3, <1>4, <1>5, <1>6, <1>9, <1>11, <1>u DEF CellIndexes, Kept
<1>13. \A i \in 1..(Len(q) - 0) : q[i] = IF i <= e2 THEN c2[i] ELSE t2
  BY <1>2, <1>3, <1>4, <1>5, <1>6, <1>11 DEF CellIndexes, Kept
<1>14. \A i \in 1..Len(new) : new[i] = IF Len(q) - 0 + i <= e2 THEN c2[Len(q) - 0 + i] ELSE t2
  BY <1>3, <1>4, <1>5, <1>6, <1>9, <1>11, <1>u DEF CellIndexes, Kept
<1>15. Put(s, 0, new) \in Outcomes("i", s)
  BY <1>8, Meant
<1>16. Restacks(q, t2, e2, c2, 0, new)
  BY <1>9, <1>11, <1>12, <1>13, <1>14 DEF Restacks
<1> HIDE DEF e2, t2, c2
<1>17. Does("i", m, own, Machine(t2, e2, x.scratch, c2, m.rs, m.dp, m.heap))
  BY <1>15, <1>16, Stacked DEF q, s
<1> QED
  BY <1>10, <1>17, Zenon

LEMMA RTopWord ==
    ASSUME NEW b, NEW m, NEW own, NEW r, Fit("r@", m, own, r), NEW fl, NEW x, Opened(fl, m, x),
           NEW code, "A" \in fl /\ "B" \in fl /\ "CLOB" \in fl /\ "Y" \notin fl /\ "Z" \notin fl,
           Len(code) = 1 /\ code[1] = "rtop"
    PROVE  Does("r@", m, own, Closing(fl, Execute(b, "r@", code, x)))
<1> DEFINE q == InRegisters(m)
           s == StateOf(m, own)
           d == m.depth
           c == x.cells
           e == x.depth
           t == x.top
           t2 == Nth(m.rs, 1)[2]
           e2 == e
           c2 == c
           U == Nth(Returns(m.rs, own), 1)
           new == <<U>>
<1>1. Pops("r@") = 0
  BY PopsAre
<1>2. /\ s \in States /\ q \in Seq(Cell) /\ s.ds = q /\ s.rs = Returns(m.rs, own) /\ s.dp = m.dp
      /\ \A i \in 1..d : q[i] = c[i]
  BY <1>1, Basics
<1>3. Len(q) = d + 1 /\ d \in Int /\ d >= -1 /\ d <= MaxCells - 1 /\ MaxCells \in Int
  BY <1>1, Basics
<1>4. (d >= 0 => q[d + 1] = m.top)
  BY <1>3, Basics
<1>5. x = Machine(t, e, x.scratch, c, m.rs, m.dp, m.heap) /\ c \in [CellIndexes -> Cell]
  BY DEF Opened
<1>6. e = d + 1 /\ (e \in CellIndexes => c[e] = m.top)
  BY <1>3 DEF Opened
<1> HIDE DEF q, s, d, c, e, t, U
<1>u. U \in Cell /\ U = Nth(m.rs, 1)[2]
  <2>1. ReturnPops("r@") = 1 /\ m.rs \in Seq(Entries) /\ OwnCells(m.rs, own)
    BY ReturnPopsAre DEF Fit, IsMachine
  <2>2. Len(m.rs) - own >= 1 /\ Len(m.rs) \in Nat /\ own \in Nat
    BY <2>1, Basics DEF OwnCells
  <2>3. 1 \in 1..(Len(m.rs) - own)
    BY <2>2
  <2> QED
    BY <2>1, <2>3, ReturnsNth DEF U
<1>8. Meaning("r@", s) = Put(s, 0, new)
  <2>1. Meaning("r@", s) = Put(s, 0, <<Nth(s.rs, 1)>>)
    BY HalveMeanings, Zenon
  <2> QED
    BY <1>2, <2>1, Zenon DEF U
<1>9. new \in Seq(Cell) /\ Len(new) = 1 /\ new[1] = U
  BY <1>u
<1> HIDE DEF new
<1>10. Closing(fl, Execute(b, "r@", code, x)) = Machine(t2, e2, x.scratch, c2, m.rs, m.dp, m.heap)
  <2>1. e \in Int
    BY <1>3, <1>6
  <2>2. Closing(fl, Execute(b, "r@", code, Machine(t, e, x.scratch, c, m.rs, m.dp, m.heap))) =
            Machine(t2, e2, x.scratch, c2, m.rs, m.dp, m.heap)
    BY <2>1, TopEffect
  <2> QED
    BY <1>5, <2>2, Zenon
<1>11. 0 \in 0..Len(q) /\ d + 2 <= MaxCells
  <2>1. 0 \in 0..Len(q)
    BY <1>3
  <2>2. Len(q) - 0 + Len(new) <= MaxCells
    BY <1>8, <1>9, <2>1, Room DEF q, s
  <2> QED
    BY <1>3, <1>9, <2>1, <2>2
<1>12. e2 \in Int /\ t2 \in Cell /\ c2 \in [CellIndexes -> Cell] /\ e2 = Len(q) - 0 + Len(new) - 1
  BY <1>3, <1>4, <1>5, <1>6, <1>9, <1>11, <1>u DEF CellIndexes, Kept
<1>13. \A i \in 1..(Len(q) - 0) : q[i] = IF i <= e2 THEN c2[i] ELSE t2
  BY <1>2, <1>3, <1>4, <1>5, <1>6, <1>11 DEF CellIndexes, Kept
<1>14. \A i \in 1..Len(new) : new[i] = IF Len(q) - 0 + i <= e2 THEN c2[Len(q) - 0 + i] ELSE t2
  BY <1>3, <1>4, <1>5, <1>6, <1>9, <1>11, <1>u DEF CellIndexes, Kept
<1>15. Put(s, 0, new) \in Outcomes("r@", s)
  BY <1>8, Meant
<1>16. Restacks(q, t2, e2, c2, 0, new)
  BY <1>9, <1>11, <1>12, <1>13, <1>14 DEF Restacks
<1> HIDE DEF e2, t2, c2
<1>17. Does("r@", m, own, Machine(t2, e2, x.scratch, c2, m.rs, m.dp, m.heap))
  BY <1>15, <1>16, Stacked DEF q, s
<1> QED
  BY <1>10, <1>17, Zenon

LEMMA JWord ==
    ASSUME NEW b, NEW m, NEW own, NEW r, Fit("j", m, own, r), NEW fl, NEW x, Opened(fl, m, x),
           NEW code, "A" \in fl /\ "B" \in fl /\ "CLOB" \in fl /\ "Y" \notin fl /\ "Z" \notin fl,
           Len(code) = 1 /\ code[1] = "rthird"
    PROVE  Does("j", m, own, Closing(fl, Execute(b, "j", code, x)))
<1> DEFINE q == InRegisters(m)
           s == StateOf(m, own)
           d == m.depth
           c == x.cells
           e == x.depth
           t == x.top
           t2 == Nth(m.rs, 3)[2]
           e2 == e
           c2 == c
           U == Nth(Returns(m.rs, own), 3)
           new == <<U>>
<1>1. Pops("j") = 0
  BY PopsAre
<1>2. /\ s \in States /\ q \in Seq(Cell) /\ s.ds = q /\ s.rs = Returns(m.rs, own) /\ s.dp = m.dp
      /\ \A i \in 1..d : q[i] = c[i]
  BY <1>1, Basics
<1>3. Len(q) = d + 1 /\ d \in Int /\ d >= -1 /\ d <= MaxCells - 1 /\ MaxCells \in Int
  BY <1>1, Basics
<1>4. (d >= 0 => q[d + 1] = m.top)
  BY <1>3, Basics
<1>5. x = Machine(t, e, x.scratch, c, m.rs, m.dp, m.heap) /\ c \in [CellIndexes -> Cell]
  BY DEF Opened
<1>6. e = d + 1 /\ (e \in CellIndexes => c[e] = m.top)
  BY <1>3 DEF Opened
<1> HIDE DEF q, s, d, c, e, t, U
<1>u. U \in Cell /\ U = Nth(m.rs, 3)[2]
  <2>1. ReturnPops("j") = 3 /\ m.rs \in Seq(Entries) /\ OwnCells(m.rs, own)
    BY ReturnPopsAre DEF Fit, IsMachine
  <2>2. Len(m.rs) - own >= 3 /\ Len(m.rs) \in Nat /\ own \in Nat
    BY <2>1, Basics DEF OwnCells
  <2>3. 3 \in 1..(Len(m.rs) - own)
    BY <2>2
  <2> QED
    BY <2>1, <2>3, ReturnsNth DEF U
<1>8. Meaning("j", s) = Put(s, 0, new)
  <2>1. Meaning("j", s) = Put(s, 0, <<Nth(s.rs, 3)>>)
    BY DupMeanings, Zenon
  <2> QED
    BY <1>2, <2>1, Zenon DEF U
<1>9. new \in Seq(Cell) /\ Len(new) = 1 /\ new[1] = U
  BY <1>u
<1> HIDE DEF new
<1>10. Closing(fl, Execute(b, "j", code, x)) = Machine(t2, e2, x.scratch, c2, m.rs, m.dp, m.heap)
  <2>1. e \in Int
    BY <1>3, <1>6
  <2>2. Closing(fl, Execute(b, "j", code, Machine(t, e, x.scratch, c, m.rs, m.dp, m.heap))) =
            Machine(t2, e2, x.scratch, c2, m.rs, m.dp, m.heap)
    BY <2>1, ThirdEffect
  <2> QED
    BY <1>5, <2>2, Zenon
<1>11. 0 \in 0..Len(q) /\ d + 2 <= MaxCells
  <2>1. 0 \in 0..Len(q)
    BY <1>3
  <2>2. Len(q) - 0 + Len(new) <= MaxCells
    BY <1>8, <1>9, <2>1, Room DEF q, s
  <2> QED
    BY <1>3, <1>9, <2>1, <2>2
<1>12. e2 \in Int /\ t2 \in Cell /\ c2 \in [CellIndexes -> Cell] /\ e2 = Len(q) - 0 + Len(new) - 1
  BY <1>3, <1>4, <1>5, <1>6, <1>9, <1>11, <1>u DEF CellIndexes, Kept
<1>13. \A i \in 1..(Len(q) - 0) : q[i] = IF i <= e2 THEN c2[i] ELSE t2
  BY <1>2, <1>3, <1>4, <1>5, <1>6, <1>11 DEF CellIndexes, Kept
<1>14. \A i \in 1..Len(new) : new[i] = IF Len(q) - 0 + i <= e2 THEN c2[Len(q) - 0 + i] ELSE t2
  BY <1>3, <1>4, <1>5, <1>6, <1>9, <1>11, <1>u DEF CellIndexes, Kept
<1>15. Put(s, 0, new) \in Outcomes("j", s)
  BY <1>8, Meant
<1>16. Restacks(q, t2, e2, c2, 0, new)
  BY <1>9, <1>11, <1>12, <1>13, <1>14 DEF Restacks
<1> HIDE DEF e2, t2, c2
<1>17. Does("j", m, own, Machine(t2, e2, x.scratch, c2, m.rs, m.dp, m.heap))
  BY <1>15, <1>16, Stacked DEF q, s
<1> QED
  BY <1>10, <1>17, Zenon

-----------------------------------------------------------------------------
(* A word that changes the return stack, the data space or the heap as well. *)

(* A machine with n cells replaced, and another return stack and space.    *)
Result(q, n, new, rs, p, h) == [ds |-> Below(q, n) \o new, rs |-> rs, dp |-> p, heap |-> h]

LEMMA RegistersNew ==
    ASSUME NEW q \in Seq(Cell), NEW t, NEW d, NEW c, NEW n, NEW new, Restacks(q, t, d, c, n, new),
           NEW z, NEW r, NEW p, NEW h
    PROVE  InRegisters(Machine(t, d, z, c, r, p, h)) = Below(q, n) \o new
<1> DEFINE y == Machine(t, d, z, c, r, p, h)
<1>1. y.top = t /\ y.depth = d /\ y.cells = c
  BY DEF Machine
<1>2. /\ n \in 0..Len(q) /\ d = Len(q) - n + Len(new) - 1 /\ Len(q) \in Nat /\ Len(new) \in Nat
      /\ new \in Seq(Cell)
  BY DEF Restacks
<1>3. /\ \A i \in 1..(Len(q) - n) : q[i] = IF i <= d THEN c[i] ELSE t
      /\ \A i \in 1..Len(new) :
            new[i] = IF Len(q) - n + i <= d THEN c[Len(q) - n + i] ELSE t
  BY DEF Restacks
<1> HIDE DEF y
<1>4. InRegisters(y) = [i \in 1..(d + 1) |-> IF i <= d THEN c[i] ELSE t]
  BY <1>1 DEF InRegisters
<1>5. \A i \in 1..(Len(q) - n) : InRegisters(y)[i] = q[i]
  <2> TAKE i \in 1..(Len(q) - n)
  <2>1. i \in 1..(d + 1)
    BY <1>2
  <2>2. InRegisters(y)[i] = IF i <= d THEN c[i] ELSE t
    BY <1>4, <2>1, Zenon
  <2> QED
    BY <1>3, <2>2, Zenon
<1>6. \A i \in 1..Len(new) : InRegisters(y)[Len(q) - n + i] = new[i]
  <2> TAKE i \in 1..Len(new)
  <2> DEFINE j == Len(q) - n + i
  <2>1. j \in 1..(d + 1)
    BY <1>2
  <2> HIDE DEF j
  <2>2. InRegisters(y)[j] = IF j <= d THEN c[j] ELSE t
    BY <1>4, <2>1, Zenon
  <2> QED
    BY <1>3, <2>2, Zenon DEF j
<1>7. y.depth = Len(q) - n + Len(new) - 1
  BY <1>1, <1>2
<1>8. InRegisters(y) = Below(q, n) \o new
  BY <1>2, <1>5, <1>6, <1>7, RegistersPut
<1> QED
  BY <1>8 DEF y

LEMMA Changed ==
    ASSUME NEW w, NEW m, NEW own, NEW r, Fit(w, m, own, r),
           NEW t, NEW d, NEW c, NEW n, NEW new, Restacks(InRegisters(m), t, d, c, n, new),
           NEW z, NEW rs \in Seq(Entries), OwnCells(rs, own), \A j \in 1..own : rs[j] = m.rs[j],
           NEW p, NEW h,
           Result(InRegisters(m), n, new, Returns(rs, own), p, h) \in Outcomes(w, StateOf(m, own))
    PROVE  Does(w, m, own, Machine(t, d, z, c, rs, p, h))
<1> DEFINE y == Machine(t, d, z, c, rs, p, h)
           q == InRegisters(m)
<1>1. q \in Seq(Cell)
  BY RegistersTyped DEF Fit
<1>2. InRegisters(y) = Below(q, n) \o new
  BY <1>1, RegistersNew
<1>3. /\ y.top = t /\ y.depth = d /\ y.scratch = z /\ y.cells = c
      /\ y.rs = rs /\ y.dp = p /\ y.heap = h
  BY DEF Machine
<1>4. t \in Cell /\ d \in Int /\ d >= -1 /\ c \in [CellIndexes -> Cell]
  BY <1>1 DEF Restacks
<1>5. y = Machine(y.top, y.depth, y.scratch, y.cells, y.rs, y.dp, y.heap)
  BY <1>3
<1> HIDE DEF y
<1>6. StateOf(y, own) = Result(q, n, new, Returns(rs, own), p, h)
  BY <1>2, <1>3 DEF StateOf, Result
<1>7. Does(w, m, own, y)
  BY <1>3, <1>4, <1>5, <1>6, Zenon DEF Does
<1> QED
  BY <1>7 DEF y

(* How a result is written with EXCEPT.                                    *)
LEMMA PutResult ==
    ASSUME NEW s \in States, NEW n \in 0..Len(s.ds), NEW new \in Seq(Cell)
    PROVE  /\ Put(s, n, new) = Result(s.ds, n, new, s.rs, s.dp, s.heap)
           /\ \A v : [Put(s, n, new) EXCEPT !.dp = v] = Result(s.ds, n, new, s.rs, v, s.heap)
           /\ \A v : [Put(s, n, new) EXCEPT !.heap = v] = Result(s.ds, n, new, s.rs, s.dp, v)
           /\ \A v : [Put(s, n, new) EXCEPT !.rs = v] = Result(s.ds, n, new, v, s.dp, s.heap)
<1>1. Put(s, n, new) = [ds |-> Below(s.ds, n) \o new, rs |-> s.rs, dp |-> s.dp, heap |-> s.heap]
  BY PutEffect
<1> DEFINE b == Below(s.ds, n) \o new
<1> HIDE DEF b
<1>2. Put(s, n, new) = [ds |-> b, rs |-> s.rs, dp |-> s.dp, heap |-> s.heap]
  BY <1>1 DEF b
<1>3. /\ Put(s, n, new) = [ds |-> b, rs |-> s.rs, dp |-> s.dp, heap |-> s.heap]
      /\ \A v : [Put(s, n, new) EXCEPT !.dp = v] = [ds |-> b, rs |-> s.rs, dp |-> v, heap |-> s.heap]
      /\ \A v : [Put(s, n, new) EXCEPT !.heap = v] = [ds |-> b, rs |-> s.rs, dp |-> s.dp, heap |-> v]
      /\ \A v : [Put(s, n, new) EXCEPT !.rs = v] = [ds |-> b, rs |-> v, dp |-> s.dp, heap |-> s.heap]
  BY <1>2
<1> QED
  BY <1>3 DEF b, Result

-----------------------------------------------------------------------------
(* Values on the processors: what NativeValue computes is a value the C      *)
(* operator may have.                                                        *)

LEMMA ValueOf ==
    ASSUME NEW s \in States, NEW n \in 0..Len(s.ds), NEW v \in Cell
    PROVE  Nth(Put(s, n, <<v>>).ds, 1) = v
<1> DEFINE new == <<v>>
           b == Below(s.ds, n)
<1>1. new \in Seq(Cell) /\ Len(new) = 1 /\ new[1] = v
  OBVIOUS
<1> HIDE DEF new
<1>2. Put(s, n, new).ds = b \o new /\ b \in Seq(Cell)
  <2>1. Put(s, n, new) = [ds |-> Below(s.ds, n) \o new, rs |-> s.rs, dp |-> s.dp, heap |-> s.heap]
    BY <1>1, PutEffect
  <2>2. b \in Seq(Cell)
    BY <1>1, PutEffect
  <2> DEFINE a == Below(s.ds, n) \o new
  <2>3. Put(s, n, new) = [ds |-> a, rs |-> s.rs, dp |-> s.dp, heap |-> s.heap]
    BY <2>1
  <2> HIDE DEF a
  <2>4. Put(s, n, new).ds = a
    BY <2>3
  <2> QED
    BY <2>2, <2>4 DEF a
<1> HIDE DEF b
<1>3. /\ Len(b \o new) = Len(b) + 1 /\ b \o new \in Seq(Cell)
      /\ \A i \in 1..Len(new) : (b \o new)[Len(b) + i] = new[i]
  BY <1>1, <1>2, ConcatCells
<1>4. (b \o new)[Len(b) + 1] = v /\ Len(b \o new) + 1 - 1 = Len(b) + 1
  BY <1>1, <1>2, <1>3
<1> QED
  BY <1>2, <1>4, Zenon DEF Nth, new

LEMMA SignOf ==
    \A y, x \in Cell : y - x \in Cell =>
        Truth(Wrap(y - x) < 0) = Truth(y < x) /\ Truth(Wrap(y - x) >= 0) = Truth(y >= x)
  BY DEF Cell, Half, Wrap, Range256, Truth

LEMMA SignIs == \A y, x \in Cell : Truth(Wrap(y - x) < 0) \in {-1, 0} /\ Truth(Wrap(y - x) >= 0) \in {-1, 0}
  BY DEF Truth

LEMMA Signs == {-1, 0} \subseteq Cell
  BY DEF Cell, Half

LEMMA Unclear ==
    ASSUME NEW s, NEW w,
           LET x == Nth(s.ds, 1)
               y == Nth(s.ds, 2)
           IN  \/ w \in {"<", ">="} /\ y - x \notin Cell
               \/ w \in {">", "<="} /\ x - y \notin Cell,
           NEW v \in {-1, 0}
    PROVE  Put(s, 2, <<v>>) \in Outcomes(w, s)
  BY Zenon DEF Outcomes

LEMMA NativeBinary ==
    ASSUME NEW b, NEW w \in Binary, NEW m, NEW s \in States, Len(s.ds) >= 2, Defined(w, s),
           m.top = Nth(s.ds, 1), m.cells[m.depth] = Nth(s.ds, 2), m.dp = s.dp, m.heap = s.heap
    PROVE  /\ NativeValue(b, w, m) \in Cell
           /\ Put(s, 2, <<NativeValue(b, w, m)>>) \in Outcomes(w, s)
<1> DEFINE x == Nth(s.ds, 1)
           y == Nth(s.ds, 2)
           v == NativeValue(b, w, m)
<1>1. x \in Cell /\ y \in Cell
  <2>1. 1 \in 1..Len(s.ds) /\ 2 \in 1..Len(s.ds) /\ s.ds \in Seq(Cell)
    BY DEF States
  <2> QED
    BY <2>1, TopCells
<1>2. m.top = x /\ m.cells[m.depth] = y
  OBVIOUS
<1> HIDE DEF x, y
<1>3. CASE b = "esp32s3" /\ w \in Comparisons
  <2>1. /\ \A t : Meaning("<", t) = Put(t, 2, <<Truth(Nth(t.ds, 2) < Nth(t.ds, 1))>>)
        /\ \A t : Meaning(">=", t) = Put(t, 2, <<Truth(Nth(t.ds, 2) >= Nth(t.ds, 1))>>)
        /\ \A t : Meaning("<=", t) = Put(t, 2, <<Truth(Nth(t.ds, 2) <= Nth(t.ds, 1))>>)
        /\ \A t : Meaning(">", t) = Put(t, 2, <<Truth(Nth(t.ds, 2) > Nth(t.ds, 1))>>)
    BY RotMeanings, DupMeanings, Zenon
  <2>2. /\ Meaning("<", s) = Put(s, 2, <<Truth(y < x)>>)
        /\ Meaning(">=", s) = Put(s, 2, <<Truth(y >= x)>>)
        /\ Meaning("<=", s) = Put(s, 2, <<Truth(y <= x)>>)
        /\ Meaning(">", s) = Put(s, 2, <<Truth(y > x)>>)
    BY <2>1, Zenon DEF x, y
  <2>3. CASE w = "<"
    <3>1. v = Truth(Wrap(y - x) < 0)
      BY <1>2, <1>3, <2>3, Zenon DEF NativeValue
    <3>2. v \in {-1, 0}
      BY <1>1, <3>1, SignIs
    <3>3. CASE y - x \in Cell
      <4>1. v = Truth(y < x)
        BY <1>1, <3>1, <3>3, SignOf
      <4> QED
        BY <2>2, <2>3, <3>2, <4>1, Signs, Meant
    <3>4. CASE y - x \notin Cell
      BY <2>3, <3>2, <3>4, Unclear, Signs DEF x, y
    <3> QED
      BY <3>3, <3>4
  <2>4. CASE w = ">="
    <3>1. v = Truth(Wrap(y - x) >= 0)
      BY <1>2, <1>3, <2>4, Zenon DEF NativeValue
    <3>2. v \in {-1, 0}
      BY <1>1, <3>1, SignIs
    <3>3. CASE y - x \in Cell
      <4>1. v = Truth(y >= x)
        BY <1>1, <3>1, <3>3, SignOf
      <4> QED
        BY <2>2, <2>4, <3>2, <4>1, Signs, Meant
    <3>4. CASE y - x \notin Cell
      BY <2>4, <3>2, <3>4, Unclear, Signs DEF x, y
    <3> QED
      BY <3>3, <3>4
  <2>5. CASE w = ">"
    <3>1. v = Truth(Wrap(x - y) < 0)
      BY <1>2, <1>3, <2>5, Zenon DEF NativeValue
    <3>2. v \in {-1, 0}
      BY <1>1, <3>1, SignIs
    <3>3. CASE x - y \in Cell
      <4>1. v = Truth(x < y)
        BY <1>1, <3>1, <3>3, SignOf
      <4>2. Truth(x < y) = Truth(y > x)
        BY <1>1, Integer DEF Truth
      <4> QED
        BY <2>2, <2>5, <3>2, <4>1, <4>2, Signs, Meant
    <3>4. CASE x - y \notin Cell
      BY <2>5, <3>2, <3>4, Unclear, Signs DEF x, y
    <3> QED
      BY <3>3, <3>4
  <2>6. CASE w = "<="
    <3>1. v = Truth(Wrap(x - y) >= 0)
      BY <1>2, <1>3, <2>6, Zenon DEF NativeValue
    <3>2. v \in {-1, 0}
      BY <1>1, <3>1, SignIs
    <3>3. CASE x - y \in Cell
      <4>1. v = Truth(x >= y)
        BY <1>1, <3>1, <3>3, SignOf
      <4>2. Truth(x >= y) = Truth(y <= x)
        BY <1>1, Integer DEF Truth
      <4> QED
        BY <2>2, <2>6, <3>2, <4>1, <4>2, Signs, Meant
    <3>4. CASE x - y \notin Cell
      BY <2>6, <3>2, <3>4, Unclear, Signs DEF x, y
    <3> QED
      BY <3>3, <3>4
  <2> QED
    BY <1>3, <2>3, <2>4, <2>5, <2>6 DEF Comparisons
<1>4. CASE ~(b = "esp32s3" /\ w \in Comparisons)
  <2> DEFINE s0 == [ds |-> <<y, x>>, rs |-> <<>>, dp |-> m.dp, heap |-> m.heap]
  <2>1. w # "2/" /\ w \notin Unary
    BY DEF Binary, Unary, Comparisons
  <2>2. v = Nth(Meaning(w, s0).ds, 1)
    <3>1. Comparisons = {"<", ">=", ">", "<="}
      BY DEF Comparisons
    <3>2. ~(b = "esp32s3" /\ w = "<") /\ ~(b = "esp32s3" /\ w = ">=") /\ ~(b = "esp32s3" /\ w = ">")
          /\ ~(b = "esp32s3" /\ w = "<=")
      BY <1>4, <3>1
    <3> QED
      BY <1>2, <1>4, <2>1, <3>2, Zenon DEF NativeValue
  <2>3. s0 \in States /\ Len(s0.ds) = 2 /\ Nth(s0.ds, 1) = x /\ Nth(s0.ds, 2) = y
    BY <1>1 DEF States, Nth
  <2>4. /\ w \in {"/", "mod"} => x # 0 /\ (x = -1 => y # -Half)
        /\ w \in {"lshift", "rshift"} => x \in 0..(Bits - 1)
    BY Zenon DEF Defined, x, y
  <2>5. PICK v0 \in Cell : \A t \in States :
                Nth(t.ds, 1) = x /\ Nth(t.ds, 2) = y => Meaning(w, t) = Put(t, 2, <<v0>>)
    BY <1>1, <2>4, BinaryMeaning
  <2>6. Meaning(w, s) = Put(s, 2, <<v0>>)
    BY <2>5, Zenon DEF x, y
  <2>7. Meaning(w, s0) = Put(s0, 2, <<v0>>)
    BY <2>3, <2>5, Zenon
  <2> HIDE DEF s0
  <2>8. 2 \in 0..Len(s0.ds)
    BY <2>3
  <2>9. v = v0
    BY <2>2, <2>3, <2>7, <2>8, ValueOf
  <2> QED
    BY <2>6, <2>9, Meant
<1> QED
  BY <1>3, <1>4

LEMMA NativeUnary ==
    ASSUME NEW b, NEW w \in Unary, NEW m, NEW s \in States, Len(s.ds) >= 1,
           m.top = Nth(s.ds, 1), m.dp = s.dp, m.heap = s.heap
    PROVE  /\ NativeValue(b, w, m) \in Cell
           /\ Put(s, 1, <<NativeValue(b, w, m)>>) \in Outcomes(w, s)
<1> DEFINE x == Nth(s.ds, 1)
           v == NativeValue(b, w, m)
<1>1. x \in Cell
  <2>1. 1 \in 1..Len(s.ds) /\ s.ds \in Seq(Cell)
    BY DEF States
  <2> QED
    BY <2>1, TopCells
<1>2. m.top = x
  OBVIOUS
<1> HIDE DEF x
<1>3. CASE w = "2/"
  <2>1. v = x \div 2
    BY <1>2, <1>3, Zenon DEF NativeValue
  <2>2. Put(s, 1, <<x \div 2>>) \in Outcomes(w, s)
    BY <1>3, Zenon DEF Outcomes, x
  <2> QED
    BY <1>1, <2>1, <2>2, HalfCell
<1>4. CASE w # "2/"
  <2> DEFINE s0 == [ds |-> <<x>>, rs |-> <<>>, dp |-> m.dp, heap |-> m.heap]
  <2>1. w \notin Comparisons
    BY DEF Unary, Comparisons
  <2>2. v = Nth(Meaning(w, s0).ds, 1)
    <3>1. w # "<" /\ w # ">=" /\ w # ">" /\ w # "<="
      BY <2>1 DEF Comparisons
    <3> QED
      BY <1>2, <1>4, <2>1, <3>1, Zenon DEF NativeValue
  <2>3. s0 \in States /\ Len(s0.ds) = 1 /\ Nth(s0.ds, 1) = x /\ s0.heap = s.heap /\ s.heap \in Heaps
    BY <1>1 DEF States, Nth
  <2>5. PICK v0 \in Cell : \A t \in States :
                Nth(t.ds, 1) = x /\ t.heap = s.heap => Meaning(w, t) = Put(t, 1, <<v0>>)
    BY <1>1, <2>3, UnaryMeaning
  <2>6. Meaning(w, s) = Put(s, 1, <<v0>>)
    BY <2>5, Zenon DEF x
  <2>7. Meaning(w, s0) = Put(s0, 1, <<v0>>)
    BY <2>3, <2>5, Zenon
  <2> HIDE DEF s0
  <2>8. 1 \in 0..Len(s0.ds)
    BY <2>3
  <2>9. v = v0
    BY <2>2, <2>3, <2>7, <2>8, ValueOf
  <2> QED
    BY <2>6, <2>9, Meant
<1> QED
  BY <1>3, <1>4

-----------------------------------------------------------------------------
(* The remaining words: arithmetic, data space, memory, and those that move  *)
(* cells between the stacks.                                                 *)

LEMMA AppendIs == ASSUME NEW S, NEW f \in Seq(S), NEW v \in S PROVE Append(f, v) = f \o <<v>>
  OBVIOUS
Commas == {",", "w,", "c,"}

LEMMA NothingPut == ASSUME NEW f \in Seq(Cell) PROVE Below(f, 0) \o <<>> = f
  BY DEF Below

LEMMA TwoBelow ==
    ASSUME NEW f \in Seq(Entries), 2 \in 1..Len(f)
    PROVE  Nth(f, 2) = Nth(Below(f, 1), 1) /\ Below(Below(f, 1), 1) = Below(f, 2)
<1> DEFINE g == Below(f, 1)
<1>1. g = [i \in 1..(Len(f) - 1) |-> f[i]] /\ Len(g) = Len(f) - 1 /\ g \in Seq(Entries)
  BY DEF Below
<1>2. \A i \in 1..(Len(f) - 1) : g[i] = f[i]
  BY <1>1
<1> HIDE DEF g
<1>3. Below(f, 2) = [i \in 1..(Len(f) - 2) |-> f[i]] /\ Below(g, 1) = [i \in 1..(Len(f) - 2) |-> g[i]]
  BY <1>1 DEF Below
<1>4. \A i \in 1..(Len(f) - 2) : g[i] = f[i]
  BY <1>2
<1>5. Below(g, 1) = Below(f, 2)
  BY <1>3, <1>4, Zenon
<1>6. Nth(f, 2) = f[Len(f) - 1] /\ Nth(g, 1) = g[Len(f) - 1] /\ Len(f) - 1 \in 1..(Len(f) - 1)
  BY <1>1 DEF Nth
<1> QED
  BY <1>2, <1>5, <1>6, Zenon DEF g

LEMMA RoomResult ==
    ASSUME NEW w, NEW m, NEW own, NEW r, Fit(w, m, own, r),
           w \notin {"pick", "lshift", "rshift", "/", "mod"},
           NEW n \in 0..Len(InRegisters(m)), NEW new \in Seq(Cell), NEW rs, NEW p, NEW h,
           Meaning(w, StateOf(m, own)) = Result(InRegisters(m), n, new, rs, p, h)
    PROVE  Len(InRegisters(m)) - n + Len(new) <= MaxCells
<1> DEFINE s == StateOf(m, own)
           q == InRegisters(m)
<1>1. Enough(w, s, r) /\ Defined(w, s) /\ q \in Seq(Cell)
  BY RegistersTyped DEF Fit
<1>2. Meaning(w, s).ds = Below(q, n) \o new
  <2> DEFINE f == Below(q, n) \o new
  <2>1. Meaning(w, s) = [ds |-> f, rs |-> rs, dp |-> p, heap |-> h]
    BY DEF Result
  <2> HIDE DEF f, s
  <2> QED
    BY <2>1 DEF f
<1> HIDE DEF s
<1>3. Len(s.rs) >= ReturnPops(w)
  BY <1>1 DEF Defined
<1>4. Len(Meaning(w, s).ds) <= MaxCells
  BY <1>1, <1>3 DEF Enough
<1>5. Len(Below(q, n)) = Len(q) - n /\ Below(q, n) \in Seq(Cell)
  BY <1>1, BelowIs
<1>6. Len(Below(q, n) \o new) = Len(q) - n + Len(new)
  BY <1>5, ConcatCells
<1> QED
  BY <1>2, <1>4, <1>6

LEMMA BinaryWord ==
    ASSUME NEW b, NEW w \in Binary, NEW m, NEW own, NEW r, Fit(w, m, own, r), NEW fl, NEW x, Opened(fl, m, x),
           NEW code, "A" \notin fl /\ "B" \notin fl /\ "CLOB" \notin fl /\ "Y" \notin fl /\ "Z" \in fl,
           Len(code) = 1 /\ code[1] = "value2"
    PROVE  Does(w, m, own, Closing(fl, Execute(b, w, code, x)))
<1> DEFINE q == InRegisters(m)
           s == StateOf(m, own)
           d == m.depth
           c == x.cells
           e == x.depth
           t == x.top
           X == Nth(q, 1)
           Y == Nth(q, 2)
           U == NativeValue(b, w, x)
           t2 == U
           e2 == e - 1
           c2 == c
           rs2 == m.rs
           p2 == m.dp
           h2 == m.heap
           new == <<U>>
<1>1. Pops(w) = 2
  BY PopsAre
<1>2. /\ s \in States /\ q \in Seq(Cell) /\ s.ds = q /\ s.rs = Returns(m.rs, own) /\ s.dp = m.dp
      /\ \A i \in 1..d : q[i] = c[i]
  BY <1>1, Basics
<1>3. Len(q) = d + 1 /\ d \in Int /\ d >= 1 /\ d <= MaxCells - 1 /\ MaxCells \in Int
  BY <1>1, Basics
<1>4. q[d + 1] = m.top /\ X = m.top /\ Y = c[d]
  BY <1>3, Basics
<1>5. x = Machine(t, e, x.scratch, c, m.rs, m.dp, m.heap) /\ c \in [CellIndexes -> Cell]
  BY DEF Opened
<1>6. t = m.top /\ e = d
  BY <1>3 DEF Opened
<1>7. X \in Cell /\ Y \in Cell
  <2>1. 1 \in 1..Len(q) /\ 2 \in 1..Len(q)
    BY <1>3
  <2> HIDE DEF q
  <2> QED
    BY <1>2, <2>1, TopCells
<1> HIDE DEF q, s, d, c, e, t, X, Y, U
<1>u. U \in Cell /\ Put(s, 2, <<U>>) \in Outcomes(w, s)
  <2>1. x.dp = m.dp /\ x.heap = m.heap
    BY <1>5 DEF Machine
  <2>2. Defined(w, s)
    BY DEF Fit, s
  <2>3. s.heap = m.heap
    BY DEF s, StateOf
  <2>4. x.top = Nth(s.ds, 1) /\ x.cells[x.depth] = Nth(s.ds, 2) /\ Len(s.ds) >= 2
    BY <1>2, <1>3, <1>4, <1>6 DEF t, c, e, X, Y
  <2> QED
    BY <1>2, <2>1, <2>2, <2>3, <2>4, NativeBinary DEF U
<1>9. new \in Seq(Cell) /\ Len(new) = 1 /\ new[1] = U
  BY <1>7, <1>u
<1> HIDE DEF new
<1>10. Closing(fl, Execute(b, w, code, x)) = Machine(t2, e2, x.scratch, c2, rs2, p2, h2)
  <2>1. e \in Int
    BY <1>3, <1>6
  <2>2. Closing(fl, Execute(b, w, code, Machine(t, e, x.scratch, c, m.rs, m.dp, m.heap))) =
            Machine(t2, e2, x.scratch, c2, rs2, p2, h2)
    <3>1. U = NativeValue(b, w, Machine(t, e, x.scratch, c, m.rs, m.dp, m.heap))
      BY <1>5 DEF U
    <3> QED
      BY <2>1, <3>1, BinaryEffect
  <2> QED
    BY <1>5, <2>2, Zenon
<1>11. 2 \in 0..Len(q)
  BY <1>3
<1>12. e2 \in Int /\ t2 \in Cell /\ c2 \in [CellIndexes -> Cell] /\ e2 = Len(q) - 2 + Len(new) - 1
  BY <1>3, <1>4, <1>5, <1>6, <1>7, <1>u, <1>9, <1>11 DEF CellIndexes, Kept
<1>13. \A i \in 1..(Len(q) - 2) : q[i] = IF i <= e2 THEN c2[i] ELSE t2
  BY <1>2, <1>3, <1>4, <1>5, <1>6, <1>7, <1>u, <1>9, <1>11 DEF CellIndexes, Kept
<1>14. \A i \in 1..Len(new) : new[i] = IF Len(q) - 2 + i <= e2 THEN c2[Len(q) - 2 + i] ELSE t2
  BY <1>3, <1>4, <1>5, <1>6, <1>7, <1>u, <1>9, <1>11 DEF CellIndexes, Kept
<1>15. Put(s, 2, new) \in Outcomes(w, s)
  BY <1>u DEF new
<1>16. Restacks(q, t2, e2, c2, 2, new)
  BY <1>9, <1>11, <1>12, <1>13, <1>14 DEF Restacks
<1> HIDE DEF e2, t2, c2
<1>17. Does(w, m, own, Machine(t2, e2, x.scratch, c2, rs2, p2, h2))
  BY <1>15, <1>16, Stacked DEF q, s
<1> QED
  BY <1>10, <1>17, Zenon

LEMMA UnaryWord ==
    ASSUME NEW b, NEW w \in Unary, NEW m, NEW own, NEW r, Fit(w, m, own, r), NEW fl, NEW x, Opened(fl, m, x),
           NEW code, "A" \notin fl /\ "B" \notin fl /\ "CLOB" \notin fl /\ "Y" \notin fl /\ "Z" \notin fl,
           Len(code) = 1 /\ code[1] = "value1"
    PROVE  Does(w, m, own, Closing(fl, Execute(b, w, code, x)))
<1> DEFINE q == InRegisters(m)
           s == StateOf(m, own)
           d == m.depth
           c == x.cells
           e == x.depth
           t == x.top
           X == Nth(q, 1)
           U == NativeValue(b, w, x)
           t2 == U
           e2 == e
           c2 == c
           rs2 == m.rs
           p2 == m.dp
           h2 == m.heap
           new == <<U>>
<1>1. Pops(w) = 1
  BY PopsAre
<1>2. /\ s \in States /\ q \in Seq(Cell) /\ s.ds = q /\ s.rs = Returns(m.rs, own) /\ s.dp = m.dp
      /\ \A i \in 1..d : q[i] = c[i]
  BY <1>1, Basics
<1>3. Len(q) = d + 1 /\ d \in Int /\ d >= 0 /\ d <= MaxCells - 1 /\ MaxCells \in Int
  BY <1>1, Basics
<1>4. q[d + 1] = m.top /\ X = m.top
  BY <1>3, Basics
<1>5. x = Machine(t, e, x.scratch, c, m.rs, m.dp, m.heap) /\ c \in [CellIndexes -> Cell]
  BY DEF Opened
<1>6. t = m.top /\ e = d
  BY <1>3 DEF Opened
<1>7. X \in Cell
  <2>1. 1 \in 1..Len(q)
    BY <1>3
  <2> HIDE DEF q
  <2> QED
    BY <1>2, <2>1, TopCells
<1> HIDE DEF q, s, d, c, e, t, X, U
<1>u. U \in Cell /\ Put(s, 1, <<U>>) \in Outcomes(w, s)
  <2>1. x.dp = m.dp /\ x.heap = m.heap
    BY <1>5 DEF Machine
  <2>3. s.heap = m.heap
    BY DEF s, StateOf
  <2>4. x.top = Nth(s.ds, 1) /\ Len(s.ds) >= 1
    BY <1>2, <1>3, <1>4, <1>6 DEF t, X
  <2> QED
    BY <1>2, <2>1, <2>3, <2>4, NativeUnary DEF U
<1>9. new \in Seq(Cell) /\ Len(new) = 1 /\ new[1] = U
  BY <1>7, <1>u
<1> HIDE DEF new
<1>10. Closing(fl, Execute(b, w, code, x)) = Machine(t2, e2, x.scratch, c2, rs2, p2, h2)
  <2>1. e \in Int
    BY <1>3, <1>6
  <2>2. Closing(fl, Execute(b, w, code, Machine(t, e, x.scratch, c, m.rs, m.dp, m.heap))) =
            Machine(t2, e2, x.scratch, c2, rs2, p2, h2)
    <3>1. U = NativeValue(b, w, Machine(t, e, x.scratch, c, m.rs, m.dp, m.heap))
      BY <1>5 DEF U
    <3> QED
      BY <2>1, <3>1, UnaryEffect
  <2> QED
    BY <1>5, <2>2, Zenon
<1>11. 1 \in 0..Len(q)
  BY <1>3
<1>12. e2 \in Int /\ t2 \in Cell /\ c2 \in [CellIndexes -> Cell] /\ e2 = Len(q) - 1 + Len(new) - 1
  BY <1>3, <1>4, <1>5, <1>6, <1>7, <1>u, <1>9, <1>11 DEF CellIndexes, Kept
<1>13. \A i \in 1..(Len(q) - 1) : q[i] = IF i <= e2 THEN c2[i] ELSE t2
  BY <1>2, <1>3, <1>4, <1>5, <1>6, <1>7, <1>u, <1>9, <1>11 DEF CellIndexes, Kept
<1>14. \A i \in 1..Len(new) : new[i] = IF Len(q) - 1 + i <= e2 THEN c2[Len(q) - 1 + i] ELSE t2
  BY <1>3, <1>4, <1>5, <1>6, <1>7, <1>u, <1>9, <1>11 DEF CellIndexes, Kept
<1>15. Put(s, 1, new) \in Outcomes(w, s)
  BY <1>u DEF new
<1>16. Restacks(q, t2, e2, c2, 1, new)
  BY <1>9, <1>11, <1>12, <1>13, <1>14 DEF Restacks
<1> HIDE DEF e2, t2, c2
<1>17. Does(w, m, own, Machine(t2, e2, x.scratch, c2, rs2, p2, h2))
  BY <1>15, <1>16, Stacked DEF q, s
<1> QED
  BY <1>10, <1>17, Zenon

LEMMA DupIfWord ==
    ASSUME NEW b, NEW m, NEW own, NEW r, Fit("?dup", m, own, r), NEW fl, NEW x, Opened(fl, m, x),
           NEW code, "A" \in fl /\ "B" \in fl /\ "CLOB" \notin fl /\ "Y" \notin fl /\ "Z" \notin fl,
           Len(code) = 1 /\ code[1] = "unless0"
    PROVE  Does("?dup", m, own, Closing(fl, Execute(b, "?dup", code, x)))
<1> DEFINE q == InRegisters(m)
           s == StateOf(m, own)
           d == m.depth
           c == x.cells
           e == x.depth
           t == x.top
           X == Nth(q, 1)
           t2 == t
           e2 == IF t = 0 THEN e - 1 ELSE e
           c2 == c
           rs2 == m.rs
           p2 == m.dp
           h2 == m.heap
           new == IF X # 0 THEN <<X, X>> ELSE <<X>>
<1>1. Pops("?dup") = 1
  BY PopsAre
<1>2. /\ s \in States /\ q \in Seq(Cell) /\ s.ds = q /\ s.rs = Returns(m.rs, own) /\ s.dp = m.dp
      /\ \A i \in 1..d : q[i] = c[i]
  BY <1>1, Basics
<1>3. Len(q) = d + 1 /\ d \in Int /\ d >= 0 /\ d <= MaxCells - 1 /\ MaxCells \in Int
  BY <1>1, Basics
<1>4. q[d + 1] = m.top /\ X = m.top
  BY <1>3, Basics
<1>5. x = Machine(t, e, x.scratch, c, m.rs, m.dp, m.heap) /\ c \in [CellIndexes -> Cell]
  BY DEF Opened
<1>6. t = m.top /\ e = d + 1 /\ (e \in CellIndexes => c[e] = m.top)
  BY <1>3 DEF Opened
<1>7. X \in Cell
  <2>1. 1 \in 1..Len(q)
    BY <1>3
  <2> HIDE DEF q
  <2> QED
    BY <1>2, <2>1, TopCells
<1> HIDE DEF q, s, d, c, e, t, X
<1>9. new \in Seq(Cell) /\ Len(new) = (IF X # 0 THEN 2 ELSE 1) /\ new[1] = X /\ (X # 0 => new[2] = X)
  BY <1>7
<1>8. Meaning("?dup", s) = Put(s, 1, new)
  <2>1. Meaning("?dup", s) = Put(s, 1, IF Nth(s.ds, 1) # 0 THEN <<Nth(s.ds, 1), Nth(s.ds, 1)>> ELSE <<Nth(s.ds, 1)>>)
    BY HereMeanings, Zenon
  <2> QED
    BY <1>2, <2>1, Zenon DEF X
<1> HIDE DEF new
<1>10. Closing(fl, Execute(b, "?dup", code, x)) = Machine(t2, e2, x.scratch, c2, rs2, p2, h2)
  <2>1. e \in Int
    BY <1>3, <1>6
  <2>2. Closing(fl, Execute(b, "?dup", code, Machine(t, e, x.scratch, c, m.rs, m.dp, m.heap))) =
            Machine(t2, e2, x.scratch, c2, rs2, p2, h2)
    BY <2>1, DupIfEffect
  <2> QED
    BY <1>5, <2>2, Zenon
<1>11. 1 \in 0..Len(q) /\ (X # 0 => d + 2 <= MaxCells)
  <2>1. 1 \in 0..Len(q)
    BY <1>3
  <2>2. Len(q) - 1 + Len(new) <= MaxCells
    BY <1>8, <1>9, <2>1, Room DEF q, s
  <2> QED
    BY <1>3, <1>9, <2>1, <2>2
<1>12. e2 \in Int /\ t2 \in Cell /\ c2 \in [CellIndexes -> Cell] /\ e2 = Len(q) - 1 + Len(new) - 1
  BY <1>3, <1>4, <1>5, <1>6, <1>7, <1>9, <1>11 DEF CellIndexes, Kept
<1>13. \A i \in 1..(Len(q) - 1) : q[i] = IF i <= e2 THEN c2[i] ELSE t2
  BY <1>2, <1>3, <1>4, <1>5, <1>6, <1>7, <1>9, <1>11 DEF CellIndexes, Kept
<1>14. \A i \in 1..Len(new) : new[i] = IF Len(q) - 1 + i <= e2 THEN c2[Len(q) - 1 + i] ELSE t2
  BY <1>3, <1>4, <1>5, <1>6, <1>7, <1>9, <1>11 DEF CellIndexes, Kept
<1>15. Put(s, 1, new) \in Outcomes("?dup", s)
  BY <1>8, Meant
<1>16. Restacks(q, t2, e2, c2, 1, new)
  BY <1>9, <1>11, <1>12, <1>13, <1>14 DEF Restacks
<1> HIDE DEF e2, t2, c2
<1>17. Does("?dup", m, own, Machine(t2, e2, x.scratch, c2, rs2, p2, h2))
  BY <1>15, <1>16, Stacked DEF q, s
<1> QED
  BY <1>10, <1>17, Zenon

LEMMA AllotWord ==
    ASSUME NEW b, NEW m, NEW own, NEW r, Fit("allot", m, own, r), NEW fl, NEW x, Opened(fl, m, x),
           NEW code, "A" \notin fl /\ "B" \notin fl /\ "CLOB" \notin fl /\ "Y" \in fl /\ "Z" \in fl,
           Len(code) = 1 /\ code[1] = "allot"
    PROVE  Does("allot", m, own, Closing(fl, Execute(b, "allot", code, x)))
<1> DEFINE q == InRegisters(m)
           s == StateOf(m, own)
           d == m.depth
           c == x.cells
           e == x.depth
           t == x.top
           X == Nth(q, 1)
           t2 == c[e]
           e2 == e - 1
           c2 == c
           rs2 == m.rs
           p2 == m.dp + t
           h2 == m.heap
           new == <<>>
<1>1. Pops("allot") = 1
  BY PopsAre
<1>2. /\ s \in States /\ q \in Seq(Cell) /\ s.ds = q /\ s.rs = Returns(m.rs, own) /\ s.dp = m.dp
      /\ \A i \in 1..d : q[i] = c[i]
  BY <1>1, Basics
<1>3. Len(q) = d + 1 /\ d \in Int /\ d >= 0 /\ d <= MaxCells - 1 /\ MaxCells \in Int
  BY <1>1, Basics
<1>4. q[d + 1] = m.top /\ X = m.top
  BY <1>3, Basics
<1>5. x = Machine(t, e, x.scratch, c, m.rs, m.dp, m.heap) /\ c \in [CellIndexes -> Cell]
  BY DEF Opened
<1>6. t = m.top /\ e = d
  BY <1>3 DEF Opened
<1>7. X \in Cell
  <2>1. 1 \in 1..Len(q)
    BY <1>3
  <2> HIDE DEF q
  <2> QED
    BY <1>2, <2>1, TopCells
<1> HIDE DEF q, s, d, c, e, t, X
<1>9. new \in Seq(Cell) /\ Len(new) = 0
  BY <1>7
<1>r. Meaning("allot", s) = Result(q, 1, new, Returns(rs2, own), p2, h2)
  <2>1. Meaning("allot", s) = [Put(s, 1, new) EXCEPT !.dp = @ + Nth(s.ds, 1)]
    BY DupMeanings, Zenon DEF new
  <2>2. new \in Seq(Cell) /\ 1 \in 0..Len(s.ds)
    BY <1>2, <1>3 DEF new
  <2>3. Put(s, 1, new).dp = s.dp /\ \A v : [Put(s, 1, new) EXCEPT !.dp = v] = Result(s.ds, 1, new, s.rs, v, s.heap)
    BY <1>2, <2>2, PutResult, PutEffect
  <2>4. p2 = s.dp + Nth(s.ds, 1)
    BY <1>2, <1>4, <1>6, Zenon DEF X
  <2>5. h2 = s.heap
    BY DEF s, StateOf
  <2> QED
    BY <1>2, <2>1, <2>3, <2>4, <2>5, Zenon
<1> HIDE DEF new
<1>10. Closing(fl, Execute(b, "allot", code, x)) = Machine(t2, e2, x.scratch, c2, rs2, p2, h2)
  <2>1. e \in Int
    BY <1>3, <1>6
  <2>2. Closing(fl, Execute(b, "allot", code, Machine(t, e, x.scratch, c, m.rs, m.dp, m.heap))) =
            Machine(t2, e2, x.scratch, c2, rs2, p2, h2)
    BY <2>1, AllotEffect
  <2> QED
    BY <1>5, <2>2, Zenon
<1>11. 1 \in 0..Len(q)
  BY <1>3
<1>12. e2 \in Int /\ t2 \in Cell /\ c2 \in [CellIndexes -> Cell] /\ e2 = Len(q) - 1 + Len(new) - 1
  BY <1>3, <1>4, <1>5, <1>6, <1>7, <1>9, <1>11 DEF CellIndexes, Kept
<1>13. \A i \in 1..(Len(q) - 1) : q[i] = IF i <= e2 THEN c2[i] ELSE t2
  BY <1>2, <1>3, <1>4, <1>5, <1>6, <1>7, <1>9, <1>11 DEF CellIndexes, Kept
<1>14. \A i \in 1..Len(new) : new[i] = IF Len(q) - 1 + i <= e2 THEN c2[Len(q) - 1 + i] ELSE t2
  BY <1>3, <1>4, <1>5, <1>6, <1>7, <1>9, <1>11 DEF CellIndexes, Kept
<1>15. Result(q, 1, new, Returns(rs2, own), p2, h2) \in Outcomes("allot", s)
  BY <1>r, Meant
<1>8. rs2 \in Seq(Entries) /\ OwnCells(rs2, own) /\ (\A j \in 1..own : rs2[j] = m.rs[j])
  BY DEF Fit, IsMachine
<1>16. Restacks(q, t2, e2, c2, 1, new)
  BY <1>9, <1>11, <1>12, <1>13, <1>14 DEF Restacks
<1> HIDE DEF e2, t2, c2, rs2, p2, h2
<1>17. Does("allot", m, own, Machine(t2, e2, x.scratch, c2, rs2, p2, h2))
  BY <1>8, <1>15, <1>16, Changed DEF q, s
<1> QED
  BY <1>10, <1>17, Zenon

LEMMA AlignWord ==
    ASSUME NEW b, NEW m, NEW own, NEW r, Fit("align", m, own, r), NEW fl, NEW x, Opened(fl, m, x),
           NEW code, "A" \notin fl /\ "B" \notin fl /\ "CLOB" \notin fl /\ "Y" \notin fl /\ "Z" \notin fl,
           Len(code) = 1 /\ code[1] = "align"
    PROVE  Does("align", m, own, Closing(fl, Execute(b, "align", code, x)))
<1> DEFINE q == InRegisters(m)
           s == StateOf(m, own)
           d == m.depth
           c == x.cells
           e == x.depth
           t == x.top
           t2 == t
           e2 == e
           c2 == c
           rs2 == m.rs
           p2 == Align(m.dp)
           h2 == m.heap
           new == <<>>
<1>1. Pops("align") = 0
  BY PopsAre
<1>2. /\ s \in States /\ q \in Seq(Cell) /\ s.ds = q /\ s.rs = Returns(m.rs, own) /\ s.dp = m.dp
      /\ \A i \in 1..d : q[i] = c[i]
  BY <1>1, Basics
<1>3. Len(q) = d + 1 /\ d \in Int /\ d >= -1 /\ d <= MaxCells - 1 /\ MaxCells \in Int
  BY <1>1, Basics
<1>4. (d >= 0 => q[d + 1] = m.top)
  BY <1>3, Basics
<1>5. x = Machine(t, e, x.scratch, c, m.rs, m.dp, m.heap) /\ c \in [CellIndexes -> Cell]
  BY DEF Opened
<1>6. t = m.top /\ e = d
  BY <1>3 DEF Opened
<1>7. m.top \in Cell
  BY DEF Fit, IsMachine
<1> HIDE DEF q, s, d, c, e, t
<1>9. new \in Seq(Cell) /\ Len(new) = 0
  BY <1>7
<1>r. Meaning("align", s) = Result(q, 0, new, Returns(rs2, own), p2, h2)
  <2>1. Meaning("align", s) = [s EXCEPT !.dp = Align(@)]
    BY HereMeanings, Zenon
  <2>2. s = [ds |-> q, rs |-> Returns(m.rs, own), dp |-> m.dp, heap |-> m.heap]
    BY DEF s, q, StateOf
  <2>3. [s EXCEPT !.dp = Align(@)] = [ds |-> q, rs |-> Returns(m.rs, own), dp |-> Align(m.dp), heap |-> m.heap]
    BY <2>2
  <2>4. Below(q, 0) \o new = q
    BY <1>2, NothingPut DEF new
  <2> QED
    BY <2>1, <2>3, <2>4, Zenon DEF Result
<1> HIDE DEF new
<1>10. Closing(fl, Execute(b, "align", code, x)) = Machine(t2, e2, x.scratch, c2, rs2, p2, h2)
  <2>1. e \in Int
    BY <1>3, <1>6
  <2>2. Closing(fl, Execute(b, "align", code, Machine(t, e, x.scratch, c, m.rs, m.dp, m.heap))) =
            Machine(t2, e2, x.scratch, c2, rs2, p2, h2)
    BY <2>1, AlignEffect
  <2> QED
    BY <1>5, <2>2, Zenon
<1>11. 0 \in 0..Len(q)
  BY <1>3
<1>12. e2 \in Int /\ t2 \in Cell /\ c2 \in [CellIndexes -> Cell] /\ e2 = Len(q) - 0 + Len(new) - 1
  BY <1>3, <1>4, <1>5, <1>6, <1>7, <1>9, <1>11 DEF CellIndexes, Kept
<1>13. \A i \in 1..(Len(q) - 0) : q[i] = IF i <= e2 THEN c2[i] ELSE t2
  BY <1>2, <1>3, <1>4, <1>5, <1>6, <1>7, <1>9, <1>11 DEF CellIndexes, Kept
<1>14. \A i \in 1..Len(new) : new[i] = IF Len(q) - 0 + i <= e2 THEN c2[Len(q) - 0 + i] ELSE t2
  BY <1>3, <1>4, <1>5, <1>6, <1>7, <1>9, <1>11 DEF CellIndexes, Kept
<1>15. Result(q, 0, new, Returns(rs2, own), p2, h2) \in Outcomes("align", s)
  BY <1>r, Meant
<1>8. rs2 \in Seq(Entries) /\ OwnCells(rs2, own) /\ (\A j \in 1..own : rs2[j] = m.rs[j])
  BY DEF Fit, IsMachine
<1>16. Restacks(q, t2, e2, c2, 0, new)
  BY <1>9, <1>11, <1>12, <1>13, <1>14 DEF Restacks
<1> HIDE DEF e2, t2, c2, rs2, p2, h2
<1>17. Does("align", m, own, Machine(t2, e2, x.scratch, c2, rs2, p2, h2))
  BY <1>8, <1>15, <1>16, Changed DEF q, s
<1> QED
  BY <1>10, <1>17, Zenon

LEMMA CommaWord ==
    ASSUME NEW b, NEW w \in Commas, NEW m, NEW own, NEW r, Fit(w, m, own, r), NEW fl, NEW x, Opened(fl, m, x),
           NEW code, "A" \notin fl /\ "B" \notin fl /\ "CLOB" \notin fl /\ "Y" \in fl /\ "Z" \in fl,
           Len(code) = 1 /\ code[1] = "comma"
    PROVE  Does(w, m, own, Closing(fl, Execute(b, w, code, x)))
<1> DEFINE q == InRegisters(m)
           s == StateOf(m, own)
           d == m.depth
           c == x.cells
           e == x.depth
           t == x.top
           X == Nth(q, 1)
           t2 == c[e]
           e2 == e - 1
           c2 == c
           rs2 == m.rs
           p2 == m.dp + UnitsOf(w)
           h2 == Store(m.heap, m.dp, UnitsOf(w), t)
           new == <<>>
<1>1. Pops(w) = 1
  BY PopsAre, Zenon DEF Commas
<1>2. /\ s \in States /\ q \in Seq(Cell) /\ s.ds = q /\ s.rs = Returns(m.rs, own) /\ s.dp = m.dp
      /\ \A i \in 1..d : q[i] = c[i]
  BY <1>1, Basics
<1>3. Len(q) = d + 1 /\ d \in Int /\ d >= 0 /\ d <= MaxCells - 1 /\ MaxCells \in Int
  BY <1>1, Basics
<1>4. q[d + 1] = m.top /\ X = m.top
  BY <1>3, Basics
<1>5. x = Machine(t, e, x.scratch, c, m.rs, m.dp, m.heap) /\ c \in [CellIndexes -> Cell]
  BY DEF Opened
<1>6. t = m.top /\ e = d
  BY <1>3 DEF Opened
<1>7. X \in Cell
  <2>1. 1 \in 1..Len(q)
    BY <1>3
  <2> HIDE DEF q
  <2> QED
    BY <1>2, <2>1, TopCells
<1> HIDE DEF q, s, d, c, e, t, X
<1>9. new \in Seq(Cell) /\ Len(new) = 0
  BY <1>7
<1>r. Meaning(w, s) = Result(q, 1, new, Returns(rs2, own), p2, h2)
  <2>1. /\ Meaning(",", s) = [Put(s, 1, new) EXCEPT !.heap = Store(@, s.dp, 4, Nth(s.ds, 1)), !.dp = @ + 4]
        /\ Meaning("w,", s) = [Put(s, 1, new) EXCEPT !.heap = Store(@, s.dp, 2, Nth(s.ds, 1)), !.dp = @ + 2]
        /\ Meaning("c,", s) = [Put(s, 1, new) EXCEPT !.heap = Store(@, s.dp, 1, Nth(s.ds, 1)), !.dp = @ + 1]
    BY RotMeanings, HereMeanings, HalveMeanings, Zenon DEF new
  <2>2. new \in Seq(Cell) /\ 1 \in 0..Len(s.ds)
    BY <1>2, <1>3 DEF new
  <2>3. Put(s, 1, new) = Result(q, 1, new, s.rs, s.dp, s.heap)
    BY <1>2, <2>2, PutResult
  <2>4. \A v, y : [Result(q, 1, new, s.rs, s.dp, s.heap) EXCEPT !.heap = v, !.dp = y] = Result(q, 1, new, s.rs, y, v)
    <3> TAKE v, y
    <3> DEFINE f == Below(q, 1) \o new
               g == s.rs
               g2 == s.dp
               g3 == s.heap
    <3> HIDE DEF f, g, g2, g3
    <3> DEFINE a == [ds |-> f, rs |-> g, dp |-> g2, heap |-> g3]
    <3>1. [a EXCEPT !.heap = v] = [ds |-> f, rs |-> g, dp |-> g2, heap |-> v]
      OBVIOUS
    <3>2. [[ds |-> f, rs |-> g, dp |-> g2, heap |-> v] EXCEPT !.dp = y] = [ds |-> f, rs |-> g, dp |-> y, heap |-> v]
      OBVIOUS
    <3> HIDE DEF a
    <3>3. [a EXCEPT !.heap = v, !.dp = y] = [[a EXCEPT !.heap = v] EXCEPT !.dp = y]
      BY Twice, Zenon
    <3>4. [a EXCEPT !.heap = v, !.dp = y] = [ds |-> f, rs |-> g, dp |-> y, heap |-> v]
      BY <3>1, <3>2, <3>3, Zenon
    <3> QED
      BY <3>4, Zenon DEF Result, f, g, g2, g3, a
  <2>5. Put(s, 1, new).dp = s.dp /\ Put(s, 1, new).heap = s.heap
    BY <2>3 DEF Result
  <2>6. Nth(s.ds, 1) = t /\ s.dp = m.dp /\ s.heap = m.heap
    <3>1. s.heap = m.heap
      BY DEF s, StateOf
    <3> QED
      BY <1>2, <1>4, <1>6, <3>1, Zenon DEF X
  <2>7. UnitsOf(",") = 4 /\ UnitsOf("w,") = 2 /\ UnitsOf("c,") = 1
    BY DEF UnitsOf
  <2>8. CASE w = ","
    <3>1. Meaning(w, s) = Result(q, 1, new, s.rs, Put(s, 1, new).dp + 4, Store(Put(s, 1, new).heap, s.dp, 4, Nth(s.ds, 1)))
      BY <2>1, <2>3, <2>4, <2>8, Zenon
    <3>2. UnitsOf(w) = 4
      BY <2>7, <2>8, Zenon
    <3>3. Meaning(w, s) = Result(q, 1, new, Returns(m.rs, own), m.dp + UnitsOf(w), Store(m.heap, m.dp, UnitsOf(w), t))
      BY <1>2, <2>5, <2>6, <3>1, <3>2, Zenon
    <3> QED
      BY <3>3, Zenon
  <2>9. CASE w = "w,"
    <3>1. Meaning(w, s) = Result(q, 1, new, s.rs, Put(s, 1, new).dp + 2, Store(Put(s, 1, new).heap, s.dp, 2, Nth(s.ds, 1)))
      BY <2>1, <2>3, <2>4, <2>9, Zenon
    <3>2. UnitsOf(w) = 2
      BY <2>7, <2>9, Zenon
    <3>3. Meaning(w, s) = Result(q, 1, new, Returns(m.rs, own), m.dp + UnitsOf(w), Store(m.heap, m.dp, UnitsOf(w), t))
      BY <1>2, <2>5, <2>6, <3>1, <3>2, Zenon
    <3> QED
      BY <3>3, Zenon
  <2>10. CASE w = "c,"
    <3>1. Meaning(w, s) = Result(q, 1, new, s.rs, Put(s, 1, new).dp + 1, Store(Put(s, 1, new).heap, s.dp, 1, Nth(s.ds, 1)))
      BY <2>1, <2>3, <2>4, <2>10, Zenon
    <3>2. UnitsOf(w) = 1
      BY <2>7, <2>10, Zenon
    <3>3. Meaning(w, s) = Result(q, 1, new, Returns(m.rs, own), m.dp + UnitsOf(w), Store(m.heap, m.dp, UnitsOf(w), t))
      BY <1>2, <2>5, <2>6, <3>1, <3>2, Zenon
    <3> QED
      BY <3>3, Zenon
  <2> QED
    BY <2>8, <2>9, <2>10, Zenon DEF Commas
<1> HIDE DEF new
<1>10. Closing(fl, Execute(b, w, code, x)) = Machine(t2, e2, x.scratch, c2, rs2, p2, h2)
  <2>1. e \in Int
    BY <1>3, <1>6
  <2>2. Closing(fl, Execute(b, w, code, Machine(t, e, x.scratch, c, m.rs, m.dp, m.heap))) =
            Machine(t2, e2, x.scratch, c2, rs2, p2, h2)
    BY <2>1, CommaEffect
  <2> QED
    BY <1>5, <2>2, Zenon
<1>11. 1 \in 0..Len(q)
  BY <1>3
<1>12. e2 \in Int /\ t2 \in Cell /\ c2 \in [CellIndexes -> Cell] /\ e2 = Len(q) - 1 + Len(new) - 1
  BY <1>3, <1>4, <1>5, <1>6, <1>7, <1>9, <1>11 DEF CellIndexes, Kept
<1>13. \A i \in 1..(Len(q) - 1) : q[i] = IF i <= e2 THEN c2[i] ELSE t2
  BY <1>2, <1>3, <1>4, <1>5, <1>6, <1>7, <1>9, <1>11 DEF CellIndexes, Kept
<1>14. \A i \in 1..Len(new) : new[i] = IF Len(q) - 1 + i <= e2 THEN c2[Len(q) - 1 + i] ELSE t2
  BY <1>3, <1>4, <1>5, <1>6, <1>7, <1>9, <1>11 DEF CellIndexes, Kept
<1>15. Result(q, 1, new, Returns(rs2, own), p2, h2) \in Outcomes(w, s)
  BY <1>r, Meant
<1>8. rs2 \in Seq(Entries) /\ OwnCells(rs2, own) /\ (\A j \in 1..own : rs2[j] = m.rs[j])
  BY DEF Fit, IsMachine
<1>16. Restacks(q, t2, e2, c2, 1, new)
  BY <1>9, <1>11, <1>12, <1>13, <1>14 DEF Restacks
<1> HIDE DEF e2, t2, c2, rs2, p2, h2
<1>17. Does(w, m, own, Machine(t2, e2, x.scratch, c2, rs2, p2, h2))
  BY <1>8, <1>15, <1>16, Changed DEF q, s
<1> QED
  BY <1>10, <1>17, Zenon

LEMMA PokeWord ==
    ASSUME NEW b, NEW w \in {"c!", "!", "w!", "+!"}, NEW m, NEW own, NEW r, Fit(w, m, own, r), NEW fl, NEW x, Opened(fl, m, x),
           NEW code, "A" \notin fl /\ "B" \notin fl /\ "CLOB" \notin fl /\ "Y" \in fl /\ "Z" \in fl,
           Len(code) = 3 /\ code[1] = "keep" /\ code[2] = "poke" /\ code[3] = "Z"
    PROVE  Does(w, m, own, Closing(fl, Execute(b, w, code, x)))
<1> DEFINE q == InRegisters(m)
           s == StateOf(m, own)
           d == m.depth
           c == x.cells
           e == x.depth
           t == x.top
           X == Nth(q, 1)
           Y == Nth(q, 2)
           t2 == c[e - 1]
           e2 == e - 2
           c2 == c
           rs2 == m.rs
           p2 == m.dp
           h2 == Store(m.heap, t, UnitsOf(w), IF w = "+!" THEN Load(m.heap, t, 4) + c[e] ELSE c[e])
           new == <<>>
<1>1. Pops(w) = 2
  BY PopsAre
<1>2. /\ s \in States /\ q \in Seq(Cell) /\ s.ds = q /\ s.rs = Returns(m.rs, own) /\ s.dp = m.dp
      /\ \A i \in 1..d : q[i] = c[i]
  BY <1>1, Basics
<1>3. Len(q) = d + 1 /\ d \in Int /\ d >= 1 /\ d <= MaxCells - 1 /\ MaxCells \in Int
  BY <1>1, Basics
<1>4. q[d + 1] = m.top /\ X = m.top /\ Y = c[d]
  BY <1>3, Basics
<1>5. x = Machine(t, e, x.scratch, c, m.rs, m.dp, m.heap) /\ c \in [CellIndexes -> Cell]
  BY DEF Opened
<1>6. t = m.top /\ e = d
  BY <1>3 DEF Opened
<1>7. X \in Cell /\ Y \in Cell
  <2>1. 1 \in 1..Len(q) /\ 2 \in 1..Len(q)
    BY <1>3
  <2> HIDE DEF q
  <2> QED
    BY <1>2, <2>1, TopCells
<1> HIDE DEF q, s, d, c, e, t, X, Y
<1>9. new \in Seq(Cell) /\ Len(new) = 0
  BY <1>7
<1>r. Meaning(w, s) = Result(q, 2, new, Returns(rs2, own), p2, h2)
  <2>1. /\ Meaning("!", s) = [Put(s, 2, new) EXCEPT !.heap = Store(@, Nth(s.ds, 1), 4, Nth(s.ds, 2))]
        /\ Meaning("w!", s) = [Put(s, 2, new) EXCEPT !.heap = Store(@, Nth(s.ds, 1), 2, Nth(s.ds, 2))]
        /\ Meaning("c!", s) = [Put(s, 2, new) EXCEPT !.heap = Store(@, Nth(s.ds, 1), 1, Nth(s.ds, 2))]
        /\ Meaning("+!", s) = [Put(s, 2, new) EXCEPT !.heap = Store(@, Nth(s.ds, 1), 4, Load(@, Nth(s.ds, 1), 4) + Nth(s.ds, 2))]
    BY RotMeanings, HalveMeanings, Zenon DEF new
  <2>2. new \in Seq(Cell) /\ 2 \in 0..Len(s.ds)
    BY <1>2, <1>3 DEF new
  <2>3. /\ Put(s, 2, new).heap = s.heap
        /\ \A v : [Put(s, 2, new) EXCEPT !.heap = v] = Result(s.ds, 2, new, s.rs, s.dp, v)
    BY <1>2, <2>2, PutResult, PutEffect
  <2>6. Nth(s.ds, 1) = t /\ Nth(s.ds, 2) = c[e] /\ s.dp = m.dp /\ s.heap = m.heap
    <3>1. s.heap = m.heap
      BY DEF s, StateOf
    <3> QED
      BY <1>2, <1>4, <1>6, <3>1, Zenon DEF X, Y
  <2>7. UnitsOf("!") = 4 /\ UnitsOf("w!") = 2 /\ UnitsOf("c!") = 1 /\ UnitsOf("+!") = 4
    BY DEF UnitsOf
  <2>8. CASE w = "!"
    <3>1. Meaning(w, s) = Result(s.ds, 2, new, s.rs, s.dp, Store(Put(s, 2, new).heap, Nth(s.ds, 1), 4, Nth(s.ds, 2)))
      BY <2>1, <2>3, <2>8, Zenon
    <3>2. UnitsOf(w) = 4
      BY <2>7, <2>8, Zenon
    <3>3. h2 = Store(m.heap, t, 4, c[e])
      BY <2>8, <3>2
    <3>4. Put(s, 2, new).heap = s.heap
      BY <2>3, Zenon
    <3> HIDE DEF h2
    <3> QED
      BY <1>2, <2>6, <3>1, <3>3, <3>4
  <2>9. CASE w = "w!"
    <3>1. Meaning(w, s) = Result(s.ds, 2, new, s.rs, s.dp, Store(Put(s, 2, new).heap, Nth(s.ds, 1), 2, Nth(s.ds, 2)))
      BY <2>1, <2>3, <2>9, Zenon
    <3>2. UnitsOf(w) = 2
      BY <2>7, <2>9, Zenon
    <3>3. h2 = Store(m.heap, t, 2, c[e])
      BY <2>9, <3>2
    <3>4. Put(s, 2, new).heap = s.heap
      BY <2>3, Zenon
    <3> HIDE DEF h2
    <3> QED
      BY <1>2, <2>6, <3>1, <3>3, <3>4
  <2>10. CASE w = "c!"
    <3>1. Meaning(w, s) = Result(s.ds, 2, new, s.rs, s.dp, Store(Put(s, 2, new).heap, Nth(s.ds, 1), 1, Nth(s.ds, 2)))
      BY <2>1, <2>3, <2>10, Zenon
    <3>2. UnitsOf(w) = 1
      BY <2>7, <2>10, Zenon
    <3>3. h2 = Store(m.heap, t, 1, c[e])
      BY <2>10, <3>2
    <3>4. Put(s, 2, new).heap = s.heap
      BY <2>3, Zenon
    <3> HIDE DEF h2
    <3> QED
      BY <1>2, <2>6, <3>1, <3>3, <3>4
  <2>11. CASE w = "+!"
    <3>1. Meaning(w, s) = Result(s.ds, 2, new, s.rs, s.dp, Store(Put(s, 2, new).heap, Nth(s.ds, 1), 4, Load(Put(s, 2, new).heap, Nth(s.ds, 1), 4) + Nth(s.ds, 2)))
      BY <2>1, <2>3, <2>11, Zenon
    <3>2. UnitsOf(w) = 4
      BY <2>7, <2>11, Zenon
    <3>3. h2 = Store(m.heap, t, 4, Load(m.heap, t, 4) + c[e])
      BY <2>11, <3>2
    <3>4. Put(s, 2, new).heap = s.heap
      BY <2>3, Zenon
    <3> HIDE DEF h2
    <3> QED
      BY <1>2, <2>6, <3>1, <3>3, <3>4
  <2> QED
    BY <2>8, <2>9, <2>10, <2>11
<1> HIDE DEF new
<1>10. Closing(fl, Execute(b, w, code, x)) = Machine(t2, e2, c[e], c2, rs2, p2, h2)
  <2>1. e \in Int
    BY <1>3, <1>6
  <2>2. Closing(fl, Execute(b, w, code, Machine(t, e, x.scratch, c, m.rs, m.dp, m.heap))) =
            Machine(t2, e2, c[e], c2, rs2, p2, h2)
    BY <2>1, PokeEffect
  <2> QED
    BY <1>5, <2>2, Zenon
<1>11. 2 \in 0..Len(q)
  BY <1>3
<1>12. e2 \in Int /\ t2 \in Cell /\ c2 \in [CellIndexes -> Cell] /\ e2 = Len(q) - 2 + Len(new) - 1
  BY <1>3, <1>4, <1>5, <1>6, <1>7, <1>9, <1>11 DEF CellIndexes, Kept
<1>13. \A i \in 1..(Len(q) - 2) : q[i] = IF i <= e2 THEN c2[i] ELSE t2
  BY <1>2, <1>3, <1>4, <1>5, <1>6, <1>7, <1>9, <1>11 DEF CellIndexes, Kept
<1>14. \A i \in 1..Len(new) : new[i] = IF Len(q) - 2 + i <= e2 THEN c2[Len(q) - 2 + i] ELSE t2
  BY <1>3, <1>4, <1>5, <1>6, <1>7, <1>9, <1>11 DEF CellIndexes, Kept
<1>15. Result(q, 2, new, Returns(rs2, own), p2, h2) \in Outcomes(w, s)
  BY <1>r, Meant
<1>8. rs2 \in Seq(Entries) /\ OwnCells(rs2, own) /\ (\A j \in 1..own : rs2[j] = m.rs[j])
  BY DEF Fit, IsMachine
<1>16. Restacks(q, t2, e2, c2, 2, new)
  BY <1>9, <1>11, <1>12, <1>13, <1>14 DEF Restacks
<1> HIDE DEF e2, t2, c2, rs2, p2, h2
<1>17. Does(w, m, own, Machine(t2, e2, c[e], c2, rs2, p2, h2))
  BY <1>8, <1>15, <1>16, Changed DEF q, s
<1> QED
  BY <1>10, <1>17, Zenon

LEMMA ToRWord ==
    ASSUME NEW b, NEW m, NEW own, NEW r, Fit(">r", m, own, r), NEW fl, NEW x, Opened(fl, m, x),
           NEW code, "A" \notin fl /\ "B" \notin fl /\ "CLOB" \notin fl /\ "Y" \in fl /\ "Z" \in fl,
           Len(code) = 1 /\ code[1] = "rpush"
    PROVE  Does(">r", m, own, Closing(fl, Execute(b, ">r", code, x)))
<1> DEFINE q == InRegisters(m)
           s == StateOf(m, own)
           d == m.depth
           c == x.cells
           e == x.depth
           t == x.top
           X == Nth(q, 1)
           t2 == c[e]
           e2 == e - 1
           c2 == c
           rs2 == Append(m.rs, <<"cell", t>>)
           p2 == m.dp
           h2 == m.heap
           new == <<>>
<1>1. Pops(">r") = 1
  BY PopsAre
<1>2. /\ s \in States /\ q \in Seq(Cell) /\ s.ds = q /\ s.rs = Returns(m.rs, own) /\ s.dp = m.dp
      /\ \A i \in 1..d : q[i] = c[i]
  BY <1>1, Basics
<1>3. Len(q) = d + 1 /\ d \in Int /\ d >= 0 /\ d <= MaxCells - 1 /\ MaxCells \in Int
  BY <1>1, Basics
<1>4. q[d + 1] = m.top /\ X = m.top
  BY <1>3, Basics
<1>5. x = Machine(t, e, x.scratch, c, m.rs, m.dp, m.heap) /\ c \in [CellIndexes -> Cell]
  BY DEF Opened
<1>6. t = m.top /\ e = d
  BY <1>3 DEF Opened
<1>7. X \in Cell
  <2>1. 1 \in 1..Len(q)
    BY <1>3
  <2> HIDE DEF q
  <2> QED
    BY <1>2, <2>1, TopCells
<1> HIDE DEF q, s, d, c, e, t, X
<1>9. new \in Seq(Cell) /\ Len(new) = 0
  BY <1>7
<1>8. /\ rs2 \in Seq(Entries) /\ OwnCells(rs2, own) /\ (\A j \in 1..own : rs2[j] = m.rs[j])
      /\ Returns(rs2, own) = Append(s.rs, X)
  <2>1. m.rs \in Seq(Entries) /\ OwnCells(m.rs, own)
    BY DEF Fit, IsMachine
  <2> DEFINE tagged == <<<<"cell", X>>>>
             cells == <<X>>
  <2>2. /\ cells \in Seq(Cell) /\ tagged \in Seq(Entries) /\ Len(tagged) = Len(cells)
        /\ Tags(tagged, cells)
    <3>1. <<"cell", X>> \in Entries
      BY <1>7, Integer DEF Entries
    <3> QED
      BY <1>7, <3>1 DEF Tags
  <2> HIDE DEF tagged, cells
  <2>3. /\ m.rs \o tagged \in Seq(Entries) /\ OwnCells(m.rs \o tagged, own)
        /\ Returns(m.rs \o tagged, own) = Returns(m.rs, own) \o cells
        /\ \A j \in 1..own : (m.rs \o tagged)[j] = m.rs[j]
    <3>1. PushedOn(m.rs, tagged, own, cells)
      BY <2>1, <2>2, ReturnsPush
    <3> QED
      BY <3>1, Zenon DEF PushedOn
  <2>4. rs2 = m.rs \o tagged
    BY <1>4, <1>6, <2>1, AppendIs DEF tagged
  <2>5. Append(s.rs, X) = s.rs \o cells
    BY <1>2, <1>7, AppendIs DEF cells, States
  <2> QED
    BY <1>2, <2>3, <2>4, <2>5, Zenon
<1>r. Meaning(">r", s) = Result(q, 1, new, Returns(rs2, own), p2, h2)
  <2>1. Meaning(">r", s) = [Put(s, 1, new) EXCEPT !.rs = Append(@, Nth(s.ds, 1))]
    BY HereMeanings, Zenon DEF new
  <2>2. new \in Seq(Cell) /\ 1 \in 0..Len(s.ds)
    BY <1>2, <1>3 DEF new
  <2>3. /\ Put(s, 1, new).rs = s.rs
        /\ \A v : [Put(s, 1, new) EXCEPT !.rs = v] = Result(s.ds, 1, new, v, s.dp, s.heap)
    BY <1>2, <2>2, PutResult, PutEffect
  <2>4. s.dp = m.dp /\ s.heap = m.heap
    BY DEF s, StateOf
  <2>5. Meaning(">r", s) = Result(s.ds, 1, new, Append(Put(s, 1, new).rs, Nth(s.ds, 1)), s.dp, s.heap)
    BY <2>1, <2>3, Zenon
  <2>6. Put(s, 1, new).rs = s.rs
    BY <2>3, Zenon
  <2> HIDE DEF rs2, p2, h2, new
  <2>7. p2 = m.dp /\ h2 = m.heap
    BY DEF p2, h2
  <2> QED
    BY <1>2, <1>8, <2>4, <2>5, <2>6, <2>7 DEF X
<1> HIDE DEF new
<1>10. Closing(fl, Execute(b, ">r", code, x)) = Machine(t2, e2, x.scratch, c2, rs2, p2, h2)
  <2>1. e \in Int
    BY <1>3, <1>6
  <2>2. Closing(fl, Execute(b, ">r", code, Machine(t, e, x.scratch, c, m.rs, m.dp, m.heap))) =
            Machine(t2, e2, x.scratch, c2, rs2, p2, h2)
    BY <2>1, ToREffect
  <2> QED
    BY <1>5, <2>2, Zenon
<1>11. 1 \in 0..Len(q)
  BY <1>3
<1>12. e2 \in Int /\ t2 \in Cell /\ c2 \in [CellIndexes -> Cell] /\ e2 = Len(q) - 1 + Len(new) - 1
  BY <1>3, <1>4, <1>5, <1>6, <1>7, <1>9, <1>11 DEF CellIndexes, Kept
<1>13. \A i \in 1..(Len(q) - 1) : q[i] = IF i <= e2 THEN c2[i] ELSE t2
  BY <1>2, <1>3, <1>4, <1>5, <1>6, <1>7, <1>9, <1>11 DEF CellIndexes, Kept
<1>14. \A i \in 1..Len(new) : new[i] = IF Len(q) - 1 + i <= e2 THEN c2[Len(q) - 1 + i] ELSE t2
  BY <1>3, <1>4, <1>5, <1>6, <1>7, <1>9, <1>11 DEF CellIndexes, Kept
<1>15. Result(q, 1, new, Returns(rs2, own), p2, h2) \in Outcomes(">r", s)
  BY <1>r, Meant
<1>16. Restacks(q, t2, e2, c2, 1, new)
  BY <1>9, <1>11, <1>12, <1>13, <1>14 DEF Restacks
<1> HIDE DEF e2, t2, c2, rs2, p2, h2
<1>17. Does(">r", m, own, Machine(t2, e2, x.scratch, c2, rs2, p2, h2))
  BY <1>8, <1>15, <1>16, Changed DEF q, s
<1> QED
  BY <1>10, <1>17, Zenon

LEMMA ToR2Word ==
    ASSUME NEW b, NEW m, NEW own, NEW r, Fit("2>r", m, own, r), NEW fl, NEW x, Opened(fl, m, x),
           NEW code, "A" \notin fl /\ "B" \notin fl /\ "CLOB" \notin fl /\ "Y" \in fl /\ "Z" \in fl,
           Len(code) = 2 /\ code[1] = "rpush2" /\ code[2] = "Z"
    PROVE  Does("2>r", m, own, Closing(fl, Execute(b, "2>r", code, x)))
<1> DEFINE q == InRegisters(m)
           s == StateOf(m, own)
           d == m.depth
           c == x.cells
           e == x.depth
           t == x.top
           X == Nth(q, 1)
           Y == Nth(q, 2)
           t2 == c[e - 1]
           e2 == e - 2
           c2 == c
           rs2 == m.rs \o <<<<"cell", c[e]>>, <<"cell", t>>>>
           p2 == m.dp
           h2 == m.heap
           new == <<>>
<1>1. Pops("2>r") = 2
  BY PopsAre
<1>2. /\ s \in States /\ q \in Seq(Cell) /\ s.ds = q /\ s.rs = Returns(m.rs, own) /\ s.dp = m.dp
      /\ \A i \in 1..d : q[i] = c[i]
  BY <1>1, Basics
<1>3. Len(q) = d + 1 /\ d \in Int /\ d >= 1 /\ d <= MaxCells - 1 /\ MaxCells \in Int
  BY <1>1, Basics
<1>4. q[d + 1] = m.top /\ X = m.top /\ Y = c[d]
  BY <1>3, Basics
<1>5. x = Machine(t, e, x.scratch, c, m.rs, m.dp, m.heap) /\ c \in [CellIndexes -> Cell]
  BY DEF Opened
<1>6. t = m.top /\ e = d
  BY <1>3 DEF Opened
<1>7. X \in Cell /\ Y \in Cell
  <2>1. 1 \in 1..Len(q) /\ 2 \in 1..Len(q)
    BY <1>3
  <2> HIDE DEF q
  <2> QED
    BY <1>2, <2>1, TopCells
<1> HIDE DEF q, s, d, c, e, t, X, Y
<1>9. new \in Seq(Cell) /\ Len(new) = 0
  BY <1>7
<1>8. /\ rs2 \in Seq(Entries) /\ OwnCells(rs2, own) /\ (\A j \in 1..own : rs2[j] = m.rs[j])
      /\ Returns(rs2, own) = s.rs \o <<Y, X>>
  <2>1. m.rs \in Seq(Entries) /\ OwnCells(m.rs, own)
    BY DEF Fit, IsMachine
  <2> DEFINE tagged == <<<<"cell", Y>>, <<"cell", X>>>>
             cells == <<Y, X>>
  <2>2. /\ cells \in Seq(Cell) /\ tagged \in Seq(Entries) /\ Len(tagged) = Len(cells)
        /\ Tags(tagged, cells)
    <3>1. <<"cell", Y>> \in Entries /\ <<"cell", X>> \in Entries
      BY <1>7, Integer DEF Entries
    <3> QED
      BY <1>7, <3>1 DEF Tags
  <2> HIDE DEF tagged, cells
  <2>3. /\ m.rs \o tagged \in Seq(Entries) /\ OwnCells(m.rs \o tagged, own)
        /\ Returns(m.rs \o tagged, own) = Returns(m.rs, own) \o cells
        /\ \A j \in 1..own : (m.rs \o tagged)[j] = m.rs[j]
    <3>1. PushedOn(m.rs, tagged, own, cells)
      BY <2>1, <2>2, ReturnsPush
    <3> QED
      BY <3>1, Zenon DEF PushedOn
  <2>4. rs2 = m.rs \o tagged
    BY <1>4, <1>6 DEF tagged
  <2>5. s.rs \o <<Y, X>> = s.rs \o cells
    BY DEF cells
  <2> QED
    BY <1>2, <2>3, <2>4, <2>5, Zenon
<1>r. Meaning("2>r", s) = Result(q, 2, new, Returns(rs2, own), p2, h2)
  <2>1. Meaning("2>r", s) = [Put(s, 2, new) EXCEPT !.rs = @ \o <<Nth(s.ds, 2), Nth(s.ds, 1)>>]
    BY HereMeanings, Zenon DEF new
  <2>2. new \in Seq(Cell) /\ 2 \in 0..Len(s.ds)
    BY <1>2, <1>3 DEF new
  <2>3. /\ Put(s, 2, new).rs = s.rs
        /\ \A v : [Put(s, 2, new) EXCEPT !.rs = v] = Result(s.ds, 2, new, v, s.dp, s.heap)
    BY <1>2, <2>2, PutResult, PutEffect
  <2>4. s.dp = m.dp /\ s.heap = m.heap
    BY DEF s, StateOf
  <2>5. Meaning("2>r", s) = Result(s.ds, 2, new, Put(s, 2, new).rs \o <<Nth(s.ds, 2), Nth(s.ds, 1)>>, s.dp, s.heap)
    BY <2>1, <2>3, Zenon
  <2>6. Put(s, 2, new).rs = s.rs
    BY <2>3, Zenon
  <2> HIDE DEF rs2, p2, h2, new
  <2>7. p2 = m.dp /\ h2 = m.heap
    BY DEF p2, h2
  <2> QED
    BY <1>2, <1>8, <2>4, <2>5, <2>6, <2>7 DEF X, Y
<1> HIDE DEF new
<1>10. Closing(fl, Execute(b, "2>r", code, x)) = Machine(t2, e2, x.scratch, c2, rs2, p2, h2)
  <2>1. e \in Int
    BY <1>3, <1>6
  <2>2. Closing(fl, Execute(b, "2>r", code, Machine(t, e, x.scratch, c, m.rs, m.dp, m.heap))) =
            Machine(t2, e2, x.scratch, c2, rs2, p2, h2)
    BY <2>1, ToR2Effect
  <2> QED
    BY <1>5, <2>2, Zenon
<1>11. 2 \in 0..Len(q)
  BY <1>3
<1>12. e2 \in Int /\ t2 \in Cell /\ c2 \in [CellIndexes -> Cell] /\ e2 = Len(q) - 2 + Len(new) - 1
  BY <1>3, <1>4, <1>5, <1>6, <1>7, <1>9, <1>11 DEF CellIndexes, Kept
<1>13. \A i \in 1..(Len(q) - 2) : q[i] = IF i <= e2 THEN c2[i] ELSE t2
  BY <1>2, <1>3, <1>4, <1>5, <1>6, <1>7, <1>9, <1>11 DEF CellIndexes, Kept
<1>14. \A i \in 1..Len(new) : new[i] = IF Len(q) - 2 + i <= e2 THEN c2[Len(q) - 2 + i] ELSE t2
  BY <1>3, <1>4, <1>5, <1>6, <1>7, <1>9, <1>11 DEF CellIndexes, Kept
<1>15. Result(q, 2, new, Returns(rs2, own), p2, h2) \in Outcomes("2>r", s)
  BY <1>r, Meant
<1>16. Restacks(q, t2, e2, c2, 2, new)
  BY <1>9, <1>11, <1>12, <1>13, <1>14 DEF Restacks
<1> HIDE DEF e2, t2, c2, rs2, p2, h2
<1>17. Does("2>r", m, own, Machine(t2, e2, x.scratch, c2, rs2, p2, h2))
  BY <1>8, <1>15, <1>16, Changed DEF q, s
<1> QED
  BY <1>10, <1>17, Zenon

LEMMA FromRWord ==
    ASSUME NEW b, NEW m, NEW own, NEW r, Fit("r>", m, own, r), NEW fl, NEW x, Opened(fl, m, x),
           NEW code, "A" \in fl /\ "B" \in fl /\ "CLOB" \in fl /\ "Y" \notin fl /\ "Z" \notin fl,
           Len(code) = 1 /\ code[1] = "rpop"
    PROVE  Does("r>", m, own, Closing(fl, Execute(b, "r>", code, x)))
<1> DEFINE q == InRegisters(m)
           s == StateOf(m, own)
           d == m.depth
           c == x.cells
           e == x.depth
           t == x.top
           U == Nth(Returns(m.rs, own), 1)
           t2 == Nth(m.rs, 1)[2]
           e2 == e
           c2 == c
           rs2 == Below(m.rs, 1)
           p2 == m.dp
           h2 == m.heap
           new == <<U>>
<1>1. Pops("r>") = 0
  BY PopsAre
<1>2. /\ s \in States /\ q \in Seq(Cell) /\ s.ds = q /\ s.rs = Returns(m.rs, own) /\ s.dp = m.dp
      /\ \A i \in 1..d : q[i] = c[i]
  BY <1>1, Basics
<1>3. Len(q) = d + 1 /\ d \in Int /\ d >= -1 /\ d <= MaxCells - 1 /\ MaxCells \in Int
  BY <1>1, Basics
<1>4. (d >= 0 => q[d + 1] = m.top)
  BY <1>3, Basics
<1>5. x = Machine(t, e, x.scratch, c, m.rs, m.dp, m.heap) /\ c \in [CellIndexes -> Cell]
  BY DEF Opened
<1>6. e = d + 1 /\ (e \in CellIndexes => c[e] = m.top)
  BY <1>3 DEF Opened
<1>7. m.top \in Cell
  BY DEF Fit, IsMachine
<1> HIDE DEF q, s, d, c, e, t, U
<1>p. ReturnPops("r>") = 1 /\ m.rs \in Seq(Entries) /\ OwnCells(m.rs, own)
  BY ReturnPopsAre DEF Fit, IsMachine
<1>q. 1 \in 1..(Len(m.rs) - own) /\ 1 \in 0..(Len(m.rs) - own) /\ Len(m.rs) \in Nat /\ own \in Nat
  <2>1. Len(m.rs) - own >= 1 /\ Len(m.rs) \in Nat /\ own \in Nat
    BY <1>p, Basics DEF OwnCells
  <2> QED
    BY <2>1
<1>u. U \in Cell /\ U = Nth(m.rs, 1)[2]
  BY <1>p, <1>q, ReturnsNth DEF U
<1>9. new \in Seq(Cell) /\ Len(new) = 1 /\ new[1] = U
  BY <1>7, <1>u
<1>8. /\ rs2 \in Seq(Entries) /\ OwnCells(rs2, own) /\ (\A j \in 1..own : rs2[j] = m.rs[j])
      /\ Returns(rs2, own) = Below(s.rs, 1)
  <2>1. /\ Below(m.rs, 1) \in Seq(Entries) /\ OwnCells(Below(m.rs, 1), own)
        /\ Returns(Below(m.rs, 1), own) = Below(Returns(m.rs, own), 1)
        /\ \A j \in 1..own : Below(m.rs, 1)[j] = m.rs[j]
    BY <1>p, <1>q, ReturnsBelow
  <2> QED
    BY <1>2, <2>1, Zenon
<1>r. Meaning("r>", s) = Result(q, 0, new, Returns(rs2, own), p2, h2)
  <2>1. Meaning("r>", s) = [Put(s, 0, new) EXCEPT !.rs = Below(@, 1)]
    <3>1. Meaning("r>", s) = [Put(s, 0, <<Nth(s.rs, 1)>>) EXCEPT !.rs = Below(@, 1)]
      BY HereMeanings, Zenon
    <3> QED
      BY <1>2, <3>1, Zenon DEF new, U
  <2>2. new \in Seq(Cell) /\ 0 \in 0..Len(s.ds)
    BY <1>2, <1>3, <1>u DEF new
  <2>3. /\ Put(s, 0, new).rs = s.rs
        /\ \A v : [Put(s, 0, new) EXCEPT !.rs = v] = Result(s.ds, 0, new, v, s.dp, s.heap)
    BY <1>2, <2>2, PutResult, PutEffect
  <2>4. s.dp = m.dp /\ s.heap = m.heap
    BY DEF s, StateOf
  <2>5. Meaning("r>", s) = Result(s.ds, 0, new, Below(Put(s, 0, new).rs, 1), s.dp, s.heap)
    BY <2>1, <2>3, Zenon
  <2>6. Put(s, 0, new).rs = s.rs
    BY <2>3, Zenon
  <2> HIDE DEF rs2, p2, h2, new
  <2>7. p2 = m.dp /\ h2 = m.heap
    BY DEF p2, h2
  <2> QED
    BY <1>2, <1>8, <2>4, <2>5, <2>6, <2>7
<1> HIDE DEF new
<1>10. Closing(fl, Execute(b, "r>", code, x)) = Machine(t2, e2, x.scratch, c2, rs2, p2, h2)
  <2>1. e \in Int
    BY <1>3, <1>6
  <2>2. Closing(fl, Execute(b, "r>", code, Machine(t, e, x.scratch, c, m.rs, m.dp, m.heap))) =
            Machine(t2, e2, x.scratch, c2, rs2, p2, h2)
    BY <2>1, FromREffect
  <2> QED
    BY <1>5, <2>2, Zenon
<1>11. 0 \in 0..Len(q) /\ d + 2 <= MaxCells
  <2>1. 0 \in 0..Len(q)
    BY <1>3
  <2>2. Len(q) - 0 + Len(new) <= MaxCells
    BY <1>r, <1>9, <2>1, RoomResult DEF q, s
  <2> QED
    BY <1>3, <1>9, <2>1, <2>2
<1>12. e2 \in Int /\ t2 \in Cell /\ c2 \in [CellIndexes -> Cell] /\ e2 = Len(q) - 0 + Len(new) - 1
  BY <1>3, <1>4, <1>5, <1>6, <1>7, <1>u, <1>9, <1>11 DEF CellIndexes, Kept
<1>13. \A i \in 1..(Len(q) - 0) : q[i] = IF i <= e2 THEN c2[i] ELSE t2
  BY <1>2, <1>3, <1>4, <1>5, <1>6, <1>7, <1>u, <1>9, <1>11 DEF CellIndexes, Kept
<1>14. \A i \in 1..Len(new) : new[i] = IF Len(q) - 0 + i <= e2 THEN c2[Len(q) - 0 + i] ELSE t2
  BY <1>3, <1>4, <1>5, <1>6, <1>7, <1>u, <1>9, <1>11 DEF CellIndexes, Kept
<1>15. Result(q, 0, new, Returns(rs2, own), p2, h2) \in Outcomes("r>", s)
  BY <1>r, Meant
<1>16. Restacks(q, t2, e2, c2, 0, new)
  BY <1>9, <1>11, <1>12, <1>13, <1>14 DEF Restacks
<1> HIDE DEF e2, t2, c2, rs2, p2, h2
<1>17. Does("r>", m, own, Machine(t2, e2, x.scratch, c2, rs2, p2, h2))
  BY <1>8, <1>15, <1>16, Changed DEF q, s
<1> QED
  BY <1>10, <1>17, Zenon

LEMMA FromR2Word ==
    ASSUME NEW b, NEW m, NEW own, NEW r, Fit("2r>", m, own, r), NEW fl, NEW x, Opened(fl, m, x),
           NEW code, "A" \in fl /\ "B" \in fl /\ "CLOB" \in fl /\ "Y" \notin fl /\ "Z" \notin fl,
           Len(code) = 3 /\ code[1] = "A" /\ code[2] = "rpop" /\ code[3] = "rpopcell"
    PROVE  Does("2r>", m, own, Closing(fl, Execute(b, "2r>", code, x)))
<1> DEFINE q == InRegisters(m)
           s == StateOf(m, own)
           d == m.depth
           c == x.cells
           e == x.depth
           t == x.top
           U == Nth(Returns(m.rs, own), 1)
           U2 == Nth(Returns(m.rs, own), 2)
           t2 == Nth(m.rs, 1)[2]
           e2 == e + 1
           c2 == Kept(c, e + 1, Nth(Below(m.rs, 1), 1)[2])
           rs2 == Below(Below(m.rs, 1), 1)
           p2 == m.dp
           h2 == m.heap
           new == <<U2, U>>
<1>1. Pops("2r>") = 0
  BY PopsAre
<1>2. /\ s \in States /\ q \in Seq(Cell) /\ s.ds = q /\ s.rs = Returns(m.rs, own) /\ s.dp = m.dp
      /\ \A i \in 1..d : q[i] = c[i]
  BY <1>1, Basics
<1>3. Len(q) = d + 1 /\ d \in Int /\ d >= -1 /\ d <= MaxCells - 1 /\ MaxCells \in Int
  BY <1>1, Basics
<1>4. (d >= 0 => q[d + 1] = m.top)
  BY <1>3, Basics
<1>5. x = Machine(t, e, x.scratch, c, m.rs, m.dp, m.heap) /\ c \in [CellIndexes -> Cell]
  BY DEF Opened
<1>6. e = d + 1 /\ (e \in CellIndexes => c[e] = m.top)
  BY <1>3 DEF Opened
<1>7. m.top \in Cell
  BY DEF Fit, IsMachine
<1> HIDE DEF q, s, d, c, e, t, U, U2
<1>p. ReturnPops("2r>") = 2 /\ m.rs \in Seq(Entries) /\ OwnCells(m.rs, own)
  BY ReturnPopsAre DEF Fit, IsMachine
<1>q. 2 \in 1..(Len(m.rs) - own) /\ 2 \in 0..(Len(m.rs) - own) /\ Len(m.rs) \in Nat /\ own \in Nat
  <2>1. Len(m.rs) - own >= 2 /\ Len(m.rs) \in Nat /\ own \in Nat
    BY <1>p, Basics DEF OwnCells
  <2> QED
    BY <2>1
<1>u. U \in Cell /\ U = Nth(m.rs, 1)[2] /\ U2 \in Cell /\ U2 = Nth(Below(m.rs, 1), 1)[2]
      /\ Below(Below(m.rs, 1), 1) = Below(m.rs, 2)
  <2>1. 1 \in 1..(Len(m.rs) - own) /\ 2 \in 1..(Len(m.rs) - own) /\ 2 \in 0..Len(m.rs) /\ 2 \in 1..Len(m.rs)
    BY <1>q
  <2>2. U \in Cell /\ U = Nth(m.rs, 1)[2] /\ U2 \in Cell /\ U2 = Nth(m.rs, 2)[2]
    BY <1>p, <2>1, ReturnsNth DEF U, U2
  <2>3. m.rs \in Seq(Entries)
    BY <1>p
  <2>4. Nth(m.rs, 2) = Nth(Below(m.rs, 1), 1) /\ Below(Below(m.rs, 1), 1) = Below(m.rs, 2)
    BY <2>1, <2>3, TwoBelow
  <2> QED
    BY <2>2, <2>4, Zenon
<1>9. new \in Seq(Cell) /\ Len(new) = 2 /\ new[1] = U2 /\ new[2] = U
  BY <1>7, <1>u
<1>8. /\ rs2 \in Seq(Entries) /\ OwnCells(rs2, own) /\ (\A j \in 1..own : rs2[j] = m.rs[j])
      /\ Returns(rs2, own) = Below(s.rs, 2)
  <2>1. /\ Below(m.rs, 2) \in Seq(Entries) /\ OwnCells(Below(m.rs, 2), own)
        /\ Returns(Below(m.rs, 2), own) = Below(Returns(m.rs, own), 2)
        /\ \A j \in 1..own : Below(m.rs, 2)[j] = m.rs[j]
    BY <1>p, <1>q, ReturnsBelow
  <2> QED
    BY <1>2, <1>u, <2>1, Zenon
<1>r. Meaning("2r>", s) = Result(q, 0, new, Returns(rs2, own), p2, h2)
  <2>1. Meaning("2r>", s) = [Put(s, 0, new) EXCEPT !.rs = Below(@, 2)]
    <3>1. Meaning("2r>", s) = [Put(s, 0, <<Nth(s.rs, 2), Nth(s.rs, 1)>>) EXCEPT !.rs = Below(@, 2)]
      BY HereMeanings, Zenon
    <3> QED
      BY <1>2, <3>1, Zenon DEF new, U, U2
  <2>2. new \in Seq(Cell) /\ 0 \in 0..Len(s.ds)
    BY <1>2, <1>3, <1>u DEF new
  <2>3. /\ Put(s, 0, new).rs = s.rs
        /\ \A v : [Put(s, 0, new) EXCEPT !.rs = v] = Result(s.ds, 0, new, v, s.dp, s.heap)
    BY <1>2, <2>2, PutResult, PutEffect
  <2>4. s.dp = m.dp /\ s.heap = m.heap
    BY DEF s, StateOf
  <2>5. Meaning("2r>", s) = Result(s.ds, 0, new, Below(Put(s, 0, new).rs, 2), s.dp, s.heap)
    BY <2>1, <2>3, Zenon
  <2>6. Put(s, 0, new).rs = s.rs
    BY <2>3, Zenon
  <2> HIDE DEF rs2, p2, h2, new
  <2>7. p2 = m.dp /\ h2 = m.heap
    BY DEF p2, h2
  <2> QED
    BY <1>2, <1>8, <2>4, <2>5, <2>6, <2>7
<1> HIDE DEF new
<1>10. Closing(fl, Execute(b, "2r>", code, x)) = Machine(t2, e2, x.scratch, c2, rs2, p2, h2)
  <2>1. e \in Int
    BY <1>3, <1>6
  <2>2. Closing(fl, Execute(b, "2r>", code, Machine(t, e, x.scratch, c, m.rs, m.dp, m.heap))) =
            Machine(t2, e2, x.scratch, c2, rs2, p2, h2)
    BY <2>1, FromR2Effect
  <2> QED
    BY <1>5, <2>2, Zenon
<1>11. 0 \in 0..Len(q) /\ d + 3 <= MaxCells
  <2>1. 0 \in 0..Len(q)
    BY <1>3
  <2>2. Len(q) - 0 + Len(new) <= MaxCells
    BY <1>r, <1>9, <2>1, RoomResult DEF q, s
  <2> QED
    BY <1>3, <1>9, <2>1, <2>2
<1>12. e2 \in Int /\ t2 \in Cell /\ c2 \in [CellIndexes -> Cell] /\ e2 = Len(q) - 0 + Len(new) - 1
  BY <1>3, <1>4, <1>5, <1>6, <1>7, <1>u, <1>9, <1>11 DEF CellIndexes, Kept
<1>13. \A i \in 1..(Len(q) - 0) : q[i] = IF i <= e2 THEN c2[i] ELSE t2
  BY <1>2, <1>3, <1>4, <1>5, <1>6, <1>7, <1>u, <1>9, <1>11 DEF CellIndexes, Kept
<1>14. \A i \in 1..Len(new) : new[i] = IF Len(q) - 0 + i <= e2 THEN c2[Len(q) - 0 + i] ELSE t2
  BY <1>3, <1>4, <1>5, <1>6, <1>7, <1>u, <1>9, <1>11 DEF CellIndexes, Kept
<1>15. Result(q, 0, new, Returns(rs2, own), p2, h2) \in Outcomes("2r>", s)
  BY <1>r, Meant
<1>16. Restacks(q, t2, e2, c2, 0, new)
  BY <1>9, <1>11, <1>12, <1>13, <1>14 DEF Restacks
<1> HIDE DEF e2, t2, c2, rs2, p2, h2
<1>17. Does("2r>", m, own, Machine(t2, e2, x.scratch, c2, rs2, p2, h2))
  BY <1>8, <1>15, <1>16, Changed DEF q, s
<1> QED
  BY <1>10, <1>17, Zenon

LEMMA FromR2EspWord ==
    ASSUME NEW b, NEW m, NEW own, NEW r, Fit("2r>", m, own, r), NEW fl, NEW x, Opened(fl, m, x),
           NEW code, "A" \in fl /\ "B" \in fl /\ "CLOB" \in fl /\ "Y" \notin fl /\ "Z" \notin fl,
           Len(code) = 5 /\ code[1] = "A" /\ code[2] = "rsecond" /\ code[3] = "B" /\ code[4] = "rtop" /\ code[5] = "rdrop2"
    PROVE  Does("2r>", m, own, Closing(fl, Execute(b, "2r>", code, x)))
<1> DEFINE q == InRegisters(m)
           s == StateOf(m, own)
           d == m.depth
           c == x.cells
           e == x.depth
           t == x.top
           U == Nth(Returns(m.rs, own), 1)
           U2 == Nth(Returns(m.rs, own), 2)
           t2 == Nth(m.rs, 1)[2]
           e2 == e + 1
           c2 == Kept(c, e + 1, Nth(m.rs, 2)[2])
           rs2 == Below(m.rs, 2)
           p2 == m.dp
           h2 == m.heap
           new == <<U2, U>>
<1>1. Pops("2r>") = 0
  BY PopsAre
<1>2. /\ s \in States /\ q \in Seq(Cell) /\ s.ds = q /\ s.rs = Returns(m.rs, own) /\ s.dp = m.dp
      /\ \A i \in 1..d : q[i] = c[i]
  BY <1>1, Basics
<1>3. Len(q) = d + 1 /\ d \in Int /\ d >= -1 /\ d <= MaxCells - 1 /\ MaxCells \in Int
  BY <1>1, Basics
<1>4. (d >= 0 => q[d + 1] = m.top)
  BY <1>3, Basics
<1>5. x = Machine(t, e, x.scratch, c, m.rs, m.dp, m.heap) /\ c \in [CellIndexes -> Cell]
  BY DEF Opened
<1>6. e = d + 1 /\ (e \in CellIndexes => c[e] = m.top)
  BY <1>3 DEF Opened
<1>7. m.top \in Cell
  BY DEF Fit, IsMachine
<1> HIDE DEF q, s, d, c, e, t, U, U2
<1>p. ReturnPops("2r>") = 2 /\ m.rs \in Seq(Entries) /\ OwnCells(m.rs, own)
  BY ReturnPopsAre DEF Fit, IsMachine
<1>q. 2 \in 1..(Len(m.rs) - own) /\ 2 \in 0..(Len(m.rs) - own) /\ Len(m.rs) \in Nat /\ own \in Nat
  <2>1. Len(m.rs) - own >= 2 /\ Len(m.rs) \in Nat /\ own \in Nat
    BY <1>p, Basics DEF OwnCells
  <2> QED
    BY <2>1
<1>u. U \in Cell /\ U = Nth(m.rs, 1)[2] /\ U2 \in Cell /\ U2 = Nth(m.rs, 2)[2]
  <2>1. 1 \in 1..(Len(m.rs) - own) /\ 2 \in 1..(Len(m.rs) - own)
    BY <1>q
  <2> QED
    BY <1>p, <2>1, ReturnsNth DEF U, U2
<1>9. new \in Seq(Cell) /\ Len(new) = 2 /\ new[1] = U2 /\ new[2] = U
  BY <1>7, <1>u
<1>8. /\ rs2 \in Seq(Entries) /\ OwnCells(rs2, own) /\ (\A j \in 1..own : rs2[j] = m.rs[j])
      /\ Returns(rs2, own) = Below(s.rs, 2)
  <2>1. /\ Below(m.rs, 2) \in Seq(Entries) /\ OwnCells(Below(m.rs, 2), own)
        /\ Returns(Below(m.rs, 2), own) = Below(Returns(m.rs, own), 2)
        /\ \A j \in 1..own : Below(m.rs, 2)[j] = m.rs[j]
    BY <1>p, <1>q, ReturnsBelow
  <2> QED
    BY <1>2, <1>u, <2>1, Zenon
<1>r. Meaning("2r>", s) = Result(q, 0, new, Returns(rs2, own), p2, h2)
  <2>1. Meaning("2r>", s) = [Put(s, 0, new) EXCEPT !.rs = Below(@, 2)]
    <3>1. Meaning("2r>", s) = [Put(s, 0, <<Nth(s.rs, 2), Nth(s.rs, 1)>>) EXCEPT !.rs = Below(@, 2)]
      BY HereMeanings, Zenon
    <3> QED
      BY <1>2, <3>1, Zenon DEF new, U, U2
  <2>2. new \in Seq(Cell) /\ 0 \in 0..Len(s.ds)
    BY <1>2, <1>3, <1>u DEF new
  <2>3. /\ Put(s, 0, new).rs = s.rs
        /\ \A v : [Put(s, 0, new) EXCEPT !.rs = v] = Result(s.ds, 0, new, v, s.dp, s.heap)
    BY <1>2, <2>2, PutResult, PutEffect
  <2>4. s.dp = m.dp /\ s.heap = m.heap
    BY DEF s, StateOf
  <2>5. Meaning("2r>", s) = Result(s.ds, 0, new, Below(Put(s, 0, new).rs, 2), s.dp, s.heap)
    BY <2>1, <2>3, Zenon
  <2>6. Put(s, 0, new).rs = s.rs
    BY <2>3, Zenon
  <2> HIDE DEF rs2, p2, h2, new
  <2>7. p2 = m.dp /\ h2 = m.heap
    BY DEF p2, h2
  <2> QED
    BY <1>2, <1>8, <2>4, <2>5, <2>6, <2>7
<1> HIDE DEF new
<1>10. Closing(fl, Execute(b, "2r>", code, x)) = Machine(t2, e2, x.scratch, c2, rs2, p2, h2)
  <2>1. e \in Int
    BY <1>3, <1>6
  <2>2. Closing(fl, Execute(b, "2r>", code, Machine(t, e, x.scratch, c, m.rs, m.dp, m.heap))) =
            Machine(t2, e2, x.scratch, c2, rs2, p2, h2)
    BY <2>1, FromR2EspEffect
  <2> QED
    BY <1>5, <2>2, Zenon
<1>11. 0 \in 0..Len(q) /\ d + 3 <= MaxCells
  <2>1. 0 \in 0..Len(q)
    BY <1>3
  <2>2. Len(q) - 0 + Len(new) <= MaxCells
    BY <1>r, <1>9, <2>1, RoomResult DEF q, s
  <2> QED
    BY <1>3, <1>9, <2>1, <2>2
<1>12. e2 \in Int /\ t2 \in Cell /\ c2 \in [CellIndexes -> Cell] /\ e2 = Len(q) - 0 + Len(new) - 1
  BY <1>3, <1>4, <1>5, <1>6, <1>7, <1>u, <1>9, <1>11 DEF CellIndexes, Kept
<1>13. \A i \in 1..(Len(q) - 0) : q[i] = IF i <= e2 THEN c2[i] ELSE t2
  BY <1>2, <1>3, <1>4, <1>5, <1>6, <1>7, <1>u, <1>9, <1>11 DEF CellIndexes, Kept
<1>14. \A i \in 1..Len(new) : new[i] = IF Len(q) - 0 + i <= e2 THEN c2[Len(q) - 0 + i] ELSE t2
  BY <1>3, <1>4, <1>5, <1>6, <1>7, <1>u, <1>9, <1>11 DEF CellIndexes, Kept
<1>15. Result(q, 0, new, Returns(rs2, own), p2, h2) \in Outcomes("2r>", s)
  BY <1>r, Meant
<1>16. Restacks(q, t2, e2, c2, 0, new)
  BY <1>9, <1>11, <1>12, <1>13, <1>14 DEF Restacks
<1> HIDE DEF e2, t2, c2, rs2, p2, h2
<1>17. Does("2r>", m, own, Machine(t2, e2, x.scratch, c2, rs2, p2, h2))
  BY <1>8, <1>15, <1>16, Changed DEF q, s
<1> QED
  BY <1>10, <1>17, Zenon

-----------------------------------------------------------------------------
(* From the listing of every word to the machine it leaves, all its chores   *)
(* run.                                                                      *)

(* The flags of a word, and what is left of its listing.                    *)
ListedFlags(b, w) == GeneratedFlags(Listing(b, w), w \in Clobber)
BodyOf(b, w) == Reduced(Listing(b, w), ListedFlags(b, w))

(* The flags are these marks, and the instructions left are these.          *)
Shown(fl, code, marks, body) ==
    /\ fl = marks
    /\ Len(code) = Len(body)
    /\ \A i \in 1..Len(body) : code[i] = body[i]

(* These marks and this body are what a listing reads as.                   *)
ReadsAs(src, cl, marks, body) ==
    /\ marks \subseteq Flags /\ Len(src) \in Nat /\ Len(body) \in Nat
    /\ "A" \in marks <=> Len(src) > 0 /\ src[1] = "A"
    /\ "B" \in marks <=> "A" \in marks /\ Len(src) > 1 /\ src[2] = "B"
    /\ "CLOB" \in marks <=> "B" \in marks /\ cl
    /\ "Z" \in marks <=> Len(src) > 0 /\ src[Len(src)] = "Z"
    /\ "Y" \in marks <=> "Z" \in marks /\ Len(src) > 1 /\ src[Len(src) - 1] = "Y"
    /\ Len(src) = Len(body) + Front(marks) + Back(marks)
    /\ \A i \in 1..Len(body) : body[i] = src[Front(marks) + i]

LEMMA Reads ==
    ASSUME NEW src, NEW cl \in BOOLEAN, NEW marks, NEW body, ReadsAs(src, cl, marks, body),
           NEW b, NEW w, Listing(b, w) = src, cl <=> w \in Clobber
    PROVE  Shown(ListedFlags(b, w), BodyOf(b, w), marks, body)
<1> DEFINE fl == ListedFlags(b, w)
           code == BodyOf(b, w)
<1>0. cl = (w \in Clobber)
  OBVIOUS
<1>1. fl = GeneratedFlags(src, cl) /\ code = Reduced(src, fl)
  BY <1>0, Zenon DEF ListedFlags, BodyOf
<1> HIDE DEF fl, code
<1>2. fl = marks
  <2>1. LET a == Len(src) > 0 /\ src[1] = "A"
            b2 == a /\ Len(src) > 1 /\ src[2] = "B"
            z == Len(src) > 0 /\ src[Len(src)] = "Z"
        IN  /\ fl \subseteq Flags
            /\ "A" \in fl <=> a
            /\ "B" \in fl <=> b2
            /\ "CLOB" \in fl <=> b2 /\ cl
            /\ "Z" \in fl <=> z
            /\ "Y" \in fl <=> z /\ Len(src) > 1 /\ src[Len(src) - 1] = "Y"
    BY <1>1, FlagsAre, Zenon
  <2>2. marks \subseteq Flags /\ \A f \in Flags : f \in fl <=> f \in marks
    BY <2>1 DEF Flags, ReadsAs
  <2> QED
    BY <2>1, <2>2
<1>3. Len(code) = Len(body) /\ \A i \in 1..Len(body) : code[i] = body[i]
  <2> DEFINE n == Len(src) - Front(marks) - Back(marks)
  <2>1. /\ Len(src) \in Nat /\ marks \subseteq Flags
        /\ ("B" \in marks => "A" \in marks) /\ ("Y" \in marks => "Z" \in marks)
    BY DEF ReadsAs
  <2>2. n >= 0 => Len(Reduced(src, marks)) = n /\ \A i \in 1..n : Reduced(src, marks)[i] = src[Front(marks) + i]
    BY <2>1, ReducedIs, Zenon
  <2>3. /\ Len(src) = Len(body) + Front(marks) + Back(marks) /\ Len(body) \in Nat
        /\ \A i \in 1..Len(body) : body[i] = src[Front(marks) + i]
    BY DEF ReadsAs
  <2>4. n = Len(body)
    <3>1. Front(marks) \in Nat /\ Back(marks) \in Nat
      BY DEF Front, Back
    <3> QED
      BY <2>3, <3>1
  <2>5. code = Reduced(src, marks) /\ n >= 0
    BY <1>1, <1>2, <2>3, <2>4
  <2> HIDE DEF n
  <2> QED
    BY <2>2, <2>3, <2>4, <2>5
<1> QED
  BY <1>2, <1>3, Zenon DEF Shown, fl, code

LEMMA Groups ==
    \A w \in Words : w \in Binary \/ w \in Unary \/ w \in {"c!", "!", "w!", "+!"} \/ w \in Commas \/ w \in {"dup", "over", "drop", "swap", "allot", "i", "r@", "j", "rot", "pick", "depth", "here", "2drop", "tuck", "align", "?dup", ">r", "r>", "2>r", "2dup", "nip"} \/ w = "2r>"
  BY DEF Words, Words1, Words2, Words3, Words4, Binary, Unary, Comparisons, Commas

(* What each word of the listings reads as.                                *)
LEMMA DupListed ==
    ASSUME NEW b \in {"x86_32", "esp32s3"}
    PROVE  Shown(ListedFlags(b, "dup"), BodyOf(b, "dup"), {"A", "B"}, <<>>)
<1>1. Listing(b, "dup") = <<"A", "B">> /\ "dup" \notin Clobber
  BY DEF Listing, EspWord, X86Word, Clobber, Binary, Unary, Comparisons
<1>2. ReadsAs(<<"A", "B">>, FALSE, {"A", "B"}, <<>>)
  BY DEF ReadsAs, Front, Back, Flags
<1> QED
  BY <1>1, <1>2, Reads, Zenon

LEMMA OverListed ==
    ASSUME NEW b \in {"x86_32", "esp32s3"}
    PROVE  Shown(ListedFlags(b, "over"), BodyOf(b, "over"), {"A", "B", "CLOB"}, <<"load1">>)
<1>1. Listing(b, "over") = <<"A", "B", "load1">> /\ "over" \in Clobber
  BY DEF Listing, EspWord, X86Word, Clobber, Binary, Unary, Comparisons
<1>2. ReadsAs(<<"A", "B", "load1">>, TRUE, {"A", "B", "CLOB"}, <<"load1">>)
  BY DEF ReadsAs, Front, Back, Flags
<1> QED
  BY <1>1, <1>2, Reads, Zenon

LEMMA DropListed ==
    ASSUME NEW b \in {"x86_32", "esp32s3"}
    PROVE  Shown(ListedFlags(b, "drop"), BodyOf(b, "drop"), {"Y", "Z"}, <<>>)
<1>1. Listing(b, "drop") = <<"Y", "Z">> /\ "drop" \notin Clobber
  BY DEF Listing, EspWord, X86Word, Clobber, Binary, Unary, Comparisons
<1>2. ReadsAs(<<"Y", "Z">>, FALSE, {"Y", "Z"}, <<>>)
  BY DEF ReadsAs, Front, Back, Flags
<1> QED
  BY <1>1, <1>2, Reads, Zenon

LEMMA SwapListed ==
    ASSUME NEW b \in {"x86_32", "esp32s3"}
    PROVE  Shown(ListedFlags(b, "swap"), BodyOf(b, "swap"), {}, <<"keep", "B", "move">>)
<1>1. Listing(b, "swap") = <<"keep", "B", "move">> /\ "swap" \notin Clobber
  BY DEF Listing, EspWord, X86Word, Clobber, Binary, Unary, Comparisons
<1>2. ReadsAs(<<"keep", "B", "move">>, FALSE, {}, <<"keep", "B", "move">>)
  BY DEF ReadsAs, Front, Back, Flags
<1> QED
  BY <1>1, <1>2, Reads, Zenon

LEMMA AllotListed ==
    ASSUME NEW b \in {"x86_32", "esp32s3"}
    PROVE  Shown(ListedFlags(b, "allot"), BodyOf(b, "allot"), {"Y", "Z"}, <<"allot">>)
<1>1. Listing(b, "allot") = <<"allot", "Y", "Z">> /\ "allot" \notin Clobber
  BY DEF Listing, EspWord, X86Word, Clobber, Binary, Unary, Comparisons
<1>2. ReadsAs(<<"allot", "Y", "Z">>, FALSE, {"Y", "Z"}, <<"allot">>)
  BY DEF ReadsAs, Front, Back, Flags
<1> QED
  BY <1>1, <1>2, Reads, Zenon

LEMMA IListed ==
    ASSUME NEW b \in {"x86_32", "esp32s3"}
    PROVE  Shown(ListedFlags(b, "i"), BodyOf(b, "i"), {"A", "B", "CLOB"}, <<"rtop">>)
<1>1. Listing(b, "i") = <<"A", "B", "rtop">> /\ "i" \in Clobber
  BY DEF Listing, EspWord, X86Word, Clobber, Binary, Unary, Comparisons
<1>2. ReadsAs(<<"A", "B", "rtop">>, TRUE, {"A", "B", "CLOB"}, <<"rtop">>)
  BY DEF ReadsAs, Front, Back, Flags
<1> QED
  BY <1>1, <1>2, Reads, Zenon

LEMMA RTopListed ==
    ASSUME NEW b \in {"x86_32", "esp32s3"}
    PROVE  Shown(ListedFlags(b, "r@"), BodyOf(b, "r@"), {"A", "B", "CLOB"}, <<"rtop">>)
<1>1. Listing(b, "r@") = <<"A", "B", "rtop">> /\ "r@" \in Clobber
  BY DEF Listing, EspWord, X86Word, Clobber, Binary, Unary, Comparisons
<1>2. ReadsAs(<<"A", "B", "rtop">>, TRUE, {"A", "B", "CLOB"}, <<"rtop">>)
  BY DEF ReadsAs, Front, Back, Flags
<1> QED
  BY <1>1, <1>2, Reads, Zenon

LEMMA JListed ==
    ASSUME NEW b \in {"x86_32", "esp32s3"}
    PROVE  Shown(ListedFlags(b, "j"), BodyOf(b, "j"), {"A", "B", "CLOB"}, <<"rthird">>)
<1>1. Listing(b, "j") = <<"A", "B", "rthird">> /\ "j" \in Clobber
  BY DEF Listing, EspWord, X86Word, Clobber, Binary, Unary, Comparisons
<1>2. ReadsAs(<<"A", "B", "rthird">>, TRUE, {"A", "B", "CLOB"}, <<"rthird">>)
  BY DEF ReadsAs, Front, Back, Flags
<1> QED
  BY <1>1, <1>2, Reads, Zenon

LEMMA RotListed ==
    ASSUME NEW b \in {"x86_32", "esp32s3"}
    PROVE  Shown(ListedFlags(b, "rot"), BodyOf(b, "rot"), {}, <<"keep", "B", "load1", "put1">>)
<1>1. Listing(b, "rot") = <<"keep", "B", "load1", "put1">> /\ "rot" \notin Clobber
  BY DEF Listing, EspWord, X86Word, Clobber, Binary, Unary, Comparisons
<1>2. ReadsAs(<<"keep", "B", "load1", "put1">>, FALSE, {}, <<"keep", "B", "load1", "put1">>)
  BY DEF ReadsAs, Front, Back, Flags
<1> QED
  BY <1>1, <1>2, Reads, Zenon

LEMMA PickListed ==
    ASSUME NEW b \in {"x86_32", "esp32s3"}
    PROVE  Shown(ListedFlags(b, "pick"), BodyOf(b, "pick"), {}, <<"pick">>)
<1>1. Listing(b, "pick") = <<"pick">> /\ "pick" \notin Clobber
  BY DEF Listing, EspWord, X86Word, Clobber, Binary, Unary, Comparisons
<1>2. ReadsAs(<<"pick">>, FALSE, {}, <<"pick">>)
  BY DEF ReadsAs, Front, Back, Flags
<1> QED
  BY <1>1, <1>2, Reads, Zenon

LEMMA DepthListed ==
    ASSUME NEW b \in {"x86_32", "esp32s3"}
    PROVE  Shown(ListedFlags(b, "depth"), BodyOf(b, "depth"), {"A", "B", "CLOB"}, <<"depth">>)
<1>1. Listing(b, "depth") = <<"A", "B", "depth">> /\ "depth" \in Clobber
  BY DEF Listing, EspWord, X86Word, Clobber, Binary, Unary, Comparisons
<1>2. ReadsAs(<<"A", "B", "depth">>, TRUE, {"A", "B", "CLOB"}, <<"depth">>)
  BY DEF ReadsAs, Front, Back, Flags
<1> QED
  BY <1>1, <1>2, Reads, Zenon

LEMMA HereListed ==
    ASSUME NEW b \in {"x86_32", "esp32s3"}
    PROVE  Shown(ListedFlags(b, "here"), BodyOf(b, "here"), {"A", "B", "CLOB"}, <<"here">>)
<1>1. Listing(b, "here") = <<"A", "B", "here">> /\ "here" \in Clobber
  BY DEF Listing, EspWord, X86Word, Clobber, Binary, Unary, Comparisons
<1>2. ReadsAs(<<"A", "B", "here">>, TRUE, {"A", "B", "CLOB"}, <<"here">>)
  BY DEF ReadsAs, Front, Back, Flags
<1> QED
  BY <1>1, <1>2, Reads, Zenon

LEMMA Drop2Listed ==
    ASSUME NEW b \in {"x86_32", "esp32s3"}
    PROVE  Shown(ListedFlags(b, "2drop"), BodyOf(b, "2drop"), {"Y", "Z"}, <<"Z">>)
<1>1. Listing(b, "2drop") = <<"Z", "Y", "Z">> /\ "2drop" \notin Clobber
  BY DEF Listing, EspWord, X86Word, Clobber, Binary, Unary, Comparisons
<1>2. ReadsAs(<<"Z", "Y", "Z">>, FALSE, {"Y", "Z"}, <<"Z">>)
  BY DEF ReadsAs, Front, Back, Flags
<1> QED
  BY <1>1, <1>2, Reads, Zenon

LEMMA TuckListed ==
    ASSUME NEW b \in {"x86_32", "esp32s3"}
    PROVE  Shown(ListedFlags(b, "tuck"), BodyOf(b, "tuck"), {"A"}, <<"keep1", "put", "store1">>)
<1>1. Listing(b, "tuck") = <<"A", "keep1", "put", "store1">> /\ "tuck" \notin Clobber
  BY DEF Listing, EspWord, X86Word, Clobber, Binary, Unary, Comparisons
<1>2. ReadsAs(<<"A", "keep1", "put", "store1">>, FALSE, {"A"}, <<"keep1", "put", "store1">>)
  BY DEF ReadsAs, Front, Back, Flags
<1> QED
  BY <1>1, <1>2, Reads, Zenon

LEMMA AlignListed ==
    ASSUME NEW b \in {"x86_32", "esp32s3"}
    PROVE  Shown(ListedFlags(b, "align"), BodyOf(b, "align"), {}, <<"align">>)
<1>1. Listing(b, "align") = <<"align">> /\ "align" \notin Clobber
  BY DEF Listing, EspWord, X86Word, Clobber, Binary, Unary, Comparisons
<1>2. ReadsAs(<<"align">>, FALSE, {}, <<"align">>)
  BY DEF ReadsAs, Front, Back, Flags
<1> QED
  BY <1>1, <1>2, Reads, Zenon

LEMMA DupIfListed ==
    ASSUME NEW b \in {"x86_32", "esp32s3"}
    PROVE  Shown(ListedFlags(b, "?dup"), BodyOf(b, "?dup"), {"A", "B"}, <<"unless0">>)
<1>1. Listing(b, "?dup") = <<"A", "B", "unless0">> /\ "?dup" \notin Clobber
  BY DEF Listing, EspWord, X86Word, Clobber, Binary, Unary, Comparisons
<1>2. ReadsAs(<<"A", "B", "unless0">>, FALSE, {"A", "B"}, <<"unless0">>)
  BY DEF ReadsAs, Front, Back, Flags
<1> QED
  BY <1>1, <1>2, Reads, Zenon

LEMMA ToRListed ==
    ASSUME NEW b \in {"x86_32", "esp32s3"}
    PROVE  Shown(ListedFlags(b, ">r"), BodyOf(b, ">r"), {"Y", "Z"}, <<"rpush">>)
<1>1. Listing(b, ">r") = <<"rpush", "Y", "Z">> /\ ">r" \notin Clobber
  BY DEF Listing, EspWord, X86Word, Clobber, Binary, Unary, Comparisons
<1>2. ReadsAs(<<"rpush", "Y", "Z">>, FALSE, {"Y", "Z"}, <<"rpush">>)
  BY DEF ReadsAs, Front, Back, Flags
<1> QED
  BY <1>1, <1>2, Reads, Zenon

LEMMA FromRListed ==
    ASSUME NEW b \in {"x86_32", "esp32s3"}
    PROVE  Shown(ListedFlags(b, "r>"), BodyOf(b, "r>"), {"A", "B", "CLOB"}, <<"rpop">>)
<1>1. Listing(b, "r>") = <<"A", "B", "rpop">> /\ "r>" \in Clobber
  BY DEF Listing, EspWord, X86Word, Clobber, Binary, Unary, Comparisons
<1>2. ReadsAs(<<"A", "B", "rpop">>, TRUE, {"A", "B", "CLOB"}, <<"rpop">>)
  BY DEF ReadsAs, Front, Back, Flags
<1> QED
  BY <1>1, <1>2, Reads, Zenon

LEMMA ToR2Listed ==
    ASSUME NEW b \in {"x86_32", "esp32s3"}
    PROVE  Shown(ListedFlags(b, "2>r"), BodyOf(b, "2>r"), {"Y", "Z"}, <<"rpush2", "Z">>)
<1>1. Listing(b, "2>r") = <<"rpush2", "Z", "Y", "Z">> /\ "2>r" \notin Clobber
  BY DEF Listing, EspWord, X86Word, Clobber, Binary, Unary, Comparisons
<1>2. ReadsAs(<<"rpush2", "Z", "Y", "Z">>, FALSE, {"Y", "Z"}, <<"rpush2", "Z">>)
  BY DEF ReadsAs, Front, Back, Flags
<1> QED
  BY <1>1, <1>2, Reads, Zenon

LEMMA Dup2Listed ==
    ASSUME NEW b \in {"x86_32", "esp32s3"}
    PROVE  Shown(ListedFlags(b, "2dup"), BodyOf(b, "2dup"), {"A", "B"}, <<"keep1", "A", "put">>)
<1>1. Listing(b, "2dup") = <<"A", "B", "keep1", "A", "put">> /\ "2dup" \notin Clobber
  BY DEF Listing, EspWord, X86Word, Clobber, Binary, Unary, Comparisons
<1>2. ReadsAs(<<"A", "B", "keep1", "A", "put">>, FALSE, {"A", "B"}, <<"keep1", "A", "put">>)
  BY DEF ReadsAs, Front, Back, Flags
<1> QED
  BY <1>1, <1>2, Reads, Zenon

LEMMA NipListed ==
    ASSUME NEW b \in {"x86_32", "esp32s3"}
    PROVE  Shown(ListedFlags(b, "nip"), BodyOf(b, "nip"), {"Z"}, <<>>)
<1>1. Listing(b, "nip") = <<"Z">> /\ "nip" \notin Clobber
  BY DEF Listing, EspWord, X86Word, Clobber, Binary, Unary, Comparisons
<1>2. ReadsAs(<<"Z">>, FALSE, {"Z"}, <<>>)
  BY DEF ReadsAs, Front, Back, Flags
<1> QED
  BY <1>1, <1>2, Reads, Zenon

LEMMA BinaryListed ==
    ASSUME NEW b \in {"x86_32", "esp32s3"}, NEW w \in Binary
    PROVE  Shown(ListedFlags(b, w), BodyOf(b, w), {"Z"}, <<"value2">>)
<1>1. Listing(b, w) = <<"value2", "Z">> /\ w \notin Clobber
  <2>1. w \notin {"dup", "over", "drop", "swap", "allot", "i", "r@", "j", "rot", "pick", "depth", "here",
                  "2drop", "tuck", "align", "?dup", ">r", "r>", "2>r", "2dup", "nip", "2r>"}
    BY DEF Binary, Unary, Comparisons
  <2>2. w \notin {"c!", "!", "w!", "+!"} /\ w \notin {"c,", ",", "w,"} /\ w \notin Clobber /\ w \notin Unary
    BY DEF Clobber, Binary, Unary, Comparisons
  <2> QED
    BY <2>1, <2>2, Zenon DEF Listing, EspWord, X86Word
<1>2. ReadsAs(<<"value2", "Z">>, FALSE, {"Z"}, <<"value2">>)
  BY DEF ReadsAs, Front, Back, Flags
<1> QED
  BY <1>1, <1>2, Reads, Zenon

LEMMA UnaryListed ==
    ASSUME NEW b \in {"x86_32", "esp32s3"}, NEW w \in Unary
    PROVE  Shown(ListedFlags(b, w), BodyOf(b, w), {}, <<"value1">>)
<1>1. Listing(b, w) = <<"value1">> /\ w \notin Clobber
  <2>1. w \notin {"dup", "over", "drop", "swap", "allot", "i", "r@", "j", "rot", "pick", "depth", "here",
                  "2drop", "tuck", "align", "?dup", ">r", "r>", "2>r", "2dup", "nip", "2r>"}
    BY DEF Binary, Unary, Comparisons
  <2>2. w \notin {"c!", "!", "w!", "+!"} /\ w \notin {"c,", ",", "w,"} /\ w \notin Clobber /\ w \notin Binary
    BY DEF Clobber, Binary, Unary, Comparisons
  <2> QED
    BY <2>1, <2>2, Zenon DEF Listing, EspWord, X86Word
<1>2. ReadsAs(<<"value1">>, FALSE, {}, <<"value1">>)
  BY DEF ReadsAs, Front, Back, Flags
<1> QED
  BY <1>1, <1>2, Reads, Zenon

LEMMA PokeListed ==
    ASSUME NEW b \in {"x86_32", "esp32s3"}, NEW w \in {"c!", "!", "w!", "+!"}
    PROVE  Shown(ListedFlags(b, w), BodyOf(b, w), {"Y", "Z"}, <<"keep", "poke", "Z">>)
<1>1. Listing(b, w) = <<"keep", "poke", "Z", "Y", "Z">> /\ w \notin Clobber
  BY DEF Listing, EspWord, X86Word, Clobber, Binary, Unary, Comparisons
<1>2. ReadsAs(<<"keep", "poke", "Z", "Y", "Z">>, FALSE, {"Y", "Z"}, <<"keep", "poke", "Z">>)
  BY DEF ReadsAs, Front, Back, Flags
<1> QED
  BY <1>1, <1>2, Reads, Zenon

LEMMA CommaListed ==
    ASSUME NEW b \in {"x86_32", "esp32s3"}, NEW w \in Commas
    PROVE  Shown(ListedFlags(b, w), BodyOf(b, w), {"Y", "Z"}, <<"comma">>)
<1>1. Listing(b, w) = <<"comma", "Y", "Z">> /\ w \notin Clobber
  BY DEF Listing, EspWord, X86Word, Clobber, Binary, Unary, Comparisons, Commas
<1>2. ReadsAs(<<"comma", "Y", "Z">>, FALSE, {"Y", "Z"}, <<"comma">>)
  BY DEF ReadsAs, Front, Back, Flags
<1> QED
  BY <1>1, <1>2, Reads, Zenon

LEMMA FromR2Listed ==
    Shown(ListedFlags("x86_32", "2r>"), BodyOf("x86_32", "2r>"), {"A", "B", "CLOB"}, <<"A", "rpop", "rpopcell">>)
<1>1. Listing("x86_32", "2r>") = <<"A", "B", "A", "rpop", "rpopcell">> /\ "2r>" \in Clobber
  BY DEF Listing, EspWord, X86Word, Clobber, Binary, Unary, Comparisons
<1>2. ReadsAs(<<"A", "B", "A", "rpop", "rpopcell">>, TRUE, {"A", "B", "CLOB"}, <<"A", "rpop", "rpopcell">>)
  BY DEF ReadsAs, Front, Back, Flags
<1> QED
  BY <1>1, <1>2, Reads, Zenon

LEMMA FromR2EspListed ==
    Shown(ListedFlags("esp32s3", "2r>"), BodyOf("esp32s3", "2r>"), {"A", "B", "CLOB"}, <<"A", "rsecond", "B", "rtop", "rdrop2">>)
<1>1. Listing("esp32s3", "2r>") = <<"A", "B", "A", "rsecond", "B", "rtop", "rdrop2">> /\ "2r>" \in Clobber
  BY DEF Listing, EspWord, X86Word, Clobber, Binary, Unary, Comparisons
<1>2. ReadsAs(<<"A", "B", "A", "rsecond", "B", "rtop", "rdrop2">>, TRUE, {"A", "B", "CLOB"}, <<"A", "rsecond", "B", "rtop", "rdrop2">>)
  BY DEF ReadsAs, Front, Back, Flags
<1> QED
  BY <1>1, <1>2, Reads, Zenon

(* Between the chores, the code of every word does on a processor what the *)
(* word may do.                                                            *)
THEOREM WordDone ==
    ASSUME NEW b \in {"x86_32", "esp32s3"}, NEW w \in Words, NEW m, NEW own, NEW r,
           Fit(w, m, own, r), NEW x, Opened(ListedFlags(b, w), m, x)
    PROVE  Does(w, m, own, Closing(ListedFlags(b, w), Execute(b, w, BodyOf(b, w), x)))
<1> DEFINE fl == ListedFlags(b, w)
           code == BodyOf(b, w)
<1>1. CASE w = "dup"
  <2>1. Shown(fl, code, {"A", "B"}, <<>>)
    BY <1>1, DupListed
  <2> QED
    BY <1>1, <2>1, DupWord DEF Shown
<1>2. CASE w = "over"
  <2>1. Shown(fl, code, {"A", "B", "CLOB"}, <<"load1">>)
    BY <1>2, OverListed
  <2> QED
    BY <1>2, <2>1, OverWord DEF Shown
<1>3. CASE w = "drop"
  <2>1. Shown(fl, code, {"Y", "Z"}, <<>>)
    BY <1>3, DropListed
  <2> QED
    BY <1>3, <2>1, DropWord DEF Shown
<1>4. CASE w = "swap"
  <2>1. Shown(fl, code, {}, <<"keep", "B", "move">>)
    BY <1>4, SwapListed
  <2> QED
    BY <1>4, <2>1, SwapWord DEF Shown
<1>5. CASE w = "allot"
  <2>1. Shown(fl, code, {"Y", "Z"}, <<"allot">>)
    BY <1>5, AllotListed
  <2> QED
    BY <1>5, <2>1, AllotWord DEF Shown
<1>6. CASE w = "i"
  <2>1. Shown(fl, code, {"A", "B", "CLOB"}, <<"rtop">>)
    BY <1>6, IListed
  <2> QED
    BY <1>6, <2>1, IWord DEF Shown
<1>7. CASE w = "r@"
  <2>1. Shown(fl, code, {"A", "B", "CLOB"}, <<"rtop">>)
    BY <1>7, RTopListed
  <2> QED
    BY <1>7, <2>1, RTopWord DEF Shown
<1>8. CASE w = "j"
  <2>1. Shown(fl, code, {"A", "B", "CLOB"}, <<"rthird">>)
    BY <1>8, JListed
  <2> QED
    BY <1>8, <2>1, JWord DEF Shown
<1>9. CASE w = "rot"
  <2>1. Shown(fl, code, {}, <<"keep", "B", "load1", "put1">>)
    BY <1>9, RotListed
  <2> QED
    BY <1>9, <2>1, RotWord DEF Shown
<1>10. CASE w = "pick"
  <2>1. Shown(fl, code, {}, <<"pick">>)
    BY <1>10, PickListed
  <2> QED
    BY <1>10, <2>1, PickWord DEF Shown
<1>11. CASE w = "depth"
  <2>1. Shown(fl, code, {"A", "B", "CLOB"}, <<"depth">>)
    BY <1>11, DepthListed
  <2> QED
    BY <1>11, <2>1, DepthWord DEF Shown
<1>12. CASE w = "here"
  <2>1. Shown(fl, code, {"A", "B", "CLOB"}, <<"here">>)
    BY <1>12, HereListed
  <2> QED
    BY <1>12, <2>1, HereWord DEF Shown
<1>13. CASE w = "2drop"
  <2>1. Shown(fl, code, {"Y", "Z"}, <<"Z">>)
    BY <1>13, Drop2Listed
  <2> QED
    BY <1>13, <2>1, Drop2Word DEF Shown
<1>14. CASE w = "tuck"
  <2>1. Shown(fl, code, {"A"}, <<"keep1", "put", "store1">>)
    BY <1>14, TuckListed
  <2> QED
    BY <1>14, <2>1, TuckWord DEF Shown
<1>15. CASE w = "align"
  <2>1. Shown(fl, code, {}, <<"align">>)
    BY <1>15, AlignListed
  <2> QED
    BY <1>15, <2>1, AlignWord DEF Shown
<1>16. CASE w = "?dup"
  <2>1. Shown(fl, code, {"A", "B"}, <<"unless0">>)
    BY <1>16, DupIfListed
  <2> QED
    BY <1>16, <2>1, DupIfWord DEF Shown
<1>17. CASE w = ">r"
  <2>1. Shown(fl, code, {"Y", "Z"}, <<"rpush">>)
    BY <1>17, ToRListed
  <2> QED
    BY <1>17, <2>1, ToRWord DEF Shown
<1>18. CASE w = "r>"
  <2>1. Shown(fl, code, {"A", "B", "CLOB"}, <<"rpop">>)
    BY <1>18, FromRListed
  <2> QED
    BY <1>18, <2>1, FromRWord DEF Shown
<1>19. CASE w = "2>r"
  <2>1. Shown(fl, code, {"Y", "Z"}, <<"rpush2", "Z">>)
    BY <1>19, ToR2Listed
  <2> QED
    BY <1>19, <2>1, ToR2Word DEF Shown
<1>20. CASE w = "2dup"
  <2>1. Shown(fl, code, {"A", "B"}, <<"keep1", "A", "put">>)
    BY <1>20, Dup2Listed
  <2> QED
    BY <1>20, <2>1, Dup2Word DEF Shown
<1>21. CASE w = "nip"
  <2>1. Shown(fl, code, {"Z"}, <<>>)
    BY <1>21, NipListed
  <2> QED
    BY <1>21, <2>1, NipWord DEF Shown
<1>22. CASE w \in Binary
  <2>1. Shown(fl, code, {"Z"}, <<"value2">>)
    BY <1>22, BinaryListed
  <2> QED
    BY <1>22, <2>1, BinaryWord DEF Shown
<1>23. CASE w \in Unary
  <2>1. Shown(fl, code, {}, <<"value1">>)
    BY <1>23, UnaryListed
  <2> QED
    BY <1>23, <2>1, UnaryWord DEF Shown
<1>24. CASE w \in {"c!", "!", "w!", "+!"}
  <2>1. Shown(fl, code, {"Y", "Z"}, <<"keep", "poke", "Z">>)
    BY <1>24, PokeListed
  <2> QED
    BY <1>24, <2>1, PokeWord DEF Shown
<1>25. CASE w \in Commas
  <2>1. Shown(fl, code, {"Y", "Z"}, <<"comma">>)
    BY <1>25, CommaListed
  <2> QED
    BY <1>25, <2>1, CommaWord DEF Shown
<1>26. CASE w = "2r>" /\ b = "x86_32"
  <2>1. Shown(fl, code, {"A", "B", "CLOB"}, <<"A", "rpop", "rpopcell">>)
    BY <1>26, FromR2Listed
  <2> QED
    BY <1>26, <2>1, FromR2Word DEF Shown
<1>27. CASE w = "2r>" /\ b = "esp32s3"
  <2>1. Shown(fl, code, {"A", "B", "CLOB"}, <<"A", "rsecond", "B", "rtop", "rdrop2">>)
    BY <1>27, FromR2EspListed
  <2> QED
    BY <1>27, <2>1, FromR2EspWord DEF Shown
<1> QED
  BY <1>1, <1>2, <1>3, <1>4, <1>5, <1>6, <1>7, <1>8, <1>9, <1>10, <1>11, <1>12, <1>13, <1>14, <1>15, <1>16, <1>17, <1>18, <1>19, <1>20, <1>21, <1>22, <1>23, <1>24, <1>25, <1>26, <1>27, Groups, Zenon

-----------------------------------------------------------------------------
(* Chores left out in front of a fragment.                                   *)

(* What neighbours leave to each other.                                    *)
LEMMA Shared ==
    ASSUME NEW up, NEW above, NEW fl, NEW down
    PROVE  LET l == up \ NeededChores(up, above, fl)
               n == NeededChores(fl, up, down)
           IN  /\ "Z" \in l <=> "Z" \in up /\ "A" \in fl
               /\ "Y" \in l <=> "Y" \in up /\ "A" \in fl /\ "B" \in fl /\ "CLOB" \in fl
               /\ "A" \in n <=> "A" \in fl /\ "Z" \notin up
               /\ "B" \in n <=> "B" \in fl /\ ~("Z" \in up /\ "Y" \in up)
               /\ "Z" \in n <=> "Z" \in fl /\ "A" \notin down
               /\ "Y" \in n <=> "Y" \in fl /\ ~("A" \in down /\ "B" \in down /\ "CLOB" \in down)
  BY DEF NeededChores, DoneAbove, DoneBelow

LEMMA OpeningIs ==
    ASSUME NEW fl, NEW t, NEW d, NEW s, NEW c, NEW r, NEW p, NEW h
    PROVE  LET m == Machine(t, d, s, c, r, p, h)
           IN  /\ "A" \in fl /\ "B" \in fl => Opening(fl, m) = Machine(t, d + 1, s, Kept(c, d + 1, t), r, p, h)
               /\ "A" \in fl /\ "B" \notin fl => Opening(fl, m) = Machine(t, d + 1, s, c, r, p, h)
               /\ "A" \notin fl /\ "B" \in fl => Opening(fl, m) = Machine(t, d, s, Kept(c, d, t), r, p, h)
               /\ "A" \notin fl /\ "B" \notin fl => Opening(fl, m) = m
<1>1. Chore("A", Machine(t, d, s, c, r, p, h)) = Machine(t, d + 1, s, c, r, p, h)
  BY ChoreUp
<1>2. /\ Chore("B", Machine(t, d, s, c, r, p, h)) = Machine(t, d, s, Kept(c, d, t), r, p, h)
      /\ Chore("B", Machine(t, d + 1, s, c, r, p, h)) = Machine(t, d + 1, s, Kept(c, d + 1, t), r, p, h)
  BY DEF Chore, Machine, Kept
<1> QED
  BY <1>1, <1>2, Zenon DEF Opening, ChoreIf

LEMMA ClosingIs ==
    ASSUME NEW fl, NEW t, NEW d, NEW s, NEW c, NEW r, NEW p, NEW h
    PROVE  LET m == Machine(t, d, s, c, r, p, h)
           IN  /\ "Y" \in fl /\ "Z" \in fl => Closing(fl, m) = Machine(c[d], d - 1, s, c, r, p, h)
               /\ "Y" \notin fl /\ "Z" \in fl => Closing(fl, m) = Machine(t, d - 1, s, c, r, p, h)
               /\ "Y" \in fl /\ "Z" \notin fl => Closing(fl, m) = Machine(c[d], d, s, c, r, p, h)
               /\ "Y" \notin fl /\ "Z" \notin fl => Closing(fl, m) = m
<1>1. Chore("Y", Machine(t, d, s, c, r, p, h)) = Machine(c[d], d, s, c, r, p, h)
  BY ChoreLoad
<1>2. /\ Chore("Z", Machine(t, d, s, c, r, p, h)) = Machine(t, d - 1, s, c, r, p, h)
      /\ Chore("Z", Machine(c[d], d, s, c, r, p, h)) = Machine(c[d], d - 1, s, c, r, p, h)
  BY ChoreDown
<1> QED
  BY <1>1, <1>2, Zenon DEF Closing, ChoreIf

(* Storing the top in the cell behind the first l of a stack.              *)
LEMMA StoredTop ==
    ASSUME NEW c \in [CellIndexes -> Cell], NEW t \in Cell, NEW d \in Int, d <= MaxCells
    PROVE  /\ Kept(c, d, t) \in [CellIndexes -> Cell]
           /\ d \in CellIndexes => Kept(c, d, t)[d] = t
           /\ \A i \in 1..(d - 1) : Kept(c, d, t)[i] = c[i]
<1>1. MaxCells \in Int
  BY PrimitivesAssumption DEF Half
<1>2. Kept(c, d, t) \in [CellIndexes -> Cell] /\ (d \in CellIndexes => Kept(c, d, t)[d] = t)
  BY DEF Kept
<1>3. \A i \in CellIndexes : i # d => Kept(c, d, t)[i] = c[i]
  BY DEF Kept
<1>4. \A i \in 1..(d - 1) : i \in CellIndexes /\ i # d
  BY <1>1 DEF CellIndexes
<1> QED
  BY <1>2, <1>3, <1>4

(* Machine m is between a fragment with the flags up, which follows one    *)
(* with the flags above, and a fragment with the flags fl.                 *)
Restored(up, above, fl, m) == Closing(up \ NeededChores(up, above, fl), m)
Ready(up, above, fl, m) ==
    /\ m = Machine(m.top, m.depth, m.scratch, m.cells, m.rs, m.dp, m.heap)
    /\ m.top \in Cell /\ m.depth \in -1..(MaxCells - 1) /\ m.cells \in [CellIndexes -> Cell]
    /\ IsMachine(Restored(up, above, fl, m))
    /\ "Y" \in up /\ "Z" \in up /\ "B" \in fl /\ "CLOB" \notin fl => m.top = m.cells[m.depth]

(* What leaving chores out leaves for a body is what it expects.           *)
LEMMA ChoresOpen ==
    ASSUME NEW up, NEW above, NEW fl, NEW down, WellFormed(up), WellFormed(fl),
           NEW m, Ready(up, above, fl, m)
    PROVE  Opened(fl, Restored(up, above, fl, m), Opening(NeededChores(fl, up, down), m))
<1> DEFINE l == up \ NeededChores(up, above, fl)
           n == NeededChores(fl, up, down)
           W == Closing(l, m)
           x == Opening(n, m)
           t == m.top
           d == m.depth
           s == m.scratch
           c == m.cells
           r == m.rs
           p == m.dp
           h == m.heap
<1>1. /\ "Z" \in l <=> "Z" \in up /\ "A" \in fl
      /\ "Y" \in l <=> "Y" \in up /\ "A" \in fl /\ "B" \in fl /\ "CLOB" \in fl
      /\ "A" \in n <=> "A" \in fl /\ "Z" \notin up
      /\ "B" \in n <=> "B" \in fl /\ ~("Z" \in up /\ "Y" \in up)
  BY Shared, Zenon
<1>2. /\ "B" \in fl => "A" \in fl
      /\ "CLOB" \in fl => "B" \in fl
      /\ "Y" \in up => "Z" \in up
  BY DEF WellFormed
<1>3. m = Machine(t, d, s, c, r, p, h) /\ t \in Cell /\ d \in -1..(MaxCells - 1) /\ c \in [CellIndexes -> Cell]
  BY Zenon DEF Ready
<1>4. d \in Int /\ MaxCells \in Int
  BY <1>3, PrimitivesAssumption DEF Half
<1>5. "Y" \in up /\ "Z" \in up /\ "B" \in fl /\ "CLOB" \notin fl => t = c[d]
  BY Zenon DEF Ready
<1> HIDE DEF l, n, t, d, s, c, r, p, h
<1>6. /\ "Y" \in l /\ "Z" \in l => W = Machine(c[d], d - 1, s, c, r, p, h)
      /\ "Y" \notin l /\ "Z" \in l => W = Machine(t, d - 1, s, c, r, p, h)
      /\ "Y" \notin l /\ "Z" \notin l => W = Machine(t, d, s, c, r, p, h)
  BY <1>3, ClosingIs
<1>7. /\ "A" \in n /\ "B" \in n => x = Machine(t, d + 1, s, Kept(c, d + 1, t), r, p, h)
      /\ "A" \in n /\ "B" \notin n => x = Machine(t, d + 1, s, c, r, p, h)
      /\ "A" \notin n /\ "B" \in n => x = Machine(t, d, s, Kept(c, d, t), r, p, h)
      /\ "A" \notin n /\ "B" \notin n => x = Machine(t, d, s, c, r, p, h)
  BY <1>3, OpeningIs
<1> HIDE DEF W, x
<1>8. /\ Kept(c, d, t) \in [CellIndexes -> Cell] /\ Kept(c, d + 1, t) \in [CellIndexes -> Cell]
      /\ d \in CellIndexes => Kept(c, d, t)[d] = t
      /\ d + 1 \in CellIndexes => Kept(c, d + 1, t)[d + 1] = t
      /\ \A i \in 1..(d - 1) : Kept(c, d, t)[i] = c[i]
      /\ \A i \in 1..d : Kept(c, d + 1, t)[i] = c[i]
  <2>1. d + 1 \in Int /\ (d + 1) - 1 = d /\ d <= MaxCells /\ d + 1 <= MaxCells
    BY <1>3, <1>4
  <2> QED
    BY <1>3, <1>4, <2>1, StoredTop
<1>9. Opened(fl, W, x)
  <2>1. CASE "A" \notin fl
    <3>1. W = Machine(t, d, s, c, r, p, h) /\ x = Machine(t, d, s, c, r, p, h)
      BY <1>1, <1>2, <1>6, <1>7, <2>1, Zenon
    <3> QED
      BY <1>2, <1>3, <1>4, <2>1, <3>1 DEF Opened, Machine
  <2>2. CASE "A" \in fl /\ "B" \notin fl /\ "Z" \notin up
    <3>1. W = Machine(t, d, s, c, r, p, h) /\ x = Machine(t, d + 1, s, c, r, p, h)
      BY <1>1, <1>2, <1>6, <1>7, <2>2, Zenon
    <3> QED
      BY <1>2, <1>3, <1>4, <2>2, <3>1 DEF Opened, Machine
  <2>3. CASE "A" \in fl /\ "B" \in fl /\ "Z" \notin up
    <3>1. W = Machine(t, d, s, c, r, p, h) /\ x = Machine(t, d + 1, s, Kept(c, d + 1, t), r, p, h)
      BY <1>1, <1>2, <1>6, <1>7, <2>3, Zenon
    <3> QED
      BY <1>2, <1>3, <1>4, <1>8, <2>3, <3>1 DEF Opened, Machine
  <2>4. CASE "A" \in fl /\ "B" \notin fl /\ "Z" \in up
    <3>1. W = Machine(t, d - 1, s, c, r, p, h) /\ x = Machine(t, d, s, c, r, p, h)
      BY <1>1, <1>2, <1>6, <1>7, <2>4, Zenon
    <3> QED
      BY <1>2, <1>3, <1>4, <2>4, <3>1 DEF Opened, Machine
  <2>5. CASE "A" \in fl /\ "B" \in fl /\ "Z" \in up /\ "Y" \notin up
    <3>1. W = Machine(t, d - 1, s, c, r, p, h) /\ x = Machine(t, d, s, Kept(c, d, t), r, p, h)
      BY <1>1, <1>2, <1>6, <1>7, <2>5, Zenon
    <3> QED
      BY <1>2, <1>3, <1>4, <1>8, <2>5, <3>1 DEF Opened, Machine
  <2>6. CASE "A" \in fl /\ "B" \in fl /\ "Z" \in up /\ "Y" \in up /\ "CLOB" \in fl
    <3>1. W = Machine(c[d], d - 1, s, c, r, p, h) /\ x = Machine(t, d, s, c, r, p, h)
      BY <1>1, <1>2, <1>6, <1>7, <2>6, Zenon
    <3> QED
      BY <1>2, <1>3, <1>4, <2>6, <3>1 DEF Opened, Machine
  <2>7. CASE "A" \in fl /\ "B" \in fl /\ "Z" \in up /\ "Y" \in up /\ "CLOB" \notin fl
    <3>1. W = Machine(t, d - 1, s, c, r, p, h) /\ x = Machine(t, d, s, c, r, p, h) /\ t = c[d]
      BY <1>1, <1>2, <1>5, <1>6, <1>7, <2>7, Zenon
    <3> QED
      BY <1>2, <1>3, <1>4, <2>7, <3>1 DEF Opened, Machine
  <2> QED
    BY <2>1, <2>2, <2>3, <2>4, <2>5, <2>6, <2>7
<1> QED
  BY <1>9, Zenon DEF W, x, l, n, Restored

-----------------------------------------------------------------------------
(* Chores left out behind a fragment.                                        *)

LEMMA Rescratched ==
    ASSUME NEW t, NEW d, NEW s, NEW c, NEW r, NEW p, NEW h, NEW j
    PROVE  /\ [Machine(t, d, s, c, r, p, h) EXCEPT !.scratch = j] = Machine(t, d, j, c, r, p, h)
           /\ IsMachine(Machine(t, d, s, c, r, p, h)) => IsMachine(Machine(t, d, j, c, r, p, h))
  BY DEF Machine, IsMachine

(* Closing a body that left v, between neighbours.                         *)
ClosedAs(fl, up, down, v, j) ==
    LET m2 == [Closing(NeededChores(fl, up, down), v) EXCEPT !.scratch = j]
    IN  /\ Restored(fl, up, down, m2) = [Closing(fl, v) EXCEPT !.scratch = j]
        /\ Ready(fl, up, down, m2)
        /\ m2.scratch = j /\ m2.rs = v.rs /\ m2.dp = v.dp /\ m2.heap = v.heap

(* The chores behind a body, those that are left out and those that are    *)
(* not: together they do what all of them do.                              *)
LEMMA ChoresClose ==
    ASSUME NEW up, NEW fl, NEW down, WellFormed(fl), WellFormed(down),
           NEW t, NEW d \in Int, NEW s, NEW c, NEW r, NEW p, NEW h, NEW j,
           IsMachine(Closing(fl, Machine(t, d, s, c, r, p, h))),
           "Z" \in fl => d <= MaxCells - 1,
           "Y" \in fl => t \in Cell
    PROVE  ClosedAs(fl, up, down, Machine(t, d, s, c, r, p, h), j)
<1> DEFINE n == NeededChores(fl, up, down)
           l == fl \ NeededChores(fl, up, down)
           y == Machine(t, d, s, c, r, p, h)
           m2 == [Closing(n, y) EXCEPT !.scratch = j]
           W == Closing(l, m2)
           C == [Closing(fl, y) EXCEPT !.scratch = j]
<1>1. /\ "Z" \in l <=> "Z" \in fl /\ "A" \in down
      /\ "Y" \in l <=> "Y" \in fl /\ "A" \in down /\ "B" \in down /\ "CLOB" \in down
      /\ "Z" \in n <=> "Z" \in fl /\ "A" \notin down
      /\ "Y" \in n <=> "Y" \in fl /\ ~("A" \in down /\ "B" \in down /\ "CLOB" \in down)
  BY Shared, Zenon
<1>2. "Y" \in fl => "Z" \in fl
  BY DEF WellFormed
<1>3. MaxCells \in Int
  BY PrimitivesAssumption DEF Half
<1> HIDE DEF n, l
<1> DEFINE t2 == IF "Y" \in n THEN c[d] ELSE t
           d2 == IF "Z" \in n THEN d - 1 ELSE d
           t3 == IF "Y" \in fl THEN c[d] ELSE t
           d3 == IF "Z" \in fl THEN d - 1 ELSE d
<1>4. Closing(n, y) = Machine(t2, d2, s, c, r, p, h)
  BY ClosingIs
<1>5. m2 = Machine(t2, d2, j, c, r, p, h)
  <2>1. [Machine(t2, d2, s, c, r, p, h) EXCEPT !.scratch = j] = Machine(t2, d2, j, c, r, p, h)
    <3> HIDE DEF t2, d2
    <3> QED
      BY Rescratched
  <2> QED
    BY <1>4, <2>1, Zenon
<1>6. Closing(fl, y) = Machine(t3, d3, s, c, r, p, h)
  BY <1>2, ClosingIs
<1>7. C = Machine(t3, d3, j, c, r, p, h) /\ IsMachine(C)
  <2>1. /\ [Machine(t3, d3, s, c, r, p, h) EXCEPT !.scratch = j] = Machine(t3, d3, j, c, r, p, h)
        /\ IsMachine(Machine(t3, d3, s, c, r, p, h)) => IsMachine(Machine(t3, d3, j, c, r, p, h))
    <3> HIDE DEF t3, d3
    <3> QED
      BY Rescratched
  <2>2. IsMachine(Closing(fl, y))
    OBVIOUS
  <2> QED
    BY <1>6, <2>1, <2>2, Zenon
<1>8. W = Machine(t3, d3, j, c, r, p, h)
  <2>1. /\ "Y" \in l /\ "Z" \in l => Closing(l, Machine(t2, d2, j, c, r, p, h)) = Machine(c[d2], d2 - 1, j, c, r, p, h)
        /\ "Y" \notin l /\ "Z" \in l => Closing(l, Machine(t2, d2, j, c, r, p, h)) = Machine(t2, d2 - 1, j, c, r, p, h)
        /\ "Y" \notin l /\ "Z" \notin l => Closing(l, Machine(t2, d2, j, c, r, p, h)) = Machine(t2, d2, j, c, r, p, h)
    <3> HIDE DEF t2, d2
    <3> QED
      BY ClosingIs
  <2>2. W = Closing(l, Machine(t2, d2, j, c, r, p, h))
    BY <1>5, Zenon
  <2>3. CASE "Y" \in l
    <3>1. "Z" \in l /\ t3 = c[d2] /\ d3 = d2 - 1
      BY <1>1, <1>2, <2>3
    <3> QED
      BY <2>1, <2>2, <2>3, <3>1, Zenon
  <2>4. CASE "Y" \notin l /\ "Z" \in l
    <3>1. t3 = t2 /\ d3 = d2 - 1
      BY <1>1, <1>2, <2>4
    <3> QED
      BY <2>1, <2>2, <2>4, <3>1, Zenon
  <2>5. CASE "Y" \notin l /\ "Z" \notin l
    <3>1. t3 = t2 /\ d3 = d2
      BY <1>1, <1>2, <2>5
    <3> QED
      BY <2>1, <2>2, <2>5, <3>1, Zenon
  <2> QED
    BY <2>3, <2>4, <2>5
<1>9. /\ t3 \in Cell /\ d3 \in -1..(MaxCells - 1) /\ c \in [CellIndexes -> Cell]
  <2> HIDE DEF t3, d3, C
  <2> QED
    BY <1>7 DEF IsMachine, Machine
<1>10. t2 \in Cell
  BY <1>1, <1>9
<1>11. d2 \in -1..(MaxCells - 1)
  BY <1>1, <1>3, <1>9
<1>12. "Y" \in fl /\ "Z" \in fl /\ "B" \in down /\ "CLOB" \notin down => t2 = c[d]
  BY <1>1
<1>14. "B" \in down => "A" \in down
  BY DEF WellFormed
<1>13. "Y" \in fl /\ "Z" \in fl /\ "B" \in down /\ "CLOB" \notin down => d2 = d
  BY <1>1, <1>14
<1> HIDE DEF t2, d2
<1>15. /\ m2.top = t2 /\ m2.depth = d2 /\ m2.scratch = j /\ m2.cells = c
       /\ m2.rs = r /\ m2.dp = p /\ m2.heap = h
       /\ m2 = Machine(m2.top, m2.depth, m2.scratch, m2.cells, m2.rs, m2.dp, m2.heap)
  <2> HIDE DEF m2
  <2> QED
    BY <1>5 DEF Machine
<1> HIDE DEF m2, W, C, y
<1>16. W = C
  BY <1>7, <1>8
<1>17. Restored(fl, up, down, m2) = W
  BY Zenon DEF Restored, W, l
<1>18. Ready(fl, up, down, m2)
  <2>1. "Y" \in fl /\ "Z" \in fl /\ "B" \in down /\ "CLOB" \notin down => m2.top = m2.cells[m2.depth]
    BY <1>12, <1>13, <1>15, Zenon
  <2>2. m2.top \in Cell /\ m2.depth \in -1..(MaxCells - 1) /\ m2.cells \in [CellIndexes -> Cell]
    BY <1>9, <1>10, <1>11, <1>15, Zenon
  <2>3. IsMachine(Restored(fl, up, down, m2))
    BY <1>7, <1>16, <1>17, Zenon
  <2>4. m2 = Machine(m2.top, m2.depth, m2.scratch, m2.cells, m2.rs, m2.dp, m2.heap)
    BY <1>15, Zenon
  <2> QED
    BY <2>1, <2>2, <2>3, <2>4, Zenon DEF Ready
<1>19. y.rs = r /\ y.dp = p /\ y.heap = h
  BY DEF y, Machine
<1> QED
  BY <1>15, <1>16, <1>17, <1>18, <1>19, Zenon DEF ClosedAs, m2, C, y, n

-----------------------------------------------------------------------------
(* What words that drop leave for the chores behind them.                    *)

(* What the body of a word that drops leaves for its chores.               *)
Backs(fl, x, y) ==
    /\ y = Machine(y.top, y.depth, y.scratch, y.cells, y.rs, y.dp, y.heap)
    /\ y.depth \in Int /\ y.depth <= x.depth
    /\ "Y" \in fl => y.top = x.top

LEMMA BinaryBody ==
    ASSUME NEW b, NEW w, NEW code,
           Len(code) = 1 /\ code[1] = "value2",
           NEW t, NEW d \in Int, NEW s, NEW c, NEW r, NEW p, NEW h,
           NEW v, v = NativeValue(b, w, Machine(t, d, s, c, r, p, h))
    PROVE  Execute(b, w, code, Machine(t, d, s, c, r, p, h)) =
                Machine(v, d, s, c, r, p, h)
<1> DEFINE m0 == Machine(t, d, s, c, r, p, h)
           m1 == Machine(v, d, s, c, r, p, h)
<1>1. Instruction(b, w, "value2", m0) = m1
  BY Does_value2
<1>e. Execute(b, w, code, m0) = m1
  <2> HIDE DEF m0, m1
  <2> QED
    BY Execute1, <1>1, Zenon
<1> QED
  BY <1>e

LEMMA BinaryBacks ==
    ASSUME NEW b \in {"x86_32", "esp32s3"}, NEW w \in Binary, NEW x, x.depth \in Int,
           x = Machine(x.top, x.depth, x.scratch, x.cells, x.rs, x.dp, x.heap)
    PROVE  /\ Backs(ListedFlags(b, w), x, Execute(b, w, BodyOf(b, w), x))
           /\ "A" \notin ListedFlags(b, w)
<1> DEFINE t == x.top
           d == x.depth
           s == x.scratch
           c == x.cells
           r == x.rs
           p == x.dp
           h == x.heap
           code == BodyOf(b, w)
           fl == ListedFlags(b, w)
<1>1. x = Machine(t, d, s, c, r, p, h) /\ d \in Int
  OBVIOUS
<1>2. /\ "A" \notin fl /\ "B" \notin fl /\ "CLOB" \notin fl /\ "Y" \notin fl /\ "Z" \in fl
      /\ Len(code) = 1 /\ code[1] = "value2"
  BY BinaryListed DEF Shown
<1> HIDE DEF t, d, s, c, r, p, h, code, fl
<1> DEFINE y == Execute(b, w, code, x)
<1>3. y = Machine(NativeValue(b, w, Machine(t, d, s, c, r, p, h)), d, s, c, r, p, h)
  BY <1>1, <1>2, BinaryBody
<1> HIDE DEF y
<1>4. Backs(fl, x, y)
  BY <1>1, <1>2, <1>3 DEF Backs, Machine
<1> QED
  BY <1>2, <1>4, Zenon DEF y, fl, code

LEMMA DropBody ==
    ASSUME NEW b, NEW w, NEW code,
           Len(code) = 0,
           NEW t, NEW d \in Int, NEW s, NEW c, NEW r, NEW p, NEW h
    PROVE  Execute(b, w, code, Machine(t, d, s, c, r, p, h)) =
                Machine(t, d, s, c, r, p, h)
<1> DEFINE m0 == Machine(t, d, s, c, r, p, h)
<1>e. Execute(b, w, code, m0) = m0
  <2> HIDE DEF m0
  <2> QED
    BY Execute0
<1> QED
  BY <1>e

LEMMA DropBacks ==
    ASSUME NEW b \in {"x86_32", "esp32s3"}, NEW x, x.depth \in Int,
           x = Machine(x.top, x.depth, x.scratch, x.cells, x.rs, x.dp, x.heap)
    PROVE  /\ Backs(ListedFlags(b, "drop"), x, Execute(b, "drop", BodyOf(b, "drop"), x))
           /\ "A" \notin ListedFlags(b, "drop")
<1> DEFINE t == x.top
           d == x.depth
           s == x.scratch
           c == x.cells
           r == x.rs
           p == x.dp
           h == x.heap
           code == BodyOf(b, "drop")
           fl == ListedFlags(b, "drop")
<1>1. x = Machine(t, d, s, c, r, p, h) /\ d \in Int
  OBVIOUS
<1>2. /\ "A" \notin fl /\ "B" \notin fl /\ "CLOB" \notin fl /\ "Y" \in fl /\ "Z" \in fl
      /\ Len(code) = 0
  BY DropListed DEF Shown
<1> HIDE DEF t, d, s, c, r, p, h, code, fl
<1> DEFINE y == Execute(b, "drop", code, x)
<1>3. y = Machine(t, d, s, c, r, p, h)
  BY <1>1, <1>2, DropBody
<1> HIDE DEF y
<1>4. Backs(fl, x, y)
  BY <1>1, <1>2, <1>3 DEF Backs, Machine
<1> QED
  BY <1>2, <1>4, Zenon DEF y, fl, code

LEMMA AllotBody ==
    ASSUME NEW b, NEW w, NEW code,
           Len(code) = 1 /\ code[1] = "allot",
           NEW t, NEW d \in Int, NEW s, NEW c, NEW r, NEW p, NEW h
    PROVE  Execute(b, w, code, Machine(t, d, s, c, r, p, h)) =
                Machine(t, d, s, c, r, p + t, h)
<1> DEFINE m0 == Machine(t, d, s, c, r, p, h)
           m1 == Machine(t, d, s, c, r, p + t, h)
<1>1. Instruction(b, w, "allot", m0) = m1
  BY Does_allot
<1>e. Execute(b, w, code, m0) = m1
  <2> HIDE DEF m0, m1
  <2> QED
    BY Execute1, <1>1, Zenon
<1> QED
  BY <1>e

LEMMA AllotBacks ==
    ASSUME NEW b \in {"x86_32", "esp32s3"}, NEW x, x.depth \in Int,
           x = Machine(x.top, x.depth, x.scratch, x.cells, x.rs, x.dp, x.heap)
    PROVE  /\ Backs(ListedFlags(b, "allot"), x, Execute(b, "allot", BodyOf(b, "allot"), x))
           /\ "A" \notin ListedFlags(b, "allot")
<1> DEFINE t == x.top
           d == x.depth
           s == x.scratch
           c == x.cells
           r == x.rs
           p == x.dp
           h == x.heap
           code == BodyOf(b, "allot")
           fl == ListedFlags(b, "allot")
<1>1. x = Machine(t, d, s, c, r, p, h) /\ d \in Int
  OBVIOUS
<1>2. /\ "A" \notin fl /\ "B" \notin fl /\ "CLOB" \notin fl /\ "Y" \in fl /\ "Z" \in fl
      /\ Len(code) = 1 /\ code[1] = "allot"
  BY AllotListed DEF Shown
<1> HIDE DEF t, d, s, c, r, p, h, code, fl
<1> DEFINE y == Execute(b, "allot", code, x)
<1>3. y = Machine(t, d, s, c, r, p + t, h)
  BY <1>1, <1>2, AllotBody
<1> HIDE DEF y
<1>4. Backs(fl, x, y)
  BY <1>1, <1>2, <1>3 DEF Backs, Machine
<1> QED
  BY <1>2, <1>4, Zenon DEF y, fl, code

LEMMA PokeBody ==
    ASSUME NEW b, NEW w, NEW code,
           Len(code) = 3 /\ code[1] = "keep" /\ code[2] = "poke" /\ code[3] = "Z",
           NEW t, NEW d \in Int, NEW s, NEW c, NEW r, NEW p, NEW h
    PROVE  Execute(b, w, code, Machine(t, d, s, c, r, p, h)) =
                Machine(t, d - 1, c[d], c, r, p, Store(h, t, UnitsOf(w), IF w = "+!" THEN Load(h, t, 4) + c[d] ELSE c[d]))
<1> DEFINE m0 == Machine(t, d, s, c, r, p, h)
           m1 == Machine(t, d, c[d], c, r, p, h)
           m2 == Machine(t, d, c[d], c, r, p, Store(h, t, UnitsOf(w), IF w = "+!" THEN Load(h, t, 4) + c[d] ELSE c[d]))
           m3 == Machine(t, d - 1, c[d], c, r, p, Store(h, t, UnitsOf(w), IF w = "+!" THEN Load(h, t, 4) + c[d] ELSE c[d]))
<1>1. Instruction(b, w, "keep", m0) = m1
  BY Does_keep
<1>2. Instruction(b, w, "poke", m1) = m2
  BY Does_poke
<1>3. Instruction(b, w, "Z", m2) = m3
  BY Does_Z
<1>e. Execute(b, w, code, m0) = m3
  <2> HIDE DEF m0, m1, m2, m3
  <2> QED
    BY Execute3, <1>1, <1>2, <1>3, Zenon
<1> QED
  BY <1>e

LEMMA PokeBacks ==
    ASSUME NEW b \in {"x86_32", "esp32s3"}, NEW w \in {"c!", "!", "w!", "+!"}, NEW x, x.depth \in Int,
           x = Machine(x.top, x.depth, x.scratch, x.cells, x.rs, x.dp, x.heap)
    PROVE  /\ Backs(ListedFlags(b, w), x, Execute(b, w, BodyOf(b, w), x))
           /\ "A" \notin ListedFlags(b, w)
<1> DEFINE t == x.top
           d == x.depth
           s == x.scratch
           c == x.cells
           r == x.rs
           p == x.dp
           h == x.heap
           code == BodyOf(b, w)
           fl == ListedFlags(b, w)
<1>1. x = Machine(t, d, s, c, r, p, h) /\ d \in Int
  OBVIOUS
<1>2. /\ "A" \notin fl /\ "B" \notin fl /\ "CLOB" \notin fl /\ "Y" \in fl /\ "Z" \in fl
      /\ Len(code) = 3 /\ code[1] = "keep" /\ code[2] = "poke" /\ code[3] = "Z"
  BY PokeListed DEF Shown
<1> HIDE DEF t, d, s, c, r, p, h, code, fl
<1> DEFINE y == Execute(b, w, code, x)
<1>3. y = Machine(t, d - 1, c[d], c, r, p, Store(h, t, UnitsOf(w), IF w = "+!" THEN Load(h, t, 4) + c[d] ELSE c[d]))
  BY <1>1, <1>2, PokeBody
<1> HIDE DEF y
<1>4. Backs(fl, x, y)
  BY <1>1, <1>2, <1>3 DEF Backs, Machine
<1> QED
  BY <1>2, <1>4, Zenon DEF y, fl, code

LEMMA CommaBody ==
    ASSUME NEW b, NEW w, NEW code,
           Len(code) = 1 /\ code[1] = "comma",
           NEW t, NEW d \in Int, NEW s, NEW c, NEW r, NEW p, NEW h
    PROVE  Execute(b, w, code, Machine(t, d, s, c, r, p, h)) =
                Machine(t, d, s, c, r, p + UnitsOf(w), Store(h, p, UnitsOf(w), t))
<1> DEFINE m0 == Machine(t, d, s, c, r, p, h)
           m1 == Machine(t, d, s, c, r, p + UnitsOf(w), Store(h, p, UnitsOf(w), t))
<1>1. Instruction(b, w, "comma", m0) = m1
  BY Does_comma
<1>e. Execute(b, w, code, m0) = m1
  <2> HIDE DEF m0, m1
  <2> QED
    BY Execute1, <1>1, Zenon
<1> QED
  BY <1>e

LEMMA CommaBacks ==
    ASSUME NEW b \in {"x86_32", "esp32s3"}, NEW w \in Commas, NEW x, x.depth \in Int,
           x = Machine(x.top, x.depth, x.scratch, x.cells, x.rs, x.dp, x.heap)
    PROVE  /\ Backs(ListedFlags(b, w), x, Execute(b, w, BodyOf(b, w), x))
           /\ "A" \notin ListedFlags(b, w)
<1> DEFINE t == x.top
           d == x.depth
           s == x.scratch
           c == x.cells
           r == x.rs
           p == x.dp
           h == x.heap
           code == BodyOf(b, w)
           fl == ListedFlags(b, w)
<1>1. x = Machine(t, d, s, c, r, p, h) /\ d \in Int
  OBVIOUS
<1>2. /\ "A" \notin fl /\ "B" \notin fl /\ "CLOB" \notin fl /\ "Y" \in fl /\ "Z" \in fl
      /\ Len(code) = 1 /\ code[1] = "comma"
  BY CommaListed DEF Shown
<1> HIDE DEF t, d, s, c, r, p, h, code, fl
<1> DEFINE y == Execute(b, w, code, x)
<1>3. y = Machine(t, d, s, c, r, p + UnitsOf(w), Store(h, p, UnitsOf(w), t))
  BY <1>1, <1>2, CommaBody
<1> HIDE DEF y
<1>4. Backs(fl, x, y)
  BY <1>1, <1>2, <1>3 DEF Backs, Machine
<1> QED
  BY <1>2, <1>4, Zenon DEF y, fl, code

LEMMA Drop2Body ==
    ASSUME NEW b, NEW w, NEW code,
           Len(code) = 1 /\ code[1] = "Z",
           NEW t, NEW d \in Int, NEW s, NEW c, NEW r, NEW p, NEW h
    PROVE  Execute(b, w, code, Machine(t, d, s, c, r, p, h)) =
                Machine(t, d - 1, s, c, r, p, h)
<1> DEFINE m0 == Machine(t, d, s, c, r, p, h)
           m1 == Machine(t, d - 1, s, c, r, p, h)
<1>1. Instruction(b, w, "Z", m0) = m1
  BY Does_Z
<1>e. Execute(b, w, code, m0) = m1
  <2> HIDE DEF m0, m1
  <2> QED
    BY Execute1, <1>1, Zenon
<1> QED
  BY <1>e

LEMMA Drop2Backs ==
    ASSUME NEW b \in {"x86_32", "esp32s3"}, NEW x, x.depth \in Int,
           x = Machine(x.top, x.depth, x.scratch, x.cells, x.rs, x.dp, x.heap)
    PROVE  /\ Backs(ListedFlags(b, "2drop"), x, Execute(b, "2drop", BodyOf(b, "2drop"), x))
           /\ "A" \notin ListedFlags(b, "2drop")
<1> DEFINE t == x.top
           d == x.depth
           s == x.scratch
           c == x.cells
           r == x.rs
           p == x.dp
           h == x.heap
           code == BodyOf(b, "2drop")
           fl == ListedFlags(b, "2drop")
<1>1. x = Machine(t, d, s, c, r, p, h) /\ d \in Int
  OBVIOUS
<1>2. /\ "A" \notin fl /\ "B" \notin fl /\ "CLOB" \notin fl /\ "Y" \in fl /\ "Z" \in fl
      /\ Len(code) = 1 /\ code[1] = "Z"
  BY Drop2Listed DEF Shown
<1> HIDE DEF t, d, s, c, r, p, h, code, fl
<1> DEFINE y == Execute(b, "2drop", code, x)
<1>3. y = Machine(t, d - 1, s, c, r, p, h)
  BY <1>1, <1>2, Drop2Body
<1> HIDE DEF y
<1>4. Backs(fl, x, y)
  BY <1>1, <1>2, <1>3 DEF Backs, Machine
<1> QED
  BY <1>2, <1>4, Zenon DEF y, fl, code

LEMMA ToRBody ==
    ASSUME NEW b, NEW w, NEW code,
           Len(code) = 1 /\ code[1] = "rpush",
           NEW t, NEW d \in Int, NEW s, NEW c, NEW r, NEW p, NEW h
    PROVE  Execute(b, w, code, Machine(t, d, s, c, r, p, h)) =
                Machine(t, d, s, c, Append(r, <<"cell", t>>), p, h)
<1> DEFINE m0 == Machine(t, d, s, c, r, p, h)
           m1 == Machine(t, d, s, c, Append(r, <<"cell", t>>), p, h)
<1>1. Instruction(b, w, "rpush", m0) = m1
  BY Does_rpush
<1>e. Execute(b, w, code, m0) = m1
  <2> HIDE DEF m0, m1
  <2> QED
    BY Execute1, <1>1, Zenon
<1> QED
  BY <1>e

LEMMA ToRBacks ==
    ASSUME NEW b \in {"x86_32", "esp32s3"}, NEW x, x.depth \in Int,
           x = Machine(x.top, x.depth, x.scratch, x.cells, x.rs, x.dp, x.heap)
    PROVE  /\ Backs(ListedFlags(b, ">r"), x, Execute(b, ">r", BodyOf(b, ">r"), x))
           /\ "A" \notin ListedFlags(b, ">r")
<1> DEFINE t == x.top
           d == x.depth
           s == x.scratch
           c == x.cells
           r == x.rs
           p == x.dp
           h == x.heap
           code == BodyOf(b, ">r")
           fl == ListedFlags(b, ">r")
<1>1. x = Machine(t, d, s, c, r, p, h) /\ d \in Int
  OBVIOUS
<1>2. /\ "A" \notin fl /\ "B" \notin fl /\ "CLOB" \notin fl /\ "Y" \in fl /\ "Z" \in fl
      /\ Len(code) = 1 /\ code[1] = "rpush"
  BY ToRListed DEF Shown
<1> HIDE DEF t, d, s, c, r, p, h, code, fl
<1> DEFINE y == Execute(b, ">r", code, x)
<1>3. y = Machine(t, d, s, c, Append(r, <<"cell", t>>), p, h)
  BY <1>1, <1>2, ToRBody
<1> HIDE DEF y
<1>4. Backs(fl, x, y)
  BY <1>1, <1>2, <1>3 DEF Backs, Machine
<1> QED
  BY <1>2, <1>4, Zenon DEF y, fl, code

LEMMA ToR2Body ==
    ASSUME NEW b, NEW w, NEW code,
           Len(code) = 2 /\ code[1] = "rpush2" /\ code[2] = "Z",
           NEW t, NEW d \in Int, NEW s, NEW c, NEW r, NEW p, NEW h
    PROVE  Execute(b, w, code, Machine(t, d, s, c, r, p, h)) =
                Machine(t, d - 1, s, c, r \o <<<<"cell", c[d]>>, <<"cell", t>>>>, p, h)
<1> DEFINE m0 == Machine(t, d, s, c, r, p, h)
           m1 == Machine(t, d, s, c, r \o <<<<"cell", c[d]>>, <<"cell", t>>>>, p, h)
           m2 == Machine(t, d - 1, s, c, r \o <<<<"cell", c[d]>>, <<"cell", t>>>>, p, h)
<1>1. Instruction(b, w, "rpush2", m0) = m1
  BY Does_rpush2
<1>2. Instruction(b, w, "Z", m1) = m2
  BY Does_Z
<1>e. Execute(b, w, code, m0) = m2
  <2> HIDE DEF m0, m1, m2
  <2> QED
    BY Execute2, <1>1, <1>2, Zenon
<1> QED
  BY <1>e

LEMMA ToR2Backs ==
    ASSUME NEW b \in {"x86_32", "esp32s3"}, NEW x, x.depth \in Int,
           x = Machine(x.top, x.depth, x.scratch, x.cells, x.rs, x.dp, x.heap)
    PROVE  /\ Backs(ListedFlags(b, "2>r"), x, Execute(b, "2>r", BodyOf(b, "2>r"), x))
           /\ "A" \notin ListedFlags(b, "2>r")
<1> DEFINE t == x.top
           d == x.depth
           s == x.scratch
           c == x.cells
           r == x.rs
           p == x.dp
           h == x.heap
           code == BodyOf(b, "2>r")
           fl == ListedFlags(b, "2>r")
<1>1. x = Machine(t, d, s, c, r, p, h) /\ d \in Int
  OBVIOUS
<1>2. /\ "A" \notin fl /\ "B" \notin fl /\ "CLOB" \notin fl /\ "Y" \in fl /\ "Z" \in fl
      /\ Len(code) = 2 /\ code[1] = "rpush2" /\ code[2] = "Z"
  BY ToR2Listed DEF Shown
<1> HIDE DEF t, d, s, c, r, p, h, code, fl
<1> DEFINE y == Execute(b, "2>r", code, x)
<1>3. y = Machine(t, d - 1, s, c, r \o <<<<"cell", c[d]>>, <<"cell", t>>>>, p, h)
  BY <1>1, <1>2, ToR2Body
<1> HIDE DEF y
<1>4. Backs(fl, x, y)
  BY <1>1, <1>2, <1>3 DEF Backs, Machine
<1> QED
  BY <1>2, <1>4, Zenon DEF y, fl, code

LEMMA NipBody ==
    ASSUME NEW b, NEW w, NEW code,
           Len(code) = 0,
           NEW t, NEW d \in Int, NEW s, NEW c, NEW r, NEW p, NEW h
    PROVE  Execute(b, w, code, Machine(t, d, s, c, r, p, h)) =
                Machine(t, d, s, c, r, p, h)
<1> DEFINE m0 == Machine(t, d, s, c, r, p, h)
<1>e. Execute(b, w, code, m0) = m0
  <2> HIDE DEF m0
  <2> QED
    BY Execute0
<1> QED
  BY <1>e

LEMMA NipBacks ==
    ASSUME NEW b \in {"x86_32", "esp32s3"}, NEW x, x.depth \in Int,
           x = Machine(x.top, x.depth, x.scratch, x.cells, x.rs, x.dp, x.heap)
    PROVE  /\ Backs(ListedFlags(b, "nip"), x, Execute(b, "nip", BodyOf(b, "nip"), x))
           /\ "A" \notin ListedFlags(b, "nip")
<1> DEFINE t == x.top
           d == x.depth
           s == x.scratch
           c == x.cells
           r == x.rs
           p == x.dp
           h == x.heap
           code == BodyOf(b, "nip")
           fl == ListedFlags(b, "nip")
<1>1. x = Machine(t, d, s, c, r, p, h) /\ d \in Int
  OBVIOUS
<1>2. /\ "A" \notin fl /\ "B" \notin fl /\ "CLOB" \notin fl /\ "Y" \notin fl /\ "Z" \in fl
      /\ Len(code) = 0
  BY NipListed DEF Shown
<1> HIDE DEF t, d, s, c, r, p, h, code, fl
<1> DEFINE y == Execute(b, "nip", code, x)
<1>3. y = Machine(t, d, s, c, r, p, h)
  BY <1>1, <1>2, NipBody
<1> HIDE DEF y
<1>4. Backs(fl, x, y)
  BY <1>1, <1>2, <1>3 DEF Backs, Machine
<1> QED
  BY <1>2, <1>4, Zenon DEF y, fl, code

(* Words that drop do not push first, and their bodies push nothing.       *)
LEMMA WordBacks ==
    ASSUME NEW b \in {"x86_32", "esp32s3"}, NEW w \in Words, "Z" \in ListedFlags(b, w),
           NEW x, x.depth \in Int,
           x = Machine(x.top, x.depth, x.scratch, x.cells, x.rs, x.dp, x.heap)
    PROVE  /\ Backs(ListedFlags(b, w), x, Execute(b, w, BodyOf(b, w), x))
           /\ "A" \notin ListedFlags(b, w)
<1>1. CASE w \in Binary
  BY <1>1, BinaryBacks
<1>2. CASE w \in {"c!", "!", "w!", "+!"}
  BY <1>2, PokeBacks
<1>3. CASE w \in Commas
  BY <1>3, CommaBacks
<1>4. CASE w = "drop"
  BY <1>4, DropBacks
<1>5. CASE w = "allot"
  BY <1>5, AllotBacks
<1>6. CASE w = "2drop"
  BY <1>6, Drop2Backs
<1>7. CASE w = ">r"
  BY <1>7, ToRBacks
<1>8. CASE w = "2>r"
  BY <1>8, ToR2Backs
<1>9. CASE w = "nip"
  BY <1>9, NipBacks
<1>u. CASE w \in Unary
  BY <1>u, UnaryListed DEF Shown
<1>10. CASE w = "dup"
  BY <1>10, DupListed DEF Shown
<1>11. CASE w = "over"
  BY <1>11, OverListed DEF Shown
<1>12. CASE w = "swap"
  BY <1>12, SwapListed DEF Shown
<1>13. CASE w = "i"
  BY <1>13, IListed DEF Shown
<1>14. CASE w = "r@"
  BY <1>14, RTopListed DEF Shown
<1>15. CASE w = "j"
  BY <1>15, JListed DEF Shown
<1>16. CASE w = "rot"
  BY <1>16, RotListed DEF Shown
<1>17. CASE w = "pick"
  BY <1>17, PickListed DEF Shown
<1>18. CASE w = "depth"
  BY <1>18, DepthListed DEF Shown
<1>19. CASE w = "here"
  BY <1>19, HereListed DEF Shown
<1>20. CASE w = "tuck"
  BY <1>20, TuckListed DEF Shown
<1>21. CASE w = "align"
  BY <1>21, AlignListed DEF Shown
<1>22. CASE w = "?dup"
  BY <1>22, DupIfListed DEF Shown
<1>23. CASE w = "r>"
  BY <1>23, FromRListed DEF Shown
<1>24. CASE w = "2dup"
  BY <1>24, Dup2Listed DEF Shown
<1>r. CASE w = "2r>"
  BY <1>r, FromR2Listed, FromR2EspListed DEF Shown
<1> QED
  BY <1>u, <1>r, <1>1, <1>2, <1>3, <1>4, <1>5, <1>6, <1>7, <1>8, <1>9, <1>10, <1>11, <1>12, <1>13, <1>14, <1>15, <1>16, <1>17, <1>18, <1>19, <1>20, <1>21, <1>22, <1>23, <1>24, Groups, Zenon

LEMMA ListedForm ==
    ASSUME NEW b, NEW w
    PROVE  WellFormed(ListedFlags(b, w))
  BY DEF ListedFlags, GeneratedFlags, WellFormed, Flags

-----------------------------------------------------------------------------
(* A word between any two neighbours, with the chores that are needed.       *)

(* Chores left out concern the data stack alone.                           *)
LEMMA RestoredSame ==
    ASSUME NEW up, NEW above, NEW fl, NEW m, Ready(up, above, fl, m)
    PROVE  /\ Restored(up, above, fl, m).rs = m.rs /\ Restored(up, above, fl, m).dp = m.dp
           /\ Restored(up, above, fl, m).heap = m.heap
<1> DEFINE l == up \ NeededChores(up, above, fl)
           t == m.top
           d == m.depth
           s == m.scratch
           c == m.cells
           r == m.rs
           p == m.dp
           h == m.heap
<1>1. m = Machine(t, d, s, c, r, p, h)
  BY Zenon DEF Ready
<1> HIDE DEF l, t, d, s, c, r, p, h
<1>2. \E t2, d2 : Closing(l, Machine(t, d, s, c, r, p, h)) = Machine(t2, d2, s, c, r, p, h)
  BY ClosingIs
<1>3. PICK t2, d2 : Closing(l, m) = Machine(t2, d2, s, c, r, p, h)
  BY <1>1, <1>2, Zenon
<1>4. Closing(l, m).rs = r /\ Closing(l, m).dp = p /\ Closing(l, m).heap = h
  BY <1>3 DEF Machine
<1> QED
  BY <1>4, Zenon DEF Restored, l, r, p, h

(* What a word does keeps a machine within its memory.                     *)
LEMMA ChoresClosed ==
    ASSUME NEW up, NEW fl, NEW down, WellFormed(fl), WellFormed(down),
           NEW v, v = Machine(v.top, v.depth, v.scratch, v.cells, v.rs, v.dp, v.heap), v.depth \in Int, NEW j,
           IsMachine(Closing(fl, v)),
           "Z" \in fl => v.depth <= MaxCells - 1,
           "Y" \in fl => v.top \in Cell
    PROVE  ClosedAs(fl, up, down, v, j)
<1> DEFINE t == v.top
           d == v.depth
           s == v.scratch
           c == v.cells
           r == v.rs
           p == v.dp
           h == v.heap
           w == Machine(t, d, s, c, r, p, h)
<1>1. v = w
  OBVIOUS
<1>2. IsMachine(Closing(fl, w)) /\ d \in Int /\ ("Z" \in fl => d <= MaxCells - 1) /\ ("Y" \in fl => t \in Cell)
  BY <1>1, Zenon
<1>3. ClosedAs(fl, up, down, w, j)
  <2> HIDE DEF t, d, s, c, r, p, h
  <2> QED
    BY <1>2, ChoresClose
<1> QED
  <2> HIDE DEF w
  <2> QED
    BY <1>1, <1>3, Zenon

LEMMA DoesMachine ==
    ASSUME NEW w \in Words, NEW m, NEW own, NEW r, Fit(w, m, own, r), r + Len(Returns(m.rs, own)) <= MaxCells,
           NEW y, Does(w, m, own, y)
    PROVE  IsMachine(y) /\ r + Len(Returns(y.rs, own)) <= MaxCells
<1> DEFINE s == StateOf(m, own)
           u == StateOf(y, own)
<1>1. IsMachine(m) /\ OwnCells(m.rs, own) /\ r \in Nat /\ Enough(w, s, r) /\ Defined(w, s)
  BY DEF Fit
<1>2. Opened({}, m, m)
  <2>1. m = Machine(m.top, m.depth, m.scratch, m.cells, m.rs, m.dp, m.heap)
        /\ m.depth \in -1..(MaxCells - 1) /\ m.cells \in [CellIndexes -> Cell]
    BY <1>1, Zenon DEF IsMachine
  <2>2. m.depth = m.depth + 0
    BY <2>1, PrimitivesAssumption DEF Half
  <2> QED
    BY <2>1, <2>2 DEF Opened
<1>3. s \in States /\ Len(s.ds) = m.depth + 1 /\ s.rs = Returns(m.rs, own)
      /\ m.depth <= MaxCells - 1 /\ m.depth \in Int /\ MaxCells \in Int
  BY <1>2, Basics
<1>4. Len(s.ds) <= MaxCells /\ r + Len(s.rs) <= MaxCells
  BY <1>3
<1>5. u \in Outcomes(w, s)
  BY DEF Does
<1> HIDE DEF s
<1>6. u \in States /\ Len(u.ds) <= MaxCells /\ r + Len(u.rs) <= MaxCells
  BY <1>1, <1>3, <1>4, <1>5, OutcomeState
<1>7. /\ y = Machine(y.top, y.depth, y.scratch, y.cells, y.rs, y.dp, y.heap)
      /\ y.top \in Cell /\ y.depth \in Int /\ y.depth >= -1 /\ y.cells \in [CellIndexes -> Cell]
      /\ y.rs \in Seq(Entries)
  BY Zenon DEF Does
<1>8. u.ds = InRegisters(y) /\ u.rs = Returns(y.rs, own) /\ u.dp = y.dp /\ u.heap = y.heap
  BY DEF StateOf
<1>9. Len(InRegisters(y)) = y.depth + 1
  BY <1>7, RegistersAre
<1> HIDE DEF u
<1>10. y.dp \in Bottom..Limit /\ y.heap \in Heaps
  BY <1>6, <1>8 DEF States
<1>11. y.depth \in -1..(MaxCells - 1)
  BY <1>3, <1>6, <1>7, <1>8, <1>9
<1> QED
  BY <1>6, <1>7, <1>8, <1>10, <1>11, Zenon DEF IsMachine

(* What a word asks of its neighbours and of machine m, the machine that   *)
(* its code leaves with the chores that are needed, and what the word may  *)
(* do to the machine in which all chores are made up for.                  *)
Asked(b, w, up, above, down, m, own, r) ==
    /\ WellFormed(up) /\ WellFormed(down) /\ Ready(up, above, ListedFlags(b, w), m)
    /\ Fit(w, Restored(up, above, ListedFlags(b, w), m), own, r)
    /\ r + Len(Returns(m.rs, own)) <= MaxCells
Answer(b, w, up, down, m, j) ==
    LET n == NeededChores(ListedFlags(b, w), up, down)
    IN  [Closing(n, Execute(b, w, BodyOf(b, w), Opening(n, m))) EXCEPT !.scratch = j]
Answered(b, w, up, above, down, m, own, r, j, m2) ==
    /\ Ready(ListedFlags(b, w), up, down, m2) /\ m2.scratch = j
    /\ Does(w, Restored(up, above, ListedFlags(b, w), m), own, Restored(ListedFlags(b, w), up, down, m2))
    /\ r + Len(Returns(m2.rs, own)) <= MaxCells

(* A word between any neighbours: with the chores that are needed, its     *)
(* code does on the restored machine what the word may do.                 *)
THEOREM WordStep ==
    ASSUME NEW b \in {"x86_32", "esp32s3"}, NEW w \in Words, NEW up, NEW above, NEW down,
           NEW m, NEW own, NEW r, NEW j, Asked(b, w, up, above, down, m, own, r)
    PROVE  Answered(b, w, up, above, down, m, own, r, j, Answer(b, w, up, down, m, j))
<1> DEFINE fl == ListedFlags(b, w)
           n == NeededChores(fl, up, down)
           W == Restored(up, above, fl, m)
           x == Opening(n, m)
           y == Execute(b, w, BodyOf(b, w), x)
           C == Closing(fl, y)
           m2 == [Closing(n, y) EXCEPT !.scratch = j]
<1>0. /\ WellFormed(up) /\ WellFormed(down) /\ Ready(up, above, ListedFlags(b, w), m)
      /\ Fit(w, Restored(up, above, ListedFlags(b, w), m), own, r)
      /\ r + Len(Returns(m.rs, own)) <= MaxCells
  BY Zenon DEF Asked
<1> USE <1>0
<1>1. WellFormed(fl)
  BY ListedForm
<1>2. Opened(fl, W, x)
  BY <1>1, ChoresOpen, Zenon
<1>3. Does(w, W, own, C)
  BY <1>2, WordDone, Zenon
<1>4. W.rs = m.rs
  <2> HIDE DEF fl
  <2>1. Ready(up, above, fl, m)
    BY DEF fl
  <2> QED
    BY <2>1, RestoredSame
<1>5. IsMachine(C) /\ r + Len(Returns(C.rs, own)) <= MaxCells
  <2> HIDE DEF W, C, fl
  <2>1. Fit(w, W, own, r) /\ r + Len(Returns(W.rs, own)) <= MaxCells
    BY <1>4 DEF W, fl
  <2> QED
    BY <1>3, <2>1, DoesMachine
<1>6. x = Machine(x.top, x.depth, x.scratch, x.cells, x.rs, x.dp, x.heap)
  <2>1. x = Machine(x.top, x.depth, x.scratch, x.cells, W.rs, W.dp, W.heap)
    BY <1>2, Zenon DEF Opened
  <2> HIDE DEF x, W
  <2> QED
    BY <2>1 DEF Machine
<1>7. x.depth = W.depth + (IF "A" \in fl THEN 1 ELSE 0) /\ ("CLOB" \notin fl => x.top = W.top)
  BY <1>2, Zenon DEF Opened
<1>8. IsMachine(W)
  BY Zenon DEF Ready
<1>9. W.depth \in Int /\ W.depth <= MaxCells - 1 /\ W.top \in Cell /\ MaxCells \in Int
  <2> HIDE <1>0
  <2> HIDE DEF W
  <2> QED
    BY <1>8, PrimitivesAssumption DEF IsMachine, Half
<1>10. x.depth \in Int
  <2> HIDE DEF x, W, fl
  <2> QED
    BY <1>7, <1>9
<1>11. "Z" \in fl => Backs(fl, x, y) /\ "A" \notin fl
  BY <1>6, <1>10, WordBacks, Zenon
<1>12. "Z" \notin fl => C = y
  <2>1. "Z" \notin fl => "Y" \notin fl
    BY <1>1 DEF WellFormed
  <2> QED
    BY <2>1, Zenon DEF Closing, ChoreIf
<1> HIDE DEF fl, W, x, y, C
<1>13. y = Machine(y.top, y.depth, y.scratch, y.cells, y.rs, y.dp, y.heap) /\ y.depth \in Int
  <2>1. CASE "Z" \in fl
    BY <1>11, <2>1, Zenon DEF Backs
  <2>2. CASE "Z" \notin fl
    BY <1>3, <1>12, <2>2, Zenon DEF Does
  <2> QED
    BY <2>1, <2>2
<1>14. "Z" \in fl => y.depth <= MaxCells - 1
  BY <1>7, <1>9, <1>10, <1>11, <1>13 DEF Backs
<1>15. "Y" \in fl => y.top \in Cell
  <2>1. "Y" \in fl => "Z" \in fl
    BY <1>1 DEF WellFormed
  <2>2. "A" \notin fl => "CLOB" \notin fl
    BY <1>1 DEF WellFormed
  <2> QED
    BY <1>7, <1>9, <1>11, <2>1, <2>2 DEF Backs
<1>19. /\ Restored(fl, up, down, m2) = [C EXCEPT !.scratch = j]
       /\ Ready(fl, up, down, m2)
       /\ m2.scratch = j /\ m2.rs = y.rs /\ m2.dp = y.dp /\ m2.heap = y.heap
  <2>1. IsMachine(Closing(fl, y))
    BY <1>5, Zenon DEF C
  <2>2. ClosedAs(fl, up, down, y, j)
    <3> HIDE DEF n, m2
    <3> QED
      BY <1>1, <1>13, <1>14, <1>15, <2>1, ChoresClosed
  <2> QED
    BY <2>2, Zenon DEF ClosedAs, C
<1> HIDE DEF n, m2
<1>20. Does(w, W, own, [C EXCEPT !.scratch = j]) /\ [C EXCEPT !.scratch = j].rs = C.rs
  <2> DEFINE D == [C EXCEPT !.scratch = j]
  <2>1. C = Machine(C.top, C.depth, C.scratch, C.cells, C.rs, C.dp, C.heap)
    BY <1>3, Zenon DEF Does
  <2>2. D = Machine(C.top, C.depth, j, C.cells, C.rs, C.dp, C.heap)
    BY <2>1 DEF Machine
  <2> HIDE DEF D
  <2>3. /\ D.top = C.top /\ D.depth = C.depth /\ D.cells = C.cells /\ D.rs = C.rs
        /\ D.dp = C.dp /\ D.heap = C.heap
        /\ D = Machine(D.top, D.depth, D.scratch, D.cells, D.rs, D.dp, D.heap)
    BY <2>2 DEF Machine
  <2>4. InRegisters(D) = InRegisters(C)
    BY <2>3, Zenon DEF InRegisters
  <2>5. StateOf(D, own) = StateOf(C, own)
    BY <2>3, <2>4, Zenon DEF StateOf
  <2>6. Does(w, W, own, D)
    BY <1>3, <2>3, <2>5, Zenon DEF Does
  <2> QED
    BY <2>3, <2>6, Zenon DEF D
<1>21. m2.rs = Restored(fl, up, down, m2).rs
  <2>1. Ready(fl, up, down, m2)
    BY <1>19
  <2> QED
    BY <2>1, RestoredSame
<1>22. r + Len(Returns(m2.rs, own)) <= MaxCells
  BY <1>5, <1>19, <1>20, <1>21, Zenon
<1>23. Does(w, W, own, Restored(fl, up, down, m2))
  BY <1>19, <1>20, Zenon
<1>24. Answer(b, w, up, down, m, j) = m2
  <2>1. NeededChores(ListedFlags(b, w), up, down) = n /\ Execute(b, w, BodyOf(b, w), Opening(n, m)) = y
    BY Zenon DEF n, y, x, fl
  <2> QED
    BY <2>1, Zenon DEF Answer, m2
<1> QED
  BY <1>19, <1>22, <1>23, <1>24, Zenon DEF Answered, W, fl

-----------------------------------------------------------------------------
(* Pushing and dropping one cell, with no neighbour and with any.            *)

LEMMA NoFlags ==
    ASSUME NEW up, NEW above, NEW fl, NEW m
    PROVE  /\ Ready(up, above, {}, m) => Restored(up, above, {}, m) = m /\ IsMachine(m)
           /\ IsMachine(m) => /\ Ready(up, above, {}, m) /\ Restored(up, above, {}, m) = m
                              /\ Ready({}, above, fl, m) /\ Restored({}, above, fl, m) = m
<1>1. /\ "Y" \notin up \ NeededChores(up, above, {}) /\ "Z" \notin up \ NeededChores(up, above, {})
      /\ "Y" \notin {} \ NeededChores({}, above, fl) /\ "Z" \notin {} \ NeededChores({}, above, fl)
  BY Shared
<1>2. Restored(up, above, {}, m) = m /\ Restored({}, above, fl, m) = m
  BY <1>1, Zenon DEF Restored, Closing, ChoreIf
<1>3. IsMachine(m) => /\ m = Machine(m.top, m.depth, m.scratch, m.cells, m.rs, m.dp, m.heap)
                      /\ m.top \in Cell /\ m.depth \in -1..(MaxCells - 1) /\ m.cells \in [CellIndexes -> Cell]
  BY DEF IsMachine
<1> QED
  BY <1>2, <1>3 DEF Ready

(* A value pushed.                                                         *)
LEMMA Pushed1 ==
    ASSUME NEW W, IsMachine(W), W.depth < MaxCells - 1, NEW v \in Cell, NEW s,
           NEW c \in [CellIndexes -> Cell], \A i \in 1..W.depth : c[i] = W.cells[i],
           W.depth >= 0 => c[W.depth + 1] = W.top
    PROVE  LET y == Machine(v, W.depth + 1, s, c, W.rs, W.dp, W.heap)
           IN  IsMachine(y) /\ InRegisters(y) = Append(InRegisters(W), v)
<1> DEFINE y == Machine(v, W.depth + 1, s, c, W.rs, W.dp, W.heap)
           d == W.depth
           q == InRegisters(W)
<1>1. /\ d \in -1..(MaxCells - 1) /\ d \in Int /\ MaxCells \in Int /\ W.rs \in Seq(Entries)
      /\ W.dp \in Bottom..Limit /\ W.heap \in Heaps
  BY PrimitivesAssumption DEF IsMachine, Half
<1>2. /\ y.top = v /\ y.depth = d + 1 /\ y.scratch = s /\ y.cells = c /\ y.rs = W.rs
      /\ y.dp = W.dp /\ y.heap = W.heap
      /\ y = Machine(y.top, y.depth, y.scratch, y.cells, y.rs, y.dp, y.heap)
  BY DEF Machine
<1>3. q \in Seq(Cell) /\ Len(q) = d + 1
  BY RegistersTyped
<1>4. \A i \in 1..d : q[i] = W.cells[i]
  BY <1>1, RegistersAre
<1>5. d >= 0 => q[d + 1] = W.top
  BY <1>1, RegistersAre
<1> HIDE DEF y, q
<1>6. IsMachine(y)
  BY <1>1, <1>2 DEF IsMachine
<1>7. InRegisters(y) = [i \in 1..(d + 2) |-> IF i <= d + 1 THEN c[i] ELSE v]
  <2>1. y.depth + 1 = d + 2
    BY <1>1, <1>2
  <2> QED
    BY <1>2, <2>1, Zenon DEF InRegisters
<1>a. /\ \A i \in 1..d : c[i] = W.cells[i]
      /\ d >= 0 => c[d + 1] = W.top
  OBVIOUS
<1> HIDE DEF d
<1>8. \A i \in 1..(d + 1) : c[i] = q[i]
  <2> TAKE i \in 1..(d + 1)
  <2>1. i \in 1..d \/ (i = d + 1 /\ d >= 0)
    BY <1>1
  <2> QED
    BY <1>a, <1>4, <1>5, <2>1
<1>9. Append(q, v) = [i \in 1..(d + 2) |-> IF i <= d + 1 THEN q[i] ELSE v]
  <2> DEFINE a == Append(q, v)
             g == [i \in 1..(d + 2) |-> IF i <= d + 1 THEN q[i] ELSE v]
  <2>1. a \in Seq(Cell) /\ Len(a) = d + 2 /\ \A i \in 1..(d + 2) : a[i] = IF i <= d + 1 THEN q[i] ELSE v
    BY <1>1, <1>3
  <2> HIDE DEF a
  <2>2. a \in [1..(d + 2) -> Cell]
    BY <2>1, LenProperties
  <2>3. a = [i \in 1..(d + 2) |-> a[i]]
    BY <2>2
  <2> QED
    BY <2>1, <2>2, <2>3, Zenon DEF a
<1>10. [i \in 1..(d + 2) |-> IF i <= d + 1 THEN c[i] ELSE v] = [i \in 1..(d + 2) |-> IF i <= d + 1 THEN q[i] ELSE v]
  <2>1. \A i \in 1..(d + 2) : i <= d + 1 => i \in 1..(d + 1)
    BY <1>1
  <2>2. \A i \in 1..(d + 2) : (IF i <= d + 1 THEN c[i] ELSE v) = (IF i <= d + 1 THEN q[i] ELSE v)
    BY <1>8, <2>1, Zenon
  <2> QED
    BY <2>2, Zenon
<1> QED
  BY <1>6, <1>7, <1>9, <1>10, Zenon DEF y, q, d

(* The top dropped.                                                        *)
LEMMA Dropped1 ==
    ASSUME NEW m, IsMachine(m), m.depth >= 0
    PROVE  LET y == Closing({"Y", "Z"}, m)
           IN  /\ IsMachine(y) /\ y.rs = m.rs /\ y.dp = m.dp /\ y.heap = m.heap /\ y.scratch = m.scratch
               /\ InRegisters(y) = Below(InRegisters(m), 1) /\ Nth(InRegisters(m), 1) = m.top
               /\ Len(InRegisters(m)) = m.depth + 1 /\ y.depth = m.depth - 1
<1> DEFINE t == m.top
           d == m.depth
           s == m.scratch
           c == m.cells
           r == m.rs
           p == m.dp
           h == m.heap
           q == InRegisters(m)
           y == Closing({"Y", "Z"}, m)
<1>1. /\ m = Machine(t, d, s, c, r, p, h) /\ t \in Cell /\ d \in 0..(MaxCells - 1) /\ d \in Int
      /\ MaxCells \in Int /\ c \in [CellIndexes -> Cell] /\ r \in Seq(Entries)
      /\ p \in Bottom..Limit /\ h \in Heaps
  BY PrimitivesAssumption DEF IsMachine, Half
<1>2. q \in Seq(Cell) /\ Len(q) = d + 1
  BY RegistersTyped
<1>3. /\ \A i \in 1..d : q[i] = c[i]
      /\ q[d + 1] = t
  BY <1>1, RegistersAre
<1> HIDE DEF t, d, s, c, r, p, h, q
<1>4. y = Machine(c[d], d - 1, s, c, r, p, h)
  <2>1. "Y" \in {"Y", "Z"} /\ "Z" \in {"Y", "Z"}
    OBVIOUS
  <2>2. Closing({"Y", "Z"}, Machine(t, d, s, c, r, p, h)) = Machine(c[d], d - 1, s, c, r, p, h)
    BY <2>1, ClosingIs
  <2> QED
    BY <1>1, <2>2, Zenon
<1> HIDE DEF y
<1>5. /\ y.top = c[d] /\ y.depth = d - 1 /\ y.scratch = s /\ y.cells = c /\ y.rs = r
      /\ y.dp = p /\ y.heap = h
      /\ y = Machine(y.top, y.depth, y.scratch, y.cells, y.rs, y.dp, y.heap)
  BY <1>4 DEF Machine
<1>6. c[d] \in Cell
  BY <1>1 DEF CellIndexes
<1>7. IsMachine(y)
  BY <1>1, <1>5, <1>6 DEF IsMachine
<1>8. InRegisters(y) = [i \in 1..d |-> IF i <= d - 1 THEN c[i] ELSE c[d]]
  <2>1. y.depth + 1 = d
    BY <1>1, <1>5
  <2> QED
    BY <1>5, <2>1, Zenon DEF InRegisters
<1>9. Below(q, 1) = [i \in 1..d |-> q[i]]
  BY <1>1, <1>2 DEF Below
<1>10. [i \in 1..d |-> IF i <= d - 1 THEN c[i] ELSE c[d]] = [i \in 1..d |-> q[i]]
  <2>1. \A i \in 1..d : i <= d - 1 \/ i = d
    BY <1>1
  <2>2. \A i \in 1..d : (IF i <= d - 1 THEN c[i] ELSE c[d]) = q[i]
    BY <1>3, <2>1, Zenon
  <2> QED
    BY <2>2, Zenon
<1>11. InRegisters(y) = Below(q, 1)
  BY <1>8, <1>9, <1>10, Zenon
<1>12. Nth(q, 1) = t
  BY <1>1, <1>2, <1>3 DEF Nth
<1> QED
  BY <1>2, <1>5, <1>7, <1>11, <1>12, Zenon DEF t, d, s, c, r, p, h, q, y

(* Machine m2 behind a fragment with the flags fl, with stack q and the    *)
(* memory of m.                                                            *)
Stacks(fl, up, down, m, q, j, m2) ==
    /\ Ready(fl, up, down, m2) /\ m2.scratch = j /\ m2.rs = m.rs /\ m2.dp = m.dp /\ m2.heap = m.heap
    /\ InRegisters(Restored(fl, up, down, m2)) = q
PushAnswer(fl, up, down, m, v, j) ==
    LET n == NeededChores(fl, up, down)
    IN  [Closing(n, [Opening(n, m) EXCEPT !.top = v]) EXCEPT !.scratch = j]
DropAnswer(fl, up, down, m, j) ==
    LET n == NeededChores(fl, up, down)
    IN  [Closing(n, Opening(n, m)) EXCEPT !.scratch = j]

(* A fragment that pushes a value, between any neighbours.                 *)
LEMMA PushStep ==
    ASSUME NEW up, NEW above, NEW fl, fl = {"A", "B", "CLOB"}, NEW down, WellFormed(up), WellFormed(down),
           NEW m, Ready(up, above, fl, m), NEW v \in Cell, NEW j,
           Restored(up, above, fl, m).depth < MaxCells - 1
    PROVE  Stacks(fl, up, down, m, Append(InRegisters(Restored(up, above, fl, m)), v), j,
                  PushAnswer(fl, up, down, m, v, j))
<1> DEFINE n == NeededChores(fl, up, down)
           x == Opening(n, m)
           y == [x EXCEPT !.top = v]
           m2 == [Closing(n, y) EXCEPT !.scratch = j]
           W == Restored(up, above, fl, m)
           W2 == Restored(fl, up, down, m2)
<1>1. WellFormed(fl) /\ "A" \in fl /\ "B" \in fl /\ "CLOB" \in fl /\ "Y" \notin fl /\ "Z" \notin fl
  BY DEF WellFormed, Flags
<1>2. Opened(fl, W, x)
  BY <1>1, ChoresOpen, Zenon
<1>3. W.rs = m.rs /\ W.dp = m.dp /\ W.heap = m.heap
  BY RestoredSame
<1>4. IsMachine(W)
  BY Zenon DEF Ready
<1> HIDE DEF x, W, n
<1>5. W.depth \in -1..(MaxCells - 1) /\ MaxCells \in Int
  BY <1>4, PrimitivesAssumption DEF IsMachine, Half
<1>6. W.depth < MaxCells - 1
  BY DEF W
<1>7. /\ x = Machine(x.top, x.depth, x.scratch, x.cells, W.rs, W.dp, W.heap)
      /\ x.depth = W.depth + 1
      /\ x.cells \in [CellIndexes -> Cell] /\ \A i \in 1..W.depth : x.cells[i] = W.cells[i]
      /\ x.depth \in CellIndexes => x.cells[x.depth] = W.top
  <2>1. "A" \in fl /\ "B" \in fl
    BY <1>1
  <2> HIDE DEF W
  <2> QED
    BY <1>2, <2>1, Zenon DEF Opened
<1>8. W.depth >= 0 => x.cells[W.depth + 1] = W.top
  BY <1>5, <1>6, <1>7 DEF CellIndexes
<1>9. y = Machine(v, W.depth + 1, x.scratch, x.cells, W.rs, W.dp, W.heap)
  <2>1. [Machine(x.top, x.depth, x.scratch, x.cells, W.rs, W.dp, W.heap) EXCEPT !.top = v] = Machine(v, x.depth, x.scratch, x.cells, W.rs, W.dp, W.heap)
    BY DEF Machine
  <2> QED
    BY <1>7, <2>1, Zenon
<1>10. IsMachine(y) /\ InRegisters(y) = Append(InRegisters(W), v)
  <2>1. LET z == Machine(v, W.depth + 1, x.scratch, x.cells, W.rs, W.dp, W.heap)
        IN  IsMachine(z) /\ InRegisters(z) = Append(InRegisters(W), v)
    BY <1>4, <1>6, <1>7, <1>8, Pushed1
  <2> QED
    BY <1>9, <2>1, Zenon
<1> HIDE DEF y
<1>11. Closing(fl, y) = y
  BY <1>1, Zenon DEF Closing, ChoreIf
<1>12. y = Machine(y.top, y.depth, y.scratch, y.cells, y.rs, y.dp, y.heap) /\ y.depth \in Int
       /\ y.top = v /\ y.rs = W.rs /\ y.dp = W.dp /\ y.heap = W.heap
  BY <1>5, <1>9 DEF Machine
<1>13. ClosedAs(fl, up, down, y, j)
  <2>1. IsMachine(Closing(fl, y))
    BY <1>10, <1>11, Zenon
  <2>2. "Z" \in fl => y.depth <= MaxCells - 1
    BY <1>1
  <2>3. "Y" \in fl => y.top \in Cell
    BY <1>1
  <2> QED
    BY <1>1, <1>12, <2>1, <2>2, <2>3, ChoresClosed
<1>14. /\ W2 = [y EXCEPT !.scratch = j]
       /\ Ready(fl, up, down, m2)
       /\ m2.scratch = j /\ m2.rs = y.rs /\ m2.dp = y.dp /\ m2.heap = y.heap
  BY <1>11, <1>13, Zenon DEF ClosedAs, n
<1>15. W2.top = y.top /\ W2.depth = y.depth /\ W2.cells = y.cells /\ W2.dp = y.dp /\ W2.heap = y.heap
  BY <1>12, <1>14 DEF Machine
<1> HIDE DEF W2, m2
<1>16. InRegisters(W2) = InRegisters(y)
  BY <1>15, Zenon DEF InRegisters
<1>20. PushAnswer(fl, up, down, m, v, j) = m2
  <2>1. NeededChores(fl, up, down) = n /\ [Opening(n, m) EXCEPT !.top = v] = y
    BY Zenon DEF n, x, y
  <2> QED
    BY <2>1, Zenon DEF PushAnswer, m2
<1> QED
  BY <1>3, <1>10, <1>12, <1>14, <1>16, <1>20, Zenon DEF W, W2, Stacks

LEMMA NoPush ==
    ASSUME NEW up, NEW above, NEW fl, NEW down, "A" \notin fl, "B" \notin fl
    PROVE  /\ "Y" \notin up \ NeededChores(up, above, fl) /\ "Z" \notin up \ NeededChores(up, above, fl)
           /\ "A" \notin NeededChores(fl, up, down) /\ "B" \notin NeededChores(fl, up, down)
  BY DEF NeededChores, DoneAbove, DoneBelow

(* A fragment that takes the top and drops it.                             *)
LEMMA DropStep ==
    ASSUME NEW up, NEW above, NEW fl, fl = {"Y", "Z"}, NEW down, WellFormed(down),
           NEW m, Ready(up, above, fl, m), NEW j, Len(InRegisters(Restored(up, above, fl, m))) >= 1
    PROVE  /\ Stacks(fl, up, down, m, Below(InRegisters(Restored(up, above, fl, m)), 1), j,
                     DropAnswer(fl, up, down, m, j))
           /\ Nth(InRegisters(Restored(up, above, fl, m)), 1) = m.top
<1> DEFINE n == NeededChores(fl, up, down)
           m2 == [Closing(n, Opening(n, m)) EXCEPT !.scratch = j]
           W == Restored(up, above, fl, m)
           W2 == Restored(fl, up, down, m2)
           C == Closing(fl, m)
<1>1. WellFormed(fl) /\ "A" \notin fl /\ "B" \notin fl /\ "CLOB" \notin fl
  BY DEF WellFormed, Flags
<1>2. /\ "Y" \notin up \ NeededChores(up, above, fl) /\ "Z" \notin up \ NeededChores(up, above, fl)
      /\ "A" \notin n /\ "B" \notin n
  BY <1>1, NoPush, Zenon
<1>3. W = m /\ Opening(n, m) = m
  BY <1>2, Zenon DEF Restored, Closing, Opening, ChoreIf
<1>4. IsMachine(m)
  <2>1. IsMachine(W)
    BY Zenon DEF Ready
  <2> QED
    BY <1>3, <2>1, Zenon
<1>5. m.depth \in Int /\ m.depth <= MaxCells - 1 /\ m.top \in Cell
      /\ m = Machine(m.top, m.depth, m.scratch, m.cells, m.rs, m.dp, m.heap)
  BY <1>4, PrimitivesAssumption DEF IsMachine, Half
<1>6. m.depth >= 0
  <2>1. Len(InRegisters(m)) = m.depth + 1
    BY <1>4, RegistersTyped
  <2>2. Len(InRegisters(m)) >= 1
    BY <1>3, Zenon
  <2> QED
    BY <1>5, <2>1, <2>2
<1>7. /\ IsMachine(C) /\ C.rs = m.rs /\ C.dp = m.dp /\ C.heap = m.heap
      /\ InRegisters(C) = Below(InRegisters(m), 1) /\ Nth(InRegisters(m), 1) = m.top
  BY <1>4, <1>6, Dropped1
<1> HIDE DEF W, n, C
<1>8. ClosedAs(fl, up, down, m, j)
  <2>1. IsMachine(Closing(fl, m))
    BY <1>7, Zenon DEF C
  <2> QED
    BY <1>1, <1>5, <2>1, ChoresClosed
<1>9. /\ W2 = [C EXCEPT !.scratch = j]
      /\ Ready(fl, up, down, m2)
      /\ m2.scratch = j /\ m2.rs = m.rs /\ m2.dp = m.dp /\ m2.heap = m.heap
  BY <1>3, <1>8, Zenon DEF ClosedAs, n, C
<1>10. W2.top = C.top /\ W2.depth = C.depth /\ W2.cells = C.cells /\ W2.dp = C.dp /\ W2.heap = C.heap
  <2>1. C = Machine(C.top, C.depth, C.scratch, C.cells, C.rs, C.dp, C.heap)
    BY <1>7 DEF IsMachine
  <2> QED
    BY <1>9, <2>1 DEF Machine
<1> HIDE DEF W2, m2
<1>11. InRegisters(W2) = InRegisters(C)
  BY <1>10, Zenon DEF InRegisters
<1>12. DropAnswer(fl, up, down, m, j) = m2
  BY Zenon DEF DropAnswer, m2, n
<1> QED
  BY <1>3, <1>7, <1>9, <1>11, <1>12, Zenon DEF Stacks, W, W2

-----------------------------------------------------------------------------
(* The stack handed to a C function and back.                                *)

(* The same stack with other cells behind it, and another top.             *)
LEMMA SameStack ==
    ASSUME NEW m, IsMachine(m), NEW c \in [CellIndexes -> Cell], \A i \in 1..m.depth : c[i] = m.cells[i],
           NEW v \in Cell
    PROVE  LET y == Machine(v, m.depth, m.scratch, c, m.rs, m.dp, m.heap)
           IN  /\ IsMachine(y)
               /\ v = m.top => InRegisters(y) = InRegisters(m)
               /\ m.depth >= 0 => InRegisters(y) = Append(Below(InRegisters(m), 1), v)
<1> DEFINE d == m.depth
           q == InRegisters(m)
           y == Machine(v, d, m.scratch, c, m.rs, m.dp, m.heap)
<1>1. /\ d \in -1..(MaxCells - 1) /\ d \in Int /\ MaxCells \in Int /\ m.rs \in Seq(Entries)
      /\ m.dp \in Bottom..Limit /\ m.heap \in Heaps /\ m.top \in Cell
  BY PrimitivesAssumption DEF IsMachine, Half
<1>2. /\ y.top = v /\ y.depth = d /\ y.scratch = m.scratch /\ y.cells = c /\ y.rs = m.rs
      /\ y.dp = m.dp /\ y.heap = m.heap
      /\ y = Machine(y.top, y.depth, y.scratch, y.cells, y.rs, y.dp, y.heap)
  BY DEF Machine
<1>3. q \in Seq(Cell) /\ Len(q) = d + 1
  BY RegistersTyped
<1>4. \A i \in 1..d : q[i] = m.cells[i]
  BY <1>1, RegistersAre
<1>5. IsMachine(y)
  <2> HIDE DEF y, d
  <2> QED
    BY <1>1, <1>2 DEF IsMachine
<1>a. \A i \in 1..d : c[i] = m.cells[i]
  OBVIOUS
<1> HIDE DEF y, q, d
<1>6. InRegisters(y) = [i \in 1..(d + 1) |-> IF i <= d THEN c[i] ELSE v]
  BY <1>2, Zenon DEF InRegisters
<1>7. v = m.top => InRegisters(y) = q
  <2>1. \A i \in 1..(d + 1) : i <= d => i \in 1..d
    BY <1>1
  <2>2. \A i \in 1..(d + 1) : (IF i <= d THEN c[i] ELSE v) = (IF i <= d THEN m.cells[i] ELSE v)
    BY <1>a, <2>1, Zenon
  <2>3. [i \in 1..(d + 1) |-> IF i <= d THEN c[i] ELSE v] = [i \in 1..(d + 1) |-> IF i <= d THEN m.cells[i] ELSE v]
    BY <2>2, Zenon
  <2>4. q = [i \in 1..(d + 1) |-> IF i <= d THEN m.cells[i] ELSE m.top]
    BY Zenon DEF InRegisters, q, d
  <2> QED
    BY <1>6, <2>3, <2>4, Zenon
<1>8. d >= 0 => InRegisters(y) = Append(Below(q, 1), v)
  <2> SUFFICES ASSUME d >= 0 PROVE InRegisters(y) = Append(Below(q, 1), v)
    OBVIOUS
  <2> DEFINE b == Below(q, 1)
             a == Append(b, v)
  <2>1. b \in Seq(Cell) /\ Len(b) = d /\ \A i \in 1..d : b[i] = q[i]
    BY <1>1, <1>3 DEF Below
  <2> HIDE DEF b
  <2>2. a \in Seq(Cell) /\ Len(a) = d + 1 /\ \A i \in 1..(d + 1) : a[i] = IF i <= d THEN b[i] ELSE v
    BY <1>1, <2>1
  <2> HIDE DEF a
  <2>3. a \in [1..(d + 1) -> Cell]
    BY <2>2, LenProperties
  <2>4. a = [i \in 1..(d + 1) |-> a[i]]
    BY <2>3
  <2>5. \A i \in 1..(d + 1) : i <= d => i \in 1..d
    BY <1>1
  <2>6. \A i \in 1..(d + 1) : a[i] = IF i <= d THEN c[i] ELSE v
    BY <1>4, <1>a, <2>1, <2>2, <2>5, Zenon
  <2>7. [i \in 1..(d + 1) |-> a[i]] = [i \in 1..(d + 1) |-> IF i <= d THEN c[i] ELSE v]
    BY <2>6, Zenon
  <2> QED
    BY <1>6, <2>4, <2>7, Zenon DEF a, b
<1> QED
  BY <1>5, <1>7, <1>8, Zenon DEF y, q, d

(* The stack goes to C and comes back.                                     *)
LEMMA HandedOver ==
    ASSUME NEW m, IsMachine(m), m.depth < MaxCells - 1, NEW v \in Cell
    PROVE  LET c == Opening({"A", "B"}, m)
               q == InRegisters(m)
               pushed == [c EXCEPT !.top = v]
               back == Closing({"Y", "Z"}, c)
               more == Closing({"Y", "Z"}, [c EXCEPT !.cells[c.depth] = Wrap(@ + 1)])
           IN  /\ IsMachine(pushed) /\ InRegisters(pushed) = Append(q, v)
               /\ pushed.rs = m.rs /\ pushed.dp = m.dp /\ pushed.heap = m.heap /\ pushed.scratch = m.scratch
               /\ IsMachine(back) /\ InRegisters(back) = q
               /\ back.rs = m.rs /\ back.dp = m.dp /\ back.heap = m.heap /\ back.scratch = m.scratch
               /\ IsMachine(more)
               /\ more.rs = m.rs /\ more.dp = m.dp /\ more.heap = m.heap /\ more.scratch = m.scratch
               /\ m.depth >= 0 => InRegisters(more) = Append(Below(q, 1), Wrap(Nth(q, 1) + 1))
<1> DEFINE t == m.top
           d == m.depth
           s == m.scratch
           a == m.cells
           r == m.rs
           p == m.dp
           h == m.heap
           q == InRegisters(m)
           c == Opening({"A", "B"}, m)
           e == Kept(a, d + 1, t)
           f == Kept(e, d + 1, Wrap(t + 1))
           pushed == [c EXCEPT !.top = v]
           back == Closing({"Y", "Z"}, c)
           mid == [c EXCEPT !.cells[c.depth] = Wrap(@ + 1)]
           more == Closing({"Y", "Z"}, mid)
<1>1. /\ m = Machine(t, d, s, a, r, p, h) /\ t \in Cell /\ d \in -1..(MaxCells - 1) /\ d \in Int
      /\ MaxCells \in Int /\ a \in [CellIndexes -> Cell] /\ r \in Seq(Entries)
      /\ p \in Bottom..Limit /\ h \in Heaps /\ d < MaxCells - 1
  BY PrimitivesAssumption DEF IsMachine, Half
<1>2. "A" \in {"A", "B"} /\ "B" \in {"A", "B"} /\ "Y" \in {"Y", "Z"} /\ "Z" \in {"Y", "Z"}
  OBVIOUS
<1> HIDE DEF t, d, s, a, r, p, h, q
<1>3. c = Machine(t, d + 1, s, e, r, p, h)
  <2>1. Opening({"A", "B"}, Machine(t, d, s, a, r, p, h)) = Machine(t, d + 1, s, Kept(a, d + 1, t), r, p, h)
    BY <1>2, OpeningIs
  <2> QED
    BY <1>1, <2>1, Zenon
<1>4. /\ e \in [CellIndexes -> Cell] /\ d + 1 \in CellIndexes /\ e[d + 1] = t
      /\ \A i \in 1..d : e[i] = a[i]
  <2>1. d + 1 \in CellIndexes /\ d + 1 \in Int /\ d + 1 <= MaxCells /\ (d + 1) - 1 = d
    BY <1>1 DEF CellIndexes
  <2> QED
    BY <1>1, <2>1, StoredTop
<1>5. Wrap(t + 1) \in Cell
  <2>1. t \in Int
    BY <1>1 DEF Cell, Half
  <2> QED
    BY <2>1, WrapCell
<1> HIDE DEF e
<1>6. /\ f \in [CellIndexes -> Cell] /\ f[d + 1] = Wrap(t + 1)
      /\ \A i \in 1..d : f[i] = a[i]
  <2>1. d + 1 \in Int /\ d + 1 <= MaxCells /\ (d + 1) - 1 = d
    BY <1>1
  <2> QED
    BY <1>4, <1>5, <2>1, StoredTop
<1>7. pushed = Machine(v, d + 1, s, e, r, p, h)
  <2> HIDE DEF c
  <2> QED
    BY <1>3 DEF Machine
<1>8. mid = Machine(t, d + 1, s, f, r, p, h)
  <2> HIDE DEF c
  <2> DEFINE w == Wrap(t + 1)
             z == [c EXCEPT !.cells[d + 1] = w]
  <2>1. c.depth = d + 1 /\ c.cells = e
    BY <1>3 DEF Machine
  <2> HIDE DEF w
  <2>2. z = Machine(t, d + 1, s, Kept(e, d + 1, w), r, p, h)
    BY <1>3 DEF Machine, Kept
  <2>3. mid = [c EXCEPT !.cells[c.depth] = Wrap(c.cells[c.depth] + 1)]
    OBVIOUS
  <2>4. c.cells[c.depth] = t
    BY <1>4, <2>1
  <2>5. mid = z
    BY <2>1, <2>3, <2>4, Zenon DEF w
  <2> QED
    BY <2>2, <2>5, Zenon DEF w
<1> HIDE DEF c, pushed, mid, f
<1>9. back = Machine(t, d, s, e, r, p, h)
  <2>1. Closing({"Y", "Z"}, Machine(t, d + 1, s, e, r, p, h)) = Machine(e[d + 1], (d + 1) - 1, s, e, r, p, h)
    BY <1>2, ClosingIs
  <2>2. (d + 1) - 1 = d
    BY <1>1
  <2> QED
    BY <1>3, <1>4, <2>1, <2>2, Zenon
<1>10. more = Machine(Wrap(t + 1), d, s, f, r, p, h)
  <2>1. Closing({"Y", "Z"}, Machine(t, d + 1, s, f, r, p, h)) = Machine(f[d + 1], (d + 1) - 1, s, f, r, p, h)
    BY <1>2, ClosingIs
  <2>2. (d + 1) - 1 = d
    BY <1>1
  <2> QED
    BY <1>6, <1>8, <2>1, <2>2, Zenon
<1> HIDE DEF back, more
<1>11. IsMachine(pushed) /\ InRegisters(pushed) = Append(q, v)
  <2>1. LET z == Machine(v, m.depth + 1, s, e, m.rs, m.dp, m.heap)
        IN  IsMachine(z) /\ InRegisters(z) = Append(InRegisters(m), v)
    <3>1. /\ \A i \in 1..m.depth : e[i] = m.cells[i]
          /\ m.depth >= 0 => e[m.depth + 1] = m.top
      BY <1>4 DEF d, a, t
    <3> QED
      BY <1>4, <3>1, Pushed1
  <2> QED
    BY <1>7, <2>1, Zenon DEF d, r, p, h, q
<1>12. IsMachine(back) /\ InRegisters(back) = q
  <2>1. LET z == Machine(m.top, m.depth, m.scratch, e, m.rs, m.dp, m.heap)
        IN  IsMachine(z) /\ InRegisters(z) = InRegisters(m)
    <3>1. (\A i \in 1..m.depth : e[i] = m.cells[i]) /\ m.top \in Cell
      BY <1>1, <1>4 DEF d, a, t
    <3> QED
      BY <1>4, <3>1, SameStack
  <2> QED
    BY <1>9, <2>1, Zenon DEF t, d, s, r, p, h, q
<1>13. IsMachine(more) /\ (m.depth >= 0 => InRegisters(more) = Append(Below(q, 1), Wrap(t + 1)))
  <2>1. LET z == Machine(Wrap(t + 1), m.depth, m.scratch, f, m.rs, m.dp, m.heap)
        IN  IsMachine(z) /\ (m.depth >= 0 => InRegisters(z) = Append(Below(InRegisters(m), 1), Wrap(t + 1)))
    <3>1. \A i \in 1..m.depth : f[i] = m.cells[i]
      BY <1>6 DEF d, a
    <3> QED
      BY <1>5, <1>6, <3>1, SameStack
  <2> QED
    BY <1>10, <2>1, Zenon DEF d, s, r, p, h, q
<1>14. m.depth >= 0 => Nth(q, 1) = t
  <2>1. q \in Seq(Cell) /\ Len(q) = d + 1 /\ (d >= 0 => q[d + 1] = m.top)
    BY <1>1, RegistersTyped, RegistersAre DEF q, d
  <2> QED
    BY <1>1, <2>1 DEF Nth, d, t
<1>15. /\ pushed.rs = r /\ pushed.dp = p /\ pushed.heap = h /\ pushed.scratch = s
       /\ back.rs = r /\ back.dp = p /\ back.heap = h /\ back.scratch = s
       /\ more.rs = r /\ more.dp = p /\ more.heap = h /\ more.scratch = s
  BY <1>7, <1>9, <1>10 DEF Machine
<1> QED
  BY <1>11, <1>12, <1>13, <1>14, <1>15, Zenon DEF t, d, s, a, r, p, h, q, c, pushed, back, mid, more

-----------------------------------------------------------------------------
(* The two cells that DO takes.                                              *)

LEMMA Thrice ==
    ASSUME NEW f, NEW x, NEW y, NEW z
    PROVE  [f EXCEPT !.rs = x, !.top = y, !.depth = z] = [[[f EXCEPT !.rs = x] EXCEPT !.top = y] EXCEPT !.depth = z]
  OBVIOUS

Took(m, R, t, d) == [m EXCEPT !.rs = R, !.top = t, !.depth = d]

LEMMA ThreeParts ==
    ASSUME NEW t, NEW d, NEW s, NEW c, NEW r, NEW p, NEW h, NEW x, NEW y, NEW z
    PROVE  Took(Machine(t, d, s, c, r, p, h), x, y, z) = Machine(y, z, s, c, x, p, h)
<1>1. [Machine(t, d, s, c, r, p, h) EXCEPT !.rs = x] = Machine(t, d, s, c, x, p, h)
  BY Parts
<1>2. [Machine(t, d, s, c, x, p, h) EXCEPT !.top = y] = Machine(y, d, s, c, x, p, h)
  BY Parts
<1>3. [Machine(y, d, s, c, x, p, h) EXCEPT !.depth = z] = Machine(y, z, s, c, x, p, h)
  BY Parts
<1> QED
  BY <1>1, <1>2, <1>3, Thrice DEF Took

(* The top two taken, and another return stack.                            *)
LEMMA TookTwo ==
    ASSUME NEW m, IsMachine(m), m.depth >= 1, NEW R \in Seq(Entries)
    PROVE  LET y == [m EXCEPT !.rs = R, !.top = m.cells[m.depth - 1], !.depth = @ - 2]
               q == InRegisters(m)
           IN  /\ IsMachine(y) /\ y.rs = R /\ y.dp = m.dp /\ y.heap = m.heap /\ y.scratch = m.scratch
               /\ InRegisters(y) = Below(q, 2) /\ Nth(q, 1) = m.top /\ Nth(q, 2) = m.cells[m.depth]
<1> DEFINE t == m.top
           d == m.depth
           s == m.scratch
           c == m.cells
           p == m.dp
           h == m.heap
           q == InRegisters(m)
           y == [m EXCEPT !.rs = R, !.top = m.cells[m.depth - 1], !.depth = @ - 2]
<1>1. /\ m = Machine(t, d, s, c, m.rs, p, h) /\ t \in Cell /\ d \in 1..(MaxCells - 1) /\ d \in Int
      /\ MaxCells \in Int /\ c \in [CellIndexes -> Cell]
      /\ p \in Bottom..Limit /\ h \in Heaps
  <2>1. /\ m = Machine(t, d, s, c, m.rs, p, h) /\ t \in Cell /\ d \in -1..(MaxCells - 1)
        /\ c \in [CellIndexes -> Cell] /\ p \in Bottom..Limit /\ h \in Heaps
    BY Zenon DEF IsMachine
  <2>2. MaxCells \in Int
    BY PrimitivesAssumption DEF Half
  <2>3. d >= 1
    OBVIOUS
  <2> HIDE DEF t, d, s, c, p, h
  <2>4. d \in 1..(MaxCells - 1) /\ d \in Int
    BY <2>1, <2>2, <2>3
  <2> QED
    BY <2>1, <2>2, <2>4, Zenon
<1>2. q \in Seq(Cell) /\ Len(q) = d + 1
  BY RegistersTyped
<1>3. /\ \A i \in 1..d : q[i] = c[i]
      /\ q[d + 1] = t
  BY <1>1, RegistersAre
<1>4. y = Machine(c[d - 1], d - 2, s, c, R, p, h)
  <2> DEFINE u == c[d - 1]
             e == d - 2
  <2>1. y = [m EXCEPT !.rs = R, !.top = u, !.depth = e]
    OBVIOUS
  <2> HIDE DEF u, e
  <2>2. Took(m, R, u, e) = Machine(u, e, s, c, R, p, h)
    <3> DEFINE r == m.rs
    <3> HIDE DEF t, d, s, c, p, h, r
    <3>1. Took(Machine(t, d, s, c, r, p, h), R, u, e) = Machine(u, e, s, c, R, p, h)
      BY ThreeParts
    <3>2. m = Machine(t, d, s, c, r, p, h)
      BY <1>1 DEF r
    <3> QED
      BY <3>1, <3>2, Zenon
  <2> QED
    BY <2>1, <2>2, Zenon DEF Took, u, e
<1> HIDE DEF t, d, s, c, p, h, q, y
<1>5. /\ y.top = c[d - 1] /\ y.depth = d - 2 /\ y.scratch = s /\ y.cells = c /\ y.rs = R
      /\ y.dp = p /\ y.heap = h
      /\ y = Machine(y.top, y.depth, y.scratch, y.cells, y.rs, y.dp, y.heap)
  BY <1>4 DEF Machine
<1>6. c[d - 1] \in Cell
  BY <1>1 DEF CellIndexes
<1>7. IsMachine(y)
  BY <1>1, <1>5, <1>6 DEF IsMachine
<1>8. InRegisters(y) = [i \in 1..(d - 1) |-> IF i <= d - 2 THEN c[i] ELSE c[d - 1]]
  <2>1. y.depth + 1 = d - 1
    BY <1>1, <1>5
  <2> QED
    BY <1>5, <2>1, Zenon DEF InRegisters
<1>9. Below(q, 2) = [i \in 1..(d - 1) |-> q[i]]
  BY <1>1, <1>2 DEF Below
<1>10. [i \in 1..(d - 1) |-> IF i <= d - 2 THEN c[i] ELSE c[d - 1]] = [i \in 1..(d - 1) |-> q[i]]
  <2>1. \A i \in 1..(d - 1) : i \in 1..d /\ (i <= d - 2 \/ i = d - 1)
    BY <1>1
  <2>2. \A i \in 1..(d - 1) : (IF i <= d - 2 THEN c[i] ELSE c[d - 1]) = q[i]
    BY <1>3, <2>1, Zenon
  <2> QED
    BY <2>2, Zenon
<1>11. InRegisters(y) = Below(q, 2)
  BY <1>8, <1>9, <1>10, Zenon
<1>12. Nth(q, 1) = t /\ Nth(q, 2) = c[d]
  BY <1>1, <1>2, <1>3 DEF Nth
<1> QED
  BY <1>5, <1>7, <1>11, <1>12, Zenon DEF t, d, s, c, p, h, q, y
=============================================================================
