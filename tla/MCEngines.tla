----------------------------- MODULE MCEngines ------------------------------
(* Programs for the three engines.  A program is put together from the     *)
(* bodies of the main program and of its words; in a body a call names the *)
(* number of a word and a branch the distance to its target.               *)
EXTENDS Engines, SequencesExt, TLC

F(op, p) == [op |-> op, p |-> p]
L(v) == F("PUSH_LITERAL", v)
B(w) == F("BUILTIN_WORD", w)
Call(n) == F("DEFINED_WORD", n)
Invoke(c) == F("RUNTIME_WORD", [kind |-> "invoke", v |-> c])
Lit(v) == F("RUNTIME_WORD", [kind |-> "lit", v |-> v])
Bump == F("RUNTIME_WORD", [kind |-> "bump", v |-> 0])
BranchIf0(d) == F("BRANCH_IF_ZERO", d)
Jumps(d) == F("BRANCH", d)
Target == F("BRANCH_LOCATION", 0)
DoLoop == F("DO", 0)
LoopBack(d) == F("LOOP", d)
Exit == F("EXIT_WORD", 0)
Word(body) == <<F("DEFINED_WORD_LOCATION", 0)>> \o body \o <<Exit>>

Program(main, words, callbacks) ==
    LET first == <<F("ENTRY", 0)>> \o main \o <<F("HALT", 0)>>
        all == FoldLeft(LAMBDA a, b : a \o Word(b), first, words)
        locations == SelectSeq([i \in DOMAIN all |-> i],
                               LAMBDA i : all[i].op = "DEFINED_WORD_LOCATION")
        own(i) == CHOOSE j \in ToSet(locations) : j < i /\ \A l \in ToSet(locations) : l < i => l <= j
        place(i) ==
            LET f == all[i]
            IN  CASE f.op \in {"DEFINED_WORD", "PUSH_OFFSET_ADDRESS"} -> F(f.op, locations[f.p])
                  [] f.op \in {"BRANCH", "BRANCH_IF_ZERO", "LOOP"} -> F(f.op, i + f.p)
                  [] f.op = "EXIT_WORD" -> F(f.op, own(i))
                  [] OTHER -> f
    IN  [code |-> FoldLeftDomain(LAMBDA c, i : Append(c, place(i)), <<>>, all),
         callbacks |-> FoldLeft(LAMBDA c, n : Append(c, locations[n]), <<>>, callbacks)]
Straight(main) == Program(main, <<>>, <<>>)

-----------------------------------------------------------------------------
(* Every word on every kind of value, with enough cells and with too few.  *)
Values == {-128, -3, -1, 0, 1, 6, 127}
Below3 == <<L(2), B(">r"), L(5), B(">r"), L(7), B(">r")>>
OneWord ==
    {Straight(Below3 \o <<L(x), B(w)>>) : x \in Values, w \in {v \in Words : Pops(v) <= 1}} \cup
    {Straight(<<L(2), L(y), L(x), B(w)>>) : x, y \in Values, w \in {v \in Words : Pops(v) >= 2}} \cup
    {Straight(<<L(y), L(Bottom + a), B(w), L(Bottom), B(r)>>) :
        y \in {-128, 90}, a \in {0, 2, 7}, w \in {"!", "w!", "c!", "+!"}, r \in {"@", "w@", "c@"}}
Short ==
    {Straight([i \in 1..n |-> L(1)] \o <<B(w)>>) : n \in {0, 1, MaxCells}, w \in Words}
Space ==
    {Straight(<<L(n), B("allot"), L(3), B(w), B("here"), B("align"), F("DECLARE_VARIABLE", 0)>>) :
        n \in {-1, 0, 2, Limit - Bottom - 2, Limit - Bottom, Limit - Bottom + 1},
        w \in {",", "w,", "c,"}}

(* Neighbours: each listing once beside each other listing, and three in a *)
(* row for the flags.                                                      *)
Listed == {"dup", "-", "1+", "over", "drop", "swap", "allot", "i", "j", "rot", "pick", "depth",
           "!", ",", "here", "2drop", "tuck", "align", "?dup", ">r", "r>", "2>r", "2r>",
           "2dup", "nip", "@"}
Neighbours == {B(w) : w \in Listed} \cup {L(0), F("DECLARE_CONSTANT", 0),
                                         F("USE_VARIABLE_OR_CONSTANT", 0), Bump, Target}
Stacks == {<<L(2), L(1), L(4), L(0)>>, <<L(9), L(Bottom), L(2), L(Bottom + 4)>>}
Pairs == {Straight(Below3 \o s \o <<a, b>>) : s \in Stacks, a, b \in Neighbours}
Flagged == {B("1+"), B("dup"), B("over"), B("tuck"), B("nip"), B("drop"), F("DECLARE_CONSTANT", 1)}
Triples == {Straight(<<L(3), L(5), L(8), L(9), a, b, c>>) : a, b, c \in Flagged}

-----------------------------------------------------------------------------
(* Control flow, words and callbacks.                                      *)
If(x) == Straight(<<L(x), BranchIf0(3), L(1), Jumps(3), Target, L(2), Target, B("dup"), B("drop")>>)
Count(d, e) == Program(<<L(4), L(7), Call(1), Call(2)>>,
    <<(* two loops, i and j, and an exit out of the inner one              *)
      <<L(2), L(0), DoLoop, Target, L(e), L(d), DoLoop, Target,
        B("i"), B("j"), B("+"), B("drop"), B("i"), L(1), B("="), BranchIf0(2), Exit, Target,
        LoopBack(-11), LoopBack(-16)>>,
      (* a loop without an exit, around a call                             *)
      <<L(2), L(0), DoLoop, Target, Call(3), B("i"), B("drop"), LoopBack(-4)>>,
      <<B("1+")>>>>, <<>>)
Nested == Program(<<L(3), Call(1), Lit(6), Call(2), F("PUSH_OFFSET_ADDRESS", 3), F("EXECUTE", 0)>>,
    <<<<B(">r"), Call(2), B("r>"), B("+")>>,
      <<L(5), Lit(1), Bump, B("nip")>>,
      (* recursion, down to zero                                           *)
      <<B("?dup"), BranchIf0(3), B("1-"), Call(3), Target>>>>, <<>>)
(* Callbacks: a leaf, one that calls, one with an exit in a loop, and one   *)
(* that is called back into from a callback, from inside a loop.           *)
CalledBack(c, x) == Program(<<L(9), L(x), Invoke(c), B("1+"), L(2), L(0), DoLoop, Target,
                              Call(4), B("i"), B("drop"), LoopBack(-4)>>,
    <<<<B("negate")>>,
      <<L(1), Call(1), B("-")>>,
      <<L(2), L(0), DoLoop, Target, B("i"), BranchIf0(2), Exit, Target, LoopBack(-5)>>,
      <<Invoke(c), B("dup"), B("drop")>>,
      <<L(1), L(0), DoLoop, Target, Invoke(2), B("i"), B("+"), B("dup"), BranchIf0(2), Exit, Target, LoopBack(-8)>>>>,
    <<1, 2, 3, 5>>)
Named == Program(<<F("DECLARE_VARIABLE", 0), L(7), F("DECLARE_CONSTANT", 1),
                   F("PUSH_CALLBACK", 1), F("USE_VARIABLE_OR_CONSTANT", 0), B("!"),
                   F("USE_VARIABLE_OR_CONSTANT", 0), B("@"), F("USE_VARIABLE_OR_CONSTANT", 1)>>,
                 <<<<B("1+")>>>>, <<1>>)
(* `7 constant n 3 x if 1 else ... c' w then n`: behind `1+` the counted    *)
(* code of PUSH_CALLBACK does not end aligned, behind nothing it does.     *)
Callback(x, before) ==
    Program(<<L(7), F("DECLARE_CONSTANT", 0), L(3), L(x), BranchIf0(3), L(1), Jumps(3 + Len(before)), Target>>
                \o before \o <<F("PUSH_CALLBACK", 0), Target, F("USE_VARIABLE_OR_CONSTANT", 0)>>,
            <<<<B("1+")>>>>, <<1>>)
Endless == Program(<<Call(1)>>, <<<<Call(1)>>>>, <<>>)
Control == {If(0), If(3), Nested, Named, Endless}
    \cup {Count(d, e) : d \in {0, 1, 2}, e \in {1, 3}}
    \cup {CalledBack(c, x) : c \in 1..4, x \in {0, 1}}
    \cup {Callback(x, <<>>) : x \in {0, 1}}

(* The checks are the interpreter's, the chores are machine code's.        *)
MCTasks ==
    [backend : {"vm"}, program : OneWord \cup Short \cup Space \cup Control] \cup
    [backend : {"x86_32", "esp32s3"}, program : OneWord \cup Pairs \cup Triples \cup Control]

(* Where the store of PUSH_CALLBACK stays.                                 *)
MCCallbackInBranch ==
    [backend : {"esp32s3"}, program : {Callback(x, before) : x \in {0, 1}, before \in {<<>>, <<B("1+")>>}}]

=============================================================================
