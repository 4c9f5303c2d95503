---------------------------- MODULE ForthMachine ----------------------------
(***************************************************************************)
(* What running a compiled program means, whichever engine runs it: a data *)
(* stack, a stack of calls that each have a return stack of their own, a   *)
(* data space and variables.  A program has its fragments in the order     *)
(* m4_compile emits them, main program first:                              *)
(*   code         fragments [op, p]                                        *)
(*   callbacks    for c': the location of each callback's word             *)
(* Leaving a word drops what it left on its return stack only if one of    *)
(* its exits is inside a do loop; then UNLOOP is not required.             *)
(***************************************************************************)
EXTENDS Primitives, FiniteSets

CONSTANT
    VariableCount   \* variables and constants of every program

VARIABLES
    program,        \* what runs
    k,              \* the fragment to execute next
    ds,             \* the data stack
    calls,          \* the words entered and not left: where each returns to, its return
                    \* stack, and the cells under that: [ret, rs, below]
    dp, heap,       \* the data space
    vars,           \* an address or a constant each
    status          \* "running", "done", or "failed"

forthVars == <<program, k, ds, calls, dp, heap, vars, status>>

-----------------------------------------------------------------------------
(* The shape of programs.                                                  *)
Code == program.code
Fragment == Code[k]

(* The location of the word that fragment i belongs to, 0 for the main     *)
(* program.                                                                *)
WordOf(code, i) ==
    LET locations == {j \in 1..i : code[j].op = "DEFINED_WORD_LOCATION"}
    IN  IF locations = {} THEN 0 ELSE CHOOSE j \in locations : \A l \in locations : l <= j

(* Loops open at fragment i of its word.                                   *)
OpenLoops(code, i) ==
    LET opened(o) == Cardinality({j \in WordOf(code, i)..i : j > 0 /\ code[j].op = o})
    IN  opened("DO") - opened("LOOP")

(* What a fragment carries.                                                *)
Carries(p, f) ==
    LET place(op) == f.p \in DOMAIN p.code /\ p.code[f.p].op = op
    IN  CASE f.op \in {"BRANCH", "BRANCH_IF_ZERO", "LOOP"} -> place("BRANCH_LOCATION")
          [] f.op \in {"DEFINED_WORD", "PUSH_OFFSET_ADDRESS", "EXIT_WORD"} ->
                place("DEFINED_WORD_LOCATION")
          [] f.op = "BUILTIN_WORD" -> f.p \in Words
          [] f.op \in {"PUSH_LITERAL", "PUSH_DATA_ADDRESS", "PUSH_CALLBACK"} -> f.p \in Cell
          [] f.op \in {"DECLARE_VARIABLE", "DECLARE_CONSTANT", "USE_VARIABLE_OR_CONSTANT"} ->
                f.p \in 0..(VariableCount - 1)
          [] f.op = "RUNTIME_WORD" ->
                /\ f.p.kind = "lit" => f.p.v \in Cell
                /\ f.p.kind = "invoke" => f.p.v \in DOMAIN p.callbacks
          [] OTHER -> TRUE

(* The shape of compiled code: the main program in front, from ENTRY to    *)
(* HALT, and words behind it, each from its location to an exit; branches  *)
(* and exits keep to their word.                                           *)
IsProgram(p) ==
    /\ Len(p.code) \in 2..(Half - 1) /\ DOMAIN p.code = 1..Len(p.code)
    /\ \A i \in DOMAIN p.code :
        LET f == p.code[i]
            word == WordOf(p.code, i)
        IN  /\ f.op = "ENTRY" <=> i = 1
            /\ Carries(p, f)
            /\ f.op \in {"BRANCH", "BRANCH_IF_ZERO", "LOOP"} => WordOf(p.code, f.p) = word
            /\ f.op = "EXIT_WORD" => f.p = word
            /\ f.op = "HALT" => word = 0
            /\ f.op \notin {"BRANCH", "EXIT_WORD", "HALT"} =>
                    i < Len(p.code) /\ p.code[i + 1].op # "DEFINED_WORD_LOCATION"
    /\ \A c \in DOMAIN p.callbacks :
        /\ p.callbacks[c] \in DOMAIN p.code
        /\ p.code[p.callbacks[c]].op = "DEFINED_WORD_LOCATION"

(* M4_DEFINED_WORD_LOCATION_PARAM_LOOPS: the word has an exit in a loop.   *)
Loops(code, w) ==
    \E i \in (w + 1)..Len(code) :
        WordOf(code, i) = w /\ code[i].op = "EXIT_WORD" /\ OpenLoops(code, i) > 0

-----------------------------------------------------------------------------
(* The machine.                                                            *)
Call == calls[Len(calls)]
Callers == SubSeq(calls, 1, Len(calls) - 1)
State == [ds |-> ds, rs |-> Call.rs, dp |-> dp, heap |-> heap]

Room(n) == Len(ds) + n <= MaxCells

(* A call takes two cells of the return stack.                             *)
ReturnRoom(n) == Call.below + Len(Call.rs) + n <= MaxCells

(* What each fragment needs to succeed.                                    *)
EnoughFor(f) ==
    CASE f.op = "BUILTIN_WORD" -> Enough(f.p, State, Call.below)
      [] f.op \in {"PUSH_LITERAL", "PUSH_DATA_ADDRESS", "PUSH_OFFSET_ADDRESS",
                   "PUSH_CALLBACK", "USE_VARIABLE_OR_CONSTANT"} -> Room(1)
      [] f.op = "RUNTIME_WORD" ->
            IF f.p.kind = "lit" THEN Room(1)
            ELSE Len(ds) >= 1 /\ (f.p.kind = "invoke" => ReturnRoom(2))
      [] f.op \in {"BRANCH_IF_ZERO", "DECLARE_CONSTANT"} -> Len(ds) >= 1
      [] f.op = "EXECUTE" -> Len(ds) >= 1 /\ ReturnRoom(2)
      [] f.op = "DEFINED_WORD" -> ReturnRoom(2)
      [] f.op = "DO" -> Len(ds) >= 2 /\ ReturnRoom(2)
      [] f.op = "DECLARE_VARIABLE" -> Align(dp) + 4 <= Limit
      [] OTHER -> TRUE

(* What a program must not do; the compiler has seen to the rest.          *)
DefinedFor(f) ==
    CASE f.op = "BUILTIN_WORD" -> Defined(f.p, State)
      [] f.op = "LOOP" -> Len(Call.rs) >= 2 /\ Nth(Call.rs, 1) < Half - 1
      [] f.op = "EXECUTE" -> Nth(ds, 1) \in DOMAIN Code /\ Code[Nth(ds, 1)].op = "DEFINED_WORD_LOCATION"
      [] f.op = "EXIT_WORD" -> Call.rs = <<>> \/ Loops(Code, f.p)
      [] f.op = "HALT" -> Call.rs = <<>>
      [] OTHER -> TRUE

Runs(op) == status = "running" /\ Fragment.op = op /\ EnoughFor(Fragment) /\ DefinedFor(Fragment)
Own(rs) == [calls EXCEPT ![Len(calls)].rs = rs]
Enter(w) ==
    /\ calls' = Append(calls, [ret |-> k + 1, rs |-> <<>>,
                               below |-> Call.below + Len(Call.rs) + 2])
    /\ k' = w
Stays == UNCHANGED <<program, status>>

-----------------------------------------------------------------------------
Init ==
    /\ IsProgram(program)
    /\ k = 1 /\ ds = <<>>
    /\ calls = <<[ret |-> 0, rs |-> <<>>, below |-> 0]>>
    /\ dp = Bottom /\ heap = <<>>
    /\ vars = [i \in 0..(VariableCount - 1) |-> 0]
    /\ status = "running"

Builtin ==
    /\ Runs("BUILTIN_WORD")
    /\ \E t \in Outcomes(Fragment.p, State) :
            ds' = t.ds /\ calls' = Own(t.rs) /\ dp' = t.dp /\ heap' = t.heap
    /\ k' = k + 1
    /\ UNCHANGED vars /\ Stays

Push ==
    /\ \/ \E op \in {"PUSH_LITERAL", "PUSH_DATA_ADDRESS", "PUSH_OFFSET_ADDRESS",
                     "PUSH_CALLBACK"} :
                Runs(op) /\ ds' = Append(ds, Fragment.p)
       \/ Runs("USE_VARIABLE_OR_CONSTANT") /\ ds' = Append(ds, vars[Fragment.p])
    /\ k' = k + 1
    /\ UNCHANGED <<calls, dp, heap, vars>> /\ Stays

Declare ==
    /\ \/ /\ Runs("DECLARE_VARIABLE")
          /\ dp' = Align(dp) + 4
          /\ vars' = [vars EXCEPT ![Fragment.p] = Align(dp)]
          /\ UNCHANGED ds
       \/ /\ Runs("DECLARE_CONSTANT")
          /\ vars' = [vars EXCEPT ![Fragment.p] = Nth(ds, 1)]
          /\ ds' = Below(ds, 1)
          /\ UNCHANGED dp
    /\ k' = k + 1
    /\ UNCHANGED <<calls, heap>> /\ Stays

Branch ==
    /\ \/ Runs("BRANCH") /\ k' = Fragment.p /\ UNCHANGED ds
       \/ /\ Runs("BRANCH_IF_ZERO")
          /\ k' = IF Nth(ds, 1) = 0 THEN Fragment.p ELSE k + 1
          /\ ds' = Below(ds, 1)
    /\ UNCHANGED <<calls, dp, heap, vars>> /\ Stays

Do ==
    /\ Runs("DO")
    /\ ds' = Below(ds, 2)
    /\ calls' = Own(Call.rs \o <<Nth(ds, 2), Nth(ds, 1)>>)
    /\ k' = k + 1
    /\ UNCHANGED <<dp, heap, vars>> /\ Stays

Loop ==
    /\ Runs("LOOP")
    /\ LET index == Nth(Call.rs, 1) + 1
           end == Nth(Call.rs, 2)
           outer == Below(Call.rs, 2)
       IN  IF index < end THEN k' = Fragment.p /\ calls' = Own(outer \o <<end, index>>)
                          ELSE k' = k + 1 /\ calls' = Own(outer)
    /\ UNCHANGED <<ds, dp, heap, vars>> /\ Stays

(* A call, an execute, or a runtime word that hands the top cell to a      *)
(* callback and pushes the result the callback has, if it has one.         *)
EnterWord ==
    /\ \/ Runs("DEFINED_WORD") /\ Enter(Fragment.p) /\ UNCHANGED ds
       \/ Runs("EXECUTE") /\ Enter(Nth(ds, 1)) /\ ds' = Below(ds, 1)
       \/ /\ Runs("RUNTIME_WORD") /\ Fragment.p.kind = "invoke"
          /\ Enter(program.callbacks[Fragment.p.v]) /\ UNCHANGED ds
    /\ UNCHANGED <<dp, heap, vars>> /\ Stays

LeaveWord ==
    /\ Runs("EXIT_WORD")
    /\ calls' = Callers /\ k' = Call.ret
    /\ UNCHANGED <<ds, dp, heap, vars>> /\ Stays

(* m4_lit, and a C function that changes the top cell.                     *)
Runtime ==
    /\ Runs("RUNTIME_WORD") /\ Fragment.p.kind # "invoke"
    /\ ds' = IF Fragment.p.kind = "lit" THEN Append(ds, Fragment.p.v)
             ELSE Append(Below(ds, 1), Wrap(Nth(ds, 1) + 1))
    /\ k' = k + 1
    /\ UNCHANGED <<calls, dp, heap, vars>> /\ Stays

Skip ==
    /\ \E op \in {"BRANCH_LOCATION", "DEFINED_WORD_LOCATION", "ENTRY"} : Runs(op)
    /\ k' = k + 1
    /\ UNCHANGED <<ds, calls, dp, heap, vars>> /\ Stays

Halt ==
    /\ Runs("HALT")
    /\ status' = "done"
    /\ UNCHANGED <<program, k, ds, calls, dp, heap, vars>>

(* The engine returns an error; what the failing word has done by then is  *)
(* not looked at again.                                                    *)
Fail ==
    /\ status = "running" /\ ~EnoughFor(Fragment)
    /\ status' = "failed"
    /\ UNCHANGED <<program, k, ds, calls, dp, heap, vars>>

Next ==
    \/ Builtin \/ Push \/ Declare \/ Branch \/ Do \/ Loop
    \/ EnterWord \/ LeaveWord \/ Runtime \/ Skip \/ Halt \/ Fail

Spec == Init /\ [][Next]_forthVars

=============================================================================
