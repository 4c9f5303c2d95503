------------------------------ MODULE Compiler ------------------------------
(***************************************************************************)
(* The front end of m4_compile (compile.c): one pass over the words of the *)
(* source that builds the fragments, the order they are emitted in, the    *)
(* control-flow stack and the name tables, up to the fragment order that   *)
(* the layout (module Layout) then measures.                               *)
(*                                                                         *)
(* A fragment belongs to the position it is created at; `sequence` lists   *)
(* the fragments in emission order.  A BRANCH_LOCATION of if, else and     *)
(* while is created first and placed in `sequence` by the word that closes *)
(* the construct.  Indexes are 1-based here: both the fragment index and   *)
(* the sequence index are one more than in the code, so that comparing the *)
(* one with the other, as the code does, means the same.                   *)
(***************************************************************************)
EXTENDS Naturals, Sequences, FiniteSets

CONSTANTS
    Vocabulary,     \* the words the source is made of
    Names,          \* the words it may try to define, tick or declare
    Signatures,     \* <<parameters, results>> counted in a stack comment
    Strings,        \* string literals
    Length(_),      \* decoded length of a string literal
    TracksLr,       \* the backend says which opcodes use the link register
    NoName,         \* the source ends where a name is expected
    MaxWords        \* bound on the words of a source

Builtins == {"dup", "i", "j"}
Keywords == {":", ";", "exit", "(", ".\"", "s\"", "recurse", "variable",
             "constant", "if", "then", "else", "do", "loop", "begin", "until",
             "while", "repeat", "again", "'", "c'", "unloop", "execute",
             "thread-create", "thread-join", "\\", "1"}

ASSUME CompilerAssumption ==
    /\ Names \subseteq Vocabulary
    /\ NoName \notin Names
    /\ Signatures \subseteq Nat \X Nat
    /\ \A s \in Strings : Length(s) \in Nat
    /\ TracksLr \in BOOLEAN
    /\ MaxWords \in Nat

VARIABLES
    frags, sequence,    \* all_fragments and sequence
    cf,                 \* control_flow_stack
    words,              \* defined words: name, fragment, flags, signature
    runtime,            \* runtime_word_nstrings
    variables,          \* variable_nstrings: variables and constants
    callbacks,          \* defined_words_that_need_callbacks
    strings,            \* data_nstrings
    defining,           \* defining_word
    ret,                \* "reading", "compiled" or the error code
    read                \* words read so far

code == <<frags, sequence>>
tables == <<runtime, variables, callbacks, strings>>
vars == <<code, cf, words, tables, defining, ret, read>>

Last(s) == s[Len(s)]
Front(s) == SubSeq(s, 1, Len(s) - 1)
Elems(s) == {s[k] : k \in DOMAIN s}

(* m4_compile starts from empty arrays and the ENTRY fragment.             *)
Init ==
    /\ frags = <<[op |-> "ENTRY", param |-> 0, inWord |-> FALSE]>>
    /\ sequence = <<1>>
    /\ cf = <<>> /\ words = <<>> /\ runtime = <<>> /\ variables = <<>>
    /\ callbacks = <<>> /\ strings = <<>> /\ defining = FALSE
    /\ ret = "reading" /\ read = 0

-----------------------------------------------------------------------------
(* Name tables and fragments.                                              *)

(* find_nstring, on a table of names; 0 is its -1.                         *)
Find(table, n) ==
    IF n \in Elems(table)
    THEN CHOOSE k \in DOMAIN table : table[k] = n /\ \A m \in 1..(k-1) : table[m] # n
    ELSE 0

WordNames == [k \in DOMAIN words |-> words[k].name]

(* A word that names a defined word or a variable means that, even when it *)
(* is also a builtin or an intrinsic: those tables are looked up first.    *)
Known(w) == w \in Elems(WordNames) \cup Elems(variables)

Intern(table, n) == IF n \in Elems(table) THEN table ELSE Append(table, n)

Frag(o, p) == [op |-> o, param |-> p, inWord |-> defining]

(* sequence_helper for each of `new`: create the fragments and place them. *)
Emit(new) ==
    /\ frags' = frags \o new
    /\ sequence' = sequence \o [k \in 1..Len(new) |-> Len(frags) + k]

Emit1(o, p) == Emit(<<Frag(o, p)>>)

Defining == Last(words)

Top == IF cf = <<>> THEN [type |-> "none", frag |-> 0] ELSE Last(cf)

(* Fault: any open construct counts as a loop.                             *)
OpenConstructs == Cardinality(DOMAIN cf)

(* The loops a word of the source stands in, by the control-flow stack.    *)
OpenLoops == Cardinality({k \in DOMAIN cf : cf[k].type = "DO"})

-----------------------------------------------------------------------------
(* The RASSERTs in front of each word, in their order: <<holds, code>>.    *)

(* Fault: a word already left to the runtime may still be declared.        *)
NewNameUnlessDeclared(n) ==
    << <<n # NoName, "EARLY_END_OF_SOURCE">>,
       <<n \notin Elems(WordNames), "WORD_REDEFINED">>,
       <<n \notin Elems(variables), "VARIABLE_OR_CONSTANT_REDEFINED">> >>

(* The table a name to be declared must not be in yet.                     *)
NewName(n) ==
    << <<n # NoName, "EARLY_END_OF_SOURCE">>,
       <<n \notin Elems(WordNames), "WORD_REDEFINED">>,
       <<n \notin Elems(runtime), "WORD_USED_BEFORE_DEFINED">>,
       <<n \notin Elems(variables), "VARIABLE_OR_CONSTANT_REDEFINED">> >>

(* Fault: a terminator does not look at what it terminates.                *)
ClosesAnything(types) == << <<cf # <<>>, "UNEXPECTED_CONTROL_FLOW_TERMINATOR">> >>

Closes(types) ==
    << <<cf # <<>>, "UNEXPECTED_CONTROL_FLOW_TERMINATOR">>,
       <<Top.type \in types, "WRONG_TERMINATOR_FOR_THIS_CONTROL_FLOW">> >>

InWordOnly == << <<defining, "NOT_ALLOWED_OUTSIDE_WORD">> >>
MainOnly == << <<~defining, "NOT_ALLOWED_INSIDE_WORD">> >>
(* Fault: a definition may begin or end inside a construct.                *)
Unbalanced == <<>>

Balanced == << <<cf = <<>>, "UNTERMINATED_CONTROL_FLOW">> >>
Complete(n) == << <<n # NoName, "EARLY_END_OF_SOURCE">> >>
Ticked(n) ==
    Append(Complete(n), <<n \in Elems(WordNames), "TICK_COULD_NOT_FIND_DEFINED_WORD">>)

CallbackReady(n) ==
    LET k == Find(WordNames, n)
        s == IF k = 0 THEN <<>> ELSE words[k].sig
    IN  << <<k \in Elems(callbacks)
             \/ (s # <<>> /\ s[1] \in 1..8 /\ s[2] <= 1),
             "INVALID_PARENTHESIS_FOR_C_CALLBACK">> >>

BelowTop == IF Len(cf) < 2 THEN "none" ELSE cf[Len(cf) - 1].type

Checks(w, n) ==
    CASE w = "i" -> << <<OpenLoops >= 1, "LOOP_INDEX_USED_OUTSIDE_LOOP">> >>
      [] w = "j" -> << <<OpenLoops >= 2, "LOOP_INDEX_USED_OUTSIDE_LOOP">> >>
      [] w = ":" -> MainOnly \o NewName(n) \o Balanced
      [] w = ";" -> << <<defining, "UNEXPECTED_SEMICOLON">> >> \o Balanced
      [] w \in {"exit", "recurse"} -> InWordOnly
      [] w \in {"(", ".\"", "s\""} -> Complete(n)
      [] w \in {"variable", "constant"} -> MainOnly \o NewName(n)
      [] w = "then" -> Closes({"IF", "ELSE"})
      [] w = "else" -> Closes({"IF"})
      [] w = "loop" -> Closes({"DO"})
      [] w \in {"until", "while", "again"} -> Closes({"BEGIN"})
      [] w = "repeat" ->
            Closes({"WHILE"}) \o
            << <<Len(cf) > 1, "UNEXPECTED_CONTROL_FLOW_TERMINATOR">>,
               <<BelowTop = "BEGIN", "WRONG_TERMINATOR_FOR_THIS_CONTROL_FLOW">> >>
      [] w = "'" -> Ticked(n)
      [] w = "c'" -> Ticked(n) \o CallbackReady(n)
      [] OTHER -> <<>>

Failing(w, n) == {k \in DOMAIN Checks(w, n) : ~Checks(w, n)[k][1]}

(* The next word of the source is w: the lookups before it found nothing.  *)
Reads(w) ==
    /\ ret = "reading" /\ read < MaxWords /\ w \in Vocabulary

Accepts(w, n) ==
    /\ Reads(w) /\ ~Known(w) /\ Failing(w, n) = {}
    /\ read' = read + 1
    /\ UNCHANGED ret

(* The label end of m4_compile after an error: every array is freed.       *)
Abandon(error) ==
    /\ frags' = <<>> /\ sequence' = <<>>
    /\ cf' = <<>> /\ words' = <<>> /\ runtime' = <<>> /\ variables' = <<>>
    /\ callbacks' = <<>> /\ strings' = <<>> /\ defining' = FALSE
    /\ ret' = error /\ read' = 0

(* The first RASSERT that does not hold gives the error code.              *)
Fail(w, n) ==
    /\ Reads(w) /\ ~Known(w) /\ Failing(w, n) # {}
    /\ LET first == CHOOSE k \in Failing(w, n) : \A m \in Failing(w, n) : k <= m
       IN  Abandon(Checks(w, n)[first][2])

-----------------------------------------------------------------------------
(* Names.                                                                  *)

UseName(w) ==
    /\ Reads(w) /\ Known(w)
    /\ LET k == Find(WordNames, w)
       IN  IF k # 0 THEN Emit1("DEFINED_WORD", words[k].frag)
           ELSE Emit1("USE_VARIABLE_OR_CONSTANT", Find(variables, w))
    /\ read' = read + 1
    /\ UNCHANGED <<cf, words, tables, defining, ret>>

UseBuiltin(w) ==
    /\ w \in Builtins /\ Accepts(w, NoName)
    /\ Emit1("BUILTIN_WORD", CASE w = "i" -> 15 [] w = "j" -> 16 [] OTHER -> 1)
    /\ UNCHANGED <<cf, words, tables, defining>>

(* Fault: the index is taken before the name is entered.                   *)
UseRuntimeEarly(w) ==
    /\ w \notin Builtins \cup Keywords /\ Accepts(w, NoName)
    /\ runtime' = Intern(runtime, w)
    /\ Emit1("RUNTIME_WORD", Find(runtime, w))
    /\ UNCHANGED <<cf, words, variables, callbacks, strings, defining>>

UseRuntime(w) ==
    /\ w \notin Builtins \cup Keywords /\ Accepts(w, NoName)
    /\ runtime' = Intern(runtime, w)
    /\ Emit1("RUNTIME_WORD", Find(runtime', w))
    /\ UNCHANGED <<cf, words, variables, callbacks, strings, defining>>

(* Words that add one fragment, or none.                                   *)
PlainOps == [w \in {"execute", "thread-create", "thread-join", "1"} |->
    CASE w = "execute" -> "EXECUTE"
      [] w = "thread-create" -> "THREAD_CREATE"
      [] w = "thread-join" -> "THREAD_JOIN"
      [] OTHER -> "PUSH_LITERAL"]

Plain(w) ==
    /\ w \in DOMAIN PlainOps /\ Accepts(w, NoName)
    /\ Emit1(PlainOps[w], 0)
    /\ UNCHANGED <<cf, words, tables, defining>>

Skip(w) ==
    /\ w \in {"unloop", "\\"} /\ Accepts(w, NoName)
    /\ UNCHANGED <<code, cf, words, tables, defining>>

Recurse ==
    /\ Accepts("recurse", NoName)
    /\ Emit1("DEFINED_WORD", Defining.frag)
    /\ UNCHANGED <<cf, words, tables, defining>>

Declare(w, n) ==
    /\ w \in {"variable", "constant"} /\ Accepts(w, n)
    /\ variables' = Append(variables, n)
    /\ Emit1(IF w = "constant" THEN "DECLARE_CONSTANT" ELSE "DECLARE_VARIABLE",
             Len(variables'))
    /\ UNCHANGED <<cf, words, runtime, callbacks, strings, defining>>

-----------------------------------------------------------------------------
(* Defined words.                                                          *)

Colon(n) ==
    /\ Accepts(":", n)
    /\ defining' = TRUE
    /\ words' = Append(words, [name |-> n, frag |-> Len(frags) + 1,
                               flags |-> {}, sig |-> <<>>])
    /\ Emit(<<[op |-> "DEFINED_WORD_LOCATION", param |-> 0, inWord |-> TRUE]>>)
    /\ UNCHANGED <<cf, tables>>

UsesLr(o) == o \in {"DEFINED_WORD", "RUNTIME_WORD", "EXECUTE", "THREAD_CREATE",
                    "THREAD_JOIN"}

(* Fault: the scan begins one fragment too far back.                       *)
CallsBeforeLast ==
    LET stops == {k \in DOMAIN sequence :
                    k = Defining.frag \/ frags[sequence[k]].op = "EXIT_WORD"}
        stop == CHOOSE k \in stops : \A m \in stops : m <= k
    IN  \E k \in stop..(Len(sequence) - 1) : k # stop /\ UsesLr(frags[sequence[k]].op)

(* update_defined_word_nested_call_param: the backward scan from the       *)
(* EXIT_WORD just added stops at the word's start, which it knows by the   *)
(* fragment's index, or at an earlier EXIT_WORD.                           *)
CallsSinceExit ==
    LET stops == {k \in DOMAIN sequence :
                    k = Defining.frag \/ frags[sequence[k]].op = "EXIT_WORD"}
        stop == CHOOSE k \in stops : \A m \in stops : m <= k
    IN  \E k \in stop..Len(sequence) : k # stop /\ UsesLr(frags[sequence[k]].op)

Flag(which) == words' = [words EXCEPT ![Len(words)].flags = @ \cup which]

CallsFlag == IF TracksLr /\ CallsSinceExit THEN {"calls"} ELSE {}

Exit ==
    /\ Accepts("exit", NoName)
    /\ Emit1("EXIT_WORD", Defining.frag)
    /\ Flag(CallsFlag \cup IF OpenLoops > 0 THEN {"loops"} ELSE {})
    /\ UNCHANGED <<cf, tables, defining>>

Semicolon ==
    /\ Accepts(";", NoName)
    /\ Emit1("EXIT_WORD", Defining.frag)
    /\ Flag(CallsFlag)
    /\ defining' = FALSE
    /\ UNCHANGED <<cf, tables>>

Capped(count, most) == IF count > most THEN most ELSE count

(* Fault: any comment of a definition is taken for its signature.          *)
InWord == defining

(* A comment directly behind the name of a word is its signature.          *)
AtWordStart ==
    defining /\ frags[Last(sequence)].op = "DEFINED_WORD_LOCATION"

Comment(s) ==
    /\ Accepts("(", s)
    /\ words' = IF AtWordStart
                THEN [words EXCEPT ![Len(words)].sig =
                        <<Capped(s[1], 31), Capped(s[2], 3)>>]
                ELSE words
    /\ UNCHANGED <<code, cf, tables, defining>>

Tick(n) ==
    /\ Accepts("'", n)
    /\ Emit1("PUSH_OFFSET_ADDRESS", words[Find(WordNames, n)].frag)
    /\ UNCHANGED <<cf, words, tables, defining>>

CTick(n) ==
    /\ Accepts("c'", n)
    /\ callbacks' = Intern(callbacks, Find(WordNames, n))
    /\ Emit1("PUSH_CALLBACK", Find(callbacks', Find(WordNames, n)))
    /\ UNCHANGED <<cf, words, runtime, variables, strings, defining>>

(* Fault: the terminating zeros are not counted.                           *)
OffsetUnterminated(data, k) ==
    LET upTo[m \in 0..Len(data)] ==
            IF m = 0 THEN 0 ELSE upTo[m - 1] + Length(data[m])
    IN  upTo[k - 1]

(* Bytes of the data segment in front of its k-th string.                  *)
Offset(data, k) ==
    LET upTo[m \in 0..Len(data)] ==
            IF m = 0 THEN 0 ELSE upTo[m - 1] + Length(data[m]) + 1
    IN  upTo[k - 1]

(* A dot-quote ends in the runtime word type, whatever type means here.    *)
String(w, s) ==
    /\ w \in {".\"", "s\""} /\ Accepts(w, s)
    /\ strings' = Intern(strings, s)
    /\ runtime' = IF w = ".\"" THEN Intern(runtime, "type") ELSE runtime
    /\ Emit(<<Frag("PUSH_DATA_ADDRESS", Offset(strings', Find(strings', s))),
              Frag("PUSH_LITERAL", Length(s))>> \o
            IF w = ".\"" THEN <<Frag("RUNTIME_WORD", Find(runtime', "type"))>>
            ELSE <<>>)
    /\ UNCHANGED <<cf, words, variables, callbacks, defining>>

-----------------------------------------------------------------------------
(* Control flow.                                                           *)

Here == Len(frags) + 1      \* the index the next fragment gets

Pending == Frag("BRANCH_LOCATION", 0)

Control(w) == Accepts(w, NoName) /\ UNCHANGED <<words, tables, defining>>

Push(t, f) == cf' = Append(cf, [type |-> t, frag |-> f])

(* if and while: the branch is placed, its target is not.                  *)
Forward(w, t) ==
    /\ Control(w)
    /\ frags' = frags \o <<Pending, Frag("BRANCH_IF_ZERO", Here)>>
    /\ sequence' = Append(sequence, Here + 1)
    /\ Push(t, Here)

If == Forward("if", "IF")
While == Forward("while", "WHILE")

Then ==
    /\ Control("then")
    /\ sequence' = Append(sequence, Top.frag)
    /\ cf' = Front(cf)
    /\ UNCHANGED frags

Else ==
    /\ Control("else")
    /\ frags' = frags \o <<Pending, Frag("BRANCH", Here)>>
    /\ sequence' = sequence \o <<Here + 1, Top.frag>>
    /\ cf' = Append(Front(cf), [type |-> "ELSE", frag |-> Here])

Begin ==
    /\ Control("begin")
    /\ Emit(<<Pending>>)
    /\ Push("BEGIN", Here)

Do ==
    /\ Control("do")
    /\ Emit(<<Frag("DO", 0), Pending>>)
    /\ Push("DO", Here + 1)

(* Fault: the branch names the end of the code instead of its start.       *)
BackwardToEnd(w, o) ==
    /\ Control(w)
    /\ Emit1(o, Len(sequence))
    /\ cf' = Front(cf)

(* loop, until and again: a backward branch to the construct's start.      *)
Backward(w, o) ==
    /\ Control(w)
    /\ Emit1(o, Top.frag)
    /\ cf' = Front(cf)

Loop == Backward("loop", "LOOP")
Until == Backward("until", "BRANCH_IF_ZERO")
Again == Backward("again", "BRANCH")

(* Fault: repeat leaves the target of its while unplaced.                  *)
RepeatUnplaced ==
    /\ Control("repeat")
    /\ frags' = Append(frags, Frag("BRANCH", cf[Len(cf) - 1].frag))
    /\ sequence' = Append(sequence, Here)
    /\ cf' = Front(Front(cf))

Repeat ==
    /\ Control("repeat")
    /\ frags' = Append(frags, Frag("BRANCH", cf[Len(cf) - 1].frag))
    /\ sequence' = sequence \o <<Here, Top.frag>>
    /\ cf' = Front(Front(cf))

-----------------------------------------------------------------------------
(* The end of the source.                                                  *)

(* Fault: the fragments stay in the order of the source.                   *)
InSourceOrder(fs, s) == s

(* The main program moves in front of the defined words; both keep their   *)
(* order.  The fragment at m comes no later than the one at k.             *)
NoLater(fs, s, m, k) ==
    IF fs[s[m]].inWord = fs[s[k]].inWord THEN m <= k ELSE fs[s[k]].inWord

Place(fs, s, k) == Cardinality({m \in DOMAIN s : NoLater(fs, s, m, k)})

MainFirst(fs, s) ==
    LET place == [k \in DOMAIN s |-> Place(fs, s, k)]
    IN  [i \in DOMAIN s |-> s[CHOOSE k \in DOMAIN s : place[k] = i]]

Finish ==
    /\ ret = "reading" /\ ~defining /\ cf = <<>>
    /\ frags' = Append(frags, Frag("HALT", 0))
    /\ sequence' = MainFirst(frags', Append(sequence, Here))
    /\ ret' = "compiled"
    /\ UNCHANGED <<cf, words, tables, defining, read>>

FinishEarly ==
    /\ ret = "reading" /\ (defining \/ cf # <<>>)
    /\ Abandon("EARLY_END_OF_SOURCE")

Next ==
    \/ \E w \in Vocabulary : UseName(w) \/ UseBuiltin(w) \/ UseRuntime(w) \/ Plain(w) \/ Skip(w)
    \/ \E w \in Vocabulary, n \in Names : Declare(w, n)
    \/ \E n \in Names : Colon(n) \/ Tick(n) \/ CTick(n)
    \/ Semicolon \/ Exit \/ Recurse
    \/ \E s \in Signatures : Comment(s)
    \/ \E w \in Vocabulary, s \in Strings : String(w, s)
    \/ If \/ Then \/ Else \/ Do \/ Loop \/ Begin \/ Until \/ While \/ Repeat \/ Again
    \/ \E w \in Vocabulary, n \in Names \cup {NoName} : Fail(w, n)
    \/ Finish \/ FinishEarly

Spec == Init /\ [][Next]_vars

-----------------------------------------------------------------------------
(* Properties.                                                             *)

FragmentsWith(ops) == {f \in DOMAIN frags : frags[f].op \in ops}

(* What a fragment's param may refer to: the backends look it up without   *)
(* a check.                                                                *)
Operands(o) ==
    CASE o \in {"DEFINED_WORD", "PUSH_OFFSET_ADDRESS", "EXIT_WORD"} ->
            FragmentsWith({"DEFINED_WORD_LOCATION"})
      [] o \in {"BRANCH", "BRANCH_IF_ZERO", "LOOP"} -> FragmentsWith({"BRANCH_LOCATION"})
      [] o \in {"USE_VARIABLE_OR_CONSTANT", "DECLARE_CONSTANT", "DECLARE_VARIABLE"} ->
            DOMAIN variables
      [] o = "RUNTIME_WORD" -> DOMAIN runtime
      [] o = "PUSH_CALLBACK" -> DOMAIN callbacks
      [] OTHER -> Nat

(* Every table has its shape, and no fragment refers to an entry that a    *)
(* table does not have.                                                    *)
TypeOK ==
    /\ \A f \in DOMAIN frags : /\ frags[f].param \in Operands(frags[f].op)
                               /\ frags[f].inWord \in BOOLEAN
    /\ Elems(sequence) \subseteq DOMAIN frags
    /\ \A k \in DOMAIN cf : /\ cf[k].type \in {"IF", "ELSE", "DO", "BEGIN", "WHILE"}
                            /\ cf[k].frag \in FragmentsWith({"BRANCH_LOCATION"})
    /\ \A k \in DOMAIN words : /\ words[k].frag \in FragmentsWith({"DEFINED_WORD_LOCATION"})
                               /\ words[k].flags \subseteq {"calls", "loops"}
    /\ Elems(callbacks) \subseteq DOMAIN words
    /\ Elems(strings) \subseteq Strings
    /\ defining \in BOOLEAN /\ read \in 0..MaxWords

(* No fragment is emitted twice, and the ones not emitted yet are exactly  *)
(* the targets the open if, else and while constructs still owe.  So an    *)
(* accepted source leaves none out: a branch never has a target without a  *)
(* position.                                                               *)
Placement ==
    /\ Cardinality(Elems(sequence)) = Len(sequence)
    /\ DOMAIN frags \ Elems(sequence) =
         {cf[k].frag : k \in {m \in DOMAIN cf : cf[m].type \in {"IF", "ELSE", "WHILE"}}}

(* While the source is read, a word's location fragment is emitted at the  *)
(* place that has its own index.  The scan of compile.c:347-356 walks down *)
(* sequence indexes and ends at a fragment index: if they differed it      *)
(* would run past the word, or below the array.                            *)
WordIndexAgrees ==
    ret = "reading" => \A k \in DOMAIN words :
        words[k].frag \in DOMAIN sequence /\ sequence[words[k].frag] = words[k].frag

(* A while stands on its begin: the last two RASSERTs of repeat cannot     *)
(* fail, whatever is opened and closed in between.                         *)
WhileOnBegin ==
    \A k \in DOMAIN cf : cf[k].type = "WHILE" => k > 1 /\ cf[k - 1].type = "BEGIN"

(* The emitted code, read back by position.                                *)
Op(k) == frags[sequence[k]].op
Param(k) == frags[sequence[k]].param
Position(f) == CHOOSE k \in DOMAIN sequence : sequence[k] = f

(* Where the word, or the main program, that position k is in begins.      *)
Starts == {k \in DOMAIN sequence : Op(k) \in {"ENTRY", "DEFINED_WORD_LOCATION"}}
Region(k) == CHOOSE s \in Starts : s <= k /\ \A m \in Starts : m <= k => m <= s

(* Loops entered and not left in front of position k, by the opcodes.      *)
Before(k, o) == Cardinality({m \in Region(k)..k : m # k /\ Op(m) = o})
Depth(k) == Before(k, "DO") - Before(k, "LOOP")

Branches == {k \in DOMAIN sequence : Op(k) \in {"BRANCH", "BRANCH_IF_ZERO", "LOOP"}}

(* Accepted code is structured: a branch stays in its word or in the main  *)
(* program and arrives at the loop depth it left from, so the loop         *)
(* parameters the engines keep per DO are balanced on every path but an    *)
(* exit; loop closes a do; and i and j stand inside one and two loops.     *)
Structured ==
    ret = "compiled" => \A k \in DOMAIN sequence :
        /\ k \in Branches =>
             LET t == Position(Param(k))
             IN  /\ Region(t) = Region(k)
                 /\ Before(t, "DO") - Before(t, "LOOP") = Depth(k)
                 /\ Op(k) = "LOOP" => Op(t - 1) = "DO"
        /\ Op(k) = "BUILTIN_WORD" /\ Param(k) = 15 => Depth(k) >= 1
        /\ Op(k) = "BUILTIN_WORD" /\ Param(k) = 16 => Depth(k) >= 2

(* The main program runs from ENTRY to HALT in front of all words, and     *)
(* each word from its location to an EXIT_WORD at loop depth 0 that names  *)
(* it: execution cannot fall out of one word into the next.                *)
Regions ==
    ret = "compiled" =>
        /\ Op(1) = "ENTRY"
        /\ \A k \in DOMAIN sequence :
            /\ Op(k) = "EXIT_WORD" => Param(k) = sequence[Region(k)]
            /\ k = Len(sequence) \/ (k + 1) \in Starts =>
                 /\ Op(k) = IF Region(k) = 1 THEN "HALT" ELSE "EXIT_WORD"
                 /\ Depth(k) = 0

(* The flags the ESP32-S3 backend chooses a word's prologue by are exact:  *)
(* "calls" when something in the word overwrites the link register, even   *)
(* in front of or behind an early exit, "loops" when an exit leaves from   *)
(* inside a loop.                                                          *)
FlagsExact ==
    ret = "compiled" => \A n \in DOMAIN words :
        LET body == {k \in DOMAIN sequence : sequence[Region(k)] = words[n].frag}
        IN  /\ "calls" \in words[n].flags <=>
                    TracksLr /\ \E k \in body : UsesLr(Op(k))
            /\ "loops" \in words[n].flags <=>
                    \E k \in body : Op(k) = "EXIT_WORD" /\ Depth(k) > 0

(* What a name of the source stands for.                                   *)
Meaning(n) ==
    CASE n \in Elems(WordNames) -> <<"word", Find(WordNames, n)>>
      [] n \notin Elems(WordNames) /\ n \in Elems(variables) ->
            <<"variable", Find(variables, n)>>
      [] ~Known(n) /\ n \in Builtins \cup Keywords -> <<"built in", 0>>
      [] OTHER -> <<"runtime", Find(runtime, n)>>

(* A name that was given a meaning by the source, as a word, a variable or *)
(* a word left to the runtime, keeps it to the end: code compiled before a *)
(* definition never means something else than the same text behind it.     *)
NameKeepsMeaning ==
    [][\A n \in Vocabulary :
        (Meaning(n)[2] # 0 /\ ret' \in {"reading", "compiled"}) =>
            Meaning(n)' = Meaning(n)]_vars

(* The signature the header dumps for a callback is one that c' accepts: a *)
(* stack comment later in the source cannot change it any more.            *)
CallbackSignatures ==
    \A k \in Elems(callbacks) :
        words[k].sig # <<>> /\ words[k].sig[1] \in 1..8 /\ words[k].sig[2] <= 1

(* A string literal pushes an address and the length that belongs to it,   *)
(* side by side also after the main program has moved, and two literals    *)
(* share their bytes, terminating zero included, entirely or not at all.   *)
StringAddresses ==
    LET pushes == {k \in DOMAIN sequence : Op(k) = "PUSH_DATA_ADDRESS"}
        bytes(k) == Param(k)..(Param(k) + Param(k + 1))
    IN  \A k, m \in pushes :
            /\ Op(k + 1) = "PUSH_LITERAL" /\ Region(k + 1) = Region(k)
            /\ bytes(k) = bytes(m) \/ bytes(k) \cap bytes(m) = {}

=============================================================================
