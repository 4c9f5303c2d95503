------------------------------ MODULE MCBinary ------------------------------
(* Small programs around the limits of the number format, and memory of    *)
(* just the size they need, one byte less and some more.                   *)
EXTENDS Binary

(* Runtime words, spelled as in a runtime library and otherwise. *)
Emit == <<101, 109>>
EMIT == <<69, 109>>
Key == <<107>>

Arrays == {<<>>, << <<Key, Emit>> >>, << <<>>, <<Key>>, <<>>, <<Emit, Key>> >>}

(* The last number of each encoded size and the first of the next. *)
Limits == <<0, 63, 64, 8191, 8192, 1048575, 1048576, 134217727, 134217728,
            2147483647>>
Push(n) == [op |-> "PUSH_LITERAL", param |-> n, width |-> 0]
Numbers == [i \in 1..Len(Limits) |-> Push(Limits[i])]
             \o [i \in 1..Len(Limits) |-> Push(-1 - Limits[i])]
Op(op) == [op |-> op, param |-> 0, width |-> 0]
Builtin(n) == [op |-> "BUILTIN_WORD", param |-> n, width |-> 0]
Jump(op, n, w) == [op |-> op, param |-> n, width |-> w]

(* Three words that C code may call, in front of and behind the numbers. *)
Words == <<Op("ENTRY"), Jump("DEFINED_WORD", 3, 1), Op("HALT"),
           Op("DEFINED_WORD_LOCATION"), Builtin(41), Builtin(42), Builtin(69),
           Op("EXIT_WORD")>>
         \o Numbers
         \o <<Op("DEFINED_WORD_LOCATION"), Op("DO"), Op("BRANCH_LOCATION"),
              Jump("BRANCH", -1, 2), Jump("LOOP", 63, 3),
              Jump("BRANCH_IF_ZERO", -64, 1), Op("EXIT_WORD"),
              Op("DEFINED_WORD_LOCATION"),
              Jump("PUSH_OFFSET_ADDRESS", 64, 2), Op("EXIT_WORD")>>
Position(code, i) == Total(fragment_bin_size, SubSeq(code, 1, i))
First == [params |-> 1, results |-> 0, position |-> Position(Words, 4)]
Second == [params |-> 31, results |-> 2, position |-> Position(Words, 29)]
Third == [params |-> 2, results |-> 1, position |-> Position(Words, 36)]

Sources ==
  {[variables |-> 0, words |-> <<>>, data |-> <<>>, callbacks |-> <<>>,
    literals |-> <<>>, code |-> <<Op("HALT")>>],
   [variables |-> 1, words |-> <<EMIT, Key>>, data |-> << <<104, 105>>, <<>> >>,
    callbacks |-> <<Second>>, literals |-> << <<1, 2, 3, 4>> >>, code |-> Words],
   [variables |-> 64, words |-> <<Key>>, data |-> << [i \in 1..63 |-> 33] >>,
    callbacks |-> <<Second, First>>, literals |-> <<>>, code |-> Words],
   [variables |-> 2, words |-> <<Emit>>, data |-> <<>>,
    callbacks |-> <<Third, First, Second>>,
    literals |-> << <<0, 0, 0, 1>>, <<255, 255, 255, 255>> >>,
    code |-> Words]}

MCJobs ==
  {[source |-> s, engine |-> e, arrays |-> a, slots |-> n, base |-> b,
    len |-> Needed(s, e, b) + extra, code |-> c] :
     s \in Sources, e \in {"vm", "x86_32", "esp32s3"}, a \in Arrays,
     n \in {1, 8}, b \in {0, 3}, extra \in {-264, -13, -1, 0, 1}, c \in {NoCopy, 4096}}

=============================================================================
