------------------------------ MODULE MCLayout ------------------------------
(***************************************************************************)
(* Programs for the layout: the control structures of Forth, nested where  *)
(* one branch lies across another, with fillings around the limits of the  *)
(* encodings.                                                              *)
(***************************************************************************)
EXTENDS Layout

Fill(n) == [op |-> "FILL", to |-> 0, bytes |-> n]
Jump(o, k) == [op |-> o, to |-> k, bytes |-> 0]
Here == [op |-> "BRANCH_LOCATION", to |-> 0, bytes |-> 0]
Word == [op |-> "DEFINED_WORD_LOCATION", to |-> 0, bytes |-> 0]

(* if a if b then c then *)
IfIf(a, b, c) == <<Jump("BRANCH_IF_ZERO", 7), Fill(a), Jump("BRANCH_IF_ZERO", 5), Fill(b),
                   Here, Fill(c), Here, Fill(4)>>
(* a if b else c then *)
IfElse(a, b, c) == <<Fill(a), Jump("BRANCH_IF_ZERO", 5), Fill(b), Jump("BRANCH", 7), Here,
                     Fill(c), Here, Fill(4)>>
(* begin a while b repeat *)
BeginWhile(a, b, c) == <<Fill(c), Here, Fill(a), Jump("BRANCH_IF_ZERO", 7), Fill(b),
                         Jump("BRANCH", 2), Here, Fill(4)>>
(* do begin a until b loop *)
DoUntil(a, b, c) == <<Fill(13), Here, Fill(c), Here, Fill(a), Jump("BRANCH_IF_ZERO", 4),
                      Fill(b), Jump("LOOP", 2), Fill(4)>>
(* c ' w a w b if w: ... exit *)
TickCall(a, b, c) == <<Fill(c), Jump("PUSH_OFFSET_ADDRESS", 6), Fill(a),
                       Jump("DEFINED_WORD", 6), Fill(4), Word, Fill(b),
                       Jump("PUSH_OFFSET_ADDRESS", 6), Fill(2)>>

Around == {0, 2, 17, 48, 51, 54, 58, 60, 61, 63, 64, 112, 115, 118, 121, 124, 126}
Far == {0, 3, 1990, 2035, 2047}
VeryFar == {0, 61, 8130, 8180, 8184, 8190}

Control(S) == UNION {{IfIf(a, b, c), IfElse(a, b, c), BeginWhile(a, b, c),
                      DoUntil(a, b, c)} : <<a, b, c>> \in S}
Ticks(S) == {TickCall(a, b, c) : <<a, b, c>> \in S}

AllPrograms ==
    Control((Around \X Around \X {0, 5, 60}) \cup (Far \X {0, 51} \X {0, 3})
             \cup (VeryFar \X {0, 8} \X {0}))
    \cup Ticks((Around \X Around \X {0, 4, 5, 60}) \cup ({0, 1900, 1990} \X {0, 51} \X {0, 3}))

ShortPrograms == Control({0, 2, 110, 118, 124} \X {0, 2, 4} \X {0, 2, 4})
=============================================================================
