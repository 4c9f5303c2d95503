---------------------------- MODULE EnginesProofs ---------------------------
(***************************************************************************)
(* The engines do what the abstract Forth machine does. The auxiliary      *)
(* variable frames records the calls that are open; the invariant says     *)
(* that every frame has on the return stack, in the base and in the link   *)
(* register what its call and the location of its word have put there,     *)
(* that the machine in front of a fragment becomes a machine within its    *)
(* memory once the chores left out are made up for, and that variables     *)
(* hold cells. Every action of Engines keeps it and is a step of           *)
(* ForthMachine under the mapping of Engines.                              *)
(***************************************************************************)
EXTENDS Engines, NativeProofs, NaturalsInduction, WellFoundedInduction

-----------------------------------------------------------------------------
(* The state by its parts: a task t with fragment pc to come, a return     *)
(* stack R, frames F, the calls by C that are open N.                      *)
CodeOf(t) == t.program.code
FlagsIn(t, pc) == IF pc \in DOMAIN CodeOf(t) THEN FlagsOf(t.backend, CodeOf(t)[pc]) ELSE {}
WordAt(t, pc) == Forth!WordOf(CodeOf(t), pc)

IsLocation(t, pc) == CodeOf(t)[pc].op = "DEFINED_WORD_LOCATION"
Calling == {"DEFINED_WORD", "EXECUTE", "RUNTIME_WORD"}
Frames == [at : Nat, own : Nat, below : Nat, word : Nat, ret : Nat, base : Int, fromC : BOOLEAN, open : Nat]
FirstFrame == [at |-> 0, own |-> 0, below |-> 0, word |-> 0, ret |-> 0, base |-> 0,
               fromC |-> FALSE, open |-> 0]
ReturnStacks == Seq({"cell", "base", "return"} \X Int)
Top(F) == F[Len(F)]

(* Where frame i ends, and where it goes on or is.                         *)
EndOf(F, R, i) == IF i < Len(F) THEN F[i + 1].at ELSE Len(R)
PlaceOf(F, pc, i) == IF i < Len(F) THEN F[i + 1].ret - 1 ELSE pc

(* Behind the location of its word a frame has saved what it must.         *)
SavesBase(t, f, p) == p # f.word /\ Forth!Loops(CodeOf(t), f.word)
SavesLr(t, f, p) == p # f.word /\ CallsAny(CodeOf(t), f.word)
Address(f) == IF f.fromC THEN ToC ELSE f.ret
Entered(f) == IF f.fromC THEN Junk ELSE f.base
OpenedBy(f) == f.open + (IF f.fromC THEN 1 ELSE 0)

(* What the call and the word's location saved.                            *)
Header(b, f, saved, link) ==
    LET atBase == IF saved THEN <<<<"base", Entered(f)>>>> ELSE <<>>
        atLr == IF link THEN <<<<"return", Address(f)>>>> ELSE <<>>
    IN  CASE b = "vm" -> <<<<"base", f.base>>, <<"return", Address(f)>>>>
          [] b = "x86_32" -> <<<<"return", Address(f)>>>> \o atBase
          [] b = "esp32s3" -> atBase \o atLr
HeaderOf(t, f, p) == Header(t.backend, f, SavesBase(t, f, p), SavesLr(t, f, p))

(* The base that the code of a frame counts on.                            *)
BaseIn(b, f, saved) ==
    IF f = FirstFrame THEN 0
    ELSE CASE b = "vm" -> f.at + 2
           [] b = "x86_32" -> IF saved THEN f.at + 2 ELSE Entered(f)
           [] b = "esp32s3" -> IF saved THEN f.at ELSE Entered(f)
BaseOf(t, f, p) == BaseIn(t.backend, f, SavesBase(t, f, p))

(* A frame holds its header and the word's own cells, and is in its word.  *)
Holds(t, f, p, R, e) ==
    /\ p \in DOMAIN CodeOf(t) /\ WordAt(t, p) = f.word
    /\ f.own <= e /\ \A j \in (f.own + 1)..e : R[j] \in {"cell"} \X Cell
    /\ IF f = FirstFrame THEN TRUE
       ELSE /\ f.word # 0 /\ f.ret # 0
            /\ f.own = f.at + Len(HeaderOf(t, f, p))
            /\ \A j \in 1..Len(HeaderOf(t, f, p)) : R[f.at + j] = HeaderOf(t, f, p)[j]
    /\ f.own <= f.below /\ (t.backend = "vm" => f.own = f.below)
    /\ f.base \in {Junk} \cup 0..f.at

(* Frame g is of a call in frame f.                                        *)
CalledBy(t, g, f) ==
    /\ g.ret - 1 \in DOMAIN CodeOf(t) /\ CodeOf(t)[g.ret - 1].op \in Calling
    /\ g # FirstFrame
    /\ g.below = f.below + (g.at - f.own) + 2
    /\ g.base = BaseOf(t, f, g.ret - 1)
    /\ g.open = OpenedBy(f)

FramesOK(t, pc, R, F) ==
    /\ F \in Seq(Frames) /\ Len(F) >= 1 /\ F[1] = FirstFrame
    /\ R \in ReturnStacks
    /\ \A i \in 1..Len(F) : Holds(t, F[i], PlaceOf(F, pc, i), R, EndOf(F, R, i))
    /\ \A i \in 1..(Len(F) - 1) : CalledBy(t, F[i + 1], F[i])
    /\ \A i, j \in 1..Len(F) : i <= j => F[i].at <= F[j].at
    /\ Top(F).below + (Len(R) - Top(F).own) <= MaxCells
    /\ IsLocation(t, pc) => Len(R) = Top(F).own

NativeOK(F, N) ==
    /\ N \in Seq([next : Nat, base : Int])
    /\ Len(N) = OpenedBy(Top(F))
    /\ \A i, j \in 1..Len(F) : i < j => OpenedBy(F[i]) <= F[j].open
    /\ \A i \in 1..Len(F) : F[i].fromC => N[OpenedBy(F[i])] = [next |-> F[i].ret, base |-> F[i].base]

(* On the ESP32-S3 the link register holds what is not saved.              *)
LinkOK(t, pc, link, kept, F) ==
    t.backend = "esp32s3" =>
        /\ pc = 1 => Len(F) = 1 /\ link = Host
        /\ pc # 1 => kept = Host
        /\ Len(F) > 1 /\ ~SavesLr(t, Top(F), pc) => link = Address(Top(F))

FramesInv ==
    /\ task \in Tasks /\ status \in {"running", "done", "failed"}
    /\ FramesOK(task, k, m.rs, frames)
    /\ base = BaseOf(task, Top(frames), k)
    /\ NativeOK(frames, native)
    /\ LinkOK(task, k, lr, home, frames)

-----------------------------------------------------------------------------
(* The words of a program and the places in them.                            *)

LEMMA Least ==
    ASSUME NEW T \in SUBSET Nat, T # {}
    PROVE  \E a \in T : \A b \in T : a <= b
<1>1. \E a \in T : \A b \in T : ~ (<<b, a>> \in OpToRel(<, Nat))
  BY NatLessThanWellFounded, WFMin
<1>2. PICK a \in T : \A b \in T : ~ (<<b, a>> \in OpToRel(<, Nat))
  BY <1>1
<1>3. \A b \in T : ~ (b < a)
  BY <1>2 DEF OpToRel
<1>. QED  BY <1>3

LEMMA Greatest ==
    ASSUME NEW n \in Nat, NEW S \in SUBSET (1..n), S # {}
    PROVE  \E j \in S : \A l \in S : l <= j
<1> DEFINE T == {n - j : j \in S}
<1>1. T \in SUBSET Nat /\ T # {}
  <2>1. PICK j \in S : TRUE
    OBVIOUS
  <2>2. n - j \in T
    OBVIOUS
  <2>3. \A l \in S : n - l \in Nat
    OBVIOUS
  <2> QED
    BY <2>2, <2>3
<1>2. PICK a \in T : \A b \in T : a <= b
  BY <1>1, Least
<1>3. PICK j \in S : a = n - j
  BY <1>2
<1>4. \A l \in S : n - l \in T
  OBVIOUS
<1>5. \A l \in S : a <= n - l
  BY <1>2, <1>4
<1>6. \A l \in S : l <= j
  BY <1>3, <1>5
<1> QED
  BY <1>6

(* The locations up to a fragment, the last of which is its word.          *)
Locations(code, i) == {j \in 1..i : code[j].op = "DEFINED_WORD_LOCATION"}

LastOf(S) == IF S = {} THEN 0 ELSE CHOOSE j \in S : \A l \in S : l <= j

LEMMA WordIs ==
    ASSUME NEW code, NEW i \in Nat
    PROVE  /\ Locations(code, i) = {} => Forth!WordOf(code, i) = 0
           /\ Locations(code, i) # {} => /\ Forth!WordOf(code, i) \in Locations(code, i)
                                         /\ \A l \in Locations(code, i) : l <= Forth!WordOf(code, i)
<1> DEFINE L == Locations(code, i)
           W == CHOOSE j \in L : \A l \in L : l <= j
<1>1. Forth!WordOf(code, i) = IF L = {} THEN 0 ELSE W
  BY Zenon DEF Forth!WordOf, Locations
<1>2. L \in SUBSET (1..i)
  BY DEF Locations
<1> HIDE DEF L
<1>3. L # {} => \E j \in L : \A l \in L : l <= j
  BY <1>2, Greatest
<1>4. L # {} => W \in L /\ \A l \in L : l <= W
  BY <1>3
<1> HIDE DEF W
<1> QED
  BY <1>1, <1>4 DEF L

(* The word a fragment belongs to.                                         *)
LEMMA WordRange ==
    ASSUME NEW code, NEW i \in Nat
    PROVE  /\ Forth!WordOf(code, i) \in 0..i
           /\ Forth!WordOf(code, i) # 0 => code[Forth!WordOf(code, i)].op = "DEFINED_WORD_LOCATION"
           /\ i >= 1 /\ code[i].op = "DEFINED_WORD_LOCATION" => Forth!WordOf(code, i) = i
<1> DEFINE w == Forth!WordOf(code, i)
<1>1. /\ Locations(code, i) = {} => w = 0
      /\ Locations(code, i) # {} => w \in Locations(code, i) /\ \A l \in Locations(code, i) : l <= w
  BY WordIs
<1> HIDE DEF w
<1>2. w \in 0..i
  BY <1>1 DEF Locations
<1>3. w # 0 => code[w].op = "DEFINED_WORD_LOCATION"
  BY <1>1 DEF Locations
<1>4. i >= 1 /\ code[i].op = "DEFINED_WORD_LOCATION" => w = i
  <2> SUFFICES ASSUME i >= 1, code[i].op = "DEFINED_WORD_LOCATION" PROVE w = i
    OBVIOUS
  <2>1. i \in Locations(code, i)
    BY DEF Locations
  <2>2. i <= w
    BY <1>1, <2>1
  <2> QED
    BY <1>2, <2>2
<1> QED
  BY <1>2, <1>3, <1>4 DEF w

(* The next fragment is in the same word, unless it starts one.            *)
LEMMA WordNext ==
    ASSUME NEW code, NEW i \in Nat, code[i + 1].op # "DEFINED_WORD_LOCATION"
    PROVE  Forth!WordOf(code, i + 1) = Forth!WordOf(code, i)
<1>1. Locations(code, i + 1) = Locations(code, i)
  BY DEF Locations
<1>2. \A n : Forth!WordOf(code, n) = LastOf(Locations(code, n))
  BY Zenon DEF Forth!WordOf, LastOf, Locations
<1> QED
  BY <1>1, <1>2, Zenon

-----------------------------------------------------------------------------
(* What TasksAssumption says of a task's program.                          *)
LEMMA TaskShape ==
    ASSUME NEW t \in Tasks
    PROVE  LET code == CodeOf(t)
           IN  /\ t.backend \in {"vm", "x86_32", "esp32s3"}
               /\ Len(code) \in 2..(Half - 1) /\ DOMAIN code = 1..Len(code)
               /\ \A i \in DOMAIN code :
                    LET f == code[i]
                    IN  /\ f.op = "ENTRY" <=> i = 1
                        /\ Forth!Carries(t.program, f)
                        /\ f.op \in {"BRANCH", "BRANCH_IF_ZERO", "LOOP"} => WordAt(t, f.p) = WordAt(t, i)
                        /\ f.op = "EXIT_WORD" => f.p = WordAt(t, i)
                        /\ f.op = "HALT" => WordAt(t, i) = 0
                        /\ f.op \notin {"BRANCH", "EXIT_WORD", "HALT"} =>
                                i < Len(code) /\ code[i + 1].op # "DEFINED_WORD_LOCATION"
               /\ \A c \in DOMAIN t.program.callbacks :
                    /\ t.program.callbacks[c] \in DOMAIN code
                    /\ code[t.program.callbacks[c]].op = "DEFINED_WORD_LOCATION"
<1>1. t.backend \in {"vm", "x86_32", "esp32s3"} /\ Forth!IsProgram(t.program)
  BY TasksAssumption
<1>2. Forth!Half = Half
  BY DEF Forth!Half, Half
<1> QED
  BY <1>1, <1>2, Zenon DEF Forth!IsProgram, CodeOf, WordAt

(* A step within a word, to the next fragment.                             *)
LEMMA NextPlace ==
    ASSUME NEW t \in Tasks, NEW pc \in DOMAIN CodeOf(t), CodeOf(t)[pc].op \notin {"BRANCH", "EXIT_WORD", "HALT"}
    PROVE  /\ pc + 1 \in DOMAIN CodeOf(t) /\ WordAt(t, pc + 1) = WordAt(t, pc) /\ ~IsLocation(t, pc + 1)
           /\ pc \in Nat /\ pc >= 1 /\ pc + 1 # 1
<1>1. /\ DOMAIN CodeOf(t) = 1..Len(CodeOf(t)) /\ Len(CodeOf(t)) \in 2..(Half - 1)
      /\ pc < Len(CodeOf(t)) /\ CodeOf(t)[pc + 1].op # "DEFINED_WORD_LOCATION"
  BY TaskShape, Zenon
<1>2. pc \in Nat /\ pc >= 1 /\ pc + 1 \in DOMAIN CodeOf(t)
  BY <1>1
<1>3. WordAt(t, pc + 1) = WordAt(t, pc)
  BY <1>1, <1>2, WordNext DEF WordAt
<1> QED
  BY <1>1, <1>2, <1>3 DEF IsLocation

(* A step within a word, to the place a fragment carries.                  *)
LEMMA BranchPlace ==
    ASSUME NEW t \in Tasks, NEW pc \in DOMAIN CodeOf(t), CodeOf(t)[pc].op \in {"BRANCH", "BRANCH_IF_ZERO", "LOOP"}
    PROVE  LET to == CodeOf(t)[pc].p
           IN  /\ to \in DOMAIN CodeOf(t) /\ WordAt(t, to) = WordAt(t, pc) /\ ~IsLocation(t, to)
               /\ to # 1 /\ CodeOf(t)[to].op = "BRANCH_LOCATION"
<1> DEFINE f == CodeOf(t)[pc]
<1>1. WordAt(t, f.p) = WordAt(t, pc) /\ Forth!Carries(t.program, f)
  BY TaskShape, Zenon
<1>2. f.p \in DOMAIN CodeOf(t) /\ CodeOf(t)[f.p].op = "BRANCH_LOCATION"
  BY <1>1 DEF Forth!Carries, CodeOf
<1>3. f.p = 1 => CodeOf(t)[f.p].op = "ENTRY"
  BY <1>2, TaskShape, Zenon
<1> QED
  BY <1>1, <1>2, <1>3 DEF IsLocation

-----------------------------------------------------------------------------
(* What a frame has on the return stack.                                     *)

LEMMA Joined ==
    ASSUME NEW a, NEW b
    PROVE  /\ Len(<<a>> \o <<b>>) = 2 /\ (<<a>> \o <<b>>)[1] = a /\ (<<a>> \o <<b>>)[2] = b
           /\ Len(<<a>> \o <<>>) = 1 /\ (<<a>> \o <<>>)[1] = a
           /\ Len(<<>> \o <<a>>) = 1 /\ (<<>> \o <<a>>)[1] = a
           /\ Len(<<>> \o <<>>) = 0
           /\ Len(<<a, b>>) = 2 /\ <<a, b>>[1] = a /\ <<a, b>>[2] = b
  OBVIOUS

(* The cells h are what a frame at place p has saved.                      *)
IsHeader(t, f, p, h) ==
    /\ Len(h) \in 0..2
    /\ t.backend = "vm" => Len(h) = 2 /\ h[1] = <<"base", f.base>> /\ h[2] = <<"return", Address(f)>>
    /\ t.backend = "x86_32" =>
         /\ Len(h) = (IF SavesBase(t, f, p) THEN 2 ELSE 1)
         /\ h[1] = <<"return", Address(f)>>
         /\ SavesBase(t, f, p) => h[2] = <<"base", Entered(f)>>
    /\ t.backend = "esp32s3" =>
         /\ Len(h) = (IF SavesBase(t, f, p) THEN 1 ELSE 0) + (IF SavesLr(t, f, p) THEN 1 ELSE 0)
         /\ SavesBase(t, f, p) => h[1] = <<"base", Entered(f)>>
         /\ SavesLr(t, f, p) => h[IF SavesBase(t, f, p) THEN 2 ELSE 1] = <<"return", Address(f)>>

LEMMA HeaderIs ==
    ASSUME NEW t \in Tasks, NEW f, NEW p
    PROVE  IsHeader(t, f, p, HeaderOf(t, f, p))
<1> DEFINE h == HeaderOf(t, f, p)
           a == <<"base", Entered(f)>>
           b == <<"return", Address(f)>>
           c == <<"base", f.base>>
<1>1. t.backend \in {"vm", "x86_32", "esp32s3"}
  BY TaskShape, Zenon
<1> HIDE DEF a, b, c
<1>2. CASE t.backend = "vm"
  <2>1. h = <<c, b>>
    BY <1>2, Zenon DEF HeaderOf, Header, b, c
  <2>2. Len(<<c, b>>) = 2 /\ <<c, b>>[1] = c /\ <<c, b>>[2] = b
    BY Joined
  <2>3. Len(h) = 2 /\ h[1] = c /\ h[2] = b
    BY <2>1, <2>2, Zenon
  <2> HIDE DEF h
  <2> QED
    BY <1>2, <2>3 DEF IsHeader, h, b, c
<1>3. CASE t.backend = "x86_32"
  <2>1. CASE SavesBase(t, f, p)
    <3>1. h = <<b>> \o <<a>>
      BY <1>3, <2>1, Zenon DEF HeaderOf, Header, a, b
    <3>2. Len(<<b>> \o <<a>>) = 2 /\ (<<b>> \o <<a>>)[1] = b /\ (<<b>> \o <<a>>)[2] = a
      BY Joined
    <3>3. Len(h) = 2 /\ h[1] = b /\ h[2] = a
      BY <3>1, <3>2, Zenon
    <3> HIDE DEF h
    <3> QED
      BY <1>3, <2>1, <3>3 DEF IsHeader, h, a, b
  <2>2. CASE ~SavesBase(t, f, p)
    <3>1. h = <<b>> \o <<>>
      BY <1>3, <2>2, Zenon DEF HeaderOf, Header, a, b
    <3>2. Len(<<b>> \o <<>>) = 1 /\ (<<b>> \o <<>>)[1] = b
      BY Joined
    <3>3. Len(h) = 1 /\ h[1] = b
      BY <3>1, <3>2, Zenon
    <3> HIDE DEF h
    <3> QED
      BY <1>3, <2>2, <3>3 DEF IsHeader, h, a, b
  <2> QED
    BY <2>1, <2>2
<1>4. CASE t.backend = "esp32s3"
  <2>1. CASE SavesBase(t, f, p) /\ SavesLr(t, f, p)
    <3>1. h = <<a>> \o <<b>>
      BY <1>4, <2>1, Zenon DEF HeaderOf, Header, a, b
    <3>2. Len(<<a>> \o <<b>>) = 2 /\ (<<a>> \o <<b>>)[1] = a /\ (<<a>> \o <<b>>)[2] = b
      BY Joined
    <3>3. Len(h) = 2 /\ h[1] = a /\ h[2] = b
      BY <3>1, <3>2, Zenon
    <3> HIDE DEF h
    <3> QED
      BY <1>4, <2>1, <3>3 DEF IsHeader, h, a, b
  <2>2. CASE SavesBase(t, f, p) /\ ~SavesLr(t, f, p)
    <3>1. h = <<a>> \o <<>>
      BY <1>4, <2>2, Zenon DEF HeaderOf, Header, a, b
    <3>2. Len(<<a>> \o <<>>) = 1 /\ (<<a>> \o <<>>)[1] = a
      BY Joined
    <3>3. Len(h) = 1 /\ h[1] = a
      BY <3>1, <3>2, Zenon
    <3> HIDE DEF h
    <3> QED
      BY <1>4, <2>2, <3>3 DEF IsHeader, h, a, b
  <2>3. CASE ~SavesBase(t, f, p) /\ SavesLr(t, f, p)
    <3>1. h = <<>> \o <<b>>
      BY <1>4, <2>3, Zenon DEF HeaderOf, Header, a, b
    <3>2. Len(<<>> \o <<b>>) = 1 /\ (<<>> \o <<b>>)[1] = b
      BY Joined
    <3>3. Len(h) = 1 /\ h[1] = b
      BY <3>1, <3>2, Zenon
    <3> HIDE DEF h
    <3> QED
      BY <1>4, <2>3, <3>3 DEF IsHeader, h, a, b
  <2>4. CASE ~SavesBase(t, f, p) /\ ~SavesLr(t, f, p)
    <3>1. h = <<>> \o <<>>
      BY <1>4, <2>4, Zenon DEF HeaderOf, Header, a, b
    <3>2. Len(<<>> \o <<>>) = 0
      BY Joined
    <3>3. Len(h) = 0
      BY <3>1, <3>2, Zenon
    <3> HIDE DEF h
    <3> QED
      BY <1>4, <2>4, <3>3 DEF IsHeader, h, a, b
  <2> QED
    BY <2>1, <2>2, <2>3, <2>4
<1> QED
  BY <1>1, <1>2, <1>3, <1>4

(* What a frame saves depends on its place only at the location of its     *)
(* word, and on the interpreter not at all.                                *)
LEMMA SamePlace ==
    ASSUME NEW t \in Tasks, NEW f, NEW p, NEW q, t.backend = "vm" \/ (p # f.word /\ q # f.word)
    PROVE  /\ HeaderOf(t, f, q) = HeaderOf(t, f, p) /\ BaseOf(t, f, q) = BaseOf(t, f, p)
           /\ t.backend # "vm" => SavesLr(t, f, q) = SavesLr(t, f, p)
<1>1. CASE t.backend = "vm"
  BY <1>1, Zenon DEF HeaderOf, BaseOf, Header, BaseIn
<1>2. CASE p # f.word /\ q # f.word
  <2>1. SavesLr(t, f, q) = SavesLr(t, f, p) /\ SavesBase(t, f, q) = SavesBase(t, f, p)
    BY <1>2 DEF SavesLr, SavesBase
  <2>2. HeaderOf(t, f, q) = HeaderOf(t, f, p) /\ BaseOf(t, f, q) = BaseOf(t, f, p)
    BY <2>1, Zenon DEF HeaderOf, BaseOf
  <2> QED
    BY <2>1, <2>2
<1> QED
  BY <1>1, <1>2

(* A frame looks at the return stack below its end.                        *)
LEMMA HoldsUpTo ==
    ASSUME NEW t \in Tasks, NEW f \in Frames, NEW p, NEW R, NEW R2, NEW e \in Nat,
           Holds(t, f, p, R, e), \A j \in 1..e : R2[j] = R[j]
    PROVE  Holds(t, f, p, R2, e)
<1> DEFINE h == HeaderOf(t, f, p)
<1>1. Len(h) \in 0..2
  BY HeaderIs, Zenon DEF IsHeader
<1> HIDE DEF h
<1>2. f.own \in Nat /\ f.at \in Nat
  BY DEF Frames
<1>3. /\ f.own <= e /\ \A j \in (f.own + 1)..e : R[j] \in {"cell"} \X Cell
      /\ f # FirstFrame => f.own = f.at + Len(h) /\ \A j \in 1..Len(h) : R[f.at + j] = h[j]
  BY Zenon DEF Holds, h
<1>4. \A j \in (f.own + 1)..e : R2[j] \in {"cell"} \X Cell
  <2> TAKE j \in (f.own + 1)..e
  <2>1. j \in 1..e
    BY <1>2
  <2> QED
    BY <1>3, <2>1
<1>5. f # FirstFrame => \A j \in 1..Len(h) : R2[f.at + j] = h[j]
  <2> SUFFICES ASSUME f # FirstFrame, NEW j \in 1..Len(h) PROVE R2[f.at + j] = h[j]
    OBVIOUS
  <2>1. f.at + j \in 1..e
    BY <1>1, <1>2, <1>3
  <2> QED
    BY <1>3, <2>1
<1> QED
  BY <1>4, <1>5, Zenon DEF Holds, h

-----------------------------------------------------------------------------
(* The frame on top and those below it.                                      *)

(* What holds of the frame that runs.                                      *)
LEMMA TopFacts ==
    ASSUME NEW t \in Tasks, NEW pc, NEW R, NEW F, FramesOK(t, pc, R, F)
    PROVE  LET f == Top(F)
               n == Len(F)
           IN  /\ n \in Nat /\ n >= 1 /\ DOMAIN F = 1..n /\ F \in Seq(Frames) /\ F[1] = FirstFrame
               /\ \A i \in 1..n : F[i] \in Frames
               /\ f = F[n] /\ f \in Frames /\ R \in ReturnStacks /\ Len(R) \in Nat
               /\ f.at \in Nat /\ f.own \in Nat /\ f.below \in Nat /\ f.word \in Nat /\ f.ret \in Nat
               /\ f.base \in Int /\ f.fromC \in BOOLEAN /\ f.open \in Nat
               /\ Holds(t, f, pc, R, Len(R)) /\ f.at <= f.own /\ f.own <= Len(R)
               /\ pc \in DOMAIN CodeOf(t) /\ WordAt(t, pc) = f.word
               /\ n = 1 => f = FirstFrame /\ f.own = 0 /\ f.below = 0 /\ f.word = 0
               /\ n > 1 => f # FirstFrame /\ f.word # 0 /\ CalledBy(t, f, F[n - 1])
               /\ f.below + (Len(R) - f.own) <= MaxCells
               /\ OwnCells(R, f.own) /\ f.own <= f.below
<1> DEFINE f == Top(F)
           n == Len(F)
<1>1. /\ F \in Seq(Frames) /\ n >= 1 /\ F[1] = FirstFrame /\ R \in ReturnStacks
      /\ \A i \in 1..n : Holds(t, F[i], PlaceOf(F, pc, i), R, EndOf(F, R, i))
      /\ \A i \in 1..(n - 1) : CalledBy(t, F[i + 1], F[i])
      /\ f.below + (Len(R) - f.own) <= MaxCells
  BY Zenon DEF FramesOK, f, n
<1>2. n \in Nat /\ DOMAIN F = 1..n /\ Len(R) \in Nat /\ \A i \in 1..n : F[i] \in Frames
  BY <1>1, LenProperties, ElementOfSeq DEF ReturnStacks
<1>3. f = F[n] /\ f \in Frames
  BY <1>1, <1>2 DEF Top
<1>4. Holds(t, F[n], PlaceOf(F, pc, n), R, EndOf(F, R, n))
  BY <1>1, <1>2
<1>5. ~(n < n)
  BY <1>2
<1>6. PlaceOf(F, pc, n) = pc /\ EndOf(F, R, n) = Len(R)
  BY <1>5, Zenon DEF PlaceOf, EndOf, n
<1>7. Holds(t, f, pc, R, Len(R))
  BY <1>3, <1>4, <1>6, Zenon
<1> HIDE DEF f, n
<1>8. f.at \in Nat /\ f.own \in Nat /\ f.below \in Nat /\ f.word \in Nat /\ f.ret \in Nat
      /\ f.base \in Int /\ f.fromC \in BOOLEAN /\ f.open \in Nat
  BY <1>3 DEF Frames
<1>9. /\ pc \in DOMAIN CodeOf(t) /\ WordAt(t, pc) = f.word
      /\ f.own <= Len(R) /\ \A j \in (f.own + 1)..Len(R) : R[j] \in {"cell"} \X Cell
      /\ f # FirstFrame => f.word # 0 /\ f.own = f.at + Len(HeaderOf(t, f, pc))
      /\ f.own <= f.below
  BY <1>7, Zenon DEF Holds
<1>10. Len(HeaderOf(t, f, pc)) \in 0..2
  BY HeaderIs, Zenon DEF IsHeader
<1>11. f = FirstFrame => f.at = 0 /\ f.own = 0 /\ f.below = 0 /\ f.word = 0
  BY DEF FirstFrame
<1>12. f.at <= f.own
  BY <1>8, <1>9, <1>10, <1>11
<1>13. n > 1 => CalledBy(t, f, F[n - 1])
  <2> SUFFICES ASSUME n > 1 PROVE CalledBy(t, f, F[n - 1])
    OBVIOUS
  <2>1. n - 1 \in 1..(n - 1) /\ (n - 1) + 1 = n
    BY <1>2
  <2>2. CalledBy(t, F[(n - 1) + 1], F[n - 1])
    BY <1>1, <2>1
  <2> QED
    BY <1>3, <2>1, <2>2
<1>14. n > 1 => f # FirstFrame
  BY <1>13, Zenon DEF CalledBy
<1>15. n = 1 => f = FirstFrame
  BY <1>1, <1>3
<1>16. OwnCells(R, f.own)
  BY <1>2, <1>8, <1>9 DEF OwnCells
<1> QED
  BY <1>1, <1>2, <1>3, <1>7, <1>8, <1>9, <1>11, <1>12, <1>13, <1>14, <1>15, <1>16 DEF f, n

(* A fragment that is no location is not where its word starts.            *)
LEMMA BehindLocation ==
    ASSUME NEW t \in Tasks, NEW pc \in DOMAIN CodeOf(t)
    PROVE  /\ pc \in Nat /\ pc >= 1
           /\ IsLocation(t, pc) <=> pc = WordAt(t, pc)
           /\ WordAt(t, pc) \in 0..pc
<1>1. pc \in Nat /\ pc >= 1
  <2>1. DOMAIN CodeOf(t) = 1..Len(CodeOf(t)) /\ Len(CodeOf(t)) \in 2..(Half - 1)
    BY TaskShape, Zenon
  <2> QED
    BY <2>1
<1> DEFINE w == Forth!WordOf(CodeOf(t), pc)
<1>2. /\ w \in 0..pc
      /\ w # 0 => CodeOf(t)[w].op = "DEFINED_WORD_LOCATION"
      /\ pc >= 1 /\ CodeOf(t)[pc].op = "DEFINED_WORD_LOCATION" => w = pc
  BY <1>1, WordRange
<1> HIDE DEF w
<1>3. IsLocation(t, pc) <=> pc = w
  BY <1>1, <1>2 DEF IsLocation
<1> QED
  BY <1>1, <1>2, <1>3 DEF WordAt, w

(* The frames below the one that runs look at what is below its cells.     *)
LEMMA LowerHold ==
    ASSUME NEW t \in Tasks, NEW pc, NEW R, NEW F, FramesOK(t, pc, R, F), NEW R2, NEW N \in Nat,
           N >= Top(F).at, \A j \in 1..N : R2[j] = R[j], NEW i \in 1..(Len(F) - 1)
    PROVE  /\ Holds(t, F[i], F[i + 1].ret - 1, R2, F[i + 1].at)
           /\ F[i + 1].at \in Nat /\ F[i + 1].at <= Top(F).at
<1> DEFINE f == Top(F)
           n == Len(F)
<1>1. n \in Nat /\ f = F[n] /\ f.at \in Nat /\ \A l \in 1..n : F[l] \in Frames
  BY TopFacts
<1>2. /\ \A l \in 1..n : Holds(t, F[l], PlaceOf(F, pc, l), R, EndOf(F, R, l))
      /\ \A l, j \in 1..n : l <= j => F[l].at <= F[j].at
  BY Zenon DEF FramesOK, n
<1>3. i \in 1..n /\ i < n /\ i + 1 \in 1..n /\ n \in 1..n /\ i + 1 <= n
  BY <1>1
<1>4. PlaceOf(F, pc, i) = F[i + 1].ret - 1 /\ EndOf(F, R, i) = F[i + 1].at
  BY <1>3, Zenon DEF PlaceOf, EndOf, n
<1>5. Holds(t, F[i], F[i + 1].ret - 1, R, F[i + 1].at)
  BY <1>2, <1>3, <1>4, Zenon
<1> HIDE DEF f, n
<1>6. F[i] \in Frames /\ F[i + 1] \in Frames
  BY <1>1, <1>3
<1>7. F[i + 1].at \in Nat
  BY <1>6 DEF Frames
<1>8. F[i + 1].at <= f.at
  BY <1>1, <1>2, <1>3
<1>9. \A j \in 1..F[i + 1].at : R2[j] = R[j]
  <2> TAKE j \in 1..F[i + 1].at
  <2>1. j \in 1..N
    BY <1>1, <1>7, <1>8 DEF f
  <2> QED
    BY <2>1
<1>10. Holds(t, F[i], F[i + 1].ret - 1, R2, F[i + 1].at)
  BY <1>5, <1>6, <1>7, <1>9, HoldsUpTo
<1> QED
  BY <1>7, <1>8, <1>10 DEF f

-----------------------------------------------------------------------------
(* A step within a word keeps the frames.                                    *)

(* The return stack a frame may leave: what is below its own cells stays.  *)
Keeps(F, R, R2) ==
    /\ R2 \in ReturnStacks /\ OwnCells(R2, Top(F).own)
    /\ \A j \in 1..Top(F).own : R2[j] = R[j]
    /\ Top(F).below + (Len(R2) - Top(F).own) <= MaxCells

(* A step within a word, to another place of it.                           *)
LEMMA Straight ==
    ASSUME NEW t \in Tasks, NEW pc, NEW R, NEW F, FramesOK(t, pc, R, F),
           NEW pc2 \in DOMAIN CodeOf(t), WordAt(t, pc2) = WordAt(t, pc), ~IsLocation(t, pc2),
           t.backend = "vm" \/ ~IsLocation(t, pc), NEW R2, Keeps(F, R, R2)
    PROVE  /\ FramesOK(t, pc2, R2, F)
           /\ BaseOf(t, Top(F), pc2) = BaseOf(t, Top(F), pc)
           /\ t.backend # "vm" => SavesLr(t, Top(F), pc2) = SavesLr(t, Top(F), pc)
<1> DEFINE f == Top(F)
           n == Len(F)
           h == HeaderOf(t, f, pc)
<1>1. /\ n \in Nat /\ n >= 1 /\ F \in Seq(Frames) /\ F[1] = FirstFrame
      /\ f = F[n] /\ f \in Frames /\ Len(R) \in Nat
      /\ f.at \in Nat /\ f.own \in Nat
      /\ Holds(t, f, pc, R, Len(R)) /\ f.at <= f.own /\ f.own <= Len(R)
      /\ pc \in DOMAIN CodeOf(t) /\ WordAt(t, pc) = f.word
  BY TopFacts
<1>2. t.backend = "vm" \/ (pc # f.word /\ pc2 # f.word)
  BY <1>1, BehindLocation, Zenon
<1>3. /\ HeaderOf(t, f, pc2) = h /\ BaseOf(t, f, pc2) = BaseOf(t, f, pc)
      /\ t.backend # "vm" => SavesLr(t, f, pc2) = SavesLr(t, f, pc)
  BY <1>2, SamePlace, Zenon
<1>4. /\ R2 \in ReturnStacks /\ OwnCells(R2, f.own) /\ \A j \in 1..f.own : R2[j] = R[j]
      /\ f.below + (Len(R2) - f.own) <= MaxCells
  BY Zenon DEF Keeps, f
<1>5. Len(R2) \in Nat
  BY <1>4, LenProperties DEF ReturnStacks
<1>6. f.own <= Len(R2) /\ \A j \in (f.own + 1)..Len(R2) : R2[j] \in {"cell"} \X Cell
  BY <1>4, <1>5 DEF OwnCells
<1>7. Holds(t, f, pc2, R2, Len(R2))
  <2>1. /\ f # FirstFrame => /\ f.word # 0 /\ f.ret # 0 /\ f.own = f.at + Len(h)
                             /\ \A j \in 1..Len(h) : R[f.at + j] = h[j]
        /\ f.own <= f.below /\ (t.backend = "vm" => f.own = f.below)
        /\ f.base \in {Junk} \cup 0..f.at
    BY <1>1, Zenon DEF Holds, h
  <2>2. Len(h) \in 0..2
    BY HeaderIs, Zenon DEF IsHeader
  <2> HIDE DEF h, f, n
  <2>3. f # FirstFrame => \A j \in 1..Len(h) : R2[f.at + j] = h[j]
    <3> SUFFICES ASSUME f # FirstFrame, NEW j \in 1..Len(h) PROVE R2[f.at + j] = h[j]
      OBVIOUS
    <3>1. f.at + j \in 1..f.own
      BY <1>1, <2>1, <2>2
    <3> QED
      BY <1>4, <2>1, <3>1
  <2> QED
    BY <1>1, <1>3, <1>6, <2>1, <2>3, Zenon DEF Holds
<1>8. ASSUME NEW i \in 1..n
      PROVE  Holds(t, F[i], PlaceOf(F, pc2, i), R2, EndOf(F, R2, i))
  <2>1. CASE i = n
    <3>1. ~(i < n)
      BY <1>1, <2>1
    <3> QED
      BY <1>1, <1>7, <2>1, <3>1, Zenon DEF PlaceOf, EndOf, n
  <2>2. CASE i # n
    <3>1. i < n /\ i \in 1..(n - 1)
      BY <1>1, <2>2
    <3>2. Holds(t, F[i], F[i + 1].ret - 1, R2, F[i + 1].at)
      BY <1>1, <1>4, <3>1, LowerHold
    <3> QED
      BY <3>1, <3>2, Zenon DEF PlaceOf, EndOf, n
  <2> QED
    BY <2>1, <2>2
<1>9. /\ \A i \in 1..(n - 1) : CalledBy(t, F[i + 1], F[i])
      /\ \A i, j \in 1..n : i <= j => F[i].at <= F[j].at
  BY Zenon DEF FramesOK, n
<1>10. FramesOK(t, pc2, R2, F)
  BY <1>1, <1>4, <1>8, <1>9, Zenon DEF FramesOK, f, n
<1> QED
  BY <1>3, <1>10, Zenon DEF f

-----------------------------------------------------------------------------
(* A call adds a frame.                                                      *)

(* A call: frame g on top, behind what the call saves.                     *)
Enters(t, pc, R, F, to, g, R2) ==
    /\ CodeOf(t)[pc].op \in Calling /\ to \in DOMAIN CodeOf(t) /\ IsLocation(t, to)
    /\ g \in Frames /\ g.at = Len(R) /\ g.ret = pc + 1 /\ g.word = to /\ g.own = Len(R2)
    /\ g.below = Top(F).below + (g.at - Top(F).own) + 2 /\ g.below <= MaxCells
    /\ g.base = BaseOf(t, Top(F), pc) /\ g.open = OpenedBy(Top(F))
    /\ g.base \in {Junk} \cup 0..g.at
    /\ R2 \in ReturnStacks /\ Len(R2) = Len(R) + Len(HeaderOf(t, g, to))
    /\ \A j \in 1..Len(R) : R2[j] = R[j]
    /\ \A j \in 1..Len(HeaderOf(t, g, to)) : R2[Len(R) + j] = HeaderOf(t, g, to)[j]

(* Only the interpreter saves two cells at a call.                         *)
LEMMA CallSaves ==
    ASSUME NEW t \in Tasks, NEW g, NEW to, to = g.word
    PROVE  /\ Len(HeaderOf(t, g, to)) \in 0..2
           /\ Len(HeaderOf(t, g, to)) = (IF t.backend = "vm" THEN 2 ELSE IF t.backend = "x86_32" THEN 1 ELSE 0)
<1>1. ~SavesBase(t, g, to) /\ ~SavesLr(t, g, to)
  BY DEF SavesBase, SavesLr
<1> DEFINE h == HeaderOf(t, g, to)
<1>2. /\ Len(h) \in 0..2
      /\ t.backend = "vm" => Len(h) = 2
      /\ t.backend = "x86_32" => Len(h) = (IF SavesBase(t, g, to) THEN 2 ELSE 1)
      /\ t.backend = "esp32s3" =>
             Len(h) = (IF SavesBase(t, g, to) THEN 1 ELSE 0) + (IF SavesLr(t, g, to) THEN 1 ELSE 0)
  <2>1. IsHeader(t, g, to, h)
    BY HeaderIs
  <2> HIDE DEF h
  <2> QED
    BY <2>1 DEF IsHeader
<1>3. t.backend \in {"vm", "x86_32", "esp32s3"}
  BY TaskShape, Zenon
<1> HIDE DEF h
<1>4. t.backend = "x86_32" => Len(h) = 1
  BY <1>1, <1>2
<1>5. t.backend = "esp32s3" => Len(h) = 0
  BY <1>1, <1>2
<1>6. Len(h) = (IF t.backend = "vm" THEN 2 ELSE IF t.backend = "x86_32" THEN 1 ELSE 0)
  BY <1>2, <1>3, <1>4, <1>5
<1> QED
  BY <1>2, <1>6 DEF h

LEMMA Entering ==
    ASSUME NEW t \in Tasks, NEW pc, NEW R, NEW F, FramesOK(t, pc, R, F),
           NEW to, NEW g, NEW R2, Enters(t, pc, R, F, to, g, R2)
    PROVE  FramesOK(t, to, R2, Append(F, g))
<1> DEFINE f == Top(F)
           n == Len(F)
           F2 == Append(F, g)
           h == HeaderOf(t, g, to)
<1>1. /\ n \in Nat /\ n >= 1 /\ F \in Seq(Frames) /\ F[1] = FirstFrame
      /\ \A i \in 1..n : F[i] \in Frames
      /\ f = F[n] /\ f \in Frames /\ Len(R) \in Nat /\ f.at <= f.own
      /\ f.at \in Nat /\ f.own \in Nat /\ f.below \in Nat /\ f.own <= f.below
      /\ Holds(t, f, pc, R, Len(R)) /\ f.own <= Len(R)
      /\ pc \in DOMAIN CodeOf(t) /\ WordAt(t, pc) = f.word
  BY TopFacts
<1>2. /\ CodeOf(t)[pc].op \in Calling /\ to \in DOMAIN CodeOf(t) /\ IsLocation(t, to)
      /\ g \in Frames /\ g.at = Len(R) /\ g.ret = pc + 1 /\ g.word = to /\ g.own = Len(R2)
      /\ g.below = f.below + (g.at - f.own) + 2 /\ g.below <= MaxCells
      /\ g.base = BaseOf(t, f, pc) /\ g.open = OpenedBy(f)
      /\ g.base \in {Junk} \cup 0..g.at
      /\ R2 \in ReturnStacks /\ Len(R2) = Len(R) + Len(h)
      /\ \A j \in 1..Len(R) : R2[j] = R[j]
      /\ \A j \in 1..Len(h) : R2[Len(R) + j] = h[j]
  BY Zenon DEF Enters, f, h
<1>3. Len(h) \in 0..2 /\ Len(h) = (IF t.backend = "vm" THEN 2 ELSE IF t.backend = "x86_32" THEN 1 ELSE 0)
  BY <1>2, CallSaves, Zenon
<1>4. pc \in Nat /\ pc >= 1 /\ to \in Nat /\ to >= 1 /\ WordAt(t, to) = to
  BY <1>1, <1>2, BehindLocation, Zenon
<1>5. /\ F2 \in Seq(Frames) /\ Len(F2) = n + 1 /\ F2[n + 1] = g /\ \A i \in 1..n : F2[i] = F[i]
  BY <1>1, <1>2, AppendProperties
<1>6. Top(F2) = g
  BY <1>5, Zenon DEF Top
<1>7. g # FirstFrame
  BY <1>2, <1>4 DEF FirstFrame
<1> HIDE DEF f, n, h, F2
<1>8. g.at \in Nat /\ g.own \in Nat /\ g.below \in Nat /\ g.own = g.at + Len(h) /\ g.own <= g.below
      /\ (t.backend = "vm" => (f.own = f.below => g.own = g.below))
  <2>1. g.at \in Nat /\ g.own \in Nat /\ g.below \in Nat
    BY <1>2 DEF Frames
  <2>2. g.own = g.at + Len(h)
    BY <1>2
  <2>3. f.own \in Nat /\ f.below \in Nat /\ f.own <= f.below /\ g.below = f.below + (g.at - f.own) + 2
    BY <1>1, <1>2
  <2>4. g.own <= g.below
    BY <1>3, <2>1, <2>2, <2>3
  <2>5. t.backend = "vm" => (f.own = f.below => g.own = g.below)
    BY <1>3, <2>1, <2>2, <2>3
  <2> QED
    BY <2>1, <2>2, <2>4, <2>5
<1>17. /\ f.at \in Nat /\ f.own \in Nat /\ Len(R) \in Nat /\ f.at <= f.own /\ f.own <= Len(R)
       /\ g.at = Len(R)
  BY <1>1, <1>2
<1>9. Holds(t, g, to, R2, Len(R2))
  <2>1. t.backend = "vm" => f.own = f.below
    BY <1>1, Zenon DEF Holds
  <2>2. \A j \in (g.own + 1)..Len(R2) : R2[j] \in {"cell"} \X Cell
    BY <1>2, <1>8
  <2>3. \A j \in 1..Len(h) : R2[g.at + j] = h[j]
    BY <1>2
  <2>4. g.own <= Len(R2) /\ g.word # 0 /\ g.ret # 0
    BY <1>2, <1>4, <1>8
  <2> QED
    BY <1>2, <1>4, <1>8, <2>1, <2>2, <2>3, <2>4, Zenon DEF Holds, h
<1>10. Holds(t, f, pc, R2, Len(R))
  BY <1>1, <1>2, HoldsUpTo
<1>11. ASSUME NEW i \in 1..(n + 1)
       PROVE  Holds(t, F2[i], PlaceOf(F2, to, i), R2, EndOf(F2, R2, i))
  <2>1. CASE i = n + 1
    <3>1. ~(i < n + 1)
      BY <1>1, <2>1
    <3> QED
      BY <1>5, <1>9, <2>1, <3>1, Zenon DEF PlaceOf, EndOf
  <2>2. CASE i = n
    <3>1. i < n + 1 /\ g.ret - 1 = pc /\ i \in 1..n /\ F2[i + 1] = g
      BY <1>1, <1>2, <1>4, <1>5, <2>2
    <3>2. PlaceOf(F2, to, i) = pc /\ EndOf(F2, R2, i) = Len(R) /\ F2[i] = f
      BY <1>1, <1>2, <1>5, <2>2, <3>1, Zenon DEF PlaceOf, EndOf
    <3> QED
      BY <1>10, <3>2, Zenon
  <2>3. CASE i # n /\ i # n + 1
    <3>1. i < n + 1 /\ i \in 1..(n - 1) /\ i \in 1..n /\ i + 1 \in 1..n /\ Len(R) >= f.at
      BY <1>1, <2>3
    <3>2. Holds(t, F[i], F[i + 1].ret - 1, R2, F[i + 1].at)
      <4>1. i \in 1..(Len(F) - 1) /\ Len(R) \in Nat /\ Len(R) >= Top(F).at /\ \A j \in 1..Len(R) : R2[j] = R[j]
        BY <1>1, <1>2, <3>1 DEF f, n
      <4> QED
        BY <4>1, LowerHold
    <3>3. F2[i] = F[i] /\ F2[i + 1] = F[i + 1]
      BY <1>5, <3>1
    <3> QED
      BY <1>5, <3>1, <3>2, <3>3, Zenon DEF PlaceOf, EndOf
  <2> QED
    BY <2>1, <2>2, <2>3
<1>12. /\ \A i \in 1..(n - 1) : CalledBy(t, F[i + 1], F[i])
       /\ \A i, j \in 1..n : i <= j => F[i].at <= F[j].at
  BY Zenon DEF FramesOK, n
<1>13. ASSUME NEW i \in 1..n
       PROVE  CalledBy(t, F2[i + 1], F2[i])
  <2>1. CASE i = n
    <3>1. g.ret - 1 = pc
      BY <1>2, <1>4
    <3>2. CalledBy(t, g, f)
      BY <1>1, <1>2, <1>7, <3>1, Zenon DEF CalledBy
    <3> QED
      BY <1>1, <1>5, <2>1, <3>2
  <2>2. CASE i # n
    <3>1. i \in 1..(n - 1) /\ i + 1 \in 1..n
      BY <1>1, <2>2
    <3> QED
      BY <1>5, <1>12, <3>1
  <2> QED
    BY <2>1, <2>2
<1>14. ASSUME NEW i \in 1..(n + 1), NEW j \in 1..(n + 1), i <= j
       PROVE  F2[i].at <= F2[j].at
  <2>1. \A l \in 1..n : F[l].at \in Nat /\ F[l].at <= g.at
    <3> TAKE l \in 1..n
    <3>1. F[l].at <= f.at
      BY <1>1, <1>12
    <3>2. F[l].at \in Nat
      BY <1>1 DEF Frames
    <3> QED
      BY <1>17, <3>1, <3>2
  <2>2. CASE j = n + 1
    <3>1. CASE i = n + 1
      BY <1>5, <1>8, <2>2, <3>1
    <3>2. CASE i # n + 1
      <4>1. i \in 1..n
        BY <1>1, <3>2
      <4> QED
        BY <1>5, <2>1, <2>2, <4>1
    <3> QED
      BY <3>1, <3>2
  <2>3. CASE j # n + 1
    <3>1. i \in 1..n /\ j \in 1..n
      BY <1>1, <1>14, <2>3
    <3> QED
      BY <1>5, <1>12, <1>14, <3>1
  <2> QED
    BY <2>2, <2>3
<1>15. /\ (n + 1) >= 1 /\ (n + 1) - 1 = n /\ F2[1] = FirstFrame
       /\ g.below + (Len(R2) - g.own) <= MaxCells /\ Len(R2) = g.own
  <2>1. 1 \in 1..n
    BY <1>1
  <2>2. MaxCells \in Int
    BY PrimitivesAssumption DEF Half
  <2> QED
    BY <1>1, <1>2, <1>5, <1>8, <2>1, <2>2
<1>16. FramesOK(t, to, R2, F2)
  <2>1. \A i \in 1..(n + 1) : Holds(t, F2[i], PlaceOf(F2, to, i), R2, EndOf(F2, R2, i))
    BY <1>11
  <2>2. \A i \in 1..n : CalledBy(t, F2[i + 1], F2[i])
    BY <1>13
  <2>3. \A i, j \in 1..(n + 1) : i <= j => F2[i].at <= F2[j].at
    BY <1>14
  <2> QED
    BY <1>2, <1>5, <1>6, <1>15, <2>1, <2>2, <2>3, Zenon DEF FramesOK
<1> QED
  BY <1>16 DEF F2

-----------------------------------------------------------------------------
(* A return takes one away.                                                  *)

(* The word that runs leaves: its caller goes on behind the call.          *)
LEMMA Leaving ==
    ASSUME NEW t \in Tasks, NEW pc, NEW R, NEW F, FramesOK(t, pc, R, F), Len(F) > 1,
           NEW R2 \in ReturnStacks, Len(R2) = Top(F).at, \A j \in 1..Top(F).at : R2[j] = R[j]
    PROVE  LET f == Top(F)
               F2 == SubSeq(F, 1, Len(F) - 1)
           IN  /\ FramesOK(t, f.ret, R2, F2)
               /\ Top(F2) = F[Len(F) - 1] /\ Len(F2) = Len(F) - 1
               /\ BaseOf(t, Top(F2), f.ret) = f.base
               /\ SavesLr(t, Top(F2), f.ret)
               /\ f.open = OpenedBy(Top(F2))
               /\ f.ret # 1
<1> DEFINE f == Top(F)
           n == Len(F)
           F2 == SubSeq(F, 1, n - 1)
           g == F[n - 1]
           p == f.ret - 1
<1>1. /\ n \in Nat /\ n >= 1 /\ F \in Seq(Frames) /\ F[1] = FirstFrame
      /\ \A i \in 1..n : F[i] \in Frames
      /\ f = F[n] /\ f \in Frames /\ Len(R) \in Nat /\ f.at <= f.own
      /\ f.at \in Nat /\ f.own \in Nat /\ f.below \in Nat /\ f.own <= f.below /\ f.own <= Len(R)
      /\ f.ret \in Nat
      /\ n > 1 => CalledBy(t, f, F[n - 1])
      /\ f.below + (Len(R) - f.own) <= MaxCells
  BY TopFacts
<1>2. /\ F2 \in Seq(Frames) /\ Len(F2) = n - 1 /\ \A i \in 1..(n - 1) : F2[i] = F[i]
  BY <1>1, SubSeqProperties
<1>3. Top(F2) = g
  <2>1. n - 1 \in 1..(n - 1)
    BY <1>1
  <2> QED
    BY <1>2, <2>1 DEF Top
<1>4. /\ p \in DOMAIN CodeOf(t) /\ CodeOf(t)[p].op \in Calling
      /\ f.below = g.below + (f.at - g.own) + 2
      /\ f.base = BaseOf(t, g, p) /\ f.open = OpenedBy(g)
  BY <1>1, Zenon DEF CalledBy, p, g, n
<1>5. CodeOf(t)[p].op \notin {"BRANCH", "EXIT_WORD", "HALT"} /\ ~IsLocation(t, p)
  BY <1>4 DEF Calling, IsLocation
<1>6. /\ p + 1 \in DOMAIN CodeOf(t) /\ WordAt(t, p + 1) = WordAt(t, p) /\ ~IsLocation(t, p + 1)
      /\ p \in Nat /\ p >= 1 /\ p + 1 # 1
  BY <1>4, <1>5, NextPlace
<1>7. p + 1 = f.ret
  BY <1>1
<1>23. \A i \in 1..(Len(F) - 1) : Holds(t, F[i], F[i + 1].ret - 1, R2, F[i + 1].at)
  <2> TAKE i \in 1..(Len(F) - 1)
  <2> DEFINE N == Top(F).at
  <2>1. N \in Nat /\ N >= Top(F).at
    BY <1>1
  <2>2. \A j \in 1..N : R2[j] = R[j]
    OBVIOUS
  <2> HIDE DEF N
  <2> QED
    BY <2>1, <2>2, LowerHold
<1>8. Holds(t, g, p, R2, f.at) /\ n - 1 \in 1..(Len(F) - 1) /\ (n - 1) + 1 = n
  <2>1. n - 1 \in 1..(Len(F) - 1) /\ (n - 1) + 1 = n
    BY <1>1
  <2>2. Holds(t, F[n - 1], F[(n - 1) + 1].ret - 1, R2, F[(n - 1) + 1].at)
    BY <1>23, <2>1
  <2> QED
    BY <1>1, <2>1, <2>2
<1>9. g \in Frames
  BY <1>1, <1>8
<1>10. WordAt(t, p) = g.word /\ p # g.word /\ f.ret # g.word
  <2>1. WordAt(t, p) = g.word
    BY <1>8, Zenon DEF Holds
  <2>2. p # WordAt(t, p)
    BY <1>4, <1>5, BehindLocation
  <2>3. p + 1 # WordAt(t, p + 1)
    BY <1>6, BehindLocation
  <2> QED
    BY <1>6, <1>7, <2>1, <2>2, <2>3
<1>11. /\ HeaderOf(t, g, f.ret) = HeaderOf(t, g, p) /\ BaseOf(t, g, f.ret) = BaseOf(t, g, p)
       /\ t.backend # "vm" => SavesLr(t, g, f.ret) = SavesLr(t, g, p)
  <2>1. t.backend = "vm" \/ (p # g.word /\ f.ret # g.word)
    BY <1>10
  <2> HIDE DEF f, n, g, p
  <2> QED
    BY <2>1, SamePlace, Zenon
<1>12. SavesLr(t, g, f.ret)
  <2>1. /\ DOMAIN CodeOf(t) = 1..Len(CodeOf(t)) /\ Len(CodeOf(t)) \in Nat
    <3>1. DOMAIN CodeOf(t) = 1..Len(CodeOf(t)) /\ Len(CodeOf(t)) \in 2..(Half - 1)
      BY TaskShape, Zenon
    <3> QED
      BY <3>1
  <2>2. g.word \in 0..p
    BY <1>4, <1>10, BehindLocation
  <2>3. p \in (g.word + 1)..Len(CodeOf(t))
    BY <1>4, <1>6, <1>10, <2>1, <2>2
  <2>4. CodeOf(t)[p].op \in UsesLr
    BY <1>4 DEF Calling, UsesLr
  <2>5. CallsAny(CodeOf(t), g.word)
    BY <1>10, <2>3, <2>4, Zenon DEF CallsAny, WordAt
  <2> QED
    BY <1>10, <2>5 DEF SavesLr
<1>13. Holds(t, g, f.ret, R2, f.at)
  <2>1. f.ret \in DOMAIN CodeOf(t) /\ WordAt(t, f.ret) = g.word
    BY <1>6, <1>7, <1>10
  <2> HIDE DEF f, n, g, p
  <2> QED
    BY <1>8, <1>11, <2>1, Zenon DEF Holds
<1>14. \A i \in 1..(n - 1) : Holds(t, F2[i], PlaceOf(F2, f.ret, i), R2, EndOf(F2, R2, i))
  <2> TAKE i \in 1..(n - 1)
  <2>1. CASE i = n - 1
    <3>1. ~(i < n - 1) /\ F2[i] = g
      BY <1>1, <1>2, <2>1
    <3> HIDE DEF f, n, g, p, F2
    <3>2. PlaceOf(F2, f.ret, i) = f.ret /\ EndOf(F2, R2, i) = f.at
      BY <1>2, <3>1, Zenon DEF PlaceOf, EndOf, f
    <3> QED
      BY <1>13, <3>1, <3>2, Zenon
  <2>2. CASE i # n - 1
    <3>1. i < n - 1 /\ i + 1 \in 1..(n - 1)
      BY <1>1, <2>2
    <3>2. F2[i] = F[i] /\ F2[i + 1] = F[i + 1]
      BY <1>2, <3>1
    <3>3. Holds(t, F[i], F[i + 1].ret - 1, R2, F[i + 1].at)
      BY <1>1, <1>23 DEF n
    <3> HIDE DEF f, n, g, p, F2
    <3>4. PlaceOf(F2, f.ret, i) = F[i + 1].ret - 1 /\ EndOf(F2, R2, i) = F[i + 1].at
      BY <1>2, <3>1, <3>2, Zenon DEF PlaceOf, EndOf
    <3> QED
      BY <3>2, <3>3, <3>4, Zenon
  <2> QED
    BY <2>1, <2>2
<1>15. /\ \A i \in 1..(n - 1) : CalledBy(t, F[i + 1], F[i])
       /\ \A i, j \in 1..n : i <= j => F[i].at <= F[j].at
  BY Zenon DEF FramesOK, n
<1> HIDE DEF f, F2, n, g, p
<1>16. \A i \in 1..((n - 1) - 1) : CalledBy(t, F2[i + 1], F2[i])
  <2> TAKE i \in 1..((n - 1) - 1)
  <2>1. i \in 1..(n - 1) /\ i + 1 \in 1..(n - 1)
    BY <1>1
  <2> QED
    BY <1>2, <1>15, <2>1
<1>17. \A i, j \in 1..(n - 1) : i <= j => F2[i].at <= F2[j].at
  <2> TAKE i, j \in 1..(n - 1)
  <2>1. i \in 1..n /\ j \in 1..n
    BY <1>1
  <2> QED
    BY <1>2, <1>15, <2>1
<1>18. g.below + (Len(R2) - g.own) <= MaxCells
  <2>1. g.below \in Nat /\ g.own \in Nat
    BY <1>9 DEF Frames
  <2>2. MaxCells \in Int
    BY PrimitivesAssumption DEF Half
  <2>3. Len(R2) = f.at
    BY Zenon DEF f
  <2>4. /\ f.below + (Len(R) - f.own) <= MaxCells /\ f.own <= Len(R) /\ Len(R) \in Nat
        /\ f.at \in Nat /\ f.own \in Nat /\ f.below \in Nat
    BY <1>1
  <2>5. f.below = g.below + (f.at - g.own) + 2
    BY <1>4
  <2>6. f.below <= MaxCells
    BY <2>2, <2>4
  <2> QED
    BY <2>1, <2>2, <2>3, <2>4, <2>5, <2>6
<1>19. F2[1] = FirstFrame /\ n - 1 >= 1
  <2>1. 1 \in 1..(n - 1)
    BY <1>1 DEF n
  <2> QED
    BY <1>1, <1>2, <2>1
<1>20. ~IsLocation(t, f.ret)
  BY <1>6, <1>7
<1>21. FramesOK(t, f.ret, R2, F2)
  BY <1>2, <1>3, <1>14, <1>16, <1>17, <1>18, <1>19, <1>20, Zenon DEF FramesOK
<1>22. f.ret # 1
  BY <1>6, <1>7
<1> QED
  BY <1>2, <1>3, <1>4, <1>11, <1>12, <1>21, <1>22 DEF f, F2, n, g

-----------------------------------------------------------------------------
(* The location of a word saves what its loops and calls put at risk.        *)

(* What the location of a word saves of the frame that has just begun.     *)
Saves(t, pc, R, F, R2) ==
    /\ t.backend # "vm" /\ IsLocation(t, pc)
    /\ R2 \in ReturnStacks /\ Len(R2) >= Len(R)
    /\ Len(R2) = Top(F).at + Len(HeaderOf(t, Top(F), pc + 1))
    /\ \A j \in 1..Len(R) : R2[j] = R[j]
    /\ \A j \in 1..Len(HeaderOf(t, Top(F), pc + 1)) : R2[Top(F).at + j] = HeaderOf(t, Top(F), pc + 1)[j]

(* Two frames of the same call.                                            *)
Alike(f, g) ==
    /\ f.at = g.at /\ f.below = g.below /\ f.word = g.word /\ f.ret = g.ret
    /\ f.base = g.base /\ f.fromC = g.fromC /\ f.open = g.open

LEMMA AlikeSave ==
    ASSUME NEW t \in Tasks, NEW f, NEW g, NEW p, Alike(f, g), f # FirstFrame, g # FirstFrame
    PROVE  /\ HeaderOf(t, f, p) = HeaderOf(t, g, p) /\ BaseOf(t, f, p) = BaseOf(t, g, p)
           /\ SavesLr(t, f, p) = SavesLr(t, g, p) /\ OpenedBy(f) = OpenedBy(g) /\ Address(f) = Address(g)
<1>1. /\ f.at = g.at /\ f.below = g.below /\ f.word = g.word /\ f.ret = g.ret
      /\ f.base = g.base /\ f.fromC = g.fromC /\ f.open = g.open
  BY DEF Alike
<1>2. Address(f) = Address(g) /\ Entered(f) = Entered(g) /\ OpenedBy(f) = OpenedBy(g)
  BY <1>1 DEF Address, Entered, OpenedBy
<1>3. SavesLr(t, f, p) = SavesLr(t, g, p) /\ SavesBase(t, f, p) = SavesBase(t, g, p)
  BY <1>1 DEF SavesLr, SavesBase
<1> DEFINE sb == SavesBase(t, g, p)
           sl == SavesLr(t, g, p)
<1> HIDE DEF sb, sl
<1>4. Header(t.backend, f, sb, sl) = Header(t.backend, g, sb, sl)
  BY <1>1, <1>2, Zenon DEF Header
<1>5. BaseIn(t.backend, f, sb) = BaseIn(t.backend, g, sb)
  <2>1. t.backend \in {"vm", "x86_32", "esp32s3"}
    BY TaskShape, Zenon
  <2>2. CASE t.backend = "vm"
    <3>1. BaseIn(t.backend, f, sb) = f.at + 2 /\ BaseIn(t.backend, g, sb) = g.at + 2
      BY <2>2, Zenon DEF BaseIn
    <3> QED
      BY <1>1, <3>1
  <2>3. CASE t.backend = "x86_32"
    <3>1. /\ BaseIn(t.backend, f, sb) = IF sb THEN f.at + 2 ELSE Entered(f)
          /\ BaseIn(t.backend, g, sb) = IF sb THEN g.at + 2 ELSE Entered(g)
      BY <2>3, Zenon DEF BaseIn
    <3> QED
      BY <1>1, <1>2, <3>1
  <2>4. CASE t.backend = "esp32s3"
    <3>1. /\ BaseIn(t.backend, f, sb) = IF sb THEN f.at ELSE Entered(f)
          /\ BaseIn(t.backend, g, sb) = IF sb THEN g.at ELSE Entered(g)
      BY <2>4, Zenon DEF BaseIn
    <3> QED
      BY <1>1, <1>2, <3>1
  <2> QED
    BY <2>1, <2>2, <2>3, <2>4
<1>6. HeaderOf(t, f, p) = HeaderOf(t, g, p)
  BY <1>3, <1>4, Zenon DEF HeaderOf, sb, sl
<1>7. BaseOf(t, f, p) = BaseOf(t, g, p)
  BY <1>3, <1>5, Zenon DEF BaseOf, sb
<1> QED
  BY <1>2, <1>3, <1>6, <1>7

LEMMA OwnSet ==
    ASSUME NEW F \in Seq(Frames), Len(F) >= 1, NEW e \in Nat
    PROVE  LET n == Len(F)
               F2 == [F EXCEPT ![n].own = e]
           IN  /\ F2 \in Seq(Frames) /\ Len(F2) = n
               /\ \A i \in 1..(n - 1) : F2[i] = F[i]
               /\ F2[n] \in Frames /\ F2[n].own = e /\ Alike(F2[n], F[n])
               /\ \A i \in 1..n : Alike(F2[i], F[i])
<1> DEFINE n == Len(F)
           g == [F[n] EXCEPT !.own = e]
           F2 == [F EXCEPT ![n].own = e]
<1>1. n \in Nat /\ n >= 1 /\ DOMAIN F = 1..n /\ \A i \in 1..n : F[i] \in Frames
  BY LenProperties, ElementOfSeq
<1>2. F[n] \in Frames
  BY <1>1
<1>3. g \in Frames /\ g.own = e /\ Alike(g, F[n])
  BY <1>2 DEF Frames, Alike
<1>4. F2 = [F EXCEPT ![n] = g]
  OBVIOUS
<1> HIDE DEF g, F2, n
<1>5. /\ F2 \in Seq(Frames) /\ Len(F2) = n /\ F2[n] = g /\ \A i \in 1..(n - 1) : F2[i] = F[i]
  BY <1>1, <1>3, <1>4, ExceptSeq
<1>6. \A i \in 1..n : Alike(F2[i], F[i])
  <2> TAKE i \in 1..n
  <2>1. CASE i = n
    BY <1>3, <1>5, <2>1
  <2>2. CASE i # n
    <3>1. i \in 1..(n - 1)
      BY <1>1, <2>2
    <3> QED
      BY <1>5, <3>1 DEF Alike
  <2> QED
    BY <2>1, <2>2
<1> QED
  BY <1>3, <1>5, <1>6 DEF F2, n

Located(t, pc, F, R2, F2) ==
    /\ FramesOK(t, pc + 1, R2, F2)
    /\ Len(F2) = Len(F) /\ Alike(Top(F2), Top(F))
    /\ \A i \in 1..Len(F) : Alike(F2[i], F[i])
    /\ BaseOf(t, Top(F2), pc + 1) = BaseOf(t, Top(F), pc + 1)

LEMMA Saving ==
    ASSUME NEW t \in Tasks, NEW pc, NEW R, NEW F, FramesOK(t, pc, R, F), NEW R2, Saves(t, pc, R, F, R2)
    PROVE  Located(t, pc, F, R2, [F EXCEPT ![Len(F)].own = Len(R2)])
<1> DEFINE f == Top(F)
           n == Len(F)
           F2 == [F EXCEPT ![Len(F)].own = Len(R2)]
           g == F2[n]
           h == HeaderOf(t, f, pc + 1)
<1>1. /\ n \in Nat /\ n >= 1 /\ F \in Seq(Frames) /\ F[1] = FirstFrame
      /\ \A i \in 1..n : F[i] \in Frames
      /\ f = F[n] /\ f \in Frames /\ Len(R) \in Nat /\ f.at <= f.own
      /\ f.at \in Nat /\ f.own \in Nat /\ f.below \in Nat /\ f.own <= f.below /\ f.own <= Len(R)
      /\ f.ret \in Nat /\ f.word \in Nat
      /\ pc \in DOMAIN CodeOf(t) /\ WordAt(t, pc) = f.word
      /\ n = 1 => f.word = 0
      /\ n > 1 => f # FirstFrame /\ CalledBy(t, f, F[n - 1])
      /\ f.below + (Len(R) - f.own) <= MaxCells
      /\ Holds(t, f, pc, R, Len(R))
  BY TopFacts
<1>2. /\ t.backend # "vm" /\ IsLocation(t, pc)
      /\ R2 \in ReturnStacks /\ Len(R2) >= Len(R) /\ Len(R2) = f.at + Len(h)
      /\ \A j \in 1..Len(R) : R2[j] = R[j]
      /\ \A j \in 1..Len(h) : R2[f.at + j] = h[j]
  BY Zenon DEF Saves, f, h
<1>3. Len(R2) \in Nat
  BY <1>2, LenProperties DEF ReturnStacks
<1>4. Len(h) \in 0..2
  BY HeaderIs, Zenon DEF IsHeader
<1>5. f.word = pc /\ pc \in Nat /\ pc >= 1
  BY <1>1, <1>2, BehindLocation
<1>6. n > 1
  <2> HIDE DEF n, f
  <2> QED
    BY <1>1, <1>5
<1>7. Len(R) = f.own
  BY <1>2, Zenon DEF FramesOK, f
<1>8. /\ F2 \in Seq(Frames) /\ Len(F2) = n
      /\ \A i \in 1..(n - 1) : F2[i] = F[i]
      /\ g \in Frames /\ g.own = Len(R2) /\ Alike(g, F[n])
      /\ \A i \in 1..n : Alike(F2[i], F[i])
  BY <1>1, <1>3, OwnSet
<1> HIDE DEF F2, g, f, n, h
<1>9. Top(F2) = g
  BY <1>8, Zenon DEF Top, g
<1>10. /\ g.at = f.at /\ g.below = f.below /\ g.word = f.word /\ g.ret = f.ret
       /\ g.base = f.base /\ g.fromC = f.fromC /\ g.open = f.open /\ Alike(g, f)
  BY <1>1, <1>8, Zenon DEF Alike
<1>11. f # FirstFrame /\ g # FirstFrame
  BY <1>1, <1>5, <1>6, <1>10 DEF FirstFrame
<1>12. /\ HeaderOf(t, g, pc + 1) = h /\ BaseOf(t, g, pc + 1) = BaseOf(t, f, pc + 1)
       /\ SavesLr(t, g, pc + 1) = SavesLr(t, f, pc + 1)
       /\ OpenedBy(g) = OpenedBy(f) /\ Address(g) = Address(f)
  BY <1>10, <1>11, AlikeSave, Zenon DEF h
<1>13. CalledBy(t, f, F[n - 1])
  BY <1>1, <1>6
<1>14. f.below >= f.at + 2
  <2>1. F[n - 1] \in Frames /\ n - 1 \in 1..n /\ n - 1 \in 1..(n - 1) /\ n - 1 < n
    BY <1>1, <1>6
  <2>2. F[n - 1].own \in Nat /\ F[n - 1].below \in Nat
    BY <2>1 DEF Frames
  <2>3. F[n - 1].own <= F[n - 1].below
    <3>1. \A i \in 1..n : Holds(t, F[i], PlaceOf(F, pc, i), R, EndOf(F, R, i))
      BY Zenon DEF FramesOK, n
    <3>2. Holds(t, F[n - 1], PlaceOf(F, pc, n - 1), R, EndOf(F, R, n - 1))
      BY <2>1, <3>1
    <3> QED
      BY <3>2, Zenon DEF Holds
  <2>4. f.below = F[n - 1].below + (f.at - F[n - 1].own) + 2
    BY <1>13, Zenon DEF CalledBy
  <2> DEFINE e == F[n - 1].own
             b == F[n - 1].below
  <2>5. f.at \in Nat /\ f.below \in Nat
    BY <1>1
  <2> HIDE DEF e, b
  <2>6. e \in Nat /\ b \in Nat /\ e <= b /\ f.below = b + (f.at - e) + 2
    BY <2>2, <2>3, <2>4 DEF e, b
  <2> QED
    BY <2>5, <2>6
<1>15. CodeOf(t)[pc].op \notin {"BRANCH", "EXIT_WORD", "HALT"}
  BY <1>2 DEF IsLocation
<1>16. pc + 1 \in DOMAIN CodeOf(t) /\ WordAt(t, pc + 1) = f.word /\ ~IsLocation(t, pc + 1)
  BY <1>1, <1>15, NextPlace
<1>17. Holds(t, g, pc + 1, R2, Len(R2))
  <2>1. \A j \in (g.own + 1)..Len(R2) : R2[j] \in {"cell"} \X Cell
    BY <1>3, <1>8
  <2>2. g.own <= Len(R2) /\ g.own = g.at + Len(h) /\ g.own <= g.below
    <3>1. g.own = Len(R2) /\ Len(R2) = f.at + Len(h) /\ g.at = f.at /\ g.below = f.below /\ f.at \in Nat
          /\ f.below \in Nat
      BY <1>1, <1>2, <1>8, <1>10
    <3>2. g.own <= Len(R2)
      BY <1>3, <3>1
    <3>3. g.own = g.at + Len(h)
      BY <3>1
    <3>4. f.below >= f.at + 2 /\ Len(h) \in 0..2
      BY <1>4, <1>14
    <3>5. f.at + Len(h) <= f.below
      <4> DEFINE a == f.at
                 b == f.below
                 l == Len(h)
      <4>1. a \in Nat /\ b \in Nat /\ l \in 0..2 /\ b >= a + 2
        BY <3>1, <3>4
      <4> HIDE DEF a, b, l
      <4>2. a + l <= b
        BY <4>1
      <4> QED
        BY <4>2 DEF a, b, l
    <3>6. g.own <= g.below
      BY <3>1, <3>5, Zenon
    <3> QED
      BY <3>2, <3>3, <3>6
  <2>3. \A j \in 1..Len(h) : R2[g.at + j] = h[j]
    BY <1>2, <1>10
  <2>4. g.word # 0 /\ g.ret # 0 /\ g.base \in {Junk} \cup 0..g.at
    <3>1. f # FirstFrame => f.ret # 0
      BY <1>1, Zenon DEF Holds
    <3>2. f.base \in {Junk} \cup 0..f.at
      BY <1>1, Zenon DEF Holds
    <3> QED
      BY <1>5, <1>10, <1>11, <3>1, <3>2
  <2> QED
    BY <1>2, <1>10, <1>12, <1>16, <2>1, <2>2, <2>3, <2>4, Zenon DEF Holds
<1>18. \A i \in 1..n : Holds(t, F2[i], PlaceOf(F2, pc + 1, i), R2, EndOf(F2, R2, i))
  <2> TAKE i \in 1..n
  <2>1. CASE i = n
    <3>1. ~(i < n)
      BY <1>1, <2>1
    <3> QED
      BY <1>8, <1>17, <2>1, <3>1, Zenon DEF PlaceOf, EndOf, g
  <2>2. CASE i # n
    <3>1. i < n /\ i \in 1..(n - 1) /\ i + 1 \in 1..n /\ i \in 1..n
      BY <1>1, <2>2
    <3>2. F2[i] = F[i] /\ F2[i + 1].at = F[i + 1].at /\ F2[i + 1].ret = F[i + 1].ret
      BY <1>8, <3>1 DEF Alike
    <3>3. Holds(t, F[i], F[i + 1].ret - 1, R2, F[i + 1].at)
      <4>1. i \in 1..(Len(F) - 1) /\ Len(R) \in Nat /\ Len(R) >= Top(F).at
        BY <1>1, <3>1 DEF f, n
      <4> QED
        BY <1>2, <4>1, LowerHold
    <3>4. PlaceOf(F2, pc + 1, i) = F[i + 1].ret - 1 /\ EndOf(F2, R2, i) = F[i + 1].at
      BY <1>8, <3>1, <3>2, Zenon DEF PlaceOf, EndOf
    <3> QED
      BY <3>2, <3>3, <3>4, Zenon
  <2> QED
    BY <2>1, <2>2
<1>19. /\ \A i \in 1..(n - 1) : CalledBy(t, F[i + 1], F[i])
       /\ \A i, j \in 1..n : i <= j => F[i].at <= F[j].at
  BY Zenon DEF FramesOK, n
<1>20. \A i \in 1..(n - 1) : CalledBy(t, F2[i + 1], F2[i])
  <2> TAKE i \in 1..(n - 1)
  <2>1. CASE i = n - 1
    <3>1. F2[i] = F[n - 1] /\ F2[i + 1] = g
      BY <1>1, <1>8, <2>1 DEF g
    <3>2. CalledBy(t, g, F[n - 1])
      BY <1>10, <1>11, <1>13, Zenon DEF CalledBy
    <3> QED
      BY <3>1, <3>2
  <2>2. CASE i # n - 1
    <3>1. i + 1 \in 1..(n - 1)
      BY <1>1, <2>2
    <3> QED
      BY <1>8, <1>19, <3>1
  <2> QED
    BY <2>1, <2>2
<1>21. \A i, j \in 1..n : i <= j => F2[i].at <= F2[j].at
  <2>1. \A i \in 1..n : F2[i].at = F[i].at
    BY <1>8 DEF Alike
  <2> QED
    BY <1>19, <2>1
<1>22. g.below + (Len(R2) - g.own) <= MaxCells
  <2>1. MaxCells \in Int
    BY PrimitivesAssumption DEF Half
  <2> QED
    BY <1>1, <1>3, <1>7, <1>8, <1>10, <2>1
<1>23. F2[1] = FirstFrame
  <2>1. 1 \in 1..(n - 1)
    BY <1>1, <1>6
  <2> QED
    BY <1>1, <1>8, <2>1
<1>24. FramesOK(t, pc + 1, R2, F2)
  BY <1>1, <1>2, <1>8, <1>9, <1>16, <1>18, <1>20, <1>21, <1>22, <1>23, Zenon DEF FramesOK
<1>25. /\ Len(F2) = Len(F) /\ Alike(Top(F2), f) /\ \A i \in 1..Len(F) : Alike(F2[i], F[i])
       /\ BaseOf(t, Top(F2), pc + 1) = BaseOf(t, f, pc + 1)
  BY <1>5, <1>6, <1>7, <1>8, <1>9, <1>10, <1>11, <1>12 DEF F2, f, n, g
<1> QED
  BY <1>24, <1>25, Zenon DEF Located, F2, f

-----------------------------------------------------------------------------
(* The calls that frames stand for.                                          *)

(* The calls that frames stand for, see Engines!Calls.                     *)
CallsOf(F, R) ==
    [i \in DOMAIN F |->
        [ret |-> F[i].ret, below |-> F[i].below, rs |-> CellsOf(R, F[i].own + 1, EndOf(F, R, i))]]
CallIn(f, R, e) == [ret |-> f.ret, below |-> f.below, rs |-> CellsOf(R, f.own + 1, e)]

LEMMA IsSequence ==
    ASSUME NEW n \in Nat, NEW c, c = [i \in 1..n |-> c[i]]
    PROVE  \E S : c \in Seq(S) /\ Len(c) = n
<1> DEFINE S == {c[i] : i \in 1..n}
<1>1. c \in [1..n -> S]
  BY Zenon
<1>2. c \in Seq(S)
  BY <1>1, SeqDef
<1>3. DOMAIN c = 1..n
  BY <1>1
<1>4. Len(c) = n
  BY <1>2, <1>3, LenProperties
<1> QED
  BY <1>2, <1>4

LEMMA AppendForm ==
    ASSUME NEW n \in Nat, NEW c, c = [i \in 1..n |-> c[i]], NEW x
    PROVE  Append(c, x) = [i \in 1..(n + 1) |-> IF i <= n THEN c[i] ELSE x]
<1>1. PICK S : c \in Seq(S) /\ Len(c) = n
  BY IsSequence
<1> DEFINE T == S \cup {x}
           a == Append(c, x)
<1>2. c \in Seq(T) /\ x \in T
  BY <1>1
<1>3. a \in Seq(T) /\ Len(a) = n + 1 /\ a[n + 1] = x /\ \A i \in 1..n : a[i] = c[i]
  BY <1>1, <1>2, AppendProperties
<1> HIDE DEF a, T
<1>4. a = [i \in 1..(n + 1) |-> a[i]]
  <2>1. DOMAIN a = 1..(n + 1) /\ a \in [1..(n + 1) -> T]
    BY <1>3, LenProperties
  <2> QED
    BY <2>1
<1>5. \A i \in 1..(n + 1) : a[i] = IF i <= n THEN c[i] ELSE x
  <2> TAKE i \in 1..(n + 1)
  <2>1. CASE i <= n
    BY <1>3, <2>1
  <2>2. CASE ~(i <= n)
    <3>1. i = n + 1
      BY <2>2
    <3> QED
      BY <1>3, <2>2, <3>1
  <2> QED
    BY <2>1, <2>2
<1>6. a = [i \in 1..(n + 1) |-> IF i <= n THEN c[i] ELSE x]
  BY <1>4, <1>5, Zenon
<1> QED
  BY <1>6 DEF a

LEMMA FrontForm ==
    ASSUME NEW n \in Nat, n >= 1, NEW c, c = [i \in 1..n |-> c[i]]
    PROVE  SubSeq(c, 1, n - 1) = [i \in 1..(n - 1) |-> c[i]]
<1>1. PICK S : c \in Seq(S) /\ Len(c) = n
  BY IsSequence
<1> DEFINE a == SubSeq(c, 1, n - 1)
<1>2. a \in Seq(S) /\ Len(a) = n - 1 /\ \A i \in 1..(n - 1) : a[i] = c[i]
  BY <1>1, SubSeqProperties
<1> HIDE DEF a
<1>3. a = [i \in 1..(n - 1) |-> a[i]]
  <2>1. a \in [1..(n - 1) -> S]
    BY <1>2, LenProperties
  <2> QED
    BY <2>1
<1>4. a = [i \in 1..(n - 1) |-> c[i]]
  BY <1>2, <1>3, Zenon
<1> QED
  BY <1>4 DEF a

LEMMA CellsSame ==
    ASSUME NEW R, NEW R2, NEW a \in Nat, NEW e \in Int, \A j \in a..e : R2[j] = R[j]
    PROVE  CellsOf(R2, a, e) = CellsOf(R, a, e)
<1>1. \A i \in 1..(e - a + 1) : R2[a + i - 1] = R[a + i - 1]
  <2> TAKE i \in 1..(e - a + 1)
  <2>1. a + i - 1 \in a..e
    OBVIOUS
  <2> QED
    BY <2>1
<1> QED
  BY <1>1, Zenon DEF CellsOf

LEMMA NoCells ==
    ASSUME NEW R, NEW a \in Nat
    PROVE  CellsOf(R, a + 1, a) = <<>>
  BY DEF CellsOf

LEMMA CallsForm ==
    ASSUME NEW F, NEW R, NEW n, DOMAIN F = 1..n
    PROVE  CallsOf(F, R) = [i \in 1..n |-> CallIn(F[i], R, EndOf(F, R, i))]
  BY Zenon DEF CallsOf, CallIn

(* The calls as sequences, and the one that runs.                          *)
LEMMA CallsAre ==
    ASSUME NEW t \in Tasks, NEW pc, NEW R, NEW F, FramesOK(t, pc, R, F)
    PROVE  LET c == CallsOf(F, R)
               f == Top(F)
               n == Len(F)
           IN  /\ c = [i \in 1..n |-> c[i]] /\ Len(c) = n
               /\ c[n] = CallIn(f, R, Len(R))
               /\ c[n].ret = f.ret /\ c[n].below = f.below /\ c[n].rs = Returns(R, f.own)
               /\ Len(c[n].rs) = Len(R) - f.own
               /\ \A i \in 1..(n - 1) : c[i] = CallIn(F[i], R, F[i + 1].at)
<1> DEFINE c == CallsOf(F, R)
           f == Top(F)
           n == Len(F)
<1>1. /\ n \in Nat /\ n >= 1 /\ DOMAIN F = 1..n /\ f = F[n] /\ f.own \in Nat /\ Len(R) \in Nat
      /\ f.own <= Len(R)
  BY TopFacts
<1>2. c = [i \in 1..n |-> CallIn(F[i], R, EndOf(F, R, i))]
  BY <1>1, CallsForm
<1> HIDE DEF c, f, n
<1>3. c = [i \in 1..n |-> c[i]]
  BY <1>2
<1>4. Len(c) = n
  BY <1>1, <1>2
<1>5. \A i \in 1..n : c[i] = CallIn(F[i], R, EndOf(F, R, i))
  BY <1>2
<1>6. n \in 1..n /\ ~(n < n)
  BY <1>1
<1>7. c[n] = CallIn(f, R, Len(R))
  <2>1. EndOf(F, R, n) = Len(R)
    BY <1>6, Zenon DEF EndOf, n
  <2> QED
    BY <1>1, <1>5, <1>6, <2>1, Zenon
<1>8. \A i \in 1..(n - 1) : c[i] = CallIn(F[i], R, F[i + 1].at)
  <2> TAKE i \in 1..(n - 1)
  <2>1. i < n /\ i \in 1..n
    BY <1>1
  <2>2. EndOf(F, R, i) = F[i + 1].at
    BY <2>1, Zenon DEF EndOf, n
  <2> QED
    BY <1>5, <2>1, <2>2, Zenon
<1>9. c[n].ret = f.ret /\ c[n].below = f.below /\ c[n].rs = Returns(R, f.own)
  BY <1>7 DEF CallIn, Returns
<1>10. Len(Returns(R, f.own)) = Len(R) - f.own
  BY <1>1 DEF Returns, CellsOf
<1> QED
  BY <1>3, <1>4, <1>7, <1>8, <1>9, <1>10 DEF c, f, n

-----------------------------------------------------------------------------
(* The calls behind a step within a word and behind a call.                  *)

(* The calls with another return stack for the one that runs.              *)
OwnAs(c, rs) == [c EXCEPT ![Len(c)].rs = rs]

Replaced(c, n, r, b, s) == [i \in 1..n |-> IF i = n THEN [ret |-> r, below |-> b, rs |-> s] ELSE c[i]]

LEMMA OwnForm ==
    ASSUME NEW n \in Nat, n >= 1, NEW c, c = [i \in 1..n |-> c[i]], Len(c) = n,
           NEW r, NEW b, NEW s, c[n] = [ret |-> r, below |-> b, rs |-> s], NEW s2
    PROVE  OwnAs(c, s2) = Replaced(c, n, r, b, s2)
<1> DEFINE x == [c[n] EXCEPT !.rs = s2]
<1>1. x = [ret |-> r, below |-> b, rs |-> s2]
  OBVIOUS
<1>2. OwnAs(c, s2) = [c EXCEPT ![n] = x]
  BY Zenon DEF OwnAs, x
<1> HIDE DEF x
<1>3. [c EXCEPT ![n] = x] = [i \in 1..n |-> IF i = n THEN x ELSE c[i]]
  OBVIOUS
<1> QED
  BY <1>1, <1>2, <1>3, Zenon DEF Replaced

LEMMA CallsStraight ==
    ASSUME NEW t \in Tasks, NEW pc, NEW R, NEW F, FramesOK(t, pc, R, F), NEW R2, Keeps(F, R, R2)
    PROVE  CallsOf(F, R2) = OwnAs(CallsOf(F, R), Returns(R2, Top(F).own))
<1> DEFINE c == CallsOf(F, R)
           f == Top(F)
           n == Len(F)
           s2 == Returns(R2, f.own)
<1>1. /\ n \in Nat /\ n >= 1 /\ DOMAIN F = 1..n /\ f = F[n] /\ f.own \in Nat /\ f.at <= f.own /\ f.at \in Nat
      /\ \A i \in 1..n : F[i] \in Frames
  BY TopFacts
<1>2. /\ c = [i \in 1..n |-> c[i]] /\ Len(c) = n /\ c[n] = CallIn(f, R, Len(R))
      /\ \A i \in 1..(n - 1) : c[i] = CallIn(F[i], R, F[i + 1].at)
  BY CallsAre
<1>3. CallsOf(F, R2) = [i \in 1..n |-> CallIn(F[i], R2, EndOf(F, R2, i))]
  BY <1>1, CallsForm
<1>4. \A j \in 1..f.own : R2[j] = R[j]
  BY Zenon DEF Keeps, f
<1>10. \A i \in 1..(n - 1) : F[i + 1].at \in Nat /\ F[i + 1].at <= f.at
  <2> TAKE i \in 1..(n - 1)
  <2>1. i \in 1..(Len(F) - 1) /\ f.own \in Nat /\ f.own >= Top(F).at
    BY <1>1
  <2> DEFINE o == f.own
  <2>2. o \in Nat /\ o >= Top(F).at /\ \A j \in 1..o : R2[j] = R[j]
    BY <1>4, <2>1
  <2> HIDE DEF o
  <2> QED
    BY <2>1, <2>2, LowerHold DEF f
<1> HIDE DEF c, f, n, s2
<1>5. OwnAs(c, s2) = [i \in 1..n |-> IF i = n THEN [ret |-> f.ret, below |-> f.below, rs |-> s2] ELSE c[i]]
  <2>1. c[n] = [ret |-> f.ret, below |-> f.below, rs |-> CellsOf(R, f.own + 1, Len(R))]
    BY <1>2, Zenon DEF CallIn
  <2> DEFINE s == CellsOf(R, f.own + 1, Len(R))
             r == f.ret
             b == f.below
  <2>2. c[n] = [ret |-> r, below |-> b, rs |-> s] /\ c = [i \in 1..n |-> c[i]] /\ Len(c) = n
    BY <1>2, <2>1
  <2> HIDE DEF s, r, b
  <2>3. OwnAs(c, s2) = Replaced(c, n, r, b, s2)
    BY <1>1, <2>2, OwnForm
  <2> QED
    BY <2>3, Zenon DEF Replaced, r, b
<1>6. \A i \in 1..n : CallIn(F[i], R2, EndOf(F, R2, i)) =
        IF i = n THEN [ret |-> f.ret, below |-> f.below, rs |-> s2] ELSE c[i]
  <2> TAKE i \in 1..n
  <2>1. CASE i = n
    <3>1. EndOf(F, R2, i) = Len(R2)
      <4>1. ~(i < n)
        BY <1>1, <2>1
      <4> QED
        BY <4>1, Zenon DEF EndOf, n
    <3>2. CallIn(F[i], R2, EndOf(F, R2, i)) = [ret |-> f.ret, below |-> f.below, rs |-> s2]
      BY <1>1, <2>1, <3>1, Zenon DEF CallIn, s2, Returns
    <3> QED
      BY <2>1, <3>2, Zenon
  <2>2. CASE i # n
    <3>1. i < n /\ i \in 1..(n - 1) /\ i + 1 \in 1..n
      BY <1>1, <2>2
    <3>2. EndOf(F, R2, i) = F[i + 1].at
      BY <3>1, Zenon DEF EndOf, n
    <3>3. F[i + 1].at \in Nat /\ F[i + 1].at <= f.own
      BY <1>1, <1>10, <3>1
    <3>4. F[i].own + 1 \in Nat /\ F[i].own + 1 >= 1
      <4>1. F[i] \in Frames
        BY <1>1
      <4> QED
        BY <4>1 DEF Frames
    <3>5. CellsOf(R2, F[i].own + 1, F[i + 1].at) = CellsOf(R, F[i].own + 1, F[i + 1].at)
      <4>1. \A j \in (F[i].own + 1)..F[i + 1].at : R2[j] = R[j]
        <5> TAKE j \in (F[i].own + 1)..F[i + 1].at
        <5>1. j \in 1..f.own
          BY <1>1, <3>3, <3>4
        <5> QED
          BY <1>4, <5>1
      <4>2. F[i + 1].at \in Int
        BY <3>3
      <4> QED
        BY <3>4, <4>1, <4>2, CellsSame
    <3>6. CallIn(F[i], R2, F[i + 1].at) = CallIn(F[i], R, F[i + 1].at)
      BY <3>5, Zenon DEF CallIn
    <3> QED
      BY <1>2, <2>2, <3>1, <3>2, <3>6, Zenon
  <2> QED
    BY <2>1, <2>2
<1>7. CallsOf(F, R2) = OwnAs(c, s2)
  BY <1>3, <1>5, <1>6, Zenon
<1> QED
  BY <1>7 DEF c, f, s2

LEMMA CallsEnter ==
    ASSUME NEW t \in Tasks, NEW pc, NEW R, NEW F, FramesOK(t, pc, R, F),
           NEW to, NEW g, NEW R2, Enters(t, pc, R, F, to, g, R2)
    PROVE  CallsOf(Append(F, g), R2) =
               Append(CallsOf(F, R), [ret |-> pc + 1, rs |-> <<>>,
                                      below |-> Top(F).below + Len(Returns(R, Top(F).own)) + 2])
<1> DEFINE c == CallsOf(F, R)
           f == Top(F)
           n == Len(F)
           F2 == Append(F, g)
           x == [ret |-> pc + 1, rs |-> <<>>, below |-> f.below + Len(Returns(R, f.own)) + 2]
<1>1. /\ n \in Nat /\ n >= 1 /\ DOMAIN F = 1..n /\ f = F[n] /\ f.own \in Nat /\ f.below \in Nat
      /\ f.own <= Len(R) /\ F \in Seq(Frames)
      /\ f.at <= f.own /\ f.at \in Nat /\ Len(R) \in Nat
      /\ \A i \in 1..n : F[i] \in Frames
  BY TopFacts
<1>2. /\ c = [i \in 1..n |-> c[i]] /\ Len(c) = n /\ c[n] = CallIn(f, R, Len(R))
      /\ \A i \in 1..(n - 1) : c[i] = CallIn(F[i], R, F[i + 1].at)
      /\ c[n].rs = Returns(R, f.own) /\ Len(c[n].rs) = Len(R) - f.own
  BY CallsAre
<1>3. /\ g \in Frames /\ g.at = Len(R) /\ g.ret = pc + 1 /\ g.own = Len(R2)
      /\ g.below = f.below + (g.at - f.own) + 2 /\ R2 \in ReturnStacks
      /\ \A j \in 1..Len(R) : R2[j] = R[j]
  BY Zenon DEF Enters, f
<1>4. /\ F2 \in Seq(Frames) /\ Len(F2) = n + 1 /\ F2[n + 1] = g /\ \A i \in 1..n : F2[i] = F[i]
  BY <1>1, <1>3, AppendProperties
<1>5. DOMAIN F2 = 1..(n + 1)
  BY <1>4, LenProperties
<1>6. CallsOf(F2, R2) = [i \in 1..(n + 1) |-> CallIn(F2[i], R2, EndOf(F2, R2, i))]
  BY <1>5, CallsForm
<1>10. \A i \in 1..(n - 1) : F[i + 1].at \in Nat /\ F[i + 1].at <= f.at
  <2> TAKE i \in 1..(n - 1)
  <2>1. i \in 1..(Len(F) - 1)
    BY <1>1
  <2> DEFINE o == Len(R)
  <2>2. o \in Nat /\ o >= Top(F).at /\ \A j \in 1..o : R2[j] = R[j]
    BY <1>1, <1>3
  <2> HIDE DEF o
  <2> QED
    BY <2>1, <2>2, LowerHold DEF f
<1> HIDE DEF c, f, n, F2, x
<1>7. Append(c, x) = [i \in 1..(n + 1) |-> IF i <= n THEN c[i] ELSE x]
  BY <1>1, <1>2, AppendForm
<1>8. x = [ret |-> g.ret, below |-> g.below, rs |-> <<>>]
  <2>1. f.below + Len(Returns(R, f.own)) + 2 = g.below
    <3>1. Len(Returns(R, f.own)) = Len(R) - f.own
      BY <1>2
    <3> QED
      BY <1>1, <1>3, <3>1
  <2> QED
    BY <1>3, <2>1 DEF x
<1>9. \A i \in 1..(n + 1) : CallIn(F2[i], R2, EndOf(F2, R2, i)) = IF i <= n THEN c[i] ELSE x
  <2> TAKE i \in 1..(n + 1)
  <2>1. CASE i = n + 1
    <3>1. ~(i < n + 1) /\ ~(i <= n)
      BY <1>1, <2>1
    <3>2. EndOf(F2, R2, i) = Len(R2) /\ F2[i] = g
      BY <1>4, <2>1, <3>1, Zenon DEF EndOf
    <3>3. CellsOf(R2, g.own + 1, Len(R2)) = <<>>
      <4>1. Len(R2) \in Nat
        BY <1>3, LenProperties DEF ReturnStacks
      <4> QED
        BY <1>3, <4>1, NoCells
    <3>4. CallIn(g, R2, Len(R2)) = x
      BY <1>8, <3>3, Zenon DEF CallIn
    <3> QED
      BY <3>1, <3>2, <3>4, Zenon
  <2>2. CASE i # n + 1
    <3>1. i \in 1..n /\ i <= n /\ i < n + 1 /\ i + 1 \in 1..(n + 1)
      BY <1>1, <2>2
    <3> DEFINE e == IF i = n THEN Len(R) ELSE F[i + 1].at
    <3>2. EndOf(F2, R2, i) = F2[i + 1].at /\ F2[i] = F[i]
      BY <1>4, <3>1, Zenon DEF EndOf
    <3>3. F2[i + 1].at = e /\ e \in Nat /\ e <= Len(R) /\ c[i] = CallIn(F[i], R, e)
      <4>1. CASE i = n
        BY <1>1, <1>2, <1>3, <1>4, <4>1
      <4>2. CASE i # n
        <5>1. i \in 1..(n - 1) /\ i + 1 \in 1..n
          BY <1>1, <3>1, <4>2
        <5>2. F2[i + 1] = F[i + 1] /\ F[i + 1].at \in Nat /\ F[i + 1].at <= f.at
          BY <1>4, <1>10, <5>1
        <5>3. F[i + 1].at <= Len(R)
          BY <1>1, <5>2
        <5> QED
          BY <1>2, <4>2, <5>1, <5>2, <5>3
      <4> QED
        BY <4>1, <4>2
    <3> HIDE DEF e
    <3>4. F[i].own + 1 \in Nat /\ F[i].own + 1 >= 1
      <4>1. F[i] \in Frames
        BY <1>1, <3>1
      <4> QED
        BY <4>1 DEF Frames
    <3>5. CellsOf(R2, F[i].own + 1, e) = CellsOf(R, F[i].own + 1, e)
      <4>1. \A j \in (F[i].own + 1)..e : R2[j] = R[j]
        <5> TAKE j \in (F[i].own + 1)..e
        <5>1. j \in 1..Len(R)
          BY <1>1, <3>3, <3>4
        <5> QED
          BY <1>3, <5>1
      <4>2. e \in Int
        BY <3>3
      <4> QED
        BY <3>4, <4>1, <4>2, CellsSame
    <3>6. CallIn(F[i], R2, e) = CallIn(F[i], R, e)
      BY <3>5, Zenon DEF CallIn
    <3> QED
      BY <3>1, <3>2, <3>3, <3>6, Zenon
  <2> QED
    BY <2>1, <2>2
<1>11. CallsOf(F2, R2) = Append(c, x)
  BY <1>6, <1>7, <1>9, Zenon
<1> QED
  BY <1>11 DEF c, f, F2, x

-----------------------------------------------------------------------------
(* The calls behind a return and behind the location of a word.              *)

LEMMA CallsLeave ==
    ASSUME NEW t \in Tasks, NEW pc, NEW R, NEW F, FramesOK(t, pc, R, F), Len(F) > 1,
           NEW R2 \in ReturnStacks, Len(R2) = Top(F).at, \A j \in 1..Top(F).at : R2[j] = R[j]
    PROVE  CallsOf(SubSeq(F, 1, Len(F) - 1), R2) = SubSeq(CallsOf(F, R), 1, Len(CallsOf(F, R)) - 1)
<1> DEFINE c == CallsOf(F, R)
           f == Top(F)
           n == Len(F)
           F2 == SubSeq(F, 1, n - 1)
<1>1. /\ n \in Nat /\ n >= 1 /\ DOMAIN F = 1..n /\ f = F[n] /\ f.own \in Nat
      /\ F \in Seq(Frames) /\ f.at \in Nat
      /\ \A i \in 1..n : F[i] \in Frames
  BY TopFacts
<1>2. /\ c = [i \in 1..n |-> c[i]] /\ Len(c) = n
      /\ \A i \in 1..(n - 1) : c[i] = CallIn(F[i], R, F[i + 1].at)
  BY CallsAre
<1>3. n > 1 /\ \A j \in 1..f.at : R2[j] = R[j]
  OBVIOUS
<1>12. Len(R2) = f.at
  OBVIOUS
<1>4. /\ F2 \in Seq(Frames) /\ Len(F2) = n - 1 /\ \A i \in 1..(n - 1) : F2[i] = F[i]
  BY <1>1, SubSeqProperties
<1>5. DOMAIN F2 = 1..(n - 1)
  BY <1>4, LenProperties
<1>6. CallsOf(F2, R2) = [i \in 1..(n - 1) |-> CallIn(F2[i], R2, EndOf(F2, R2, i))]
  BY <1>5, CallsForm
<1>10. \A i \in 1..(n - 1) : F[i + 1].at \in Nat /\ F[i + 1].at <= f.at
  <2> TAKE i \in 1..(n - 1)
  <2>1. i \in 1..(Len(F) - 1)
    BY <1>1
  <2> DEFINE o == f.at
  <2>2. o \in Nat /\ o >= Top(F).at /\ \A j \in 1..o : R2[j] = R[j]
    BY <1>1, <1>3
  <2> HIDE DEF o
  <2> QED
    BY <2>1, <2>2, LowerHold DEF f
<1> HIDE DEF c, f, n, F2
<1>7. SubSeq(c, 1, n - 1) = [i \in 1..(n - 1) |-> c[i]]
  BY <1>1, <1>2, FrontForm
<1>9. \A i \in 1..(n - 1) : CallIn(F2[i], R2, EndOf(F2, R2, i)) = c[i]
  <2> TAKE i \in 1..(n - 1)
  <2>1. i \in 1..n /\ i + 1 \in 1..n
    BY <1>1, <1>3
  <2>2. EndOf(F2, R2, i) = F[i + 1].at
    <3>1. CASE i = n - 1
      <4>1. ~(i < n - 1) /\ F[i + 1] = f
        BY <1>1, <3>1
      <4> QED
        BY <1>4, <1>12, <4>1, Zenon DEF EndOf
    <3>2. CASE i # n - 1
      <4>1. i < n - 1 /\ i + 1 \in 1..(n - 1)
        BY <1>1, <3>2
      <4> QED
        BY <1>4, <4>1, Zenon DEF EndOf
    <3> QED
      BY <3>1, <3>2
  <2>3. F[i].own + 1 \in Nat /\ F[i].own + 1 >= 1
    <3>1. F[i] \in Frames
      BY <1>1, <2>1
    <3> QED
      BY <3>1 DEF Frames
  <2>4. CellsOf(R2, F[i].own + 1, F[i + 1].at) = CellsOf(R, F[i].own + 1, F[i + 1].at)
    <3>1. \A j \in (F[i].own + 1)..F[i + 1].at : R2[j] = R[j]
      <4> TAKE j \in (F[i].own + 1)..F[i + 1].at
      <4>1. F[i + 1].at \in Nat /\ F[i + 1].at <= f.at
        BY <1>10
      <4>2. j \in 1..f.at
        BY <1>1, <2>3, <4>1
      <4> QED
        BY <1>3, <4>2
    <3>2. F[i + 1].at \in Int
      BY <1>10
    <3> QED
      BY <2>3, <3>1, <3>2, CellsSame
  <2>5. CallIn(F[i], R2, F[i + 1].at) = CallIn(F[i], R, F[i + 1].at)
    BY <2>4, Zenon DEF CallIn
  <2> QED
    BY <1>2, <1>4, <2>2, <2>5, Zenon
<1>11. CallsOf(F2, R2) = SubSeq(c, 1, n - 1)
  BY <1>6, <1>7, <1>9, Zenon
<1> QED
  BY <1>2, <1>11 DEF c, F2, n

LEMMA CallsSave ==
    ASSUME NEW t \in Tasks, NEW pc, NEW R, NEW F, FramesOK(t, pc, R, F), NEW R2, Saves(t, pc, R, F, R2)
    PROVE  CallsOf([F EXCEPT ![Len(F)].own = Len(R2)], R2) = CallsOf(F, R)
<1> DEFINE c == CallsOf(F, R)
           f == Top(F)
           n == Len(F)
           F2 == [F EXCEPT ![Len(F)].own = Len(R2)]
<1>1. /\ n \in Nat /\ n >= 1 /\ DOMAIN F = 1..n /\ f = F[n] /\ f.own \in Nat
      /\ F \in Seq(Frames) /\ f.at \in Nat /\ Len(R) \in Nat /\ f.own <= Len(R) /\ f.at <= f.own
      /\ \A i \in 1..n : F[i] \in Frames
  BY TopFacts
<1>2. /\ c = [i \in 1..n |-> c[i]] /\ Len(c) = n
      /\ c[n] = CallIn(f, R, Len(R))
      /\ \A i \in 1..(n - 1) : c[i] = CallIn(F[i], R, F[i + 1].at)
  BY CallsAre
<1>3. \A j \in 1..Len(R) : R2[j] = R[j]
  BY Zenon DEF Saves
<1>4. Len(R2) \in Nat
  BY LenProperties DEF Saves, ReturnStacks
<1>5. /\ F2 \in Seq(Frames) /\ Len(F2) = n
      /\ \A i \in 1..(n - 1) : F2[i] = F[i]
      /\ F2[n] \in Frames /\ F2[n].own = Len(R2) /\ Alike(F2[n], F[n])
      /\ \A i \in 1..n : Alike(F2[i], F[i])
  BY <1>1, <1>4, OwnSet
<1>6. DOMAIN F2 = 1..n
  BY <1>5, LenProperties
<1>7. CallsOf(F2, R2) = [i \in 1..n |-> CallIn(F2[i], R2, EndOf(F2, R2, i))]
  BY <1>6, CallsForm
<1>8. Len(R) = f.own
  BY Zenon DEF FramesOK, Saves, f
<1>10. \A i \in 1..(n - 1) : F[i + 1].at \in Nat /\ F[i + 1].at <= f.at
  <2> TAKE i \in 1..(n - 1)
  <2>1. i \in 1..(Len(F) - 1)
    BY <1>1
  <2> DEFINE o == Len(R)
  <2>2. o \in Nat /\ o >= Top(F).at /\ \A j \in 1..o : R2[j] = R[j]
    BY <1>1, <1>3
  <2> HIDE DEF o
  <2> QED
    BY <2>1, <2>2, LowerHold DEF f
<1> HIDE DEF c, f, n, F2
<1>9. \A i \in 1..n : CallIn(F2[i], R2, EndOf(F2, R2, i)) = c[i]
  <2> TAKE i \in 1..n
  <2>1. CASE i = n
    <3>1. ~(i < n)
      BY <1>1, <2>1
    <3>2. EndOf(F2, R2, i) = Len(R2)
      BY <1>5, <3>1, Zenon DEF EndOf
    <3>3. CellsOf(R2, Len(R2) + 1, Len(R2)) = <<>> /\ CellsOf(R, f.own + 1, f.own) = <<>>
      BY <1>1, <1>4, NoCells
    <3>4. CellsOf(R2, F2[n].own + 1, Len(R2)) = CellsOf(R, f.own + 1, Len(R))
      BY <1>5, <1>8, <3>3, Zenon
    <3>5. F2[n].ret = f.ret /\ F2[n].below = f.below
      BY <1>1, <1>5 DEF Alike
    <3> QED
      BY <1>2, <2>1, <3>2, <3>4, <3>5, Zenon DEF CallIn
  <2>2. CASE i # n
    <3>1. i < n /\ i \in 1..(n - 1) /\ i + 1 \in 1..n
      BY <1>1, <2>2
    <3>2. F2[i + 1].at = F[i + 1].at
      BY <1>5, <3>1 DEF Alike
    <3>3. EndOf(F2, R2, i) = F[i + 1].at
      BY <1>5, <3>1, <3>2, Zenon DEF EndOf
    <3>4. F[i].own + 1 \in Nat /\ F[i].own + 1 >= 1
      <4>1. F[i] \in Frames
        BY <1>1
      <4> QED
        BY <4>1 DEF Frames
    <3>5. CellsOf(R2, F[i].own + 1, F[i + 1].at) = CellsOf(R, F[i].own + 1, F[i + 1].at)
      <4>1. \A j \in (F[i].own + 1)..F[i + 1].at : R2[j] = R[j]
        <5> TAKE j \in (F[i].own + 1)..F[i + 1].at
        <5>1. F[i + 1].at \in Nat /\ F[i + 1].at <= f.at
          BY <1>10, <3>1
        <5>2. j \in 1..Len(R)
          BY <1>1, <3>4, <5>1
        <5> QED
          BY <1>3, <5>2
      <4>2. F[i + 1].at \in Int
        BY <1>10, <3>1
      <4> QED
        BY <3>4, <4>1, <4>2, CellsSame
    <3>6. CallIn(F[i], R2, F[i + 1].at) = CallIn(F[i], R, F[i + 1].at)
      BY <3>5, Zenon DEF CallIn
    <3> QED
      BY <1>2, <1>5, <3>1, <3>3, <3>6, Zenon
  <2> QED
    BY <2>1, <2>2
<1>11. CallsOf(F2, R2) = c
  BY <1>2, <1>7, <1>9, Zenon
<1> QED
  BY <1>11 DEF c, F2

-----------------------------------------------------------------------------
(* The calls from C behind the same steps.                                   *)

(* C functions that have called back into the program.                       *)
CallsByC == [next : Nat, base : Int]

LEMMA OpenedIs ==
    ASSUME NEW f \in Frames
    PROVE  /\ OpenedBy(f) \in Nat /\ f.open \in Nat /\ f.fromC \in BOOLEAN
           /\ f.fromC => OpenedBy(f) = f.open + 1
           /\ ~f.fromC => OpenedBy(f) = f.open
  BY DEF OpenedBy, Frames

LEMMA NativeEnter ==
    ASSUME NEW t \in Tasks, NEW pc, NEW R, NEW F, FramesOK(t, pc, R, F), NEW N, NativeOK(F, N),
           NEW to, NEW g, NEW R2, Enters(t, pc, R, F, to, g, R2)
    PROVE  /\ ~g.fromC => NativeOK(Append(F, g), N)
           /\ g.fromC => NativeOK(Append(F, g), Append(N, [next |-> g.ret, base |-> g.base]))
           /\ g.open = Len(N)
<1> DEFINE f == Top(F)
           n == Len(F)
           F2 == Append(F, g)
           e == [next |-> g.ret, base |-> g.base]
           N2 == IF g.fromC THEN Append(N, e) ELSE N
<1>1. /\ n \in Nat /\ n >= 1 /\ F \in Seq(Frames) /\ f = F[n] /\ f \in Frames
      /\ \A i \in 1..n : F[i] \in Frames
  BY TopFacts
<1>2. g \in Frames /\ g.open = OpenedBy(f)
  BY Zenon DEF Enters, f
<1>3. /\ N \in Seq(CallsByC) /\ Len(N) = OpenedBy(f)
      /\ \A i, j \in 1..n : i < j => OpenedBy(F[i]) <= F[j].open
      /\ \A i \in 1..n : F[i].fromC => N[OpenedBy(F[i])] = [next |-> F[i].ret, base |-> F[i].base]
  BY Zenon DEF NativeOK, CallsByC, f, n
<1>4. /\ F2 \in Seq(Frames) /\ Len(F2) = n + 1 /\ F2[n + 1] = g /\ \A i \in 1..n : F2[i] = F[i]
  BY <1>1, <1>2, AppendProperties
<1>5. Top(F2) = g
  BY <1>4, Zenon DEF Top
<1>6. e \in CallsByC
  BY <1>2 DEF CallsByC, Frames
<1>7. Len(N) \in Nat
  BY <1>3, LenProperties
<1>8. /\ g.fromC => /\ N2 \in Seq(CallsByC) /\ Len(N2) = Len(N) + 1 /\ N2[Len(N) + 1] = e
                    /\ \A i \in 1..Len(N) : N2[i] = N[i]
      /\ ~g.fromC => N2 = N
  BY <1>3, <1>6, AppendProperties
<1> HIDE DEF f, n, F2, e, N2
<1>9. Len(N2) = OpenedBy(g) /\ N2 \in Seq(CallsByC) /\ \A i \in 1..Len(N) : N2[i] = N[i]
  BY <1>2, <1>3, <1>7, <1>8, OpenedIs
<1>10. \A i \in 1..n : OpenedBy(F[i]) \in Nat /\ OpenedBy(F[i]) <= Len(N)
  <2> TAKE i \in 1..n
  <2>1. F[i] \in Frames /\ F[n] \in Frames /\ n \in 1..n
    BY <1>1
  <2>2. OpenedBy(F[i]) \in Nat /\ f.open \in Nat /\ OpenedBy(f) >= f.open
    BY <1>1, <2>1, OpenedIs
  <2>3. CASE i = n
    BY <1>1, <1>3, <2>2, <2>3
  <2>4. CASE i # n
    <3>1. i < n
      BY <1>1, <2>4
    <3>2. OpenedBy(F[i]) <= f.open
      BY <1>1, <1>3, <2>1, <3>1
    <3> QED
      BY <1>3, <1>7, <2>2, <3>2
  <2> QED
    BY <2>3, <2>4
<1>11. \A i, j \in 1..(n + 1) : i < j => OpenedBy(F2[i]) <= F2[j].open
  <2> SUFFICES ASSUME NEW i \in 1..(n + 1), NEW j \in 1..(n + 1), i < j
               PROVE  OpenedBy(F2[i]) <= F2[j].open
    OBVIOUS
  <2>1. i \in 1..n
    BY <1>1
  <2>2. CASE j = n + 1
    BY <1>2, <1>3, <1>4, <1>10, <2>1, <2>2
  <2>3. CASE j # n + 1
    <3>1. j \in 1..n
      BY <1>1, <2>3
    <3> QED
      BY <1>3, <1>4, <2>1, <3>1
  <2> QED
    BY <2>2, <2>3
<1>12. \A i \in 1..(n + 1) : F2[i].fromC => N2[OpenedBy(F2[i])] = [next |-> F2[i].ret, base |-> F2[i].base]
  <2> SUFFICES ASSUME NEW i \in 1..(n + 1), F2[i].fromC
               PROVE  N2[OpenedBy(F2[i])] = [next |-> F2[i].ret, base |-> F2[i].base]
    OBVIOUS
  <2>1. CASE i = n + 1
    <3>1. g.fromC /\ F2[i] = g
      BY <1>4, <2>1
    <3>2. OpenedBy(g) = Len(N) + 1
      BY <1>2, <1>3, <3>1, OpenedIs
    <3> QED
      BY <1>8, <3>1, <3>2, Zenon DEF e
  <2>2. CASE i # n + 1
    <3>1. i \in 1..n /\ F2[i] = F[i] /\ F[i] \in Frames
      BY <1>1, <1>4, <2>2
    <3>2. OpenedBy(F[i]) \in 1..Len(N)
      BY <1>7, <1>10, <3>1, OpenedIs
    <3>3. N2[OpenedBy(F[i])] = N[OpenedBy(F[i])]
      BY <1>9, <3>2
    <3> QED
      BY <1>3, <3>1, <3>3, Zenon
  <2> QED
    BY <2>1, <2>2
<1>13. NativeOK(F2, N2)
  BY <1>4, <1>5, <1>9, <1>11, <1>12, Zenon DEF NativeOK, CallsByC
<1>14. g.open = Len(N)
  BY <1>2, <1>3
<1> QED
  BY <1>13, <1>14 DEF F2, N2, e

LEMMA NativeLeave ==
    ASSUME NEW t \in Tasks, NEW pc, NEW R, NEW F, FramesOK(t, pc, R, F), Len(F) > 1, NEW N, NativeOK(F, N)
    PROVE  LET f == Top(F)
               F2 == SubSeq(F, 1, Len(F) - 1)
           IN  /\ ~f.fromC => NativeOK(F2, N)
               /\ f.fromC => NativeOK(F2, Below(N, 1)) /\ Nth(N, 1) = [next |-> f.ret, base |-> f.base]
<1> DEFINE f == Top(F)
           n == Len(F)
           g == F[n - 1]
           F2 == SubSeq(F, 1, n - 1)
           N2 == IF f.fromC THEN Below(N, 1) ELSE N
<1>1. /\ n \in Nat /\ n >= 1 /\ F \in Seq(Frames) /\ f = F[n] /\ f \in Frames
      /\ \A i \in 1..n : F[i] \in Frames
      /\ n > 1 => CalledBy(t, f, F[n - 1])
  BY TopFacts
<1>2. n > 1 /\ f.open = OpenedBy(g)
  BY <1>1, Zenon DEF CalledBy
<1>3. /\ N \in Seq(CallsByC) /\ Len(N) = OpenedBy(f)
      /\ \A i, j \in 1..n : i < j => OpenedBy(F[i]) <= F[j].open
      /\ \A i \in 1..n : F[i].fromC => N[OpenedBy(F[i])] = [next |-> F[i].ret, base |-> F[i].base]
  BY Zenon DEF NativeOK, CallsByC, f, n
<1>4. /\ F2 \in Seq(Frames) /\ Len(F2) = n - 1 /\ \A i \in 1..(n - 1) : F2[i] = F[i]
  BY <1>1, SubSeqProperties
<1>5. Top(F2) = g
  <2>1. n - 1 \in 1..(n - 1)
    BY <1>1, <1>2
  <2> QED
    BY <1>4, <2>1 DEF Top
<1>6. OpenedBy(f) \in Nat /\ f.open \in Nat /\ f.fromC \in BOOLEAN
      /\ (f.fromC => OpenedBy(f) = f.open + 1) /\ (~f.fromC => OpenedBy(f) = f.open)
  BY <1>1, OpenedIs
<1>7. f.fromC => /\ N2 \in Seq(CallsByC) /\ Len(N2) = Len(N) - 1 /\ \A i \in 1..(Len(N) - 1) : N2[i] = N[i]
                 /\ Nth(N, 1) = N[Len(N)]
  <2> SUFFICES ASSUME f.fromC
               PROVE  /\ N2 \in Seq(CallsByC) /\ Len(N2) = Len(N) - 1 /\ \A i \in 1..(Len(N) - 1) : N2[i] = N[i]
                      /\ Nth(N, 1) = N[Len(N)]
    OBVIOUS
  <2>1. N2 = SubSeq(N, 1, Len(N) - 1)
    BY DEF Below
  <2>2. Len(N) \in Nat /\ Len(N) >= 1
    BY <1>3, <1>6
  <2> DEFINE l == Len(N)
  <2>3. Nth(N, 1) = N[l + 1 - 1]
    BY Zenon DEF Nth
  <2>4. l + 1 - 1 = l
    BY <2>2
  <2> HIDE DEF N2, f
  <2>5. N2 \in Seq(CallsByC) /\ Len(N2) = l - 1 /\ \A i \in 1..(l - 1) : N2[i] = N[i]
    BY <1>3, <2>1, <2>2, SubSeqProperties
  <2> QED
    BY <2>3, <2>4, <2>5
<1> HIDE DEF f, n, g, F2, N2
<1>8. /\ N2 \in Seq(CallsByC) /\ Len(N2) = f.open /\ \A i \in 1..f.open : N2[i] = N[i]
  <2>1. CASE f.fromC
    <3>1. Len(N) - 1 = f.open
      BY <1>3, <1>6, <2>1
    <3> QED
      BY <1>7, <2>1, <3>1
  <2>2. CASE ~f.fromC
    <3>1. N2 = N
      BY <2>2 DEF N2
    <3> QED
      BY <1>3, <1>6, <2>2, <3>1
  <2> QED
    BY <2>1, <2>2
<1>9. n \in 1..n /\ f.fromC => N[OpenedBy(f)] = [next |-> f.ret, base |-> f.base]
  BY <1>1, <1>3
<1>10. f.fromC => Nth(N, 1) = [next |-> f.ret, base |-> f.base]
  <2>1. n \in 1..n
    BY <1>1
  <2> QED
    BY <1>3, <1>7, <1>9, <2>1, Zenon
<1>11. \A i, j \in 1..(n - 1) : i < j => OpenedBy(F2[i]) <= F2[j].open
  <2> TAKE i, j \in 1..(n - 1)
  <2>1. i \in 1..n /\ j \in 1..n
    BY <1>1
  <2> QED
    BY <1>3, <1>4, <2>1
<1>12. \A i \in 1..(n - 1) : F2[i].fromC => N2[OpenedBy(F2[i])] = [next |-> F2[i].ret, base |-> F2[i].base]
  <2> SUFFICES ASSUME NEW i \in 1..(n - 1), F2[i].fromC
               PROVE  N2[OpenedBy(F2[i])] = [next |-> F2[i].ret, base |-> F2[i].base]
    OBVIOUS
  <2>1. i \in 1..n /\ n \in 1..n /\ i < n /\ F2[i] = F[i] /\ F[i] \in Frames
    BY <1>1, <1>2, <1>4
  <2>2. OpenedBy(F[i]) <= f.open
    BY <1>1, <1>3, <2>1
  <2>3. OpenedBy(F[i]) \in 1..f.open
    BY <1>6, <2>1, <2>2, OpenedIs
  <2>4. N2[OpenedBy(F[i])] = N[OpenedBy(F[i])]
    BY <1>8, <2>3
  <2> QED
    BY <1>3, <2>1, <2>4, Zenon
<1>13. NativeOK(F2, N2)
  BY <1>2, <1>4, <1>5, <1>8, <1>11, <1>12, Zenon DEF NativeOK, CallsByC
<1> QED
  BY <1>10, <1>13 DEF f, n, F2, N2

LEMMA NativeSave ==
    ASSUME NEW F, NEW F2, Len(F) \in Nat, Len(F) >= 1, Len(F2) = Len(F), \A i \in 1..Len(F) : Alike(F2[i], F[i]),
           NEW N, NativeOK(F, N)
    PROVE  NativeOK(F2, N)
<1> DEFINE n == Len(F)
<1>1. \A i \in 1..n : /\ F2[i].open = F[i].open /\ F2[i].fromC = F[i].fromC /\ F2[i].ret = F[i].ret
                      /\ F2[i].base = F[i].base /\ OpenedBy(F2[i]) = OpenedBy(F[i])
  BY DEF Alike, OpenedBy
<1>2. /\ N \in Seq(CallsByC) /\ Len(N) = OpenedBy(F[n])
      /\ \A i, j \in 1..n : i < j => OpenedBy(F[i]) <= F[j].open
      /\ \A i \in 1..n : F[i].fromC => N[OpenedBy(F[i])] = [next |-> F[i].ret, base |-> F[i].base]
  BY Zenon DEF NativeOK, CallsByC, Top, n
<1>3. n \in 1..n /\ Len(F2) = n
  OBVIOUS
<1> HIDE DEF n
<1>4. /\ Len(N) = OpenedBy(F2[n])
      /\ \A i, j \in 1..n : i < j => OpenedBy(F2[i]) <= F2[j].open
      /\ \A i \in 1..n : F2[i].fromC => N[OpenedBy(F2[i])] = [next |-> F2[i].ret, base |-> F2[i].base]
  BY <1>1, <1>2, <1>3
<1> QED
  BY <1>2, <1>3, <1>4, Zenon DEF NativeOK, CallsByC, Top

-----------------------------------------------------------------------------
(* The machine in front of a fragment, chores left out or not.               *)

(* The fragments that push a value they carry or look up.                    *)
PushOps == {"PUSH_LITERAL", "PUSH_DATA_ADDRESS", "PUSH_OFFSET_ADDRESS", "PUSH_CALLBACK",
            "USE_VARIABLE_OR_CONSTANT"}

(* Chores left out around fragment pc, and the machine there.              *)
StackReady(t, pc, x) == Ready(FlagsIn(t, pc - 1), FlagsIn(t, pc - 2), FlagsIn(t, pc), x)
StackWhole(t, pc, x) == Restored(FlagsIn(t, pc - 1), FlagsIn(t, pc - 2), FlagsIn(t, pc), x)

(* On the interpreter all cells are in memory.                               *)
VmMachine(x) ==
    /\ x = Machine(x.top, x.depth, x.scratch, x.cells, x.rs, x.dp, x.heap)
    /\ x.top \in Cell /\ x.depth \in 0..MaxCells
    /\ x.cells \in [CellIndexes -> Cell]
    /\ x.rs \in Seq(Entries)
    /\ x.dp \in Bottom..Limit /\ x.heap \in Heaps

MachineOK(t, pc, x) ==
    /\ x.scratch = Junk
    /\ t.backend = "vm" => VmMachine(x)
    /\ t.backend # "vm" => StackReady(t, pc, x)

(* The data stack that the program sees, see Engines!DataStack.            *)
StackOf(t, pc, x) == IF t.backend = "vm" THEN InMemory(x) ELSE InRegisters(StackWhole(t, pc, x))

LEMMA FlagsByOp ==
    ASSUME NEW b, NEW f
    PROVE  /\ f.op = "BUILTIN_WORD" => FlagsOf(b, f) = ListedFlags(b, f.p)
           /\ f.op \in PushOps => FlagsOf(b, f) = {"A", "B", "CLOB"}
           /\ f.op = "DECLARE_CONSTANT" => FlagsOf(b, f) = {"Y", "Z"}
           /\ f.op \notin PushOps \cup {"BUILTIN_WORD", "DECLARE_CONSTANT"} => FlagsOf(b, f) = {}
<1>1. f.op = "BUILTIN_WORD" => FlagsOf(b, f) = ListedFlags(b, f.p)
  <2>1. f.op = "BUILTIN_WORD" => f.op \notin PushOps /\ f.op # "DECLARE_CONSTANT"
    BY DEF PushOps
  <2> QED
    BY <2>1, Zenon DEF FlagsOf, ListedFlags, PushOps
<1>2. f.op \in PushOps => FlagsOf(b, f) = {"A", "B", "CLOB"}
  <2>1. f.op \in PushOps => f.op # "BUILTIN_WORD" /\ f.op # "DECLARE_CONSTANT"
    BY DEF PushOps
  <2> QED
    BY <2>1, Zenon DEF FlagsOf, PushOps
<1>3. f.op = "DECLARE_CONSTANT" => FlagsOf(b, f) = {"Y", "Z"}
  <2>1. f.op = "DECLARE_CONSTANT" => f.op # "BUILTIN_WORD" /\ f.op \notin PushOps
    BY DEF PushOps
  <2> QED
    BY <2>1, Zenon DEF FlagsOf, PushOps
<1>4. f.op \notin PushOps \cup {"BUILTIN_WORD", "DECLARE_CONSTANT"} => FlagsOf(b, f) = {}
  <2>1. f.op \notin PushOps \cup {"BUILTIN_WORD", "DECLARE_CONSTANT"} =>
            f.op # "BUILTIN_WORD" /\ f.op # "DECLARE_CONSTANT" /\ f.op \notin PushOps
    OBVIOUS
  <2> QED
    BY <2>1, Zenon DEF FlagsOf, PushOps
<1> QED
  BY <1>1, <1>2, <1>3, <1>4

LEMMA FlagsFine ==
    ASSUME NEW t, NEW pc
    PROVE  WellFormed(FlagsIn(t, pc))
<1> DEFINE f == CodeOf(t)[pc]
<1>1. WellFormed({}) /\ WellFormed({"A", "B", "CLOB"}) /\ WellFormed({"Y", "Z"})
  BY DEF WellFormed, Flags
<1>2. WellFormed(FlagsOf(t.backend, f))
  <2> HIDE DEF f
  <2>1. CASE f.op = "BUILTIN_WORD"
    <3>1. FlagsOf(t.backend, f) = ListedFlags(t.backend, f.p)
      BY <2>1, FlagsByOp, Zenon
    <3>2. WellFormed(ListedFlags(t.backend, f.p))
      BY ListedForm
    <3> QED
      BY <3>1, <3>2, Zenon
  <2>2. CASE f.op \in PushOps
    BY <1>1, <2>2, FlagsByOp, Zenon
  <2>3. CASE f.op = "DECLARE_CONSTANT"
    BY <1>1, <2>3, FlagsByOp, Zenon
  <2>4. CASE f.op \notin PushOps \cup {"BUILTIN_WORD", "DECLARE_CONSTANT"}
    BY <1>1, <2>4, FlagsByOp, Zenon
  <2> QED
    BY <2>1, <2>2, <2>3, <2>4
<1> QED
  BY <1>1, <1>2 DEF FlagsIn

(* Where fragments have no flags nothing is left out.                      *)
LEMMA Plain ==
    ASSUME NEW t \in Tasks, t.backend # "vm", NEW pc,
           FlagsIn(t, pc) = {} \/ FlagsIn(t, pc - 1) = {}, NEW x, IsMachine(x)
    PROVE  StackReady(t, pc, x) /\ StackWhole(t, pc, x) = x /\ StackOf(t, pc, x) = InRegisters(x)
<1> DEFINE up == FlagsIn(t, pc - 1)
           above == FlagsIn(t, pc - 2)
           fl == FlagsIn(t, pc)
<1>1. Ready(up, above, fl, x) /\ Restored(up, above, fl, x) = x
  <2> HIDE DEF up, above, fl
  <2>1. CASE fl = {}
    BY <2>1, NoFlags, Zenon
  <2>2. CASE up = {}
    BY <2>2, NoFlags, Zenon
  <2> QED
    BY <2>1, <2>2 DEF up, fl
<1> QED
  BY <1>1, Zenon DEF StackReady, StackWhole, StackOf

LEMMA PlainBack ==
    ASSUME NEW t \in Tasks, t.backend # "vm", NEW pc, FlagsIn(t, pc) = {}, NEW x, StackReady(t, pc, x)
    PROVE  IsMachine(x) /\ StackWhole(t, pc, x) = x /\ StackOf(t, pc, x) = InRegisters(x)
<1> DEFINE up == FlagsIn(t, pc - 1)
           above == FlagsIn(t, pc - 2)
           fl == FlagsIn(t, pc)
<1>1. Ready(up, above, {}, x)
  BY Zenon DEF StackReady
<1> HIDE DEF up, above, fl
<1>2. Restored(up, above, {}, x) = x /\ IsMachine(x)
  BY <1>1, NoFlags, Zenon
<1> QED
  BY <1>2, Zenon DEF StackWhole, StackOf, up, above

LEMMA PlainOps ==
    ASSUME NEW t, NEW pc, CodeOf(t)[pc].op \notin PushOps \cup {"BUILTIN_WORD", "DECLARE_CONSTANT"}
    PROVE  FlagsIn(t, pc) = {}
  BY FlagsByOp, Zenon DEF FlagsIn

(* The interpreter's machine with another stack.                           *)
LEMMA VmStacked ==
    ASSUME NEW x, VmMachine(x), NEW s \in Seq(Cell), Len(s) <= MaxCells
    PROVE  LET y == VmStack(x, s)
           IN  /\ VmMachine(y) /\ InMemory(y) = s
               /\ y.top = x.top /\ y.scratch = x.scratch /\ y.rs = x.rs /\ y.dp = x.dp /\ y.heap = x.heap
<1> DEFINE t == x.top
           d == x.depth
           j == x.scratch
           c == x.cells
           r == x.rs
           p == x.dp
           h == x.heap
           c2 == [i \in DOMAIN c |-> IF i < Len(s) THEN s[i + 1] ELSE c[i]]
           y == VmStack(x, s)
<1>1. /\ x = Machine(t, d, j, c, r, p, h)
      /\ t \in Cell /\ c \in [CellIndexes -> Cell] /\ r \in Seq(Entries)
      /\ p \in Bottom..Limit /\ h \in Heaps
  BY Zenon DEF VmMachine
<1>2. y = [[x EXCEPT !.depth = Len(s)] EXCEPT !.cells = c2]
  <2>1. y = [x EXCEPT !.depth = Len(s), !.cells = c2]
    BY Zenon DEF VmStack
  <2> HIDE DEF y, c2
  <2> QED
    BY <2>1
<1> HIDE DEF t, d, j, c, r, p, h, y
<1>3. [x EXCEPT !.depth = Len(s)] = Machine(t, Len(s), j, c, r, p, h)
  <2>1. [Machine(t, d, j, c, r, p, h) EXCEPT !.depth = Len(s)] = Machine(t, Len(s), j, c, r, p, h)
    <3> HIDE DEF c2
    <3> QED
      BY DEF Machine
  <2> QED
    BY <1>1, <2>1, Zenon
<1>4. y = Machine(t, Len(s), j, c2, r, p, h)
  <2> HIDE DEF c2
  <2>1. y = [Machine(t, Len(s), j, c, r, p, h) EXCEPT !.cells = c2]
    BY <1>2, <1>3, Zenon
  <2>2. [Machine(t, Len(s), j, c, r, p, h) EXCEPT !.cells = c2] = Machine(t, Len(s), j, c2, r, p, h)
    BY Parts
  <2> QED
    BY <2>1, <2>2, Zenon
<1>5. Len(s) \in Nat /\ MaxCells \in Int /\ \A i \in 1..Len(s) : s[i] \in Cell
  BY PrimitivesAssumption, LenProperties, ElementOfSeq DEF Half
<1>6. c2 \in [CellIndexes -> Cell]
  <2>1. DOMAIN c = CellIndexes /\ \A i \in CellIndexes : c[i] \in Cell
    BY <1>1
  <2>2. \A i \in CellIndexes : (IF i < Len(s) THEN s[i + 1] ELSE c[i]) \in Cell
    <3> TAKE i \in CellIndexes
    <3>1. i \in Nat
      BY <1>5 DEF CellIndexes
    <3>2. CASE i < Len(s)
      <4>1. i + 1 \in 1..Len(s)
        BY <1>5, <3>1, <3>2
      <4> QED
        BY <1>5, <3>2, <4>1
    <3>3. CASE ~(i < Len(s))
      BY <2>1, <3>3
    <3> QED
      BY <3>2, <3>3
  <2> QED
    BY <2>1, <2>2
<1>7. \A i \in 1..Len(s) : c2[i - 1] = s[i]
  <2> TAKE i \in 1..Len(s)
  <2>1. i - 1 \in CellIndexes /\ i - 1 < Len(s) /\ (i - 1) + 1 = i
    BY <1>5 DEF CellIndexes
  <2>2. DOMAIN c = CellIndexes
    BY <1>1
  <2> QED
    BY <2>1, <2>2
<1> HIDE DEF c2
<1>8. /\ y.top = t /\ y.depth = Len(s) /\ y.scratch = j /\ y.cells = c2 /\ y.rs = r /\ y.dp = p /\ y.heap = h
      /\ y = Machine(y.top, y.depth, y.scratch, y.cells, y.rs, y.dp, y.heap)
  BY <1>4 DEF Machine
<1>9. Len(s) \in 0..MaxCells
  BY <1>5
<1>10. VmMachine(y)
  BY <1>1, <1>6, <1>8, <1>9, Zenon DEF VmMachine
<1>11. InMemory(y) = s
  <2>1. InMemory(y) = [i \in 1..Len(s) |-> c2[i - 1]]
    BY <1>8, Zenon DEF InMemory
  <2>2. s = [i \in 1..Len(s) |-> s[i]]
    <3>1. s \in [1..Len(s) -> Cell]
      BY LenProperties
    <3> QED
      BY <3>1
  <2> QED
    BY <1>7, <2>1, <2>2, Zenon
<1> QED
  BY <1>8, <1>10, <1>11 DEF y, t, j, r, p, h

-----------------------------------------------------------------------------
(* The inductive invariant, and the state it is about.                       *)

(* The inductive invariant of the engines: the frames explain the return     *)
(* stack, the machine is within its memory, and variables hold cells.        *)
VarsOK == vars \in [0..(VariableCount - 1) -> Cell]
Inv == FramesInv /\ MachineOK(task, k, m) /\ VarsOK

(* What the program sees, by the parts of the state.                       *)
LEMMA Views ==
    ASSUME k \in Nat
    PROVE  DataStack = StackOf(task, k, m)
<1>1. /\ FlagsAt(k - 1) = FlagsIn(task, k - 1) /\ FlagsAt((k - 1) - 1) = FlagsIn(task, (k - 1) - 1)
      /\ FlagsAt((k - 1) + 1) = FlagsIn(task, (k - 1) + 1)
  BY Zenon DEF FlagsAt, FlagsIn, Code, CodeOf, program, backend
<1>2. (k - 1) - 1 = k - 2 /\ (k - 1) + 1 = k
  OBVIOUS
<1>3. Whole = Closing(FlagsAt(k - 1) \ NeededChores(FlagsAt(k - 1), FlagsAt((k - 1) - 1), FlagsAt((k - 1) + 1)), m)
  BY Zenon DEF Whole, NeedsAt
<1>4. Whole = StackWhole(task, k, m)
  BY <1>1, <1>2, <1>3, Zenon DEF StackWhole, Restored
<1> QED
  BY <1>4, Zenon DEF DataStack, StackOf, backend

LEMMA ViewsNext ==
    ASSUME k' \in Nat
    PROVE  DataStack' = StackOf(task', k', m')
<1>1. /\ FlagsAt(k - 1)' = FlagsIn(task', k' - 1) /\ FlagsAt((k - 1) - 1)' = FlagsIn(task', (k' - 1) - 1)
      /\ FlagsAt((k - 1) + 1)' = FlagsIn(task', (k' - 1) + 1)
  BY Zenon DEF FlagsAt, FlagsIn, Code, CodeOf, program, backend
<1>2. (k' - 1) - 1 = k' - 2 /\ (k' - 1) + 1 = k'
  <2> DEFINE q == k'
  <2>1. q \in Nat
    OBVIOUS
  <2> HIDE DEF q
  <2>2. (q - 1) - 1 = q - 2 /\ (q - 1) + 1 = q
    BY <2>1
  <2> QED
    BY <2>2 DEF q
<1>3. Whole' = Closing(FlagsAt(k - 1)' \ NeededChores(FlagsAt(k - 1)', FlagsAt((k - 1) - 1)', FlagsAt((k - 1) + 1)'), m')
  BY Zenon DEF Whole, NeedsAt
<1>4. Whole' = StackWhole(task', k', m')
  BY <1>1, <1>2, <1>3, Zenon DEF StackWhole, Restored
<1> QED
  BY <1>4, Zenon DEF DataStack, StackOf, backend

LEMMA CallsView ==
    /\ Calls = CallsOf(frames, m.rs)
    /\ Calls' = CallsOf(frames', m'.rs)
  BY Zenon DEF Calls, CallsOf, End, EndOf

(* What Inv says of the step to come.                                      *)
LEMMA Here ==
    ASSUME Inv
    PROVE  /\ task \in Tasks /\ FramesOK(task, k, m.rs, frames)
           /\ base = BaseOf(task, Top(frames), k) /\ NativeOK(frames, native)
           /\ LinkOK(task, k, lr, home, frames) /\ MachineOK(task, k, m) /\ VarsOK
           /\ status \in {"running", "done", "failed"}
           /\ Code = CodeOf(task) /\ Fragment = CodeOf(task)[k] /\ backend = task.backend
           /\ k \in DOMAIN CodeOf(task) /\ k \in Nat /\ k >= 1
           /\ DataStack = StackOf(task, k, m) /\ Frame = Top(frames)
<1>1. task \in Tasks /\ FramesOK(task, k, m.rs, frames)
  BY Zenon DEF Inv, FramesInv
<1>2. k \in DOMAIN CodeOf(task)
  BY <1>1, TopFacts
<1>3. k \in Nat /\ k >= 1
  BY <1>1, <1>2, BehindLocation
<1>4. DataStack = StackOf(task, k, m)
  BY <1>3, Views
<1> QED
  BY <1>1, <1>2, <1>3, <1>4, Zenon DEF Inv, FramesInv, Code, CodeOf, program, Fragment, backend, Frame, Top

(* A step within a word; what the link register holds does not matter      *)
(* where the word has saved it.                                            *)
Within ==
    /\ base' = base /\ home' = home /\ native' = native /\ frames' = frames
    /\ lr' = lr \/ SavesLr(task, Top(frames), k')

LEMMA StraightStep ==
    ASSUME Inv, Within, Stays, k' \in DOMAIN CodeOf(task), WordAt(task, k') = WordAt(task, k),
           ~IsLocation(task, k'), k' # 1, k # 1, task.backend = "vm" \/ ~IsLocation(task, k),
           Keeps(frames, m.rs, m'.rs), MachineOK(task, k', m'), VarsOK'
    PROVE  Inv' /\ Calls' = OwnAs(Calls, Returns(m'.rs, Frame.own))
<1>1. /\ task \in Tasks /\ FramesOK(task, k, m.rs, frames)
      /\ base = BaseOf(task, Top(frames), k) /\ NativeOK(frames, native)
      /\ LinkOK(task, k, lr, home, frames) /\ status \in {"running", "done", "failed"}
      /\ Frame = Top(frames)
  BY Here, Zenon
<1>2. /\ base' = base /\ home' = home /\ native' = native /\ frames' = frames
      /\ task' = task /\ status' = status
  BY DEF Within, Stays
<1> DEFINE R2 == m'.rs
           pc2 == k'
<1>3. /\ pc2 \in DOMAIN CodeOf(task) /\ WordAt(task, pc2) = WordAt(task, k) /\ ~IsLocation(task, pc2)
      /\ pc2 # 1 /\ MachineOK(task, pc2, m') /\ Keeps(frames, m.rs, R2)
  OBVIOUS
<1> HIDE DEF R2, pc2
<1>4. /\ FramesOK(task, pc2, R2, frames)
      /\ BaseOf(task, Top(frames), pc2) = BaseOf(task, Top(frames), k)
      /\ task.backend # "vm" => SavesLr(task, Top(frames), pc2) = SavesLr(task, Top(frames), k)
  BY <1>1, <1>3, Straight
<1>5. LinkOK(task, pc2, lr', home, frames)
  <2>1. task.backend = "esp32s3" => task.backend # "vm"
    OBVIOUS
  <2>2. lr' = lr \/ SavesLr(task, Top(frames), pc2)
    BY Zenon DEF Within, pc2
  <2>3. CASE lr' = lr
    <3>1. LinkOK(task, pc2, lr, home, frames)
      BY <1>1, <1>3, <1>4, <2>1, Zenon DEF LinkOK
    <3> QED
      BY <2>3, <3>1, Zenon
  <2>4. CASE SavesLr(task, Top(frames), pc2)
    <3>1. pc2 # 1 /\ (task.backend = "esp32s3" /\ pc2 # 1 => home = Host)
      BY <1>1, <1>3, Zenon DEF LinkOK
    <3> QED
      BY <2>4, <3>1, Zenon DEF LinkOK
  <2> QED
    BY <2>2, <2>3, <2>4, Zenon
<1>6. FramesInv'
  BY <1>1, <1>2, <1>4, <1>5, Zenon DEF FramesInv, R2, pc2
<1>7. CallsOf(frames, R2) = OwnAs(CallsOf(frames, m.rs), Returns(R2, Top(frames).own))
  BY <1>1, <1>3, CallsStraight
<1>8. Calls' = OwnAs(Calls, Returns(m'.rs, Frame.own))
  BY <1>1, <1>2, <1>7, CallsView, Zenon DEF R2
<1>9. MachineOK(task, k, m)'
  BY <1>2, <1>3, Zenon DEF pc2
<1> QED
  BY <1>6, <1>8, <1>9, Zenon DEF Inv

-----------------------------------------------------------------------------
(* The abstract machine's words are these words.                             *)

(* ForthMachine, instantiated, has the primitives of this module.          *)
LEMMA SameFromDup ==
    ASSUME NEW w, NEW s
    PROVE  Forth!FromDup(w, s) = FromDup(w, s)
  BY Zenon DEF Forth!FromDup, FromDup, Forth!Bits, Bits, Forth!Range256, Range256, Forth!Half, Half,
    Forth!Unit, Unit, Forth!Cell, Cell, Forth!Power2, Power2, Forth!Wrap, Wrap, Forth!Unsigned,
    Unsigned, Forth!Truth, Truth, Forth!Magnitude, Magnitude, Forth!Quotient, Quotient,
    Forth!Remainder, Remainder, Forth!Bit, Bit, Forth!OfBits, OfBits, Forth!Larger, Larger,
    Forth!Smaller, Smaller, Forth!Place, Place, Forth!Load, Load, Forth!Store, Store, Forth!Align,
    Align, Forth!Nth, Nth, Forth!Below, Below, Forth!Put, Put

LEMMA SameFromRot ==
    ASSUME NEW w, NEW s
    PROVE  Forth!FromRot(w, s) = FromRot(w, s)
  BY Zenon DEF Forth!FromRot, FromRot, Forth!Bits, Bits, Forth!Range256, Range256, Forth!Half, Half,
    Forth!Unit, Unit, Forth!Cell, Cell, Forth!Power2, Power2, Forth!Wrap, Wrap, Forth!Unsigned,
    Unsigned, Forth!Truth, Truth, Forth!Magnitude, Magnitude, Forth!Quotient, Quotient,
    Forth!Remainder, Remainder, Forth!Bit, Bit, Forth!OfBits, OfBits, Forth!Larger, Larger,
    Forth!Smaller, Smaller, Forth!Place, Place, Forth!Load, Load, Forth!Store, Store, Forth!Align,
    Align, Forth!Nth, Nth, Forth!Below, Below, Forth!Put, Put

LEMMA SameFromHere ==
    ASSUME NEW w, NEW s
    PROVE  Forth!FromHere(w, s) = FromHere(w, s)
  BY Zenon DEF Forth!FromHere, FromHere, Forth!Bits, Bits, Forth!Range256, Range256, Forth!Half,
    Half, Forth!Unit, Unit, Forth!Cell, Cell, Forth!Power2, Power2, Forth!Wrap, Wrap,
    Forth!Unsigned, Unsigned, Forth!Truth, Truth, Forth!Magnitude, Magnitude, Forth!Quotient,
    Quotient, Forth!Remainder, Remainder, Forth!Bit, Bit, Forth!OfBits, OfBits, Forth!Larger,
    Larger, Forth!Smaller, Smaller, Forth!Place, Place, Forth!Load, Load, Forth!Store, Store,
    Forth!Align, Align, Forth!Nth, Nth, Forth!Below, Below, Forth!Put, Put

LEMMA SameFromHalve ==
    ASSUME NEW w, NEW s
    PROVE  Forth!FromHalve(w, s) = FromHalve(w, s)
  BY Zenon DEF Forth!FromHalve, FromHalve, Forth!Bits, Bits, Forth!Range256, Range256, Forth!Half,
    Half, Forth!Unit, Unit, Forth!Cell, Cell, Forth!Power2, Power2, Forth!Wrap, Wrap,
    Forth!Unsigned, Unsigned, Forth!Truth, Truth, Forth!Magnitude, Magnitude, Forth!Quotient,
    Quotient, Forth!Remainder, Remainder, Forth!Bit, Bit, Forth!OfBits, OfBits, Forth!Larger,
    Larger, Forth!Smaller, Smaller, Forth!Place, Place, Forth!Load, Load, Forth!Store, Store,
    Forth!Align, Align, Forth!Nth, Nth, Forth!Below, Below, Forth!Put, Put

LEMMA SameWords ==
    /\ Forth!Words = Words /\ Forth!Words1 = Words1 /\ Forth!Words2 = Words2 /\ Forth!Words3 = Words3
    /\ Forth!Words4 = Words4 /\ Forth!Binary = Binary /\ Forth!Unary = Unary
    /\ Forth!Half = Half /\ Forth!Cell = Cell /\ Forth!Bits = Bits
  BY Zenon DEF Forth!Words, Words, Forth!Words1, Words1, Forth!Words2, Words2, Forth!Words3, Words3,
    Forth!Words4, Words4, Forth!Binary, Binary, Forth!Unary, Unary, Forth!Comparisons, Comparisons,
    Forth!Half, Half, Forth!Cell, Cell, Forth!Bits, Bits

LEMMA SameEnough ==
    ASSUME NEW w, NEW s, NEW r
    PROVE  Forth!Enough(w, s, r) = Enough(w, s, r)
  BY Zenon DEF Forth!Enough, Enough, Forth!Bits, Bits, Forth!Range256, Range256, Forth!Half, Half,
    Forth!Unit, Unit, Forth!Cell, Cell, Forth!Power2, Power2, Forth!Wrap, Wrap, Forth!Unsigned,
    Unsigned, Forth!Truth, Truth, Forth!Magnitude, Magnitude, Forth!Quotient, Quotient,
    Forth!Remainder, Remainder, Forth!Bit, Bit, Forth!OfBits, OfBits, Forth!Larger, Larger,
    Forth!Smaller, Smaller, Forth!Place, Place, Forth!Load, Load, Forth!Store, Store, Forth!Align,
    Align, Forth!Nth, Nth, Forth!Below, Below, Forth!Put, Put, Forth!FromDup, FromDup,
    Forth!FromRot, FromRot, Forth!FromHere, FromHere, Forth!FromHalve, FromHalve, Forth!Words1,
    Words1, Forth!Words2, Words2, Forth!Words3, Words3, Forth!Words4, Words4, Forth!Binary, Binary,
    Forth!Unary, Unary, Forth!Comparisons, Comparisons, Forth!Meaning, Meaning, Forth!Pops, Pops,
    Forth!ReturnPops, ReturnPops, Forth!AllotFits, AllotFits

LEMMA SameDefined ==
    ASSUME NEW w, NEW s
    PROVE  Forth!Defined(w, s) = Defined(w, s)
  BY Zenon DEF Forth!Defined, Defined, Forth!Bits, Bits, Forth!Range256, Range256, Forth!Half, Half,
    Forth!Unit, Unit, Forth!Cell, Cell, Forth!Power2, Power2, Forth!Wrap, Wrap, Forth!Unsigned,
    Unsigned, Forth!Truth, Truth, Forth!Magnitude, Magnitude, Forth!Quotient, Quotient,
    Forth!Remainder, Remainder, Forth!Bit, Bit, Forth!OfBits, OfBits, Forth!Larger, Larger,
    Forth!Smaller, Smaller, Forth!Place, Place, Forth!Load, Load, Forth!Store, Store, Forth!Align,
    Align, Forth!Nth, Nth, Forth!Below, Below, Forth!Put, Put, Forth!FromDup, FromDup,
    Forth!FromRot, FromRot, Forth!FromHere, FromHere, Forth!FromHalve, FromHalve, Forth!Words1,
    Words1, Forth!Words2, Words2, Forth!Words3, Words3, Forth!Words4, Words4, Forth!Binary, Binary,
    Forth!Unary, Unary, Forth!Comparisons, Comparisons, Forth!Meaning, Meaning, Forth!Pops, Pops,
    Forth!ReturnPops, ReturnPops, Forth!AllotFits, AllotFits

LEMMA SameOutcomes ==
    ASSUME NEW w, NEW s
    PROVE  Forth!Outcomes(w, s) = Outcomes(w, s)
  BY Zenon DEF Forth!Outcomes, Outcomes, Forth!Bits, Bits, Forth!Range256, Range256, Forth!Half,
    Half, Forth!Unit, Unit, Forth!Cell, Cell, Forth!Power2, Power2, Forth!Wrap, Wrap,
    Forth!Unsigned, Unsigned, Forth!Truth, Truth, Forth!Magnitude, Magnitude, Forth!Quotient,
    Quotient, Forth!Remainder, Remainder, Forth!Bit, Bit, Forth!OfBits, OfBits, Forth!Larger,
    Larger, Forth!Smaller, Smaller, Forth!Place, Place, Forth!Load, Load, Forth!Store, Store,
    Forth!Align, Align, Forth!Nth, Nth, Forth!Below, Below, Forth!Put, Put, Forth!FromDup, FromDup,
    Forth!FromRot, FromRot, Forth!FromHere, FromHere, Forth!FromHalve, FromHalve, Forth!Words1,
    Words1, Forth!Words2, Words2, Forth!Words3, Words3, Forth!Words4, Words4, Forth!Binary, Binary,
    Forth!Unary, Unary, Forth!Comparisons, Comparisons, Forth!Meaning, Meaning, Forth!Pops, Pops,
    Forth!ReturnPops, ReturnPops, Forth!AllotFits, AllotFits

-----------------------------------------------------------------------------
(* What the abstract machine sees, and what it asks of a fragment.           *)

(* The running word's cells of the return stack, and the state its words     *)
(* see.                                                                      *)
OwnRs == Returns(m.rs, Frame.own)
Seen == [ds |-> DataStack, rs |-> OwnRs, dp |-> m.dp, heap |-> m.heap]

(* The Forth machine's state, by the engine's.                             *)
LEMMA ForthView ==
    ASSUME Inv
    PROVE  /\ Forth!Code = Code /\ Forth!Fragment = Fragment
           /\ Forth!Call.rs = OwnRs /\ Forth!Call.below = Frame.below /\ Forth!Call.ret = Frame.ret
           /\ Len(Calls) = Len(frames) /\ Forth!State = Seen
           /\ Len(OwnRs) = Len(m.rs) - Frame.own
<1>1. task \in Tasks /\ FramesOK(task, k, m.rs, frames) /\ Frame = Top(frames)
  BY Here, Zenon
<1> DEFINE c == CallsOf(frames, m.rs)
           n == Len(frames)
<1>2. /\ Len(c) = n /\ c[n].ret = Top(frames).ret /\ c[n].below = Top(frames).below
      /\ c[n].rs = Returns(m.rs, Top(frames).own)
      /\ Len(c[n].rs) = Len(m.rs) - Top(frames).own
  BY <1>1, CallsAre
<1>3. Calls = c
  BY CallsView, Zenon
<1> HIDE DEF c, n
<1>4. Forth!Call = c[n]
  BY <1>2, <1>3, Zenon DEF Forth!Call
<1>5. Forth!Call.rs = OwnRs /\ Forth!Call.below = Frame.below /\ Forth!Call.ret = Frame.ret
      /\ Len(OwnRs) = Len(m.rs) - Frame.own
  BY <1>1, <1>2, <1>4, Zenon DEF OwnRs
<1>6. Forth!State = Seen
  BY <1>5, Zenon DEF Forth!State, Seen
<1>7. Forth!Code = Code /\ Forth!Fragment = Fragment
  BY Zenon DEF Forth!Code, Forth!Fragment, Code, Fragment
<1> QED
  BY <1>2, <1>3, <1>5, <1>6, <1>7, Zenon DEF n

(* What EnoughFor and DefinedFor ask for, fragment by fragment.            *)
LEMMA EnoughBy ==
    ASSUME Inv, NEW f
    PROVE  /\ f.op = "BUILTIN_WORD" => (Forth!EnoughFor(f) <=> Enough(f.p, Seen, Frame.below))
           /\ f.op \in PushOps => (Forth!EnoughFor(f) <=> Len(DataStack) + 1 <= MaxCells)
           /\ f.op = "RUNTIME_WORD" =>
                (Forth!EnoughFor(f) <=>
                    IF f.p.kind = "lit" THEN Len(DataStack) + 1 <= MaxCells
                    ELSE Len(DataStack) >= 1 /\ (f.p.kind = "invoke" => Frame.below + Len(OwnRs) + 2 <= MaxCells))
           /\ f.op \in {"BRANCH_IF_ZERO", "DECLARE_CONSTANT"} => (Forth!EnoughFor(f) <=> Len(DataStack) >= 1)
           /\ f.op = "EXECUTE" =>
                (Forth!EnoughFor(f) <=> Len(DataStack) >= 1 /\ Frame.below + Len(OwnRs) + 2 <= MaxCells)
           /\ f.op = "DEFINED_WORD" => (Forth!EnoughFor(f) <=> Frame.below + Len(OwnRs) + 2 <= MaxCells)
           /\ f.op = "DO" =>
                (Forth!EnoughFor(f) <=> Len(DataStack) >= 2 /\ Frame.below + Len(OwnRs) + 2 <= MaxCells)
           /\ f.op = "DECLARE_VARIABLE" => (Forth!EnoughFor(f) <=> Align(m.dp) + 4 <= Limit)
           /\ f.op \notin PushOps \cup {"BUILTIN_WORD", "RUNTIME_WORD", "BRANCH_IF_ZERO", "DECLARE_CONSTANT", "EXECUTE",
                                        "DEFINED_WORD", "DO", "DECLARE_VARIABLE"} => Forth!EnoughFor(f)
<1>1. /\ Forth!Call.rs = OwnRs /\ Forth!Call.below = Frame.below /\ Forth!State = Seen
  BY ForthView, Zenon
<1>2. Forth!ReturnRoom(2) <=> Frame.below + Len(OwnRs) + 2 <= MaxCells
  BY <1>1, Zenon DEF Forth!ReturnRoom
<1>3. Forth!Room(1) <=> Len(DataStack) + 1 <= MaxCells
  BY Zenon DEF Forth!Room
<1>4. Forth!Enough(f.p, Forth!State, Forth!Call.below) = Enough(f.p, Seen, Frame.below)
  BY <1>1, SameEnough, Zenon
<1>5. Forth!Align(m.dp) = Align(m.dp)
  BY Zenon DEF Forth!Align, Align
<1> DEFINE a == Forth!Enough(f.p, Forth!State, Forth!Call.below)
           b == Forth!ReturnRoom(2)
           c == Forth!Room(1)
           d == Forth!Align(m.dp) + 4 <= Limit
           e == Len(DataStack) >= 1
           g == Len(DataStack) >= 2
           h == f.p.kind
           o == f.op
<1>6. Forth!EnoughFor(f) =
        CASE o = "BUILTIN_WORD" -> a
      [] o \in {"PUSH_LITERAL", "PUSH_DATA_ADDRESS", "PUSH_OFFSET_ADDRESS",
                   "PUSH_CALLBACK", "USE_VARIABLE_OR_CONSTANT"} -> c
      [] o = "RUNTIME_WORD" -> IF h = "lit" THEN c ELSE e /\ (h = "invoke" => b)
      [] o \in {"BRANCH_IF_ZERO", "DECLARE_CONSTANT"} -> e
      [] o = "EXECUTE" -> e /\ b
      [] o = "DEFINED_WORD" -> b
      [] o = "DO" -> g /\ b
      [] o = "DECLARE_VARIABLE" -> d
      [] OTHER -> TRUE
  BY Zenon DEF Forth!EnoughFor
<1> HIDE DEF a, b, c, d, e, g, h, o
<1>7. /\ o = "BUILTIN_WORD" => (Forth!EnoughFor(f) <=> a)
      /\ o \in PushOps => (Forth!EnoughFor(f) <=> c)
      /\ o = "RUNTIME_WORD" => (Forth!EnoughFor(f) <=> IF h = "lit" THEN c ELSE e /\ (h = "invoke" => b))
      /\ o \in {"BRANCH_IF_ZERO", "DECLARE_CONSTANT"} => (Forth!EnoughFor(f) <=> e)
      /\ o = "EXECUTE" => (Forth!EnoughFor(f) <=> e /\ b)
      /\ o = "DEFINED_WORD" => (Forth!EnoughFor(f) <=> b)
      /\ o = "DO" => (Forth!EnoughFor(f) <=> g /\ b)
      /\ o = "DECLARE_VARIABLE" => (Forth!EnoughFor(f) <=> d)
      /\ o \notin PushOps \cup {"BUILTIN_WORD", "RUNTIME_WORD", "BRANCH_IF_ZERO", "DECLARE_CONSTANT", "EXECUTE",
                                "DEFINED_WORD", "DO", "DECLARE_VARIABLE"} => Forth!EnoughFor(f)
  BY <1>6 DEF PushOps
<1>8. a <=> Enough(f.p, Seen, Frame.below)
  BY <1>4, Zenon DEF a
<1>9. (b <=> Frame.below + Len(OwnRs) + 2 <= MaxCells) /\ (c <=> Len(DataStack) + 1 <= MaxCells)
      /\ (d <=> Align(m.dp) + 4 <= Limit)
  BY <1>2, <1>3, <1>5, Zenon DEF b, c, d
<1> QED
  BY <1>7, <1>8, <1>9, Zenon DEF e, g, h, o

LEMMA DefinedBy ==
    ASSUME Inv, NEW f
    PROVE  /\ f.op = "BUILTIN_WORD" => (Forth!DefinedFor(f) <=> Defined(f.p, Seen))
           /\ f.op = "LOOP" => (Forth!DefinedFor(f) <=> Len(OwnRs) >= 2 /\ Nth(OwnRs, 1) < Half - 1)
           /\ f.op = "EXECUTE" =>
                (Forth!DefinedFor(f) <=>
                    Nth(DataStack, 1) \in DOMAIN Code /\ Code[Nth(DataStack, 1)].op = "DEFINED_WORD_LOCATION")
           /\ f.op = "EXIT_WORD" => (Forth!DefinedFor(f) <=> OwnRs = <<>> \/ Forth!Loops(Code, f.p))
           /\ f.op = "HALT" => (Forth!DefinedFor(f) <=> OwnRs = <<>>)
           /\ f.op \notin {"BUILTIN_WORD", "LOOP", "EXECUTE", "EXIT_WORD", "HALT"} => Forth!DefinedFor(f)
<1>1. /\ Forth!Call.rs = OwnRs /\ Forth!State = Seen /\ Forth!Code = Code
  BY ForthView, Zenon
<1>2. Forth!Defined(f.p, Forth!State) = Defined(f.p, Seen)
  BY <1>1, SameDefined, Zenon
<1>3. Forth!Nth(Forth!Call.rs, 1) = Nth(OwnRs, 1) /\ Forth!Nth(DataStack, 1) = Nth(DataStack, 1)
      /\ Forth!Half = Half
  BY <1>1, Zenon DEF Forth!Nth, Nth, Forth!Half, Half
<1> DEFINE a == Forth!Defined(f.p, Forth!State)
           b == Len(Forth!Call.rs) >= 2 /\ Forth!Nth(Forth!Call.rs, 1) < Forth!Half - 1
           c == Forth!Nth(DataStack, 1) \in DOMAIN Forth!Code
                /\ Forth!Code[Forth!Nth(DataStack, 1)].op = "DEFINED_WORD_LOCATION"
           d == Forth!Call.rs = <<>> \/ Forth!Loops(Forth!Code, f.p)
           e == Forth!Call.rs = <<>>
           o == f.op
<1>6. Forth!DefinedFor(f) =
        CASE o = "BUILTIN_WORD" -> a
          [] o = "LOOP" -> b
          [] o = "EXECUTE" -> c
          [] o = "EXIT_WORD" -> d
          [] o = "HALT" -> e
          [] OTHER -> TRUE
  BY Zenon DEF Forth!DefinedFor
<1> HIDE DEF a, b, c, d, e, o
<1>7. /\ o = "BUILTIN_WORD" => (Forth!DefinedFor(f) <=> a)
      /\ o = "LOOP" => (Forth!DefinedFor(f) <=> b)
      /\ o = "EXECUTE" => (Forth!DefinedFor(f) <=> c)
      /\ o = "EXIT_WORD" => (Forth!DefinedFor(f) <=> d)
      /\ o = "HALT" => (Forth!DefinedFor(f) <=> e)
      /\ o \notin {"BUILTIN_WORD", "LOOP", "EXECUTE", "EXIT_WORD", "HALT"} => Forth!DefinedFor(f)
  BY <1>6
<1>8. a <=> Defined(f.p, Seen)
  BY <1>2, Zenon DEF a
<1>9. b <=> Len(OwnRs) >= 2 /\ Nth(OwnRs, 1) < Half - 1
  BY <1>1, <1>3, Zenon DEF b
<1>10. c <=> Nth(DataStack, 1) \in DOMAIN Code /\ Code[Nth(DataStack, 1)].op = "DEFINED_WORD_LOCATION"
  BY <1>1, <1>3, Zenon DEF c
<1>11. (d <=> OwnRs = <<>> \/ Forth!Loops(Code, f.p)) /\ (e <=> OwnRs = <<>>)
  BY <1>1, Zenon DEF d, e
<1> QED
  BY <1>7, <1>8, <1>9, <1>10, <1>11, Zenon DEF o

-----------------------------------------------------------------------------
(* The interpreter's own checks ask exactly that.                            *)

(* The interpreter keeps its word's cells right above the base.            *)
LEMMA VmHere ==
    ASSUME Inv, On("vm")
    PROVE  /\ task.backend = "vm"
           /\ VmMachine(m) /\ m.scratch = Junk
           /\ base = Frame.own /\ Frame.own = Frame.below
           /\ DataStack = InMemory(m) /\ Len(DataStack) = m.depth /\ DataStack \in Seq(Cell)
           /\ m.depth \in 0..MaxCells /\ Len(m.rs) \in Nat /\ Frame.own \in 0..Len(m.rs)
           /\ Frame.below + Len(OwnRs) = Len(m.rs) /\ VmState = Seen
<1>1. task.backend = "vm"
  BY Zenon DEF On, backend
<1>2. /\ task \in Tasks /\ FramesOK(task, k, m.rs, frames) /\ base = BaseOf(task, Top(frames), k)
      /\ MachineOK(task, k, m) /\ DataStack = StackOf(task, k, m) /\ Frame = Top(frames)
  BY Here, Zenon
<1>3. VmMachine(m) /\ m.scratch = Junk
  BY <1>1, <1>2, Zenon DEF MachineOK
<1> DEFINE f == Top(frames)
<1>4. /\ Holds(task, f, k, m.rs, Len(m.rs)) /\ Len(m.rs) \in Nat
      /\ f.at \in Nat /\ f.own \in Nat /\ f.below \in Nat /\ f.own <= Len(m.rs)
      /\ Len(frames) \in Nat /\ Len(frames) >= 1
      /\ Len(frames) = 1 => f = FirstFrame
      /\ Len(frames) > 1 => f # FirstFrame
  BY <1>2, TopFacts
<1>5. f.own = f.below
  BY <1>1, <1>4, Zenon DEF Holds
<1>6. f = FirstFrame => f.own = 0 /\ BaseOf(task, f, k) = 0
  <2>1. f = FirstFrame => BaseOf(task, f, k) = 0
    BY Zenon DEF BaseOf, BaseIn
  <2>2. f = FirstFrame => f.own = 0
    <3> HIDE DEF f
    <3> QED
      BY DEF FirstFrame
  <2> QED
    BY <2>1, <2>2
<1>7. f # FirstFrame => f.own = f.at + 2 /\ BaseOf(task, f, k) = f.at + 2
  <2>1. f # FirstFrame => BaseOf(task, f, k) = f.at + 2
    BY <1>1, Zenon DEF BaseOf, BaseIn
  <2>2. IsHeader(task, f, k, HeaderOf(task, f, k))
    BY <1>2, HeaderIs, Zenon
  <2>3. Len(HeaderOf(task, f, k)) = 2
    BY <1>1, <2>2, Zenon DEF IsHeader
  <2>4. f # FirstFrame => f.own = f.at + Len(HeaderOf(task, f, k))
    BY <1>4, Zenon DEF Holds
  <2> QED
    BY <2>1, <2>3, <2>4, Zenon
<1>8. base = Frame.own /\ Frame.own = Frame.below
  BY <1>2, <1>5, <1>6, <1>7, Zenon
<1>9. DataStack = InMemory(m)
  BY <1>1, <1>2, Zenon DEF StackOf
<1>10. Len(DataStack) = m.depth /\ DataStack \in Seq(Cell)
  <2> DEFINE d == m.depth
             c == m.cells
  <2>1. d \in 0..MaxCells /\ c \in [CellIndexes -> Cell]
    BY <1>3, Zenon DEF VmMachine
  <2>2. InMemory(m) = [i \in 1..d |-> c[i - 1]]
    BY Zenon DEF InMemory
  <2> HIDE DEF d, c
  <2>3. MaxCells \in Int
    BY PrimitivesAssumption DEF Half
  <2>4. \A i \in 1..d : c[i - 1] \in Cell
    <3> TAKE i \in 1..d
    <3>1. i - 1 \in CellIndexes
      BY <2>1, <2>3 DEF CellIndexes
    <3> QED
      BY <2>1, <3>1
  <2>5. InMemory(m) \in [1..d -> Cell] /\ DOMAIN InMemory(m) = 1..d
    BY <2>2, <2>4
  <2>6. d \in Nat
    BY <2>1, <2>3
  <2>7. InMemory(m) \in Seq(Cell)
    BY <2>5, <2>6
  <2>8. Len(InMemory(m)) = d
    BY <2>5, <2>6, <2>7, LenProperties
  <2> QED
    BY <1>9, <2>7, <2>8 DEF d
<1>11. m.depth \in 0..MaxCells
  BY <1>3, Zenon DEF VmMachine
<1>12. Frame.own \in 0..Len(m.rs)
  BY <1>2, <1>4
<1>13. Len(OwnRs) = Len(m.rs) - Frame.own
  BY ForthView, Zenon
<1>14. Frame.below + Len(OwnRs) = Len(m.rs)
  BY <1>2, <1>4, <1>8, <1>13
<1>15. VmState = Seen
  BY <1>8, Zenon DEF VmState, Seen, OwnRs, Returns
<1> QED
  BY <1>1, <1>3, <1>8, <1>9, <1>10, <1>11, <1>12, <1>14, <1>15, <1>4, Zenon

(* What the interpreter checks is what a fragment needs.                   *)
LEMMA VmChecked ==
    ASSUME Inv, On("vm"), NEW f
    PROVE  VmChecks(f) <=> Forth!EnoughFor(f)
<1> DEFINE o == f.op
           h == f.p.kind
           a == Enough(f.p, VmState, base)
           d == m.depth
           n == Len(m.rs)
           v == Align(m.dp) + 4 <= Limit
<1>1. /\ base = Frame.below /\ VmState = Seen /\ Len(DataStack) = d /\ d \in Nat /\ n \in Nat
      /\ Frame.below + Len(OwnRs) = n /\ MaxCells \in Int
  <2>1. d \in 0..MaxCells /\ MaxCells \in Int
    BY VmHere, PrimitivesAssumption DEF Half
  <2> QED
    BY <2>1, VmHere
<1>2. /\ o = "BUILTIN_WORD" => (Forth!EnoughFor(f) <=> a)
      /\ o \in PushOps => (Forth!EnoughFor(f) <=> d + 1 <= MaxCells)
      /\ o = "RUNTIME_WORD" => (Forth!EnoughFor(f) <=> IF h = "lit" THEN d + 1 <= MaxCells
                                                       ELSE d >= 1 /\ (h = "invoke" => n + 2 <= MaxCells))
      /\ o \in {"BRANCH_IF_ZERO", "DECLARE_CONSTANT"} => (Forth!EnoughFor(f) <=> d >= 1)
      /\ o = "EXECUTE" => (Forth!EnoughFor(f) <=> d >= 1 /\ n + 2 <= MaxCells)
      /\ o = "DEFINED_WORD" => (Forth!EnoughFor(f) <=> n + 2 <= MaxCells)
      /\ o = "DO" => (Forth!EnoughFor(f) <=> d >= 2 /\ n + 2 <= MaxCells)
      /\ o = "DECLARE_VARIABLE" => (Forth!EnoughFor(f) <=> v)
      /\ o \notin PushOps \cup {"BUILTIN_WORD", "RUNTIME_WORD", "BRANCH_IF_ZERO", "DECLARE_CONSTANT", "EXECUTE",
                                "DEFINED_WORD", "DO", "DECLARE_VARIABLE"} => Forth!EnoughFor(f)
  BY <1>1, EnoughBy, Zenon
<1> DEFINE takes == VmTakes(f)
           pushes == VmPushes(f)
           calls == VmCalls(f)
<1>3. takes = CASE o \in {"BRANCH_IF_ZERO", "DECLARE_CONSTANT", "EXECUTE"} -> 1
      [] o = "DO" -> 2
      [] o = "RUNTIME_WORD" -> IF h = "lit" THEN 0 ELSE 1
      [] OTHER -> 0
  BY Zenon DEF VmTakes
<1>4. pushes <=> o \in PushOps \/ (o = "RUNTIME_WORD" /\ h = "lit")
  BY Zenon DEF VmPushes, PushOps
<1>5. calls <=> o \in {"DEFINED_WORD", "EXECUTE"} \/ (o = "RUNTIME_WORD" /\ h = "invoke")
  BY Zenon DEF VmCalls
<1>6. VmChecks(f) <=> /\ o = "BUILTIN_WORD" => a
                      /\ d >= takes
                      /\ pushes => d < MaxCells
                      /\ (calls \/ o = "DO") => n + 2 <= MaxCells
                      /\ o = "DECLARE_VARIABLE" => v
  BY Zenon DEF VmChecks
<1> HIDE DEF o, h, a, d, n, v, takes, pushes, calls
<1>7. /\ o \in {"BRANCH_IF_ZERO", "DECLARE_CONSTANT", "EXECUTE"} => takes = 1
      /\ o = "DO" => takes = 2
      /\ o = "RUNTIME_WORD" => takes = IF h = "lit" THEN 0 ELSE 1
      /\ o \notin {"BRANCH_IF_ZERO", "DECLARE_CONSTANT", "EXECUTE", "DO", "RUNTIME_WORD"} => takes = 0
  BY <1>3
<1>8. d \in Nat /\ n \in Nat /\ MaxCells \in Int
  BY <1>1
<1>9. d + 1 <= MaxCells <=> d < MaxCells
  BY <1>8
<1> QED
  BY <1>2, <1>4, <1>5, <1>6, <1>7, <1>8, <1>9 DEF PushOps

-----------------------------------------------------------------------------
(* A step within a word: the frames keep, and the calls follow.              *)

(* Where a step within a word may go.                                      *)
Reaches(to) ==
    to \in DOMAIN CodeOf(task) /\ WordAt(task, to) = WordAt(task, k) /\ ~IsLocation(task, to) /\ to # 1

(* The fragment that runs.                                                 *)
LEMMA Ran ==
    ASSUME Inv, NEW op, Vm(op) \/ Native(op)
    PROVE  /\ Fragment.op = op /\ CodeOf(task)[k].op = op /\ status = "running"
           /\ Forth!Runs(op) /\ Forth!EnoughFor(Fragment) /\ Forth!DefinedFor(Fragment)
           /\ Forth!Carries(task.program, Fragment)
           /\ op # "ENTRY" => k # 1
           /\ op # "DEFINED_WORD_LOCATION" => ~IsLocation(task, k)
           /\ op \notin {"BRANCH", "EXIT_WORD", "HALT"} => Reaches(k + 1)
           /\ op \in {"BRANCH", "BRANCH_IF_ZERO", "LOOP"} =>
                Reaches(Fragment.p) /\ CodeOf(task)[Fragment.p].op = "BRANCH_LOCATION"
           /\ op = "EXIT_WORD" => Fragment.p = WordAt(task, k)
           /\ op = "HALT" => WordAt(task, k) = 0
           /\ Vm(op) => On("vm")
           /\ Native(op) => ~On("vm") /\ (op = "RUNTIME_WORD" \/ (op = "EXIT_WORD" /\ Frame.fromC) => Len(DataStack) < MaxCells)
<1>1. /\ task \in Tasks /\ k \in DOMAIN CodeOf(task) /\ Fragment = CodeOf(task)[k]
  BY Here, Zenon
<1>2. Fragment.op = op /\ status = "running"
  BY Zenon DEF Vm, Native, Running
<1>3. Forth!EnoughFor(Fragment) /\ Forth!DefinedFor(Fragment)
  <2>1. CASE Native(op)
    BY <2>1, Zenon DEF Native
  <2>2. CASE Vm(op)
    <3>1. On("vm") /\ VmChecks(Fragment) /\ Forth!DefinedFor(Fragment)
      BY <2>2, Zenon DEF Vm
    <3> QED
      BY <3>1, VmChecked, Zenon
  <2> QED
    BY <2>1, <2>2
<1>4. Forth!Runs(op)
  <2>1. Forth!Fragment = Fragment
    BY ForthView, Zenon
  <2> QED
    BY <1>2, <1>3, <2>1, Zenon DEF Forth!Runs
<1> DEFINE f == CodeOf(task)[k]
<1>5. /\ f.op = "ENTRY" <=> k = 1
      /\ Forth!Carries(task.program, f)
      /\ f.op = "EXIT_WORD" => f.p = WordAt(task, k)
      /\ f.op = "HALT" => WordAt(task, k) = 0
  <2> HIDE DEF f
  <2> USE DEF f
  <2> QED
    BY <1>1, TaskShape
<1>6. op # "ENTRY" => k # 1
  BY <1>1, <1>2, <1>5
<1>7. op # "DEFINED_WORD_LOCATION" => ~IsLocation(task, k)
  BY <1>1, <1>2, Zenon DEF IsLocation
<1>8. op \notin {"BRANCH", "EXIT_WORD", "HALT"} => Reaches(k + 1)
  <2>1. op \notin {"BRANCH", "EXIT_WORD", "HALT"} => CodeOf(task)[k].op \notin {"BRANCH", "EXIT_WORD", "HALT"}
    BY <1>1, <1>2
  <2> QED
    BY <1>1, <2>1, NextPlace DEF Reaches
<1>9. op \in {"BRANCH", "BRANCH_IF_ZERO", "LOOP"} =>
        Reaches(Fragment.p) /\ CodeOf(task)[Fragment.p].op = "BRANCH_LOCATION"
  <2>1. op \in {"BRANCH", "BRANCH_IF_ZERO", "LOOP"} => CodeOf(task)[k].op \in {"BRANCH", "BRANCH_IF_ZERO", "LOOP"}
    BY <1>1, <1>2
  <2> QED
    BY <1>1, <2>1, BranchPlace DEF Reaches
<1>10. Vm(op) => On("vm")
  BY Zenon DEF Vm
<1>11. Native(op) => ~On("vm") /\ (op = "RUNTIME_WORD" \/ (op = "EXIT_WORD" /\ Frame.fromC) => Len(DataStack) < MaxCells)
  BY Zenon DEF Native
<1> QED
  BY <1>1, <1>2, <1>3, <1>4, <1>5, <1>6, <1>7, <1>8, <1>9, <1>10, <1>11, Zenon

(* A step within a word keeps the invariant, and is one of the machine     *)
(* that runs Forth as far as calls go.                                     *)
LEMMA Stepped ==
    ASSUME Inv, NEW op, Vm(op) \/ Native(op), op \notin {"ENTRY", "DEFINED_WORD_LOCATION"},
           Within, Stays, Reaches(k'), Keeps(frames, m.rs, m'.rs), MachineOK(task, k', m'), VarsOK'
    PROVE  /\ Inv' /\ Calls' = Forth!Own(Returns(m'.rs, Frame.own))
           /\ DataStack' = StackOf(task, k', m') /\ Forth!Stays
<1>1. op # "ENTRY" /\ op # "DEFINED_WORD_LOCATION"
  OBVIOUS
<1>2. k # 1 /\ ~IsLocation(task, k)
  BY <1>1, Ran, Zenon
<1>3. /\ k' \in DOMAIN CodeOf(task) /\ WordAt(task, k') = WordAt(task, k) /\ ~IsLocation(task, k') /\ k' # 1
  BY Zenon DEF Reaches
<1>4. Inv' /\ Calls' = OwnAs(Calls, Returns(m'.rs, Frame.own))
  BY <1>2, <1>3, StraightStep, Zenon
<1>5. task' = task /\ status' = status /\ Forth!Stays
  BY Zenon DEF Stays, Forth!Stays, program
<1>6. Calls' = Forth!Own(Returns(m'.rs, Frame.own))
  BY <1>4, Zenon DEF Forth!Own, OwnAs
<1>7. k' \in Nat
  <2>1. task \in Tasks
    BY Here, Zenon
  <2> QED
    BY <1>3, <2>1, BehindLocation, Zenon
<1>8. DataStack' = StackOf(task, k', m')
  BY <1>5, <1>7, ViewsNext, Zenon
<1> QED
  BY <1>4, <1>5, <1>6, <1>8, Zenon

(* The running word's part of the return stack.                            *)
LEMMA HereCells ==
    ASSUME Inv
    PROVE  /\ m.rs \in Seq(Entries) /\ OwnCells(m.rs, Frame.own) /\ Frame.own \in Nat /\ Frame.below \in Nat
           /\ Frame.own <= Len(m.rs) /\ Len(m.rs) \in Nat
           /\ OwnRs \in Seq(Cell) /\ Len(OwnRs) \in Nat /\ Len(OwnRs) = Len(m.rs) - Frame.own
           /\ Frame.below + Len(OwnRs) <= MaxCells /\ MaxCells \in Int
           /\ Frame.own <= Frame.below /\ Len(m.rs) <= MaxCells
<1>1. task \in Tasks /\ FramesOK(task, k, m.rs, frames) /\ Frame = Top(frames)
  BY Here, Zenon
<1>2. /\ m.rs \in ReturnStacks /\ Len(m.rs) \in Nat /\ OwnCells(m.rs, Top(frames).own)
      /\ Top(frames).own \in Nat /\ Top(frames).below \in Nat /\ Top(frames).own <= Len(m.rs)
      /\ Top(frames).below + (Len(m.rs) - Top(frames).own) <= MaxCells
      /\ Top(frames).own <= Top(frames).below
  BY <1>1, TopFacts
<1>3. m.rs \in Seq(Entries)
  BY <1>2, Zenon DEF ReturnStacks, Entries
<1>4. OwnRs \in Seq(Cell) /\ Len(OwnRs) = Len(m.rs) - Frame.own
  <2>1. OwnCells(m.rs, Frame.own)
    BY <1>1, <1>2, Zenon
  <2> QED
    BY <1>3, <2>1, ReturnsTyped, Zenon DEF OwnRs
<1>5. MaxCells \in Int
  BY PrimitivesAssumption DEF Half
<1> DEFINE a == Frame.own
           b == Frame.below
           l == Len(m.rs)
           o == Len(OwnRs)
<1>6. a \in Nat /\ b \in Nat /\ l \in Nat /\ a <= l /\ b + (l - a) <= MaxCells /\ a <= b /\ o = l - a
  BY <1>1, <1>2, <1>4, Zenon
<1> HIDE DEF a, b, l, o
<1>7. o \in Nat /\ b + o <= MaxCells /\ l <= MaxCells
  BY <1>5, <1>6
<1> QED
  BY <1>1, <1>2, <1>3, <1>4, <1>5, <1>6, <1>7, Zenon DEF a, b, l, o

(* Nothing happens to the return stack.                                    *)
LEMMA KeepsAll ==
    ASSUME Inv
    PROVE  Keeps(frames, m.rs, m.rs)
<1>1. task \in Tasks /\ FramesOK(task, k, m.rs, frames)
  BY Here, Zenon
<1>2. /\ m.rs \in ReturnStacks /\ OwnCells(m.rs, Top(frames).own)
      /\ Top(frames).below + (Len(m.rs) - Top(frames).own) <= MaxCells
  BY <1>1, TopFacts
<1> QED
  BY <1>2, Zenon DEF Keeps

(* The running word's cells are other ones.                                *)
LEMMA KeepsOther ==
    ASSUME Inv, NEW R \in Seq(Entries), OwnCells(R, Frame.own), \A j \in 1..Frame.own : R[j] = m.rs[j],
           Frame.below + Len(Returns(R, Frame.own)) <= MaxCells
    PROVE  Keeps(frames, m.rs, R)
<1>1. Frame = Top(frames)
  BY Here, Zenon
<1>2. Len(Returns(R, Frame.own)) = Len(R) - Frame.own
  BY ReturnsTyped, Zenon
<1>3. R \in ReturnStacks
  BY Zenon DEF ReturnStacks, Entries
<1> QED
  BY <1>1, <1>2, <1>3, Zenon DEF Keeps

LEMMA Tagging ==
    ASSUME NEW s \in Seq(Cell)
    PROVE  Tagged(s) \in Seq(Entries) /\ Tags(Tagged(s), s)
<1>1. Len(s) \in Nat /\ DOMAIN s = 1..Len(s) /\ \A i \in 1..Len(s) : s[i] \in Cell
  BY LenProperties
<1>2. \A i \in 1..Len(s) : <<"cell", s[i]>> \in Entries
  BY <1>1, Integer DEF Entries
<1>3. Tagged(s) = [i \in 1..Len(s) |-> <<"cell", s[i]>>]
  BY <1>1 DEF Tagged
<1>4. Tagged(s) \in [1..Len(s) -> Entries]
  BY <1>2, <1>3
<1>5. Tagged(s) \in Seq(Entries) /\ Len(Tagged(s)) = Len(s)
  BY <1>1, <1>4
<1> QED
  BY <1>3, <1>5 DEF Tags

(* Other cells above entry b.                                              *)
LEMMA TaggedAbove ==
    ASSUME NEW R \in Seq(Entries), NEW b \in 0..Len(R), NEW s \in Seq(Cell)
    PROVE  LET R2 == SubSeq(R, 1, b) \o Tagged(s)
           IN  /\ R2 \in Seq(Entries) /\ OwnCells(R2, b) /\ Len(R2) = b + Len(s)
               /\ Returns(R2, b) = s /\ \A j \in 1..b : R2[j] = R[j]
<1> DEFINE P == SubSeq(R, 1, b)
           T == Tagged(s)
<1>1. P \in Seq(Entries) /\ Len(P) = b /\ \A j \in 1..b : P[j] = R[j]
  BY SubSeqProperties
<1>2. OwnCells(P, b)
  <2> HIDE DEF P
  <2> QED
    BY <1>1 DEF OwnCells
<1>3. T \in Seq(Entries) /\ Tags(T, s)
  BY Tagging
<1>4. Returns(P, b) = <<>>
  <2>1. Returns(P, b) \in Seq(Cell) /\ Len(Returns(P, b)) = Len(P) - b
    BY <1>1, <1>2, ReturnsTyped, Zenon
  <2>2. Len(P) - b = 0
    BY <1>1
  <2> QED
    BY <2>1, <2>2
<1> HIDE DEF P, T
<1>5. PushedOn(P, T, b, s)
  BY <1>1, <1>2, <1>3, ReturnsPush
<1>6. <<>> \o s = s
  OBVIOUS
<1> QED
  BY <1>1, <1>4, <1>5, <1>6 DEF PushedOn, P, T

-----------------------------------------------------------------------------
(* The machine behind such a step: what became of the return stack and the   *)
(* data space.                                                               *)

Rest(x, R, p, h) == [x EXCEPT !.rs = R, !.dp = p, !.heap = h]

(* A machine with another return stack and data space.                     *)
Apart(x) == x = Machine(x.top, x.depth, x.scratch, x.cells, x.rs, x.dp, x.heap)
Rests(x, y, R, p, h) ==
    /\ y.top = x.top /\ y.depth = x.depth /\ y.scratch = x.scratch /\ y.cells = x.cells
    /\ y.rs = R /\ y.dp = p /\ y.heap = h
    /\ y = Machine(y.top, y.depth, y.scratch, y.cells, y.rs, y.dp, y.heap)
    /\ y = Machine(x.top, x.depth, x.scratch, x.cells, R, p, h)

LEMMA Rested ==
    ASSUME NEW x, Apart(x), NEW R, NEW p, NEW h
    PROVE  Rests(x, Rest(x, R, p, h), R, p, h)
<1> DEFINE t == x.top
           d == x.depth
           j == x.scratch
           c == x.cells
           r0 == x.rs
           p0 == x.dp
           h0 == x.heap
           y == Rest(x, R, p, h)
<1>1. y = [[[x EXCEPT !.rs = R] EXCEPT !.dp = p] EXCEPT !.heap = h]
  <2>1. y = [x EXCEPT !.rs = R, !.dp = p, !.heap = h]
    BY Zenon DEF Rest
  <2> HIDE DEF y
  <2> QED
    BY <2>1
<1>2. x = Machine(t, d, j, c, r0, p0, h0)
  BY Zenon DEF Apart
<1> HIDE DEF t, d, j, c, y, r0, p0, h0
<1>3. [x EXCEPT !.rs = R] = Machine(t, d, j, c, R, p0, h0)
  <2>1. [Machine(t, d, j, c, r0, p0, h0) EXCEPT !.rs = R] = Machine(t, d, j, c, R, p0, h0)
    BY Parts
  <2> QED
    BY <1>2, <2>1, Zenon
<1>4. [Machine(t, d, j, c, R, p0, h0) EXCEPT !.dp = p] = Machine(t, d, j, c, R, p, h0)
  BY Parts
<1>5. [Machine(t, d, j, c, R, p, h0) EXCEPT !.heap = h] = Machine(t, d, j, c, R, p, h)
  BY Parts
<1>6. y = Machine(t, d, j, c, R, p, h)
  BY <1>1, <1>3, <1>4, <1>5, Zenon
<1>7. /\ y.top = t /\ y.depth = d /\ y.scratch = j /\ y.cells = c /\ y.rs = R /\ y.dp = p /\ y.heap = h
      /\ y = Machine(y.top, y.depth, y.scratch, y.cells, y.rs, y.dp, y.heap)
  BY <1>6 DEF Machine
<1> QED
  BY <1>6, <1>7, Zenon DEF t, d, j, c, y, Rests

LEMMA RestedOne ==
    ASSUME NEW x, Apart(x), NEW v
    PROVE  /\ [x EXCEPT !.rs = v] = Rest(x, v, x.dp, x.heap)
           /\ [x EXCEPT !.dp = v] = Rest(x, x.rs, v, x.heap)
<1> DEFINE t == x.top
           d == x.depth
           j == x.scratch
           c == x.cells
           r == x.rs
           p == x.dp
           h == x.heap
<1>1. x = Machine(t, d, j, c, r, p, h)
  BY Zenon DEF Apart
<1>4. /\ Rest(x, v, p, h) = Machine(t, d, j, c, v, p, h)
      /\ Rest(x, r, v, h) = Machine(t, d, j, c, r, v, h)
  <2>1. Rests(x, Rest(x, v, p, h), v, p, h) /\ Rests(x, Rest(x, r, v, h), r, v, h)
    BY Rested, Zenon
  <2> QED
    BY <2>1, Zenon DEF Rests
<1>2. /\ [Machine(t, d, j, c, r, p, h) EXCEPT !.rs = v] = Machine(t, d, j, c, v, p, h)
      /\ [Machine(t, d, j, c, r, p, h) EXCEPT !.dp = v] = Machine(t, d, j, c, r, v, h)
  <2> HIDE DEF t, d, j, c, r, p, h
  <2> QED
    BY Parts
<1> HIDE DEF t, d, j, c, r, p, h
<1>3. /\ [x EXCEPT !.rs = v] = Machine(t, d, j, c, v, p, h)
      /\ [x EXCEPT !.dp = v] = Machine(t, d, j, c, r, v, h)
  BY <1>1, <1>2, Zenon
<1> QED
  BY <1>3, <1>4, Zenon DEF r, p, h

LEMMA VmRested ==
    ASSUME NEW x, VmMachine(x), NEW R \in Seq(Entries), NEW p \in Bottom..Limit, NEW h \in Heaps
    PROVE  LET y == Rest(x, R, p, h)
           IN  /\ VmMachine(y) /\ InMemory(y) = InMemory(x) /\ y.scratch = x.scratch
               /\ y.rs = R /\ y.dp = p /\ y.heap = h
<1> DEFINE y == Rest(x, R, p, h)
<1>1. /\ Apart(x)
      /\ x.top \in Cell /\ x.depth \in 0..MaxCells /\ x.cells \in [CellIndexes -> Cell]
  BY Zenon DEF VmMachine, Apart
<1>2. /\ y.top = x.top /\ y.depth = x.depth /\ y.scratch = x.scratch /\ y.cells = x.cells
      /\ y.rs = R /\ y.dp = p /\ y.heap = h
      /\ y = Machine(y.top, y.depth, y.scratch, y.cells, y.rs, y.dp, y.heap)
  <2>1. Rests(x, y, R, p, h)
    BY <1>1, Rested, Zenon
  <2> HIDE DEF y
  <2> QED
    BY <2>1, Zenon DEF Rests
<1> HIDE DEF y
<1>3. VmMachine(y)
  BY <1>1, <1>2, Zenon DEF VmMachine
<1>4. InMemory(y) = InMemory(x)
  BY <1>2, Zenon DEF InMemory
<1> QED
  BY <1>2, <1>3, <1>4, Zenon DEF y

LEMMA NativeRested ==
    ASSUME NEW x, IsMachine(x), NEW R \in Seq(Entries), NEW p \in Bottom..Limit, NEW h \in Heaps
    PROVE  LET y == Rest(x, R, p, h)
           IN  /\ IsMachine(y) /\ InRegisters(y) = InRegisters(x) /\ y.scratch = x.scratch
               /\ y.rs = R /\ y.dp = p /\ y.heap = h
<1> DEFINE y == Rest(x, R, p, h)
<1>1. /\ Apart(x)
      /\ x.top \in Cell /\ x.depth \in -1..(MaxCells - 1) /\ x.cells \in [CellIndexes -> Cell]
  BY Zenon DEF IsMachine, Apart
<1>2. /\ y.top = x.top /\ y.depth = x.depth /\ y.scratch = x.scratch /\ y.cells = x.cells
      /\ y.rs = R /\ y.dp = p /\ y.heap = h
      /\ y = Machine(y.top, y.depth, y.scratch, y.cells, y.rs, y.dp, y.heap)
  <2>1. Rests(x, y, R, p, h)
    BY <1>1, Rested, Zenon
  <2> HIDE DEF y
  <2> QED
    BY <2>1, Zenon DEF Rests
<1> HIDE DEF y
<1>3. IsMachine(y)
  BY <1>1, <1>2, Zenon DEF IsMachine
<1>4. InRegisters(y) = InRegisters(x)
  BY <1>2, Zenon DEF InRegisters
<1> QED
  BY <1>2, <1>3, <1>4, Zenon DEF y

-----------------------------------------------------------------------------
(* A return stack that holds r for the running word.                       *)
Leaves(R, r) ==
    /\ R \in Seq(Entries) /\ OwnCells(R, Frame.own) /\ \A j \in 1..Frame.own : R[j] = m.rs[j]
    /\ Returns(R, Frame.own) = r /\ Frame.below + Len(r) <= MaxCells

LEMMA LeavesSame ==
    ASSUME Inv
    PROVE  Leaves(m.rs, OwnRs)
<1>1. \A j \in 1..Frame.own : m.rs[j] = m.rs[j]
  OBVIOUS
<1> QED
  BY <1>1, HereCells, Zenon DEF Leaves, OwnRs

LEMMA LeavesMore ==
    ASSUME Inv, NEW R, NEW r \in Seq(Cell), Leaves(R, r), NEW s \in Seq(Cell), Frame.below + Len(r) + Len(s) <= MaxCells
    PROVE  Leaves(R \o Tagged(s), r \o s)
<1>1. R \in Seq(Entries) /\ OwnCells(R, Frame.own) /\ Returns(R, Frame.own) = r
      /\ \A j \in 1..Frame.own : R[j] = m.rs[j]
  BY Zenon DEF Leaves
<1>2. Tagged(s) \in Seq(Entries) /\ Tags(Tagged(s), s)
  BY Tagging, Zenon
<1>3. PushedOn(R, Tagged(s), Frame.own, s)
  BY <1>1, <1>2, ReturnsPush, Zenon
<1>4. Len(r \o s) = Len(r) + Len(s) /\ Len(s) \in Nat /\ Len(r) \in Nat /\ Frame.below \in Nat
  BY ConcatCells, LenProperties, HereCells
<1> DEFINE a == Frame.below
           b == Len(r)
           c == Len(s)
<1>5. a + (b + c) = a + b + c
  <2>1. a \in Nat /\ b \in Nat /\ c \in Nat
    BY <1>4
  <2> HIDE DEF a, b, c
  <2> QED
    BY <2>1
<1>6. Frame.below + Len(r \o s) <= MaxCells
  BY <1>4, <1>5, Zenon
<1>7. \A j \in 1..Frame.own : (R \o Tagged(s))[j] = m.rs[j]
  BY <1>1, <1>3, Zenon DEF PushedOn
<1> QED
  BY <1>1, <1>3, <1>6, <1>7, Zenon DEF Leaves, PushedOn

LEMMA LeavesLess ==
    ASSUME Inv, NEW n \in 0..Len(OwnRs)
    PROVE  Leaves(Below(m.rs, n), Below(OwnRs, n))
<1>1. /\ m.rs \in Seq(Entries) /\ OwnCells(m.rs, Frame.own) /\ OwnRs \in Seq(Cell)
      /\ Frame.below \in Nat /\ Len(OwnRs) \in Nat /\ Len(OwnRs) = Len(m.rs) - Frame.own
      /\ Frame.below + Len(OwnRs) <= MaxCells /\ MaxCells \in Int
  BY HereCells, Zenon
<1>2. n \in 0..(Len(m.rs) - Frame.own)
  BY <1>1
<1>3. /\ Below(m.rs, n) \in Seq(Entries) /\ OwnCells(Below(m.rs, n), Frame.own)
      /\ Returns(Below(m.rs, n), Frame.own) = Below(Returns(m.rs, Frame.own), n)
      /\ \A j \in 1..Frame.own : Below(m.rs, n)[j] = m.rs[j]
  BY <1>1, <1>2, ReturnsBelow, Zenon
<1>4. Len(Below(OwnRs, n)) = Len(OwnRs) - n
  BY <1>1, BelowIs
<1>5. Frame.below + Len(Below(OwnRs, n)) <= MaxCells
  <2> DEFINE a == Frame.below
             b == Len(OwnRs)
             c == Len(Below(OwnRs, n))
  <2>1. a \in Nat /\ b \in Nat /\ n \in 0..b /\ c = b - n /\ a + b <= MaxCells
    BY <1>1, <1>4
  <2> HIDE DEF a, b, c
  <2>2. a + c <= MaxCells
    BY <1>1, <2>1
  <2> QED
    BY <2>2 DEF a, c
<1> QED
  BY <1>3, <1>5, Zenon DEF Leaves, OwnRs

(* A step within a word, with what it leaves on the return stack.          *)
LEMMA SteppedBy ==
    ASSUME Inv, NEW op, Vm(op) \/ Native(op), op \notin {"ENTRY", "DEFINED_WORD_LOCATION"},
           Within, Stays, Reaches(k'), NEW r, Leaves(m'.rs, r), MachineOK(task, k', m'), VarsOK'
    PROVE  /\ Inv' /\ Calls' = Forth!Own(r)
           /\ DataStack' = StackOf(task, k', m') /\ Forth!Stays
<1>1. Keeps(frames, m.rs, m'.rs) /\ Returns(m'.rs, Frame.own) = r
  <2> DEFINE R == m'.rs
  <2>1. Leaves(R, r)
    OBVIOUS
  <2> HIDE DEF R
  <2>2. Keeps(frames, m.rs, R) /\ Returns(R, Frame.own) = r
    BY <2>1, KeepsOther, Zenon DEF Leaves
  <2> QED
    BY <2>2 DEF R
<1> QED
  BY <1>1, Stepped, Zenon

LEMMA SteppedTo ==
    ASSUME Inv, NEW op, Vm(op) \/ Native(op), op \notin {"ENTRY", "DEFINED_WORD_LOCATION"},
           InWord, Stays, Reaches(k'), NEW r, Leaves(m'.rs, r), MachineOK(task, k', m'), VarsOK'
    PROVE  /\ Inv' /\ Calls' = Forth!Own(r)
           /\ DataStack' = StackOf(task, k', m') /\ Forth!Stays
<1>1. Within
  BY Zenon DEF InWord, Within
<1> QED
  BY <1>1, SteppedBy, Zenon

(* The same on the interpreter.                                            *)
LEMMA VmStepped ==
    ASSUME Inv, NEW op, Vm(op), op \notin {"ENTRY", "DEFINED_WORD_LOCATION"},
           InWord, Stays, Reaches(k'), NEW x, m' = x, VmMachine(x), x.scratch = Junk,
           NEW r, Leaves(x.rs, r), VarsOK'
    PROVE  /\ Inv' /\ Calls' = Forth!Own(r) /\ DataStack' = InMemory(x) /\ Forth!Stays
<1>1. On("vm")
  BY Ran, Zenon
<1>2. task.backend = "vm"
  BY <1>1, VmHere, Zenon
<1>3. MachineOK(task, k', m')
  BY <1>2, Zenon DEF MachineOK
<1>4. Leaves(m'.rs, r)
  BY Zenon
<1>5. StackOf(task, k', m') = InMemory(x)
  BY <1>2, Zenon DEF StackOf
<1> QED
  BY <1>3, <1>4, <1>5, SteppedTo, Zenon

-----------------------------------------------------------------------------
(* A built-in word, on the interpreter.                                      *)

(* The machine that the program sees on machine code.                      *)
LEMMA NativeHere ==
    ASSUME Inv, ~On("vm")
    PROVE  LET W == StackWhole(task, k, m)
           IN  /\ task.backend # "vm" /\ task.backend \in {"x86_32", "esp32s3"}
               /\ StackReady(task, k, m) /\ m.scratch = Junk
               /\ IsMachine(W) /\ DataStack = InRegisters(W) /\ Whole = W
               /\ W.rs = m.rs /\ W.dp = m.dp /\ W.heap = m.heap
               /\ Len(DataStack) = W.depth + 1 /\ DataStack \in Seq(Cell)
<1> DEFINE W == StackWhole(task, k, m)
<1>1. /\ task \in Tasks /\ MachineOK(task, k, m) /\ DataStack = StackOf(task, k, m) /\ k \in Nat
      /\ backend = task.backend
  BY Here, Zenon
<1>2. task.backend # "vm"
  BY <1>1, Zenon DEF On
<1>3. task.backend \in {"x86_32", "esp32s3"}
  <2>1. task.backend \in {"vm", "x86_32", "esp32s3"}
    BY <1>1, TaskShape
  <2> QED
    BY <1>2, <2>1
<1>4. StackReady(task, k, m) /\ m.scratch = Junk
  BY <1>1, <1>2, Zenon DEF MachineOK
<1>5. DataStack = InRegisters(W)
  BY <1>1, <1>2, Zenon DEF StackOf
<1> DEFINE up == FlagsIn(task, k - 1)
           above == FlagsIn(task, k - 2)
           fl == FlagsIn(task, k)
<1>6. Ready(up, above, fl, m) /\ W = Restored(up, above, fl, m)
  BY <1>4, Zenon DEF StackReady, StackWhole
<1> HIDE DEF up, above, fl, W
<1>7. IsMachine(W)
  BY <1>6, Zenon DEF Ready
<1>8. W.rs = m.rs /\ W.dp = m.dp /\ W.heap = m.heap
  <2>1. /\ Restored(up, above, fl, m).rs = m.rs /\ Restored(up, above, fl, m).dp = m.dp
        /\ Restored(up, above, fl, m).heap = m.heap
    BY <1>6, RestoredSame
  <2> QED
    BY <1>6, <2>1, Zenon
<1>9. Len(DataStack) = W.depth + 1 /\ DataStack \in Seq(Cell)
  BY <1>5, <1>7, RegistersTyped, Zenon
<1>10. Whole = W
  <2>1. /\ FlagsAt(k - 1) = FlagsIn(task, k - 1) /\ FlagsAt((k - 1) - 1) = FlagsIn(task, (k - 1) - 1)
        /\ FlagsAt((k - 1) + 1) = FlagsIn(task, (k - 1) + 1)
    BY Zenon DEF FlagsAt, FlagsIn, Code, CodeOf, program, backend
  <2>2. (k - 1) - 1 = k - 2 /\ (k - 1) + 1 = k
    BY <1>1
  <2>3. Whole = Closing(FlagsAt(k - 1) \ NeededChores(FlagsAt(k - 1), FlagsAt((k - 1) - 1), FlagsAt((k - 1) + 1)), m)
    BY Zenon DEF Whole, NeedsAt
  <2> QED
    BY <2>1, <2>2, <2>3, Zenon DEF StackWhole, Restored, W
<1> QED
  BY <1>2, <1>3, <1>4, <1>5, <1>7, <1>8, <1>9, <1>10 DEF W

LEMMA SeenState ==
    ASSUME Inv
    PROVE  /\ Seen \in States /\ DataStack \in Seq(Cell) /\ Len(DataStack) \in 0..MaxCells
           /\ m.dp \in Bottom..Limit /\ m.heap \in Heaps
           /\ Seen.ds = DataStack /\ Seen.rs = OwnRs /\ Seen.dp = m.dp /\ Seen.heap = m.heap
<1>1. DataStack \in Seq(Cell) /\ Len(DataStack) \in 0..MaxCells /\ m.dp \in Bottom..Limit /\ m.heap \in Heaps
  <2>1. CASE On("vm")
    <3>1. DataStack \in Seq(Cell) /\ Len(DataStack) = m.depth /\ m.depth \in 0..MaxCells /\ VmMachine(m)
      BY <2>1, VmHere, Zenon
    <3> QED
      BY <3>1, Zenon DEF VmMachine
  <2>2. CASE ~On("vm")
    <3> DEFINE W == StackWhole(task, k, m)
    <3>1. /\ IsMachine(W) /\ W.dp = m.dp /\ W.heap = m.heap
          /\ Len(DataStack) = W.depth + 1 /\ DataStack \in Seq(Cell)
      BY <2>2, NativeHere, Zenon
    <3>2. W.depth \in -1..(MaxCells - 1) /\ W.dp \in Bottom..Limit /\ W.heap \in Heaps
      BY <3>1, Zenon DEF IsMachine
    <3> HIDE DEF W
    <3>3. MaxCells \in Int
      BY PrimitivesAssumption DEF Half
    <3>4. Len(DataStack) \in 0..MaxCells
      <4> DEFINE d == W.depth
      <4>1. d \in -1..(MaxCells - 1) /\ Len(DataStack) = d + 1
        BY <3>1, <3>2, Zenon
      <4> HIDE DEF d
      <4> QED
        BY <3>3, <4>1
    <3> QED
      BY <3>1, <3>2, <3>4, Zenon
  <2> QED
    BY <2>1, <2>2
<1>2. OwnRs \in Seq(Cell)
  BY HereCells, Zenon
<1>3. Seen.ds = DataStack /\ Seen.rs = OwnRs /\ Seen.dp = m.dp /\ Seen.heap = m.heap
  BY DEF Seen
<1>4. Seen \in States
  <2> DEFINE a == DataStack
             b == OwnRs
             c == m.dp
             d == m.heap
  <2>1. a \in Seq(Cell) /\ b \in Seq(Cell) /\ c \in Bottom..Limit /\ d \in Heaps
    BY <1>1, <1>2
  <2>2. Seen = [ds |-> a, rs |-> b, dp |-> c, heap |-> d]
    BY Zenon DEF Seen
  <2> HIDE DEF a, b, c, d
  <2> QED
    BY <2>1, <2>2 DEF States
<1> QED
  BY <1>1, <1>3, <1>4, Zenon

(* The parts of a state.                                                   *)
LEMMA StateParts ==
    ASSUME NEW s \in States
    PROVE  s.ds \in Seq(Cell) /\ s.rs \in Seq(Cell) /\ s.dp \in Bottom..Limit /\ s.heap \in Heaps
  BY DEF States

(* A builtin word on the interpreter.                                      *)
LEMMA VmBuiltinStep ==
    ASSUME Inv, VmBuiltin
    PROVE  Inv' /\ Forth!Builtin
<1> DEFINE w == Fragment.p
           t == Meaning(w, Seen)
           y == VmStack(m, t.ds)
           R == SubSeq(m.rs, 1, Frame.own) \o Tagged(t.rs)
           x == Rest(y, R, t.dp, t.heap)
           op == "BUILTIN_WORD"
<1>1. Vm(op) /\ k' = k + 1 /\ vars' = vars /\ InWord /\ Stays
  BY Zenon DEF VmBuiltin
<1>2. On("vm") /\ Fragment.op = op /\ Forth!Runs(op) /\ Forth!EnoughFor(Fragment) /\ Forth!DefinedFor(Fragment)
      /\ Forth!Carries(task.program, Fragment) /\ Reaches(k + 1)
  <2>1. op \notin {"BRANCH", "EXIT_WORD", "HALT"}
    OBVIOUS
  <2> QED
    BY <1>1, <2>1, Ran, Zenon
<1>3. Enough(w, Seen, Frame.below) /\ Defined(w, Seen)
  BY <1>2, EnoughBy, DefinedBy, Zenon
<1>4. w \in Words
  <2>1. w \in Forth!Words
    BY <1>2, Zenon DEF Forth!Carries
  <2> QED
    BY <2>1, SameWords, Zenon
<1>5. t \in States /\ Len(t.ds) <= MaxCells /\ Frame.below + Len(t.rs) <= MaxCells
  <2>1. /\ Seen \in States /\ Len(Seen.ds) <= MaxCells /\ Frame.below \in Nat
        /\ Frame.below + Len(Seen.rs) <= MaxCells
    <3>1. Seen \in States /\ Len(DataStack) \in 0..MaxCells /\ Seen.ds = DataStack /\ Seen.rs = OwnRs
      BY SeenState, Zenon
    <3>2. Frame.below \in Nat /\ Frame.below + Len(OwnRs) <= MaxCells /\ MaxCells \in Int
      BY HereCells, Zenon
    <3> QED
      BY <3>1, <3>2
  <2>2. t \in Outcomes(w, Seen)
    BY Meant, Zenon
  <2> HIDE DEF t, w
  <2> QED
    BY <1>3, <1>4, <2>1, <2>2, OutcomeState, Zenon
<1>6. t.ds \in Seq(Cell) /\ t.rs \in Seq(Cell) /\ t.dp \in Bottom..Limit /\ t.heap \in Heaps
  BY <1>5, StateParts, Zenon
<1>7. VmState = Seen /\ base = Frame.own /\ VmMachine(m) /\ m.scratch = Junk /\ Frame.own \in 0..Len(m.rs)
  BY <1>2, VmHere, Zenon
<1>8. VmMachine(y) /\ InMemory(y) = t.ds /\ y.scratch = m.scratch /\ y.rs = m.rs
  BY <1>5, <1>6, <1>7, VmStacked
<1>9. m' = x
  <2>1. m' = [VmStack(m, Meaning(Fragment.p, VmState).ds) EXCEPT
                !.rs = SubSeq(@, 1, base) \o Tagged(Meaning(Fragment.p, VmState).rs),
                !.dp = Meaning(Fragment.p, VmState).dp, !.heap = Meaning(Fragment.p, VmState).heap]
    BY Zenon DEF VmBuiltin
  <2>2. m' = [VmStack(m, t.ds) EXCEPT !.rs = SubSeq(@, 1, Frame.own) \o Tagged(t.rs), !.dp = t.dp, !.heap = t.heap]
    BY <1>7, <2>1, Zenon
  <2> HIDE DEF t
  <2> QED
    BY <1>8, <2>2, Zenon DEF Rest
<1>10. Leaves(R, t.rs)
  <2>1. m.rs \in Seq(Entries)
    BY HereCells, Zenon
  <2> HIDE DEF t
  <2>2. /\ R \in Seq(Entries) /\ OwnCells(R, Frame.own)
        /\ Returns(R, Frame.own) = t.rs /\ \A j \in 1..Frame.own : R[j] = m.rs[j]
    BY <1>6, <1>7, <2>1, TaggedAbove
  <2> QED
    BY <1>5, <2>2, Zenon DEF Leaves
<1> HIDE DEF t, y, R
<1>11. VmMachine(x) /\ InMemory(x) = t.ds /\ x.scratch = Junk /\ x.rs = R /\ x.dp = t.dp /\ x.heap = t.heap
  <2>1. R \in Seq(Entries)
    BY <1>10, Zenon DEF Leaves
  <2>2. VmMachine(x) /\ InMemory(x) = InMemory(y) /\ x.scratch = y.scratch /\ x.rs = R /\ x.dp = t.dp /\ x.heap = t.heap
    BY <1>6, <1>8, <2>1, VmRested
  <2> QED
    BY <1>7, <1>8, <2>2, Zenon
<1> HIDE DEF x
<1>12. Reaches(k') /\ VarsOK' /\ Leaves(x.rs, t.rs)
  <2>1. VarsOK
    BY Here, Zenon
  <2> QED
    BY <1>1, <1>2, <1>10, <1>11, <2>1, Zenon DEF VarsOK
<1>13. Inv' /\ Calls' = Forth!Own(t.rs) /\ DataStack' = InMemory(x) /\ Forth!Stays
  <2>1. op \notin {"ENTRY", "DEFINED_WORD_LOCATION"}
    OBVIOUS
  <2> HIDE DEF op
  <2> QED
    BY <1>1, <1>9, <1>11, <1>12, <2>1, VmStepped, Zenon
<1>14. t \in Forth!Outcomes(Forth!Fragment.p, Forth!State)
  <2>1. Forth!Fragment = Fragment /\ Forth!State = Seen
    BY ForthView, Zenon
  <2>2. t \in Outcomes(w, Seen)
    BY Meant, Zenon DEF t
  <2> QED
    BY <2>1, <2>2, SameOutcomes, Zenon
<1>15. DataStack' = t.ds /\ Calls' = Forth!Own(t.rs) /\ m'.dp = t.dp /\ m'.heap = t.heap
  BY <1>9, <1>11, <1>13, Zenon
<1> QED
  BY <1>1, <1>2, <1>13, <1>14, <1>15, Zenon DEF Forth!Builtin

-----------------------------------------------------------------------------
(* Pushing, on the interpreter.                                              *)

LEMMA OwnSame ==
    ASSUME Inv
    PROVE  Forth!Own(OwnRs) = Calls
<1>1. task \in Tasks /\ FramesOK(task, k, m.rs, frames) /\ Frame = Top(frames)
  BY Here, Zenon
<1>2. Keeps(frames, m.rs, m.rs)
  BY KeepsAll, Zenon
<1>3. CallsOf(frames, m.rs) = OwnAs(CallsOf(frames, m.rs), Returns(m.rs, Top(frames).own))
  BY <1>1, <1>2, CallsStraight
<1>4. Calls = CallsOf(frames, m.rs)
  BY CallsView, Zenon
<1> QED
  BY <1>1, <1>3, <1>4, Zenon DEF OwnAs, Forth!Own, OwnRs

LEMMA AppendCell ==
    ASSUME NEW s \in Seq(Cell), NEW v \in Cell
    PROVE  Append(s, v) \in Seq(Cell) /\ Len(Append(s, v)) = Len(s) + 1 /\ Len(s) \in Nat
  BY AppendProperties, LenProperties

LEMMA BelowCell ==
    ASSUME NEW s \in Seq(Cell), NEW n \in Nat, Len(s) >= n
    PROVE  Below(s, n) \in Seq(Cell) /\ Len(Below(s, n)) = Len(s) - n /\ Len(s) \in Nat
<1>1. Len(s) \in Nat
  BY LenProperties
<1>2. n \in 0..Len(s)
  BY <1>1
<1> QED
  BY <1>1, <1>2, BelowIs

(* The value that a fragment pushes.                                       *)
LEMMA PushedIs ==
    ASSUME Inv, NEW op \in PushOps, Vm(op) \/ Native(op)
    PROVE  /\ PushedValue \in Cell
           /\ op # "USE_VARIABLE_OR_CONSTANT" => PushedValue = Fragment.p
           /\ op = "USE_VARIABLE_OR_CONSTANT" => PushedValue = vars[Fragment.p]
           /\ Len(DataStack) + 1 <= MaxCells /\ DataStack \in Seq(Cell)
<1>1. Fragment.op = op /\ Forth!EnoughFor(Fragment) /\ Forth!Carries(task.program, Fragment)
  BY Ran, Zenon
<1>2. Len(DataStack) + 1 <= MaxCells
  BY <1>1, EnoughBy, Zenon
<1>3. /\ op # "USE_VARIABLE_OR_CONSTANT" => PushedValue = Fragment.p
      /\ op = "USE_VARIABLE_OR_CONSTANT" => PushedValue = vars[Fragment.p]
  BY <1>1, Zenon DEF PushedValue
<1>4. PushedValue \in Cell
  <2>1. CASE op = "USE_VARIABLE_OR_CONSTANT"
    <3>1. Fragment.p \in 0..(VariableCount - 1)
      BY <1>1, <2>1, Zenon DEF Forth!Carries
    <3>2. vars \in [0..(VariableCount - 1) -> Cell]
      BY Here, Zenon DEF VarsOK
    <3>3. vars[Fragment.p] \in Cell
      BY <3>1, <3>2
    <3> QED
      BY <1>3, <2>1, <3>3
  <2>2. CASE op \in {"PUSH_LITERAL", "PUSH_DATA_ADDRESS", "PUSH_CALLBACK"}
    <3>1. Fragment.p \in Forth!Cell
      BY <1>1, <2>2, Zenon DEF Forth!Carries
    <3> QED
      BY <1>3, <2>2, <3>1, SameWords
  <2>3. CASE op = "PUSH_OFFSET_ADDRESS"
    <3>1. Fragment.p \in DOMAIN task.program.code
      BY <1>1, <2>3, Zenon DEF Forth!Carries
    <3>2. task \in Tasks
      BY Here, Zenon
    <3>3. DOMAIN CodeOf(task) = 1..Len(CodeOf(task)) /\ Len(CodeOf(task)) \in 2..(Half - 1)
      BY <3>2, TaskShape
    <3>4. Fragment.p \in 1..(Half - 1)
      <4> DEFINE l == Len(CodeOf(task))
                 q == Fragment.p
      <4>1. q \in 1..l /\ l \in 2..(Half - 1)
        BY <3>1, <3>3, Zenon DEF CodeOf
      <4> HIDE DEF l, q
      <4>2. q \in 1..(Half - 1)
        BY <4>1 DEF Half
      <4> QED
        BY <4>2 DEF q
    <3>5. Fragment.p \in Cell
      BY <3>4 DEF Cell, Half
    <3> QED
      BY <1>3, <2>3, <3>5
  <2> QED
    BY <2>1, <2>2, <2>3 DEF PushOps
<1>5. DataStack \in Seq(Cell)
  BY SeenState, Zenon
<1> QED
  BY <1>2, <1>3, <1>4, <1>5, Zenon

(* The interpreter's machine with another stack, in the invariant.         *)
LEMMA VmNewStack ==
    ASSUME Inv, On("vm"), NEW s \in Seq(Cell), Len(s) <= MaxCells
    PROVE  LET y == VmStack(m, s)
           IN  /\ VmMachine(y) /\ InMemory(y) = s /\ y.scratch = Junk
               /\ y.rs = m.rs /\ y.dp = m.dp /\ y.heap = m.heap
<1>1. VmMachine(m) /\ m.scratch = Junk
  BY VmHere, Zenon
<1> QED
  BY <1>1, VmStacked

(* A step of the interpreter to another stack.                             *)
LEMMA VmRestacked ==
    ASSUME Inv, NEW op, Vm(op), op \notin {"ENTRY", "DEFINED_WORD_LOCATION"}, InWord, Stays, Reaches(k'),
           NEW s \in Seq(Cell), Len(s) <= MaxCells, m' = VmStack(m, s), VarsOK'
    PROVE  Inv' /\ Calls' = Calls /\ DataStack' = s /\ Forth!Stays /\ m'.dp = m.dp /\ m'.heap = m.heap
<1> DEFINE y == VmStack(m, s)
<1>1. On("vm")
  BY Ran, Zenon
<1>2. /\ VmMachine(y) /\ InMemory(y) = s /\ y.scratch = Junk
      /\ y.rs = m.rs /\ y.dp = m.dp /\ y.heap = m.heap
  BY <1>1, VmNewStack
<1>3. m' = y
  OBVIOUS
<1> HIDE DEF y
<1>4. Leaves(y.rs, OwnRs)
  BY <1>2, LeavesSame, Zenon
<1>5. Inv' /\ Calls' = Forth!Own(OwnRs) /\ DataStack' = InMemory(y) /\ Forth!Stays
  BY <1>2, <1>3, <1>4, VmStepped, Zenon
<1> QED
  BY <1>2, <1>3, <1>5, OwnSame, Zenon

LEMMA VmPushStep ==
    ASSUME Inv, VmPush
    PROVE  Inv' /\ Forth!Push
<1>0. /\ \E op \in PushOps : Vm(op)
      /\ m' = VmStack(m, Append(DataStack, PushedValue)) /\ k' = k + 1 /\ vars' = vars /\ InWord /\ Stays
  BY Zenon DEF VmPush, Pushing, PushOps
<1>1. PICK op \in PushOps : Vm(op)
  BY <1>0
<1>2. op \notin {"BRANCH", "EXIT_WORD", "HALT"} /\ op \notin {"ENTRY", "DEFINED_WORD_LOCATION"}
  BY DEF PushOps
<1>3. Fragment.op = op /\ Forth!Runs(op) /\ Reaches(k + 1)
  BY <1>1, <1>2, Ran, Zenon
<1> DEFINE s == Append(DataStack, PushedValue)
<1>4. /\ PushedValue \in Cell
      /\ op # "USE_VARIABLE_OR_CONSTANT" => PushedValue = Fragment.p
      /\ op = "USE_VARIABLE_OR_CONSTANT" => PushedValue = vars[Fragment.p]
      /\ Len(DataStack) + 1 <= MaxCells /\ DataStack \in Seq(Cell)
  BY <1>1, PushedIs
<1>5. s \in Seq(Cell) /\ Len(s) <= MaxCells
  BY <1>4, AppendCell, Zenon
<1>6. VarsOK' /\ Reaches(k')
  BY <1>0, <1>3, Here, Zenon DEF VarsOK
<1> HIDE DEF s
<1>7. Inv' /\ Calls' = Calls /\ DataStack' = s /\ Forth!Stays /\ m'.dp = m.dp /\ m'.heap = m.heap
  <2>1. m' = VmStack(m, s)
    BY <1>0, Zenon DEF s
  <2> QED
    BY <1>0, <1>1, <1>2, <1>5, <1>6, <2>1, VmRestacked, Zenon
<1>8. Forth!Fragment = Fragment
  BY ForthView, Zenon
<1>9. \/ op \in {"PUSH_LITERAL", "PUSH_DATA_ADDRESS", "PUSH_OFFSET_ADDRESS", "PUSH_CALLBACK"} /\ op # "USE_VARIABLE_OR_CONSTANT"
      \/ op = "USE_VARIABLE_OR_CONSTANT"
  BY DEF PushOps
<1>10. \/ \E o \in {"PUSH_LITERAL", "PUSH_DATA_ADDRESS", "PUSH_OFFSET_ADDRESS", "PUSH_CALLBACK"} :
              Forth!Runs(o) /\ DataStack' = Append(DataStack, Forth!Fragment.p)
       \/ Forth!Runs("USE_VARIABLE_OR_CONSTANT") /\ DataStack' = Append(DataStack, vars[Forth!Fragment.p])
  BY <1>3, <1>4, <1>7, <1>8, <1>9, Zenon DEF s
<1> QED
  BY <1>0, <1>7, <1>10, Zenon DEF Forth!Push

LEMMA AlignedDp ==
    ASSUME NEW p \in Bottom..Limit, Align(p) + 4 <= Limit
    PROVE  Align(p) \in Cell /\ Align(p) + 4 \in Bottom..Limit
<1>1. p \in Nat /\ Bottom \in Nat /\ Limit \in Nat /\ Limit <= Half - 1
  BY PrimitivesAssumption DEF Half
<1>2. Align(p) \in Nat /\ Align(p) >= p
  BY <1>1, AlignUp
<1> DEFINE a == Align(p)
<1> HIDE DEF a
<1>3. a \in Nat /\ a >= p /\ a + 4 <= Limit
  BY <1>2 DEF a
<1>4. a \in Cell /\ a + 4 \in Bottom..Limit
  BY <1>1, <1>3 DEF Cell, Half
<1> QED
  BY <1>4 DEF a

-----------------------------------------------------------------------------
(* Declarations and branches, on the interpreter.                            *)

LEMMA SameOps ==
    \A s, n : Forth!Nth(s, n) = Nth(s, n) /\ Forth!Below(s, n) = Below(s, n) /\ Forth!Wrap(n) = Wrap(n)
              /\ Forth!Align(n) = Align(n)
  BY Zenon DEF Forth!Nth, Nth, Forth!Below, Below, Forth!Wrap, Wrap, Forth!Half, Half, Forth!Range256, Range256,
     Forth!Align, Align

(* A cell of the variables is set.                                         *)
LEMMA VarSet ==
    ASSUME Inv, NEW i, NEW v \in Cell, vars' = [vars EXCEPT ![i] = v]
    PROVE  VarsOK'
<1>1. vars \in [0..(VariableCount - 1) -> Cell]
  BY Here, Zenon DEF VarsOK
<1>2. vars' \in [0..(VariableCount - 1) -> Cell]
  BY <1>1
<1> QED
  BY <1>2, Zenon DEF VarsOK

LEMMA VmDeclareStep ==
    ASSUME Inv, VmDeclare
    PROVE  Inv' /\ Forth!Declare
<1>0. k' = k + 1 /\ InWord /\ Stays
  BY Zenon DEF VmDeclare
<1>1. Forth!Fragment = Fragment
  BY ForthView, Zenon
<1>2. CASE /\ Vm("DECLARE_VARIABLE") /\ vars' = [vars EXCEPT ![Fragment.p] = Align(m.dp)]
           /\ m' = [m EXCEPT !.dp = Align(@) + 4]
  <2> DEFINE op == "DECLARE_VARIABLE"
             x == Rest(m, m.rs, Align(m.dp) + 4, m.heap)
  <2>0. /\ op \notin {"BRANCH", "EXIT_WORD", "HALT"} /\ op \notin {"ENTRY", "DEFINED_WORD_LOCATION"}
    OBVIOUS
  <2>1. Vm(op) /\ Fragment.op = op /\ Forth!Runs(op) /\ Reaches(k + 1) /\ On("vm") /\ Forth!EnoughFor(Fragment)
    BY <1>2, <2>0, Ran, Zenon
  <2>2. Align(m.dp) + 4 <= Limit
    BY <2>1, EnoughBy, Zenon
  <2>3. /\ VmMachine(m) /\ m.scratch = Junk /\ DataStack = InMemory(m)
    BY <2>1, VmHere, Zenon
  <2>4. m.rs \in Seq(Entries) /\ m.dp \in Bottom..Limit /\ m.heap \in Heaps
    BY <2>3, Zenon DEF VmMachine
  <2>5. Align(m.dp) \in Cell /\ Align(m.dp) + 4 \in Bottom..Limit
    BY <2>2, <2>4, AlignedDp
  <2>6. VmMachine(x) /\ InMemory(x) = InMemory(m) /\ x.scratch = Junk /\ x.rs = m.rs
        /\ x.dp = Align(m.dp) + 4 /\ x.heap = m.heap
    BY <2>3, <2>4, <2>5, VmRested
  <2>7. m' = x
    <3>1. Apart(m)
      BY <2>3, Zenon DEF VmMachine, Apart
    <3> QED
      BY <1>2, <3>1, RestedOne, Zenon
  <2>8. VarsOK' /\ Reaches(k')
    BY <1>0, <1>2, <2>1, <2>5, VarSet, Zenon
  <2> HIDE DEF x, op
  <2>9. Leaves(x.rs, OwnRs)
    BY <2>6, LeavesSame, Zenon
  <2>10. Inv' /\ Calls' = Forth!Own(OwnRs) /\ DataStack' = InMemory(x) /\ Forth!Stays
    BY <1>0, <2>0, <2>1, <2>6, <2>7, <2>8, <2>9, VmStepped, Zenon
  <2>11. m'.dp = Forth!Align(m.dp) + 4 /\ vars' = [vars EXCEPT ![Forth!Fragment.p] = Forth!Align(m.dp)]
         /\ DataStack' = DataStack /\ m'.heap = m.heap /\ Calls' = Calls
    BY <1>1, <1>2, <2>3, <2>6, <2>7, <2>10, OwnSame, SameOps, Zenon
  <2> QED
    BY <1>0, <2>1, <2>10, <2>11, Zenon DEF Forth!Declare, op
<1>3. CASE /\ Vm("DECLARE_CONSTANT") /\ vars' = [vars EXCEPT ![Fragment.p] = Nth(DataStack, 1)]
           /\ m' = VmStack(m, Below(DataStack, 1))
  <2> DEFINE op == "DECLARE_CONSTANT"
             s == Below(DataStack, 1)
  <2>0. /\ op \notin {"BRANCH", "EXIT_WORD", "HALT"} /\ op \notin {"ENTRY", "DEFINED_WORD_LOCATION"}
    OBVIOUS
  <2>1. Vm(op) /\ Fragment.op = op /\ Forth!Runs(op) /\ Reaches(k + 1) /\ On("vm") /\ Forth!EnoughFor(Fragment)
    BY <1>3, <2>0, Ran, Zenon
  <2>2. Len(DataStack) >= 1
    <3>1. op \in {"BRANCH_IF_ZERO", "DECLARE_CONSTANT"}
      OBVIOUS
    <3> QED
      BY <2>1, <3>1, EnoughBy, Zenon
  <2>3. DataStack \in Seq(Cell) /\ Len(DataStack) \in 0..MaxCells /\ MaxCells \in Int
    BY SeenState, HereCells, Zenon
  <2>4. s \in Seq(Cell) /\ Len(s) <= MaxCells /\ Nth(DataStack, 1) \in Cell
    <3>1. s \in Seq(Cell) /\ Len(s) = Len(DataStack) - 1
      BY <2>2, <2>3, BelowCell
    <3>2. 1 \in 1..Len(DataStack)
      BY <2>2, <2>3
    <3> QED
      BY <2>3, <3>1, <3>2, TopCells
  <2>8. VarsOK' /\ Reaches(k')
    BY <1>0, <1>3, <2>1, <2>4, VarSet, Zenon
  <2> HIDE DEF s, op
  <2>9. m' = VmStack(m, s)
    BY <1>3, Zenon DEF s
  <2>10. Inv' /\ Calls' = Calls /\ DataStack' = s /\ Forth!Stays /\ m'.dp = m.dp /\ m'.heap = m.heap
    BY <1>0, <2>0, <2>1, <2>4, <2>8, <2>9, VmRestacked, Zenon
  <2>11. vars' = [vars EXCEPT ![Forth!Fragment.p] = Forth!Nth(DataStack, 1)] /\ s = Forth!Below(DataStack, 1)
    BY <1>1, <1>3, SameOps, Zenon DEF s
  <2> QED
    BY <1>0, <2>1, <2>10, <2>11, Zenon DEF Forth!Declare, op
<1> QED
  BY <1>2, <1>3, Zenon DEF VmDeclare

LEMMA VmBranchStep ==
    ASSUME Inv, VmBranch
    PROVE  Inv' /\ Forth!Branch
<1>0. vars' = vars /\ InWord /\ Stays
  BY Zenon DEF VmBranch
<1>1. Forth!Fragment = Fragment
  BY ForthView, Zenon
<1>2. VarsOK'
  BY <1>0, Here, Zenon DEF VarsOK
<1>3. CASE Vm("BRANCH") /\ k' = Fragment.p /\ m' = m
  <2> DEFINE op == "BRANCH"
  <2>0. op \in {"BRANCH", "BRANCH_IF_ZERO", "LOOP"} /\ op \notin {"ENTRY", "DEFINED_WORD_LOCATION"}
    OBVIOUS
  <2>1. Vm(op) /\ Fragment.op = op /\ Forth!Runs(op) /\ Reaches(Fragment.p) /\ On("vm")
    BY <1>3, <2>0, Ran, Zenon
  <2>2. /\ VmMachine(m) /\ m.scratch = Junk /\ DataStack = InMemory(m)
    BY <2>1, VmHere, Zenon
  <2>3. Leaves(m.rs, OwnRs)
    BY LeavesSame, Zenon
  <2>4. Reaches(k')
    BY <1>3, <2>1, Zenon
  <2> HIDE DEF op
  <2>5. Inv' /\ Calls' = Forth!Own(OwnRs) /\ DataStack' = InMemory(m) /\ Forth!Stays
    BY <1>0, <1>2, <1>3, <2>0, <2>1, <2>2, <2>3, <2>4, VmStepped, Zenon
  <2>6. DataStack' = DataStack /\ Calls' = Calls /\ m'.dp = m.dp /\ m'.heap = m.heap
    BY <1>3, <2>2, <2>5, OwnSame, Zenon
  <2> QED
    BY <1>0, <1>1, <1>3, <2>1, <2>5, <2>6, Zenon DEF Forth!Branch, op
<1>4. CASE Vm("BRANCH_IF_ZERO") /\ k' = (IF Nth(DataStack, 1) = 0 THEN Fragment.p ELSE k + 1)
           /\ m' = VmStack(m, Below(DataStack, 1))
  <2> DEFINE op == "BRANCH_IF_ZERO"
             s == Below(DataStack, 1)
  <2>0. /\ op \notin {"BRANCH", "EXIT_WORD", "HALT"} /\ op \notin {"ENTRY", "DEFINED_WORD_LOCATION"}
        /\ op \in {"BRANCH", "BRANCH_IF_ZERO", "LOOP"}
    OBVIOUS
  <2>1. Vm(op) /\ Fragment.op = op /\ Forth!Runs(op) /\ Reaches(k + 1) /\ Reaches(Fragment.p) /\ On("vm")
        /\ Forth!EnoughFor(Fragment)
    BY <1>4, <2>0, Ran, Zenon
  <2>2. Len(DataStack) >= 1
    <3>1. op \in {"BRANCH_IF_ZERO", "DECLARE_CONSTANT"}
      OBVIOUS
    <3> QED
      BY <2>1, <3>1, EnoughBy, Zenon
  <2>3. DataStack \in Seq(Cell) /\ Len(DataStack) \in 0..MaxCells /\ MaxCells \in Int
    BY SeenState, HereCells, Zenon
  <2>4. s \in Seq(Cell) /\ Len(s) <= MaxCells
    <3>1. s \in Seq(Cell) /\ Len(s) = Len(DataStack) - 1
      BY <2>2, <2>3, BelowCell
    <3> QED
      BY <2>3, <3>1
  <2>8. Reaches(k')
    BY <1>4, <2>1, Zenon
  <2> HIDE DEF s, op
  <2>9. m' = VmStack(m, s)
    BY <1>4, Zenon DEF s
  <2>10. Inv' /\ Calls' = Calls /\ DataStack' = s /\ Forth!Stays /\ m'.dp = m.dp /\ m'.heap = m.heap
    BY <1>0, <1>2, <2>0, <2>1, <2>4, <2>8, <2>9, VmRestacked, Zenon
  <2>11. k' = (IF Forth!Nth(DataStack, 1) = 0 THEN Forth!Fragment.p ELSE k + 1) /\ s = Forth!Below(DataStack, 1)
    BY <1>1, <1>4, SameOps, Zenon DEF s
  <2> QED
    BY <1>0, <2>1, <2>10, <2>11, Zenon DEF Forth!Branch, op
<1> QED
  BY <1>3, <1>4, Zenon DEF VmBranch

-----------------------------------------------------------------------------
(* DO, on the interpreter.                                                   *)

LEMMA PairSeq ==
    ASSUME NEW u \in Cell, NEW v \in Cell
    PROVE  <<u, v>> \in Seq(Cell) /\ Len(<<u, v>>) = 2
  OBVIOUS

(* What DO puts on the return stack.                                       *)
LEMMA DoLeaves ==
    ASSUME Inv, NEW op, op = "DO", Vm(op) \/ Native(op)
    PROVE  /\ Len(DataStack) >= 2 /\ Nth(DataStack, 1) \in Cell /\ Nth(DataStack, 2) \in Cell
           /\ Below(DataStack, 2) \in Seq(Cell) /\ Len(Below(DataStack, 2)) <= MaxCells
           /\ Leaves(m.rs \o Tagged(<<Nth(DataStack, 2), Nth(DataStack, 1)>>),
                     OwnRs \o <<Nth(DataStack, 2), Nth(DataStack, 1)>>)
<1>1. Fragment.op = "DO" /\ Forth!EnoughFor(Fragment)
  BY Ran, Zenon
<1>2. Len(DataStack) >= 2 /\ Frame.below + Len(OwnRs) + 2 <= MaxCells
  BY <1>1, EnoughBy, Zenon
<1>3. DataStack \in Seq(Cell) /\ Len(DataStack) \in 0..MaxCells /\ MaxCells \in Int
  BY SeenState, HereCells, Zenon
<1>4. Below(DataStack, 2) \in Seq(Cell) /\ Len(Below(DataStack, 2)) <= MaxCells
  <2>1. Below(DataStack, 2) \in Seq(Cell) /\ Len(Below(DataStack, 2)) = Len(DataStack) - 2
    BY <1>2, <1>3, BelowCell
  <2> QED
    BY <1>3, <2>1
<1>5. Nth(DataStack, 1) \in Cell /\ Nth(DataStack, 2) \in Cell
  <2>1. 1 \in 1..Len(DataStack) /\ 2 \in 1..Len(DataStack)
    BY <1>2, <1>3
  <2> QED
    BY <1>3, <2>1, TopCells
<1> DEFINE s == <<Nth(DataStack, 2), Nth(DataStack, 1)>>
<1>6. s \in Seq(Cell) /\ Len(s) = 2
  BY <1>5, PairSeq
<1> HIDE DEF s
<1>7. Leaves(m.rs \o Tagged(s), OwnRs \o s)
  <2>1. Leaves(m.rs, OwnRs) /\ OwnRs \in Seq(Cell)
    BY LeavesSame, HereCells, Zenon
  <2>2. Frame.below + Len(OwnRs) + Len(s) <= MaxCells
    BY <1>2, <1>6, Zenon
  <2> QED
    BY <1>6, <2>1, <2>2, LeavesMore, Zenon
<1> QED
  BY <1>2, <1>4, <1>5, <1>7, Zenon DEF s

LEMMA VmDoStep ==
    ASSUME Inv, VmDo
    PROVE  Inv' /\ Forth!Do
<1> DEFINE op == "DO"
           e == Nth(DataStack, 2)
           i == Nth(DataStack, 1)
           s == Below(DataStack, 2)
           y == VmStack(m, s)
           R == m.rs \o Tagged(<<e, i>>)
           r == OwnRs \o <<e, i>>
           x == Rest(y, R, m.dp, m.heap)
<1>0. /\ op \notin {"BRANCH", "EXIT_WORD", "HALT"} /\ op \notin {"ENTRY", "DEFINED_WORD_LOCATION"} /\ op = "DO"
  OBVIOUS
<1>1. Vm(op) /\ k' = k + 1 /\ vars' = vars /\ InWord /\ Stays
      /\ m' = [y EXCEPT !.rs = @ \o Tagged(<<e, i>>)]
  BY Zenon DEF VmDo
<1>2. Forth!Runs(op) /\ Reaches(k + 1) /\ On("vm")
  BY <1>0, <1>1, Ran, Zenon
<1>3. s \in Seq(Cell) /\ Len(s) <= MaxCells /\ Leaves(R, r)
  BY <1>0, <1>1, DoLeaves, Zenon
<1>4. /\ VmMachine(y) /\ InMemory(y) = s /\ y.scratch = Junk
      /\ y.rs = m.rs /\ y.dp = m.dp /\ y.heap = m.heap
  BY <1>2, <1>3, VmNewStack
<1> HIDE DEF y
<1>5. m' = x
  <2>1. Apart(y)
    BY <1>4, Zenon DEF VmMachine, Apart
  <2>2. [y EXCEPT !.rs = y.rs \o Tagged(<<e, i>>)] = Rest(y, y.rs \o Tagged(<<e, i>>), y.dp, y.heap)
    BY <2>1, RestedOne, Zenon
  <2>3. m' = [y EXCEPT !.rs = y.rs \o Tagged(<<e, i>>)]
    BY <1>1, Zenon
  <2> QED
    BY <1>4, <2>2, <2>3, Zenon
<1>6. VmMachine(x) /\ InMemory(x) = s /\ x.scratch = Junk /\ x.rs = R /\ x.dp = m.dp /\ x.heap = m.heap
  <2>1. R \in Seq(Entries)
    BY <1>3, Zenon DEF Leaves
  <2>2. m.dp \in Bottom..Limit /\ m.heap \in Heaps
    BY SeenState, Zenon
  <2> HIDE DEF R
  <2>3. VmMachine(x) /\ InMemory(x) = InMemory(y) /\ x.scratch = y.scratch /\ x.rs = R /\ x.dp = m.dp /\ x.heap = m.heap
    BY <1>4, <2>1, <2>2, VmRested
  <2> QED
    BY <1>4, <2>3, Zenon
<1>7. VarsOK' /\ Reaches(k')
  BY <1>1, <1>2, Here, Zenon DEF VarsOK
<1> HIDE DEF x, R, op, r, s
<1>8. Leaves(x.rs, r)
  BY <1>3, <1>6, Zenon
<1>9. Inv' /\ Calls' = Forth!Own(r) /\ DataStack' = InMemory(x) /\ Forth!Stays
  BY <1>0, <1>1, <1>5, <1>6, <1>7, <1>8, VmStepped, Zenon
<1>10. s = Forth!Below(DataStack, 2) /\ r = Forth!Call.rs \o <<Forth!Nth(DataStack, 2), Forth!Nth(DataStack, 1)>>
  BY ForthView, SameOps, Zenon DEF s, r
<1>11. DataStack' = Forth!Below(DataStack, 2) /\ m'.dp = m.dp /\ m'.heap = m.heap
       /\ Calls' = Forth!Own(Forth!Call.rs \o <<Forth!Nth(DataStack, 2), Forth!Nth(DataStack, 1)>>)
  BY <1>5, <1>6, <1>9, <1>10, Zenon
<1> QED
  BY <1>1, <1>2, <1>9, <1>11, Zenon DEF Forth!Do, op

(* The loop's index and end, and what LOOP leaves.                         *)
LEMMA LoopLeaves ==
    ASSUME Inv, NEW op, op = "LOOP", Vm(op) \/ Native(op)
    PROVE  /\ Nth(m.rs, 1)[2] = Nth(OwnRs, 1) /\ Nth(m.rs, 2)[2] = Nth(OwnRs, 2)
           /\ Nth(OwnRs, 1) + 1 \in Cell /\ Nth(OwnRs, 2) \in Cell /\ Len(OwnRs) >= 2
           /\ Leaves(Below(m.rs, 2), Below(OwnRs, 2))
           /\ Leaves(Below(m.rs, 2) \o Tagged(<<Nth(OwnRs, 2), Nth(OwnRs, 1) + 1>>),
                     Below(OwnRs, 2) \o <<Nth(OwnRs, 2), Nth(OwnRs, 1) + 1>>)
<1>1. Fragment.op = "LOOP" /\ Forth!DefinedFor(Fragment)
  BY Ran, Zenon
<1>2. Len(OwnRs) >= 2 /\ Nth(OwnRs, 1) < Half - 1
  BY <1>1, DefinedBy, Zenon
<1>3. /\ m.rs \in Seq(Entries) /\ OwnCells(m.rs, Frame.own) /\ OwnRs \in Seq(Cell) /\ Frame.below \in Nat
      /\ Len(OwnRs) \in Nat /\ Len(OwnRs) = Len(m.rs) - Frame.own /\ Frame.below + Len(OwnRs) <= MaxCells /\ MaxCells \in Int
  BY HereCells, Zenon
<1>4. 1 \in 1..(Len(m.rs) - Frame.own) /\ 2 \in 1..(Len(m.rs) - Frame.own) /\ 2 \in 0..Len(OwnRs)
  BY <1>2, <1>3
<1>5. /\ Nth(m.rs, 1)[2] = Nth(OwnRs, 1) /\ Nth(m.rs, 2)[2] = Nth(OwnRs, 2)
      /\ Nth(OwnRs, 1) \in Cell /\ Nth(OwnRs, 2) \in Cell
  <2>1. \A n \in 1..(Len(m.rs) - Frame.own) :
            Nth(m.rs, n)[2] = Nth(Returns(m.rs, Frame.own), n) /\ Nth(m.rs, n)[2] \in Cell
    BY <1>3, ReturnsNth, Zenon
  <2>2. \A n \in 1..(Len(m.rs) - Frame.own) : Nth(m.rs, n)[2] = Nth(OwnRs, n) /\ Nth(OwnRs, n) \in Cell
    BY <2>1, Zenon DEF OwnRs
  <2> QED
    BY <1>4, <2>2, Zenon
<1> DEFINE e == Nth(OwnRs, 2)
           i == Nth(OwnRs, 1)
<1>6. i + 1 \in Cell
  <2>1. i \in Cell /\ i < Half - 1
    BY <1>2, <1>5
  <2> HIDE DEF i
  <2> QED
    BY <2>1 DEF Cell, Half
<1>7. Leaves(Below(m.rs, 2), Below(OwnRs, 2))
  BY <1>4, LeavesLess, Zenon
<1> DEFINE s == <<e, i + 1>>
           r == Below(OwnRs, 2)
<1>8. s \in Seq(Cell) /\ Len(s) = 2
  BY <1>5, <1>6, PairSeq
<1>9. r \in Seq(Cell) /\ Len(r) = Len(OwnRs) - 2
  BY <1>2, <1>3, BelowCell
<1>10. Frame.below + Len(r) + Len(s) <= MaxCells
  <2> DEFINE a == Frame.below
             b == Len(OwnRs)
             c == Len(s)
             d == Len(r)
  <2>1. a \in Nat /\ b \in Nat /\ a + b <= MaxCells /\ c = 2 /\ d = b - 2
    BY <1>3, <1>8, <1>9
  <2> HIDE DEF a, b, c, d
  <2>2. a + d + c <= MaxCells
    BY <1>3, <2>1
  <2> QED
    BY <2>2 DEF a, c, d
<1> HIDE DEF s, r
<1>11. Leaves(Below(m.rs, 2) \o Tagged(s), r \o s)
  <2>1. Leaves(Below(m.rs, 2), r)
    BY <1>7, Zenon DEF r
  <2> QED
    BY <1>8, <1>9, <1>10, <2>1, LeavesMore, Zenon
<1> QED
  BY <1>2, <1>5, <1>6, <1>7, <1>11, Zenon DEF s, r

-----------------------------------------------------------------------------
(* LOOP and the runtime words, on the interpreter.                           *)

LEMMA VmLoopStep ==
    ASSUME Inv, VmLoop
    PROVE  Inv' /\ Forth!Loop
<1> DEFINE op == "LOOP"
           e == Nth(OwnRs, 2)
           i == Nth(OwnRs, 1) + 1
           less == i < e
           R == IF less THEN Below(m.rs, 2) \o Tagged(<<e, i>>) ELSE Below(m.rs, 2)
           r == IF less THEN Below(OwnRs, 2) \o <<e, i>> ELSE Below(OwnRs, 2)
           x == Rest(m, R, m.dp, m.heap)
<1>0. /\ op \notin {"BRANCH", "EXIT_WORD", "HALT"} /\ op \notin {"ENTRY", "DEFINED_WORD_LOCATION"} /\ op = "LOOP"
      /\ op \in {"BRANCH", "BRANCH_IF_ZERO", "LOOP"}
  OBVIOUS
<1>1. Vm(op) /\ vars' = vars /\ InWord /\ Stays
      /\ IF Nth(m.rs, 1)[2] + 1 < Nth(m.rs, 2)[2]
         THEN k' = Fragment.p /\ m' = [m EXCEPT !.rs = Below(m.rs, 2) \o Tagged(<<Nth(m.rs, 2)[2], Nth(m.rs, 1)[2] + 1>>)]
         ELSE k' = k + 1 /\ m' = [m EXCEPT !.rs = Below(m.rs, 2)]
  BY Zenon DEF VmLoop
<1>2. Forth!Runs(op) /\ Reaches(k + 1) /\ Reaches(Fragment.p) /\ On("vm")
  BY <1>0, <1>1, Ran, Zenon
<1>3. /\ Nth(m.rs, 1)[2] = Nth(OwnRs, 1) /\ Nth(m.rs, 2)[2] = Nth(OwnRs, 2)
      /\ Leaves(Below(m.rs, 2), Below(OwnRs, 2))
      /\ Leaves(Below(m.rs, 2) \o Tagged(<<e, i>>), Below(OwnRs, 2) \o <<e, i>>)
  BY <1>0, <1>1, LoopLeaves, Zenon
<1>4. /\ VmMachine(m) /\ m.scratch = Junk /\ DataStack = InMemory(m)
  BY <1>2, VmHere, Zenon
<1>5. Leaves(R, r)
  BY <1>3, Zenon
<1>6. k' = (IF less THEN Fragment.p ELSE k + 1) /\ m' = [m EXCEPT !.rs = R]
  <2>1. CASE less
    <3>1. Nth(m.rs, 1)[2] + 1 < Nth(m.rs, 2)[2]
      BY <1>3, <2>1, Zenon
    <3> QED
      BY <1>1, <1>3, <2>1, <3>1, Zenon
  <2>2. CASE ~less
    <3>1. ~(Nth(m.rs, 1)[2] + 1 < Nth(m.rs, 2)[2])
      BY <1>3, <2>2, Zenon
    <3> QED
      BY <1>1, <2>2, <3>1, Zenon
  <2> QED
    BY <2>1, <2>2, Zenon
<1> HIDE DEF less, R, r
<1>7. m' = x
  <2>1. Apart(m)
    BY <1>4, Zenon DEF VmMachine, Apart
  <2> QED
    BY <1>6, <2>1, RestedOne, Zenon
<1>8. VmMachine(x) /\ InMemory(x) = InMemory(m) /\ x.scratch = Junk /\ x.rs = R /\ x.dp = m.dp /\ x.heap = m.heap
  <2>1. R \in Seq(Entries)
    BY <1>5, Zenon DEF Leaves
  <2>2. m.dp \in Bottom..Limit /\ m.heap \in Heaps
    BY SeenState, Zenon
  <2>3. VmMachine(x) /\ InMemory(x) = InMemory(m) /\ x.scratch = m.scratch /\ x.rs = R /\ x.dp = m.dp /\ x.heap = m.heap
    BY <1>4, <2>1, <2>2, VmRested
  <2> QED
    BY <1>4, <2>3, Zenon
<1>9. VarsOK' /\ Reaches(k')
  BY <1>1, <1>2, <1>6, Here, Zenon DEF VarsOK
<1> HIDE DEF x, op
<1>10. Leaves(x.rs, r)
  BY <1>5, <1>8, Zenon
<1>11. Inv' /\ Calls' = Forth!Own(r) /\ DataStack' = InMemory(x) /\ Forth!Stays
  BY <1>0, <1>1, <1>7, <1>8, <1>9, <1>10, VmStepped, Zenon
<1>12. DataStack' = DataStack /\ m'.dp = m.dp /\ m'.heap = m.heap /\ Forth!Fragment = Fragment /\ Forth!Call.rs = OwnRs
  BY <1>4, <1>7, <1>8, <1>11, ForthView, Zenon
<1>13. IF i < e THEN k' = Forth!Fragment.p /\ Calls' = Forth!Own(Below(OwnRs, 2) \o <<e, i>>)
       ELSE k' = k + 1 /\ Calls' = Forth!Own(Below(OwnRs, 2))
  BY <1>6, <1>11, <1>12, Zenon DEF less, r
<1>14. LET index == Forth!Nth(Forth!Call.rs, 1) + 1
           end == Forth!Nth(Forth!Call.rs, 2)
           outer == Forth!Below(Forth!Call.rs, 2)
       IN  IF index < end THEN k' = Forth!Fragment.p /\ Calls' = Forth!Own(outer \o <<end, index>>)
                          ELSE k' = k + 1 /\ Calls' = Forth!Own(outer)
  BY <1>12, <1>13, SameOps, Zenon
<1> QED
  BY <1>1, <1>2, <1>11, <1>12, <1>14, Zenon DEF Forth!Loop, op

(* What m4_lit and the other C functions leave on the stack.               *)
Handled ==
    IF Fragment.p.kind = "lit" THEN Append(DataStack, Fragment.p.v)
    ELSE Append(Below(DataStack, 1), Wrap(Nth(DataStack, 1) + 1))

LEMMA HandledIs ==
    ASSUME Inv, NEW op, op = "RUNTIME_WORD", Vm(op) \/ Native(op), Fragment.p.kind # "invoke"
    PROVE  /\ Handled \in Seq(Cell) /\ Len(Handled) <= MaxCells
           /\ Fragment.p.kind = "lit" => Fragment.p.v \in Cell
           /\ Fragment.p.kind # "lit" => Len(DataStack) >= 1
<1>1. Fragment.op = op /\ Forth!EnoughFor(Fragment) /\ Forth!Carries(task.program, Fragment)
  BY Ran, Zenon
<1>2. IF Fragment.p.kind = "lit" THEN Len(DataStack) + 1 <= MaxCells
      ELSE Len(DataStack) >= 1
  BY <1>1, EnoughBy, Zenon
<1>3. Fragment.p.kind = "lit" => Fragment.p.v \in Cell
  <2>1. Fragment.p.kind = "lit" => Fragment.p.v \in Forth!Cell
    BY <1>1, Zenon DEF Forth!Carries
  <2> QED
    BY <2>1, SameWords, Zenon
<1>4. DataStack \in Seq(Cell) /\ Len(DataStack) \in 0..MaxCells /\ MaxCells \in Int
  BY SeenState, HereCells, Zenon
<1>5. CASE Fragment.p.kind = "lit"
  <2>1. Append(DataStack, Fragment.p.v) \in Seq(Cell) /\ Len(Append(DataStack, Fragment.p.v)) <= MaxCells
    BY <1>2, <1>3, <1>4, <1>5, AppendCell, Zenon
  <2> QED
    BY <1>3, <1>5, <2>1, Zenon DEF Handled
<1>6. CASE Fragment.p.kind # "lit"
  <2>1. Len(DataStack) >= 1
    BY <1>2, <1>6
  <2> DEFINE b == Below(DataStack, 1)
             v == Wrap(Nth(DataStack, 1) + 1)
  <2>2. b \in Seq(Cell) /\ Len(b) = Len(DataStack) - 1
    BY <1>4, <2>1, BelowCell
  <2>3. v \in Cell
    <3>1. 1 \in 1..Len(DataStack)
      BY <1>4, <2>1
    <3>2. Nth(DataStack, 1) \in Cell
      BY <1>4, <3>1, TopCells
    <3>3. Nth(DataStack, 1) + 1 \in Int
      BY <3>2, Integer
    <3> QED
      BY <3>3, WrapCell, Zenon
  <2> HIDE DEF b, v
  <2>4. Append(b, v) \in Seq(Cell) /\ Len(Append(b, v)) = Len(b) + 1
    BY <2>2, <2>3, AppendCell, Zenon
  <2>5. Len(Append(b, v)) <= MaxCells
    BY <1>4, <2>2, <2>4
  <2> QED
    BY <1>6, <2>1, <2>4, <2>5, Zenon DEF Handled, b, v
<1> QED
  BY <1>5, <1>6

LEMMA VmRuntimeStep ==
    ASSUME Inv, VmRuntime
    PROVE  Inv' /\ Forth!Runtime
<1> DEFINE op == "RUNTIME_WORD"
<1>0. /\ op \notin {"BRANCH", "EXIT_WORD", "HALT"} /\ op \notin {"ENTRY", "DEFINED_WORD_LOCATION"} /\ op = "RUNTIME_WORD"
  OBVIOUS
<1>1. Vm(op) /\ Fragment.p.kind # "invoke" /\ k' = k + 1 /\ vars' = vars /\ InWord /\ Stays
      /\ m' = VmStack(m, Handled)
  BY Zenon DEF VmRuntime, Handled
<1> HIDE DEF op
<1>2. Forth!Runs(op) /\ Reaches(k + 1) /\ On("vm")
  BY <1>0, <1>1, Ran, Zenon
<1>3. Handled \in Seq(Cell) /\ Len(Handled) <= MaxCells
  BY <1>0, <1>1, HandledIs, Zenon
<1>4. VarsOK' /\ Reaches(k')
  BY <1>1, <1>2, Here, Zenon DEF VarsOK
<1>5. Inv' /\ Calls' = Calls /\ DataStack' = Handled /\ Forth!Stays /\ m'.dp = m.dp /\ m'.heap = m.heap
  BY <1>0, <1>1, <1>3, <1>4, VmRestacked, Zenon
<1>6. Forth!Fragment = Fragment
  BY ForthView, Zenon
<1>7. Handled = IF Forth!Fragment.p.kind = "lit" THEN Append(DataStack, Forth!Fragment.p.v)
                ELSE Append(Forth!Below(DataStack, 1), Forth!Wrap(Forth!Nth(DataStack, 1) + 1))
  BY <1>6, SameOps, Zenon DEF Handled
<1> QED
  BY <1>1, <1>2, <1>5, <1>6, <1>7, Zenon DEF Forth!Runtime, op

-----------------------------------------------------------------------------
(* The frame that a call opens, by an address in the program or by C.        *)

(* The base points into the return stack, or is C's.                       *)
LEMMA BaseRange ==
    ASSUME Inv
    PROVE  base \in {Junk} \cup 0..Len(m.rs) /\ base \in Int
<1>1. /\ task \in Tasks /\ FramesOK(task, k, m.rs, frames) /\ base = BaseOf(task, Top(frames), k)
  BY Here, Zenon
<1> DEFINE f == Top(frames)
           n == Len(m.rs)
           b == task.backend
           saved == SavesBase(task, f, k)
<1>2. /\ Holds(task, f, k, m.rs, n) /\ n \in Nat /\ f.at \in Nat /\ f.own \in Nat /\ f.at <= f.own /\ f.own <= n
  BY <1>1, TopFacts
<1>3. f.base \in {Junk} \cup 0..f.at
  BY <1>2, Zenon DEF Holds
<1>4. Entered(f) \in {Junk} \cup 0..n
  <2>1. f.base \in {Junk} \cup 0..n
    BY <1>2, <1>3
  <2>2. Entered(f) = Junk \/ Entered(f) = f.base
    BY Zenon DEF Entered
  <2> QED
    BY <2>1, <2>2
<1>5. IsHeader(task, f, k, HeaderOf(task, f, k))
  BY <1>1, HeaderIs, Zenon
<1>6. f # FirstFrame => f.own = f.at + Len(HeaderOf(task, f, k))
  BY <1>2, Zenon DEF Holds
<1>7. b \in {"vm", "x86_32", "esp32s3"}
  BY <1>1, TaskShape
<1>8. base \in {Junk} \cup 0..n
  <2>1. CASE f = FirstFrame
    <3>1. base = 0
      BY <1>1, <2>1, Zenon DEF BaseOf, BaseIn
    <3> QED
      BY <1>2, <3>1
  <2>2. CASE f # FirstFrame /\ b = "vm"
    <3>1. base = f.at + 2
      BY <1>1, <2>2, Zenon DEF BaseOf, BaseIn
    <3>2. Len(HeaderOf(task, f, k)) = 2
      BY <1>5, <2>2, Zenon DEF IsHeader
    <3>3. base = f.own
      BY <1>6, <2>2, <3>1, <3>2, Zenon
    <3> QED
      BY <1>2, <3>3
  <2>3. CASE f # FirstFrame /\ b = "x86_32"
    <3>1. base = IF saved THEN f.at + 2 ELSE Entered(f)
      BY <1>1, <2>3 DEF BaseOf, BaseIn
    <3>2. saved => Len(HeaderOf(task, f, k)) = 2
      BY <1>5, <2>3, Zenon DEF IsHeader
    <3>3. saved => base = f.own
      BY <1>6, <2>3, <3>1, <3>2, Zenon
    <3> QED
      BY <1>2, <1>4, <3>1, <3>3
  <2>4. CASE f # FirstFrame /\ b = "esp32s3"
    <3>1. base = IF saved THEN f.at ELSE Entered(f)
      BY <1>1, <2>4 DEF BaseOf, BaseIn
    <3> QED
      BY <1>2, <1>4, <3>1
  <2> QED
    BY <1>7, <2>1, <2>2, <2>3, <2>4
<1>9. base \in Int
  <2> HIDE DEF n
  <2>1. n \in Nat
    BY <1>2
  <2> QED
    BY <1>8, <2>1 DEF Junk
<1> QED
  BY <1>8, <1>9

(* Where a call returns to, and the frame it opens.                          *)
AddressOf(c) == IF c THEN ToC ELSE k + 1
NewFrame(c, to, R) ==
    [at |-> Len(m.rs), own |-> Len(R), below |-> Frame.below + Len(m.rs) - Frame.own + 2,
     word |-> to, ret |-> k + 1, base |-> base, fromC |-> c, open |-> Len(native)]

(* What a call does, on each engine.                                       *)
EntersBy(c, to, R) ==
    /\ R \in Seq(Entries) /\ \A j \in 1..Len(m.rs) : R[j] = m.rs[j]
    /\ On("vm") => /\ Len(R) = Len(m.rs) + 2 /\ base' = Len(m.rs) + 2
                   /\ R[Len(m.rs) + 1] = <<"base", base>> /\ R[Len(m.rs) + 2] = <<"return", AddressOf(c)>>
    /\ On("x86_32") => Len(R) = Len(m.rs) + 1 /\ R[Len(m.rs) + 1] = <<"return", AddressOf(c)>>
    /\ On("esp32s3") => Len(R) = Len(m.rs) /\ lr' = AddressOf(c)
    /\ ~On("vm") => base' = IF c THEN Junk ELSE base
    /\ native' = IF c THEN Append(native, [next |-> k + 1, base |-> base]) ELSE native
    /\ home' = home /\ frames' = Append(frames, NewFrame(c, to, R))

LEMMA OpenedFrame ==
    ASSUME Inv, NEW c \in BOOLEAN, NEW to \in Nat, to # 0, NEW R \in Seq(Entries),
           Frame.below + Len(OwnRs) + 2 <= MaxCells
    PROVE  LET g == NewFrame(c, to, R)
           IN  /\ g \in Frames /\ g.at = Len(m.rs) /\ g.own = Len(R) /\ g.ret = k + 1 /\ g.word = to
               /\ g.base = base /\ g.fromC = c /\ g.open = Len(native) /\ g # FirstFrame
               /\ g.below = Top(frames).below + (g.at - Top(frames).own) + 2 /\ g.below <= MaxCells
               /\ g.open = OpenedBy(Top(frames)) /\ Address(g) = AddressOf(c)
               /\ Entered(g) = IF c THEN Junk ELSE base
<1> DEFINE g == NewFrame(c, to, R)
           l == Len(m.rs)
           a == Frame.own
           b == Frame.below
           o == Len(native)
           n == Len(R)
<1>1. /\ l \in Nat /\ a \in Nat /\ b \in Nat /\ a <= l /\ Len(OwnRs) = l - a /\ MaxCells \in Int
  BY HereCells, Zenon
<1>2. /\ k \in Nat /\ NativeOK(frames, native) /\ Frame = Top(frames)
  BY Here, Zenon
<1>3. o = OpenedBy(Top(frames))
  BY <1>2, Zenon DEF NativeOK
<1>4. o \in Nat
  <2>1. native \in Seq([next : Nat, base : Int])
    BY <1>2, Zenon DEF NativeOK
  <2> QED
    BY <2>1, LenProperties
<1>5. n \in Nat
  BY LenProperties
<1>6. base \in Int
  BY BaseRange, Zenon
<1> DEFINE q == b + l - a + 2
<1>7. g = [at |-> l, own |-> n, below |-> q, word |-> to, ret |-> k + 1, base |-> base, fromC |-> c, open |-> o]
  BY Zenon DEF NewFrame
<1>8. b + (l - a) + 2 <= MaxCells
  BY <1>1, Zenon
<1> HIDE DEF g, l, a, b, o, n
<1>9. q \in Nat /\ q = b + (l - a) + 2 /\ q <= MaxCells
  BY <1>1, <1>8
<1> HIDE DEF q
<1>10. /\ g \in Frames /\ g.at = l /\ g.own = n /\ g.ret = k + 1 /\ g.word = to
       /\ g.base = base /\ g.fromC = c /\ g.open = o /\ g.below = q
  BY <1>1, <1>2, <1>4, <1>5, <1>6, <1>7, <1>9 DEF Frames
<1>11. g # FirstFrame
  BY <1>10 DEF FirstFrame
<1>12. Address(g) = AddressOf(c)
  BY <1>10, Zenon DEF Address, AddressOf
<1>13. Entered(g) = IF c THEN Junk ELSE base
  BY <1>10, Zenon DEF Entered
<1>14. q = Top(frames).below + (g.at - Top(frames).own) + 2
  BY <1>2, <1>9, <1>10, Zenon DEF a, b
<1> QED
  BY <1>3, <1>9, <1>10, <1>11, <1>12, <1>13, <1>14, Zenon DEF g, l, o, n

-----------------------------------------------------------------------------
(* A call is a step of the frames and of the abstract machine.               *)

(* The frame that a call opens is what Enters asks for.                    *)
LEMMA EntersHere ==
    ASSUME Inv, CodeOf(task)[k].op \in Calling, NEW c \in BOOLEAN, NEW to, to \in DOMAIN CodeOf(task),
           IsLocation(task, to), NEW R, EntersBy(c, to, R), Frame.below + Len(OwnRs) + 2 <= MaxCells
    PROVE  Enters(task, k, m.rs, frames, to, NewFrame(c, to, R), R)
<1> DEFINE g == NewFrame(c, to, R)
           h == HeaderOf(task, g, to)
           l == Len(m.rs)
<1>1. task \in Tasks /\ base = BaseOf(task, Top(frames), k) /\ k \in Nat
  BY Here, Zenon
<1>2. to \in Nat /\ to # 0
  <2>1. to \in Nat /\ to >= 1
    BY <1>1, BehindLocation
  <2> QED
    BY <2>1
<1>3. /\ R \in Seq(Entries) /\ \A j \in 1..l : R[j] = m.rs[j]
      /\ On("vm") => /\ Len(R) = l + 2
                     /\ R[l + 1] = <<"base", base>> /\ R[l + 2] = <<"return", AddressOf(c)>>
      /\ On("x86_32") => Len(R) = l + 1 /\ R[l + 1] = <<"return", AddressOf(c)>>
      /\ On("esp32s3") => Len(R) = l
  BY Zenon DEF EntersBy
<1>4. /\ g \in Frames /\ g.at = l /\ g.own = Len(R) /\ g.ret = k + 1 /\ g.word = to
      /\ g.base = base /\ g.fromC = c /\ g.open = Len(native) /\ g # FirstFrame
      /\ g.below = Top(frames).below + (g.at - Top(frames).own) + 2 /\ g.below <= MaxCells
      /\ g.open = OpenedBy(Top(frames)) /\ Address(g) = AddressOf(c)
  BY <1>2, <1>3, OpenedFrame
<1> HIDE DEF g
<1>5. /\ Len(h) \in 0..2
      /\ Len(h) = (IF task.backend = "vm" THEN 2 ELSE IF task.backend = "x86_32" THEN 1 ELSE 0)
  BY <1>1, <1>4, CallSaves, Zenon
<1>6. /\ task.backend = "vm" => Len(h) = 2 /\ h[1] = <<"base", g.base>> /\ h[2] = <<"return", Address(g)>>
      /\ task.backend = "x86_32" => h[1] = <<"return", Address(g)>>
  <2>1. IsHeader(task, g, to, h)
    BY <1>1, HeaderIs
  <2> HIDE DEF h
  <2> QED
    BY <2>1, Zenon DEF IsHeader
<1>7. task.backend \in {"vm", "x86_32", "esp32s3"} /\ backend = task.backend
  BY <1>1, TaskShape, Here, Zenon
<1>8. l \in Nat
  BY HereCells, Zenon
<1> HIDE DEF h, l
<1>9. Len(R) = l + Len(h) /\ \A j \in 1..Len(h) : R[l + j] = h[j]
  <2>1. CASE task.backend = "vm"
    <3>1. Len(h) = 2 /\ Len(R) = l + 2 /\ R[l + 1] = h[1] /\ R[l + 2] = h[2]
      BY <1>3, <1>4, <1>6, <1>7, <2>1, Zenon DEF On
    <3> QED
      BY <1>8, <3>1
  <2>2. CASE task.backend = "x86_32"
    <3>1. Len(h) = 1
      BY <1>5, <2>2
    <3>2. Len(R) = l + 1 /\ R[l + 1] = h[1]
      BY <1>3, <1>4, <1>6, <1>7, <2>2, Zenon DEF On
    <3> QED
      BY <1>8, <3>1, <3>2
  <2>3. CASE task.backend = "esp32s3"
    <3>1. Len(h) = 0
      BY <1>5, <2>3
    <3>2. Len(R) = l
      BY <1>3, <1>7, <2>3, Zenon DEF On
    <3> QED
      BY <1>8, <3>1, <3>2
  <2> QED
    BY <1>7, <2>1, <2>2, <2>3
<1>10. g.base \in {Junk} \cup 0..g.at
  BY <1>4, BaseRange, Zenon DEF l
<1>11. R \in ReturnStacks
  BY <1>3, Zenon DEF ReturnStacks, Entries
<1>12. /\ g.base = BaseOf(task, Top(frames), k)
       /\ \A j \in 1..Len(m.rs) : R[j] = m.rs[j]
       /\ g.at = Len(m.rs) /\ Len(R) = Len(m.rs) + Len(h) /\ \A j \in 1..Len(h) : R[Len(m.rs) + j] = h[j]
  BY <1>1, <1>3, <1>4, <1>9, Zenon DEF l
<1>13. Enters(task, k, m.rs, frames, to, g, R)
  BY <1>4, <1>10, <1>11, <1>12, Zenon DEF Enters, h
<1> QED
  BY <1>13 DEF g

LEMMA EnterStep ==
    ASSUME Inv, CodeOf(task)[k].op \in Calling, k # 1, NEW c \in BOOLEAN, k' \in DOMAIN CodeOf(task),
           IsLocation(task, k'), EntersBy(c, k', m'.rs), Frame.below + Len(OwnRs) + 2 <= MaxCells,
           Stays, vars' = vars, MachineOK(task, k', m')
    PROVE  /\ Inv' /\ DataStack' = StackOf(task, k', m') /\ Forth!Stays
           /\ Calls' = Append(Calls, [ret |-> k + 1, rs |-> <<>>,
                                      below |-> Forth!Call.below + Len(Forth!Call.rs) + 2])
<1> DEFINE to == k'
           R == m'.rs
           g == NewFrame(c, to, R)
<1>1. /\ task \in Tasks /\ FramesOK(task, k, m.rs, frames) /\ base = BaseOf(task, Top(frames), k)
      /\ NativeOK(frames, native) /\ LinkOK(task, k, lr, home, frames) /\ VarsOK
      /\ status \in {"running", "done", "failed"} /\ backend = task.backend /\ Frame = Top(frames)
  BY Here, Zenon
<1>2. task' = task /\ status' = status
  BY DEF Stays
<1>3. to \in Nat /\ to # 0 /\ to # 1
  <2>1. to \in Nat /\ to >= 1
    BY <1>1, BehindLocation
  <2>2. CodeOf(task)[to].op # "ENTRY"
    BY DEF IsLocation
  <2>3. CodeOf(task)[to].op = "ENTRY" <=> to = 1
    BY <1>1, TaskShape, Zenon
  <2> QED
    BY <2>1, <2>2, <2>3
<1>4. /\ R \in Seq(Entries)
      /\ On("vm") => base' = Len(m.rs) + 2
      /\ On("esp32s3") => lr' = AddressOf(c)
      /\ ~On("vm") => base' = IF c THEN Junk ELSE base
      /\ native' = IF c THEN Append(native, [next |-> k + 1, base |-> base]) ELSE native
      /\ home' = home /\ frames' = Append(frames, g)
  BY Zenon DEF EntersBy
<1>5. /\ g.at = Len(m.rs) /\ g.ret = k + 1 /\ g.word = to /\ g \in Frames
      /\ g.base = base /\ g.fromC = c /\ g # FirstFrame /\ Address(g) = AddressOf(c)
      /\ Entered(g) = IF c THEN Junk ELSE base
  BY <1>3, <1>4, OpenedFrame
<1>6. Enters(task, k, m.rs, frames, to, g, R)
  BY EntersHere
<1>7. MachineOK(task, to, m') /\ IsLocation(task, to) /\ to \in DOMAIN CodeOf(task)
  OBVIOUS
<1> HIDE DEF g, to, R
<1>8. FramesOK(task, to, R, Append(frames, g))
  BY <1>1, <1>6, Entering, Zenon
<1>9. NativeOK(frames', native')
  <2>1. /\ ~g.fromC => NativeOK(Append(frames, g), native)
        /\ g.fromC => NativeOK(Append(frames, g), Append(native, [next |-> g.ret, base |-> g.base]))
    BY <1>1, <1>6, NativeEnter
  <2>2. CASE c
    BY <1>4, <1>5, <2>1, <2>2, Zenon
  <2>3. CASE ~c
    BY <1>4, <1>5, <2>1, <2>3, Zenon
  <2> QED
    BY <2>2, <2>3
<1>10. frames \in Seq(Frames) /\ Top(frames') = g /\ Len(frames') = Len(frames) + 1 /\ Len(frames) \in Nat
       /\ Len(frames) >= 1
  <2>1. frames \in Seq(Frames) /\ Len(frames) \in Nat /\ Len(frames) >= 1
    BY <1>1, TopFacts
  <2>2. Len(frames') = Len(frames) + 1 /\ frames'[Len(frames) + 1] = g
    BY <1>4, <1>5, <2>1, AppendProperties
  <2> QED
    BY <2>1, <2>2, Zenon DEF Top
<1>11. ~SavesBase(task, g, to) /\ ~SavesLr(task, g, to)
  BY <1>5, Zenon DEF SavesBase, SavesLr
<1>12. task.backend \in {"vm", "x86_32", "esp32s3"}
  BY <1>1, TaskShape, Zenon
<1>13. base' = BaseOf(task, g, to)
  <2>1. CASE task.backend = "vm"
    <3>1. BaseOf(task, g, to) = g.at + 2
      BY <1>5, <2>1, Zenon DEF BaseOf, BaseIn
    <3> QED
      BY <1>1, <1>4, <1>5, <2>1, <3>1, Zenon DEF On
  <2>2. CASE task.backend = "x86_32"
    <3>1. BaseOf(task, g, to) = Entered(g)
      BY <1>5, <1>11, <2>2 DEF BaseOf, BaseIn
    <3>2. ~On("vm")
      BY <1>1, <2>2 DEF On
    <3> QED
      BY <1>4, <1>5, <3>1, <3>2, Zenon
  <2>3. CASE task.backend = "esp32s3"
    <3>1. BaseOf(task, g, to) = Entered(g)
      BY <1>5, <1>11, <2>3 DEF BaseOf, BaseIn
    <3>2. ~On("vm")
      BY <1>1, <2>3 DEF On
    <3> QED
      BY <1>4, <1>5, <3>1, <3>2, Zenon
  <2> QED
    BY <1>12, <2>1, <2>2, <2>3
<1>14. LinkOK(task, to, lr', home', frames')
  <2>1. task.backend = "esp32s3" => home = Host /\ lr' = Address(Top(frames'))
    BY <1>1, <1>4, <1>5, <1>10, Zenon DEF LinkOK, On
  <2> QED
    BY <1>3, <1>4, <2>1, Zenon DEF LinkOK
<1>15. FramesInv'
  BY <1>1, <1>2, <1>4, <1>8, <1>9, <1>10, <1>13, <1>14, Zenon DEF FramesInv, to, R
<1>16. VarsOK' /\ MachineOK(task, k, m)'
  BY <1>1, <1>2, <1>7, Zenon DEF VarsOK, to
<1>17. Calls' = Append(Calls, [ret |-> k + 1, rs |-> <<>>,
                               below |-> Top(frames).below + Len(Returns(m.rs, Top(frames).own)) + 2])
  <2>1. CallsOf(Append(frames, g), R) =
               Append(CallsOf(frames, m.rs), [ret |-> k + 1, rs |-> <<>>,
                                              below |-> Top(frames).below + Len(Returns(m.rs, Top(frames).own)) + 2])
    BY <1>1, <1>6, CallsEnter
  <2> QED
    BY <1>4, <2>1, CallsView, Zenon DEF R
<1>18. Forth!Call.rs = OwnRs /\ Forth!Call.below = Frame.below
  BY ForthView, Zenon
<1>19. Calls' = Append(Calls, [ret |-> k + 1, rs |-> <<>>,
                               below |-> Forth!Call.below + Len(Forth!Call.rs) + 2])
  BY <1>1, <1>17, <1>18, Zenon DEF OwnRs
<1>20. DataStack' = StackOf(task, k', m')
  <2>1. k' \in Nat
    BY <1>3 DEF to
  <2> QED
    BY <1>2, <2>1, ViewsNext, Zenon
<1>21. Forth!Stays
  BY <1>2, Zenon DEF Forth!Stays, program
<1> QED
  BY <1>15, <1>16, <1>19, <1>20, <1>21, Zenon DEF Inv

-----------------------------------------------------------------------------
(* Calls on the interpreter.                                                 *)

(* Where calls go.                                                         *)
LEMMA Targets ==
    ASSUME Inv, NEW op, Vm(op) \/ Native(op)
    PROVE  /\ op = "DEFINED_WORD" =>
                /\ Fragment.p \in DOMAIN CodeOf(task) /\ IsLocation(task, Fragment.p)
                /\ Frame.below + Len(OwnRs) + 2 <= MaxCells
           /\ op = "EXECUTE" =>
                /\ Nth(DataStack, 1) \in DOMAIN CodeOf(task) /\ IsLocation(task, Nth(DataStack, 1))
                /\ Frame.below + Len(OwnRs) + 2 <= MaxCells /\ Len(DataStack) >= 1
           /\ op = "RUNTIME_WORD" /\ Fragment.p.kind = "invoke" =>
                /\ program.callbacks[Fragment.p.v] \in DOMAIN CodeOf(task)
                /\ IsLocation(task, program.callbacks[Fragment.p.v])
                /\ Frame.below + Len(OwnRs) + 2 <= MaxCells /\ Len(DataStack) >= 1
<1>1. Fragment.op = op /\ Forth!EnoughFor(Fragment) /\ Forth!DefinedFor(Fragment) /\ Forth!Carries(task.program, Fragment)
  BY Ran, Zenon
<1>2. task \in Tasks /\ Code = CodeOf(task)
  BY Here, Zenon
<1>3. ASSUME op = "DEFINED_WORD"
      PROVE  /\ Fragment.p \in DOMAIN CodeOf(task) /\ IsLocation(task, Fragment.p)
             /\ Frame.below + Len(OwnRs) + 2 <= MaxCells
  <2>1. Frame.below + Len(OwnRs) + 2 <= MaxCells
    BY <1>1, <1>3, EnoughBy, Zenon
  <2>2. /\ Fragment.op \notin {"BRANCH", "BRANCH_IF_ZERO", "LOOP"}
        /\ Fragment.op \in {"DEFINED_WORD", "PUSH_OFFSET_ADDRESS", "EXIT_WORD"}
    BY <1>1, <1>3
  <2>3. Fragment.p \in DOMAIN task.program.code /\ task.program.code[Fragment.p].op = "DEFINED_WORD_LOCATION"
    BY <1>1, <2>2, Zenon DEF Forth!Carries
  <2> QED
    BY <2>1, <2>3, Zenon DEF CodeOf, IsLocation
<1>4. ASSUME op = "EXECUTE"
      PROVE  /\ Nth(DataStack, 1) \in DOMAIN CodeOf(task) /\ IsLocation(task, Nth(DataStack, 1))
             /\ Frame.below + Len(OwnRs) + 2 <= MaxCells /\ Len(DataStack) >= 1
  <2>1. Len(DataStack) >= 1 /\ Frame.below + Len(OwnRs) + 2 <= MaxCells
    BY <1>1, <1>4, EnoughBy, Zenon
  <2>2. Nth(DataStack, 1) \in DOMAIN Code /\ Code[Nth(DataStack, 1)].op = "DEFINED_WORD_LOCATION"
    BY <1>1, <1>4, DefinedBy, Zenon
  <2> QED
    BY <1>2, <2>1, <2>2, Zenon DEF IsLocation
<1>5. ASSUME op = "RUNTIME_WORD", Fragment.p.kind = "invoke"
      PROVE  /\ program.callbacks[Fragment.p.v] \in DOMAIN CodeOf(task)
             /\ IsLocation(task, program.callbacks[Fragment.p.v])
             /\ Frame.below + Len(OwnRs) + 2 <= MaxCells /\ Len(DataStack) >= 1
  <2>1. Fragment.p.kind # "lit"
    BY <1>5
  <2>2. IF Fragment.p.kind = "lit" THEN Len(DataStack) + 1 <= MaxCells
        ELSE Len(DataStack) >= 1 /\ (Fragment.p.kind = "invoke" => Frame.below + Len(OwnRs) + 2 <= MaxCells)
    BY <1>1, <1>5, EnoughBy, Zenon
  <2>3. Len(DataStack) >= 1 /\ Frame.below + Len(OwnRs) + 2 <= MaxCells
    BY <1>5, <2>1, <2>2, Zenon
  <2>4. Fragment.p.v \in DOMAIN task.program.callbacks
    <3> DEFINE o == Fragment.op
    <3>1. o = "RUNTIME_WORD"
      BY <1>1, <1>5
    <3> HIDE DEF o
    <3>2. /\ o \notin {"BRANCH", "BRANCH_IF_ZERO", "LOOP"} /\ o \notin {"DEFINED_WORD", "PUSH_OFFSET_ADDRESS", "EXIT_WORD"}
          /\ o # "BUILTIN_WORD" /\ o \notin {"PUSH_LITERAL", "PUSH_DATA_ADDRESS", "PUSH_CALLBACK"}
          /\ o \notin {"DECLARE_VARIABLE", "DECLARE_CONSTANT", "USE_VARIABLE_OR_CONSTANT"}
      BY <3>1
    <3> QED
      BY <1>1, <1>5, <3>1, <3>2, Zenon DEF Forth!Carries, o
  <2>5. /\ task.program.callbacks[Fragment.p.v] \in DOMAIN CodeOf(task)
        /\ CodeOf(task)[task.program.callbacks[Fragment.p.v]].op = "DEFINED_WORD_LOCATION"
    BY <1>2, <2>4, TaskShape, Zenon
  <2> QED
    BY <2>3, <2>5, Zenon DEF IsLocation, program
<1> QED
  BY <1>3, <1>4, <1>5, Zenon

LEMMA OpenedBy2 ==
    ASSUME NEW c, Called(c)
    PROVE  frames' = Append(frames, NewFrame(c, k', m'.rs))
  BY Zenon DEF Called, NewFrame

(* A call on the interpreter, with x for the stack that the word starts    *)
(* from.                                                                   *)
LEMMA VmEnters ==
    ASSUME Inv, NEW op \in Calling, Vm(op), NEW c \in BOOLEAN, k' \in DOMAIN CodeOf(task), IsLocation(task, k'),
           Frame.below + Len(OwnRs) + 2 <= MaxCells,
           NEW x, VmMachine(x), x.scratch = Junk, x.rs = m.rs, x.dp = m.dp, x.heap = m.heap,
           VmFrame(x, AddressOf(c)),
           native' = IF c THEN Append(native, [next |-> k + 1, base |-> base]) ELSE native,
           Called(c), vars' = vars, lr' = lr, home' = home, Stays
    PROVE  /\ Inv' /\ Forth!Enter(k') /\ Forth!Stays
           /\ DataStack' = InMemory(x) /\ m'.dp = m.dp /\ m'.heap = m.heap
<1> DEFINE a == <<"base", base>>
           b == <<"return", AddressOf(c)>>
           R == x.rs \o <<a, b>>
           y == Rest(x, R, x.dp, x.heap)
           l == Len(m.rs)
<1>1. /\ CodeOf(task)[k].op \in Calling /\ On("vm") /\ k # 1
  <2>1. op # "ENTRY"
    BY DEF Calling
  <2> QED
    BY <2>1, Ran, Zenon
<1>2. m' = [x EXCEPT !.rs = R] /\ base' = l + 2
  BY Zenon DEF VmFrame
<1>3. a \in Entries /\ b \in Entries
  <2>1. base \in Int
    BY BaseRange, Zenon
  <2>2. k \in Nat
    BY Here, Zenon
  <2>3. AddressOf(c) \in Int
    BY <2>2 DEF AddressOf, ToC
  <2> QED
    BY <2>1, <2>3 DEF Entries
<1>4. m.rs \in Seq(Entries) /\ l \in Nat
  BY HereCells, Zenon
<1> HIDE DEF a, b
<1>5. <<a, b>> \in Seq(Entries) /\ Len(<<a, b>>) = 2 /\ <<a, b>>[1] = a /\ <<a, b>>[2] = b
  BY <1>3
<1>6. /\ R \in Seq(Entries) /\ Len(R) = l + 2 /\ R[l + 1] = a /\ R[l + 2] = b
      /\ \A j \in 1..l : R[j] = m.rs[j]
  BY <1>4, <1>5, ConcatProperties
<1> HIDE DEF R
<1>7. m' = y
  <2>1. Apart(x)
    BY Zenon DEF VmMachine, Apart
  <2> QED
    BY <1>2, <2>1, RestedOne, Zenon
<1>8. VmMachine(y) /\ InMemory(y) = InMemory(x) /\ y.scratch = Junk /\ y.rs = R /\ y.dp = m.dp /\ y.heap = m.heap
  <2>1. x.dp \in Bottom..Limit /\ x.heap \in Heaps
    BY Zenon DEF VmMachine
  <2>2. VmMachine(y) /\ InMemory(y) = InMemory(x) /\ y.scratch = x.scratch /\ y.rs = R /\ y.dp = x.dp /\ y.heap = x.heap
    BY <1>6, <2>1, VmRested
  <2> QED
    BY <2>2, Zenon
<1> HIDE DEF y
<1>9. task.backend = "vm" /\ backend = "vm"
  BY <1>1, Here, Zenon DEF On
<1>10. EntersBy(c, k', m'.rs)
  <2>1. ~On("x86_32") /\ ~On("esp32s3")
    BY <1>9 DEF On
  <2>2. frames' = Append(frames, NewFrame(c, k', m'.rs))
    BY OpenedBy2, Zenon
  <2>3. m'.rs = R
    BY <1>7, <1>8, Zenon
  <2> QED
    BY <1>1, <1>2, <1>6, <2>1, <2>2, <2>3, Zenon DEF EntersBy, a, b, l
<1>11. MachineOK(task, k', m') /\ StackOf(task, k', m') = InMemory(x)
  BY <1>7, <1>8, <1>9, Zenon DEF MachineOK, StackOf
<1>12. /\ Inv' /\ DataStack' = StackOf(task, k', m') /\ Forth!Stays
       /\ Calls' = Append(Calls, [ret |-> k + 1, rs |-> <<>>,
                                  below |-> Forth!Call.below + Len(Forth!Call.rs) + 2])
  BY <1>1, <1>10, <1>11, EnterStep, Zenon
<1> QED
  BY <1>7, <1>8, <1>11, <1>12, Zenon DEF Forth!Enter

LEMMA VmEnterWordStep ==
    ASSUME Inv, VmEnterWord
    PROVE  Inv' /\ Forth!EnterWord
<1>1. /\ vars' = vars /\ lr' = lr /\ home' = home /\ Stays /\ Called(Fragment.op = "RUNTIME_WORD")
      /\ \/ Vm("DEFINED_WORD") /\ VmFrame(m, k + 1) /\ k' = Fragment.p /\ native' = native
         \/ /\ Vm("EXECUTE") /\ VmFrame(VmStack(m, Below(DataStack, 1)), k + 1) /\ k' = Nth(DataStack, 1)
            /\ native' = native
         \/ /\ Vm("RUNTIME_WORD") /\ Fragment.p.kind = "invoke" /\ VmFrame(m, ToC)
            /\ native' = Append(native, [next |-> k + 1, base |-> base])
            /\ k' = program.callbacks[Fragment.p.v]
  BY Zenon DEF VmEnterWord
<1>2. AddressOf(FALSE) = k + 1 /\ AddressOf(TRUE) = ToC
  BY DEF AddressOf
<1>3. {"DEFINED_WORD", "EXECUTE", "RUNTIME_WORD"} \subseteq Calling
  BY DEF Calling
<1>4. Forth!Fragment = Fragment
  BY ForthView, Zenon
<1>5. ASSUME Vm("DEFINED_WORD"), VmFrame(m, k + 1), k' = Fragment.p, native' = native
      PROVE  Inv' /\ Forth!EnterWord
  <2> DEFINE op == "DEFINED_WORD"
  <2>1. op \in Calling /\ Vm(op) /\ op = "DEFINED_WORD" /\ op # "RUNTIME_WORD"
    BY <1>5 DEF Calling
  <2> HIDE DEF op
  <2>2. On("vm") /\ Fragment.op = op /\ Forth!Runs(op)
    BY <2>1, Ran, Zenon
  <2>3. Fragment.p \in DOMAIN CodeOf(task) /\ IsLocation(task, Fragment.p) /\ Frame.below + Len(OwnRs) + 2 <= MaxCells
    BY <2>1, Targets, Zenon
  <2>4. VmMachine(m) /\ m.scratch = Junk /\ DataStack = InMemory(m)
    BY <2>2, VmHere, Zenon
  <2>5. Called(FALSE)
    <3>1. (Fragment.op = "RUNTIME_WORD") = FALSE
      BY <2>1, <2>2
    <3> QED
      BY <1>1, <3>1
  <2> DEFINE c == FALSE
  <2>6. c \in BOOLEAN /\ Called(c) /\ VmFrame(m, AddressOf(c)) /\ native' = IF c THEN Append(native, [next |-> k + 1, base |-> base]) ELSE native
    BY <1>2, <1>5, <2>5
  <2>7. k' \in DOMAIN CodeOf(task) /\ IsLocation(task, k')
    BY <1>5, <2>3, Zenon
  <2> HIDE DEF c
  <2>8. /\ Inv' /\ Forth!Enter(k') /\ Forth!Stays
        /\ DataStack' = InMemory(m) /\ m'.dp = m.dp /\ m'.heap = m.heap
    BY <1>1, <2>1, <2>3, <2>4, <2>6, <2>7, VmEnters
  <2>9. Forth!Enter(Fragment.p)
    BY <1>5, <2>8, Zenon
  <2> QED
    BY <1>1, <1>4, <2>1, <2>2, <2>4, <2>8, <2>9, Zenon DEF Forth!EnterWord, op
<1>6. ASSUME Vm("EXECUTE"), VmFrame(VmStack(m, Below(DataStack, 1)), k + 1), k' = Nth(DataStack, 1), native' = native
      PROVE  Inv' /\ Forth!EnterWord
  <2> DEFINE op == "EXECUTE"
             s == Below(DataStack, 1)
             x == VmStack(m, s)
  <2>1. op \in Calling /\ Vm(op) /\ op = "EXECUTE" /\ op # "RUNTIME_WORD"
    BY <1>6 DEF Calling
  <2> HIDE DEF op
  <2>2. On("vm") /\ Fragment.op = op /\ Forth!Runs(op)
    BY <2>1, Ran, Zenon
  <2>3. Nth(DataStack, 1) \in DOMAIN CodeOf(task) /\ IsLocation(task, Nth(DataStack, 1))
        /\ Frame.below + Len(OwnRs) + 2 <= MaxCells /\ Len(DataStack) >= 1
    BY <2>1, Targets, Zenon
  <2>4. VmMachine(m) /\ m.scratch = Junk
    BY <2>2, VmHere, Zenon
  <2>5. s \in Seq(Cell) /\ Len(s) <= MaxCells
    <3>1. DataStack \in Seq(Cell) /\ Len(DataStack) \in 0..MaxCells /\ MaxCells \in Int
      BY SeenState, HereCells, Zenon
    <3> QED
      BY <2>3, <3>1, BelowCell
  <2> HIDE DEF s
  <2>6. VmMachine(x) /\ InMemory(x) = s /\ x.scratch = Junk /\ x.rs = m.rs /\ x.dp = m.dp /\ x.heap = m.heap
    BY <2>4, <2>5, VmStacked
  <2>7. Called(FALSE)
    <3>1. (Fragment.op = "RUNTIME_WORD") = FALSE
      BY <2>1, <2>2
    <3> QED
      BY <1>1, <3>1
  <2> DEFINE c == FALSE
  <2>8. c \in BOOLEAN /\ Called(c) /\ VmFrame(x, AddressOf(c)) /\ native' = IF c THEN Append(native, [next |-> k + 1, base |-> base]) ELSE native
    BY <1>2, <1>6, <2>7 DEF s
  <2>9. k' \in DOMAIN CodeOf(task) /\ IsLocation(task, k')
    BY <1>6, <2>3, Zenon
  <2> HIDE DEF c, x
  <2>10. /\ Inv' /\ Forth!Enter(k') /\ Forth!Stays
         /\ DataStack' = InMemory(x) /\ m'.dp = m.dp /\ m'.heap = m.heap
    BY <1>1, <2>1, <2>3, <2>6, <2>8, <2>9, VmEnters
  <2>11. Forth!Enter(Forth!Nth(DataStack, 1)) /\ DataStack' = Forth!Below(DataStack, 1)
    BY <1>6, <2>6, <2>10, SameOps, Zenon DEF s
  <2> QED
    BY <1>1, <1>4, <2>1, <2>2, <2>10, <2>11, Zenon DEF Forth!EnterWord, op
<1>7. ASSUME Vm("RUNTIME_WORD"), Fragment.p.kind = "invoke", VmFrame(m, ToC), k' = program.callbacks[Fragment.p.v],
             native' = Append(native, [next |-> k + 1, base |-> base])
      PROVE  Inv' /\ Forth!EnterWord
  <2> DEFINE op == "RUNTIME_WORD"
  <2>1. op \in Calling /\ Vm(op) /\ op = "RUNTIME_WORD"
    BY <1>7 DEF Calling
  <2> HIDE DEF op
  <2>2. On("vm") /\ Fragment.op = op /\ Forth!Runs(op)
    BY <2>1, Ran, Zenon
  <2>3. k' \in DOMAIN CodeOf(task) /\ IsLocation(task, k') /\ Frame.below + Len(OwnRs) + 2 <= MaxCells
    BY <1>7, <2>1, Targets, Zenon
  <2>4. VmMachine(m) /\ m.scratch = Junk /\ DataStack = InMemory(m)
    BY <2>2, VmHere, Zenon
  <2>5. Called(TRUE)
    <3>1. (Fragment.op = "RUNTIME_WORD") = TRUE
      BY <2>1, <2>2
    <3> QED
      BY <1>1, <3>1
  <2> DEFINE c == TRUE
  <2>6. c \in BOOLEAN /\ Called(c) /\ VmFrame(m, AddressOf(c)) /\ native' = IF c THEN Append(native, [next |-> k + 1, base |-> base]) ELSE native
    BY <1>2, <1>7, <2>5
  <2> HIDE DEF c
  <2>8. /\ Inv' /\ Forth!Enter(k') /\ Forth!Stays
        /\ DataStack' = InMemory(m) /\ m'.dp = m.dp /\ m'.heap = m.heap
    BY <1>1, <2>1, <2>3, <2>4, <2>6, VmEnters
  <2>9. Forth!Enter(program.callbacks[Forth!Fragment.p.v]) /\ Forth!Fragment.p.kind = "invoke"
    BY <1>4, <1>7, <2>8, Zenon
  <2> QED
    BY <1>1, <2>1, <2>2, <2>4, <2>8, <2>9, Zenon DEF Forth!EnterWord, op
<1> QED
  BY <1>1, <1>5, <1>6, <1>7, Zenon

-----------------------------------------------------------------------------
(* Calls in machine code.                                                    *)

(* At a fragment without chores the machine holds what it should.          *)
LEMMA NativePlain ==
    ASSUME Inv, ~On("vm"), CodeOf(task)[k].op \notin PushOps \cup {"BUILTIN_WORD", "DECLARE_CONSTANT"}
    PROVE  /\ IsMachine(m) /\ m.scratch = Junk /\ DataStack = InRegisters(m) /\ StackWhole(task, k, m) = m
           /\ Len(DataStack) = m.depth + 1 /\ m.depth \in Int /\ m.depth >= -1
<1>1. /\ task.backend # "vm" /\ StackReady(task, k, m) /\ m.scratch = Junk
      /\ DataStack = InRegisters(StackWhole(task, k, m)) /\ Len(DataStack) = StackWhole(task, k, m).depth + 1
  BY NativeHere, Zenon
<1>2. task \in Tasks /\ FlagsIn(task, k) = {}
  BY Here, PlainOps, Zenon
<1>3. IsMachine(m) /\ StackWhole(task, k, m) = m
  BY <1>1, <1>2, PlainBack, Zenon
<1>4. m.depth \in Int /\ m.depth >= -1
  <2>1. m.depth \in -1..(MaxCells - 1)
    BY <1>3, Zenon DEF IsMachine
  <2>2. MaxCells \in Int
    BY HereCells, Zenon
  <2> QED
    BY <2>1, <2>2
<1> QED
  BY <1>1, <1>3, <1>4, Zenon

(* And at the next one, if either has no chores.                           *)
LEMMA NativeNext ==
    ASSUME Inv, ~On("vm"), FlagsIn(task, k') = {} \/ FlagsIn(task, k' - 1) = {}, IsMachine(m'), m'.scratch = Junk
    PROVE  MachineOK(task, k', m') /\ StackOf(task, k', m') = InRegisters(m')
<1>1. task \in Tasks /\ task.backend # "vm"
  BY Here, NativeHere, Zenon
<1> DEFINE x == m'
           q == k'
<1>2. (FlagsIn(task, q) = {} \/ FlagsIn(task, q - 1) = {}) /\ IsMachine(x) /\ x.scratch = Junk
  OBVIOUS
<1> HIDE DEF x, q
<1>3. StackReady(task, q, x) /\ StackOf(task, q, x) = InRegisters(x)
  BY <1>1, <1>2, Plain
<1>4. MachineOK(task, q, x)
  BY <1>1, <1>2, <1>3, Zenon DEF MachineOK
<1> QED
  BY <1>3, <1>4 DEF x, q

(* A call of machine code, from machine x.                                 *)
LEMMA NativeEnters ==
    ASSUME Inv, NEW op \in Calling, Native(op), NEW c \in BOOLEAN, k' \in DOMAIN CodeOf(task), IsLocation(task, k'),
           Frame.below + Len(OwnRs) + 2 <= MaxCells,
           NEW x, IsMachine(x), x.scratch = Junk, x.rs = m.rs, x.dp = m.dp, x.heap = m.heap,
           Jump(x, k', AddressOf(c)),
           native' = IF c THEN Append(native, [next |-> k + 1, base |-> base]) ELSE native,
           base' = IF c THEN Junk ELSE base,
           Called(c), vars' = vars, home' = home, Stays
    PROVE  /\ Inv' /\ Forth!Enter(k') /\ Forth!Stays
           /\ DataStack' = InRegisters(x) /\ m'.dp = m.dp /\ m'.heap = m.heap
<1> DEFINE b == <<"return", AddressOf(c)>>
           l == Len(m.rs)
           R == Append(m.rs, b)
           y == Rest(x, R, x.dp, x.heap)
<1>1. /\ CodeOf(task)[k].op \in Calling /\ ~On("vm") /\ k # 1
  <2>1. op # "ENTRY"
    BY DEF Calling
  <2> QED
    BY <2>1, Ran, Zenon
<1>2. /\ On("x86_32") => m' = [x EXCEPT !.rs = R]
      /\ ~On("x86_32") => m' = x /\ lr' = AddressOf(c)
  BY Zenon DEF Jump
<1>3. b \in Entries
  <2>1. k \in Nat
    BY Here, Zenon
  <2>2. AddressOf(c) \in Int
    BY <2>1 DEF AddressOf, ToC
  <2> QED
    BY <2>2 DEF Entries
<1>4. m.rs \in Seq(Entries) /\ l \in Nat
  BY HereCells, Zenon
<1> HIDE DEF b
<1>5. R \in Seq(Entries)
      /\ Len(R) = l + 1 /\ R[l + 1] = b
      /\ \A j \in 1..l : R[j] = m.rs[j]
  BY <1>3, <1>4, AppendProperties
<1> HIDE DEF R
<1>6. On("x86_32") => m' = y
  <2>1. Apart(x)
    BY Zenon DEF IsMachine, Apart
  <2> QED
    BY <1>2, <2>1, RestedOne, Zenon
<1>7. IsMachine(y) /\ InRegisters(y) = InRegisters(x) /\ y.scratch = Junk /\ y.rs = R /\ y.dp = m.dp
      /\ y.heap = m.heap
  <2>1. x.dp \in Bottom..Limit /\ x.heap \in Heaps
    BY Zenon DEF IsMachine
  <2>2. IsMachine(y) /\ InRegisters(y) = InRegisters(x) /\ y.scratch = x.scratch /\ y.rs = R
        /\ y.dp = x.dp /\ y.heap = x.heap
    BY <1>5, <2>1, NativeRested
  <2> QED
    BY <2>2, Zenon
<1> HIDE DEF y
<1>8. /\ IsMachine(m') /\ m'.scratch = Junk /\ InRegisters(m') = InRegisters(x) /\ m'.dp = m.dp /\ m'.heap = m.heap
      /\ On("x86_32") => m'.rs = R
      /\ ~On("x86_32") => m'.rs = m.rs
  <2>1. CASE On("x86_32")
    BY <1>6, <1>7, <2>1, Zenon
  <2>2. CASE ~On("x86_32")
    BY <1>2, <2>2, Zenon
  <2> QED
    BY <2>1, <2>2, Zenon
<1>9. On("esp32s3") => ~On("x86_32")
  BY DEF On
<1>10. EntersBy(c, k', m'.rs)
  <2>1. frames' = Append(frames, NewFrame(c, k', m'.rs))
    BY OpenedBy2, Zenon
  <2>2. CASE On("x86_32")
    <3>1. ~On("esp32s3")
      BY <1>9, <2>2, Zenon
    <3> QED
      BY <1>1, <1>5, <1>8, <2>1, <2>2, <3>1, Zenon DEF EntersBy, b, l
  <2>3. CASE ~On("x86_32")
    BY <1>1, <1>2, <1>4, <1>8, <2>1, <2>3, Zenon DEF EntersBy, l
  <2> QED
    BY <2>2, <2>3, Zenon
<1>11. FlagsIn(task, k') = {}
  <2>1. CodeOf(task)[k'].op \notin PushOps \cup {"BUILTIN_WORD", "DECLARE_CONSTANT"}
    BY DEF IsLocation, PushOps
  <2> QED
    BY <2>1, PlainOps
<1>12. MachineOK(task, k', m') /\ StackOf(task, k', m') = InRegisters(m')
  BY <1>1, <1>8, <1>11, NativeNext, Zenon
<1>13. /\ Inv' /\ DataStack' = StackOf(task, k', m') /\ Forth!Stays
       /\ Calls' = Append(Calls, [ret |-> k + 1, rs |-> <<>>,
                                  below |-> Forth!Call.below + Len(Forth!Call.rs) + 2])
  BY <1>1, <1>10, <1>12, EnterStep, Zenon
<1> QED
  BY <1>8, <1>12, <1>13, Zenon DEF Forth!Enter

LEMMA NativeEnterWordStep ==
    ASSUME Inv, NativeEnterWord
    PROVE  Inv' /\ Forth!EnterWord
<1>1. /\ vars' = vars /\ home' = home /\ Stays /\ Called(Fragment.op = "RUNTIME_WORD")
      /\ \/ Native("DEFINED_WORD") /\ Jump(m, Fragment.p, k + 1) /\ native' = native /\ base' = base
         \/ /\ Native("EXECUTE") /\ Jump(Closing({"Y", "Z"}, m), m.top, k + 1) /\ native' = native /\ base' = base
         \/ /\ Native("RUNTIME_WORD") /\ Fragment.p.kind = "invoke"
            /\ Jump(Reloaded(Flushed(m)), program.callbacks[Fragment.p.v], ToC)
            /\ native' = Append(native, [next |-> k + 1, base |-> base])
            /\ base' = Junk
  BY Zenon DEF NativeEnterWord
<1>2. AddressOf(FALSE) = k + 1 /\ AddressOf(TRUE) = ToC
  BY DEF AddressOf
<1>3. \A x, to, r : Jump(x, to, r) => k' = to
  BY Zenon DEF Jump
<1>4. Forth!Fragment = Fragment
  BY ForthView, Zenon
<1>5. ASSUME Native("DEFINED_WORD"), Jump(m, Fragment.p, k + 1), native' = native, base' = base
      PROVE  Inv' /\ Forth!EnterWord
  <2> DEFINE op == "DEFINED_WORD"
  <2>1. op \in Calling /\ Native(op) /\ op = "DEFINED_WORD" /\ op # "RUNTIME_WORD"
        /\ op \notin PushOps \cup {"BUILTIN_WORD", "DECLARE_CONSTANT"}
    BY <1>5 DEF Calling, PushOps
  <2> HIDE DEF op
  <2>2. ~On("vm") /\ Fragment.op = op /\ CodeOf(task)[k].op = op /\ Forth!Runs(op)
    BY <2>1, Ran, Zenon
  <2>3. Fragment.p \in DOMAIN CodeOf(task) /\ IsLocation(task, Fragment.p) /\ Frame.below + Len(OwnRs) + 2 <= MaxCells
    BY <2>1, Targets, Zenon
  <2>4. IsMachine(m) /\ m.scratch = Junk /\ DataStack = InRegisters(m)
    BY <2>1, <2>2, NativePlain, Zenon
  <2>5. Called(FALSE)
    <3>1. (Fragment.op = "RUNTIME_WORD") = FALSE
      BY <2>1, <2>2
    <3> QED
      BY <1>1, <3>1
  <2> DEFINE c == FALSE
  <2>7. k' = Fragment.p /\ k' \in DOMAIN CodeOf(task) /\ IsLocation(task, k')
    BY <1>3, <1>5, <2>3, Zenon
  <2>6. /\ c \in BOOLEAN /\ Called(c) /\ Jump(m, k', AddressOf(c))
        /\ native' = IF c THEN Append(native, [next |-> k + 1, base |-> base]) ELSE native
        /\ base' = IF c THEN Junk ELSE base
    BY <1>2, <1>5, <2>5, <2>7
  <2> HIDE DEF c
  <2>8. /\ Inv' /\ Forth!Enter(k') /\ Forth!Stays
        /\ DataStack' = InRegisters(m) /\ m'.dp = m.dp /\ m'.heap = m.heap
    BY <1>1, <2>1, <2>3, <2>4, <2>6, <2>7, NativeEnters
  <2>9. Forth!Enter(Fragment.p)
    BY <2>7, <2>8, Zenon
  <2> QED
    BY <1>1, <1>4, <2>1, <2>2, <2>4, <2>8, <2>9, Zenon DEF Forth!EnterWord, op
<1>6. ASSUME Native("EXECUTE"), Jump(Closing({"Y", "Z"}, m), m.top, k + 1), native' = native, base' = base
      PROVE  Inv' /\ Forth!EnterWord
  <2> DEFINE op == "EXECUTE"
             x == Closing({"Y", "Z"}, m)
  <2>1. op \in Calling /\ Native(op) /\ op = "EXECUTE" /\ op # "RUNTIME_WORD"
        /\ op \notin PushOps \cup {"BUILTIN_WORD", "DECLARE_CONSTANT"}
    BY <1>6 DEF Calling, PushOps
  <2> HIDE DEF op
  <2>2. ~On("vm") /\ Fragment.op = op /\ CodeOf(task)[k].op = op /\ Forth!Runs(op)
    BY <2>1, Ran, Zenon
  <2>3. Nth(DataStack, 1) \in DOMAIN CodeOf(task) /\ IsLocation(task, Nth(DataStack, 1))
        /\ Frame.below + Len(OwnRs) + 2 <= MaxCells /\ Len(DataStack) >= 1
    BY <2>1, Targets, Zenon
  <2>4. IsMachine(m) /\ m.scratch = Junk /\ DataStack = InRegisters(m) /\ Len(DataStack) = m.depth + 1
        /\ m.depth \in Int
    BY <2>1, <2>2, NativePlain, Zenon
  <2>5. m.depth >= 0
    BY <2>3, <2>4
  <2>6. /\ IsMachine(x) /\ x.rs = m.rs /\ x.dp = m.dp /\ x.heap = m.heap /\ x.scratch = m.scratch
        /\ InRegisters(x) = Below(InRegisters(m), 1) /\ Nth(InRegisters(m), 1) = m.top
    BY <2>4, <2>5, Dropped1
  <2>7. Called(FALSE)
    <3>1. (Fragment.op = "RUNTIME_WORD") = FALSE
      BY <2>1, <2>2
    <3> QED
      BY <1>1, <3>1
  <2> DEFINE c == FALSE
  <2>9. k' = m.top /\ m.top = Nth(DataStack, 1) /\ k' \in DOMAIN CodeOf(task) /\ IsLocation(task, k')
    BY <1>3, <1>6, <2>3, <2>4, <2>6, Zenon
  <2>8. /\ c \in BOOLEAN /\ Called(c) /\ Jump(x, k', AddressOf(c))
        /\ native' = IF c THEN Append(native, [next |-> k + 1, base |-> base]) ELSE native
        /\ base' = IF c THEN Junk ELSE base
    BY <1>2, <1>6, <2>7, <2>9
  <2>11. x.scratch = Junk
    BY <2>4, <2>6, Zenon
  <2> HIDE DEF c, x
  <2>10. /\ Inv' /\ Forth!Enter(k') /\ Forth!Stays
         /\ DataStack' = InRegisters(x) /\ m'.dp = m.dp /\ m'.heap = m.heap
    BY <1>1, <2>1, <2>3, <2>6, <2>8, <2>9, <2>11, NativeEnters
  <2>12. Forth!Enter(Forth!Nth(DataStack, 1)) /\ DataStack' = Forth!Below(DataStack, 1)
    BY <2>4, <2>6, <2>9, <2>10, SameOps, Zenon
  <2> QED
    BY <1>1, <1>4, <2>1, <2>2, <2>10, <2>12, Zenon DEF Forth!EnterWord, op
<1>7. ASSUME Native("RUNTIME_WORD"), Fragment.p.kind = "invoke",
             Jump(Reloaded(Flushed(m)), program.callbacks[Fragment.p.v], ToC),
             native' = Append(native, [next |-> k + 1, base |-> base]), base' = Junk
      PROVE  Inv' /\ Forth!EnterWord
  <2> DEFINE op == "RUNTIME_WORD"
             x == Reloaded(Flushed(m))
  <2>1. op \in Calling /\ Native(op) /\ op = "RUNTIME_WORD" /\ op \notin PushOps \cup {"BUILTIN_WORD", "DECLARE_CONSTANT"}
    BY <1>7 DEF Calling, PushOps
  <2> HIDE DEF op
  <2>2. ~On("vm") /\ Fragment.op = op /\ CodeOf(task)[k].op = op /\ Forth!Runs(op) /\ Len(DataStack) < MaxCells
    BY <2>1, Ran, Zenon
  <2>3. k' = program.callbacks[Fragment.p.v] /\ k' \in DOMAIN CodeOf(task) /\ IsLocation(task, k')
        /\ Frame.below + Len(OwnRs) + 2 <= MaxCells
    BY <1>3, <1>7, <2>1, Targets, Zenon
  <2>4. IsMachine(m) /\ m.scratch = Junk /\ DataStack = InRegisters(m) /\ Len(DataStack) = m.depth + 1
        /\ m.depth \in Int
    BY <2>1, <2>2, NativePlain, Zenon
  <2>5. m.depth < MaxCells - 1
    <3>1. MaxCells \in Int
      BY HereCells, Zenon
    <3> QED
      BY <2>2, <2>4, <3>1
  <2>6. /\ IsMachine(x) /\ InRegisters(x) = InRegisters(m)
        /\ x.rs = m.rs /\ x.dp = m.dp /\ x.heap = m.heap /\ x.scratch = m.scratch
    <3>1. m.top \in Cell
      BY <2>4, Zenon DEF IsMachine
    <3>2. LET c == Opening({"A", "B"}, m)
              back == Closing({"Y", "Z"}, c)
          IN  /\ IsMachine(back) /\ InRegisters(back) = InRegisters(m)
              /\ back.rs = m.rs /\ back.dp = m.dp /\ back.heap = m.heap /\ back.scratch = m.scratch
      BY <2>4, <2>5, <3>1, HandedOver
    <3> QED
      BY <3>2, Zenon DEF Reloaded, Flushed
  <2>7. Called(TRUE)
    <3>1. (Fragment.op = "RUNTIME_WORD") = TRUE
      BY <2>1, <2>2
    <3> QED
      BY <1>1, <3>1
  <2> DEFINE c == TRUE
  <2>8. /\ c \in BOOLEAN /\ Called(c) /\ Jump(x, k', AddressOf(c))
        /\ native' = IF c THEN Append(native, [next |-> k + 1, base |-> base]) ELSE native
        /\ base' = IF c THEN Junk ELSE base
    BY <1>2, <1>7, <2>3, <2>7
  <2>11. x.scratch = Junk
    BY <2>4, <2>6, Zenon
  <2> HIDE DEF c, x
  <2>10. /\ Inv' /\ Forth!Enter(k') /\ Forth!Stays
         /\ DataStack' = InRegisters(x) /\ m'.dp = m.dp /\ m'.heap = m.heap
    BY <1>1, <2>1, <2>3, <2>6, <2>8, <2>11, NativeEnters
  <2>12. Forth!Enter(program.callbacks[Forth!Fragment.p.v]) /\ Forth!Fragment.p.kind = "invoke" /\ DataStack' = DataStack
    BY <1>4, <1>7, <2>3, <2>4, <2>6, <2>10, Zenon
  <2> QED
    BY <1>1, <2>1, <2>2, <2>10, <2>12, Zenon DEF Forth!EnterWord, op
<1> QED
  BY <1>1, <1>5, <1>6, <1>7, Zenon

-----------------------------------------------------------------------------
(* Returns on the interpreter.                                               *)

(* The return stack below the frame on top.                                  *)
Lower == SubSeq(m.rs, 1, Frame.at)

(* A word that is left was called.                                         *)
LEMMA Left ==
    ASSUME Inv, NEW op, op = "EXIT_WORD", Vm(op) \/ Native(op)
    PROVE  LET f == Frame
           IN  /\ Len(frames) > 1 /\ f = Top(frames) /\ f # FirstFrame /\ f.fromC \in BOOLEAN
               /\ f.at \in Nat /\ f.ret \in Nat /\ f.ret # 0 /\ f.at <= f.own /\ f.own <= Len(m.rs)
               /\ Fragment.p = f.word /\ k # f.word /\ CodeOf(task)[f.ret - 1].op \in Calling
               /\ f.own = f.at + Len(HeaderOf(task, f, k))
               /\ \A j \in 1..Len(HeaderOf(task, f, k)) : m.rs[f.at + j] = HeaderOf(task, f, k)[j]
               /\ Lower \in Seq(Entries) /\ Len(Lower) = f.at /\ \A j \in 1..f.at : Lower[j] = m.rs[j]
<1> DEFINE f == Frame
           n == Len(frames)
<1>1. /\ task \in Tasks /\ FramesOK(task, k, m.rs, frames) /\ f = Top(frames)
  BY Here, Zenon
<1>2. /\ n \in Nat /\ n >= 1 /\ f \in Frames
      /\ f.at \in Nat /\ f.ret \in Nat /\ f.fromC \in BOOLEAN
      /\ Holds(task, f, k, m.rs, Len(m.rs)) /\ f.at <= f.own /\ f.own <= Len(m.rs)
      /\ k \in DOMAIN CodeOf(task) /\ WordAt(task, k) = f.word
      /\ n = 1 => f.word = 0
      /\ n > 1 => f # FirstFrame /\ f.word # 0 /\ CalledBy(task, f, frames[n - 1])
  BY <1>1, TopFacts
<1>3. Fragment.p = f.word /\ ~IsLocation(task, k) /\ Fragment.op = "EXIT_WORD" /\ Forth!Carries(task.program, Fragment)
  <2>1. op # "DEFINED_WORD_LOCATION"
    OBVIOUS
  <2> QED
    BY <1>2, <2>1, Ran, Zenon
<1>4. f.word # 0
  <2>1. /\ Fragment.op \notin {"BRANCH", "BRANCH_IF_ZERO", "LOOP"}
        /\ Fragment.op \in {"DEFINED_WORD", "PUSH_OFFSET_ADDRESS", "EXIT_WORD"}
    BY <1>3
  <2>2. Fragment.p \in DOMAIN task.program.code
    BY <1>3, <2>1, Zenon DEF Forth!Carries
  <2>3. f.word \in DOMAIN CodeOf(task)
    BY <1>3, <2>2, Zenon DEF CodeOf
  <2>4. f.word >= 1
    BY <1>1, <2>3, BehindLocation
  <2> QED
    BY <2>4
<1>5. n > 1
  <2>1. n # 1 /\ n \in Nat /\ n >= 1
    BY <1>2, <1>4, Zenon
  <2> HIDE DEF n
  <2> QED
    BY <2>1
<1>6. k # f.word
  <2>1. IsLocation(task, k) <=> k = WordAt(task, k)
    BY <1>1, <1>2, BehindLocation
  <2> QED
    BY <1>2, <1>3, <2>1
<1>7. CodeOf(task)[f.ret - 1].op \in Calling
  BY <1>2, <1>5, Zenon DEF CalledBy
<1>8. /\ f.ret # 0 /\ f.own = f.at + Len(HeaderOf(task, f, k))
      /\ \A j \in 1..Len(HeaderOf(task, f, k)) : m.rs[f.at + j] = HeaderOf(task, f, k)[j]
  BY <1>2, <1>5, Zenon DEF Holds
<1>9. Lower \in Seq(Entries) /\ Len(Lower) = f.at /\ \A j \in 1..f.at : Lower[j] = m.rs[j]
  <2> DEFINE a == f.at
             R == m.rs
  <2>1. a \in Nat /\ a <= Len(R) /\ R \in Seq(Entries) /\ Len(R) \in Nat
    <3>1. Frame.own \in Nat /\ R \in Seq(Entries) /\ Len(R) \in Nat
      BY HereCells, Zenon
    <3> DEFINE l == Len(R)
               o == f.own
    <3>2. a \in Nat /\ l \in Nat /\ o \in Nat /\ a <= o /\ o <= l
      BY <1>2, <3>1, Zenon
    <3> HIDE DEF a, l, o
    <3>3. a <= l
      BY <3>2
    <3> QED
      BY <3>1, <3>2, <3>3 DEF l
  <2> HIDE DEF a, R
  <2>2. \A i \in 1..a : R[i] \in Entries
    BY <2>1
  <2>3. SubSeq(R, 1, a) \in Seq(Entries) /\ Len(SubSeq(R, 1, a)) = a /\ \A j \in 1..a : SubSeq(R, 1, a)[j] = R[j]
    BY <2>1, <2>2, SubSeqProperties
  <2> QED
    BY <2>3, Zenon DEF Lower, a, R
<1> QED
  BY <1>1, <1>2, <1>3, <1>5, <1>6, <1>7, <1>8, <1>9, Zenon

(* Back in the word that called.                                           *)
LEMMA LeaveStep ==
    ASSUME Inv, NEW op, op = "EXIT_WORD", Vm(op) \/ Native(op), k' = Frame.ret, m'.rs = Lower,
           base' = Frame.base, native' = IF Frame.fromC THEN Below(native, 1) ELSE native,
           home' = home, vars' = vars, Returned, Stays, MachineOK(task, k', m')
    PROVE  /\ Inv' /\ DataStack' = StackOf(task, k', m') /\ Forth!Stays
           /\ Calls' = Forth!Callers /\ k' = Forth!Call.ret /\ Forth!Runs(op)
<1> DEFINE f == Frame
           F2 == SubSeq(frames, 1, Len(frames) - 1)
<1>1. /\ task \in Tasks /\ FramesOK(task, k, m.rs, frames)
      /\ NativeOK(frames, native) /\ LinkOK(task, k, lr, home, frames) /\ VarsOK
      /\ status \in {"running", "done", "failed"}
  BY Here, Zenon
<1>2. task' = task /\ status' = status /\ frames' = F2
  BY Zenon DEF Stays, Returned
<1>3. /\ Len(frames) > 1 /\ f = Top(frames) /\ f.fromC \in BOOLEAN /\ f.ret \in Nat
      /\ Lower \in Seq(Entries) /\ Len(Lower) = f.at /\ \A j \in 1..f.at : Lower[j] = m.rs[j]
  BY Left, Zenon
<1>4. k # 1 /\ Forth!Runs(op)
  <2>1. op # "ENTRY"
    OBVIOUS
  <2> QED
    BY <2>1, Ran, Zenon
<1>5. Lower \in ReturnStacks
  BY <1>3, Zenon DEF ReturnStacks, Entries
<1> HIDE DEF f
<1>6. /\ FramesOK(task, f.ret, Lower, F2)
      /\ BaseOf(task, Top(F2), f.ret) = f.base
      /\ SavesLr(task, Top(F2), f.ret)
      /\ f.ret # 1
  BY <1>1, <1>3, <1>5, Leaving
<1>7. NativeOK(F2, native')
  <2>1. /\ ~f.fromC => NativeOK(F2, native)
        /\ f.fromC => NativeOK(F2, Below(native, 1))
    BY <1>1, <1>3, NativeLeave
  <2> QED
    BY <1>3, <2>1, Zenon DEF f
<1>8. LinkOK(task, f.ret, lr', home', F2)
  BY <1>1, <1>4, <1>6, Zenon DEF LinkOK
<1> HIDE DEF F2
<1>9. FramesInv'
  BY <1>1, <1>2, <1>6, <1>7, <1>8, Zenon DEF FramesInv, f
<1>10. VarsOK' /\ MachineOK(task, k, m)'
  BY <1>1, <1>2, Zenon DEF VarsOK
<1>11. Calls' = SubSeq(Calls, 1, Len(Calls) - 1)
  <2>1. CallsOf(F2, Lower) = SubSeq(CallsOf(frames, m.rs), 1, Len(CallsOf(frames, m.rs)) - 1)
    BY <1>1, <1>3, <1>5, CallsLeave DEF F2
  <2> QED
    BY <1>2, <2>1, CallsView, Zenon
<1>12. Calls' = Forth!Callers /\ k' = Forth!Call.ret
  BY <1>11, ForthView, Zenon DEF Forth!Callers
<1>13. DataStack' = StackOf(task, k', m')
  <2>1. k' \in Nat
    BY <1>3 DEF f
  <2> QED
    BY <1>2, <2>1, ViewsNext, Zenon
<1>14. Forth!Stays
  BY <1>2, Zenon DEF Forth!Stays, program
<1> QED
  BY <1>4, <1>9, <1>10, <1>12, <1>13, <1>14, Zenon DEF Inv

(* What the last call by C left.                                           *)
LEMMA LastByC ==
    ASSUME Inv, Len(frames) > 1, Frame.fromC
    PROVE  Nth(native, 1).next = Frame.ret /\ Nth(native, 1).base = Frame.base
<1>1. /\ task \in Tasks /\ FramesOK(task, k, m.rs, frames) /\ NativeOK(frames, native) /\ Frame = Top(frames)
  BY Here, Zenon
<1> DEFINE f == Top(frames)
<1>2. f.fromC
  BY <1>1, Zenon
<1>3. Nth(native, 1) = [next |-> f.ret, base |-> f.base]
  BY <1>1, <1>2, NativeLeave, Zenon
<1> HIDE DEF f
<1>4. Nth(native, 1).next = f.ret /\ Nth(native, 1).base = f.base
  BY <1>3
<1> QED
  BY <1>1, <1>4, Zenon DEF f

(* EXIT_WORD on the interpreter.                                             *)
LEMMA VmLeaveWordStep ==
    ASSUME Inv, VmLeaveWord
    PROVE  Inv' /\ Forth!LeaveWord
<1> DEFINE op == "EXIT_WORD"
           f == Frame
           h == HeaderOf(task, f, k)
           x == Rest(m, Lower, m.dp, m.heap)
<1>0. op = "EXIT_WORD"
  OBVIOUS
<1>1. /\ Vm(op) /\ vars' = vars /\ lr' = lr /\ home' = home /\ Stays /\ Returned
      /\ IF m.rs[base][2] # ToC THEN k' = m.rs[base][2] /\ native' = native
         ELSE k' = Nth(native, 1).next /\ native' = Below(native, 1)
      /\ base' = m.rs[base - 1][2] /\ m' = [m EXCEPT !.rs = SubSeq(m.rs, 1, base - 2)]
  BY Zenon DEF VmLeaveWord
<1> HIDE DEF op
<1>2. /\ Len(frames) > 1 /\ f = Top(frames) /\ f # FirstFrame /\ f.fromC \in BOOLEAN /\ f.at \in Nat
      /\ f.ret # 0 /\ f.own = f.at + Len(h) /\ \A j \in 1..Len(h) : m.rs[f.at + j] = h[j]
      /\ Lower \in Seq(Entries)
  BY <1>0, <1>1, Left, Zenon
<1>3. On("vm")
  BY <1>0, <1>1, Ran, Zenon
<1>4. task.backend = "vm" /\ VmMachine(m) /\ m.scratch = Junk /\ base = f.own /\ DataStack = InMemory(m)
  BY <1>3, VmHere, Zenon
<1>5. Len(h) = 2 /\ h[1] = <<"base", f.base>> /\ h[2] = <<"return", Address(f)>>
  <2>1. task \in Tasks
    BY Here, Zenon
  <2>2. IsHeader(task, f, k, h)
    BY <2>1, HeaderIs
  <2> QED
    BY <1>4, <2>2, Zenon DEF IsHeader
<1> HIDE DEF f, h
<1>6. base = f.at + 2 /\ base - 1 = f.at + 1 /\ base - 2 = f.at
  <2> DEFINE a == f.at
             b == f.own
  <2>1. a \in Nat /\ b = a + 2
    BY <1>2, <1>5, Zenon
  <2> HIDE DEF a, b
  <2>2. b - 1 = a + 1 /\ b - 2 = a
    BY <2>1
  <2> QED
    BY <1>4, <2>1, <2>2, Zenon DEF a, b
<1>7. m.rs[base] = <<"return", Address(f)>> /\ m.rs[base - 1] = <<"base", f.base>>
  <2>1. 1 \in 1..2 /\ 2 \in 1..2
    OBVIOUS
  <2>2. m.rs[f.at + 1] = h[1] /\ m.rs[f.at + 2] = h[2]
    BY <1>2, <1>5, <2>1, Zenon
  <2> QED
    BY <1>5, <1>6, <2>2, Zenon
<1>8. m.rs[base][2] = Address(f) /\ m.rs[base - 1][2] = f.base
  BY <1>7
<1>9. k' = f.ret /\ native' = IF f.fromC THEN Below(native, 1) ELSE native
  <2>1. CASE f.fromC
    <3>1. Address(f) = ToC
      BY <2>1, Zenon DEF Address
    <3>2. k' = Nth(native, 1).next /\ native' = Below(native, 1)
      BY <1>1, <1>8, <3>1, Zenon
    <3>3. Nth(native, 1).next = f.ret
      BY <1>2, <2>1, LastByC, Zenon DEF f
    <3> QED
      BY <2>1, <3>2, <3>3, Zenon
  <2>2. CASE ~f.fromC
    <3>1. Address(f) = f.ret
      BY <2>2, Zenon DEF Address
    <3>2. f.ret # ToC
      BY <1>2 DEF ToC
    <3> QED
      BY <1>1, <1>8, <2>2, <3>1, <3>2, Zenon
  <2> QED
    BY <2>1, <2>2, Zenon
<1>10. m' = x
  <2>1. Apart(m)
    BY <1>4, Zenon DEF VmMachine, Apart
  <2>2. m' = [m EXCEPT !.rs = Lower]
    BY <1>1, <1>6, Zenon DEF Lower, f
  <2> QED
    BY <2>1, <2>2, RestedOne, Zenon
<1>11. VmMachine(x) /\ InMemory(x) = InMemory(m) /\ x.scratch = Junk /\ x.rs = Lower /\ x.dp = m.dp /\ x.heap = m.heap
  <2>1. m.dp \in Bottom..Limit /\ m.heap \in Heaps
    BY SeenState, Zenon
  <2>2. VmMachine(x) /\ InMemory(x) = InMemory(m) /\ x.scratch = m.scratch /\ x.rs = Lower /\ x.dp = m.dp /\ x.heap = m.heap
    BY <1>2, <1>4, <2>1, VmRested
  <2> QED
    BY <1>4, <2>2, Zenon
<1> HIDE DEF x
<1>12. MachineOK(task, k', m') /\ StackOf(task, k', m') = DataStack
  BY <1>4, <1>10, <1>11, Zenon DEF MachineOK, StackOf
<1>13. base' = f.base /\ m'.rs = Lower
  BY <1>1, <1>8, <1>10, <1>11, Zenon
<1>14. /\ Inv' /\ DataStack' = StackOf(task, k', m') /\ Forth!Stays
       /\ Calls' = Forth!Callers /\ k' = Forth!Call.ret /\ Forth!Runs(op)
  BY <1>0, <1>1, <1>9, <1>12, <1>13, LeaveStep, Zenon DEF f
<1> QED
  BY <1>1, <1>10, <1>11, <1>12, <1>14, Zenon DEF Forth!LeaveWord, op

-----------------------------------------------------------------------------
(* Returns in machine code.                                                  *)

(* Machine code goes back to the word that called, or through C to it.     *)
LEMMA NativeReturns ==
    ASSUME Inv, NEW op, op = "EXIT_WORD", Native(op),
           Return(Address(Frame), [m EXCEPT !.rs = Lower], Entered(Frame)),
           home' = home, vars' = vars, Returned, Stays
    PROVE  Inv' /\ Forth!LeaveWord
<1> DEFINE f == Frame
           x == Rest(m, Lower, m.dp, m.heap)
           back == Reloaded(Flushed(x))
<1>1. /\ Len(frames) > 1 /\ f.fromC \in BOOLEAN /\ f.ret # 0 /\ f.ret \in Nat /\ Lower \in Seq(Entries)
      /\ CodeOf(task)[f.ret - 1].op \in Calling
  BY Left, Zenon
<1>2. ~On("vm") /\ (f.fromC => Len(DataStack) < MaxCells) /\ CodeOf(task)[k].op = op
  BY Ran, Zenon
<1>3. op \notin PushOps \cup {"BUILTIN_WORD", "DECLARE_CONSTANT"}
  BY DEF PushOps
<1>4. /\ IsMachine(m) /\ m.scratch = Junk /\ DataStack = InRegisters(m)
      /\ Len(DataStack) = m.depth + 1 /\ m.depth \in Int
  BY <1>2, <1>3, NativePlain, Zenon
<1>5. Apart(m) /\ m.dp \in Bottom..Limit /\ m.heap \in Heaps
  BY <1>4, Zenon DEF IsMachine, Apart
<1>6. [m EXCEPT !.rs = Lower] = x
  BY <1>5, RestedOne, Zenon
<1>7. IsMachine(x) /\ InRegisters(x) = InRegisters(m) /\ x.scratch = m.scratch /\ x.rs = Lower
      /\ x.dp = m.dp /\ x.heap = m.heap
  BY <1>1, <1>4, <1>5, NativeRested
<1>8. x.depth = m.depth
  BY <1>5 DEF Rest, Apart, Machine
<1> HIDE DEF x, f
<1>9. f.fromC => /\ IsMachine(back) /\ InRegisters(back) = InRegisters(x)
                 /\ back.rs = x.rs /\ back.dp = x.dp /\ back.heap = x.heap /\ back.scratch = x.scratch
  <2> SUFFICES ASSUME f.fromC
               PROVE  /\ IsMachine(back) /\ InRegisters(back) = InRegisters(x)
                      /\ back.rs = x.rs /\ back.dp = x.dp /\ back.heap = x.heap /\ back.scratch = x.scratch
    BY Zenon
  <2>1. x.depth < MaxCells - 1
    <3>1. MaxCells \in Int /\ Len(DataStack) < MaxCells
      BY <1>2, HereCells, Zenon
    <3> QED
      BY <1>4, <1>8, <3>1
  <2>2. x.top \in Cell
    BY <1>7, Zenon DEF IsMachine
  <2>3. LET c == Opening({"A", "B"}, x)
            y == Closing({"Y", "Z"}, c)
        IN  /\ IsMachine(y) /\ InRegisters(y) = InRegisters(x)
            /\ y.rs = x.rs /\ y.dp = x.dp /\ y.heap = x.heap /\ y.scratch = x.scratch
    BY <1>7, <2>1, <2>2, HandedOver
  <2> QED
    BY <2>3, Zenon DEF Reloaded, Flushed
<1>10. Return(Address(f), x, Entered(f))
  BY <1>6, Zenon DEF f
<1>11. f.fromC => /\ k' = f.ret /\ m' = back /\ base' = f.base /\ native' = Below(native, 1)
  <2> SUFFICES ASSUME f.fromC
               PROVE  k' = f.ret /\ m' = back /\ base' = f.base /\ native' = Below(native, 1)
    BY Zenon
  <2>1. Address(f) = ToC
    BY Zenon DEF Address
  <2>2. k' = Nth(native, 1).next /\ m' = back /\ base' = Nth(native, 1).base /\ native' = Below(native, 1)
    BY <1>10, <2>1, Zenon DEF Return
  <2>3. Nth(native, 1).next = f.ret /\ Nth(native, 1).base = f.base
    BY <1>1, LastByC, Zenon DEF f
  <2> QED
    BY <2>2, <2>3, Zenon
<1>12. ~f.fromC => /\ k' = f.ret /\ m' = x /\ base' = f.base /\ native' = native
  <2> SUFFICES ASSUME ~f.fromC
               PROVE  k' = f.ret /\ m' = x /\ base' = f.base /\ native' = native
    BY Zenon
  <2>1. Address(f) = f.ret /\ Entered(f) = f.base
    BY Zenon DEF Address, Entered
  <2>2. f.ret # ToC
    BY <1>1 DEF ToC
  <2> QED
    BY <1>10, <2>1, <2>2, Zenon DEF Return
<1> HIDE DEF back
<1>13. /\ k' = f.ret /\ base' = f.base /\ native' = (IF f.fromC THEN Below(native, 1) ELSE native)
       /\ IsMachine(m') /\ m'.scratch = Junk /\ m'.rs = Lower /\ InRegisters(m') = DataStack
       /\ m'.dp = m.dp /\ m'.heap = m.heap
  <2>1. CASE f.fromC
    BY <1>4, <1>7, <1>9, <1>11, <2>1, Zenon
  <2>2. CASE ~f.fromC
    BY <1>4, <1>7, <1>12, <2>2, Zenon
  <2> QED
    BY <2>1, <2>2, Zenon
<1>14. FlagsIn(task, k' - 1) = {}
  <2>1. CodeOf(task)[k' - 1].op \notin PushOps \cup {"BUILTIN_WORD", "DECLARE_CONSTANT"}
    <3>1. CodeOf(task)[k' - 1].op \in Calling
      BY <1>1, <1>13, Zenon
    <3> QED
      BY <3>1 DEF Calling, PushOps
  <2> QED
    BY <2>1, PlainOps
<1>15. MachineOK(task, k', m') /\ StackOf(task, k', m') = InRegisters(m')
  BY <1>2, <1>13, <1>14, NativeNext, Zenon
<1>16. /\ Inv' /\ DataStack' = StackOf(task, k', m') /\ Forth!Stays
       /\ Calls' = Forth!Callers /\ k' = Forth!Call.ret /\ Forth!Runs(op)
  BY <1>13, <1>15, LeaveStep, Zenon DEF f
<1> QED
  BY <1>13, <1>15, <1>16, Zenon DEF Forth!LeaveWord

(* Cells of a stack that a shorter one still has.                          *)
LEMMA Shorter ==
    ASSUME NEW R \in Seq(Entries), NEW a \in Nat, a + 1 <= Len(R)
    PROVE  LET rs == SubSeq(R, 1, a + 1)
           IN  Nth(rs, 1) = R[a + 1] /\ Below(rs, 1) = SubSeq(R, 1, a)
<1> DEFINE rs == SubSeq(R, 1, a + 1)
           p == Below(rs, 1)
           q == SubSeq(R, 1, a)
<1>1. Len(R) \in Nat /\ \A i \in 1..Len(R) : R[i] \in Entries
  BY LenProperties
<1>2. \A i \in 1..(a + 1) : R[i] \in Entries
  BY <1>1
<1>3. rs \in Seq(Entries) /\ Len(rs) = a + 1 /\ \A i \in 1..(a + 1) : rs[i] = R[i]
  BY <1>2, SubSeqProperties
<1>4. q \in Seq(Entries) /\ Len(q) = a /\ \A i \in 1..a : q[i] = R[i]
  BY <1>2, SubSeqProperties
<1> HIDE DEF rs, q
<1>5. p \in Seq(Entries) /\ Len(p) = a /\ \A i \in 1..a : p[i] = rs[i]
  <2>1. p = SubSeq(rs, 1, a)
    <3>1. Len(rs) - 1 = a
      BY <1>3
    <3> QED
      BY <3>1, Zenon DEF Below
  <2>2. \A i \in 1..a : rs[i] \in Entries
    BY <1>3
  <2> QED
    BY <2>1, <2>2, SubSeqProperties
<1> HIDE DEF p
<1>6. p = q
  <2>1. p = [i \in 1..a |-> p[i]] /\ q = [i \in 1..a |-> q[i]]
    BY <1>4, <1>5
  <2>2. \A i \in 1..a : p[i] = q[i]
    BY <1>3, <1>4, <1>5
  <2> QED
    BY <2>1, <2>2, Zenon
<1>7. Nth(rs, 1) = R[a + 1]
  <2>1. Len(rs) + 1 - 1 = a + 1 /\ a + 1 \in 1..(a + 1)
    BY <1>3
  <2> QED
    BY <1>3, <2>1, Zenon DEF Nth
<1> QED
  BY <1>6, <1>7 DEF rs, p, q

LEMMA X86ExitStep ==
    ASSUME Inv, X86Exit
    PROVE  Inv' /\ Forth!LeaveWord
<1> DEFINE op == "EXIT_WORD"
           f == Frame
           h == HeaderOf(task, f, k)
           framed == Forth!Loops(Code, Fragment.p)
           rs == IF framed THEN SubSeq(m.rs, 1, base - 1) ELSE m.rs
           a == f.at
           l == Len(m.rs)
<1>0. op = "EXIT_WORD"
  OBVIOUS
<1>1. /\ On("x86_32") /\ Native(op) /\ vars' = vars /\ home' = home /\ Stays /\ Returned
      /\ Return(Nth(rs, 1)[2], [m EXCEPT !.rs = Below(rs, 1)], IF framed THEN m.rs[base][2] ELSE base)
  BY Zenon DEF X86Exit
<1> HIDE DEF op
<1>2. /\ Len(frames) > 1 /\ f = Top(frames) /\ f # FirstFrame /\ a \in Nat /\ f.own <= l
      /\ f.own = a + Len(h) /\ \A j \in 1..Len(h) : m.rs[a + j] = h[j]
      /\ Fragment.p = f.word /\ k # f.word
  BY <1>0, <1>1, Left, Zenon
<1>3. /\ task \in Tasks /\ base = BaseOf(task, f, k) /\ Code = CodeOf(task) /\ task.backend = "x86_32"
  BY <1>1, Here, Zenon DEF On
<1>4. framed <=> SavesBase(task, f, k)
  BY <1>2, <1>3, Zenon DEF SavesBase
<1>5. /\ Len(h) = (IF framed THEN 2 ELSE 1) /\ h[1] = <<"return", Address(f)>>
      /\ framed => h[2] = <<"base", Entered(f)>>
  <2>1. IsHeader(task, f, k, h)
    BY <1>3, HeaderIs
  <2> HIDE DEF h, f, framed
  <2>2. (IF SavesBase(task, f, k) THEN 2 ELSE 1) = (IF framed THEN 2 ELSE 1)
    BY <1>4
  <2> QED
    BY <1>3, <1>4, <2>1, <2>2, Zenon DEF IsHeader
<1>6. base = IF framed THEN a + 2 ELSE Entered(f)
  BY <1>2, <1>3, <1>4 DEF BaseOf, BaseIn
<1>7. framed \/ OwnRs = <<>>
  <2>1. Forth!DefinedFor(Fragment) /\ Fragment.op = op
    BY <1>1, Ran, Zenon
  <2> QED
    BY <1>0, <2>1, DefinedBy, Zenon
<1>8. m.rs \in Seq(Entries) /\ l \in Nat /\ Len(OwnRs) = l - f.own /\ f.own \in Nat
  BY HereCells, Zenon
<1>9. ~framed => l = a + 1 /\ f.own = a + 1
  <2>1. ~framed => Len(OwnRs) = 0
    BY <1>7
  <2> DEFINE o == f.own
             n == Len(h)
             z == Len(OwnRs)
  <2>2. o = a + n /\ n = (IF framed THEN 2 ELSE 1) /\ z = l - o /\ o \in Nat /\ l \in Nat /\ a \in Nat
        /\ (~framed => z = 0)
    BY <1>2, <1>5, <1>8, <2>1, Zenon
  <2> HIDE DEF framed, f, l, a, h, o, n, z
  <2>3. ~framed => l = a + 1 /\ o = a + 1
    BY <2>2
  <2> QED
    BY <2>3, Zenon DEF o
<1> HIDE DEF f, h, framed, a, l
<1>10. framed => base = a + 2 /\ a + 2 <= l
  BY <1>2, <1>5, <1>6, <1>8
<1>11. rs = SubSeq(m.rs, 1, a + 1) /\ a + 1 <= l
  <2>1. CASE framed
    <3>1. base - 1 = a + 1 /\ a + 1 <= l
      BY <1>2, <1>8, <1>10, <2>1
    <3> QED
      BY <2>1, <3>1, Zenon
  <2>2. CASE ~framed
    <3>1. m.rs = SubSeq(m.rs, 1, a + 1)
      <4> DEFINE R == m.rs
                 q == SubSeq(R, 1, a + 1)
      <4>1. R \in Seq(Entries) /\ Len(R) = a + 1 /\ a + 1 \in Nat
        BY <1>2, <1>8, <1>9, <2>2 DEF l
      <4> HIDE DEF R
      <4>2. \A i \in 1..(a + 1) : R[i] \in Entries
        BY <4>1
      <4>3. q \in Seq(Entries) /\ Len(q) = a + 1 /\ \A i \in 1..(a + 1) : q[i] = R[i]
        BY <1>2, <4>2, SubSeqProperties
      <4> HIDE DEF q
      <4>4. q = [i \in 1..(a + 1) |-> q[i]] /\ R = [i \in 1..(a + 1) |-> R[i]]
        BY <4>1, <4>3
      <4> QED
        BY <4>3, <4>4, Zenon DEF R, q
    <3>2. a + 1 <= l
      BY <1>2, <1>9, <2>2
    <3> QED
      BY <2>2, <3>1, <3>2, Zenon
  <2> QED
    BY <2>1, <2>2, Zenon
<1> HIDE DEF rs
<1>12. Nth(rs, 1) = m.rs[a + 1] /\ Below(rs, 1) = Lower
  <2>1. LET q == SubSeq(m.rs, 1, a + 1)
        IN  Nth(q, 1) = m.rs[a + 1] /\ Below(q, 1) = SubSeq(m.rs, 1, a)
    BY <1>2, <1>8, <1>11, Shorter DEF l
  <2> QED
    BY <1>11, <2>1, Zenon DEF Lower, a, f
<1>13. Nth(rs, 1)[2] = Address(f)
  <2>1. 1 \in 1..Len(h)
    BY <1>5
  <2>2. m.rs[a + 1] = h[1]
    BY <1>2, <2>1
  <2> QED
    BY <1>5, <1>12, <2>2
<1>14. (IF framed THEN m.rs[base][2] ELSE base) = Entered(f)
  <2>1. CASE framed
    <3>1. 2 \in 1..Len(h)
      BY <1>5, <2>1
    <3>2. m.rs[base] = <<"base", Entered(f)>>
      BY <1>2, <1>5, <1>10, <2>1, <3>1
    <3> QED
      BY <2>1, <3>2
  <2>2. CASE ~framed
    BY <1>6, <2>2
  <2> QED
    BY <2>1, <2>2
<1>15. Return(Address(Frame), [m EXCEPT !.rs = Lower], Entered(Frame))
  BY <1>1, <1>12, <1>13, <1>14, Zenon DEF f
<1> QED
  BY <1>0, <1>1, <1>15, NativeReturns, Zenon

LEMMA EspExitStep ==
    ASSUME Inv, EspExit
    PROVE  Inv' /\ Forth!LeaveWord
<1> DEFINE op == "EXIT_WORD"
           f == Frame
           h == HeaderOf(task, f, k)
           loops == Forth!Loops(Code, Fragment.p)
           calls == CallsAny(Code, Fragment.p)
           a == f.at
           l == Len(m.rs)
           bottom == IF loops THEN base ELSE l - (IF calls THEN 1 ELSE 0)
           saved == SubSeq(m.rs, bottom + 1, l)
           link == IF calls THEN saved[IF loops THEN 2 ELSE 1][2] ELSE lr
           b == IF loops THEN saved[1][2] ELSE base
<1>0. op = "EXIT_WORD"
  OBVIOUS
<1>1. /\ On("esp32s3") /\ Native(op) /\ vars' = vars /\ home' = home /\ Stays /\ Returned
      /\ Return(link, [m EXCEPT !.rs = SubSeq(m.rs, 1, bottom)], b)
  BY Zenon DEF EspExit
<1> HIDE DEF op
<1>2. /\ Len(frames) > 1 /\ f = Top(frames) /\ f # FirstFrame /\ a \in Nat /\ f.own <= l
      /\ f.own = a + Len(h) /\ \A j \in 1..Len(h) : m.rs[a + j] = h[j]
      /\ Fragment.p = f.word /\ k # f.word
  BY <1>0, <1>1, Left, Zenon
<1>3. /\ task \in Tasks /\ base = BaseOf(task, f, k) /\ Code = CodeOf(task) /\ task.backend = "esp32s3"
      /\ LinkOK(task, k, lr, home, frames)
  BY <1>1, Here, Zenon DEF On
<1>4. (SavesBase(task, f, k) <=> loops) /\ (SavesLr(task, f, k) <=> calls)
  BY <1>2, <1>3, Zenon DEF SavesBase, SavesLr
<1>5. /\ Len(h) = (IF loops THEN 1 ELSE 0) + (IF calls THEN 1 ELSE 0)
      /\ loops => h[1] = <<"base", Entered(f)>>
      /\ calls => h[IF loops THEN 2 ELSE 1] = <<"return", Address(f)>>
  <2>1. IsHeader(task, f, k, h)
    BY <1>3, HeaderIs
  <2> HIDE DEF h, f, loops, calls
  <2>2. /\ (IF SavesBase(task, f, k) THEN 1 ELSE 0) = (IF loops THEN 1 ELSE 0)
        /\ (IF SavesLr(task, f, k) THEN 1 ELSE 0) = (IF calls THEN 1 ELSE 0)
        /\ (IF SavesBase(task, f, k) THEN 2 ELSE 1) = (IF loops THEN 2 ELSE 1)
    BY <1>4
  <2> QED
    BY <1>3, <1>4, <2>1, <2>2, Zenon DEF IsHeader
<1>6. base = IF loops THEN a ELSE Entered(f)
  <2> HIDE DEF loops
  <2> QED
    BY <1>2, <1>3, <1>4 DEF BaseOf, BaseIn
<1>7. loops \/ OwnRs = <<>>
  <2>1. Forth!DefinedFor(Fragment) /\ Fragment.op = op
    BY <1>1, Ran, Zenon
  <2> QED
    BY <1>0, <2>1, DefinedBy, Zenon
<1>8. m.rs \in Seq(Entries) /\ l \in Nat /\ Len(OwnRs) = l - f.own /\ f.own \in Nat
  BY HereCells, Zenon
<1>9. ~loops => Len(OwnRs) = 0
  BY <1>7
<1>10. ~calls => lr = Address(f)
  <2> HIDE DEF f, calls
  <2>1. ~calls => ~SavesLr(task, Top(frames), k)
    BY <1>2, <1>4 DEF calls
  <2> QED
    BY <1>2, <1>3, <2>1, Zenon DEF LinkOK
<1> HIDE DEF f, h, loops, calls, a, l
<1>11. bottom = a /\ a <= l /\ l >= a + Len(h)
  <2> DEFINE o == f.own
             n == Len(h)
             z == Len(OwnRs)
  <2>1. /\ o = a + n /\ n = (IF loops THEN 1 ELSE 0) + (IF calls THEN 1 ELSE 0) /\ z = l - o
        /\ o \in Nat /\ l \in Nat /\ a \in Nat /\ o <= l
        /\ (~loops => z = 0) /\ (loops => base = a)
    BY <1>2, <1>5, <1>6, <1>8, <1>9, Zenon
  <2> HIDE DEF o, n, z
  <2>2. /\ a <= l /\ l >= a + n
    BY <2>1
  <2>3. bottom = a
    <3>1. CASE loops
      BY <2>1, <3>1
    <3>2. CASE ~loops /\ calls
      BY <2>1, <3>2
    <3>3. CASE ~loops /\ ~calls
      BY <2>1, <3>3
    <3> QED
      BY <3>1, <3>2, <3>3
  <2> QED
    BY <2>2, <2>3 DEF n
<1> HIDE DEF bottom
<1>12. \A j \in 1..Len(h) : saved[j] = h[j]
  <2> DEFINE R == m.rs
             c == a + 1
  <2>1. R \in Seq(Entries) /\ Len(R) = l /\ c \in Int /\ l \in Int
    BY <1>2, <1>8 DEF l
  <2> HIDE DEF R
  <2>2. \A i \in c..l : R[i] \in Entries
    BY <1>2, <1>8, <2>1
  <2> HIDE DEF c
  <2>3. \A i \in 1..(l - c + 1) : SubSeq(R, c, l)[i] = R[c + i - 1]
    BY <2>1, <2>2, SubSeqProperties
  <2>4. saved = SubSeq(R, c, l)
    BY <1>11, Zenon DEF R, c
  <2> HIDE DEF saved
  <2>5. \A j \in 1..Len(h) : R[a + j] = h[j]
    BY <1>2 DEF R
  <2>6. Len(h) \in Nat
    BY <1>5
  <2> DEFINE n == Len(h)
  <2> HIDE DEF n
  <2>7. ASSUME NEW j \in 1..n
        PROVE  j \in 1..(l - c + 1) /\ c + j - 1 = a + j
    <3>1. n \in Nat /\ l >= a + n /\ l \in Nat /\ a \in Nat
      BY <1>2, <1>8, <1>11, <2>6 DEF n
    <3> QED
      BY <3>1 DEF c
  <2>8. ASSUME NEW j \in 1..n
        PROVE  saved[j] = h[j]
    <3>1. SubSeq(R, c, l)[j] = R[c + j - 1]
      BY <2>3, <2>7, Zenon
    <3> QED
      BY <2>4, <2>5, <2>7, <3>1, Zenon DEF n
  <2> QED
    BY <2>8, Zenon DEF n
<1> HIDE DEF saved
<1>13. link = Address(f)
  <2>1. CASE calls
    <3>1. (IF loops THEN 2 ELSE 1) \in 1..Len(h)
      BY <1>5, <2>1
    <3>2. saved[IF loops THEN 2 ELSE 1] = <<"return", Address(f)>>
      BY <1>5, <1>12, <2>1, <3>1
    <3> QED
      BY <2>1, <3>2
  <2>2. CASE ~calls
    BY <1>10, <2>2
  <2> QED
    BY <2>1, <2>2
<1>14. b = Entered(f)
  <2>1. CASE loops
    <3>1. 1 \in 1..Len(h)
      BY <1>5, <2>1
    <3>2. saved[1] = <<"base", Entered(f)>>
      BY <1>5, <1>12, <2>1, <3>1
    <3> QED
      BY <2>1, <3>2
  <2>2. CASE ~loops
    BY <1>6, <2>2
  <2> QED
    BY <2>1, <2>2
<1>15. Return(Address(Frame), [m EXCEPT !.rs = Lower], Entered(Frame))
  BY <1>1, <1>11, <1>13, <1>14, Zenon DEF f, a, Lower
<1> QED
  BY <1>0, <1>1, <1>15, NativeReturns, Zenon

-----------------------------------------------------------------------------
(* The location of a word, on the x86-32.                                    *)

(* At the location of its word a frame is as the call left it.             *)
LEMMA AtLocation ==
    ASSUME Inv, NEW op, op = "DEFINED_WORD_LOCATION", Native(op)
    PROVE  LET f == Frame
           IN  /\ Len(frames) > 1 /\ f = Top(frames) /\ f.word = k /\ f # FirstFrame /\ Len(m.rs) = f.own
               /\ f.at \in Nat /\ f.own = f.at + (IF On("x86_32") THEN 1 ELSE 0)
               /\ On("x86_32") => m.rs[f.at + 1] = <<"return", Address(f)>>
               /\ base = Entered(f) /\ (On("esp32s3") => lr = Address(f))
               /\ k # 1 /\ ~On("vm") /\ IsLocation(task, k) /\ Reaches(k + 1)
               /\ task \in Tasks /\ task.backend \in {"x86_32", "esp32s3"} /\ backend = task.backend
               /\ k \in Nat
<1> DEFINE f == Frame
           n == Len(frames)
           h == HeaderOf(task, f, k)
<1>1. /\ task \in Tasks /\ FramesOK(task, k, m.rs, frames) /\ f = Top(frames) /\ base = BaseOf(task, f, k)
      /\ LinkOK(task, k, lr, home, frames) /\ backend = task.backend /\ k \in Nat /\ k >= 1
  BY Here, Zenon
<1>2. /\ n \in Nat /\ n >= 1 /\ f.at \in Nat
      /\ Holds(task, f, k, m.rs, Len(m.rs))
      /\ k \in DOMAIN CodeOf(task) /\ WordAt(task, k) = f.word
      /\ n = 1 => f.word = 0
      /\ n > 1 => f # FirstFrame
  BY <1>1, TopFacts
<1>3. k # 1 /\ ~On("vm") /\ CodeOf(task)[k].op = op /\ Reaches(k + 1)
  <2>1. op # "ENTRY" /\ op \notin {"BRANCH", "EXIT_WORD", "HALT"}
    OBVIOUS
  <2> QED
    BY <2>1, Ran, Zenon
<1>4. IsLocation(task, k) /\ f.word = k
  <2>1. IsLocation(task, k) <=> k = WordAt(task, k)
    BY <1>1, <1>2, BehindLocation
  <2> QED
    BY <1>2, <1>3, <2>1, Zenon DEF IsLocation
<1>5. n > 1
  <2>1. n # 1 /\ n \in Nat /\ n >= 1
    <3>1. k # 0
      BY <1>1
    <3> QED
      BY <1>2, <1>4, <3>1, Zenon
  <2> HIDE DEF n
  <2> QED
    BY <2>1
<1>6. Len(m.rs) = f.own
  BY <1>1, <1>4, Zenon DEF FramesOK
<1>7. ~SavesBase(task, f, k) /\ ~SavesLr(task, f, k)
  BY <1>4, Zenon DEF SavesBase, SavesLr
<1>8. f.own = f.at + Len(h) /\ \A j \in 1..Len(h) : m.rs[f.at + j] = h[j]
  BY <1>2, <1>5, Zenon DEF Holds
<1>9. task.backend \in {"x86_32", "esp32s3"}
  <2>1. task.backend \in {"vm", "x86_32", "esp32s3"}
    BY <1>1, TaskShape, Zenon
  <2> QED
    BY <1>1, <1>3, <2>1 DEF On
<1>10. /\ Len(h) = (IF On("x86_32") THEN 1 ELSE 0)
       /\ On("x86_32") => h[1] = <<"return", Address(f)>>
  <2>1. IsHeader(task, f, k, h)
    BY <1>1, HeaderIs
  <2>2. f.word = k
    BY <1>4
  <2> HIDE DEF h, f
  <2>3. Len(h) = (IF task.backend = "vm" THEN 2 ELSE IF task.backend = "x86_32" THEN 1 ELSE 0)
    BY <1>1, <2>2, CallSaves DEF h
  <2>4. task.backend = "x86_32" => h[1] = <<"return", Address(f)>>
    BY <2>1, Zenon DEF IsHeader
  <2>5. task.backend # "vm" /\ (On("x86_32") <=> task.backend = "x86_32")
    BY <1>1, <1>9 DEF On
  <2> QED
    BY <2>3, <2>4, <2>5
<1> HIDE DEF h
<1>11. On("x86_32") => m.rs[f.at + 1] = <<"return", Address(f)>>
  <2>1. On("x86_32") => 1 \in 1..Len(h)
    BY <1>10
  <2> QED
    BY <1>8, <1>10, <2>1, Zenon
<1>12. base = Entered(f)
  <2>1. f # FirstFrame
    BY <1>2, <1>5, Zenon
  <2> HIDE DEF f
  <2> QED
    BY <1>1, <1>7, <1>9, <2>1 DEF BaseOf, BaseIn
<1>13. On("esp32s3") => lr = Address(f)
  BY <1>1, <1>5, <1>7, Zenon DEF LinkOK, On
<1> QED
  BY <1>1, <1>2, <1>3, <1>4, <1>5, <1>6, <1>8, <1>9, <1>10, <1>11, <1>12, <1>13, Zenon

(* The location of a word is behind it once it has saved what it must.     *)
LEMMA LocationStep ==
    ASSUME Inv, NEW op, op = "DEFINED_WORD_LOCATION", Native(op), Saves(task, k, m.rs, frames, m'.rs),
           base' = BaseOf(task, Frame, k + 1), Saved, k' = k + 1, lr' = lr, home' = home, native' = native,
           vars' = vars, Stays, m' = Rest(m, m'.rs, m.dp, m.heap)
    PROVE  Inv' /\ Forth!Skip
<1> DEFINE f == Frame
           R == m'.rs
           x == Rest(m, R, m.dp, m.heap)
           F2 == [frames EXCEPT ![Len(frames)].own = Len(R)]
           q == k + 1
<1>1. /\ task \in Tasks /\ FramesOK(task, k, m.rs, frames)
      /\ NativeOK(frames, native) /\ LinkOK(task, k, lr, home, frames) /\ VarsOK
      /\ status \in {"running", "done", "failed"}
  BY Here, Zenon
<1>2. task' = task /\ status' = status /\ frames' = F2
  BY Zenon DEF Stays, Saved
<1>3. /\ f = Top(frames) /\ f.word = k /\ k # 1 /\ ~On("vm") /\ Reaches(q) /\ k \in Nat
      /\ Len(frames) > 1 /\ (On("esp32s3") => lr = Address(f)) /\ backend = task.backend
  BY AtLocation, Zenon
<1>4. Forth!Runs(op) /\ CodeOf(task)[k].op = op
  BY Ran, Zenon
<1>5. op \notin PushOps \cup {"BUILTIN_WORD", "DECLARE_CONSTANT"}
  BY DEF PushOps
<1>6. IsMachine(m) /\ m.scratch = Junk /\ DataStack = InRegisters(m)
  BY <1>3, <1>4, <1>5, NativePlain, Zenon
<1>7. R \in Seq(Entries) /\ Saves(task, k, m.rs, frames, R) /\ m' = x
  BY Zenon DEF Saves, ReturnStacks, Entries
<1>30. base' = BaseOf(task, f, q)
  OBVIOUS
<1> HIDE DEF R
<1>8. IsMachine(x) /\ InRegisters(x) = InRegisters(m) /\ x.scratch = Junk /\ x.dp = m.dp /\ x.heap = m.heap
  <2>1. m.dp \in Bottom..Limit /\ m.heap \in Heaps
    BY <1>6, Zenon DEF IsMachine
  <2>2. IsMachine(x) /\ InRegisters(x) = InRegisters(m) /\ x.scratch = m.scratch /\ x.dp = m.dp /\ x.heap = m.heap
    BY <1>6, <1>7, <2>1, NativeRested
  <2> QED
    BY <1>6, <2>2, Zenon
<1> HIDE DEF x, F2, f
<1>9. /\ FramesOK(task, k + 1, R, F2)
      /\ Len(F2) = Len(frames) /\ Alike(Top(F2), Top(frames))
      /\ \A i \in 1..Len(frames) : Alike(F2[i], frames[i])
      /\ BaseOf(task, Top(F2), k + 1) = BaseOf(task, Top(frames), k + 1)
  <2>1. Located(task, k, frames, R, F2)
    BY <1>1, <1>7, Saving, Zenon DEF F2
  <2> QED
    BY <2>1, Zenon DEF Located
<1>10. NativeOK(F2, native)
  <2>1. Len(frames) \in Nat /\ Len(frames) >= 1
    BY <1>1, TopFacts
  <2> QED
    BY <1>1, <1>9, <2>1, NativeSave
<1>11. LinkOK(task, k + 1, lr, home, F2)
  <2>1. k + 1 # 1 /\ k # 1
    <3> DEFINE y == k
    <3>1. y \in Nat /\ y >= 1
      BY Here, Zenon
    <3> HIDE DEF y
    <3>2. y + 1 # 1
      BY <3>1
    <3> QED
      BY <1>3, <3>2, Zenon DEF y
  <2>2. Address(Top(F2)) = Address(f)
    BY <1>3, <1>9, Zenon DEF Alike, Address
  <2>3. task.backend = "esp32s3" => home = Host /\ lr = Address(f)
    BY <1>1, <1>3, <2>1, Zenon DEF LinkOK, On
  <2> QED
    BY <2>1, <2>2, <2>3, Zenon DEF LinkOK
<1>12. FramesInv'
  BY <1>1, <1>2, <1>3, <1>9, <1>10, <1>11, <1>30, Zenon DEF FramesInv, R
<1>13. FlagsIn(task, k' - 1) = {}
  <2>1. k' - 1 = k
    <3> DEFINE y == k
    <3>1. y \in Nat /\ k' = y + 1
      BY <1>3
    <3> HIDE DEF y
    <3>2. (y + 1) - 1 = y
      BY <3>1
    <3> QED
      BY <3>1, <3>2, Zenon DEF y
  <2>2. FlagsIn(task, k) = {}
    BY <1>4, <1>5, PlainOps, Zenon
  <2> QED
    BY <2>1, <2>2, Zenon
<1>14. MachineOK(task, k', m') /\ StackOf(task, k', m') = InRegisters(m')
  BY <1>3, <1>7, <1>8, <1>13, NativeNext, Zenon
<1>15. VarsOK' /\ MachineOK(task, k, m)'
  BY <1>1, <1>2, <1>14, Zenon DEF VarsOK
<1>16. Calls' = Calls
  <2>1. CallsOf(F2, R) = CallsOf(frames, m.rs)
    BY <1>1, <1>7, CallsSave DEF F2
  <2> QED
    BY <1>2, <2>1, CallsView, Zenon DEF R
<1>17. DataStack' = DataStack
  <2>1. k' \in Nat
    BY <1>3
  <2>2. DataStack' = StackOf(task', k', m')
    BY <2>1, ViewsNext, Zenon
  <2> QED
    BY <1>2, <1>6, <1>7, <1>8, <1>14, <2>2, Zenon
<1>18. Forth!Stays /\ m'.dp = m.dp /\ m'.heap = m.heap
  BY <1>2, <1>7, <1>8, Zenon DEF Forth!Stays, program
<1>19. op \in {"BRANCH_LOCATION", "DEFINED_WORD_LOCATION", "ENTRY"}
  OBVIOUS
<1> QED
  BY <1>4, <1>12, <1>15, <1>16, <1>17, <1>18, <1>19, Zenon DEF Inv, Forth!Skip

LEMMA X86LocationStep ==
    ASSUME Inv, X86Location
    PROVE  Inv' /\ Forth!Skip
<1> DEFINE op == "DEFINED_WORD_LOCATION"
           f == Frame
           loops == Forth!Loops(Code, k)
           cell == <<"base", base>>
           R == IF loops THEN Append(m.rs, cell) ELSE m.rs
           h == HeaderOf(task, f, k + 1)
           a == f.at
           l == Len(m.rs)
<1>0. op = "DEFINED_WORD_LOCATION"
  OBVIOUS
<1>1. /\ On("x86_32") /\ Native(op) /\ Saved /\ k' = k + 1 /\ lr' = lr /\ home' = home /\ native' = native
      /\ vars' = vars /\ Stays
      /\ IF loops THEN m' = [m EXCEPT !.rs = Append(m.rs, cell)] /\ base' = l + 1
                  ELSE m' = m /\ base' = base
  BY Zenon DEF X86Location
<1> HIDE DEF op
<1>2. /\ f = Top(frames) /\ f.word = k /\ f # FirstFrame /\ l = f.own
      /\ a \in Nat /\ f.own = a + (IF On("x86_32") THEN 1 ELSE 0)
      /\ m.rs[a + 1] = <<"return", Address(f)>>
      /\ base = Entered(f) /\ ~On("vm") /\ IsLocation(task, k) /\ Reaches(k + 1)
      /\ task \in Tasks /\ backend = task.backend /\ k \in Nat
  BY <1>0, <1>1, AtLocation, Zenon
<1>3. task.backend = "x86_32" /\ Code = CodeOf(task)
  BY <1>1, <1>2, Here, Zenon DEF On
<1> HIDE DEF f, h, a, l
<1>4. l = a + 1
  BY <1>1, <1>2
<1>5. m.rs \in Seq(Entries) /\ l \in Nat
  BY HereCells, Zenon DEF l
<1>6. cell \in Entries
  <2>1. base \in Int
    BY BaseRange, Zenon
  <2> QED
    BY <2>1 DEF Entries
<1>7. SavesBase(task, f, k + 1) <=> loops
  <2>1. k + 1 # f.word
    BY <1>2
  <2> QED
    BY <1>2, <1>3, <2>1, Zenon DEF SavesBase
<1>8. /\ Len(h) = (IF loops THEN 2 ELSE 1) /\ h[1] = <<"return", Address(f)>>
      /\ loops => h[2] = cell
  <2>1. IsHeader(task, f, k + 1, h)
    BY <1>2, HeaderIs DEF h
  <2> HIDE DEF loops
  <2>2. (IF SavesBase(task, f, k + 1) THEN 2 ELSE 1) = (IF loops THEN 2 ELSE 1)
    BY <1>7
  <2> QED
    BY <1>2, <1>3, <1>7, <2>1, <2>2, Zenon DEF IsHeader
<1> HIDE DEF cell, loops
<1>9. /\ Append(m.rs, cell) \in Seq(Entries) /\ Len(Append(m.rs, cell)) = l + 1
      /\ Append(m.rs, cell)[l + 1] = cell /\ \A j \in 1..l : Append(m.rs, cell)[j] = m.rs[j]
  BY <1>5, <1>6, AppendProperties DEF l
<1>10. /\ R \in Seq(Entries) /\ Len(R) = (IF loops THEN l + 1 ELSE l)
       /\ \A j \in 1..l : R[j] = m.rs[j]
       /\ loops => R[l + 1] = cell
  <2>1. CASE loops
    BY <1>9, <2>1, Zenon
  <2>2. CASE ~loops
    BY <1>5, <2>2, Zenon DEF l
  <2> QED
    BY <2>1, <2>2, Zenon
<1>11. Apart(m) /\ m.dp \in Bottom..Limit /\ m.heap \in Heaps
  <2>1. op \notin PushOps \cup {"BUILTIN_WORD", "DECLARE_CONSTANT"}
    BY DEF PushOps, op
  <2>2. CodeOf(task)[k].op = op
    BY <1>1, Ran, Zenon
  <2>3. IsMachine(m)
    BY <1>2, <2>1, <2>2, NativePlain, Zenon
  <2> QED
    BY <2>3, Zenon DEF IsMachine, Apart
<1> HIDE DEF R
<1>12. m' = Rest(m, R, m.dp, m.heap) /\ base' = IF loops THEN l + 1 ELSE base
  <2>1. CASE loops
    <3>1. m' = [m EXCEPT !.rs = R] /\ base' = l + 1
      BY <1>1, <2>1, Zenon DEF R
    <3> QED
      BY <1>11, <2>1, <3>1, RestedOne, Zenon
  <2>2. CASE ~loops
    <3>1. m' = m /\ base' = base /\ R = m.rs
      BY <1>1, <2>2, Zenon DEF R
    <3>2. m = Rest(m, m.rs, m.dp, m.heap)
      BY <1>11 DEF Rest, Apart, Machine
    <3> QED
      BY <2>2, <3>1, <3>2, Zenon
  <2> QED
    BY <2>1, <2>2, Zenon
<1>13. m'.rs = R
  <2>1. Rests(m, Rest(m, R, m.dp, m.heap), R, m.dp, m.heap)
    BY <1>11, Rested, Zenon
  <2>2. Rest(m, R, m.dp, m.heap).rs = R
    BY <2>1, Zenon DEF Rests
  <2> QED
    BY <1>12, <2>2, Zenon
<1>14. Saves(task, k, m.rs, frames, R)
  <2>1. Len(R) >= Len(m.rs) /\ Len(R) = a + Len(h)
    <3> DEFINE n == Len(h)
               z == Len(R)
    <3>1. /\ n = (IF loops THEN 2 ELSE 1) /\ z = (IF loops THEN l + 1 ELSE l) /\ l = a + 1 /\ a \in Nat
      BY <1>2, <1>4, <1>8, <1>10, Zenon
    <3> HIDE DEF n, z
    <3>2. z >= l /\ z = a + n
      BY <3>1
    <3> QED
      BY <3>2, Zenon DEF n, z, l
  <2>2. ASSUME NEW j \in 1..Len(h)
        PROVE  R[a + j] = h[j]
    <3>1. CASE j = 1
      <4>1. a + 1 \in 1..l /\ a + j = a + 1
        BY <1>2, <1>4, <3>1
      <4> QED
        BY <1>2, <1>8, <1>10, <3>1, <4>1
    <3>2. CASE loops /\ j = 2
      <4>1. a + j = l + 1
        BY <1>2, <1>4, <3>2
      <4> QED
        BY <1>8, <1>10, <3>2, <4>1
    <3> QED
      BY <1>8, <3>1, <3>2
  <2>3. R \in ReturnStacks /\ task.backend # "vm"
    <3>1. task.backend # "vm"
      BY <1>3
    <3> QED
      BY <1>10, <3>1, Zenon DEF ReturnStacks, Entries
  <2>4. \A j \in 1..Len(m.rs) : R[j] = m.rs[j]
    BY <1>10, Zenon DEF l
  <2> QED
    BY <1>2, <2>1, <2>2, <2>3, <2>4, Zenon DEF Saves, a, f, h
<1>15. base' = BaseOf(task, f, k + 1)
  <2>1. BaseOf(task, f, k + 1) = IF loops THEN a + 2 ELSE Entered(f)
    BY <1>2, <1>3, <1>7 DEF BaseOf, BaseIn, a
  <2>2. l + 1 = a + 2
    BY <1>2, <1>4
  <2> QED
    BY <1>2, <1>12, <2>1, <2>2, Zenon
<1> QED
  BY <1>0, <1>1, <1>12, <1>13, <1>14, <1>15, LocationStep, Zenon DEF f

-----------------------------------------------------------------------------
(* The location of a word on the ESP32-S3, and the fragments that do nothing *)
(* or stop.                                                                  *)

(* What two joined sequences hold, the second's cells counted from its own first. *)
LEMMA JoinedCells ==
    ASSUME NEW S, NEW s1 \in Seq(S), NEW s2 \in Seq(S)
    PROVE  /\ s1 \o s2 \in Seq(S) /\ Len(s1 \o s2) = Len(s1) + Len(s2)
           /\ \A j \in 1..Len(s1) : (s1 \o s2)[j] = s1[j]
           /\ \A j \in (Len(s1) + 1)..(Len(s1) + Len(s2)) : (s1 \o s2)[j] = s2[j - Len(s1)]
<1> DEFINE R == s1 \o s2
           a == Len(s1)
           b == Len(s2)
<1>1. /\ R \in Seq(S) /\ Len(R) = a + b
      /\ \A j \in 1..(a + b) : R[j] = IF j <= a THEN s1[j] ELSE s2[j - a]
  BY ConcatProperties, Zenon
<1>2. a \in Nat /\ b \in Nat
  BY LenProperties
<1> HIDE DEF R, a, b
<1>3. \A j \in 1..a : R[j] = s1[j]
  BY <1>1, <1>2
<1>4. \A j \in (a + 1)..(a + b) : R[j] = s2[j - a]
  BY <1>1, <1>2
<1> QED
  BY <1>1, <1>3, <1>4, Zenon DEF R, a, b

LEMMA EspLocationStep ==
    ASSUME Inv, EspLocation
    PROVE  Inv' /\ Forth!Skip
<1> DEFINE op == "DEFINED_WORD_LOCATION"
           f == Frame
           loops == Forth!Loops(Code, k)
           calls == CallsAny(Code, k)
           b == <<"base", base>>
           r == <<"return", lr>>
           P == IF loops THEN <<b>> ELSE <<>>
           Q == IF calls THEN <<r>> ELSE <<>>
           R == m.rs \o P \o Q
           h == HeaderOf(task, f, k + 1)
           a == f.at
           l == Len(m.rs)
           x == IF loops THEN 1 ELSE 0
           y == IF calls THEN 1 ELSE 0
<1>0. op = "DEFINED_WORD_LOCATION"
  OBVIOUS
<1>1. /\ On("esp32s3") /\ Native(op) /\ Saved /\ k' = k + 1 /\ lr' = lr /\ home' = home /\ native' = native
      /\ vars' = vars /\ Stays /\ m' = [m EXCEPT !.rs = R] /\ base' = IF loops THEN l ELSE base
  BY Zenon DEF EspLocation
<1> HIDE DEF op
<1>2. /\ f = Top(frames) /\ f.word = k /\ f # FirstFrame /\ l = f.own
      /\ a \in Nat /\ f.own = a + (IF On("x86_32") THEN 1 ELSE 0)
      /\ base = Entered(f) /\ lr = Address(f) /\ ~On("vm") /\ IsLocation(task, k) /\ Reaches(k + 1)
      /\ task \in Tasks /\ backend = task.backend /\ k \in Nat
  BY <1>0, <1>1, AtLocation, Zenon
<1>3. task.backend = "esp32s3" /\ Code = CodeOf(task) /\ ~On("x86_32")
  <2>1. task.backend = "esp32s3" /\ Code = CodeOf(task)
    BY <1>1, <1>2, Here, Zenon DEF On
  <2> QED
    BY <1>2, <2>1 DEF On
<1> HIDE DEF f, h, a, l
<1>4. l = a
  BY <1>2, <1>3
<1>5. m.rs \in Seq(Entries) /\ l \in Nat
  BY HereCells, Zenon DEF l
<1>6. b \in Entries /\ r \in Entries
  <2>1. base \in Int
    BY BaseRange, Zenon
  <2>2. lr \in Int
    <3>1. f.ret \in Nat
      <4>1. FramesOK(task, k, m.rs, frames)
        BY Here, Zenon
      <4> QED
        BY <1>2, <4>1, TopFacts
    <3> QED
      BY <1>2, <3>1 DEF Address, ToC
  <2> QED
    BY <2>1, <2>2 DEF Entries
<1>7. (SavesBase(task, f, k + 1) <=> loops) /\ (SavesLr(task, f, k + 1) <=> calls)
  <2>1. k + 1 # f.word
    BY <1>2
  <2> QED
    BY <1>2, <1>3, <2>1, Zenon DEF SavesBase, SavesLr
<1>8. /\ Len(h) = x + y /\ (loops => h[1] = b) /\ (calls => h[IF loops THEN 2 ELSE 1] = r)
  <2>1. IsHeader(task, f, k + 1, h)
    BY <1>2, HeaderIs DEF h
  <2> HIDE DEF loops, calls
  <2>2. /\ (IF SavesBase(task, f, k + 1) THEN 1 ELSE 0) = x
        /\ (IF SavesLr(task, f, k + 1) THEN 1 ELSE 0) = y
        /\ (IF SavesBase(task, f, k + 1) THEN 2 ELSE 1) = (IF loops THEN 2 ELSE 1)
    BY <1>7
  <2> QED
    BY <1>2, <1>3, <1>7, <2>1, <2>2, Zenon DEF IsHeader
<1> HIDE DEF b, r, loops, calls
<1>9. /\ P \in Seq(Entries) /\ Len(P) = x /\ (loops => P[1] = b)
      /\ Q \in Seq(Entries) /\ Len(Q) = y /\ (calls => Q[1] = r)
  BY <1>6
<1> HIDE DEF P, Q
<1>10. /\ R \in Seq(Entries) /\ Len(R) = l + x + y
       /\ \A j \in 1..l : R[j] = m.rs[j]
       /\ loops => R[l + 1] = b
       /\ calls => R[l + x + 1] = r
  <2> DEFINE S == m.rs \o P
  <2>1. /\ S \in Seq(Entries) /\ Len(S) = l + x /\ \A j \in 1..l : S[j] = m.rs[j]
        /\ \A j \in (l + 1)..(l + x) : S[j] = P[j - l]
    <3>1. /\ S \in Seq(Entries) /\ Len(S) = Len(m.rs) + Len(P) /\ \A j \in 1..Len(m.rs) : S[j] = m.rs[j]
          /\ \A j \in (Len(m.rs) + 1)..(Len(m.rs) + Len(P)) : S[j] = P[j - Len(m.rs)]
      BY <1>5, <1>9, JoinedCells, Zenon
    <3> QED
      BY <1>9, <3>1, Zenon DEF l
  <2>2. loops => S[l + 1] = b
    <3>1. loops => l + 1 \in (l + 1)..(l + x) /\ (l + 1) - l = 1
      BY <1>5
    <3> QED
      BY <1>9, <2>1, <3>1
  <2> HIDE DEF S
  <2>3. /\ S \o Q \in Seq(Entries) /\ Len(S \o Q) = l + x + y
        /\ \A j \in 1..(l + x) : (S \o Q)[j] = S[j]
        /\ \A j \in (l + x + 1)..(l + x + y) : (S \o Q)[j] = Q[j - (l + x)]
    <3>1. /\ S \o Q \in Seq(Entries) /\ Len(S \o Q) = Len(S) + Len(Q) /\ \A j \in 1..Len(S) : (S \o Q)[j] = S[j]
          /\ \A j \in (Len(S) + 1)..(Len(S) + Len(Q)) : (S \o Q)[j] = Q[j - Len(S)]
      BY <1>9, <2>1, JoinedCells, Zenon
    <3> QED
      BY <1>9, <2>1, <3>1, Zenon
  <2>4. \A j \in 1..l : (S \o Q)[j] = m.rs[j]
    BY <1>5, <2>1, <2>3
  <2>5. loops => (S \o Q)[l + 1] = b
    <3>1. loops => l + 1 \in 1..(l + x)
      BY <1>5
    <3> QED
      BY <2>2, <2>3, <3>1
  <2>6. calls => (S \o Q)[l + x + 1] = r
    <3>1. calls => l + x + 1 \in (l + x + 1)..(l + x + y) /\ (l + x + 1) - (l + x) = 1
      BY <1>5
    <3> QED
      BY <1>9, <2>3, <3>1
  <2> QED
    BY <2>3, <2>4, <2>5, <2>6 DEF S
<1>11. Apart(m) /\ m.dp \in Bottom..Limit /\ m.heap \in Heaps
  <2>1. op \notin PushOps \cup {"BUILTIN_WORD", "DECLARE_CONSTANT"}
    BY DEF PushOps, op
  <2>2. CodeOf(task)[k].op = op
    BY <1>1, Ran, Zenon
  <2>3. IsMachine(m)
    BY <1>2, <2>1, <2>2, NativePlain, Zenon
  <2> QED
    BY <2>3, Zenon DEF IsMachine, Apart
<1> HIDE DEF R
<1>12. m' = Rest(m, R, m.dp, m.heap)
  BY <1>1, <1>11, RestedOne, Zenon
<1>13. m'.rs = R
  <2>1. Rests(m, Rest(m, R, m.dp, m.heap), R, m.dp, m.heap)
    BY <1>11, Rested, Zenon
  <2>2. Rest(m, R, m.dp, m.heap).rs = R
    BY <2>1, Zenon DEF Rests
  <2> QED
    BY <1>12, <2>2, Zenon
<1>14. Saves(task, k, m.rs, frames, R)
  <2>1. Len(R) >= Len(m.rs) /\ Len(R) = a + Len(h)
    <3> DEFINE n == Len(h)
               z == Len(R)
    <3>1. n = x + y /\ z = l + x + y /\ l = a /\ a \in Nat
      BY <1>2, <1>4, <1>8, <1>10, Zenon
    <3> HIDE DEF n, z
    <3>2. z >= l /\ z = a + n
      BY <3>1
    <3> QED
      BY <3>2, Zenon DEF n, z, l
  <2>2. ASSUME NEW j \in 1..Len(h)
        PROVE  R[a + j] = h[j]
    <3>1. CASE loops /\ j = 1
      <4>1. a + j = l + 1
        BY <1>4, <3>1
      <4> QED
        BY <1>8, <1>10, <3>1, <4>1
    <3>2. CASE ~loops /\ j = 1
      <4>1. a + j = l + x + 1 /\ calls
        BY <1>2, <1>4, <1>8, <3>2
      <4> QED
        BY <1>8, <1>10, <3>2, <4>1
    <3>3. CASE j = 2
      <4>1. a + j = l + x + 1 /\ calls /\ loops
        BY <1>2, <1>4, <1>8, <3>3
      <4> QED
        BY <1>8, <1>10, <3>3, <4>1
    <3> QED
      BY <1>8, <3>1, <3>2, <3>3
  <2>3. R \in ReturnStacks /\ task.backend # "vm"
    <3>1. task.backend # "vm"
      BY <1>3
    <3> QED
      BY <1>10, <3>1, Zenon DEF ReturnStacks, Entries
  <2>4. \A j \in 1..Len(m.rs) : R[j] = m.rs[j]
    BY <1>10, Zenon DEF l
  <2> QED
    BY <1>2, <2>1, <2>2, <2>3, <2>4, Zenon DEF Saves, a, f, h
<1>15. base' = BaseOf(task, f, k + 1)
  <2>1. BaseOf(task, f, k + 1) = IF loops THEN a ELSE Entered(f)
    BY <1>2, <1>3, <1>7 DEF BaseOf, BaseIn, a
  <2> QED
    BY <1>1, <1>2, <1>4, <2>1, Zenon
<1> QED
  BY <1>0, <1>1, <1>12, <1>13, <1>14, <1>15, LocationStep, Zenon DEF f

(* A fragment that the engine passes.                                      *)
LEMMA Passed ==
    ASSUME Inv, CodeOf(task)[k].op \notin PushOps \cup {"BUILTIN_WORD", "DECLARE_CONSTANT"}, k' = k + 1, m' = m
    PROVE  MachineOK(task, k', m') /\ StackOf(task, k', m') = DataStack
<1>1. /\ MachineOK(task, k, m) /\ DataStack = StackOf(task, k, m) /\ k \in Nat
  BY Here, Zenon
<1>2. CASE task.backend = "vm"
  BY <1>1, <1>2, Zenon DEF MachineOK, StackOf
<1>3. CASE task.backend # "vm"
  <2>1. ~On("vm")
    BY <1>3, Here, Zenon DEF On
  <2>2. IsMachine(m) /\ m.scratch = Junk /\ DataStack = InRegisters(m)
    BY <2>1, NativePlain, Zenon
  <2>3. FlagsIn(task, k' - 1) = {}
    <3>1. k' - 1 = k
      BY <1>1
    <3> QED
      BY <3>1, PlainOps, Zenon
  <2> QED
    BY <2>1, <2>2, <2>3, NativeNext, Zenon
<1> QED
  BY <1>2, <1>3

LEMMA Skipping ==
    ASSUME Inv, status = "running", NEW op \in {"BRANCH_LOCATION", "DEFINED_WORD_LOCATION", "ENTRY"}, Fragment.op = op
    PROVE  /\ Forth!Runs(op) /\ CodeOf(task)[k].op = op /\ op \notin PushOps \cup {"BUILTIN_WORD", "DECLARE_CONSTANT"}
           /\ k + 1 \in DOMAIN CodeOf(task) /\ WordAt(task, k + 1) = WordAt(task, k) /\ ~IsLocation(task, k + 1)
           /\ k + 1 # 1 /\ (op = "ENTRY" <=> k = 1)
<1>1. task \in Tasks /\ k \in DOMAIN CodeOf(task) /\ Fragment = CodeOf(task)[k]
  BY Here, Zenon
<1>2. op \notin PushOps \cup {"BUILTIN_WORD", "RUNTIME_WORD", "BRANCH_IF_ZERO", "DECLARE_CONSTANT", "EXECUTE",
                              "DEFINED_WORD", "DO", "DECLARE_VARIABLE"}
      /\ op \notin {"BUILTIN_WORD", "LOOP", "EXECUTE", "EXIT_WORD", "HALT"}
      /\ op \notin PushOps \cup {"BUILTIN_WORD", "DECLARE_CONSTANT"}
      /\ op \notin {"BRANCH", "EXIT_WORD", "HALT"}
  BY DEF PushOps
<1>3. Forth!EnoughFor(Fragment) /\ Forth!DefinedFor(Fragment)
  BY <1>2, EnoughBy, DefinedBy, Zenon
<1>4. Forth!Runs(op)
  BY <1>3, ForthView, Zenon DEF Forth!Runs
<1>5. k + 1 \in DOMAIN CodeOf(task) /\ WordAt(task, k + 1) = WordAt(task, k) /\ ~IsLocation(task, k + 1) /\ k + 1 # 1
  BY <1>1, <1>2, NextPlace
<1>6. CodeOf(task)[k].op = "ENTRY" <=> k = 1
  BY <1>1, TaskShape, Zenon
<1> QED
  BY <1>1, <1>2, <1>4, <1>5, <1>6, Zenon

LEMMA SkipStep ==
    ASSUME Inv, Skip
    PROVE  Inv' /\ Forth!Skip
<1>1. /\ k' = k + 1 /\ m' = m /\ vars' = vars /\ InWord /\ Stays /\ status = "running"
      /\ \/ Fragment.op = "BRANCH_LOCATION"
         \/ On("vm") /\ Fragment.op = "DEFINED_WORD_LOCATION"
  BY Zenon DEF Skip
<1>2. ASSUME NEW op, op \in {"BRANCH_LOCATION", "DEFINED_WORD_LOCATION"}, Fragment.op = op,
             op = "BRANCH_LOCATION" \/ On("vm")
      PROVE  Inv' /\ Forth!Skip
  <2>1. op \in {"BRANCH_LOCATION", "DEFINED_WORD_LOCATION", "ENTRY"} /\ op # "ENTRY"
        /\ (op = "BRANCH_LOCATION" => op # "DEFINED_WORD_LOCATION")
    BY <1>2
  <2>2. /\ Forth!Runs(op) /\ CodeOf(task)[k].op = op /\ op \notin PushOps \cup {"BUILTIN_WORD", "DECLARE_CONSTANT"}
        /\ k' \in DOMAIN CodeOf(task) /\ WordAt(task, k') = WordAt(task, k) /\ ~IsLocation(task, k')
        /\ k' # 1 /\ k # 1
    BY <1>1, <1>2, <2>1, Skipping, Zenon
  <2>3. MachineOK(task, k', m') /\ StackOf(task, k', m') = DataStack
    BY <1>1, <2>2, Passed, Zenon
  <2>4. task.backend = "vm" \/ ~IsLocation(task, k)
    BY <1>2, <2>1, <2>2, Here, Zenon DEF On, IsLocation
  <2>5. Keeps(frames, m.rs, m'.rs) /\ VarsOK'
    BY <1>1, KeepsAll, Here, Zenon DEF VarsOK
  <2>6. Inv' /\ Calls' = OwnAs(Calls, Returns(m'.rs, Frame.own))
    BY <1>1, <2>2, <2>3, <2>4, <2>5, StraightStep, Zenon DEF InWord, Within
  <2>7. Calls' = Calls
    <3>1. Calls' = Forth!Own(OwnRs)
      BY <1>1, <2>6, Zenon DEF Forth!Own, OwnAs, OwnRs
    <3> QED
      BY <3>1, OwnSame, Zenon
  <2>8. DataStack' = DataStack
    <3>1. k' \in Nat /\ task' = task
      <4>1. k \in Nat /\ task' = task
        BY <1>1, Here, Zenon DEF Stays
      <4> QED
        BY <1>1, <4>1
    <3> QED
      BY <2>3, <3>1, ViewsNext, Zenon
  <2>9. Forth!Stays /\ m'.dp = m.dp /\ m'.heap = m.heap
    BY <1>1, Zenon DEF Stays, Forth!Stays, program
  <2> QED
    BY <1>1, <2>1, <2>2, <2>6, <2>7, <2>8, <2>9, Zenon DEF Forth!Skip
<1>3. CASE Fragment.op = "BRANCH_LOCATION"
  <2> DEFINE op == "BRANCH_LOCATION"
  <2>1. op \in {"BRANCH_LOCATION", "DEFINED_WORD_LOCATION"} /\ op = "BRANCH_LOCATION" /\ Fragment.op = op
    BY <1>3
  <2> QED
    BY <1>2, <2>1, Zenon
<1>4. CASE On("vm") /\ Fragment.op = "DEFINED_WORD_LOCATION"
  <2> DEFINE op == "DEFINED_WORD_LOCATION"
  <2>1. op \in {"BRANCH_LOCATION", "DEFINED_WORD_LOCATION"} /\ Fragment.op = op
    BY <1>4
  <2> QED
    BY <1>2, <1>4, <2>1, Zenon
<1> QED
  BY <1>1, <1>3, <1>4, Zenon

LEMMA EntryStep ==
    ASSUME Inv, Entry
    PROVE  Inv' /\ Forth!Skip
<1> DEFINE op == "ENTRY"
           q == k'
<1>1. /\ status = "running" /\ Fragment.op = op /\ home' = (IF On("esp32s3") THEN lr ELSE home) /\ k' = k + 1
      /\ m' = m /\ base' = base /\ lr' = lr /\ native' = native /\ vars' = vars /\ frames' = frames /\ Stays
  BY Zenon DEF Entry
<1>2. op \in {"BRANCH_LOCATION", "DEFINED_WORD_LOCATION", "ENTRY"} /\ op = "ENTRY" /\ op # "DEFINED_WORD_LOCATION"
  OBVIOUS
<1> HIDE DEF op
<1>3. /\ Forth!Runs(op) /\ CodeOf(task)[k].op = op /\ op \notin PushOps \cup {"BUILTIN_WORD", "DECLARE_CONSTANT"}
      /\ q \in DOMAIN CodeOf(task) /\ WordAt(task, q) = WordAt(task, k) /\ ~IsLocation(task, q)
      /\ q # 1 /\ k = 1
  BY <1>1, <1>2, Skipping, Zenon
<1>4. MachineOK(task, k', m') /\ StackOf(task, k', m') = DataStack
  BY <1>1, <1>3, Passed, Zenon
<1>5. /\ task \in Tasks /\ FramesOK(task, k, m.rs, frames)
      /\ base = BaseOf(task, Top(frames), k) /\ NativeOK(frames, native)
      /\ LinkOK(task, k, lr, home, frames) /\ status \in {"running", "done", "failed"} /\ VarsOK
      /\ backend = task.backend
  BY Here, Zenon
<1>6. Keeps(frames, m.rs, m.rs)
  BY KeepsAll, Zenon
<1>7. ~IsLocation(task, k)
  BY <1>2, <1>3, Zenon DEF IsLocation
<1>8. task' = task /\ status' = status
  BY <1>1, Zenon DEF Stays
<1> DEFINE R == m.rs
<1>20. Keeps(frames, R, R) /\ FramesOK(task, k, R, frames)
  BY <1>5, <1>6
<1> HIDE DEF q, R
<1>9. FramesOK(task, q, R, frames) /\ BaseOf(task, Top(frames), q) = BaseOf(task, Top(frames), k)
  BY <1>3, <1>5, <1>7, <1>20, Straight
<1>10. LinkOK(task, q, lr, home', frames)
  <2>1. task.backend = "esp32s3" => home' = Host /\ Len(frames) = 1
    BY <1>1, <1>3, <1>5, Zenon DEF LinkOK, On
  <2>2. Len(frames) = 1 => ~(Len(frames) > 1)
    OBVIOUS
  <2> QED
    BY <1>3, <2>1, <2>2, Zenon DEF LinkOK
<1>11. FramesInv'
  BY <1>1, <1>5, <1>8, <1>9, <1>10, Zenon DEF FramesInv, q, R
<1>12. VarsOK' /\ MachineOK(task, k, m)'
  BY <1>1, <1>4, <1>5, <1>8, Zenon DEF VarsOK
<1>13. Calls' = Calls
  BY <1>1, CallsView, Zenon
<1>14. DataStack' = DataStack
  <2>1. k' \in Nat
    BY <1>1, <1>3
  <2> QED
    BY <1>4, <1>8, <2>1, ViewsNext, Zenon
<1>15. Forth!Stays /\ m'.dp = m.dp /\ m'.heap = m.heap
  BY <1>1, Zenon DEF Stays, Forth!Stays, program
<1> QED
  BY <1>1, <1>2, <1>3, <1>11, <1>12, <1>13, <1>14, <1>15, Zenon DEF Inv, Forth!Skip

(* Only the status changes.                                                *)
LEMMA StatusOnly ==
    ASSUME Inv, status' \in {"running", "done", "failed"},
           UNCHANGED <<task, k, m, base, lr, home, native, vars, frames>>
    PROVE  Inv' /\ Calls' = Calls /\ DataStack' = DataStack /\ program' = program
<1>1. /\ task' = task /\ k' = k /\ m' = m /\ base' = base /\ lr' = lr /\ home' = home /\ native' = native
      /\ vars' = vars /\ frames' = frames
  OBVIOUS
<1>2. FramesInv' /\ VarsOK' /\ MachineOK(task, k, m)'
  BY <1>1, Zenon DEF Inv, FramesInv, VarsOK
<1>3. Calls' = Calls
  BY <1>1, CallsView, Zenon
<1>4. DataStack' = DataStack
  <2>1. k \in Nat /\ DataStack = StackOf(task, k, m)
    BY Here, Zenon
  <2>2. k' \in Nat
    BY <1>1, <2>1, Zenon
  <2>3. DataStack' = StackOf(task', k', m')
    BY <2>2, ViewsNext, Zenon
  <2> QED
    BY <1>1, <2>1, <2>3, Zenon
<1> QED
  BY <1>1, <1>2, <1>3, <1>4, Zenon DEF Inv, program

LEMMA HaltStep ==
    ASSUME Inv, Halt
    PROVE  Inv' /\ Forth!Halt
<1> DEFINE op == "HALT"
<1>1. /\ Vm(op) \/ Native(op)
      /\ status' = IF On("esp32s3") /\ home # Host THEN "lost" ELSE "done"
      /\ UNCHANGED <<task, k, m, base, lr, home, native, vars, frames>>
  BY Zenon DEF Halt
<1>2. Forth!Runs(op) /\ k # 1
  <2>1. op # "ENTRY"
    OBVIOUS
  <2> QED
    BY <1>1, <2>1, Ran, Zenon
<1>3. status' = "done"
  <2>1. LinkOK(task, k, lr, home, frames) /\ backend = task.backend
    BY Here, Zenon
  <2>2. On("esp32s3") => home = Host
    BY <1>2, <2>1, Zenon DEF LinkOK, On
  <2> QED
    BY <1>1, <2>2, Zenon
<1>4. status' \in {"running", "done", "failed"}
  BY <1>3
<1>5. Inv' /\ Calls' = Calls /\ DataStack' = DataStack /\ program' = program
  BY <1>1, <1>4, StatusOnly, Zenon
<1>6. k' = k /\ vars' = vars /\ m'.dp = m.dp /\ m'.heap = m.heap
  BY <1>1
<1> QED
  BY <1>2, <1>3, <1>5, <1>6, Zenon DEF Forth!Halt

LEMMA VmFailStep ==
    ASSUME Inv, VmFail
    PROVE  Inv' /\ Forth!Fail
<1>1. /\ On("vm") /\ status = "running" /\ ~VmChecks(Fragment) /\ status' = "failed"
      /\ UNCHANGED <<task, k, m, base, lr, home, native, vars, frames>>
  BY Zenon DEF VmFail
<1>2. ~Forth!EnoughFor(Forth!Fragment)
  BY <1>1, VmChecked, ForthView, Zenon
<1>4. status' \in {"running", "done", "failed"}
  BY <1>1
<1>5. Inv' /\ Calls' = Calls /\ DataStack' = DataStack /\ program' = program
  BY <1>1, <1>4, StatusOnly, Zenon
<1>6. k' = k /\ vars' = vars /\ m'.dp = m.dp /\ m'.heap = m.heap
  BY <1>1
<1> QED
  BY <1>1, <1>2, <1>5, <1>6, Zenon DEF Forth!Fail

-----------------------------------------------------------------------------
(* A built-in word in machine code, between its neighbours.                  *)

(* The chores at fragment k, by the flags of its neighbours.               *)
Between(up, above, fl, down) ==
    /\ NeedsAt(k) = NeededChores(fl, up, down)
    /\ \A x : /\ StackReady(task, k, x) = Ready(up, above, fl, x)
              /\ StackWhole(task, k, x) = Restored(up, above, fl, x)
              /\ StackReady(task, k + 1, x) = Ready(fl, up, down, x)
              /\ StackWhole(task, k + 1, x) = Restored(fl, up, down, x)
              /\ StackOf(task, k + 1, x) = InRegisters(Restored(fl, up, down, x))

LEMMA Neighbours ==
    ASSUME Inv, ~On("vm")
    PROVE  Between(FlagsIn(task, k - 1), FlagsIn(task, k - 2), FlagsIn(task, k), FlagsIn(task, k + 1))
<1>1. k \in Nat /\ task.backend # "vm"
  BY Here, NativeHere, Zenon
<1>2. (k + 1) - 1 = k /\ (k + 1) - 2 = k - 1
  BY <1>1
<1>3. /\ FlagsAt(k) = FlagsIn(task, k) /\ FlagsAt(k - 1) = FlagsIn(task, k - 1)
      /\ FlagsAt(k + 1) = FlagsIn(task, k + 1)
  BY Zenon DEF FlagsAt, FlagsIn, Code, CodeOf, program, backend
<1>4. NeedsAt(k) = NeededChores(FlagsIn(task, k), FlagsIn(task, k - 1), FlagsIn(task, k + 1))
  BY <1>3, Zenon DEF NeedsAt
<1>5. ASSUME NEW x
      PROVE  /\ StackReady(task, k, x) = Ready(FlagsIn(task, k - 1), FlagsIn(task, k - 2), FlagsIn(task, k), x)
             /\ StackWhole(task, k, x) = Restored(FlagsIn(task, k - 1), FlagsIn(task, k - 2), FlagsIn(task, k), x)
  BY Zenon DEF StackReady, StackWhole
<1>6. ASSUME NEW x
      PROVE  /\ StackReady(task, k + 1, x) = Ready(FlagsIn(task, k), FlagsIn(task, k - 1), FlagsIn(task, k + 1), x)
             /\ StackWhole(task, k + 1, x) = Restored(FlagsIn(task, k), FlagsIn(task, k - 1), FlagsIn(task, k + 1), x)
             /\ StackOf(task, k + 1, x) = InRegisters(StackWhole(task, k + 1, x))
  BY <1>1, <1>2, Zenon DEF StackReady, StackWhole, StackOf
<1> QED
  BY <1>4, <1>5, <1>6, Zenon DEF Between

(* A builtin word in machine code.                                         *)
LEMMA NativeBuiltinStep ==
    ASSUME Inv, Native("BUILTIN_WORD"), m' = Dumped, k' = k + 1, vars' = vars, InWord, Stays
    PROVE  Inv' /\ Forth!Builtin
<1> DEFINE op == "BUILTIN_WORD"
           w == Fragment.p
           b == backend
           own == Frame.own
           r == Frame.below
           up == FlagsIn(task, k - 1)
           above == FlagsIn(task, k - 2)
           fl == ListedFlags(b, w)
           down == FlagsIn(task, k + 1)
           W == Restored(up, above, fl, m)
           n == NeededChores(fl, up, down)
           y == [Closing(n, Execute(b, w, BodyOf(b, w), Opening(n, m))) EXCEPT !.scratch = Junk]
           W2 == Restored(fl, up, down, y)
<1>0. op \notin {"BRANCH", "EXIT_WORD", "HALT"} /\ op \notin {"ENTRY", "DEFINED_WORD_LOCATION"} /\ Native(op)
  OBVIOUS
<1>1. /\ Fragment.op = op /\ Forth!Runs(op) /\ Reaches(k + 1) /\ ~On("vm")
      /\ Forth!EnoughFor(Fragment) /\ Forth!DefinedFor(Fragment) /\ Forth!Carries(task.program, Fragment)
  BY <1>0, Ran, Zenon
<1>2. w \in Words
  <2>1. w \in Forth!Words
    BY <1>1, Zenon DEF Forth!Carries
  <2> QED
    BY <2>1, SameWords, Zenon
<1>3. /\ task.backend = b /\ b \in {"x86_32", "esp32s3"} /\ k \in DOMAIN CodeOf(task)
      /\ Fragment = CodeOf(task)[k] /\ k \in Nat
  BY <1>1, Here, NativeHere, Zenon
<1>4. FlagsIn(task, k) = fl /\ FlagsOf(b, Fragment) = fl
  BY <1>1, <1>3, FlagsByOp, Zenon DEF FlagsIn
<1>5. y = Dumped
  <2>1. NeedsAt(k) = n
    BY <1>1, <1>4, Neighbours, Zenon DEF Between
  <2>2. \A x : Body(x) = Execute(b, w, BodyOf(b, w), x)
    BY <1>1, <1>4, Zenon DEF Body, BodyOf
  <2> QED
    BY <2>1, <2>2, Zenon DEF Dumped
<1>6. Between(up, above, fl, down)
  BY <1>1, <1>4, Neighbours, Zenon
<1>7. /\ IsMachine(W) /\ W.rs = m.rs /\ W.dp = m.dp /\ W.heap = m.heap /\ DataStack = InRegisters(W)
      /\ Ready(up, above, fl, m)
  <2>1. StackWhole(task, k, m) = W /\ StackReady(task, k, m) = Ready(up, above, fl, m)
    BY <1>6, Zenon DEF Between
  <2>2. LET V == StackWhole(task, k, m)
        IN  StackReady(task, k, m) /\ IsMachine(V) /\ DataStack = InRegisters(V)
            /\ V.rs = m.rs /\ V.dp = m.dp /\ V.heap = m.heap
    BY <1>1, NativeHere, Zenon
  <2> QED
    BY <2>1, <2>2, Zenon
<1>8. WellFormed(up) /\ WellFormed(down)
  BY FlagsFine, Zenon
<1> HIDE DEF up, above, fl, down, W, op, own, r, y, n, W2
<1>9. StateOf(W, own) = Seen
  BY <1>7, Zenon DEF StateOf, Seen, OwnRs, own
<1>10. Fit(w, W, own, r) /\ r + Len(Returns(m.rs, own)) <= MaxCells
  <2>1. Enough(w, Seen, r) /\ Defined(w, Seen)
    BY <1>1, EnoughBy, DefinedBy, Zenon DEF op, r
  <2>2. OwnCells(m.rs, own) /\ r \in Nat /\ r + Len(Returns(m.rs, own)) <= MaxCells
    BY HereCells, Zenon DEF own, r, OwnRs
  <2> QED
    BY <1>7, <1>9, <2>1, <2>2, Zenon DEF Fit
<1>11. /\ Ready(fl, up, down, y) /\ y.scratch = Junk /\ Does(w, W, own, W2)
       /\ r + Len(Returns(y.rs, own)) <= MaxCells
  <2> HIDE DEF b, w
  <2>1. Asked(b, w, up, above, down, m, own, r)
    BY <1>7, <1>8, <1>10, Zenon DEF Asked, fl, W
  <2>2. Answered(b, w, up, above, down, m, own, r, Junk, Answer(b, w, up, down, m, Junk))
    BY <1>2, <1>3, <2>1, WordStep
  <2>3. Answer(b, w, up, down, m, Junk) = y
    BY Zenon DEF Answer, fl, n, y
  <2> QED
    BY <2>2, <2>3, Zenon DEF Answered, fl, W, W2
<1>12. W2.rs = y.rs /\ W2.dp = y.dp /\ W2.heap = y.heap
  <2>1. Ready(fl, up, down, y)
    BY <1>11, Zenon
  <2> QED
    BY <2>1, RestoredSame DEF W2
<1> DEFINE t == StateOf(W2, own)
<1>13. /\ y.rs \in Seq(Entries) /\ OwnCells(y.rs, own) /\ \A j \in 1..own : y.rs[j] = m.rs[j]
       /\ t \in Outcomes(w, Seen)
  BY <1>7, <1>9, <1>11, <1>12, Zenon DEF Does
<1>14. t.ds = InRegisters(W2) /\ t.rs = Returns(y.rs, own) /\ t.dp = y.dp /\ t.heap = y.heap
  BY <1>12 DEF StateOf
<1> HIDE DEF t
<1>15. Leaves(y.rs, t.rs)
  <2>1. Leaves(y.rs, Returns(y.rs, own))
    <3> DEFINE R == y.rs
    <3>1. /\ R \in Seq(Entries) /\ OwnCells(R, own) /\ \A j \in 1..own : R[j] = m.rs[j]
          /\ r + Len(Returns(R, own)) <= MaxCells
      BY <1>11, <1>13, Zenon
    <3> HIDE DEF R
    <3>2. Leaves(R, Returns(R, own))
      BY <3>1, Zenon DEF Leaves, own, r
    <3> QED
      BY <3>2, Zenon DEF R
  <2> QED
    BY <1>14, <2>1, Zenon
<1>16. m' = y /\ Reaches(k') /\ VarsOK'
  <2>1. m' = y
    BY <1>5, Zenon
  <2>2. Reaches(k')
    BY <1>1, Zenon
  <2>3. VarsOK'
    BY Here, Zenon DEF VarsOK
  <2> QED
    BY <2>1, <2>2, <2>3, Zenon
<1>17. MachineOK(task, k', m') /\ StackOf(task, k', m') = t.ds
  BY <1>1, <1>3, <1>6, <1>11, <1>14, <1>16, Zenon DEF MachineOK, Between, W2, On, backend
<1>18. Inv' /\ Calls' = Forth!Own(t.rs) /\ DataStack' = t.ds /\ Forth!Stays
  <2>1. Leaves(m'.rs, t.rs)
    BY <1>15, <1>16, Zenon
  <2> QED
    BY <1>0, <1>1, <1>16, <1>17, <2>1, SteppedTo, Zenon DEF op
<1>19. t \in Forth!Outcomes(Forth!Fragment.p, Forth!State)
  <2>1. Forth!Fragment = Fragment /\ Forth!State = Seen
    BY ForthView, Zenon
  <2> QED
    BY <1>13, <2>1, SameOutcomes, Zenon
<1>20. m'.dp = t.dp /\ m'.heap = t.heap
  BY <1>14, <1>16, Zenon
<1> QED
  BY <1>1, <1>18, <1>19, <1>20, Zenon DEF Forth!Builtin, op

-----------------------------------------------------------------------------
(* Pushing in machine code, between neighbours.                              *)

(* What Dumped is where a fragment pushes a value, and where one drops it. *)
LEMMA DumpedIs ==
    ASSUME Inv, ~On("vm"), NEW op, Fragment.op = op
    PROVE  LET fl == FlagsIn(task, k)
               up == FlagsIn(task, k - 1)
               down == FlagsIn(task, k + 1)
           IN  /\ op \in PushOps => fl = {"A", "B", "CLOB"} /\ Dumped = PushAnswer(fl, up, down, m, PushedValue, Junk)
               /\ op = "DECLARE_CONSTANT" => fl = {"Y", "Z"} /\ Dumped = DropAnswer(fl, up, down, m, Junk)
<1> DEFINE fl == FlagsIn(task, k)
           up == FlagsIn(task, k - 1)
           down == FlagsIn(task, k + 1)
<1>1. NeedsAt(k) = NeededChores(fl, up, down)
  BY Neighbours, Zenon DEF Between
<1>2. k \in DOMAIN CodeOf(task) /\ Fragment = CodeOf(task)[k] /\ backend = task.backend
  BY Here, Zenon
<1>3. fl = FlagsOf(backend, Fragment)
  BY <1>2, Zenon DEF FlagsIn
<1>4. ASSUME op \in PushOps
      PROVE  fl = {"A", "B", "CLOB"} /\ Dumped = PushAnswer(fl, up, down, m, PushedValue, Junk)
  <2>1. op # "BUILTIN_WORD"
    BY <1>4 DEF PushOps
  <2>2. fl = {"A", "B", "CLOB"}
    BY <1>3, <1>4, FlagsByOp, Zenon
  <2>3. \A x : Body(x) = [x EXCEPT !.top = PushedValue]
    BY <1>3, <2>1, <2>2, Zenon DEF Body
  <2> QED
    BY <1>1, <2>2, <2>3, Zenon DEF Dumped, PushAnswer
<1>5. ASSUME op = "DECLARE_CONSTANT"
      PROVE  fl = {"Y", "Z"} /\ Dumped = DropAnswer(fl, up, down, m, Junk)
  <2>1. op # "BUILTIN_WORD" /\ {"Y", "Z"} # {"A", "B", "CLOB"}
    <3>1. "Y" \in {"Y", "Z"} /\ "Y" \notin {"A", "B", "CLOB"}
      OBVIOUS
    <3>2. {"Y", "Z"} # {"A", "B", "CLOB"}
      BY <3>1, Zenon
    <3> QED
      BY <1>5, <3>2
  <2>2. fl = {"Y", "Z"}
    <3>1. Fragment.op = "DECLARE_CONSTANT"
      BY <1>5, Zenon
    <3>2. FlagsOf(backend, Fragment) = {"Y", "Z"}
      BY <3>1, FlagsByOp, Zenon
    <3> QED
      BY <1>3, <3>2, Zenon
  <2>3. \A x : Body(x) = x
    <3> DEFINE S == {"A", "B", "CLOB"}
               T == {"Y", "Z"}
    <3>1. FlagsOf(backend, Fragment) = T /\ T # S /\ Fragment.op # "BUILTIN_WORD"
      BY <1>3, <2>1, <2>2
    <3>2. \A x : Body(x) = IF Fragment.op = "BUILTIN_WORD"
                  THEN Execute(backend, Fragment.p, Reduced(Listing(backend, Fragment.p), FlagsOf(backend, Fragment)), x)
                  ELSE IF FlagsOf(backend, Fragment) = S THEN [x EXCEPT !.top = PushedValue] ELSE x
      BY Zenon DEF Body
    <3> HIDE DEF S, T
    <3>3. FlagsOf(backend, Fragment) # S
      BY <3>1, Zenon
    <3> QED
      BY <3>1, <3>2, <3>3, Zenon
  <2> QED
    BY <1>1, <2>2, <2>3, Zenon DEF Dumped, DropAnswer
<1> QED
  BY <1>4, <1>5, Zenon

(* A step of machine code to stack q, past a fragment that leaves the      *)
(* return stack and the memory alone.                                      *)
LEMMA NativeRestacked ==
    ASSUME Inv, NEW op, Native(op), op \notin {"ENTRY", "DEFINED_WORD_LOCATION"}, InWord, Stays, k' = k + 1,
           Reaches(k + 1), VarsOK', NEW q,
           Stacks(FlagsIn(task, k), FlagsIn(task, k - 1), FlagsIn(task, k + 1), m, q, Junk, m')
    PROVE  Inv' /\ Calls' = Calls /\ DataStack' = q /\ Forth!Stays /\ m'.dp = m.dp /\ m'.heap = m.heap
<1> DEFINE fl == FlagsIn(task, k)
           up == FlagsIn(task, k - 1)
           above == FlagsIn(task, k - 2)
           down == FlagsIn(task, k + 1)
           y == m'
<1>1. ~On("vm") /\ task.backend # "vm"
  <2>1. ~On("vm")
    BY Ran, Zenon
  <2> QED
    BY <2>1, NativeHere, Zenon
<1>2. Between(up, above, fl, down)
  BY <1>1, Neighbours, Zenon
<1>3. /\ Ready(fl, up, down, y) /\ y.scratch = Junk /\ y.rs = m.rs /\ y.dp = m.dp /\ y.heap = m.heap
      /\ InRegisters(Restored(fl, up, down, y)) = q
  BY Zenon DEF Stacks
<1> HIDE DEF fl, up, above, down, y
<1>4. MachineOK(task, k + 1, y) /\ StackOf(task, k + 1, y) = q
  BY <1>1, <1>2, <1>3, Zenon DEF MachineOK, Between
<1>5. MachineOK(task, k', m') /\ StackOf(task, k', m') = q /\ Reaches(k') /\ m'.dp = m.dp /\ m'.heap = m.heap
  BY <1>3, <1>4, Zenon DEF y
<1>6. Leaves(m'.rs, OwnRs)
  <2>1. m'.rs = m.rs
    BY <1>3, Zenon DEF y
  <2> QED
    BY <2>1, LeavesSame, Zenon
<1>7. Inv' /\ Calls' = Forth!Own(OwnRs) /\ DataStack' = q /\ Forth!Stays
  BY <1>5, <1>6, SteppedTo, Zenon
<1> QED
  BY <1>5, <1>7, OwnSame, Zenon

LEMMA NativePushStep ==
    ASSUME Inv, NEW op \in PushOps, Native(op), m' = Dumped, k' = k + 1, InWord, Stays, VarsOK'
    PROVE  Inv' /\ (vars' = vars => Forth!Push)
<1> DEFINE fl == FlagsIn(task, k)
           up == FlagsIn(task, k - 1)
           above == FlagsIn(task, k - 2)
           down == FlagsIn(task, k + 1)
           W == Restored(up, above, fl, m)
           v == PushedValue
           q == Append(DataStack, PushedValue)
<1>1. op \notin {"BRANCH", "EXIT_WORD", "HALT"} /\ op \notin {"ENTRY", "DEFINED_WORD_LOCATION"}
  BY DEF PushOps
<1>2. Fragment.op = op /\ Forth!Runs(op) /\ Reaches(k + 1) /\ ~On("vm")
  BY <1>1, Ran, Zenon
<1>3. /\ PushedValue \in Cell
      /\ op # "USE_VARIABLE_OR_CONSTANT" => PushedValue = Fragment.p
      /\ op = "USE_VARIABLE_OR_CONSTANT" => PushedValue = vars[Fragment.p]
      /\ Len(DataStack) + 1 <= MaxCells
  BY PushedIs, Zenon
<1>4. fl = {"A", "B", "CLOB"} /\ Dumped = PushAnswer(fl, up, down, m, v, Junk)
  BY <1>2, DumpedIs, Zenon
<1>5. WellFormed(up) /\ WellFormed(down)
  BY FlagsFine, Zenon
<1>6. Ready(up, above, fl, m) /\ DataStack = InRegisters(W) /\ Len(DataStack) = W.depth + 1 /\ IsMachine(W)
  <2>1. StackWhole(task, k, m) = W /\ StackReady(task, k, m) = Ready(up, above, fl, m)
    BY <1>2, Neighbours, Zenon DEF Between
  <2>2. LET V == StackWhole(task, k, m)
        IN  StackReady(task, k, m) /\ DataStack = InRegisters(V) /\ Len(DataStack) = V.depth + 1 /\ IsMachine(V)
    BY <1>2, NativeHere, Zenon
  <2> QED
    BY <2>1, <2>2, Zenon
<1>7. W.depth < MaxCells - 1
  <2> DEFINE d == W.depth
             l == Len(DataStack)
  <2>1. d \in -1..(MaxCells - 1) /\ l = d + 1 /\ l + 1 <= MaxCells /\ MaxCells \in Int
    BY <1>3, <1>6, HereCells, Zenon DEF IsMachine
  <2> HIDE DEF d, l
  <2>2. d < MaxCells - 1
    BY <2>1
  <2> QED
    BY <2>2 DEF d
<1> HIDE DEF up, above, fl, down, v, q
<1>8. Stacks(fl, up, down, m, q, Junk, m')
  <2>1. v \in Cell
    BY <1>3, Zenon DEF v
  <2>2. Stacks(fl, up, down, m, Append(InRegisters(Restored(up, above, fl, m)), v), Junk,
               PushAnswer(fl, up, down, m, v, Junk))
    BY <1>4, <1>5, <1>6, <1>7, <2>1, PushStep
  <2> QED
    BY <1>4, <1>6, <2>2, Zenon DEF q, v
<1>9. Inv' /\ Calls' = Calls /\ DataStack' = q /\ Forth!Stays /\ m'.dp = m.dp /\ m'.heap = m.heap
  BY <1>1, <1>2, <1>8, NativeRestacked, Zenon DEF fl, up, down
<1>10. Forth!Fragment = Fragment
  BY ForthView, Zenon
<1>11. \/ op \in {"PUSH_LITERAL", "PUSH_DATA_ADDRESS", "PUSH_OFFSET_ADDRESS", "PUSH_CALLBACK"} /\ op # "USE_VARIABLE_OR_CONSTANT"
       \/ op = "USE_VARIABLE_OR_CONSTANT"
  BY DEF PushOps
<1>12. \/ \E o \in {"PUSH_LITERAL", "PUSH_DATA_ADDRESS", "PUSH_OFFSET_ADDRESS", "PUSH_CALLBACK"} :
              Forth!Runs(o) /\ DataStack' = Append(DataStack, Forth!Fragment.p)
       \/ Forth!Runs("USE_VARIABLE_OR_CONSTANT") /\ DataStack' = Append(DataStack, vars[Forth!Fragment.p])
  BY <1>2, <1>3, <1>9, <1>10, <1>11, Zenon DEF q
<1> QED
  BY <1>9, <1>12, Zenon DEF Forth!Push

LEMMA NativeStraightStep ==
    ASSUME Inv, NativeStraight
    PROVE  Inv' /\ (vars' = vars => Forth!Builtin \/ Forth!Push)
<1>1. /\ m' = Dumped /\ k' = k + 1 /\ InWord /\ Stays
      /\ Native("BUILTIN_WORD") \/ \E op \in PushOps : Native(op)
      /\ \/ vars' = vars
         \/ Fragment.op = "PUSH_CALLBACK" /\ vars' = [vars EXCEPT ![Fragment.p] = PushedValue]
  BY Zenon DEF NativeStraight, Pushing, PushOps, StoreStays, Fragment
<1>2. CASE Native("BUILTIN_WORD")
  <2>1. vars' = vars
    <3>1. Fragment.op = "BUILTIN_WORD"
      BY <1>2, Ran, Zenon
    <3>2. Fragment.op # "PUSH_CALLBACK"
      BY <3>1
    <3> QED
      BY <1>1, <3>2, Zenon
  <2> QED
    BY <1>1, <1>2, <2>1, NativeBuiltinStep, Zenon
<1>3. CASE \E op \in PushOps : Native(op)
  <2>1. PICK op \in PushOps : Native(op)
    BY <1>3
  <2>2. VarsOK'
    <3>1. PushedValue \in Cell
      BY <2>1, PushedIs, Zenon
    <3>2. CASE vars' = vars
      BY <3>2, Here, Zenon DEF VarsOK
    <3>3. CASE vars' = [vars EXCEPT ![Fragment.p] = PushedValue]
      BY <3>1, <3>3, VarSet, Zenon
    <3> QED
      BY <1>1, <3>2, <3>3, Zenon
  <2> QED
    BY <1>1, <2>1, <2>2, NativePushStep, Zenon
<1> QED
  BY <1>1, <1>2, <1>3, Zenon

-----------------------------------------------------------------------------
(* Declarations and branches in machine code.                                *)

(* The fragments that have chores.                                           *)
NoChores == PushOps \cup {"BUILTIN_WORD", "DECLARE_CONSTANT"}

(* A step of machine code within a word, at a fragment without chores.     *)
LEMMA NativeSteppedBy ==
    ASSUME Inv, NEW op, Native(op), op \notin {"ENTRY", "DEFINED_WORD_LOCATION"}, op \notin NoChores,
           Within, Stays, Reaches(k'), k' = k + 1 \/ (op \in {"BRANCH", "BRANCH_IF_ZERO", "LOOP"} /\ k' = Fragment.p),
           IsMachine(m'), m'.scratch = Junk, NEW r, Leaves(m'.rs, r), VarsOK'
    PROVE  Inv' /\ Calls' = Forth!Own(r) /\ DataStack' = InRegisters(m') /\ Forth!Stays
<1>1. ~On("vm") /\ CodeOf(task)[k].op = op
  BY Ran, Zenon
<1>2. k \in Nat
  BY Here, Zenon
<1>3. FlagsIn(task, k') = {} \/ FlagsIn(task, k' - 1) = {}
  <2>1. CASE k' = k + 1
    <3>1. FlagsIn(task, k) = {}
      BY <1>1, PlainOps, Zenon DEF NoChores
    <3>2. (k + 1) - 1 = k
      BY <1>2
    <3>3. FlagsIn(task, (k + 1) - 1) = {}
      BY <3>1, <3>2, Zenon
    <3> QED
      BY <2>1, <3>3, Zenon
  <2>2. CASE op \in {"BRANCH", "BRANCH_IF_ZERO", "LOOP"} /\ k' = Fragment.p
    <3>1. CodeOf(task)[Fragment.p].op = "BRANCH_LOCATION"
      BY <2>2, Ran, Zenon
    <3>2. CodeOf(task)[Fragment.p].op \notin PushOps \cup {"BUILTIN_WORD", "DECLARE_CONSTANT"}
      BY <3>1 DEF PushOps
    <3>3. FlagsIn(task, Fragment.p) = {}
      BY <3>2, PlainOps, Zenon
    <3> QED
      BY <2>2, <3>3, Zenon
  <2> QED
    BY <2>1, <2>2, Zenon
<1>4. MachineOK(task, k', m') /\ StackOf(task, k', m') = InRegisters(m')
  BY <1>1, <1>3, NativeNext, Zenon
<1> QED
  BY <1>4, SteppedBy, Zenon

LEMMA NativeStepped ==
    ASSUME Inv, NEW op, Native(op), op \notin {"ENTRY", "DEFINED_WORD_LOCATION"}, op \notin NoChores,
           InWord, Stays, Reaches(k'), k' = k + 1 \/ (op \in {"BRANCH", "BRANCH_IF_ZERO", "LOOP"} /\ k' = Fragment.p),
           IsMachine(m'), m'.scratch = Junk, NEW r, Leaves(m'.rs, r), VarsOK'
    PROVE  Inv' /\ Calls' = Forth!Own(r) /\ DataStack' = InRegisters(m') /\ Forth!Stays
<1>1. Within
  BY Zenon DEF InWord, Within
<1> QED
  BY <1>1, NativeSteppedBy, Zenon

LEMMA NativeDeclareStep ==
    ASSUME Inv, NativeDeclare
    PROVE  Inv' /\ Forth!Declare
<1>0. k' = k + 1 /\ InWord /\ Stays
  BY Zenon DEF NativeDeclare
<1>1. Forth!Fragment = Fragment
  BY ForthView, Zenon
<1>2. CASE /\ Native("DECLARE_VARIABLE") /\ vars' = [vars EXCEPT ![Fragment.p] = Align(m.dp)]
           /\ m' = [m EXCEPT !.dp = Align(@) + 4]
  <2> DEFINE op == "DECLARE_VARIABLE"
             x == Rest(m, m.rs, Align(m.dp) + 4, m.heap)
  <2>0. /\ op \notin {"BRANCH", "EXIT_WORD", "HALT"} /\ op \notin {"ENTRY", "DEFINED_WORD_LOCATION"}
        /\ op \notin PushOps \cup {"BUILTIN_WORD", "DECLARE_CONSTANT"} /\ op \notin NoChores
    BY DEF PushOps, NoChores
  <2>1. Native(op) /\ Fragment.op = op /\ CodeOf(task)[k].op = op /\ Forth!Runs(op) /\ Reaches(k + 1) /\ ~On("vm")
        /\ Forth!EnoughFor(Fragment)
    BY <1>2, <2>0, Ran, Zenon
  <2>2. Align(m.dp) + 4 <= Limit
    BY <2>1, EnoughBy, Zenon
  <2>3. IsMachine(m) /\ m.scratch = Junk /\ DataStack = InRegisters(m)
    BY <2>0, <2>1, NativePlain, Zenon
  <2>4. m.rs \in Seq(Entries) /\ m.dp \in Bottom..Limit /\ m.heap \in Heaps
    BY <2>3, Zenon DEF IsMachine
  <2>5. Align(m.dp) \in Cell /\ Align(m.dp) + 4 \in Bottom..Limit
    BY <2>2, <2>4, AlignedDp
  <2>6. IsMachine(x) /\ InRegisters(x) = InRegisters(m) /\ x.scratch = m.scratch /\ x.rs = m.rs
        /\ x.dp = Align(m.dp) + 4 /\ x.heap = m.heap
    BY <2>3, <2>4, <2>5, NativeRested
  <2>7. m' = x
    <3>1. Apart(m)
      BY <2>3, Zenon DEF IsMachine, Apart
    <3> QED
      BY <1>2, <3>1, RestedOne, Zenon
  <2>8. VarsOK' /\ Reaches(k')
    BY <1>0, <1>2, <2>1, <2>5, VarSet, Zenon
  <2> HIDE DEF x, op
  <2>9. Leaves(m'.rs, OwnRs) /\ IsMachine(m') /\ m'.scratch = Junk
    BY <2>3, <2>6, <2>7, LeavesSame, Zenon
  <2>10. Inv' /\ Calls' = Forth!Own(OwnRs) /\ DataStack' = InRegisters(m') /\ Forth!Stays
    BY <1>0, <2>0, <2>1, <2>8, <2>9, NativeStepped, Zenon
  <2>11. m'.dp = Forth!Align(m.dp) + 4 /\ vars' = [vars EXCEPT ![Forth!Fragment.p] = Forth!Align(m.dp)]
         /\ DataStack' = DataStack /\ m'.heap = m.heap /\ Calls' = Calls
    BY <1>1, <1>2, <2>3, <2>6, <2>7, <2>10, OwnSame, SameOps, Zenon
  <2> QED
    BY <1>0, <2>1, <2>10, <2>11, Zenon DEF Forth!Declare, op
<1>3. CASE /\ Native("DECLARE_CONSTANT") /\ vars' = [vars EXCEPT ![Fragment.p] = m.top] /\ m' = Dumped
  <2> DEFINE op == "DECLARE_CONSTANT"
             fl == FlagsIn(task, k)
             up == FlagsIn(task, k - 1)
             above == FlagsIn(task, k - 2)
             down == FlagsIn(task, k + 1)
             s == Below(DataStack, 1)
  <2>0. /\ op \notin {"BRANCH", "EXIT_WORD", "HALT"} /\ op \notin {"ENTRY", "DEFINED_WORD_LOCATION"}
        /\ op \in {"BRANCH_IF_ZERO", "DECLARE_CONSTANT"}
    OBVIOUS
  <2>1. Native(op) /\ Fragment.op = op /\ Forth!Runs(op) /\ Reaches(k + 1) /\ ~On("vm") /\ Forth!EnoughFor(Fragment)
    BY <1>3, <2>0, Ran, Zenon
  <2>2. Len(DataStack) >= 1
    BY <2>0, <2>1, EnoughBy, Zenon
  <2>3. fl = {"Y", "Z"} /\ Dumped = DropAnswer(fl, up, down, m, Junk)
    BY <2>1, DumpedIs, Zenon
  <2>4. WellFormed(down)
    BY FlagsFine, Zenon
  <2>5. Ready(up, above, fl, m) /\ DataStack = InRegisters(Restored(up, above, fl, m)) /\ DataStack \in Seq(Cell)
    <3>1. /\ StackWhole(task, k, m) = Restored(up, above, fl, m)
          /\ StackReady(task, k, m) = Ready(up, above, fl, m)
      BY <2>1, Neighbours, Zenon DEF Between
    <3>2. LET V == StackWhole(task, k, m)
          IN  StackReady(task, k, m) /\ DataStack = InRegisters(V) /\ DataStack \in Seq(Cell)
      BY <2>1, NativeHere, Zenon
    <3> QED
      BY <3>1, <3>2, Zenon
  <2> HIDE DEF op, fl, up, above, down, s
  <2>6. Stacks(fl, up, down, m, Below(InRegisters(Restored(up, above, fl, m)), 1), Junk, DropAnswer(fl, up, down, m, Junk))
        /\ Nth(InRegisters(Restored(up, above, fl, m)), 1) = m.top
    <3>1. Len(InRegisters(Restored(up, above, fl, m))) >= 1
      BY <2>2, <2>5, Zenon
    <3> QED
      BY <2>3, <2>4, <2>5, <3>1, DropStep
  <2>7. Stacks(fl, up, down, m, s, Junk, m') /\ Nth(DataStack, 1) = m.top
    BY <1>3, <2>3, <2>5, <2>6, Zenon DEF s
  <2>8. Nth(DataStack, 1) \in Cell
    <3>1. 1 \in 1..Len(DataStack)
      BY <2>2, <2>5, LenProperties
    <3> QED
      BY <2>5, <3>1, TopCells
  <2>9. VarsOK'
    BY <1>3, <2>7, <2>8, VarSet, Zenon
  <2>10. Inv' /\ Calls' = Calls /\ DataStack' = s /\ Forth!Stays /\ m'.dp = m.dp /\ m'.heap = m.heap
    BY <1>0, <2>0, <2>1, <2>7, <2>9, NativeRestacked, Zenon DEF fl, up, down
  <2>11. vars' = [vars EXCEPT ![Forth!Fragment.p] = Forth!Nth(DataStack, 1)] /\ s = Forth!Below(DataStack, 1)
    BY <1>1, <1>3, <2>7, SameOps, Zenon DEF s
  <2> QED
    BY <1>0, <2>1, <2>10, <2>11, Zenon DEF Forth!Declare, op
<1> QED
  BY <1>2, <1>3, Zenon DEF NativeDeclare

LEMMA NativeBranchStep ==
    ASSUME Inv, NativeBranch
    PROVE  Inv' /\ Forth!Branch
<1>0. vars' = vars /\ InWord /\ Stays
  BY Zenon DEF NativeBranch
<1>1. Forth!Fragment = Fragment
  BY ForthView, Zenon
<1>2. VarsOK'
  BY <1>0, Here, Zenon DEF VarsOK
<1>3. CASE Native("BRANCH") /\ k' = Fragment.p /\ m' = m
  <2> DEFINE op == "BRANCH"
  <2>0. op \in {"BRANCH", "BRANCH_IF_ZERO", "LOOP"} /\ op \notin {"ENTRY", "DEFINED_WORD_LOCATION"}
        /\ op \notin PushOps \cup {"BUILTIN_WORD", "DECLARE_CONSTANT"} /\ op \notin NoChores
    BY DEF PushOps, NoChores
  <2>1. Native(op) /\ Fragment.op = op /\ CodeOf(task)[k].op = op /\ Forth!Runs(op) /\ Reaches(Fragment.p) /\ ~On("vm")
    BY <1>3, <2>0, Ran, Zenon
  <2>2. IsMachine(m) /\ m.scratch = Junk /\ DataStack = InRegisters(m)
    BY <2>0, <2>1, NativePlain, Zenon
  <2>3. Leaves(m'.rs, OwnRs) /\ IsMachine(m') /\ m'.scratch = Junk /\ Reaches(k')
    BY <1>3, <2>1, <2>2, LeavesSame, Zenon
  <2> HIDE DEF op
  <2>5. Inv' /\ Calls' = Forth!Own(OwnRs) /\ DataStack' = InRegisters(m') /\ Forth!Stays
    BY <1>0, <1>2, <1>3, <2>0, <2>1, <2>3, NativeStepped, Zenon
  <2>6. DataStack' = DataStack /\ Calls' = Calls /\ m'.dp = m.dp /\ m'.heap = m.heap
    BY <1>3, <2>2, <2>5, OwnSame, Zenon
  <2> QED
    BY <1>0, <1>1, <1>3, <2>1, <2>5, <2>6, Zenon DEF Forth!Branch, op
<1>4. CASE Native("BRANCH_IF_ZERO") /\ k' = (IF m.top = 0 THEN Fragment.p ELSE k + 1)
           /\ m' = Closing({"Y", "Z"}, m)
  <2> DEFINE op == "BRANCH_IF_ZERO"
             x == Closing({"Y", "Z"}, m)
  <2>0. /\ op \notin {"BRANCH", "EXIT_WORD", "HALT"} /\ op \notin {"ENTRY", "DEFINED_WORD_LOCATION"}
        /\ op \in {"BRANCH", "BRANCH_IF_ZERO", "LOOP"} /\ op \in {"BRANCH_IF_ZERO", "DECLARE_CONSTANT"}
        /\ op \notin PushOps \cup {"BUILTIN_WORD", "DECLARE_CONSTANT"} /\ op \notin NoChores
    BY DEF PushOps, NoChores
  <2>1. Native(op) /\ Fragment.op = op /\ CodeOf(task)[k].op = op /\ Forth!Runs(op) /\ Reaches(k + 1) /\ Reaches(Fragment.p)
        /\ ~On("vm") /\ Forth!EnoughFor(Fragment)
    BY <1>4, <2>0, Ran, Zenon
  <2>2. Len(DataStack) >= 1
    BY <2>0, <2>1, EnoughBy, Zenon
  <2>3. IsMachine(m) /\ m.scratch = Junk /\ DataStack = InRegisters(m) /\ Len(DataStack) = m.depth + 1
        /\ m.depth \in Int
    BY <2>0, <2>1, NativePlain, Zenon
  <2>4. m.depth >= 0
    BY <2>2, <2>3
  <2>5. /\ IsMachine(x) /\ x.rs = m.rs /\ x.dp = m.dp /\ x.heap = m.heap /\ x.scratch = m.scratch
        /\ InRegisters(x) = Below(InRegisters(m), 1) /\ Nth(InRegisters(m), 1) = m.top
    BY <2>3, <2>4, Dropped1
  <2>6. m' = x
    BY <1>4, Zenon
  <2> HIDE DEF x, op
  <2>7. Leaves(m'.rs, OwnRs) /\ IsMachine(m') /\ m'.scratch = Junk /\ Reaches(k')
    BY <1>4, <2>1, <2>3, <2>5, <2>6, LeavesSame, Zenon
  <2>8. k' = k + 1 \/ k' = Fragment.p
    BY <1>4, Zenon
  <2>10. Inv' /\ Calls' = Forth!Own(OwnRs) /\ DataStack' = InRegisters(m') /\ Forth!Stays
    BY <1>0, <1>2, <2>0, <2>1, <2>7, <2>8, NativeStepped, Zenon
  <2>11. /\ k' = (IF Forth!Nth(DataStack, 1) = 0 THEN Forth!Fragment.p ELSE k + 1)
         /\ DataStack' = Forth!Below(DataStack, 1) /\ Calls' = Calls /\ m'.dp = m.dp /\ m'.heap = m.heap
    BY <1>1, <1>4, <2>3, <2>5, <2>6, <2>10, OwnSame, SameOps, Zenon
  <2> QED
    BY <1>0, <2>1, <2>10, <2>11, Zenon DEF Forth!Branch, op
<1> QED
  BY <1>3, <1>4, Zenon DEF NativeBranch

-----------------------------------------------------------------------------
(* DO in machine code.                                                       *)

LEMMA NativeDoStep ==
    ASSUME Inv, NativeDo
    PROVE  Inv' /\ Forth!Do
<1> DEFINE op == "DO"
           e == Nth(DataStack, 2)
           i == Nth(DataStack, 1)
           R == m.rs \o Tagged(<<e, i>>)
           r == OwnRs \o <<e, i>>
           s == Below(DataStack, 2)
           y == [m EXCEPT !.rs = R, !.top = m.cells[m.depth - 1], !.depth = @ - 2]
<1>0. /\ op \notin {"BRANCH", "EXIT_WORD", "HALT"} /\ op \notin {"ENTRY", "DEFINED_WORD_LOCATION"} /\ op = "DO"
      /\ op \notin PushOps \cup {"BUILTIN_WORD", "DECLARE_CONSTANT"} /\ op \notin NoChores
  BY DEF PushOps, NoChores
<1>1. /\ Native(op) /\ k' = k + 1 /\ vars' = vars /\ InWord /\ Stays
      /\ m' = [m EXCEPT !.rs = @ \o Tagged(<<m.cells[m.depth], m.top>>),
                        !.top = m.cells[m.depth - 1], !.depth = @ - 2]
  BY Zenon DEF NativeDo
<1>2. Forth!Runs(op) /\ Reaches(k + 1) /\ ~On("vm") /\ CodeOf(task)[k].op = op
  BY <1>0, <1>1, Ran, Zenon
<1>3. Leaves(R, r) /\ Len(DataStack) >= 2
  BY <1>0, <1>1, DoLeaves, Zenon
<1>4. IsMachine(m) /\ m.scratch = Junk /\ DataStack = InRegisters(m) /\ Len(DataStack) = m.depth + 1
      /\ m.depth \in Int
  BY <1>0, <1>2, NativePlain, Zenon
<1>5. m.depth >= 1
  BY <1>3, <1>4
<1> HIDE DEF R, y
<1>6. /\ IsMachine(y) /\ y.rs = R /\ y.dp = m.dp /\ y.heap = m.heap /\ y.scratch = m.scratch
      /\ InRegisters(y) = Below(InRegisters(m), 2)
      /\ Nth(InRegisters(m), 1) = m.top /\ Nth(InRegisters(m), 2) = m.cells[m.depth]
  <2>1. R \in Seq(Entries)
    BY <1>3, Zenon DEF Leaves
  <2> QED
    BY <1>4, <1>5, <2>1, TookTwo DEF y
<1>7. m' = y
  <2>1. e = m.cells[m.depth] /\ i = m.top
    BY <1>4, <1>6, Zenon
  <2> HIDE DEF e, i
  <2> QED
    BY <1>1, <2>1, Zenon DEF y, R
<1>8. Leaves(m'.rs, r) /\ IsMachine(m') /\ m'.scratch = Junk /\ Reaches(k') /\ VarsOK'
  <2>1. VarsOK'
    BY <1>1, Here, Zenon DEF VarsOK
  <2> HIDE DEF r
  <2> QED
    BY <1>1, <1>2, <1>3, <1>4, <1>6, <1>7, <2>1, Zenon
<1> HIDE DEF r, s, op
<1>9. Inv' /\ Calls' = Forth!Own(r) /\ DataStack' = InRegisters(m') /\ Forth!Stays
  BY <1>0, <1>1, <1>2, <1>8, NativeStepped, Zenon
<1>10. s = Forth!Below(DataStack, 2) /\ r = Forth!Call.rs \o <<Forth!Nth(DataStack, 2), Forth!Nth(DataStack, 1)>>
  BY ForthView, SameOps, Zenon DEF s, r
<1>11. DataStack' = s
  BY <1>4, <1>6, <1>7, <1>9, Zenon DEF s
<1>12. DataStack' = Forth!Below(DataStack, 2) /\ m'.dp = m.dp /\ m'.heap = m.heap
       /\ Calls' = Forth!Own(Forth!Call.rs \o <<Forth!Nth(DataStack, 2), Forth!Nth(DataStack, 1)>>)
  BY <1>6, <1>7, <1>9, <1>10, <1>11, Zenon
<1> QED
  BY <1>1, <1>2, <1>9, <1>12, Zenon DEF Forth!Do, op

(* The last of two cells set.                                              *)
LEMMA LastSet ==
    ASSUME NEW R \in Seq(Entries), NEW own \in Nat, OwnCells(R, own), Len(R) - own >= 2, NEW i \in Cell
    PROVE  [R EXCEPT ![Len(R)] = <<"cell", i>>] = Below(R, 2) \o Tagged(<<Nth(R, 2)[2], i>>)
<1> DEFINE l == Len(R)
           e == Nth(R, 2)[2]
           Q == [R EXCEPT ![l] = <<"cell", i>>]
           T == Tagged(<<e, i>>)
           B == Below(R, 2)
           S == B \o T
<1>1. l \in Nat /\ l >= 2 /\ own <= l - 2
  BY LenProperties
<1>2. R[l - 1] \in {"cell"} \X Cell /\ e = R[l - 1][2]
  <2>1. l - 1 \in (own + 1)..l /\ l + 1 - 2 = l - 1
    BY <1>1
  <2>2. \A j \in (own + 1)..l : R[j] \in {"cell"} \X Cell
    BY Zenon DEF OwnCells
  <2>3. e = R[l + 1 - 2][2]
    BY Zenon DEF Nth
  <2> QED
    BY <2>1, <2>2, <2>3, Zenon
<1>3. R[l - 1] = <<"cell", e>> /\ e \in Cell
  <2> DEFINE z == R[l - 1]
  <2>1. z \in {"cell"} \X Cell /\ e = z[2]
    BY <1>2, Zenon
  <2> HIDE DEF z, e
  <2>2. z = <<"cell", e>> /\ e \in Cell
    BY <2>1
  <2> QED
    BY <2>2, Zenon DEF z
<1>4. /\ T \in Seq(Entries) /\ Len(T) = 2 /\ T[1] = <<"cell", e>> /\ T[2] = <<"cell", i>>
  <2> HIDE DEF e
  <2>1. <<e, i>> \in Seq(Cell) /\ Len(<<e, i>>) = 2
    BY <1>3, PairSeq
  <2>2. T \in Seq(Entries)
    BY <2>1, Tagging, Zenon
  <2>3. DOMAIN <<e, i>> = 1..2
    BY <2>1, LenProperties
  <2>4. T = [j \in 1..2 |-> <<"cell", <<e, i>>[j]>>]
    BY <2>3 DEF Tagged
  <2>5. Len(T) = Len(<<e, i>>)
    BY <2>1, Tagging, Zenon DEF Tags
  <2> HIDE DEF T
  <2>6. T[1] = <<"cell", <<e, i>>[1]>> /\ T[2] = <<"cell", <<e, i>>[2]>>
    BY <2>4
  <2>7. <<e, i>>[1] = e /\ <<e, i>>[2] = i
    OBVIOUS
  <2> QED
    BY <2>1, <2>2, <2>5, <2>6, <2>7, Zenon
<1>5. B \in Seq(Entries) /\ Len(B) = l - 2 /\ \A j \in 1..(l - 2) : B[j] = R[j]
  <2>1. 2 \in 0..Len(R)
    BY <1>1
  <2> QED
    BY <2>1, BelowIs
<1> HIDE DEF e, T, B
<1>6. /\ S \in Seq(Entries) /\ Len(S) = Len(B) + Len(T)
      /\ \A j \in 1..Len(B) : S[j] = B[j]
      /\ \A j \in (Len(B) + 1)..(Len(B) + Len(T)) : S[j] = T[j - Len(B)]
  BY <1>4, <1>5, JoinedCells, Zenon
<1> HIDE DEF S, l
<1>7. Len(S) = l /\ \A j \in 1..l : S[j] = Q[j]
  <2>1. /\ Len(S) = l /\ (\A j \in 1..(l - 2) : S[j] = R[j]) /\ S[l - 1] = T[1] /\ S[l] = T[2]
    <3> DEFINE b == Len(B)
               t == Len(T)
    <3>1. b = l - 2 /\ t = 2 /\ Len(S) = b + t
          /\ (\A j \in 1..b : S[j] = B[j]) /\ (\A j \in (b + 1)..(b + t) : S[j] = T[j - b])
          /\ \A j \in 1..(l - 2) : B[j] = R[j]
      BY <1>4, <1>5, <1>6, Zenon
    <3> HIDE DEF b, t, Q
    <3>2. Len(S) = l /\ 1..b = 1..(l - 2) /\ l - 1 \in (b + 1)..(b + t) /\ l \in (b + 1)..(b + t)
          /\ l - 1 - b = 1 /\ l - b = 2
      BY <1>1, <3>1
    <3> QED
      BY <3>1, <3>2, Zenon
  <2>2. DOMAIN R = 1..l /\ Q = [R EXCEPT ![l] = <<"cell", i>>]
    BY LenProperties DEF l
  <2> HIDE DEF Q
  <2>3. Q[l] = <<"cell", i>> /\ \A j \in 1..(l - 1) : Q[j] = R[j]
    BY <1>1, <2>2
  <2>4. /\ S[l - 1] = Q[l - 1] /\ S[l] = Q[l]
        /\ \A j \in 1..(l - 2) : S[j] = Q[j]
    <3>1. l - 1 \in 1..(l - 1) /\ \A j \in 1..(l - 2) : j \in 1..(l - 1)
      BY <1>1
    <3> QED
      BY <1>3, <1>4, <2>1, <2>3, <3>1, Zenon
  <2>5. \A j \in 1..l : j = l \/ j = l - 1 \/ j \in 1..(l - 2)
    BY <1>1
  <2> QED
    BY <2>1, <2>4, <2>5, Zenon
<1>8. S = [j \in 1..l |-> S[j]]
  <2>1. S \in [1..Len(S) -> Entries]
    BY <1>6, LenProperties
  <2> QED
    BY <1>7, <2>1
<1>9. Q = [j \in 1..l |-> Q[j]]
  <2>1. DOMAIN R = 1..l
    BY LenProperties DEF l
  <2> QED
    BY <2>1
<1>10. Q = S
  <2> HIDE DEF Q
  <2> QED
    BY <1>7, <1>8, <1>9, Zenon
<1> QED
  BY <1>10, Zenon DEF l, S, B, T, e

-----------------------------------------------------------------------------
(* LOOP and the runtime words in machine code.                               *)

(* A return stack put back into a machine.                                 *)
LEMMA SetLast ==
    ASSUME NEW x, Apart(x), NEW j, NEW v
    PROVE  [x EXCEPT !.rs[j] = v] = Rest(x, [x.rs EXCEPT ![j] = v], x.dp, x.heap)
<1> DEFINE R == [x.rs EXCEPT ![j] = v]
<1>1. [x EXCEPT !.rs[j] = v] = [x EXCEPT !.rs = R]
  OBVIOUS
<1> HIDE DEF R
<1>2. [x EXCEPT !.rs = R] = Rest(x, R, x.dp, x.heap)
  BY RestedOne, Zenon
<1> QED
  BY <1>1, <1>2, Zenon DEF R

LEMMA NativeLoopStep ==
    ASSUME Inv, NativeLoop
    PROVE  Inv' /\ Forth!Loop
<1> DEFINE op == "LOOP"
           e == Nth(OwnRs, 2)
           i == Nth(OwnRs, 1) + 1
           less == i < e
           R == IF less THEN Below(m.rs, 2) \o Tagged(<<e, i>>) ELSE Below(m.rs, 2)
           r == IF less THEN Below(OwnRs, 2) \o <<e, i>> ELSE Below(OwnRs, 2)
           x == Rest(m, R, m.dp, m.heap)
<1>0. /\ op \notin {"BRANCH", "EXIT_WORD", "HALT"} /\ op \notin {"ENTRY", "DEFINED_WORD_LOCATION"} /\ op = "LOOP"
      /\ op \in {"BRANCH", "BRANCH_IF_ZERO", "LOOP"}
      /\ op \notin PushOps \cup {"BUILTIN_WORD", "DECLARE_CONSTANT"} /\ op \notin NoChores
  BY DEF PushOps, NoChores
<1>1. Native(op) /\ vars' = vars /\ InWord /\ Stays
      /\ IF Nth(m.rs, 1)[2] + 1 < Nth(m.rs, 2)[2]
         THEN k' = Fragment.p /\ m' = [m EXCEPT !.rs[Len(m.rs)] = <<"cell", Nth(m.rs, 1)[2] + 1>>]
         ELSE k' = k + 1 /\ m' = [m EXCEPT !.rs = Below(m.rs, 2)]
  BY Zenon DEF NativeLoop
<1>2. Forth!Runs(op) /\ Reaches(k + 1) /\ Reaches(Fragment.p) /\ ~On("vm") /\ CodeOf(task)[k].op = op
  BY <1>0, <1>1, Ran, Zenon
<1>3. /\ Nth(m.rs, 1)[2] = Nth(OwnRs, 1) /\ Nth(m.rs, 2)[2] = Nth(OwnRs, 2)
      /\ i \in Cell /\ Len(OwnRs) >= 2
      /\ Leaves(Below(m.rs, 2), Below(OwnRs, 2))
      /\ Leaves(Below(m.rs, 2) \o Tagged(<<e, i>>), Below(OwnRs, 2) \o <<e, i>>)
  BY <1>0, <1>1, LoopLeaves, Zenon
<1>4. IsMachine(m) /\ m.scratch = Junk /\ DataStack = InRegisters(m) /\ Apart(m)
  BY <1>0, <1>2, NativePlain, Zenon DEF IsMachine, Apart
<1>5. Leaves(R, r)
  BY <1>3, Zenon
<1>6. k' = (IF less THEN Fragment.p ELSE k + 1) /\ m' = x
  <2>1. CASE less
    <3>1. Nth(m.rs, 1)[2] + 1 < Nth(m.rs, 2)[2] /\ Nth(m.rs, 1)[2] + 1 = i /\ Nth(m.rs, 2)[2] = e
      BY <1>3, <2>1, Zenon
    <3>2. k' = Fragment.p /\ m' = [m EXCEPT !.rs[Len(m.rs)] = <<"cell", i>>]
      BY <1>1, <3>1, Zenon
    <3>3. [m.rs EXCEPT ![Len(m.rs)] = <<"cell", i>>] = Below(m.rs, 2) \o Tagged(<<e, i>>)
      <4>1. /\ m.rs \in Seq(Entries) /\ OwnCells(m.rs, Frame.own) /\ Frame.own \in Nat
            /\ Len(OwnRs) = Len(m.rs) - Frame.own
        BY HereCells, Zenon
      <4>2. Len(m.rs) - Frame.own >= 2
        BY <1>3, <4>1, Zenon
      <4> HIDE DEF i, e
      <4>3. [m.rs EXCEPT ![Len(m.rs)] = <<"cell", i>>] = Below(m.rs, 2) \o Tagged(<<Nth(m.rs, 2)[2], i>>)
        BY <1>3, <4>1, <4>2, LastSet
      <4> QED
        BY <3>1, <4>3, Zenon
    <3> HIDE DEF i, e
    <3>4. m' = Rest(m, [m.rs EXCEPT ![Len(m.rs)] = <<"cell", i>>], m.dp, m.heap)
      BY <1>4, <3>2, SetLast, Zenon
    <3>5. m' = Rest(m, R, m.dp, m.heap)
      BY <2>1, <3>3, <3>4, Zenon
    <3> QED
      BY <2>1, <3>2, <3>5, Zenon
  <2>2. CASE ~less
    <3>1. ~(Nth(m.rs, 1)[2] + 1 < Nth(m.rs, 2)[2])
      BY <1>3, <2>2, Zenon
    <3>2. m' = Rest(m, Below(m.rs, 2), m.dp, m.heap)
      BY <1>1, <1>4, <3>1, RestedOne, Zenon
    <3> QED
      BY <1>1, <2>2, <3>1, <3>2, Zenon
  <2> QED
    BY <2>1, <2>2, Zenon
<1> HIDE DEF less, R, r
<1>8. IsMachine(x) /\ InRegisters(x) = InRegisters(m) /\ x.scratch = Junk /\ x.rs = R /\ x.dp = m.dp /\ x.heap = m.heap
  <2>1. R \in Seq(Entries)
    BY <1>5, Zenon DEF Leaves
  <2>2. m.dp \in Bottom..Limit /\ m.heap \in Heaps
    BY SeenState, Zenon
  <2>3. IsMachine(x) /\ InRegisters(x) = InRegisters(m) /\ x.scratch = m.scratch /\ x.rs = R /\ x.dp = m.dp /\ x.heap = m.heap
    BY <1>4, <2>1, <2>2, NativeRested
  <2> QED
    BY <1>4, <2>3, Zenon
<1>9. VarsOK' /\ Reaches(k') /\ (k' = k + 1 \/ k' = Fragment.p)
  BY <1>1, <1>2, <1>6, Here, Zenon DEF VarsOK
<1> HIDE DEF x, op
<1>10. Leaves(m'.rs, r) /\ IsMachine(m') /\ m'.scratch = Junk
  BY <1>5, <1>6, <1>8, Zenon
<1>11. Inv' /\ Calls' = Forth!Own(r) /\ DataStack' = InRegisters(m') /\ Forth!Stays
  BY <1>0, <1>1, <1>9, <1>10, NativeStepped, Zenon
<1>12. DataStack' = DataStack /\ m'.dp = m.dp /\ m'.heap = m.heap /\ Forth!Fragment = Fragment /\ Forth!Call.rs = OwnRs
  BY <1>4, <1>6, <1>8, <1>11, ForthView, Zenon
<1>13. IF i < e THEN k' = Forth!Fragment.p /\ Calls' = Forth!Own(Below(OwnRs, 2) \o <<e, i>>)
       ELSE k' = k + 1 /\ Calls' = Forth!Own(Below(OwnRs, 2))
  BY <1>6, <1>11, <1>12, Zenon DEF less, r
<1>14. LET index == Forth!Nth(Forth!Call.rs, 1) + 1
           end == Forth!Nth(Forth!Call.rs, 2)
           outer == Forth!Below(Forth!Call.rs, 2)
       IN  IF index < end THEN k' = Forth!Fragment.p /\ Calls' = Forth!Own(outer \o <<end, index>>)
                          ELSE k' = k + 1 /\ Calls' = Forth!Own(outer)
  BY <1>12, <1>13, SameOps, Zenon
<1> QED
  BY <1>1, <1>2, <1>11, <1>12, <1>14, Zenon DEF Forth!Loop, op

(* Where a word calls, it has saved the link register.                     *)
LEMMA CallSaved ==
    ASSUME NEW t \in Tasks, NEW pc, NEW R, NEW F, FramesOK(t, pc, R, F), CodeOf(t)[pc].op \in Calling
    PROVE  SavesLr(t, Top(F), pc + 1)
<1> DEFINE g == Top(F)
<1>1. pc \in DOMAIN CodeOf(t) /\ WordAt(t, pc) = g.word
  BY TopFacts
<1>2. CodeOf(t)[pc].op \notin {"BRANCH", "EXIT_WORD", "HALT"} /\ ~IsLocation(t, pc)
  BY DEF Calling, IsLocation
<1>3. /\ pc + 1 \in DOMAIN CodeOf(t) /\ WordAt(t, pc + 1) = WordAt(t, pc) /\ ~IsLocation(t, pc + 1)
      /\ pc \in Nat /\ pc >= 1
  BY <1>1, <1>2, NextPlace
<1> HIDE DEF g
<1>4. g.word \in 0..pc /\ pc # g.word /\ pc + 1 # g.word
  <2>1. WordAt(t, pc) \in 0..pc /\ pc # WordAt(t, pc)
    BY <1>1, <1>2, BehindLocation, Zenon
  <2>2. pc + 1 # WordAt(t, pc + 1)
    BY <1>3, BehindLocation, Zenon
  <2> QED
    BY <1>1, <1>3, <2>1, <2>2, Zenon
<1>5. DOMAIN CodeOf(t) = 1..Len(CodeOf(t)) /\ Len(CodeOf(t)) \in Nat
  <2>1. DOMAIN CodeOf(t) = 1..Len(CodeOf(t)) /\ Len(CodeOf(t)) \in 2..(Half - 1)
    BY TaskShape, Zenon
  <2> QED
    BY <2>1
<1>6. pc \in (g.word + 1)..Len(CodeOf(t))
  BY <1>1, <1>3, <1>4, <1>5
<1>7. CodeOf(t)[pc].op \in UsesLr
  BY DEF Calling, UsesLr
<1>8. CallsAny(CodeOf(t), g.word)
  BY <1>1, <1>6, <1>7, Zenon DEF CallsAny, WordAt
<1> QED
  BY <1>4, <1>8, Zenon DEF SavesLr, g

LEMMA NativeRuntimeStep ==
    ASSUME Inv, NativeRuntime
    PROVE  Inv' /\ Forth!Runtime
<1> DEFINE op == "RUNTIME_WORD"
           lit == Fragment.p.kind = "lit"
           v == IF lit THEN Fragment.p.v ELSE 0
           c == Opening({"A", "B"}, m)
           pushed == [c EXCEPT !.top = v]
           more == Closing({"Y", "Z"}, [c EXCEPT !.cells[c.depth] = Wrap(@ + 1)])
           y == IF lit THEN pushed ELSE more
<1>0. /\ op \notin {"BRANCH", "EXIT_WORD", "HALT"} /\ op \notin {"ENTRY", "DEFINED_WORD_LOCATION"} /\ op = "RUNTIME_WORD"
      /\ op \notin PushOps \cup {"BUILTIN_WORD", "DECLARE_CONSTANT"} /\ op \notin NoChores /\ op \in Calling
  BY DEF PushOps, NoChores, Calling
<1>1. Native(op) /\ Fragment.p.kind # "invoke" /\ k' = k + 1 /\ Stays
      /\ base' = base /\ home' = home /\ native' = native /\ vars' = vars /\ frames' = frames
  BY Zenon DEF NativeRuntime
<1>2. Forth!Runs(op) /\ Reaches(k + 1) /\ ~On("vm") /\ CodeOf(task)[k].op = op
  BY <1>0, <1>1, Ran, Zenon
<1>3. /\ Handled \in Seq(Cell) /\ Len(Handled) <= MaxCells
      /\ (lit => Fragment.p.v \in Cell) /\ (~lit => Len(DataStack) >= 1)
  BY <1>0, <1>1, HandledIs, Zenon
<1>4. IsMachine(m) /\ m.scratch = Junk /\ DataStack = InRegisters(m) /\ Len(DataStack) = m.depth + 1
      /\ m.depth \in Int
  BY <1>0, <1>2, NativePlain, Zenon
<1>5. m.depth < MaxCells - 1 /\ (~lit => m.depth >= 0) /\ v \in Cell
  <2>1. Len(DataStack) < MaxCells
    BY <1>0, <1>1, Zenon DEF Native
  <2>2. MaxCells \in Int /\ 0 \in Cell
    BY PrimitivesAssumption DEF Half, Cell
  <2>3. v \in Cell
    BY <1>3, <2>2, Zenon
  <2>4. /\ Len(DataStack) = m.depth + 1 /\ m.depth \in Int /\ (~lit => Len(DataStack) >= 1)
    BY <1>3, <1>4, Zenon
  <2> HIDE DEF v, lit
  <2>5. m.depth < MaxCells - 1 /\ (~lit => m.depth >= 0)
    BY <2>1, <2>2, <2>4
  <2> QED
    BY <2>3, <2>5, Zenon
<1> HIDE DEF v
<1>6. /\ IsMachine(pushed) /\ InRegisters(pushed) = Append(InRegisters(m), v)
      /\ pushed.rs = m.rs /\ pushed.dp = m.dp /\ pushed.heap = m.heap /\ pushed.scratch = m.scratch
      /\ IsMachine(more)
      /\ more.rs = m.rs /\ more.dp = m.dp /\ more.heap = m.heap /\ more.scratch = m.scratch
      /\ m.depth >= 0 => InRegisters(more) = Append(Below(InRegisters(m), 1), Wrap(Nth(InRegisters(m), 1) + 1))
  <2> HIDE DEF lit
  <2> QED
    BY <1>4, <1>5, HandedOver
<1>7. m' = y
  <2>1. m' = IF lit THEN [c EXCEPT !.top = Fragment.p.v]
             ELSE Closing({"Y", "Z"}, [c EXCEPT !.cells[c.depth] = Wrap(@ + 1)])
    BY Zenon DEF NativeRuntime, Flushed, Reloaded
  <2>2. lit => v = Fragment.p.v
    BY Zenon DEF v
  <2> HIDE DEF c, lit
  <2> QED
    BY <2>1, <2>2, Zenon
<1> HIDE DEF pushed, more, c
<1>8. IsMachine(y) /\ y.rs = m.rs /\ y.dp = m.dp /\ y.heap = m.heap /\ y.scratch = m.scratch /\ InRegisters(y) = Handled
  <2>1. CASE lit
    <3>1. Handled = Append(DataStack, v)
      BY <2>1, Zenon DEF Handled, v
    <3> QED
      BY <1>4, <1>6, <2>1, <3>1, Zenon
  <2>2. CASE ~lit
    <3>1. Handled = Append(Below(DataStack, 1), Wrap(Nth(DataStack, 1) + 1))
      BY <2>2, Zenon DEF Handled
    <3>2. y = more
      BY <2>2, Zenon
    <3> HIDE DEF lit, y
    <3> QED
      BY <1>4, <1>5, <1>6, <2>2, <3>1, <3>2, Zenon
  <2> QED
    BY <2>1, <2>2, Zenon
<1> HIDE DEF y, op, lit
<1>9. VarsOK' /\ Reaches(k')
  BY <1>1, <1>2, Here, Zenon DEF VarsOK
<1>10. Leaves(m'.rs, OwnRs) /\ IsMachine(m') /\ m'.scratch = Junk
  BY <1>4, <1>7, <1>8, LeavesSame, Zenon
<1>11. Within
  <2>1. SavesLr(task, Top(frames), k + 1)
    BY <1>0, <1>2, Here, CallSaved, Zenon
  <2> QED
    BY <1>1, <2>1, Zenon DEF Within
<1>12. Inv' /\ Calls' = Forth!Own(OwnRs) /\ DataStack' = InRegisters(m') /\ Forth!Stays
  BY <1>0, <1>1, <1>9, <1>10, <1>11, NativeSteppedBy, Zenon
<1>13. Forth!Fragment = Fragment
  BY ForthView, Zenon
<1>14. DataStack' = (IF Forth!Fragment.p.kind = "lit" THEN Append(DataStack, Forth!Fragment.p.v)
                     ELSE Append(Forth!Below(DataStack, 1), Forth!Wrap(Forth!Nth(DataStack, 1) + 1)))
       /\ Calls' = Calls /\ m'.dp = m.dp /\ m'.heap = m.heap
  BY <1>7, <1>8, <1>12, <1>13, OwnSame, SameOps, Zenon DEF Handled
<1> QED
  BY <1>1, <1>2, <1>12, <1>13, <1>14, Zenon DEF Forth!Runtime, op

-----------------------------------------------------------------------------
(* The invariant bounds the state.                                           *)

(* The invariant bounds the state.                                           *)
LEMMA InvTypes ==
    ASSUME Inv
    PROVE  TypeOK
<1>1. /\ task \in Tasks /\ MachineOK(task, k, m) /\ VarsOK /\ status \in {"running", "done", "failed"}
      /\ Code = CodeOf(task) /\ backend = task.backend /\ k \in DOMAIN CodeOf(task)
  BY Here, Zenon
<1>2. k \in DOMAIN Code /\ WellFormed(FlagsAt(k))
  <2>1. FlagsAt(k) = FlagsIn(task, k)
    BY <1>1, Zenon DEF FlagsAt, FlagsIn
  <2> QED
    BY <1>1, <2>1, FlagsFine, Zenon
<1>3. base \in {Junk} \cup 0..Len(m.rs) /\ Len(m.rs) <= MaxCells
  BY BaseRange, HereCells, Zenon
<1>4. \A i \in DOMAIN vars : vars[i] \in Cell
  <2> DEFINE D == 0..(VariableCount - 1)
  <2>1. vars \in [D -> Cell]
    BY <1>1, Zenon DEF VarsOK
  <2> HIDE DEF D
  <2> QED
    BY <2>1
<1>5. m.dp \in Bottom..Limit /\ DOMAIN m.heap \subseteq Bottom..(Limit - 1)
  <2>1. m.dp \in Bottom..Limit /\ m.heap \in Heaps
    BY SeenState, Zenon
  <2> DEFINE h == m.heap
             B == Bottom..(Limit - 1)
             U == 0..(Unit - 1)
  <2>2. h \in UNION {[D -> U] : D \in SUBSET B}
    BY <2>1, Zenon DEF Heaps
  <2> HIDE DEF h, B, U
  <2>3. DOMAIN h \subseteq B
    BY <2>2
  <2> QED
    BY <2>1, <2>3, Zenon DEF h, B
<1>6. /\ m.top \in Cell /\ m.cells \in [CellIndexes -> Cell] /\ m.scratch = Junk
      /\ m.depth \in (IF On("vm") THEN 0..MaxCells ELSE -1..(MaxCells - 1))
  <2>1. CASE task.backend = "vm"
    <3>1. VmMachine(m) /\ m.scratch = Junk /\ On("vm")
      BY <1>1, <2>1, Zenon DEF MachineOK, On
    <3> QED
      BY <3>1, Zenon DEF VmMachine
  <2>2. CASE task.backend # "vm"
    <3>1. StackReady(task, k, m) /\ m.scratch = Junk /\ ~On("vm")
      BY <1>1, <2>2, Zenon DEF MachineOK, On
    <3> QED
      BY <3>1, Zenon DEF StackReady, Ready
  <2> QED
    BY <2>1, <2>2, Zenon
<1>7. DOMAIN m.cells = 0..(MaxCells - 1) /\ \A i \in DOMAIN m.cells : m.cells[i] \in Cell
  <2> DEFINE c == m.cells
  <2>1. c \in [CellIndexes -> Cell]
    BY <1>6, Zenon
  <2> HIDE DEF c
  <2>2. DOMAIN c = CellIndexes /\ \A i \in DOMAIN c : c[i] \in Cell
    BY <2>1
  <2> QED
    BY <2>2, Zenon DEF c, CellIndexes
<1> QED
  BY <1>1, <1>2, <1>3, <1>4, <1>5, <1>6, <1>7, Zenon DEF TypeOK

-----------------------------------------------------------------------------
(* The first state.                                                        *)
LEMMA FirstPlace ==
    ASSUME NEW t \in Tasks
    PROVE  /\ 1 \in DOMAIN CodeOf(t) /\ CodeOf(t)[1].op = "ENTRY" /\ WordAt(t, 1) = 0
           /\ ~IsLocation(t, 1) /\ FlagsIn(t, 1) = {}
<1>1. DOMAIN CodeOf(t) = 1..Len(CodeOf(t)) /\ Len(CodeOf(t)) \in 2..(Half - 1)
  BY TaskShape, Zenon
<1>2. 1 \in DOMAIN CodeOf(t)
  BY <1>1
<1>3. CodeOf(t)[1].op = "ENTRY"
  BY <1>2, TaskShape, Zenon
<1>4. CodeOf(t)[1].op \notin PushOps \cup {"BUILTIN_WORD", "DECLARE_CONSTANT"} /\ ~IsLocation(t, 1)
  BY <1>3 DEF PushOps, IsLocation
<1>5. FlagsIn(t, 1) = {}
  BY <1>4, PlainOps, Zenon
<1>6. WordAt(t, 1) = 0
  <2>1. WordAt(t, 1) \in 0..1 /\ (IsLocation(t, 1) <=> 1 = WordAt(t, 1))
    BY <1>2, BehindLocation, Zenon
  <2> QED
    BY <1>4, <2>1
<1> QED
  BY <1>2, <1>3, <1>4, <1>5, <1>6

LEMMA FirstFrames ==
    ASSUME NEW t \in Tasks
    PROVE  /\ FramesOK(t, 1, <<>>, <<FirstFrame>>) /\ Top(<<FirstFrame>>) = FirstFrame
           /\ NativeOK(<<FirstFrame>>, <<>>)
           /\ BaseOf(t, FirstFrame, 1) = 0
           /\ LinkOK(t, 1, Host, Junk, <<FirstFrame>>)
<1> DEFINE F == <<FirstFrame>>
           R == <<>>
<1>1. /\ F \in Seq(Frames) /\ Len(F) = 1 /\ F[1] = FirstFrame /\ FirstFrame \in Frames
      /\ R \in ReturnStacks /\ Len(R) = 0
  <2>1. FirstFrame \in Frames
    BY DEF FirstFrame, Frames
  <2>2. R \in ReturnStacks /\ Len(R) = 0
    BY DEF ReturnStacks
  <2>3. F \in Seq(Frames) /\ Len(F) = 1 /\ F[1] = FirstFrame
    BY <2>1
  <2> QED
    BY <2>1, <2>2, <2>3
<1>2. /\ FirstFrame.at = 0 /\ FirstFrame.own = 0 /\ FirstFrame.below = 0 /\ FirstFrame.word = 0
      /\ FirstFrame.base = 0 /\ FirstFrame.fromC = FALSE /\ FirstFrame.open = 0
  BY DEF FirstFrame
<1> HIDE DEF F, R
<1>3. Top(F) = FirstFrame
  BY <1>1 DEF Top
<1>4. 1 \in DOMAIN CodeOf(t) /\ WordAt(t, 1) = 0 /\ ~IsLocation(t, 1)
  BY FirstPlace
<1>5. Holds(t, FirstFrame, 1, R, 0)
  BY <1>2, <1>4 DEF Holds
<1>6. \A i \in 1..Len(F) : Holds(t, F[i], PlaceOf(F, 1, i), R, EndOf(F, R, i))
  <2> TAKE i \in 1..Len(F)
  <2>1. i = 1 /\ ~(i < Len(F))
    BY <1>1
  <2>2. PlaceOf(F, 1, i) = 1 /\ EndOf(F, R, i) = 0
    BY <1>1, <2>1, Zenon DEF PlaceOf, EndOf
  <2> QED
    BY <1>1, <1>5, <2>1, <2>2, Zenon
<1>7. FramesOK(t, 1, R, F)
  <2>1. \A i \in 1..(Len(F) - 1) : CalledBy(t, F[i + 1], F[i])
    BY <1>1
  <2>2. \A i, j \in 1..Len(F) : i <= j => F[i].at <= F[j].at
    BY <1>1, <1>2
  <2>3. Top(F).below + (Len(R) - Top(F).own) <= MaxCells
    <3>1. MaxCells \in Nat
      BY PrimitivesAssumption DEF Half
    <3> QED
      BY <1>1, <1>2, <1>3, <3>1
  <2>4. Len(F) >= 1
    BY <1>1
  <2> QED
    BY <1>1, <1>4, <1>6, <2>1, <2>2, <2>3, <2>4, Zenon DEF FramesOK
<1>8. NativeOK(F, R)
  <2>1. R \in Seq([next : Nat, base : Int])
    BY DEF R
  <2>2. OpenedBy(FirstFrame) = 0
    BY <1>2 DEF OpenedBy
  <2>3. \A i, j \in 1..Len(F) : i < j => OpenedBy(F[i]) <= F[j].open
    BY <1>1
  <2>4. \A i \in 1..Len(F) : F[i].fromC => R[OpenedBy(F[i])] = [next |-> F[i].ret, base |-> F[i].base]
    BY <1>1, <1>2
  <2> QED
    BY <1>1, <1>3, <2>1, <2>2, <2>3, <2>4, Zenon DEF NativeOK
<1>9. BaseOf(t, FirstFrame, 1) = 0
  BY Zenon DEF BaseOf, BaseIn
<1>10. LinkOK(t, 1, Host, Junk, F)
  BY <1>1 DEF LinkOK
<1> QED
  BY <1>3, <1>7, <1>8, <1>9, <1>10, Zenon DEF F, R

-----------------------------------------------------------------------------
(* The first state.                                                          *)

(* The machine before the first fragment, d cells deep.                      *)
FirstMachine(d) == Machine(Junk, d, Junk, [i \in CellIndexes |-> Junk], <<>>, Bottom, <<>>)

LEMMA FirstMachineIs ==
    ASSUME NEW d
    PROVE  LET x == FirstMachine(d)
           IN  /\ x.scratch = Junk /\ x.rs = <<>> /\ x.dp = Bottom /\ x.heap = <<>> /\ x.depth = d
               /\ d \in 0..MaxCells => VmMachine(x)
               /\ d \in -1..(MaxCells - 1) => IsMachine(x)
<1> DEFINE x == FirstMachine(d)
           c == [i \in CellIndexes |-> Junk]
           h == <<>>
<1>1. Junk \in Cell
  BY DEF Junk, Cell, Half
<1>2. c \in [CellIndexes -> Cell]
  BY <1>1
<1>3. <<>> \in Seq(Entries)
  OBVIOUS
<1>4. h \in Heaps
  <2>1. h \in [{} -> 0..(Unit - 1)]
    OBVIOUS
  <2>2. {} \in SUBSET (Bottom..(Limit - 1))
    OBVIOUS
  <2> HIDE DEF h
  <2> QED
    BY <2>1, <2>2, Zenon DEF Heaps
<1>5. Bottom \in Bottom..Limit
  BY PrimitivesAssumption
<1> HIDE DEF c, h
<1>6. x = Machine(Junk, d, Junk, c, <<>>, Bottom, h)
  BY Zenon DEF FirstMachine, c, h
<1>7. /\ x.top = Junk /\ x.depth = d /\ x.scratch = Junk /\ x.cells = c /\ x.rs = <<>>
      /\ x.dp = Bottom /\ x.heap = h
  BY <1>6 DEF Machine
<1>8. x = Machine(x.top, x.depth, x.scratch, x.cells, x.rs, x.dp, x.heap)
  BY <1>6, <1>7, Zenon
<1> HIDE DEF x
<1>9. d \in 0..MaxCells => VmMachine(x)
  BY <1>1, <1>2, <1>3, <1>4, <1>5, <1>7, <1>8, Zenon DEF VmMachine
<1>10. d \in -1..(MaxCells - 1) => IsMachine(x)
  BY <1>1, <1>2, <1>3, <1>4, <1>5, <1>7, <1>8, Zenon DEF IsMachine
<1> QED
  BY <1>7, <1>9, <1>10, Zenon DEF x, h

(* The first state satisfies the invariant and starts the abstract machine.  *)
LEMMA InitInv ==
    ASSUME Init
    PROVE  Inv /\ Forth!Init
<1> DEFINE d == IF On("vm") THEN 0 ELSE -1
           x == FirstMachine(d)
<1>1. /\ task \in Tasks /\ k = 1 /\ base = 0 /\ lr = Host /\ home = Junk /\ native = <<>> /\ status = "running"
      /\ vars = [i \in 0..(VariableCount - 1) |-> 0] /\ frames = <<FirstFrame>>
  BY Zenon DEF Init, FirstFrame
<1>2. m = x
  <2>1. x = [top |-> Junk, depth |-> d, scratch |-> Junk, cells |-> [i \in 0..(MaxCells - 1) |-> Junk],
             rs |-> <<>>, dp |-> Bottom, heap |-> <<>>]
    BY Zenon DEF FirstMachine, Machine, CellIndexes
  <2> HIDE DEF x
  <2> QED
    BY <2>1, Zenon DEF Init
<1>3. MaxCells \in Int /\ MaxCells >= 1
  BY PrimitivesAssumption DEF Half
<1>4. d \in Int /\ (On("vm") => d \in 0..MaxCells /\ d = 0) /\ (~On("vm") => d \in -1..(MaxCells - 1) /\ d = -1)
  BY <1>3
<1> HIDE DEF d
<1>5. /\ m.scratch = Junk /\ m.rs = <<>> /\ m.dp = Bottom /\ m.heap = <<>> /\ m.depth = d
      /\ On("vm") => VmMachine(m)
      /\ ~On("vm") => IsMachine(m)
  BY <1>2, <1>4, FirstMachineIs, Zenon
<1> HIDE DEF x
<1>6. On("vm") <=> task.backend = "vm"
  BY Zenon DEF On, backend
<1>7. FlagsIn(task, 1) = {} /\ 1 \in Nat
  BY <1>1, FirstPlace, Zenon
<1>8. MachineOK(task, k, m) /\ (~On("vm") => StackOf(task, k, m) = InRegisters(m))
  <2>1. ~On("vm") => StackReady(task, 1, m) /\ StackOf(task, 1, m) = InRegisters(m)
    BY <1>1, <1>5, <1>6, <1>7, Plain, Zenon
  <2> QED
    BY <1>1, <1>5, <1>6, <2>1, Zenon DEF MachineOK
<1>9. VarsOK
  <2>1. 0 \in Cell
    BY DEF Cell, Half
  <2> QED
    BY <1>1, <2>1 DEF VarsOK
<1>10. FramesInv
  <2>1. /\ FramesOK(task, k, m.rs, frames) /\ Top(frames) = FirstFrame /\ NativeOK(frames, native)
        /\ BaseOf(task, FirstFrame, k) = 0 /\ LinkOK(task, k, lr, home, frames)
    BY <1>1, <1>5, FirstFrames, Zenon
  <2> QED
    BY <1>1, <2>1, Zenon DEF FramesInv
<1>11. Inv
  BY <1>8, <1>9, <1>10, Zenon DEF Inv
<1>12. DataStack = <<>>
  <2>1. k \in Nat
    BY <1>1
  <2>2. DataStack = StackOf(task, k, m)
    BY <2>1, Views, Zenon
  <2>3. CASE On("vm")
    <3>1. DataStack = InMemory(m)
      BY <1>6, <2>2, <2>3, Zenon DEF StackOf
    <3>2. m.depth = 0
      BY <1>4, <1>5, <2>3, Zenon
    <3> QED
      BY <3>1, <3>2 DEF InMemory
  <2>4. CASE ~On("vm")
    <3>1. DataStack = InRegisters(m)
      BY <1>8, <2>2, <2>4, Zenon
    <3>2. m.depth = -1
      BY <1>4, <1>5, <2>4, Zenon
    <3> QED
      BY <3>1, <3>2 DEF InRegisters
  <2> QED
    BY <2>3, <2>4, Zenon
<1>13. Calls = <<[ret |-> 0, rs |-> <<>>, below |-> 0]>>
  <2>1. Calls = CallsOf(<<FirstFrame>>, <<>>)
    BY <1>1, <1>5, CallsView, Zenon
  <2>2. /\ DOMAIN <<FirstFrame>> = {1} /\ <<FirstFrame>>[1] = FirstFrame
        /\ FirstFrame.ret = 0 /\ FirstFrame.below = 0 /\ FirstFrame.own + 1 = 1
    BY DEF FirstFrame
  <2>3. EndOf(<<FirstFrame>>, <<>>, 1) = 0
    BY DEF EndOf
  <2>4. CellsOf(<<>>, 1, 0) = <<>>
    BY DEF CellsOf
  <2>5. CallsOf(<<FirstFrame>>, <<>>) = [i \in {1} |-> [ret |-> 0, below |-> 0, rs |-> <<>>]]
    BY <2>2, <2>3, <2>4, Zenon DEF CallsOf
  <2>6. [i \in {1} |-> [ret |-> 0, below |-> 0, rs |-> <<>>]] = <<[ret |-> 0, rs |-> <<>>, below |-> 0]>>
    OBVIOUS
  <2> QED
    BY <2>1, <2>5, <2>6, Zenon
<1>14. Forth!IsProgram(program)
  BY <1>1, TasksAssumption, Zenon DEF program
<1> QED
  BY <1>1, <1>5, <1>11, <1>12, <1>13, <1>14, Zenon DEF Forth!Init

-----------------------------------------------------------------------------
(* Every step.                                                               *)

(* The programs that the finding about PUSH_CALLBACK is not about: on the    *)
(* ESP32-S3 each PUSH_CALLBACK is followed by code that is dumped over its   *)
(* stray store.                                                              *)
NoStrayStore ==
    \A t \in Tasks : t.backend = "esp32s3" =>
        \A i \in DOMAIN t.program.code : ~StoreStays(t.program.code, i)

LEMMA NothingStored ==
    ASSUME NoStrayStore, Inv, NativeStraight
    PROVE  vars' = vars
<1>1. task \in Tasks /\ backend = task.backend /\ Code = CodeOf(task) /\ k \in DOMAIN CodeOf(task)
  BY Here, Zenon
<1>2. vars' = vars \/ (On("esp32s3") /\ StoreStays(Code, k))
  BY Zenon DEF NativeStraight
<1>3. CASE On("esp32s3") /\ StoreStays(Code, k)
  <2>1. task.backend = "esp32s3"
    BY <1>1, <1>3, Zenon DEF On
  <2>2. StoreStays(task.program.code, k) /\ k \in DOMAIN task.program.code
    BY <1>1, <1>3, Zenon DEF CodeOf
  <2> QED
    BY <1>1, <2>1, <2>2, Zenon DEF NoStrayStore
<1> QED
  BY <1>2, <1>3, Zenon

(* Every step keeps the invariant, and is a step of the specification.     *)
LEMMA VmSteps ==
    ASSUME Inv, VmBuiltin \/ VmPush \/ VmDeclare \/ VmBranch \/ VmDo \/ VmLoop
                \/ VmEnterWord \/ VmLeaveWord \/ VmRuntime \/ VmFail
    PROVE  Inv' /\ Forth!Next
<1>1. Inv' /\ (Forth!Builtin \/ Forth!Push \/ Forth!Declare \/ Forth!Branch \/ Forth!Do \/ Forth!Loop
               \/ Forth!EnterWord \/ Forth!LeaveWord \/ Forth!Runtime \/ Forth!Fail)
  <2>1. CASE VmBuiltin
    BY <2>1, VmBuiltinStep, Zenon
  <2>2. CASE VmPush
    BY <2>2, VmPushStep, Zenon
  <2>3. CASE VmDeclare
    BY <2>3, VmDeclareStep, Zenon
  <2>4. CASE VmBranch
    BY <2>4, VmBranchStep, Zenon
  <2>5. CASE VmDo
    BY <2>5, VmDoStep, Zenon
  <2>6. CASE VmLoop
    BY <2>6, VmLoopStep, Zenon
  <2>7. CASE VmEnterWord
    BY <2>7, VmEnterWordStep, Zenon
  <2>8. CASE VmLeaveWord
    BY <2>8, VmLeaveWordStep, Zenon
  <2>9. CASE VmRuntime
    BY <2>9, VmRuntimeStep, Zenon
  <2>10. CASE VmFail
    BY <2>10, VmFailStep, Zenon
  <2> QED
    BY <2>1, <2>2, <2>3, <2>4, <2>5, <2>6, <2>7, <2>8, <2>9, <2>10, Zenon
<1> QED
  BY <1>1, Zenon DEF Forth!Next

LEMMA NativeSteps ==
    ASSUME Inv, NativeStraight \/ NativeDeclare \/ NativeBranch \/ NativeDo \/ NativeLoop
                \/ NativeEnterWord \/ NativeRuntime \/ X86Location \/ EspLocation \/ X86Exit \/ EspExit
    PROVE  Inv' /\ (NoStrayStore => Forth!Next)
<1>1. Inv' /\ (NoStrayStore =>
                  \/ Forth!Builtin \/ Forth!Push \/ Forth!Declare \/ Forth!Branch \/ Forth!Do \/ Forth!Loop
                  \/ Forth!EnterWord \/ Forth!LeaveWord \/ Forth!Runtime \/ Forth!Skip)
  <2>1. CASE NativeStraight
    BY <2>1, NativeStraightStep, NothingStored, Zenon
  <2>2. CASE NativeDeclare
    BY <2>2, NativeDeclareStep, Zenon
  <2>3. CASE NativeBranch
    BY <2>3, NativeBranchStep, Zenon
  <2>4. CASE NativeDo
    BY <2>4, NativeDoStep, Zenon
  <2>5. CASE NativeLoop
    BY <2>5, NativeLoopStep, Zenon
  <2>6. CASE NativeEnterWord
    BY <2>6, NativeEnterWordStep, Zenon
  <2>7. CASE NativeRuntime
    BY <2>7, NativeRuntimeStep, Zenon
  <2>8. CASE X86Location
    BY <2>8, X86LocationStep, Zenon
  <2>9. CASE EspLocation
    BY <2>9, EspLocationStep, Zenon
  <2>10. CASE X86Exit
    BY <2>10, X86ExitStep, Zenon
  <2>11. CASE EspExit
    BY <2>11, EspExitStep, Zenon
  <2> QED
    BY <2>1, <2>2, <2>3, <2>4, <2>5, <2>6, <2>7, <2>8, <2>9, <2>10, <2>11, Zenon
<1> QED
  BY <1>1, Zenon DEF Forth!Next

LEMMA EveryStep ==
    ASSUME Inv, Next
    PROVE  Inv' /\ (NoStrayStore => Forth!Next)
<1>1. CASE VmBuiltin \/ VmPush \/ VmDeclare \/ VmBranch \/ VmDo \/ VmLoop
           \/ VmEnterWord \/ VmLeaveWord \/ VmRuntime \/ VmFail
  BY <1>1, VmSteps, Zenon
<1>2. CASE NativeStraight \/ NativeDeclare \/ NativeBranch \/ NativeDo \/ NativeLoop
           \/ NativeEnterWord \/ NativeRuntime \/ X86Location \/ EspLocation \/ X86Exit \/ EspExit
  BY <1>2, NativeSteps, Zenon
<1>3. CASE Skip
  BY <1>3, SkipStep, Zenon DEF Forth!Next
<1>4. CASE Entry
  BY <1>4, EntryStep, Zenon DEF Forth!Next
<1>5. CASE Halt
  BY <1>5, HaltStep, Zenon DEF Forth!Next
<1> QED
  BY <1>1, <1>2, <1>3, <1>4, <1>5, Zenon DEF Next

LEMMA Stutters ==
    ASSUME Inv, UNCHANGED vars_
    PROVE  Inv' /\ UNCHANGED Forth!forthVars
<1>1. /\ task' = task /\ k' = k /\ m' = m /\ base' = base /\ lr' = lr /\ home' = home /\ native' = native
      /\ vars' = vars /\ status' = status /\ frames' = frames
  BY Zenon DEF vars_
<1>2. Inv'
  BY <1>1, Zenon DEF Inv, FramesInv, VarsOK
<1>3. DataStack' = DataStack /\ Calls' = Calls
  <2>1. k \in Nat /\ k' \in Nat
    BY <1>1, Here, Zenon
  <2>2. DataStack' = StackOf(task', k', m') /\ DataStack = StackOf(task, k, m)
    BY <2>1, Views, ViewsNext, Zenon
  <2> QED
    BY <1>1, <2>2, CallsView, Zenon
<1> QED
  BY <1>1, <1>2, <1>3, Zenon DEF Forth!forthVars, program

(* The engines' state stays well formed: the data stack within its memory, *)
(* the return stack and the data space within their limits, base within    *)
(* the return stack, whatever the programs and on every engine.            *)
THEOREM EngineTypes == Spec => []TypeOK
<1>1. Init => Inv
  BY InitInv
<1>2. Inv /\ [Next]_vars_ => Inv'
  BY EveryStep, Stutters
<1>3. Inv => TypeOK
  BY InvTypes
<1> QED
  BY <1>1, <1>2, <1>3, PTL DEF Spec

(* The interpreter's run_inner and the machine code that both backends dump  *)
(* execute a program as the abstract Forth machine of ForthMachine does,     *)
(* call by call and cell by cell: the same data stack, the same cells of     *)
(* every open word on its return stack, the same data space, heap and        *)
(* variables, though machine code leaves chores out between fragments, keeps *)
(* the top in a register and saves only what a word's flags say. It holds of *)
(* every program but those of the finding esp_callback: on the ESP32-S3      *)
(* PUSH_CALLBACK falls through to DECLARE_CONSTANT's store, which stays in   *)
(* front of a BRANCH_LOCATION if the counted code does not end aligned.      *)
THEOREM EnginesImplementForth ==
    ASSUME NoStrayStore
    PROVE  Spec => ImplementsForth
<1>1. Init => Inv /\ Forth!Init
  BY InitInv
<1>2. Inv /\ [Next]_vars_ => Inv' /\ [Forth!Next]_(Forth!forthVars)
  BY EveryStep, Stutters
<1> QED
  BY <1>1, <1>2, PTL DEF Spec, ImplementsForth, Forth!Spec

-----------------------------------------------------------------------------
(* What is stored.                                                           *)

(* Only the two declarations store, where no stray store stays.            *)
LEMMA StoringStep ==
    ASSUME NoStrayStore, Inv, Next, vars' # vars
    PROVE  Fragment.op \in {"DECLARE_VARIABLE", "DECLARE_CONSTANT"}
<1>1. \/ VmDeclare \/ NativeDeclare \/ NativeStraight
  <2>1. CASE VmBuiltin \/ VmPush \/ VmBranch \/ VmDo \/ VmLoop \/ VmEnterWord \/ VmLeaveWord \/ VmRuntime \/ VmFail
    BY <2>1, Zenon DEF VmBuiltin, VmPush, VmBranch, VmDo, VmLoop, VmEnterWord, VmLeaveWord, VmRuntime, VmFail
  <2>2. CASE NativeBranch \/ NativeDo \/ NativeLoop \/ NativeEnterWord \/ NativeRuntime
             \/ X86Location \/ EspLocation \/ X86Exit \/ EspExit
    BY <2>2, Zenon DEF NativeBranch, NativeDo, NativeLoop, NativeEnterWord, NativeRuntime,
                       X86Location, EspLocation, X86Exit, EspExit
  <2>3. CASE Skip \/ Entry \/ Halt
    BY <2>3, Zenon DEF Skip, Entry, Halt
  <2> QED
    BY <2>1, <2>2, <2>3, Zenon DEF Next
<1>2. ~NativeStraight
  BY NothingStored, Zenon
<1>3. \/ Fragment.op = "DECLARE_VARIABLE" \/ Fragment.op = "DECLARE_CONSTANT"
  BY <1>1, <1>2, Zenon DEF VmDeclare, NativeDeclare, Vm, Native, Running
<1> QED
  BY <1>3

(* Variables and constants are written by their declarations alone, which is *)
(* what the bytecode interpreter does and what the engines' machine code     *)
(* does for every program but those of the finding esp_callback.             *)
THEOREM DeclarationsStore ==
    ASSUME NoStrayStore
    PROVE  Spec => OnlyDeclarationsStore
<1>1. Init => Inv
  BY InitInv
<1>2. Inv /\ [Next]_vars_ => Inv'
  BY EveryStep, Stutters
<1>3. Inv /\ [Next]_vars_ => [vars' # vars => Fragment.op \in {"DECLARE_VARIABLE", "DECLARE_CONSTANT"}]_vars_
  <2>1. Inv /\ Next => (vars' # vars => Fragment.op \in {"DECLARE_VARIABLE", "DECLARE_CONSTANT"})
    BY StoringStep
  <2> QED
    BY <2>1
<1> QED
  BY <1>1, <1>2, <1>3, PTL DEF Spec, OnlyDeclarationsStore
=============================================================================
