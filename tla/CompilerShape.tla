--------------------------- MODULE CompilerShape ----------------------------
(***************************************************************************)
(* The shape of the code the front end emits: first while the source is    *)
(* read, then what the end of the source makes of it, and the theorems on  *)
(* accepted programs.                                                      *)
(***************************************************************************)
EXTENDS CompilerProofs

-----------------------------------------------------------------------------
(* While the source is read: what the code up to here and the control-flow *)
(* stack say of each other, first as lemmas on plain sequences, one for    *)
(* each way to add to the code, then for every word of the source.         *)

(* The fragments in the order they are emitted in.                         *)
Code(fs, s) == [k \in 1..Len(s) |-> fs[s[k]]]

(* The entry at k belongs to a word.                                       *)
Inside(e, k) == e[k].inWord = TRUE

(* Loops entered and not left in front of k, by the opcodes in front.      *)
Ahead(e, k, o) == {m \in 1..(k - 1) : e[m].op = o}
Nest(e, k) == Cardinality(Ahead(e, k, "DO")) - Cardinality(Ahead(e, k, "LOOP"))

(* Counting one entry more.                                                *)
LEMMA AheadNext ==
    ASSUME NEW e, NEW k \in Nat \ {0}, NEW o
    PROVE  /\ IsFiniteSet(Ahead(e, k, o)) /\ Cardinality(Ahead(e, k, o)) \in Nat
           /\ Cardinality(Ahead(e, k + 1, o)) =
                Cardinality(Ahead(e, k, o)) + IF e[k].op = o THEN 1 ELSE 0
<1>1. IsFiniteSet(Ahead(e, k, o)) /\ Cardinality(Ahead(e, k, o)) \in Nat
  <2>1. Ahead(e, k, o) \in SUBSET (1..(k - 1)) /\ IsFiniteSet(1..(k - 1))
    <3>1. k - 1 \in Nat
      OBVIOUS
    <3> QED BY <3>1, Numbers DEF Ahead
  <2> QED BY <2>1, FS_Subset, FS_CardinalityType
<1>2. k \notin Ahead(e, k, o)
  BY DEF Ahead
<1>3. CASE e[k].op = o
  <2>1. Ahead(e, k + 1, o) = Ahead(e, k, o) \cup {k}
    BY <1>3 DEF Ahead
  <2> QED BY <1>1, <1>2, <1>3, <2>1, FS_AddElement
<1>4. CASE e[k].op # o
  <2>1. Ahead(e, k + 1, o) = Ahead(e, k, o)
    BY <1>4 DEF Ahead
  <2> QED BY <1>1, <1>4, <2>1
<1> QED BY <1>1, <1>3, <1>4

(* How the opcodes change the depth.                                       *)
LEMMA NestNext ==
    ASSUME NEW e, NEW k \in Nat \ {0}
    PROVE  /\ Nest(e, k) \in Int /\ Nest(e, 1) = 0
           /\ e[k].op = "DO" => Nest(e, k + 1) = Nest(e, k) + 1
           /\ e[k].op = "LOOP" => Nest(e, k + 1) = Nest(e, k) - 1
           /\ e[k].op \notin {"DO", "LOOP"} => Nest(e, k + 1) = Nest(e, k)
<1> DEFINE a == Cardinality(Ahead(e, k, "DO"))
           b == Cardinality(Ahead(e, k, "LOOP"))
           x == Cardinality(Ahead(e, k + 1, "DO"))
           y == Cardinality(Ahead(e, k + 1, "LOOP"))
<1>1. /\ a \in Nat /\ b \in Nat
      /\ x = a + (IF e[k].op = "DO" THEN 1 ELSE 0) /\ y = b + (IF e[k].op = "LOOP" THEN 1 ELSE 0)
  BY AheadNext
<1>2. Nest(e, k) = a - b /\ Nest(e, k + 1) = x - y
  BY DEF Nest
<1>3. Nest(e, 1) = 0
  <2>1. \A o : Ahead(e, 1, o) = {}
    BY DEF Ahead
  <2>2. Cardinality({}) = 0
    BY FS_EmptySet
  <2> QED BY <2>1, <2>2 DEF Nest
<1> HIDE DEF a, b, x, y
<1> QED BY <1>1, <1>2, <1>3

(* The depth in front of k depends on what is in front of k.               *)
LEMMA NestSame ==
    ASSUME NEW e, NEW f, NEW k \in Nat, \A m \in 1..(k - 1) : f[m] = e[m]
    PROVE  Nest(f, k) = Nest(e, k)
<1>1. \A o : Ahead(f, k, o) = Ahead(e, k, o)
  BY DEF Ahead
<1> QED BY <1>1 DEF Nest

(* The loops among the first j constructs of the stack.                    *)
Loops(c, j) == Cardinality({m \in 1..j : c[m].type = "DO"})

(* Counting one construct more.                                            *)
LEMMA LoopsNext ==
    ASSUME NEW c, NEW j \in Nat
    PROVE  /\ Loops(c, 0) = 0 /\ Loops(c, j) \in Nat
           /\ c[j + 1].type = "DO" => Loops(c, j + 1) = Loops(c, j) + 1
           /\ c[j + 1].type # "DO" => Loops(c, j + 1) = Loops(c, j)
<1> DEFINE D(i) == {m \in 1..i : c[m].type = "DO"}
<1>1. IsFiniteSet(D(j)) /\ Cardinality(D(j)) \in Nat
  <2>1. D(j) \in SUBSET (1..j) /\ IsFiniteSet(1..j)
    BY Numbers
  <2> QED BY <2>1, FS_Subset, FS_CardinalityType
<1>2. D(0) = {} /\ j + 1 \notin D(j)
  OBVIOUS
<1>3. c[j + 1].type = "DO" => D(j + 1) = D(j) \cup {j + 1}
  OBVIOUS
<1>4. c[j + 1].type # "DO" => D(j + 1) = D(j)
  <2> SUFFICES ASSUME c[j + 1].type # "DO"
               PROVE  D(j + 1) = D(j)
    OBVIOUS
  <2>1. \A m \in 1..(j + 1) : m \in 1..j \/ m = j + 1
    OBVIOUS
  <2>2. \A m \in 1..j : m \in 1..(j + 1)
    OBVIOUS
  <2> QED BY <2>1, <2>2
<1>5. \A i : Loops(c, i) = Cardinality(D(i))
  BY DEF Loops
<1> HIDE DEF D
<1>6. c[j + 1].type = "DO" => Loops(c, j + 1) = Loops(c, j) + 1
  BY <1>1, <1>2, <1>3, <1>5, FS_AddElement
<1>7. Loops(c, 0) = 0
  BY <1>2, <1>5, FS_EmptySet
<1> QED BY <1>1, <1>4, <1>5, <1>6, <1>7

(* The count depends on the constructs counted.                            *)
LEMMA LoopsSame ==
    ASSUME NEW c, NEW d, NEW j \in Nat, \A m \in 1..j : d[m] = c[m]
    PROVE  Loops(d, j) = Loops(c, j)
BY DEF Loops

-----------------------------------------------------------------------------
(* The words and the main program.                                         *)

(* k is the first entry of a word, or of the main program behind a word.   *)
Seam(e, k) == e[k].op = "DEFINED_WORD_LOCATION" \/ ~(Inside(e, k) <=> Inside(e, k - 1))

(* k lies in the word whose location is at f.                              *)
InBody(e, f, k) ==
    /\ f <= k /\ e[f].op = "DEFINED_WORD_LOCATION"
    /\ \A j \in f..k : Inside(e, j) /\ (j # f => e[j].op # "DEFINED_WORD_LOCATION")

(* ENTRY comes first and only there; locations and exits belong to words.  *)
Kinds(N, e) == \A k \in 1..N :
    /\ e[k].op = "ENTRY" <=> k = 1
    /\ e[k].op = "ENTRY" => ~Inside(e, k)
    /\ e[k].op # "HALT"
    /\ e[k].op \in {"DEFINED_WORD_LOCATION", "EXIT_WORD"} => Inside(e, k)

(* A word begins at its location, where no loop is open, and the word in   *)
(* front of it, or of the main program's next entry, ends in an exit.      *)
Seams(N, e) == \A k \in 2..N :
    /\ Inside(e, k) /\ e[k].op # "DEFINED_WORD_LOCATION" => Inside(e, k - 1)
    /\ Seam(e, k) => Nest(e, k) = 0 /\ (Inside(e, k - 1) => e[k - 1].op = "EXIT_WORD")

(* An exit names the word it is in.                                        *)
Exits(N, e, s) == \A k \in 1..N :
    e[k].op = "EXIT_WORD" =>
        e[k].param \in 1..k /\ InBody(e, e[k].param, k) /\ s[e[k].param] = e[k].param

(* The code ends in the word being defined, at d, or in the main program,  *)
(* or with the exit of the last word.                                      *)
Ends(N, e, s, d, f) ==
    /\ d = TRUE => f \in 1..N /\ InBody(e, f, N) /\ s[f] = f
    /\ d = FALSE /\ Inside(e, N) => e[N].op = "EXIT_WORD"

(* The words and the main program up to N, in order.                       *)
Regional(N, e, s, d, f) ==
    /\ N \in Nat \ {0} /\ d \in BOOLEAN
    /\ Kinds(N, e) /\ Seams(N, e) /\ Exits(N, e, s) /\ Ends(N, e, s, d, f)

(* What is true of the code does not depend on what follows it.            *)
LEMMA RegionalSame ==
    ASSUME NEW N, NEW e, NEW s, NEW d, NEW f, Regional(N, e, s, d, f), NEW g, NEW t,
           \A k \in 1..N : g[k] = e[k] /\ t[k] = s[k]
    PROVE  Regional(N, g, t, d, f)
<1>1. N \in Nat \ {0} /\ d \in BOOLEAN
      /\ Kinds(N, e) /\ Seams(N, e) /\ Exits(N, e, s) /\ Ends(N, e, s, d, f)
  BY DEF Regional
<1>2. \A k \in 1..N : g[k] = e[k] /\ t[k] = s[k] /\ (Inside(g, k) <=> Inside(e, k))
  BY DEF Inside
<1>3. \A k \in 2..N : k \in 1..N /\ k - 1 \in 1..N
  BY <1>1
<1>4. \A k \in 1..N : Nest(g, k) = Nest(e, k)
  <2> SUFFICES ASSUME NEW k \in 1..N
               PROVE  Nest(g, k) = Nest(e, k)
    OBVIOUS
  <2>1. \A m \in 1..(k - 1) : m \in 1..N
    BY <1>1
  <2> QED BY <2>1, <1>2, NestSame
<1>5. \A k, h \in 1..N : InBody(e, h, k) => InBody(g, h, k)
  <2> SUFFICES ASSUME NEW k \in 1..N, NEW h \in 1..N, InBody(e, h, k)
               PROVE  InBody(g, h, k)
    OBVIOUS
  <2>1. \A j \in h..k : j \in 1..N
    BY <1>1
  <2> QED BY <2>1, <1>2 DEF InBody
<1>6. Kinds(N, g)
  BY <1>1, <1>2 DEF Kinds
<1>7. Seams(N, g)
  <2>1. \A k \in 2..N : Seam(g, k) <=> Seam(e, k)
    BY <1>2, <1>3 DEF Seam
  <2> QED BY <2>1, <1>1, <1>2, <1>3, <1>4 DEF Seams
<1>8. Exits(N, g, t)
  <2> SUFFICES ASSUME NEW k \in 1..N, g[k].op = "EXIT_WORD"
               PROVE  g[k].param \in 1..k /\ InBody(g, g[k].param, k) /\ t[g[k].param] = g[k].param
    BY DEF Exits
  <2>1. /\ e[k].param \in 1..k /\ InBody(e, e[k].param, k) /\ s[e[k].param] = e[k].param
        /\ g[k] = e[k]
    BY <1>1, <1>2 DEF Exits
  <2>2. e[k].param \in 1..N
    BY <1>1, <2>1
  <2> QED BY <2>1, <2>2, <1>2, <1>5
<1>9. Ends(N, g, t, d, f)
  <2>1. N \in 1..N
    BY <1>1
  <2> QED BY <2>1, <1>1, <1>2, <1>5 DEF Ends
<1> QED BY <1>1, <1>6, <1>7, <1>8, <1>9 DEF Regional

(* One entry more, in the word being defined or in the main program.       *)
LEMMA RegionalNext ==
    ASSUME NEW N, NEW e, NEW s, NEW d, NEW f, Regional(N, e, s, d, f),
           e[N + 1].op \notin {"ENTRY", "HALT", "DEFINED_WORD_LOCATION"},
           e[N + 1].inWord = d,
           e[N + 1].op = "EXIT_WORD" => d = TRUE /\ e[N + 1].param = f,
           d = FALSE /\ Inside(e, N) => Nest(e, N + 1) = 0
    PROVE  Regional(N + 1, e, s, d, f)
<1>1. N \in Nat \ {0} /\ d \in BOOLEAN
      /\ Kinds(N, e) /\ Seams(N, e) /\ Exits(N, e, s) /\ Ends(N, e, s, d, f)
  BY DEF Regional
<1>2. Inside(e, N + 1) <=> d = TRUE
  BY DEF Inside
<1>3. \A k \in 1..(N + 1) : k \in 1..N \/ k = N + 1
  BY <1>1
<1>4. d = TRUE => f \in 1..N /\ InBody(e, f, N) /\ s[f] = f /\ Inside(e, N)
  BY <1>1 DEF Ends, InBody
<1>5. d = TRUE => InBody(e, f, N + 1)
  <2> SUFFICES ASSUME d = TRUE
               PROVE  InBody(e, f, N + 1)
    OBVIOUS
  <2>1. \A j \in f..(N + 1) : j \in f..N \/ (j = N + 1 /\ j # f)
    BY <1>1, <1>4
  <2>2. f <= N + 1
    BY <1>1, <1>4
  <2> QED BY <2>1, <2>2, <1>2, <1>4 DEF InBody
<1>6. Kinds(N + 1, e)
  <2>1. N + 1 # 1
    BY <1>1
  <2> QED BY <2>1, <1>1, <1>2, <1>3 DEF Kinds
<1>7. Seams(N + 1, e)
  <2> SUFFICES ASSUME NEW k \in 2..(N + 1)
               PROVE  /\ Inside(e, k) /\ e[k].op # "DEFINED_WORD_LOCATION" => Inside(e, k - 1)
                      /\ Seam(e, k) => Nest(e, k) = 0 /\ (Inside(e, k - 1) => e[k - 1].op = "EXIT_WORD")
    BY DEF Seams
  <2>1. CASE k \in 2..N
    BY <2>1, <1>1 DEF Seams
  <2>2. CASE k = N + 1
    <3>1. k - 1 = N
      BY <2>2, <1>1
    <3>2. Inside(e, k) => Inside(e, k - 1)
      BY <3>1, <2>2, <1>2, <1>4
    <3>3. Seam(e, k) => d = FALSE /\ Inside(e, N)
      BY <3>1, <2>2, <1>1, <1>2, <1>4 DEF Seam
    <3> QED BY <3>1, <3>2, <3>3, <2>2, <1>1 DEF Ends
  <2> QED BY <2>1, <2>2, <1>1
<1>8. Exits(N + 1, e, s)
  <2>1. e[N + 1].op = "EXIT_WORD" => /\ e[N + 1].param \in 1..(N + 1)
                                    /\ InBody(e, e[N + 1].param, N + 1)
                                    /\ s[e[N + 1].param] = e[N + 1].param
    BY <1>1, <1>4, <1>5
  <2> QED BY <2>1, <1>1, <1>3 DEF Exits
<1>9. Ends(N + 1, e, s, d, f)
  <2>1. d = TRUE => f \in 1..(N + 1)
    BY <1>1, <1>4
  <2> QED BY <2>1, <1>2, <1>4, <1>5 DEF Ends
<1>10. N + 1 \in Nat \ {0}
  BY <1>1
<1> QED BY <1>1, <1>6, <1>7, <1>8, <1>9, <1>10 DEF Regional

(* A colon: the location of a new word.                                    *)
LEMMA RegionalColon ==
    ASSUME NEW N, NEW e, NEW s, NEW f, Regional(N, e, s, FALSE, f),
           e[N + 1].op = "DEFINED_WORD_LOCATION", e[N + 1].inWord = TRUE,
           s[N + 1] = N + 1, Nest(e, N + 1) = 0
    PROVE  Regional(N + 1, e, s, TRUE, N + 1)
<1>1. N \in Nat \ {0}
      /\ Kinds(N, e) /\ Seams(N, e) /\ Exits(N, e, s) /\ Ends(N, e, s, FALSE, f)
  BY DEF Regional
<1>2. Inside(e, N + 1)
  BY DEF Inside
<1>3. \A k \in 1..(N + 1) : k \in 1..N \/ k = N + 1
  BY <1>1
<1>5. InBody(e, N + 1, N + 1)
  <2>1. \A j \in (N + 1)..(N + 1) : j = N + 1
    BY <1>1
  <2>2. N + 1 <= N + 1
    BY <1>1
  <2> QED BY <2>1, <2>2, <1>2 DEF InBody
<1>6. Kinds(N + 1, e)
  <2>1. N + 1 # 1
    BY <1>1
  <2> QED BY <2>1, <1>1, <1>2, <1>3 DEF Kinds
<1>7. Seams(N + 1, e)
  <2> SUFFICES ASSUME NEW k \in 2..(N + 1)
               PROVE  /\ Inside(e, k) /\ e[k].op # "DEFINED_WORD_LOCATION" => Inside(e, k - 1)
                      /\ Seam(e, k) => Nest(e, k) = 0 /\ (Inside(e, k - 1) => e[k - 1].op = "EXIT_WORD")
    BY DEF Seams
  <2>1. CASE k \in 2..N
    BY <2>1, <1>1 DEF Seams
  <2>2. CASE k = N + 1
    <3>1. k - 1 = N
      BY <2>2, <1>1
    <3> QED BY <3>1, <2>2, <1>1 DEF Ends
  <2> QED BY <2>1, <2>2, <1>1
<1>8. Exits(N + 1, e, s)
  BY <1>1, <1>3 DEF Exits
<1>9. Ends(N + 1, e, s, TRUE, N + 1)
  <2>1. N + 1 \in 1..(N + 1)
    BY <1>1
  <2> QED BY <2>1, <1>5 DEF Ends
<1>10. N + 1 \in Nat \ {0}
  BY <1>1
<1> QED BY <1>6, <1>7, <1>8, <1>9, <1>10 DEF Regional

(* A semicolon: the word ends with its exit.                               *)
LEMMA RegionalSemicolon ==
    ASSUME NEW N, NEW e, NEW s, NEW f, Regional(N, e, s, TRUE, f), e[N].op = "EXIT_WORD", NEW g
    PROVE  Regional(N, e, s, FALSE, g)
  BY DEF Regional, Ends

(* Every entry of a word has a location in front of it.                    *)
LEMMA BodyExists ==
    ASSUME NEW N \in Nat \ {0}, NEW e, Kinds(N, e), Seams(N, e), NEW k \in 1..N, Inside(e, k)
    PROVE  \E f \in 1..k : InBody(e, f, k)
<1> DEFINE Bad == {i \in 1..N : Inside(e, i) /\ ~ \E f \in 1..i : InBody(e, f, i)}
<1> SUFFICES ASSUME Bad # {}
             PROVE  FALSE
  OBVIOUS
<1>1. PICK i \in Bad : \A m \in Bad : i <= m
  <2>1. Bad \in SUBSET Nat
    OBVIOUS
  <2> HIDE DEF Bad
  <2> QED BY <2>1, LeastElement
<1>2. i \in 1..N /\ Inside(e, i) /\ ~ \E f \in 1..i : InBody(e, f, i)
  BY <1>1
<1>3. e[i].op # "DEFINED_WORD_LOCATION"
  <2> SUFFICES ASSUME e[i].op = "DEFINED_WORD_LOCATION"
               PROVE  FALSE
    OBVIOUS
  <2>1. \A j \in i..i : j = i
    BY <1>2
  <2>2. i <= i /\ i \in 1..i
    BY <1>2
  <2>3. InBody(e, i, i)
    BY <2>1, <2>2, <1>2 DEF InBody
  <2> QED BY <2>2, <2>3, <1>2
<1>4. i # 1
  BY <1>2 DEF Kinds
<1>5. i \in 2..N /\ i - 1 \in 1..N
  BY <1>2, <1>4
<1>6. Inside(e, i - 1)
  BY <1>2, <1>3, <1>5 DEF Seams
<1>7. i - 1 \notin Bad
  BY <1>1, <1>5
<1>8. PICK f \in 1..(i - 1) : InBody(e, f, i - 1)
  BY <1>5, <1>6, <1>7
<1>9. InBody(e, f, i) /\ f \in 1..i
  <2>1. \A j \in f..i : j \in f..(i - 1) \/ (j = i /\ j # f)
    BY <1>5, <1>8
  <2>2. f <= i /\ f \in 1..i
    BY <1>5, <1>8
  <2> QED BY <2>1, <2>2, <1>2, <1>3, <1>8 DEF InBody
<1> QED BY <1>2, <1>9

-----------------------------------------------------------------------------
(* Branches and the constructs that are open.                              *)

(* A branch, forward or backward.                                          *)
Branching(e, k) == e[k].op \in {"BRANCH", "BRANCH_IF_ZERO", "LOOP"}

(* j and k both lie in the main program, or in one word.                   *)
Together(e, j, k) ==
    \/ ~Inside(e, j) /\ ~Inside(e, k)
    \/ \E f \in 1..j : InBody(e, f, j) /\ InBody(e, f, k)

(* k lies in the word being defined, or in the main program outside words. *)
Current(e, d, f, k) == IF d = TRUE THEN f \in 1..k /\ InBody(e, f, k) ELSE ~Inside(e, k)

(* The entry in front of t is the do of a loop.                            *)
Header(e, t) == t > 1 /\ e[t - 1].op = "DO" /\ (Inside(e, t - 1) <=> Inside(e, t))

(* A branch arrives where it should.                                       *)
Arrives(N, e, s) == \A k, t \in 1..N :
    Branching(e, k) /\ s[t] = e[k].param =>
        /\ Together(e, t, k) /\ Nest(e, t) = Nest(e, k)
        /\ e[k].op = "LOOP" => Header(e, t)

(* Branches to a target that the construct j owes are at its depth.        *)
Awaited(N, e, c, d, f) == \A k \in 1..N, j \in 1..Len(c) :
    Branching(e, k) /\ c[j].type \in Owing /\ e[k].param = c[j].frag =>
        Current(e, d, f, k) /\ Nest(e, k) = Loops(c, j - 1) /\ e[k].op # "LOOP"

(* So are the targets already emitted, of begin and do.                    *)
Begun(N, e, s, c, d, f) == \A t \in 1..N, j \in 1..Len(c) :
    c[j].type \notin Owing /\ s[t] = c[j].frag =>
        /\ Current(e, d, f, t) /\ Nest(e, t) = Loops(c, j)
        /\ c[j].type = "DO" => Header(e, t)

(* i and j stand in one and two loops.                                     *)
Indexed(N, e) == \A k \in 1..N :
    e[k].op = "BUILTIN_WORD" =>
        (e[k].param = 15 => Nest(e, k) >= 1) /\ (e[k].param = 16 => Nest(e, k) >= 2)

(* Every construct has a target of its own.                                *)
Distinct(c) == \A i, j \in 1..Len(c) : c[i].frag = c[j].frag => i = j

(* The constructs of the code up to N and of the stack, in order.          *)
Nested(N, e, s, c, d, f) ==
    /\ N \in Nat \ {0} /\ Len(c) \in Nat
    /\ Arrives(N, e, s) /\ Awaited(N, e, c, d, f) /\ Begun(N, e, s, c, d, f)
    /\ Indexed(N, e) /\ Distinct(c)

(* All of this depends on the code up to N only.                           *)
LEMMA NestedSame ==
    ASSUME NEW N, NEW e, NEW s, NEW c, NEW d, NEW f, Nested(N, e, s, c, d, f), NEW g, NEW t,
           \A k \in 1..N : g[k] = e[k] /\ t[k] = s[k]
    PROVE  Nested(N, g, t, c, d, f)
<1>1. /\ N \in Nat \ {0} /\ Len(c) \in Nat
      /\ Arrives(N, e, s) /\ Awaited(N, e, c, d, f) /\ Begun(N, e, s, c, d, f)
      /\ Indexed(N, e) /\ Distinct(c)
  BY DEF Nested
<1>2. \A k \in 1..N : /\ g[k] = e[k] /\ t[k] = s[k] /\ (Inside(g, k) <=> Inside(e, k))
                      /\ (Branching(g, k) <=> Branching(e, k))
  BY DEF Inside, Branching
<1>3. \A k \in 1..N : Nest(g, k) = Nest(e, k)
  <2> SUFFICES ASSUME NEW k \in 1..N
               PROVE  Nest(g, k) = Nest(e, k)
    OBVIOUS
  <2>1. \A m \in 1..(k - 1) : m \in 1..N
    BY <1>1
  <2> QED BY <2>1, <1>2, NestSame
<1>4. \A k, h \in 1..N : InBody(e, h, k) => InBody(g, h, k)
  <2> SUFFICES ASSUME NEW k \in 1..N, NEW h \in 1..N, InBody(e, h, k)
               PROVE  InBody(g, h, k)
    OBVIOUS
  <2>1. \A j \in h..k : j \in 1..N
    BY <1>1
  <2> QED BY <2>1, <1>2 DEF InBody
<1>5. \A k \in 1..N : \A h \in 1..k : h \in 1..N
  BY <1>1
<1>6. \A k, h \in 1..N : Together(e, h, k) => Together(g, h, k)
  BY <1>2, <1>4, <1>5 DEF Together
<1>7. \A k \in 1..N : Current(e, d, f, k) => Current(g, d, f, k)
  BY <1>2, <1>4, <1>5 DEF Current
<1>8. \A k \in 1..N : Header(e, k) => Header(g, k)
  <2> SUFFICES ASSUME NEW k \in 1..N, Header(e, k)
               PROVE  Header(g, k)
    OBVIOUS
  <2>1. k > 1 /\ k - 1 \in 1..N
    BY <1>1 DEF Header
  <2> QED BY <2>1, <1>2 DEF Header
<1>9. Arrives(N, g, t)
  <2> SUFFICES ASSUME NEW k \in 1..N, NEW m \in 1..N, Branching(g, k), t[m] = g[k].param
               PROVE  /\ Together(g, m, k) /\ Nest(g, m) = Nest(g, k)
                      /\ g[k].op = "LOOP" => Header(g, m)
    BY DEF Arrives
  <2>1. /\ Together(e, m, k) /\ Nest(e, m) = Nest(e, k)
        /\ e[k].op = "LOOP" => Header(e, m)
    BY <1>1, <1>2 DEF Arrives
  <2> QED BY <2>1, <1>2, <1>3, <1>6, <1>8
<1>10. Awaited(N, g, c, d, f)
  <2> SUFFICES ASSUME NEW k \in 1..N, NEW j \in 1..Len(c),
                      Branching(g, k), c[j].type \in Owing, g[k].param = c[j].frag
               PROVE  Current(g, d, f, k) /\ Nest(g, k) = Loops(c, j - 1) /\ g[k].op # "LOOP"
    BY DEF Awaited
  <2>1. Current(e, d, f, k) /\ Nest(e, k) = Loops(c, j - 1) /\ e[k].op # "LOOP"
    BY <1>1, <1>2 DEF Awaited
  <2> QED BY <2>1, <1>2, <1>3, <1>7
<1>11. Begun(N, g, t, c, d, f)
  <2> SUFFICES ASSUME NEW k \in 1..N, NEW j \in 1..Len(c),
                      c[j].type \notin Owing, t[k] = c[j].frag
               PROVE  /\ Current(g, d, f, k) /\ Nest(g, k) = Loops(c, j)
                      /\ c[j].type = "DO" => Header(g, k)
    BY DEF Begun
  <2>1. /\ Current(e, d, f, k) /\ Nest(e, k) = Loops(c, j)
        /\ c[j].type = "DO" => Header(e, k)
    BY <1>1, <1>2 DEF Begun
  <2> QED BY <2>1, <1>2, <1>3, <1>7, <1>8
<1>12. Indexed(N, g)
  BY <1>1, <1>2, <1>3 DEF Indexed
<1> QED BY <1>1, <1>9, <1>10, <1>11, <1>12 DEF Nested

(* f is no target of a branch, nor of a construct.                         *)
Unused(N, e, c, f) ==
    /\ \A k \in 1..N : Branching(e, k) => e[k].param # f
    /\ \A j \in 1..Len(c) : c[j].frag # f

(* i and j, when they are compiled, are in enough loops.                   *)
IndexedAt(e, k) ==
    e[k].op = "BUILTIN_WORD" =>
        (e[k].param = 15 => Nest(e, k) >= 1) /\ (e[k].param = 16 => Nest(e, k) >= 2)

(* One entry more that closes nothing; a branch leads to a new target.     *)
LEMMA NestedNext ==
    ASSUME NEW N, NEW e, NEW s, NEW c, NEW d, NEW f, Nested(N, e, s, c, d, f),
           Unused(N, e, c, s[N + 1]), IndexedAt(e, N + 1),
           Branching(e, N + 1) => /\ \A t \in 1..(N + 1) : s[t] # e[N + 1].param
                                  /\ \A j \in 1..Len(c) : c[j].frag # e[N + 1].param
    PROVE  Nested(N + 1, e, s, c, d, f)
<1>1. /\ N \in Nat \ {0} /\ Len(c) \in Nat
      /\ Arrives(N, e, s) /\ Awaited(N, e, c, d, f) /\ Begun(N, e, s, c, d, f)
      /\ Indexed(N, e) /\ Distinct(c)
  BY DEF Nested
<1>2. \A k \in 1..(N + 1) : k \in 1..N \/ k = N + 1
  BY <1>1
<1>3. Arrives(N + 1, e, s)
  <2> SUFFICES ASSUME NEW k \in 1..(N + 1), NEW t \in 1..(N + 1),
                      Branching(e, k), s[t] = e[k].param
               PROVE  /\ Together(e, t, k) /\ Nest(e, t) = Nest(e, k)
                      /\ e[k].op = "LOOP" => Header(e, t)
    BY DEF Arrives
  <2>1. k \in 1..N
    BY <1>2
  <2>2. t \in 1..N
    BY <2>1, <1>2 DEF Unused
  <2> QED BY <2>1, <2>2, <1>1 DEF Arrives
<1>4. Awaited(N + 1, e, c, d, f)
  BY <1>1, <1>2 DEF Awaited
<1>5. Begun(N + 1, e, s, c, d, f)
  BY <1>1, <1>2 DEF Begun, Unused
<1>6. Indexed(N + 1, e)
  BY <1>1, <1>2 DEF Indexed, IndexedAt
<1>7. N + 1 \in Nat \ {0}
  BY <1>1
<1> QED BY <1>1, <1>3, <1>4, <1>5, <1>6, <1>7 DEF Nested

(* A target that the construct i owed, at the depth it was owed at.        *)
LEMMA NestedLabel ==
    ASSUME NEW N, NEW e, NEW s, NEW c, NEW d, NEW f, Nested(N, e, s, c, d, f),
           NEW i \in 1..Len(c), c[i].type \in Owing, s[N + 1] = c[i].frag,
           e[N + 1].op = "BRANCH_LOCATION", Current(e, d, f, N + 1),
           Nest(e, N + 1) = Loops(c, i - 1)
    PROVE  Nested(N + 1, e, s, c, d, f)
<1>1. /\ N \in Nat \ {0} /\ Len(c) \in Nat
      /\ Arrives(N, e, s) /\ Awaited(N, e, c, d, f) /\ Begun(N, e, s, c, d, f)
      /\ Indexed(N, e) /\ Distinct(c)
  BY DEF Nested
<1>2. \A k \in 1..(N + 1) : k \in 1..N \/ k = N + 1
  BY <1>1
<1>0. ~Branching(e, N + 1)
  BY DEF Branching
<1>3. Arrives(N + 1, e, s)
  <2> SUFFICES ASSUME NEW k \in 1..(N + 1), NEW t \in 1..(N + 1),
                      Branching(e, k), s[t] = e[k].param
               PROVE  /\ Together(e, t, k) /\ Nest(e, t) = Nest(e, k)
                      /\ e[k].op = "LOOP" => Header(e, t)
    BY DEF Arrives
  <2>1. k \in 1..N
    BY <1>0, <1>2
  <2>2. CASE t \in 1..N
    BY <2>1, <2>2, <1>1 DEF Arrives
  <2>3. CASE t = N + 1
    <3>1. Current(e, d, f, k) /\ Nest(e, k) = Loops(c, i - 1) /\ e[k].op # "LOOP"
      BY <2>1, <2>3, <1>1 DEF Awaited
    <3>2. Together(e, t, k)
      BY <3>1, <2>3 DEF Current, Together
    <3> QED BY <3>1, <3>2, <2>3
  <2> QED BY <2>2, <2>3, <1>2
<1>4. Awaited(N + 1, e, c, d, f)
  BY <1>0, <1>1, <1>2 DEF Awaited
<1>5. Begun(N + 1, e, s, c, d, f)
  BY <1>1, <1>2 DEF Begun, Distinct
<1>6. Indexed(N + 1, e)
  BY <1>1, <1>2 DEF Indexed
<1>7. N + 1 \in Nat \ {0}
  BY <1>1
<1> QED BY <1>1, <1>3, <1>4, <1>5, <1>6, <1>7 DEF Nested

(* A branch back to the start of the construct i.                          *)
LEMMA NestedBack ==
    ASSUME NEW N, NEW e, NEW s, NEW c, NEW d, NEW f, Nested(N, e, s, c, d, f),
           NEW i \in 1..Len(c), c[i].type \notin Owing, e[N + 1].param = c[i].frag,
           Branching(e, N + 1), Current(e, d, f, N + 1), Nest(e, N + 1) = Loops(c, i),
           e[N + 1].op = "LOOP" => c[i].type = "DO", Unused(N, e, c, s[N + 1])
    PROVE  Nested(N + 1, e, s, c, d, f)
<1>1. /\ N \in Nat \ {0} /\ Len(c) \in Nat
      /\ Arrives(N, e, s) /\ Awaited(N, e, c, d, f) /\ Begun(N, e, s, c, d, f)
      /\ Indexed(N, e) /\ Distinct(c)
  BY DEF Nested
<1>2. \A k \in 1..(N + 1) : k \in 1..N \/ k = N + 1
  BY <1>1
<1>3. Arrives(N + 1, e, s)
  <2> SUFFICES ASSUME NEW k \in 1..(N + 1), NEW t \in 1..(N + 1),
                      Branching(e, k), s[t] = e[k].param
               PROVE  /\ Together(e, t, k) /\ Nest(e, t) = Nest(e, k)
                      /\ e[k].op = "LOOP" => Header(e, t)
    BY DEF Arrives
  <2>1. t \in 1..N
    BY <1>2 DEF Unused
  <2>2. CASE k \in 1..N
    BY <2>1, <2>2, <1>1 DEF Arrives
  <2>3. CASE k = N + 1
    <3>1. /\ Current(e, d, f, t) /\ Nest(e, t) = Loops(c, i)
          /\ c[i].type = "DO" => Header(e, t)
      BY <2>1, <2>3, <1>1 DEF Begun
    <3>2. Together(e, t, k)
      BY <3>1, <2>3 DEF Current, Together
    <3> QED BY <3>1, <3>2, <2>3
  <2> QED BY <2>2, <2>3, <1>2
<1>4. Awaited(N + 1, e, c, d, f)
  BY <1>1, <1>2 DEF Awaited, Distinct
<1>5. Begun(N + 1, e, s, c, d, f)
  BY <1>1, <1>2 DEF Begun, Unused
<1>6. Indexed(N + 1, e)
  <2>1. e[N + 1].op # "BUILTIN_WORD"
    BY DEF Branching
  <2> QED BY <2>1, <1>1, <1>2 DEF Indexed
<1>7. N + 1 \in Nat \ {0}
  BY <1>1
<1> QED BY <1>1, <1>3, <1>4, <1>5, <1>6, <1>7 DEF Nested

(* x, pushed behind the n constructs of c.                                 *)
Pushes(c, n, x, b) ==
    /\ n \in Nat /\ Len(c) = n /\ Len(b) = n + 1
    /\ b[n + 1] = x /\ \A j \in 1..n : b[j] = c[j]

(* Opening a construct: with a target it owes, every branch to it there is *)
(* at its depth; with one that is emitted, that one is.                    *)
LEMMA NestedPush ==
    ASSUME NEW N, NEW e, NEW s, NEW c, NEW d, NEW f, Nested(N, e, s, c, d, f),
           NEW n, NEW x, NEW b, Pushes(c, n, x, b), \A j \in 1..n : c[j].frag # x.frag,
           x.type \in Owing => \A k \in 1..N : Branching(e, k) /\ e[k].param = x.frag =>
               Current(e, d, f, k) /\ Nest(e, k) = Loops(b, n) /\ e[k].op # "LOOP",
           x.type \notin Owing => \A t \in 1..N : s[t] = x.frag =>
               /\ Current(e, d, f, t) /\ Nest(e, t) = Loops(b, n + 1)
               /\ x.type = "DO" => Header(e, t)
    PROVE  Nested(N, e, s, b, d, f)
<1>1. /\ N \in Nat \ {0} /\ Len(c) \in Nat
      /\ Arrives(N, e, s) /\ Awaited(N, e, c, d, f) /\ Begun(N, e, s, c, d, f)
      /\ Indexed(N, e) /\ Distinct(c)
  BY DEF Nested
<1>2. /\ n \in Nat /\ Len(c) = n /\ Len(b) = n + 1
      /\ b[n + 1] = x /\ \A j \in 1..n : b[j] = c[j]
  BY DEF Pushes
<1>3. \A j \in 1..Len(b) : j \in 1..n \/ j = n + 1
  BY <1>2
<1>4. \A j \in 1..n : Loops(b, j) = Loops(c, j) /\ Loops(b, j - 1) = Loops(c, j - 1)
  <2> SUFFICES ASSUME NEW j \in 1..n
               PROVE  Loops(b, j) = Loops(c, j) /\ Loops(b, j - 1) = Loops(c, j - 1)
    OBVIOUS
  <2>1. j \in Nat /\ j - 1 \in Nat /\ \A m \in 1..j : m \in 1..n
    BY <1>2
  <2>2. \A m \in 1..(j - 1) : m \in 1..j
    BY <2>1
  <2> QED BY <2>1, <2>2, <1>2, LoopsSame
<1>5. Awaited(N, e, b, d, f)
  <2> SUFFICES ASSUME NEW k \in 1..N, NEW j \in 1..Len(b),
                      Branching(e, k), b[j].type \in Owing, e[k].param = b[j].frag
               PROVE  Current(e, d, f, k) /\ Nest(e, k) = Loops(b, j - 1) /\ e[k].op # "LOOP"
    BY DEF Awaited
  <2>1. CASE j \in 1..n
    BY <2>1, <1>1, <1>2, <1>4 DEF Awaited
  <2>2. CASE j = n + 1
    <3>1. j - 1 = n
      BY <2>2, <1>2
    <3> QED BY <3>1, <2>2, <1>2
  <2> QED BY <2>1, <2>2, <1>3
<1>6. Begun(N, e, s, b, d, f)
  <2> SUFFICES ASSUME NEW t \in 1..N, NEW j \in 1..Len(b),
                      b[j].type \notin Owing, s[t] = b[j].frag
               PROVE  /\ Current(e, d, f, t) /\ Nest(e, t) = Loops(b, j)
                      /\ b[j].type = "DO" => Header(e, t)
    BY DEF Begun
  <2>1. CASE j \in 1..n
    BY <2>1, <1>1, <1>2, <1>4 DEF Begun
  <2>2. CASE j = n + 1
    BY <2>2, <1>2
  <2> QED BY <2>1, <2>2, <1>3
<1>7. Distinct(b)
  BY <1>1, <1>2, <1>3 DEF Distinct
<1>8. Len(b) \in Nat
  BY <1>2
<1> QED BY <1>1, <1>5, <1>6, <1>7, <1>8 DEF Nested

(* Taking a construct that is no loop from the stack, or the last one: b   *)
(* has the constructs u(j) of c.                                           *)
LEMMA NestedSub ==
    ASSUME NEW N, NEW e, NEW s, NEW c, NEW d, NEW f, Nested(N, e, s, c, d, f),
           NEW b, Len(b) \in Nat, NEW u \in [1..Len(b) -> 1..Len(c)],
           \A i, j \in 1..Len(b) : u[i] = u[j] => i = j,
           \A j \in 1..Len(b) : /\ b[j] = c[u[j]] /\ Loops(b, j) = Loops(c, u[j])
                                /\ Loops(b, j - 1) = Loops(c, u[j] - 1)
    PROVE  Nested(N, e, s, b, d, f)
<1>1. /\ N \in Nat \ {0} /\ Len(c) \in Nat
      /\ Arrives(N, e, s) /\ Awaited(N, e, c, d, f) /\ Begun(N, e, s, c, d, f)
      /\ Indexed(N, e) /\ Distinct(c)
  BY DEF Nested
<1>2. \A j \in 1..Len(b) : u[j] \in 1..Len(c)
  OBVIOUS
<1>3. Awaited(N, e, b, d, f)
  BY <1>1, <1>2, SMTT(30) DEF Awaited
<1>4. Begun(N, e, s, b, d, f)
  BY <1>1, <1>2 DEF Begun
<1>5. Distinct(b)
  <2> SUFFICES ASSUME NEW i \in 1..Len(b), NEW j \in 1..Len(b), b[i].frag = b[j].frag
               PROVE  i = j
    BY DEF Distinct
  <2>1. c[u[i]].frag = c[u[j]].frag
    OBVIOUS
  <2>2. u[i] = u[j]
    BY <2>1, <1>1, <1>2 DEF Distinct
  <2> QED BY <2>2
<1> QED BY <1>1, <1>3, <1>4, <1>5 DEF Nested

(* Popping constructs.                                                     *)
LEMMA NestedPop ==
    ASSUME NEW N, NEW e, NEW s, NEW c, NEW d, NEW f, Nested(N, e, s, c, d, f),
           NEW b, Len(b) \in 0..Len(c), \A j \in 1..Len(b) : b[j] = c[j]
    PROVE  Nested(N, e, s, b, d, f)
<1> DEFINE u == [j \in 1..Len(b) |-> j]
<1>1. Len(c) \in Nat /\ Len(b) \in Nat
  BY DEF Nested
<1>2. \A j \in 1..Len(b) : Loops(b, j) = Loops(c, j) /\ Loops(b, j - 1) = Loops(c, j - 1)
  <2> SUFFICES ASSUME NEW j \in 1..Len(b)
               PROVE  Loops(b, j) = Loops(c, j) /\ Loops(b, j - 1) = Loops(c, j - 1)
    OBVIOUS
  <2>1. j \in Nat /\ j - 1 \in Nat /\ \A m \in 1..j : m \in 1..Len(b)
    BY <1>1
  <2>2. \A m \in 1..(j - 1) : m \in 1..j
    BY <2>1
  <2> QED BY <2>1, <2>2, LoopsSame
<1>3. u \in [1..Len(b) -> 1..Len(c)] /\ \A j \in 1..Len(b) : u[j] = j
  BY <1>1
<1> HIDE DEF u
<1> QED BY <1>1, <1>2, <1>3, NestedSub

(* Outside all constructs, the word being defined does not matter.         *)
LEMMA NestedEmpty ==
    ASSUME NEW N, NEW e, NEW s, NEW d, NEW f, Nested(N, e, s, <<>>, d, f), NEW g, NEW h
    PROVE  Nested(N, e, s, <<>>, g, h)
<1>1. Len(<<>>) = 0
  BY Tuples
<1>2. \A j \in 1..Len(<<>>) : FALSE
  BY <1>1
<1> QED BY <1>2 DEF Nested, Awaited, Begun

-----------------------------------------------------------------------------
(* Code that fits the stack.                                               *)

(* The code up to N fits the stack c: the loops the stack counts are those *)
(* the opcodes count, and behind a word, in the main program, none is      *)
(* open.                                                                   *)
Fits(N, e, s, c, d, f) ==
    /\ Regional(N, e, s, d, f) /\ Nested(N, e, s, c, d, f)
    /\ Nest(e, N + 1) = Loops(c, Len(c))
    /\ d = FALSE /\ Inside(e, N) => Len(c) = 0

(* The code up to N and the stack refer to the first n fragments only.     *)
Old(N, e, s, c, n) ==
    /\ n \in Nat
    /\ \A k \in 1..N : s[k] \in 1..n /\ (Branching(e, k) => e[k].param \in 1..n)
    /\ \A j \in 1..Len(c) : c[j].frag \in 1..n

(* So a later one is unused.                                               *)
LEMMA LaterUnused ==
    ASSUME NEW N, NEW e, NEW s, NEW c, NEW n, Old(N, e, s, c, n), NEW g \in Nat, g > n
    PROVE  /\ Unused(N, e, c, g) /\ \A k \in 1..N : s[k] # g
           /\ \A j \in 1..Len(c) : c[j].frag # g
<1>1. \A i \in 1..n : i # g
  BY DEF Old
<1> QED BY <1>1 DEF Old, Unused

(* The opcodes that mean nothing to the shape of the code, but EXIT_WORD.  *)
Straight(o) == o \notin {"ENTRY", "HALT", "DEFINED_WORD_LOCATION", "EXIT_WORD", "DO", "LOOP",
                         "BRANCH", "BRANCH_IF_ZERO"}

(* The last entry is in the word being defined, or in the main program.    *)
LEMMA CurrentLast ==
    ASSUME NEW N, NEW e, NEW s, NEW d, NEW f, Regional(N, e, s, d, f), e[N].inWord = d
    PROVE  Current(e, d, f, N)
  BY DEF Regional, Ends, Current, Inside

(* One entry more keeps the words and the main program in order.           *)
LEMMA RegionalFits ==
    ASSUME NEW N, NEW e, NEW s, NEW c, NEW d, NEW f, Fits(N, e, s, c, d, f),
           e[N + 1].op \notin {"ENTRY", "HALT", "DEFINED_WORD_LOCATION"},
           e[N + 1].inWord = d,
           e[N + 1].op = "EXIT_WORD" => d = TRUE /\ e[N + 1].param = f
    PROVE  /\ Regional(N + 1, e, s, d, f) /\ Current(e, d, f, N + 1)
           /\ ~(d = FALSE /\ Inside(e, N + 1))
           /\ N \in Nat \ {0} /\ N + 1 \in Nat \ {0} /\ Len(c) \in Nat
<1>1. N \in Nat \ {0} /\ Len(c) \in Nat
  BY DEF Fits, Nested
<1>2. d = FALSE /\ Inside(e, N) => Nest(e, N + 1) = 0
  <2>1. Loops(c, 0) = 0
    BY LoopsNext
  <2> QED BY <2>1 DEF Fits
<1>3. Regional(N + 1, e, s, d, f)
  BY <1>2, RegionalNext DEF Fits
<1>4. Current(e, d, f, N + 1)
  BY <1>3, CurrentLast
<1> QED BY <1>1, <1>3, <1>4 DEF Inside

(* A fragment that is no branch and no loop, emitted where it was created. *)
LEMMA FitsNext ==
    ASSUME NEW N, NEW e, NEW s, NEW c, NEW d, NEW f, Fits(N, e, s, c, d, f),
           NEW n, Old(N, e, s, c, n), s[N + 1] = n + 1, e[N + 1].inWord = d,
           Straight(e[N + 1].op) \/ (e[N + 1].op = "EXIT_WORD" /\ d = TRUE /\ e[N + 1].param = f),
           IndexedAt(e, N + 1)
    PROVE  /\ Fits(N + 1, e, s, c, d, f) /\ Old(N + 1, e, s, c, n + 1)
           /\ Current(e, d, f, N + 1) /\ Nest(e, N + 2) = Nest(e, N + 1)
<1>0. /\ e[N + 1].op \notin {"ENTRY", "HALT", "DEFINED_WORD_LOCATION"}
      /\ e[N + 1].op \notin {"DO", "LOOP"} /\ ~Branching(e, N + 1)
      /\ e[N + 1].op = "EXIT_WORD" => d = TRUE /\ e[N + 1].param = f
  BY DEF Straight, Branching
<1>1. /\ Regional(N + 1, e, s, d, f) /\ Current(e, d, f, N + 1)
      /\ ~(d = FALSE /\ Inside(e, N + 1))
      /\ N \in Nat \ {0} /\ N + 1 \in Nat \ {0} /\ Len(c) \in Nat
  BY <1>0, RegionalFits
<1>2. n \in Nat /\ n + 1 \in Nat /\ n + 1 > n
  BY DEF Old
<1>3. Unused(N, e, c, n + 1)
  BY <1>2, LaterUnused
<1>4. Nested(N + 1, e, s, c, d, f)
  BY <1>0, <1>3, NestedNext DEF Fits
<1>5. Nest(e, N + 2) = Nest(e, N + 1)
  <2>1. (N + 1) + 1 = N + 2
    BY <1>1
  <2>2. Nest(e, (N + 1) + 1) = Nest(e, N + 1)
    BY <1>0, <1>1, NestNext
  <2> QED BY <2>1, <2>2
<1>6. Nest(e, (N + 1) + 1) = Loops(c, Len(c))
  <2>1. (N + 1) + 1 = N + 2
    BY <1>1
  <2> QED BY <2>1, <1>5 DEF Fits
<1>7. Old(N + 1, e, s, c, n + 1)
  <2>1. \A k \in 1..(N + 1) : k \in 1..N \/ k = N + 1
    BY <1>1
  <2>2. n + 1 \in 1..(n + 1) /\ \A i \in 1..n : i \in 1..(n + 1)
    BY <1>2
  <2> QED BY <2>1, <2>2, <1>0, <1>2 DEF Old
<1> QED BY <1>1, <1>4, <1>5, <1>6, <1>7 DEF Fits

(* A colon, outside all constructs.                                        *)
LEMMA FitsColon ==
    ASSUME NEW N, NEW e, NEW s, NEW c, NEW f, Fits(N, e, s, c, FALSE, f), c = <<>>,
           NEW n, Old(N, e, s, c, n), s[N + 1] = n + 1, n = N,
           e[N + 1].op = "DEFINED_WORD_LOCATION", e[N + 1].inWord = TRUE
    PROVE  Fits(N + 1, e, s, c, TRUE, N + 1)
<1>1. N \in Nat \ {0} /\ N + 1 \in Nat \ {0} /\ Len(c) = 0 /\ Loops(c, 0) = 0
  <2>1. Len(<<>>) = 0
    BY Tuples
  <2> QED BY <2>1, LoopsNext DEF Fits, Nested
<1>2. Nest(e, N + 1) = 0
  BY <1>1 DEF Fits
<1>3. Regional(N + 1, e, s, TRUE, N + 1)
  BY <1>2, RegionalColon DEF Fits
<1>4. Unused(N, e, c, n + 1)
  <2>1. n + 1 \in Nat /\ n + 1 > n
    BY DEF Old
  <2> QED BY <2>1, LaterUnused
<1>5. Nested(N + 1, e, s, c, FALSE, f)
  <2>1. ~Branching(e, N + 1) /\ IndexedAt(e, N + 1)
    BY DEF Branching, IndexedAt
  <2> QED BY <2>1, <1>4, NestedNext DEF Fits
<1>6. Nested(N + 1, e, s, c, TRUE, N + 1)
  BY <1>5, NestedEmpty
<1>7. Nest(e, (N + 1) + 1) = Nest(e, N + 1)
  BY <1>1, NestNext
<1> QED BY <1>1, <1>2, <1>3, <1>6, <1>7 DEF Fits

(* A semicolon, outside all constructs, behind its exit.                   *)
LEMMA FitsSemicolon ==
    ASSUME NEW N, NEW e, NEW s, NEW c, NEW f, Fits(N, e, s, c, TRUE, f), c = <<>>,
           e[N].op = "EXIT_WORD", NEW g
    PROVE  Fits(N, e, s, c, FALSE, g)
<1>1. Len(<<>>) = 0
  BY Tuples
<1>2. Regional(N, e, s, FALSE, g)
  BY RegionalSemicolon DEF Fits
<1>3. Nested(N, e, s, c, FALSE, g)
  BY NestedEmpty DEF Fits
<1> QED BY <1>1, <1>2, <1>3 DEF Fits

(* The loops of a stack that was pushed to.                                *)
LEMMA LoopsPushed ==
    ASSUME NEW c, NEW n, NEW x, NEW b, Pushes(c, n, x, b)
    PROVE  /\ Loops(b, n) = Loops(c, n) /\ Loops(c, n) \in Nat
           /\ x.type = "DO" => Loops(b, n + 1) = Loops(c, n) + 1
           /\ x.type # "DO" => Loops(b, n + 1) = Loops(c, n)
<1>1. n \in Nat /\ b[n + 1] = x /\ \A j \in 1..n : b[j] = c[j]
  BY DEF Pushes
<1>2. Loops(b, n) = Loops(c, n)
  BY <1>1, LoopsSame
<1> QED BY <1>1, <1>2, LoopsNext

(* if, while and else: a branch to a target that is owed from now on.      *)
LEMMA FitsForward ==
    ASSUME NEW N, NEW e, NEW s, NEW c, NEW d, NEW f, Fits(N, e, s, c, d, f),
           NEW n, Old(N, e, s, c, n), s[N + 1] = n + 2, e[N + 1].inWord = d,
           e[N + 1].op \in {"BRANCH", "BRANCH_IF_ZERO"}, e[N + 1].param = n + 1,
           NEW m, NEW x, NEW b, Pushes(c, m, x, b), x.type \in Owing, x.frag = n + 1
    PROVE  Fits(N + 1, e, s, b, d, f)
<1>0. /\ e[N + 1].op \notin {"ENTRY", "HALT", "DEFINED_WORD_LOCATION"}
      /\ e[N + 1].op \notin {"DO", "LOOP"} /\ Branching(e, N + 1)
      /\ e[N + 1].op = "EXIT_WORD" => d = TRUE /\ e[N + 1].param = f
      /\ IndexedAt(e, N + 1) /\ x.type # "DO"
  BY DEF Branching, IndexedAt, Owing
<1>1. /\ Regional(N + 1, e, s, d, f) /\ Current(e, d, f, N + 1)
      /\ ~(d = FALSE /\ Inside(e, N + 1))
      /\ N \in Nat \ {0} /\ N + 1 \in Nat \ {0} /\ Len(c) \in Nat
  BY <1>0, RegionalFits
<1>2. n \in Nat /\ n + 1 \in Nat /\ n + 1 > n /\ n + 2 \in Nat /\ n + 2 > n /\ n + 2 # n + 1
  BY DEF Old
<1>3. /\ Unused(N, e, c, n + 1) /\ \A k \in 1..N : s[k] # n + 1
      /\ \A j \in 1..Len(c) : c[j].frag # n + 1
      /\ Unused(N, e, c, n + 2)
  BY <1>2, LaterUnused
<1>4. \A k \in 1..(N + 1) : k \in 1..N \/ k = N + 1
  BY <1>1
<1>5. \A k \in 1..(N + 1) : s[k] # n + 1
  BY <1>2, <1>3, <1>4
<1>6. Nested(N + 1, e, s, c, d, f)
  BY <1>0, <1>3, <1>5, NestedNext DEF Fits
<1>7. /\ m \in Nat /\ Len(c) = m /\ Len(b) = m + 1
      /\ Loops(b, m) = Loops(c, m) /\ Loops(b, m + 1) = Loops(c, m)
  BY <1>0, LoopsPushed DEF Pushes
<1>8. Nested(N + 1, e, s, b, d, f)
  <2>1. \A k \in 1..(N + 1) : Branching(e, k) /\ e[k].param = x.frag => k = N + 1
    BY <1>3, <1>4 DEF Unused
  <2>2. Nest(e, N + 1) = Loops(b, m)
    BY <1>7 DEF Fits
  <2>3. x.type \in Owing => \A k \in 1..(N + 1) : Branching(e, k) /\ e[k].param = x.frag =>
               Current(e, d, f, k) /\ Nest(e, k) = Loops(b, m) /\ e[k].op # "LOOP"
    BY <2>1, <2>2, <1>0, <1>1
  <2>4. \A j \in 1..m : c[j].frag # x.frag
    BY <1>3, <1>7
  <2> QED BY <2>3, <2>4, <1>6, NestedPush
<1>9. Nest(e, (N + 1) + 1) = Loops(b, Len(b))
  <2>1. Nest(e, (N + 1) + 1) = Nest(e, N + 1)
    BY <1>0, <1>1, NestNext
  <2> QED BY <2>1, <1>7 DEF Fits
<1> QED BY <1>1, <1>8, <1>9 DEF Fits

(* b is c without the constructs behind the first m.                       *)
Pops(c, m, b) == /\ Len(c) \in Nat /\ m \in 0..Len(c) /\ Len(b) = m
                 /\ \A j \in 1..m : b[j] = c[j]

(* The loops of a stack that was popped from.                              *)
LEMMA LoopsPopped ==
    ASSUME NEW c, NEW m, NEW b, Pops(c, m, b)
    PROVE  Loops(b, m) = Loops(c, m) /\ m \in Nat
<1>1. m \in Nat /\ \A j \in 1..m : b[j] = c[j]
  BY DEF Pops
<1> QED BY <1>1, LoopsSame

(* then: the target owed last is emitted.                                  *)
LEMMA FitsThen ==
    ASSUME NEW N, NEW e, NEW s, NEW c, NEW d, NEW f, Fits(N, e, s, c, d, f),
           NEW m \in Nat, Len(c) = m + 1, c[m + 1].type \in Owing,
           s[N + 1] = c[m + 1].frag, e[N + 1].op = "BRANCH_LOCATION", e[N + 1].inWord = d,
           NEW b, Pops(c, m, b)
    PROVE  Fits(N + 1, e, s, b, d, f)
<1>0. /\ e[N + 1].op \notin {"ENTRY", "HALT", "DEFINED_WORD_LOCATION"}
      /\ e[N + 1].op \notin {"DO", "LOOP"}
      /\ e[N + 1].op = "EXIT_WORD" => d = TRUE /\ e[N + 1].param = f
      /\ c[m + 1].type # "DO"
  BY DEF Owing
<1>1. /\ Regional(N + 1, e, s, d, f) /\ Current(e, d, f, N + 1)
      /\ ~(d = FALSE /\ Inside(e, N + 1))
      /\ N \in Nat \ {0} /\ N + 1 \in Nat \ {0}
  BY <1>0, RegionalFits
<1>2. /\ Loops(c, m + 1) = Loops(c, m) /\ Loops(b, m) = Loops(c, m) /\ Len(b) = m
      /\ (m + 1) - 1 = m /\ m + 1 \in 1..Len(c) /\ m \in 0..Len(c)
  BY <1>0, LoopsNext, LoopsPopped DEF Pops
<1>3. Nest(e, N + 1) = Loops(c, m) /\ Nest(e, (N + 1) + 1) = Loops(c, m)
  BY <1>0, <1>1, <1>2, NestNext DEF Fits
<1>4. Nested(N + 1, e, s, c, d, f)
  BY <1>1, <1>2, <1>3, NestedLabel DEF Fits
<1>5. Nested(N + 1, e, s, b, d, f)
  BY <1>2, <1>4, NestedPop DEF Pops
<1> QED BY <1>1, <1>2, <1>3, <1>5 DEF Fits

(* loop, until and again: a branch back to the start of the construct.     *)
LEMMA FitsBackward ==
    ASSUME NEW N, NEW e, NEW s, NEW c, NEW d, NEW f, Fits(N, e, s, c, d, f),
           NEW n, Old(N, e, s, c, n), s[N + 1] = n + 1, e[N + 1].inWord = d,
           NEW m \in Nat, Len(c) = m + 1, e[N + 1].param = c[m + 1].frag,
           \/ e[N + 1].op = "LOOP" /\ c[m + 1].type = "DO"
           \/ e[N + 1].op \in {"BRANCH", "BRANCH_IF_ZERO"} /\ c[m + 1].type = "BEGIN",
           NEW b, Pops(c, m, b)
    PROVE  Fits(N + 1, e, s, b, d, f)
<1>0. /\ e[N + 1].op \notin {"ENTRY", "HALT", "DEFINED_WORD_LOCATION"}
      /\ e[N + 1].op = "EXIT_WORD" => d = TRUE /\ e[N + 1].param = f
      /\ Branching(e, N + 1) /\ c[m + 1].type \notin Owing
      /\ e[N + 1].op = "LOOP" => c[m + 1].type = "DO"
      /\ e[N + 1].op # "LOOP" => c[m + 1].type # "DO" /\ e[N + 1].op \notin {"DO", "LOOP"}
  BY DEF Owing, Branching
<1>1. /\ Regional(N + 1, e, s, d, f) /\ Current(e, d, f, N + 1)
      /\ ~(d = FALSE /\ Inside(e, N + 1))
      /\ N \in Nat \ {0} /\ N + 1 \in Nat \ {0}
  BY <1>0, RegionalFits
<1>2. /\ Loops(b, m) = Loops(c, m) /\ Loops(c, m) \in Nat /\ Len(b) = m
      /\ m + 1 \in 1..Len(c) /\ m \in 0..Len(c)
  BY LoopsNext, LoopsPopped DEF Pops
<1>3. Nest(e, N + 1) = Loops(c, m + 1)
  BY DEF Fits
<1>4. Nest(e, (N + 1) + 1) = Loops(c, m)
  <2>1. CASE e[N + 1].op = "LOOP"
    <3>1. Loops(c, m + 1) = Loops(c, m) + 1
      BY <2>1, <1>0, LoopsNext
    <3>2. Nest(e, (N + 1) + 1) = Nest(e, N + 1) - 1
      BY <2>1, <1>1, NestNext
    <3> QED BY <3>1, <3>2, <1>2, <1>3
  <2>2. CASE e[N + 1].op # "LOOP"
    <3>1. Loops(c, m + 1) = Loops(c, m)
      BY <2>2, <1>0, LoopsNext
    <3>2. Nest(e, (N + 1) + 1) = Nest(e, N + 1)
      BY <2>2, <1>0, <1>1, NestNext
    <3> QED BY <3>1, <3>2, <1>3
  <2> QED BY <2>1, <2>2
<1>5. Unused(N, e, c, n + 1)
  <2>1. n + 1 \in Nat /\ n + 1 > n
    BY DEF Old
  <2> QED BY <2>1, LaterUnused
<1>6. Nested(N + 1, e, s, c, d, f)
  BY <1>0, <1>1, <1>2, <1>3, <1>5, NestedBack DEF Fits
<1>7. Nested(N + 1, e, s, b, d, f)
  BY <1>2, <1>6, NestedPop DEF Pops
<1> QED BY <1>1, <1>2, <1>4, <1>7 DEF Fits

(* begin: a target to come back to.                                        *)
LEMMA FitsBegin ==
    ASSUME NEW N, NEW e, NEW s, NEW c, NEW d, NEW f, Fits(N, e, s, c, d, f),
           NEW n, Old(N, e, s, c, n), s[N + 1] = n + 1, e[N + 1].inWord = d,
           e[N + 1].op = "BRANCH_LOCATION",
           NEW m, NEW x, NEW b, Pushes(c, m, x, b), x.type = "BEGIN", x.frag = n + 1
    PROVE  Fits(N + 1, e, s, b, d, f)
<1>0. Straight(e[N + 1].op) /\ IndexedAt(e, N + 1)
  BY DEF Straight, IndexedAt
<1>1. /\ Fits(N + 1, e, s, c, d, f) /\ Current(e, d, f, N + 1)
      /\ Nest(e, N + 2) = Nest(e, N + 1)
  BY <1>0, FitsNext
<1>2. /\ n \in Nat /\ n + 1 \in Nat /\ n + 1 > n /\ N \in Nat \ {0}
  BY DEF Old, Fits, Nested
<1>3. /\ \A k \in 1..N : s[k] # n + 1
      /\ \A j \in 1..Len(c) : c[j].frag # n + 1
  BY <1>2, LaterUnused
<1>4. \A t \in 1..(N + 1) : s[t] = n + 1 => t = N + 1
  BY <1>2, <1>3
<1>5. /\ m \in Nat /\ Len(c) = m /\ Len(b) = m + 1
      /\ Loops(b, m) = Loops(c, m) /\ Loops(b, m + 1) = Loops(c, m)
  <2>1. Loops(b, m) = Loops(c, m) /\ Loops(b, m + 1) = Loops(c, m)
    BY LoopsPushed
  <2> QED BY <2>1 DEF Pushes
<1>6. Nest(e, N + 1) = Loops(b, m + 1) /\ Nest(e, (N + 1) + 1) = Loops(b, m + 1)
  <2>1. Nest(e, (N + 1) + 1) = Loops(c, Len(c)) /\ Nest(e, N + 1) = Loops(c, Len(c))
    BY <1>1 DEF Fits
  <2> QED BY <2>1, <1>5
<1>7. Nested(N + 1, e, s, b, d, f)
  <2>1. x.type \notin Owing => \A t \in 1..(N + 1) : s[t] = x.frag =>
               /\ Current(e, d, f, t) /\ Nest(e, t) = Loops(b, m + 1)
               /\ x.type = "DO" => Header(e, t)
    BY <1>1, <1>4, <1>6
  <2>2. x.type \notin Owing
    BY DEF Owing
  <2>3. \A j \in 1..m : c[j].frag # x.frag
    BY <1>3, <1>5
  <2> QED BY <2>1, <2>2, <2>3, <1>1, NestedPush DEF Fits
<1>8. Regional(N + 1, e, s, d, f) /\ ~(d = FALSE /\ Inside(e, N + 1))
  BY <1>1 DEF Fits, Inside
<1> QED BY <1>5, <1>6, <1>7, <1>8 DEF Fits

(* do: the target behind it is where the loop comes back to.               *)
LEMMA FitsDo ==
    ASSUME NEW N, NEW e, NEW s, NEW c, NEW d, NEW f, Fits(N, e, s, c, d, f),
           NEW n, Old(N, e, s, c, n),
           s[N + 1] = n + 1, e[N + 1].inWord = d, e[N + 1].op = "DO",
           s[N + 2] = n + 2, e[N + 2].inWord = d, e[N + 2].op = "BRANCH_LOCATION",
           NEW m, NEW x, NEW b, Pushes(c, m, x, b), x.type = "DO", x.frag = n + 2
    PROVE  Fits(N + 2, e, s, b, d, f)
<1>0. /\ e[N + 1].op \notin {"ENTRY", "HALT", "DEFINED_WORD_LOCATION"}
      /\ e[N + 1].op = "EXIT_WORD" => d = TRUE /\ e[N + 1].param = f
      /\ IndexedAt(e, N + 1) /\ ~Branching(e, N + 1)
      /\ e[N + 2].op \notin {"ENTRY", "HALT", "DEFINED_WORD_LOCATION", "EXIT_WORD", "DO", "LOOP"}
      /\ IndexedAt(e, N + 2) /\ ~Branching(e, N + 2)
  BY DEF IndexedAt, Branching
<1>1. /\ Regional(N + 1, e, s, d, f) /\ Current(e, d, f, N + 1)
      /\ ~(d = FALSE /\ Inside(e, N + 1))
      /\ N \in Nat \ {0} /\ N + 1 \in Nat \ {0} /\ Len(c) \in Nat
  BY <1>0, RegionalFits
<1>2. /\ n \in Nat /\ n + 1 \in Nat /\ n + 1 > n /\ n + 2 \in Nat /\ n + 2 > n /\ n + 2 # n + 1
      /\ (N + 1) + 1 = N + 2 /\ N + 2 \in Nat \ {0}
  <2>1. n \in Nat
    BY DEF Old
  <2> QED BY <2>1, <1>1
<1>3. /\ Unused(N, e, c, n + 1) /\ Unused(N, e, c, n + 2)
      /\ \A k \in 1..N : s[k] # n + 2
      /\ \A j \in 1..Len(c) : c[j].frag # n + 2
  BY <1>2, LaterUnused
<1>4. \A k \in 1..(N + 1) : k \in 1..N \/ k = N + 1
  BY <1>1
<1>5. Unused(N + 1, e, c, n + 2)
  BY <1>0, <1>3, <1>4 DEF Unused
<1>6. Nested(N + 2, e, s, c, d, f)
  <2>1. Nested(N + 1, e, s, c, d, f)
    BY <1>0, <1>3, NestedNext DEF Fits
  <2>2. Nested((N + 1) + 1, e, s, c, d, f)
    BY <2>1, <1>0, <1>2, <1>5, NestedNext
  <2> QED BY <2>2, <1>2
<1>7. Regional(N + 2, e, s, d, f)
  <2>1. Regional((N + 1) + 1, e, s, d, f)
    BY <1>0, <1>1, <1>2, RegionalNext
  <2> QED BY <2>1, <1>2
<1>8. Current(e, d, f, N + 2) /\ ~(d = FALSE /\ Inside(e, N + 2))
  BY <1>7, CurrentLast DEF Inside
<1>9. /\ m \in Nat /\ Len(c) = m /\ Len(b) = m + 1
      /\ Loops(b, m + 1) = Loops(c, m) + 1
  <2>1. Loops(b, m + 1) = Loops(c, m) + 1
    BY LoopsPushed
  <2> QED BY <2>1 DEF Pushes
<1>10. Nest(e, N + 2) = Loops(b, m + 1) /\ Nest(e, (N + 2) + 1) = Loops(b, m + 1)
  <2>1. Nest(e, N + 1) = Loops(c, m)
    BY <1>9 DEF Fits
  <2>2. Nest(e, (N + 1) + 1) = Nest(e, N + 1) + 1
    BY <1>1, NestNext
  <2>3. Nest(e, (N + 2) + 1) = Nest(e, N + 2)
    BY <1>0, <1>2, NestNext
  <2> QED BY <2>1, <2>2, <2>3, <1>2, <1>9
<1>11. Header(e, N + 2)
  <2>1. N + 2 > 1 /\ (N + 2) - 1 = N + 1
    BY <1>1
  <2> QED BY <2>1 DEF Header, Inside
<1>12. Nested(N + 2, e, s, b, d, f)
  <2>1. \A t \in 1..(N + 2) : s[t] = n + 2 => t = N + 2
    <3>1. \A t \in 1..(N + 2) : t \in 1..N \/ t = N + 1 \/ t = N + 2
      BY <1>1
    <3> QED BY <3>1, <1>2, <1>3
  <2>2. x.type \notin Owing => \A t \in 1..(N + 2) : s[t] = x.frag =>
               /\ Current(e, d, f, t) /\ Nest(e, t) = Loops(b, m + 1)
               /\ x.type = "DO" => Header(e, t)
    BY <2>1, <1>8, <1>10, <1>11
  <2>3. x.type \notin Owing
    BY DEF Owing
  <2>4. \A j \in 1..m : c[j].frag # x.frag
    BY <1>3, <1>9
  <2> QED BY <2>2, <2>3, <2>4, <1>6, NestedPush
<1> QED BY <1>7, <1>8, <1>9, <1>10, <1>12 DEF Fits

(* repeat: a branch back to begin, and the target its while owed.          *)
LEMMA FitsRepeat ==
    ASSUME NEW N, NEW e, NEW s, NEW c, NEW d, NEW f, Fits(N, e, s, c, d, f),
           NEW n, Old(N, e, s, c, n), NEW m \in Nat, Len(c) = m + 2,
           c[m + 1].type = "BEGIN", c[m + 2].type = "WHILE",
           s[N + 1] = n + 1, e[N + 1].inWord = d, e[N + 1].op = "BRANCH",
           e[N + 1].param = c[m + 1].frag,
           s[N + 2] = c[m + 2].frag, e[N + 2].inWord = d, e[N + 2].op = "BRANCH_LOCATION",
           NEW b, Pops(c, m, b)
    PROVE  Fits(N + 2, e, s, b, d, f)
<1>0. /\ e[N + 1].op \notin {"ENTRY", "HALT", "DEFINED_WORD_LOCATION", "EXIT_WORD", "DO", "LOOP"}
      /\ IndexedAt(e, N + 1) /\ Branching(e, N + 1)
      /\ e[N + 2].op \notin {"ENTRY", "HALT", "DEFINED_WORD_LOCATION", "EXIT_WORD", "DO", "LOOP"}
      /\ c[m + 1].type \notin Owing /\ c[m + 2].type \in Owing
      /\ c[m + 1].type # "DO" /\ c[m + 2].type # "DO"
  BY DEF IndexedAt, Branching, Owing
<1>1. /\ Regional(N + 1, e, s, d, f) /\ Current(e, d, f, N + 1)
      /\ ~(d = FALSE /\ Inside(e, N + 1))
      /\ N \in Nat \ {0} /\ N + 1 \in Nat \ {0}
  BY <1>0, RegionalFits
<1>2. /\ n \in Nat /\ n + 1 \in Nat /\ n + 1 > n
      /\ (N + 1) + 1 = N + 2 /\ N + 2 \in Nat \ {0}
      /\ m + 1 \in 1..Len(c) /\ m + 2 \in 1..Len(c) /\ (m + 1) + 1 = m + 2 /\ (m + 2) - 1 = m + 1
      /\ m + 1 \in Nat /\ m \in 0..Len(c) /\ Len(b) = m
  BY <1>1 DEF Old, Pops
<1>3. /\ Loops(c, m + 1) = Loops(c, m) /\ Loops(c, m + 2) = Loops(c, m)
      /\ Loops(b, m) = Loops(c, m)
  <2>1. Loops(c, m + 1) = Loops(c, m)
    BY <1>0, LoopsNext
  <2>2. Loops(c, (m + 1) + 1) = Loops(c, m + 1)
    BY <1>0, <1>2, LoopsNext
  <2>3. Loops(b, m) = Loops(c, m)
    BY LoopsPopped
  <2> QED BY <2>1, <2>2, <2>3, <1>2
<1>4. /\ Nest(e, N + 1) = Loops(c, m) /\ Nest(e, N + 2) = Loops(c, m)
      /\ Nest(e, (N + 2) + 1) = Loops(c, m)
  <2>1. Nest(e, N + 1) = Loops(c, m)
    BY <1>3 DEF Fits
  <2>2. Nest(e, (N + 1) + 1) = Nest(e, N + 1)
    BY <1>0, <1>1, NestNext
  <2>3. Nest(e, (N + 2) + 1) = Nest(e, N + 2)
    BY <1>0, <1>2, NestNext
  <2> QED BY <2>1, <2>2, <2>3, <1>2
<1>5. Unused(N, e, c, n + 1)
  BY <1>2, LaterUnused
<1>6. Nested(N + 1, e, s, c, d, f)
  BY <1>0, <1>1, <1>2, <1>3, <1>4, <1>5, NestedBack DEF Fits
<1>7. Regional(N + 2, e, s, d, f)
  <2>1. Regional((N + 1) + 1, e, s, d, f)
    BY <1>0, <1>1, <1>2, RegionalNext
  <2> QED BY <2>1, <1>2
<1>8. Current(e, d, f, N + 2) /\ ~(d = FALSE /\ Inside(e, N + 2))
  BY <1>7, CurrentLast DEF Inside
<1>9. Nested(N + 2, e, s, c, d, f)
  <2>1. Nested((N + 1) + 1, e, s, c, d, f)
    BY <1>0, <1>2, <1>3, <1>4, <1>6, <1>8, NestedLabel
  <2> QED BY <2>1, <1>2
<1>10. Nested(N + 2, e, s, b, d, f)
  BY <1>2, <1>9, NestedPop DEF Pops
<1> QED BY <1>2, <1>3, <1>4, <1>7, <1>8, <1>10 DEF Fits

(* else: a branch to a new target, in front of the target the if owed.     *)
LEMMA FitsElse ==
    ASSUME NEW N, NEW e, NEW s, NEW c, NEW d, NEW f, Fits(N, e, s, c, d, f),
           NEW n, Old(N, e, s, c, n), NEW m \in Nat, Len(c) = m + 1, c[m + 1].type = "IF",
           s[N + 1] = n + 2, e[N + 1].inWord = d, e[N + 1].op = "BRANCH", e[N + 1].param = n + 1,
           s[N + 2] = c[m + 1].frag, e[N + 2].inWord = d, e[N + 2].op = "BRANCH_LOCATION",
           NEW x, x.type = "ELSE", x.frag = n + 1,
           NEW q, Pushes(c, m + 1, x, q), NEW p, Pops(c, m, p), NEW b, Pushes(p, m, x, b)
    PROVE  Fits(N + 2, e, s, b, d, f)
<1>0. /\ e[N + 2].op \notin {"ENTRY", "HALT", "DEFINED_WORD_LOCATION", "EXIT_WORD", "DO", "LOOP"}
      /\ c[m + 1].type \in Owing /\ x.type \in Owing
      /\ c[m + 1].type # "DO" /\ x.type # "DO"
  BY DEF Owing
<1>1. Fits(N + 1, e, s, q, d, f)
  BY <1>0, FitsForward
<1>2. N \in Nat \ {0}
  BY DEF Fits, Nested
<1>3. /\ (N + 1) + 1 = N + 2 /\ N + 1 \in Nat \ {0} /\ N + 2 \in Nat \ {0}
      /\ m + 1 \in Nat /\ (m + 1) + 1 = m + 2 /\ (m + 1) - 1 = m /\ (m + 2) - 1 = m + 1
  BY <1>2
<1>4. /\ Len(q) = m + 2 /\ q[m + 2] = x /\ \A j \in 1..(m + 1) : q[j] = c[j]
  BY <1>3 DEF Pushes
<1>5. /\ Len(b) = m + 1 /\ b[m + 1] = x /\ \A j \in 1..m : b[j] = p[j] /\ p[j] = c[j]
  BY DEF Pushes, Pops
<1>6. /\ Loops(q, m + 1) = Loops(c, m) /\ Loops(q, m + 2) = Loops(c, m)
      /\ Loops(q, m) = Loops(c, m)
      /\ Loops(b, m) = Loops(c, m) /\ Loops(b, m + 1) = Loops(c, m)
  <2>1. Loops(q, m + 1) = Loops(c, m + 1) /\ Loops(q, (m + 1) + 1) = Loops(c, m + 1)
    BY <1>0, LoopsPushed
  <2>2. Loops(c, m + 1) = Loops(c, m)
    BY <1>0, LoopsNext
  <2>3. Loops(q, m) = Loops(c, m)
    <3>1. \A j \in 1..m : q[j] = c[j]
      BY <1>4
    <3> QED BY <3>1, LoopsSame
  <2>4. Loops(b, m) = Loops(p, m) /\ Loops(b, m + 1) = Loops(p, m)
    BY <1>0, LoopsPushed
  <2>5. Loops(p, m) = Loops(c, m)
    BY LoopsPopped
  <2> QED BY <2>1, <2>2, <2>3, <2>4, <2>5, <1>3
<1>7. Nest(e, N + 2) = Loops(c, m) /\ Nest(e, (N + 2) + 1) = Loops(c, m)
  <2>1. Nest(e, (N + 1) + 1) = Loops(q, m + 2)
    BY <1>1, <1>4 DEF Fits
  <2>2. Nest(e, (N + 2) + 1) = Nest(e, N + 2)
    BY <1>0, <1>3, NestNext
  <2> QED BY <2>1, <2>2, <1>3, <1>6
<1>8. Regional(N + 2, e, s, d, f) /\ Current(e, d, f, N + 2) /\ ~(d = FALSE /\ Inside(e, N + 2))
  <2>1. /\ Regional((N + 1) + 1, e, s, d, f) /\ Current(e, d, f, (N + 1) + 1)
        /\ ~(d = FALSE /\ Inside(e, (N + 1) + 1))
    BY <1>0, <1>1, <1>3, RegionalFits
  <2> QED BY <2>1, <1>3
<1>9. Nested(N + 2, e, s, q, d, f)
  <2>1. m + 1 \in 1..Len(q) /\ q[m + 1] = c[m + 1]
    BY <1>4
  <2>2. Nested((N + 1) + 1, e, s, q, d, f)
    BY <2>1, <1>0, <1>1, <1>3, <1>6, <1>7, <1>8, NestedLabel DEF Fits
  <2> QED BY <2>2, <1>3
<1>10. Nested(N + 2, e, s, b, d, f)
  <2> DEFINE u == [j \in 1..Len(b) |-> IF j = m + 1 THEN m + 2 ELSE j]
  <2>1. u \in [1..Len(b) -> 1..Len(q)]
    BY <1>4, <1>5
  <2>2. \A j \in 1..m : u[j] = j
    BY <1>5
  <2>3. u[m + 1] = m + 2
    BY <1>5
  <2>4. \A j \in 1..Len(b) : j \in 1..m \/ j = m + 1
    BY <1>5
  <2> HIDE DEF u
  <2>5. \A i, j \in 1..Len(b) : u[i] = u[j] => i = j
    BY <2>2, <2>3, <2>4
  <2>6. ASSUME NEW j \in 1..Len(b)
        PROVE  /\ b[j] = q[u[j]] /\ Loops(b, j) = Loops(q, u[j])
               /\ Loops(b, j - 1) = Loops(q, u[j] - 1)
    <3>1. CASE j = m + 1
      BY <3>1, <2>3, <1>3, <1>4, <1>5, <1>6
    <3>2. CASE j \in 1..m
      <4>1. j \in Nat /\ j - 1 \in Nat /\ \A i \in 1..j : b[i] = q[i]
        BY <3>2, <1>4, <1>5
      <4>2. \A i \in 1..(j - 1) : i \in 1..j
        BY <4>1
      <4>3. Loops(b, j) = Loops(q, j) /\ Loops(b, j - 1) = Loops(q, j - 1)
        BY <4>1, <4>2, LoopsSame
      <4> QED BY <3>2, <4>1, <4>3, <2>2
    <3> QED BY <3>1, <3>2, <2>4
  <2>7. Len(b) \in Nat
    BY <1>3, <1>5
  <2>8. \A j \in 1..Len(b) : /\ b[j] = q[u[j]] /\ Loops(b, j) = Loops(q, u[j])
                             /\ Loops(b, j - 1) = Loops(q, u[j] - 1)
    BY <2>6
  <2> QED BY ONLY <2>1, <2>5, <2>7, <2>8, <1>9, NestedSub
<1> QED BY <1>5, <1>6, <1>7, <1>8, <1>10 DEF Fits

-----------------------------------------------------------------------------
(* Every word of the source.                                               *)

(* A target is owed by the word, or the main program, its branch is in.    *)
OwedHere == \A j \in Owes(cf) : frags[cf[j].frag].inWord = defining

(* The code, while the source is read.                                     *)
Shape == Fits(Len(sequence), Code(frags, sequence), sequence, cf, defining, Defining.frag)

(* What the steps below start from.                                        *)
Shaping == Reading /\ Shape /\ OwedHere

(* Fits depends on the code up to N only.                                  *)
LEMMA FitsSame ==
    ASSUME NEW N, NEW e, NEW s, NEW c, NEW d, NEW f, Fits(N, e, s, c, d, f), NEW g, NEW t,
           \A k \in 1..N : g[k] = e[k] /\ t[k] = s[k]
    PROVE  Fits(N, g, t, c, d, f)
<1>1. N \in Nat \ {0} /\ N \in 1..N
  BY DEF Fits, Nested
<1>2. Nest(g, N + 1) = Nest(e, N + 1)
  <2>1. \A m \in 1..((N + 1) - 1) : g[m] = e[m]
    BY <1>1
  <2>2. N + 1 \in Nat
    BY <1>1
  <2> QED BY <2>1, <2>2, NestSame
<1>3. Regional(N, g, t, d, f)
  BY RegionalSame DEF Fits
<1>4. Nested(N, g, t, c, d, f)
  BY NestedSame DEF Fits
<1> QED BY <1>1, <1>2, <1>3, <1>4 DEF Fits, Inside

(* What is known of the code and the stack, as plain sequences.            *)
LEMMA Plainly ==
    ASSUME Reading
    PROVE  /\ AnySeq(frags) /\ Len(frags) \in Nat /\ Len(sequence) \in Nat
           /\ sequence \in Seq(Nat) /\ cf \in Seq(Construct) /\ Len(cf) \in Nat
           /\ DOMAIN cf = 1..Len(cf) /\ ret = "reading" /\ ret' = "reading"
           /\ \A k \in 1..Len(sequence) : sequence[k] \in 1..Len(frags)
           /\ \A j \in 1..Len(cf) : /\ cf[j].frag \in 1..Len(frags)
                                    /\ frags[cf[j].frag].op = "BRANCH_LOCATION"
           /\ defining \in BOOLEAN /\ words \in Seq(Word) /\ Len(words) \in Nat
<1>1. /\ AnySeq(frags) /\ Placed(Len(frags), sequence, cf) /\ Targets(frags, cf)
      /\ words \in Seq(Word) /\ defining \in BOOLEAN
  BY DEF Reading, CodeOK, TablesOK
<1>2. /\ sequence \in Seq(Nat) /\ cf \in Seq(Construct) /\ Len(cf) \in Nat
      /\ Len(sequence) \in Nat /\ \A k \in 1..Len(sequence) : sequence[k] \in 1..Len(frags)
  BY <1>1 DEF Placed, Shapes, Once
<1>3. ret = "reading" /\ ret' = "reading"
  BY CompilesReads DEF Reading
<1> QED BY <1>1, <1>2, <1>3, LenProperties DEF Targets, AnySeq

(* The opcodes a branch refers to with.                                    *)
LEMMA BranchParam ==
    ASSUME Reading, NEW i \in 1..Len(frags), frags[i].op \in {"BRANCH", "BRANCH_IF_ZERO", "LOOP"}
    PROVE  frags[i].param \in 1..Len(frags)
<1>1. frags[i].param \in OperandsIn(frags, variables, runtime, callbacks, frags[i].op)
  BY DEF Reading, Sound, Refers
<1>2. frags[i].param \in DOMAIN frags
  BY <1>1 DEF OperandsIn
<1> QED BY <1>2, LenProperties DEF Reading, CodeOK, AnySeq

(* The code so far, in tables that continue the ones there are: it fits,   *)
(* and refers to the fragments so far.                                     *)
LEMMA Carried ==
    ASSUME Shaping, NEW gs, NEW ts, Prefix(frags, gs), Prefix(sequence, ts)
    PROVE  /\ Fits(Len(sequence), Code(gs, ts), ts, cf, defining, Defining.frag)
           /\ Old(Len(sequence), Code(gs, ts), ts, cf, Len(frags))
           /\ \A k \in 1..Len(ts) : Code(gs, ts)[k] = gs[ts[k]]
           /\ Len(sequence) \in Nat \ {0} /\ Len(sequence) <= Len(ts) /\ Len(ts) \in Nat
<1> DEFINE N == Len(sequence)
           e == Code(frags, sequence)
           g == Code(gs, ts)
<1>1. Reading /\ Fits(N, e, sequence, cf, defining, Defining.frag)
  BY DEF Shaping, Shape
<1>2. N \in Nat \ {0}
  BY <1>1 DEF Fits, Nested
<1>3. PICK m \in Nat : Extends(sequence, ts, m)
  BY DEF Prefix
<1>4. /\ Len(ts) = N + m /\ \A k \in 1..N : ts[k] = sequence[k]
  BY <1>3 DEF Extends
<1>5. \A i \in 1..Len(frags) : gs[i] = frags[i]
  BY DEF Prefix, Extends
<1>6. \A k \in 1..N : sequence[k] \in 1..Len(frags)
  BY <1>1, Plainly
<1>7. /\ \A k \in 1..N : e[k] = frags[sequence[k]]
      /\ \A k \in 1..Len(ts) : g[k] = gs[ts[k]]
  BY DEF Code
<1>8. \A k \in 1..N : k \in 1..Len(ts)
  BY <1>2, <1>4
<1> HIDE DEF N, e, g
<1>9. \A k \in 1..N : g[k] = e[k] /\ ts[k] = sequence[k]
  BY <1>4, <1>5, <1>6, <1>7, <1>8
<1>10. Fits(N, g, ts, cf, defining, Defining.frag)
  BY <1>1, <1>9, FitsSame
<1>11. Old(N, g, ts, cf, Len(frags))
  <2>1. Len(frags) \in Nat /\ \A j \in 1..Len(cf) : cf[j].frag \in 1..Len(frags)
    BY <1>1, Plainly
  <2>2. ASSUME NEW k \in 1..N, Branching(g, k)
        PROVE  g[k].param \in 1..Len(frags)
    <3>1. g[k] = frags[sequence[k]] /\ sequence[k] \in 1..Len(frags)
      BY <1>6, <1>7, <1>9
    <3>2. frags[sequence[k]].op \in {"BRANCH", "BRANCH_IF_ZERO", "LOOP"}
      BY <2>2, <3>1 DEF Branching
    <3> QED BY <1>1, <3>1, <3>2, BranchParam
  <2>3. \A k \in 1..N : ts[k] \in 1..Len(frags)
    BY <1>6, <1>9
  <2> QED BY <2>1, <2>2, <2>3 DEF Old
<1> QED BY <1>2, <1>4, <1>7, <1>10, <1>11 DEF N, g
(* A definition starts outside another one.                                *)
LEMMA ColonOutside ==
    ASSUME NEW n, defining \in BOOLEAN, Accepts(":", n)
    PROVE  ~defining
<1>0. defining \in BOOLEAN
  OBVIOUS
<1>1. AllHold(MainOnly \o NewName(n) \o Balanced)
  <2>1. Checks(":", n) = MainOnly \o NewName(n) \o Balanced
    BY DEF Checks
  <2>2. AllHold(Checks(":", n))
    BY Passed
  <2> QED BY <2>1, <2>2, Zenon
<1>2. MainOnly \o NewName(n) \in Seq(Check)
  BY Pieces, ConcatProperties
<1>3. AllHold(MainOnly \o NewName(n))
  BY <1>1, <1>2, Pieces, BothHold
<1>4. AllHold(MainOnly)
  BY <1>3, Pieces, BothHold
<1> QED BY <1>4, OneHolds DEF MainOnly

(* A definition ends with no construct open.                               *)
LEMMA SemicolonBalanced ==
    ASSUME defining \in BOOLEAN, NEW n
    PROVE  Accepts(";", n) => cf = <<>>
<1> DEFINE a == << <<defining, "UNEXPECTED_SEMICOLON">> >>
<1>1. Checks(";", n) = a \o Balanced
  BY DEF Checks
<1>2. a \in Seq(Check) /\ Balanced \in Seq(Check)
  BY Pieces
<1>3. AllHold(Balanced) => cf = <<>>
  BY OneHolds DEF Balanced
<1> HIDE DEF a
<1>4. AllHold(a \o Balanced) => AllHold(Balanced)
  BY <1>2, BothHold
<1>5. \A w : Accepts(w, n) => AllHold(Checks(w, n))
  BY Passed
<1> QED BY <1>1, <1>3, <1>4, <1>5, Zenon

(* The code behind the step, and a stack c to fit it.                      *)
Emitted == Code(frags', sequence')
FitsNow(c, d, f) == Fits(Len(sequence'), Emitted, sequence', c, d, f)

(* The code of a step that emits the fragments new.                        *)
LEMMA EmitFits ==
    ASSUME Shaping, NEW new, AnySeq(new), Len(new) > 0, Emit(new)
    PROVE  /\ Fits(Len(sequence), Emitted, sequence', cf, defining, Defining.frag)
           /\ Old(Len(sequence), Emitted, sequence', cf, Len(frags))
           /\ Len(sequence') = Len(sequence) + Len(new) /\ Len(sequence) \in Nat \ {0}
           /\ Len(frags) \in Nat
           /\ \A i \in 1..Len(new) : /\ sequence'[Len(sequence) + i] = Len(frags) + i
                                     /\ Emitted[Len(sequence) + i] = new[i]
<1>1. CodeOK(frags, sequence, cf)
  BY DEF Shaping, Reading
<1>2. /\ Prefix(frags, frags') /\ Prefix(sequence, sequence')
      /\ Len(frags) \in Nat /\ Len(new) \in Nat
      /\ Len(sequence') = Len(sequence) + Len(new)
      /\ \A i \in 1..Len(new) : sequence'[Len(sequence) + i] = Len(frags) + i
      /\ \A i \in 1..Len(new) : frags'[Len(frags) + i] = new[i]
  BY <1>1, Emitting
<1>3. /\ Fits(Len(sequence), Emitted, sequence', cf, defining, Defining.frag)
      /\ Old(Len(sequence), Emitted, sequence', cf, Len(frags))
      /\ \A k \in 1..Len(sequence') : Emitted[k] = frags'[sequence'[k]]
      /\ Len(sequence) \in Nat \ {0}
  <2>1. /\ Fits(Len(sequence), Code(frags', sequence'), sequence', cf, defining, Defining.frag)
        /\ Old(Len(sequence), Code(frags', sequence'), sequence', cf, Len(frags))
        /\ \A k \in 1..Len(sequence') : Code(frags', sequence')[k] = frags'[sequence'[k]]
        /\ Len(sequence) \in Nat \ {0}
    <3>1. Shaping /\ Prefix(frags, frags') /\ Prefix(sequence, sequence')
      BY <1>2
    <3>2. \A gs, ts : Shaping /\ Prefix(frags, gs) /\ Prefix(sequence, ts) =>
           /\ Fits(Len(sequence), Code(gs, ts), ts, cf, defining, Defining.frag)
           /\ Old(Len(sequence), Code(gs, ts), ts, cf, Len(frags))
           /\ \A k \in 1..Len(ts) : Code(gs, ts)[k] = gs[ts[k]]
           /\ Len(sequence) \in Nat \ {0}
      BY Carried
    <3> QED BY ONLY <3>1, <3>2, Zenon
  <2> QED BY <2>1 DEF Emitted
<1>4. ASSUME NEW i \in 1..Len(new)
      PROVE  Emitted[Len(sequence) + i] = new[i]
  <2>1. Len(sequence) + i \in 1..Len(sequence')
    BY <1>2, <1>3
  <2> QED BY <2>1, <1>2, <1>3
<1> QED BY <1>2, <1>3, <1>4

(* The code of a step that emits one fragment.                             *)
LEMMA Emit1Fits ==
    ASSUME Shaping, NEW o, NEW p, Emit1(o, p)
    PROVE  /\ Fits(Len(sequence), Emitted, sequence', cf, defining, Defining.frag)
           /\ Old(Len(sequence), Emitted, sequence', cf, Len(frags))
           /\ Len(sequence') = Len(sequence) + 1 /\ Len(sequence) \in Nat \ {0}
           /\ Len(frags) \in Nat
           /\ sequence'[Len(sequence) + 1] = Len(frags) + 1
           /\ Emitted[Len(sequence) + 1].op = o /\ Emitted[Len(sequence) + 1].param = p
           /\ Emitted[Len(sequence) + 1].inWord = defining
<1> DEFINE x == Frag(o, p)
           new == <<x>>
<1>1. x.op = o /\ x.param = p /\ x.inWord = defining
  BY DEF Frag
<1>2. Emit(new)
  BY DEF Emit1
<1> HIDE DEF x
<1>3. AnySeq(new) /\ Len(new) = 1 /\ new[1] = x
  BY Tuples
<1> HIDE DEF new
<1>4. 1 \in 1..Len(new) /\ Len(new) > 0
  BY <1>3
<1> QED BY <1>1, <1>2, <1>3, <1>4, EmitFits

(* The loops the RASSERTs of i and j count.                                *)
LEMMA OpenLoopsNow ==
    ASSUME Reading
    PROVE  OpenLoops = Loops(cf, Len(cf))
  BY Plainly DEF OpenLoops, Loops

(* A word that adds one fragment which is no branch and opens or closes    *)
(* nothing.                                                                *)
LEMMA StraightFits ==
    ASSUME Shaping, NEW o, NEW p, Emit1(o, p),
           Straight(o) \/ (o = "EXIT_WORD" /\ defining = TRUE /\ p = Defining.frag),
           o = "BUILTIN_WORD" => (p = 15 => OpenLoops >= 1) /\ (p = 16 => OpenLoops >= 2)
    PROVE  FitsNow(cf, defining, Defining.frag)
<1> DEFINE N == Len(sequence)
<1>1. /\ Fits(N, Emitted, sequence', cf, defining, Defining.frag)
      /\ Old(N, Emitted, sequence', cf, Len(frags))
      /\ Len(sequence') = N + 1
      /\ sequence'[N + 1] = Len(frags) + 1
      /\ Emitted[N + 1].op = o /\ Emitted[N + 1].param = p
      /\ Emitted[N + 1].inWord = defining
  BY Emit1Fits
<1> HIDE DEF N
<1>2. IndexedAt(Emitted, N + 1)
  <2>1. OpenLoops = Nest(Emitted, N + 1)
    BY <1>1, OpenLoopsNow DEF Fits, Shaping
  <2> QED BY <2>1, <1>1 DEF IndexedAt
<1>3. Fits(N + 1, Emitted, sequence', cf, defining, Defining.frag)
  BY <1>1, <1>2, FitsNext
<1> QED BY <1>1, <1>3 DEF FitsNow

(* A colon.                                                                *)
LEMMA ColonFits ==
    ASSUME Shaping, NEW n, Colon(n)
    PROVE  FitsNow(cf, TRUE, Len(sequence) + 1) /\ Len(sequence) = Len(frags) /\ defining = FALSE
<1> DEFINE N == Len(sequence)
           x == [op |-> "DEFINED_WORD_LOCATION", param |-> 0, inWord |-> TRUE]
           new == <<x>>
<1>1. x.op = "DEFINED_WORD_LOCATION" /\ x.inWord = TRUE
  OBVIOUS
<1>2. Emit(new) /\ Accepts(":", n)
  BY DEF Colon
<1> HIDE DEF x
<1>3. AnySeq(new) /\ Len(new) = 1 /\ new[1] = x
  BY Tuples
<1> HIDE DEF new
<1>4. 1 \in 1..Len(new) /\ Len(new) > 0
  BY <1>3
<1>5. /\ Fits(N, Emitted, sequence', cf, defining, Defining.frag)
      /\ Old(N, Emitted, sequence', cf, Len(frags))
      /\ Len(sequence') = N + 1
      /\ sequence'[N + 1] = Len(frags) + 1
      /\ Emitted[N + 1] = x
  BY <1>2, <1>3, <1>4, EmitFits
<1>6. cf = <<>> /\ defining = FALSE
  <2>1. defining \in BOOLEAN
    BY DEF Shaping, Reading
  <2>2. cf = <<>>
    BY <1>2, <2>1, ColonGuard
  <2>3. ~defining
    BY <1>2, <2>1, ColonOutside
  <2> QED BY <2>1, <2>2, <2>3
<1>7. Len(frags) = N
  BY <1>6, AllPlaced DEF Shaping, Reading, CodeOK
<1> HIDE DEF N
<1>8. Fits(N, Emitted, sequence', cf, FALSE, Defining.frag)
  BY <1>5, <1>6
<1>9. Fits(N + 1, Emitted, sequence', cf, TRUE, N + 1)
  BY <1>1, <1>5, <1>6, <1>7, <1>8, FitsColon
<1> QED BY <1>5, <1>6, <1>7, <1>9 DEF FitsNow, N

(* A semicolon.                                                            *)
LEMMA SemicolonFits ==
    ASSUME Shaping, Semicolon, NEW g
    PROVE  FitsNow(cf, FALSE, g)
<1>1. Emit1("EXIT_WORD", Defining.frag) /\ Accepts(";", NoName)
  BY DEF Semicolon
<1>2. defining = TRUE /\ cf = <<>>
  <2>1. defining \in BOOLEAN
    BY DEF Shaping, Reading
  <2>2. defining
    BY <1>1, <2>1, DefiningGuard
  <2>3. cf = <<>>
    BY <1>1, <2>1, SemicolonBalanced
  <2> QED BY <2>1, <2>2, <2>3
<1>3. FitsNow(cf, TRUE, Defining.frag)
  BY <1>1, <1>2, StraightFits
<1>4. Emitted[Len(sequence')].op = "EXIT_WORD"
  BY <1>1, Emit1Fits
<1> QED BY <1>2, <1>3, <1>4, FitsSemicolon DEF FitsNow

(* Any other word continues the code.                                      *)
LEMMA Continues ==
    ASSUME Shaping, ~Colons
    PROVE  /\ Fits(Len(sequence), Emitted, sequence', cf, defining, Defining.frag)
           /\ Old(Len(sequence), Emitted, sequence', cf, Len(frags))
           /\ \A k \in 1..Len(sequence') : Emitted[k] = frags'[sequence'[k]]
           /\ Len(sequence) \in Nat \ {0} /\ Len(sequence) <= Len(sequence')
           /\ Prefix(frags, frags') /\ Prefix(sequence, sequence')
<1>1. Prefix(frags, frags') /\ Prefix(sequence, sequence')
  <2>1. CodeOK(frags, sequence, cf) /\ defining \in BOOLEAN /\ Compiles
    BY DEF Shaping, Reading
  <2> QED BY <2>1, CompilesCode DEF Colons, CodeStep
<1>2. \A gs, ts : Shaping /\ Prefix(frags, gs) /\ Prefix(sequence, ts) =>
         /\ Fits(Len(sequence), Code(gs, ts), ts, cf, defining, Defining.frag)
         /\ Old(Len(sequence), Code(gs, ts), ts, cf, Len(frags))
         /\ \A k \in 1..Len(ts) : Code(gs, ts)[k] = gs[ts[k]]
         /\ Len(sequence) \in Nat \ {0} /\ Len(sequence) <= Len(ts)
  BY Carried
<1>3. /\ Fits(Len(sequence), Code(frags', sequence'), sequence', cf, defining, Defining.frag)
      /\ Old(Len(sequence), Code(frags', sequence'), sequence', cf, Len(frags))
      /\ \A k \in 1..Len(sequence') : Code(frags', sequence')[k] = frags'[sequence'[k]]
      /\ Len(sequence) \in Nat \ {0} /\ Len(sequence) <= Len(sequence')
  BY ONLY Shaping, <1>1, <1>2, Zenon
<1> QED BY <1>1, <1>3 DEF Emitted

(* Two fragments, behind the others.                                       *)
LEMMA Added ==
    ASSUME NEW s, AnySeq(s), NEW x, NEW y
    PROVE  /\ (s \o <<x, y>>)[Len(s) + 1] = x /\ (s \o <<x, y>>)[Len(s) + 2] = y
           /\ \A i \in 1..Len(s) : (s \o <<x, y>>)[i] = s[i]
           /\ Len(s \o <<x, y>>) = Len(s) + 2
<1> DEFINE new == <<x, y>>
<1>1. AnySeq(new) /\ Len(new) = 2 /\ new[1] = x /\ new[2] = y
  BY Tuples
<1> HIDE DEF new
<1>2. Extends(s, s \o new, Len(new)) /\ \A i \in 1..Len(new) : (s \o new)[Len(s) + i] = new[i]
  <2>1. AnySeq(new)
    BY <1>1
  <2> QED BY ONLY AnySeq(s), <2>1, Joined
<1>3. 1 \in 1..Len(new) /\ 2 \in 1..Len(new)
  BY <1>1
<1>4. Len(s \o new) = Len(s) + 2 /\ \A i \in 1..Len(s) : (s \o new)[i] = s[i]
  BY <1>1, <1>2 DEF Extends
<1>5. (s \o new)[Len(s) + 1] = x /\ (s \o new)[Len(s) + 2] = y
  BY <1>1, <1>2, <1>3
<1> QED BY <1>4, <1>5 DEF new

(* Pushing, with the indexes Fits speaks of.                               *)
LEMMA PushesOne ==
    ASSUME NEW c \in Seq(Construct), NEW t \in Owing \cup {"DO", "BEGIN"}, NEW g \in Nat,
           NEW x, x = [type |-> t, frag |-> g]
    PROVE  Pushes(c, Len(c), x, Append(c, x)) /\ x.type = t /\ x.frag = g /\ x \in Construct
<1>1. x \in Construct
  BY DEF Construct
<1>2. /\ Len(Append(c, x)) = Len(c) + 1 /\ \A k \in 1..Len(c) : Append(c, x)[k] = c[k]
      /\ Append(c, x)[Len(c) + 1] = x
  BY <1>1, Pushed
<1> QED BY <1>1, <1>2, LenProperties DEF Pushes

(* Popping, with the indexes Fits speaks of.                               *)
LEMMA PopsOne ==
    ASSUME NEW c \in Seq(Construct), c # <<>>
    PROVE  /\ Len(c) - 1 \in Nat /\ Len(c) = (Len(c) - 1) + 1
           /\ Pops(c, Len(c) - 1, Front(c)) /\ Last(c) = c[Len(c)] /\ Front(c) \in Seq(Construct)
<1>1. /\ Front(c) \in Seq(Construct) /\ Len(c) \in Nat \ {0}
      /\ Len(Front(c)) = Len(c) - 1
      /\ \A k \in 1..(Len(c) - 1) : Front(c)[k] = c[k]
  BY Popped
<1>2. Len(c) - 1 \in Nat /\ Len(c) = (Len(c) - 1) + 1 /\ Len(c) - 1 \in 0..Len(c)
  BY <1>1
<1> QED BY <1>1, <1>2 DEF Pops, Last

(* if and while.                                                           *)
LEMMA ForwardFits ==
    ASSUME Shaping, ~Colons, NEW w, NEW t \in {"IF", "WHILE"}, Forward(w, t)
    PROVE  FitsNow(cf', defining, Defining.frag)
<1> DEFINE N == Len(sequence)
           n == Len(frags)
           y == Frag("BRANCH_IF_ZERO", n + 1)
           x == [type |-> t, frag |-> n + 1]
<1>1. /\ Fits(N, Emitted, sequence', cf, defining, Defining.frag)
      /\ Old(N, Emitted, sequence', cf, n) /\ N \in Nat \ {0}
      /\ \A k \in 1..Len(sequence') : Emitted[k] = frags'[sequence'[k]]
  BY Continues
<1>2. AnySeq(frags) /\ n \in Nat /\ sequence \in Seq(Nat) /\ cf \in Seq(Construct)
  BY Plainly DEF Shaping
<1>3. /\ frags' = frags \o <<Pending, y>> /\ sequence' = Append(sequence, n + 1 + 1)
      /\ cf' = Append(cf, x)
  BY DEF Forward, Here, Push
<1>4. y.op = "BRANCH_IF_ZERO" /\ y.param = n + 1 /\ y.inWord = defining
  BY DEF Frag
<1>5. Pushes(cf, Len(cf), x, cf') /\ x.type = t /\ x.frag = n + 1
  BY <1>2, <1>3, PushesOne DEF Owing
<1> HIDE DEF x, y
<1>6. frags'[n + 2] = y
  BY <1>2, <1>3, Added
<1>7. Len(sequence') = N + 1 /\ sequence'[N + 1] = n + 2
  <2>1. n + 1 + 1 = n + 2 /\ n + 2 \in Nat
    BY <1>2
  <2> QED BY <2>1, <1>2, <1>3, AppendedNat DEF Extends
<1>8. Emitted[N + 1] = y
  <2>1. N + 1 \in 1..Len(sequence')
    BY <1>1, <1>7
  <2> QED BY <2>1, <1>1, <1>6, <1>7
<1> HIDE DEF n, N
<1>9. x.type \in Owing
  BY <1>5 DEF Owing
<1>10. Fits(N + 1, Emitted, sequence', cf', defining, Defining.frag)
  BY <1>1, <1>4, <1>5, <1>7, <1>8, <1>9, FitsForward
<1> QED BY <1>7, <1>10 DEF FitsNow

(* The entry a construct owes is in the word being defined.                *)
LEMMA OwedTarget ==
    ASSUME Shaping, ~Colons, NEW j \in 1..Len(cf)
    PROVE  /\ frags'[cf[j].frag].op = "BRANCH_LOCATION" /\ cf[j].frag \in Nat
           /\ cf[j].type \in Owing => frags'[cf[j].frag].inWord = defining
<1>1. cf[j].frag \in 1..Len(frags) /\ frags[cf[j].frag].op = "BRANCH_LOCATION"
  BY Plainly DEF Shaping
<1>2. \A i \in 1..Len(frags) : frags'[i] = frags[i]
  BY Continues DEF Prefix, Extends
<1>3. cf[j].type \in Owing => frags[cf[j].frag].inWord = defining
  BY DEF Shaping, OwedHere, Owes
<1>4. Len(frags) \in Nat
  BY Plainly DEF Shaping
<1> QED BY <1>1, <1>2, <1>3, <1>4

(* then.                                                                   *)
LEMMA ThenFits ==
    ASSUME Shaping, ~Colons, Then, cf # <<>>, Top.type \in {"IF", "ELSE"}
    PROVE  FitsNow(cf', defining, Defining.frag)
<1> DEFINE N == Len(sequence)
           m == Len(cf) - 1
<1>1. /\ Fits(N, Emitted, sequence', cf, defining, Defining.frag) /\ N \in Nat \ {0}
      /\ \A k \in 1..Len(sequence') : Emitted[k] = frags'[sequence'[k]]
  BY Continues
<1>2. sequence \in Seq(Nat) /\ cf \in Seq(Construct) /\ Len(cf) \in Nat
  BY Plainly DEF Shaping
<1>3. /\ m \in Nat /\ Len(cf) = m + 1 /\ Pops(cf, m, Front(cf)) /\ Last(cf) = cf[m + 1]
  BY <1>2, PopsOne
<1>4. cf[m + 1].type \in Owing /\ Top = cf[m + 1]
  BY <1>3 DEF Top, Owing
<1>5. sequence' = Append(sequence, cf[m + 1].frag) /\ cf' = Front(cf)
  BY <1>4 DEF Then
<1> HIDE DEF m
<1>6. /\ frags'[cf[m + 1].frag].op = "BRANCH_LOCATION" /\ cf[m + 1].frag \in Nat
      /\ frags'[cf[m + 1].frag].inWord = defining
  <2>1. m + 1 \in 1..Len(cf)
    BY <1>3
  <2> QED BY <2>1, <1>4, OwedTarget
<1>7. Len(sequence') = N + 1 /\ sequence'[N + 1] = cf[m + 1].frag
  BY <1>2, <1>5, <1>6, AppendedNat DEF Extends
<1>8. Emitted[N + 1] = frags'[cf[m + 1].frag]
  <2>1. N + 1 \in 1..Len(sequence')
    BY <1>1, <1>7
  <2> QED BY <2>1, <1>1, <1>7
<1> HIDE DEF N
<1>9. Fits(N + 1, Emitted, sequence', cf', defining, Defining.frag)
  BY <1>1, <1>3, <1>4, <1>5, <1>6, <1>7, <1>8, FitsThen
<1> QED BY <1>7, <1>9 DEF FitsNow

(* else.                                                                   *)
LEMMA ElseFits ==
    ASSUME Shaping, ~Colons, Else, cf # <<>>, Top.type \in {"IF"}
    PROVE  FitsNow(cf', defining, Defining.frag)
<1> DEFINE N == Len(sequence)
           n == Len(frags)
           m == Len(cf) - 1
           g == cf[m + 1].frag
           y == Frag("BRANCH", n + 1)
           x == [type |-> "ELSE", frag |-> n + 1]
           q == Append(cf, x)
           p == Front(cf)
<1>1. /\ Fits(N, Emitted, sequence', cf, defining, Defining.frag)
      /\ Old(N, Emitted, sequence', cf, n) /\ N \in Nat \ {0}
      /\ \A k \in 1..Len(sequence') : Emitted[k] = frags'[sequence'[k]]
  BY Continues
<1>2. AnySeq(frags) /\ n \in Nat /\ sequence \in Seq(Nat) /\ cf \in Seq(Construct) /\ Len(cf) \in Nat
  BY Plainly DEF Shaping
<1>3. /\ m \in Nat /\ Len(cf) = m + 1 /\ Pops(cf, m, p) /\ Last(cf) = cf[m + 1]
      /\ p \in Seq(Construct)
  BY <1>2, PopsOne
<1>4. cf[m + 1].type = "IF" /\ Top = cf[m + 1] /\ cf[m + 1].type \in Owing
  BY <1>3 DEF Top, Owing
<1>5. /\ frags' = frags \o <<Pending, y>> /\ sequence' = sequence \o <<n + 1 + 1, g>>
      /\ cf' = Append(p, x)
  BY <1>4 DEF Else, Here
<1>6. y.op = "BRANCH" /\ y.param = n + 1 /\ y.inWord = defining
  BY DEF Frag
<1>7. /\ Pushes(cf, m + 1, x, q) /\ Pushes(p, m, x, cf') /\ x.type = "ELSE" /\ x.frag = n + 1
  <2>1. n + 1 \in Nat
    BY <1>2
  <2>2. Pushes(cf, Len(cf), x, Append(cf, x))
    BY <2>1, <1>2, PushesOne DEF Owing
  <2>3. Pushes(p, Len(p), x, Append(p, x))
    BY <2>1, <1>3, PushesOne DEF Owing
  <2>4. Len(p) = m
    BY <1>3 DEF Pops
  <2> QED BY <2>2, <2>3, <2>4, <1>3, <1>5
<1> HIDE DEF x, y, m, p, q
<1>8. /\ frags'[g].op = "BRANCH_LOCATION" /\ g \in Nat /\ frags'[g].inWord = defining
  <2>1. m + 1 \in 1..Len(cf)
    BY <1>3
  <2> QED BY <2>1, <1>4, OwedTarget
<1>9. frags'[n + 2] = y
  BY <1>2, <1>5, Added
<1>10. Len(sequence') = N + 2 /\ sequence'[N + 1] = n + 2 /\ sequence'[N + 2] = g
  <2>1. n + 1 + 1 = n + 2
    BY <1>2
  <2> QED BY <2>1, <1>2, <1>5, Added, SomeSeq
<1>11. Emitted[N + 1] = y /\ Emitted[N + 2] = frags'[g]
  <2>1. N + 1 \in 1..Len(sequence') /\ N + 2 \in 1..Len(sequence')
    BY <1>1, <1>10
  <2> QED BY <2>1, <1>1, <1>9, <1>10
<1> HIDE DEF n, N, g
<1>12. Emitted[N + 2].op = "BRANCH_LOCATION" /\ Emitted[N + 2].inWord = defining
  BY <1>8, <1>11
<1>13. Fits(N + 2, Emitted, sequence', cf', defining, Defining.frag)
  BY <1>1, <1>3, <1>4, <1>6, <1>7, <1>10, <1>11, <1>12, FitsElse DEF g
<1> QED BY <1>10, <1>13 DEF FitsNow

(* begin.                                                                  *)
LEMMA BeginFits ==
    ASSUME Shaping, Begin
    PROVE  FitsNow(cf', defining, Defining.frag)
<1> DEFINE N == Len(sequence)
           n == Len(frags)
           x == [type |-> "BEGIN", frag |-> n + 1]
<1>1. Emit1("BRANCH_LOCATION", 0) /\ cf' = Append(cf, x)
  BY DEF Begin, Emit1, Pending, Push, Here
<1>2. /\ Fits(N, Emitted, sequence', cf, defining, Defining.frag)
      /\ Old(N, Emitted, sequence', cf, n) /\ N \in Nat \ {0} /\ n \in Nat
      /\ Len(sequence') = N + 1 /\ sequence'[N + 1] = n + 1
      /\ Emitted[N + 1].op = "BRANCH_LOCATION" /\ Emitted[N + 1].inWord = defining
  BY <1>1, Emit1Fits
<1>3. cf \in Seq(Construct)
  BY Plainly DEF Shaping
<1>4. Pushes(cf, Len(cf), x, cf') /\ x.type = "BEGIN" /\ x.frag = n + 1
  <2>1. n + 1 \in Nat
    BY <1>2
  <2> QED BY <2>1, <1>1, <1>3, PushesOne
<1> HIDE DEF N, n, x
<1>5. Fits(N + 1, Emitted, sequence', cf', defining, Defining.frag)
  BY <1>2, <1>4, FitsBegin
<1> QED BY <1>2, <1>5 DEF FitsNow

(* do.                                                                     *)
LEMMA DoFits ==
    ASSUME Shaping, Do
    PROVE  FitsNow(cf', defining, Defining.frag)
<1> DEFINE N == Len(sequence)
           n == Len(frags)
           x == [type |-> "DO", frag |-> n + 2]
           y == Frag("DO", 0)
           z == Pending
           new == <<y, z>>
<1>0. AnySeq(frags) /\ n \in Nat /\ cf \in Seq(Construct)
  BY Plainly DEF Shaping
<1>1. Emit(new) /\ cf' = Append(cf, x)
  <2>1. n + 1 + 1 = n + 2
    BY <1>0
  <2> QED BY <2>1 DEF Do, Push, Here
<1>2. AnySeq(new) /\ Len(new) = 2 /\ new[1] = y /\ new[2] = z
  BY Tuples
<1>3. y.op = "DO" /\ y.inWord = defining /\ z.op = "BRANCH_LOCATION" /\ z.inWord = defining
  BY DEF Frag, Pending
<1>4. Pushes(cf, Len(cf), x, cf') /\ x.type = "DO" /\ x.frag = n + 2
  <2>1. n + 2 \in Nat
    BY <1>0
  <2> QED BY <2>1, <1>0, <1>1, PushesOne, SMTT(30)
<1> HIDE DEF new, y, z, x
<1>5. /\ Fits(N, Emitted, sequence', cf, defining, Defining.frag)
      /\ Old(N, Emitted, sequence', cf, n)
      /\ Len(sequence') = N + Len(new)
      /\ \A i \in 1..Len(new) : sequence'[N + i] = n + i /\ Emitted[N + i] = new[i]
  <2>1. Len(new) > 0
    BY <1>2
  <2> QED BY <2>1, <1>1, <1>2, EmitFits
<1>6. /\ sequence'[N + 1] = n + 1 /\ sequence'[N + 2] = n + 2
      /\ Emitted[N + 1] = y /\ Emitted[N + 2] = z /\ Len(sequence') = N + 2
  <2>1. 1 \in 1..Len(new) /\ 2 \in 1..Len(new)
    BY <1>2
  <2> QED BY <2>1, <1>2, <1>5
<1> HIDE DEF N, n
<1>7. Fits(N + 2, Emitted, sequence', cf', defining, Defining.frag)
  BY <1>3, <1>4, <1>5, <1>6, FitsDo
<1> QED BY <1>6, <1>7 DEF FitsNow

(* loop, until and again.                                                  *)
LEMMA BackwardFits ==
    ASSUME Shaping, NEW w, NEW o, Backward(w, o), cf # <<>>,
           \/ o = "LOOP" /\ Top.type \in {"DO"}
           \/ o \in {"BRANCH", "BRANCH_IF_ZERO"} /\ Top.type \in {"BEGIN"}
    PROVE  FitsNow(cf', defining, Defining.frag)
<1> DEFINE N == Len(sequence)
           m == Len(cf) - 1
<1>1. Emit1(o, Top.frag) /\ cf' = Front(cf)
  BY DEF Backward
<1>2. /\ Fits(N, Emitted, sequence', cf, defining, Defining.frag)
      /\ Old(N, Emitted, sequence', cf, Len(frags)) /\ N \in Nat \ {0}
      /\ Len(sequence') = N + 1 /\ sequence'[N + 1] = Len(frags) + 1
      /\ Emitted[N + 1].op = o /\ Emitted[N + 1].param = Top.frag
      /\ Emitted[N + 1].inWord = defining
  BY <1>1, Emit1Fits
<1>3. cf \in Seq(Construct)
  BY Plainly DEF Shaping
<1>4. /\ m \in Nat /\ Len(cf) = m + 1 /\ Pops(cf, m, cf') /\ Last(cf) = cf[m + 1]
  BY <1>1, <1>3, PopsOne
<1>5. Top = cf[m + 1]
  BY <1>4 DEF Top
<1> HIDE DEF N, m
<1>6. \/ o = "LOOP" /\ cf[m + 1].type = "DO"
      \/ o \in {"BRANCH", "BRANCH_IF_ZERO"} /\ cf[m + 1].type = "BEGIN"
  BY <1>5
<1>7. Fits(N + 1, Emitted, sequence', cf', defining, Defining.frag)
  BY <1>2, <1>4, <1>5, <1>6, FitsBackward
<1> QED BY <1>2, <1>7 DEF FitsNow

(* repeat.                                                                 *)
LEMMA RepeatFits ==
    ASSUME Shaping, ~Colons, Repeat, cf # <<>>, Top.type \in {"WHILE"}, Len(cf) > 1, BelowTop = "BEGIN"
    PROVE  FitsNow(cf', defining, Defining.frag)
<1> DEFINE N == Len(sequence)
           n == Len(frags)
           m == Len(cf) - 2
           g == cf[m + 2].frag
           y == Frag("BRANCH", cf[m + 1].frag)
<1>1. /\ Fits(N, Emitted, sequence', cf, defining, Defining.frag)
      /\ Old(N, Emitted, sequence', cf, n) /\ N \in Nat \ {0}
      /\ \A k \in 1..Len(sequence') : Emitted[k] = frags'[sequence'[k]]
  BY Continues
<1>2. AnySeq(frags) /\ n \in Nat /\ sequence \in Seq(Nat) /\ cf \in Seq(Construct) /\ Len(cf) \in Nat
  BY Plainly DEF Shaping
<1>3. /\ m \in Nat /\ Len(cf) = m + 2 /\ Len(cf) - 1 = m + 1
  BY <1>2
<1>4. Pops(cf, m, cf')
  <2> DEFINE p == Front(cf)
  <2>1. Pops(cf, Len(cf) - 1, p) /\ p \in Seq(Construct)
    BY <1>2, PopsOne
  <2>2. Len(p) = m + 1 /\ \A j \in 1..(m + 1) : p[j] = cf[j]
    BY <2>1, <1>3 DEF Pops
  <2> HIDE DEF p
  <2>3. p # <<>>
    <3>1. Len(<<>>) = 0
      BY Tuples
    <3> QED BY <3>1, <2>2, <1>3
  <2>4. Pops(p, Len(p) - 1, Front(p))
    BY <2>1, <2>3, PopsOne
  <2>5. Len(p) - 1 = m
    BY <2>2, <1>3
  <2>6. cf' = Front(p)
    BY DEF Repeat, p
  <2>7. Len(cf') = m /\ \A j \in 1..m : cf'[j] = p[j]
    BY <2>4, <2>5, <2>6 DEF Pops
  <2>8. \A j \in 1..m : j \in 1..(m + 1)
    BY <1>3
  <2>9. m \in 0..Len(cf)
    BY <1>3
  <2> QED BY <2>2, <2>7, <2>8, <2>9, <1>2 DEF Pops
<1>5. Last(cf) = cf[m + 2]
  BY <1>3 DEF Last
<1>6. Top = cf[m + 2] /\ BelowTop = cf[m + 1].type
  BY <1>3, <1>5 DEF Top, BelowTop
<1>7. frags' = Append(frags, y) /\ sequence' = sequence \o <<n + 1, g>>
  BY <1>3, <1>6 DEF Repeat, Here
<1>8. y.op = "BRANCH" /\ y.param = cf[m + 1].frag /\ y.inWord = defining
  BY DEF Frag
<1> HIDE DEF y, m
<1>9. cf[m + 2].type = "WHILE" /\ cf[m + 1].type = "BEGIN" /\ cf[m + 2].type \in Owing
  BY <1>6 DEF Owing
<1>10. /\ frags'[g].op = "BRANCH_LOCATION" /\ g \in Nat /\ frags'[g].inWord = defining
  <2>1. m + 2 \in 1..Len(cf)
    BY <1>3
  <2> QED BY <2>1, <1>9, OwedTarget
<1>11. frags'[n + 1] = y
  BY <1>2, <1>7, Appended
<1>12. Len(sequence') = N + 2 /\ sequence'[N + 1] = n + 1 /\ sequence'[N + 2] = g
  BY <1>2, <1>7, Added, SomeSeq
<1>13. Emitted[N + 1] = y /\ Emitted[N + 2] = frags'[g]
  <2>1. N + 1 \in 1..Len(sequence') /\ N + 2 \in 1..Len(sequence')
    BY <1>1, <1>12
  <2> QED BY <2>1, <1>1, <1>11, <1>12
<1> HIDE DEF n, N, g
<1>14. Emitted[N + 2].op = "BRANCH_LOCATION" /\ Emitted[N + 2].inWord = defining
  BY <1>10, <1>13
<1>15. Fits(N + 2, Emitted, sequence', cf', defining, Defining.frag)
  BY <1>1, <1>3, <1>4, <1>8, <1>9, <1>12, <1>13, <1>14, FitsRepeat DEF g
<1> QED BY <1>12, <1>15 DEF FitsNow

(* A fragment of the word being compiled that opens and closes nothing.    *)
Harmless(x) == Straight(x.op) /\ x.op # "BUILTIN_WORD" /\ x.inWord = defining

(* One of them after the other.                                            *)
LEMMA HarmlessFits ==
    ASSUME NEW N \in Nat, NEW e, NEW s, NEW c, Fits(N, e, s, c, defining, Defining.frag),
           NEW n, Old(N, e, s, c, n), s[N + 1] = n + 1, Harmless(e[N + 1])
    PROVE  Fits(N + 1, e, s, c, defining, Defining.frag) /\ Old(N + 1, e, s, c, n + 1)
<1>1. IndexedAt(e, N + 1) /\ Straight(e[N + 1].op) /\ e[N + 1].inWord = defining
  BY DEF IndexedAt, Harmless
<1> QED BY <1>1, FitsNext

(* A string literal.                                                       *)
LEMMA StringFits ==
    ASSUME Shaping, NEW w, NEW t, String(w, t)
    PROVE  FitsNow(cf, defining, Defining.frag)
<1> DEFINE a == Frag("PUSH_DATA_ADDRESS", Offset(strings', Find(strings', t)))
           b == Frag("PUSH_LITERAL", Length(t))
           c == Frag("RUNTIME_WORD", Find(runtime', "type"))
           N == Len(sequence)
           n == Len(frags)
<1>1. Harmless(a) /\ Harmless(b) /\ Harmless(c)
  BY DEF Frag, Harmless, Straight
<1>2. Emit(<<a, b>> \o IF w = ".\"" THEN <<c>> ELSE <<>>)
  BY DEF String
<1> HIDE DEF a, b, c
<1>3. <<a, b>> \o <<c>> = <<a, b, c>> /\ <<a, b>> \o <<>> = <<a, b>>
  BY Concats
<1>4. ASSUME NEW new, AnySeq(new), Len(new) \in Nat, Len(new) > 1, Emit(new), new[1] = a, new[2] = b
      PROVE  /\ Fits(N + 1 + 1, Emitted, sequence', cf, defining, Defining.frag)
             /\ Old(N + 1 + 1, Emitted, sequence', cf, n + 1 + 1)
             /\ Len(sequence') = N + Len(new) /\ N \in Nat \ {0} /\ n \in Nat
             /\ \A i \in 1..Len(new) : sequence'[N + i] = n + i /\ Emitted[N + i] = new[i]
  <2>1. /\ Fits(N, Emitted, sequence', cf, defining, Defining.frag)
        /\ Old(N, Emitted, sequence', cf, n)
        /\ Len(sequence') = N + Len(new) /\ N \in Nat \ {0} /\ n \in Nat
        /\ \A i \in 1..Len(new) : sequence'[N + i] = n + i /\ Emitted[N + i] = new[i]
    BY <1>4, EmitFits
  <2>2. 1 \in 1..Len(new) /\ 2 \in 1..Len(new)
    BY <1>4
  <2>3. N + 1 + 1 = N + 2 /\ n + 1 + 1 = n + 2 /\ N + 1 \in Nat /\ N \in Nat
    BY <2>1
  <2>4. /\ sequence'[N + 1] = n + 1 /\ Emitted[N + 1] = a
        /\ sequence'[N + 1 + 1] = n + 1 + 1 /\ Emitted[N + 1 + 1] = b
    BY <2>1, <2>2, <2>3, <1>4
  <2> HIDE DEF N, n
  <2>5. /\ Fits(N + 1, Emitted, sequence', cf, defining, Defining.frag)
        /\ Old(N + 1, Emitted, sequence', cf, n + 1)
    BY <2>1, <2>3, <2>4, <1>1, HarmlessFits
  <2>6. /\ Fits(N + 1 + 1, Emitted, sequence', cf, defining, Defining.frag)
        /\ Old(N + 1 + 1, Emitted, sequence', cf, n + 1 + 1)
    BY <2>3, <2>4, <2>5, <1>1, HarmlessFits
  <2> QED BY <2>1, <2>6
<1>5. CASE w = ".\""
  <2> DEFINE new == <<a, b, c>>
  <2>1. Emit(new)
    BY <1>2, <1>3, <1>5
  <2>2. AnySeq(new) /\ Len(new) = 3 /\ new[1] = a /\ new[2] = b /\ new[3] = c
    BY Tuples
  <2> HIDE DEF new
  <2>3. Len(new) \in Nat /\ Len(new) > 1 /\ 3 \in 1..Len(new)
    BY <2>2
  <2>4. /\ Fits(N + 1 + 1, Emitted, sequence', cf, defining, Defining.frag)
        /\ Old(N + 1 + 1, Emitted, sequence', cf, n + 1 + 1)
        /\ Len(sequence') = N + Len(new) /\ N \in Nat \ {0} /\ n \in Nat
        /\ \A i \in 1..Len(new) : sequence'[N + i] = n + i /\ Emitted[N + i] = new[i]
    BY <2>1, <2>2, <2>3, <1>4
  <2>5. N + 1 + 1 + 1 = N + 3 /\ n + 1 + 1 + 1 = n + 3 /\ N + 1 + 1 \in Nat
    BY <2>4
  <2>6. sequence'[N + 1 + 1 + 1] = n + 1 + 1 + 1 /\ Emitted[N + 1 + 1 + 1] = c
    BY <2>2, <2>3, <2>4, <2>5
  <2>7. Len(sequence') = N + 1 + 1 + 1
    BY <2>2, <2>4, <2>5
  <2> HIDE DEF N, n
  <2>8. Fits(N + 1 + 1 + 1, Emitted, sequence', cf, defining, Defining.frag)
    BY <2>4, <2>5, <2>6, <1>1, HarmlessFits
  <2> QED BY <2>7, <2>8 DEF FitsNow
<1>6. CASE w # ".\""
  <2> DEFINE new == <<a, b>>
  <2>1. Emit(new)
    BY <1>2, <1>3, <1>6
  <2>2. AnySeq(new) /\ Len(new) = 2 /\ new[1] = a /\ new[2] = b
    BY Tuples
  <2> HIDE DEF new
  <2>3. Len(new) \in Nat /\ Len(new) > 1
    BY <2>2
  <2>4. /\ Fits(N + 1 + 1, Emitted, sequence', cf, defining, Defining.frag)
        /\ Len(sequence') = N + Len(new) /\ N \in Nat \ {0}
    BY <2>1, <2>2, <2>3, <1>4
  <2>5. Len(sequence') = N + 1 + 1
    BY <2>2, <2>4
  <2> QED BY <2>4, <2>5 DEF FitsNow
<1> QED BY <1>5, <1>6

(* The word being defined keeps its place.                                 *)
LEMMA DefiningStays ==
    ASSUME Shaping, ~Colons
    PROVE  Last(words').frag = Defining.frag
<1>1. words \in Seq(Word) /\ Len(words) \in Nat
  BY Plainly DEF Shaping
<1>2. Kept(words')
  BY <1>1, WordsKept DEF Shaping, Reading, Colons
<1>3. CASE Len(words) = 0
  <2>1. words = <<>> /\ words' = <<>>
    BY <1>1, <1>2, <1>3, EmptySeq DEF Kept
  <2> QED BY <2>1 DEF Defining
<1>4. CASE Len(words) # 0
  <2>1. Len(words) \in 1..Len(words)
    BY <1>1, <1>4
  <2> QED BY <2>1, <1>2 DEF Kept, Defining, Last
<1> QED BY <1>3, <1>4

(* The number of a built-in word, and the loops i and j have around them.  *)
LEMMA BuiltinGuard ==
    ASSUME Reading, NEW w, UseBuiltin(w)
    PROVE  \E p : /\ Emit1("BUILTIN_WORD", p)
                  /\ (p = 15 => OpenLoops >= 1) /\ (p = 16 => OpenLoops >= 2)
<1>1. defining \in BOOLEAN
  BY DEF Reading
<1>2. w = "i" => OpenLoops >= 1
  <2> SUFFICES ASSUME w = "i"
               PROVE  OpenLoops >= 1
    OBVIOUS
  <2> DEFINE b == <<OpenLoops >= 1, "LOOP_INDEX_USED_OUTSIDE_LOOP">>
  <2>1. Checks("i", NoName) = <<b>>
    BY DEF Checks
  <2>2. AllHold(Checks("i", NoName))
    BY <1>1, Passed DEF UseBuiltin
  <2>3. b[1] <=> OpenLoops >= 1
    OBVIOUS
  <2> HIDE DEF b
  <2>4. Len(<<b>>) = 1 /\ <<b>>[1] = b
    OBVIOUS
  <2>5. AllHold(<<b>>)
    BY <2>1, <2>2, Zenon
  <2>6. b[1]
    BY <2>4, <2>5 DEF AllHold
  <2> QED BY <2>3, <2>6
<1>3. w = "j" => OpenLoops >= 2
  <2> SUFFICES ASSUME w = "j"
               PROVE  OpenLoops >= 2
    OBVIOUS
  <2> DEFINE b == <<OpenLoops >= 2, "LOOP_INDEX_USED_OUTSIDE_LOOP">>
  <2>1. Checks("j", NoName) = <<b>>
    BY DEF Checks
  <2>2. AllHold(Checks("j", NoName))
    BY <1>1, Passed DEF UseBuiltin
  <2>3. b[1] <=> OpenLoops >= 2
    OBVIOUS
  <2> HIDE DEF b
  <2>4. Len(<<b>>) = 1 /\ <<b>>[1] = b
    OBVIOUS
  <2>5. AllHold(<<b>>)
    BY <2>1, <2>2, Zenon
  <2>6. b[1]
    BY <2>4, <2>5 DEF AllHold
  <2> QED BY <2>3, <2>6
<1>4. CASE w = "i"
  <2>1. Emit1("BUILTIN_WORD", 15)
    BY <1>4 DEF UseBuiltin
  <2> QED BY <2>1, <1>2, <1>4
<1>5. CASE w = "j"
  <2>1. Emit1("BUILTIN_WORD", 16)
    BY <1>5 DEF UseBuiltin
  <2> QED BY <2>1, <1>3, <1>5
<1>6. CASE w # "i" /\ w # "j"
  <2>1. Emit1("BUILTIN_WORD", 1)
    BY <1>6 DEF UseBuiltin
  <2> QED BY <2>1
<1> QED BY <1>4, <1>5, <1>6

(* What Shape says of the next state.                                      *)
LEMMA ShapeNow ==
    ASSUME NEW c, c = cf', NEW d, d = defining', NEW f, f = Last(words').frag, FitsNow(c, d, f)
    PROVE  Shape'
  BY DEF Shape, FitsNow, Emitted, Defining

(* A word that adds nothing.                                               *)
LEMMA NothingFits ==
    ASSUME Shaping, UNCHANGED <<code, cf>>
    PROVE  FitsNow(cf', defining, Defining.frag)
  BY DEF Shaping, Shape, FitsNow, Emitted, code

(* Every word that compiles keeps the code in shape.                       *)
LEMMA CompilesShape ==
    ASSUME Shaping
    PROVE  Shape'
<1>0. Compiles /\ Reading /\ defining \in BOOLEAN
  BY DEF Shaping, Reading
<1>1. ASSUME Colons
      PROVE  Shape'
  <2>1. PICK n \in Names : Colon(n)
    BY <1>1 DEF Colons
  <2>2. FitsNow(cf, TRUE, Len(frags) + 1)
    <3>1. FitsNow(cf, TRUE, Len(sequence) + 1) /\ Len(sequence) = Len(frags)
      BY <2>1, ColonFits
    <3> QED BY <3>1
  <2>3. cf' = cf /\ defining' = TRUE
    BY <2>1 DEF Colon
  <2>4. Last(words').frag = Len(frags) + 1
    <3>1. words \in Seq(Word) /\ Len(frags) \in Nat
      BY Plainly DEF Shaping
    <3>2. Len(words') = Len(words) + 1 /\ words'[Len(words) + 1].frag = Len(frags) + 1
      BY <2>1, <3>1, ColonWord
    <3> QED BY <3>2 DEF Last
  <2> QED BY <2>2, <2>3, <2>4, ShapeNow
<1>2. ASSUME ~Colons
      PROVE  Shape'
  <2>1. Last(words').frag = Defining.frag
    BY <1>2, DefiningStays
  <2>2. CASE Semicolon
    <3>1. FitsNow(cf, FALSE, Last(words').frag)
      BY <2>2, SemicolonFits
    <3>2. cf' = cf /\ defining' = FALSE
      BY <2>2 DEF Semicolon
    <3> QED BY <3>1, <3>2, ShapeNow
  <2>3. ASSUME FitsNow(cf', defining, Defining.frag), defining' = defining
        PROVE  Shape'
    BY <2>1, <2>3, ShapeNow
  <2>4. ASSUME NEW o, NEW p, Emit1(o, p), cf' = cf, defining' = defining,
               o \in {"DEFINED_WORD", "USE_VARIABLE_OR_CONSTANT", "RUNTIME_WORD", "EXECUTE",
                      "THREAD_CREATE", "THREAD_JOIN", "PUSH_LITERAL", "DECLARE_CONSTANT",
                      "DECLARE_VARIABLE", "PUSH_OFFSET_ADDRESS", "PUSH_CALLBACK"}
        PROVE  Shape'
    <3>1. Straight(o) /\ o # "BUILTIN_WORD"
      BY <2>4 DEF Straight
    <3>2. FitsNow(cf, defining, Defining.frag)
      BY <2>4, <3>1, StraightFits
    <3> QED BY <2>3, <2>4, <3>2
  <2>5. ASSUME NEW w, UseName(w)
        PROVE  Shape'
    <3>1. \E p : Emit1("DEFINED_WORD", p) \/ Emit1("USE_VARIABLE_OR_CONSTANT", p)
      BY <2>5 DEF UseName
    <3>2. cf' = cf /\ defining' = defining
      BY <2>5 DEF UseName
    <3> QED BY <3>1, <3>2, <2>4
  <2>6. ASSUME NEW w, UseBuiltin(w)
        PROVE  Shape'
    <3>1. cf' = cf /\ defining' = defining
      BY <2>6 DEF UseBuiltin
    <3>2. Straight("BUILTIN_WORD")
      BY DEF Straight
    <3>3. FitsNow(cf, defining, Defining.frag)
      BY <1>0, <2>6, <3>2, BuiltinGuard, StraightFits
    <3> QED BY <2>3, <3>1, <3>3
  <2>7. ASSUME NEW w, UseRuntime(w)
        PROVE  Shape'
    <3>1. cf' = cf /\ defining' = defining /\ Emit1("RUNTIME_WORD", Find(runtime', w))
      BY <2>7 DEF UseRuntime
    <3> QED BY <3>1, <2>4
  <2>8. ASSUME NEW w, Plain(w)
        PROVE  Shape'
    <3>1. cf' = cf /\ defining' = defining /\ Emit1(PlainOps[w], 0)
      BY <2>8 DEF Plain
    <3>2. PlainOps[w] \in {"EXECUTE", "THREAD_CREATE", "THREAD_JOIN", "PUSH_LITERAL"}
      BY <2>8 DEF Plain, PlainOps
    <3> QED BY <3>1, <3>2, <2>4
  <2>9. ASSUME NEW w, Skip(w) \/ Comment(w)
        PROVE  Shape'
    <3>1. UNCHANGED <<code, cf>> /\ defining' = defining
      BY <2>9 DEF Skip, Comment
    <3> QED BY <3>1, <2>3, NothingFits
  <2>10. ASSUME NEW w, NEW n, Declare(w, n)
         PROVE  Shape'
    <3>1. /\ cf' = cf /\ defining' = defining
          /\ \E p : Emit1("DECLARE_CONSTANT", p) \/ Emit1("DECLARE_VARIABLE", p)
      BY <2>10 DEF Declare
    <3> QED BY <3>1, <2>4
  <2>11. ASSUME NEW n, Tick(n)
         PROVE  Shape'
    <3>1. /\ cf' = cf /\ defining' = defining
          /\ Emit1("PUSH_OFFSET_ADDRESS", words[Find(WordNames, n)].frag)
      BY <2>11 DEF Tick
    <3> QED BY <3>1, <2>4
  <2>12. ASSUME NEW n, CTick(n)
         PROVE  Shape'
    <3>1. /\ cf' = cf /\ defining' = defining
          /\ Emit1("PUSH_CALLBACK", Find(callbacks', Find(WordNames, n)))
      BY <2>12 DEF CTick
    <3> QED BY <3>1, <2>4
  <2>13. CASE Exit
    <3>1. cf' = cf /\ defining' = defining /\ Emit1("EXIT_WORD", Defining.frag)
      BY <2>13 DEF Exit
    <3>2. defining = TRUE
      BY <1>0, <2>13, DefiningGuard DEF Exit
    <3>3. FitsNow(cf, defining, Defining.frag)
      BY <3>1, <3>2, StraightFits
    <3> QED BY <2>3, <3>1, <3>3
  <2>14. CASE Recurse
    <3>1. cf' = cf /\ defining' = defining /\ Emit1("DEFINED_WORD", Defining.frag)
      BY <2>14 DEF Recurse
    <3> QED BY <3>1, <2>4
  <2>15. ASSUME NEW w, NEW s, String(w, s)
         PROVE  Shape'
    <3>1. cf' = cf /\ defining' = defining
      BY <2>15 DEF String
    <3> QED BY <2>3, <2>15, <3>1, StringFits
  <2>16. ASSUME If \/ Then \/ Else \/ Do \/ Loop \/ Begin \/ Until \/ While \/ Repeat \/ Again
         PROVE  defining' = defining
    BY <2>16 DEF If, Then, Else, Do, Loop, Begin, Until, While, Repeat, Again,
                 Forward, Backward, Control
  <2>17. CASE If \/ While
    BY <1>2, <2>3, <2>16, <2>17, ForwardFits DEF If, While
  <2>18. CASE Then
    BY <1>0, <1>2, <2>3, <2>16, <2>18, ClosingGuards, ThenFits DEF Then, Control
  <2>19. CASE Else
    BY <1>0, <1>2, <2>3, <2>16, <2>19, ClosingGuards, ElseFits DEF Else, Control
  <2>20. CASE Do
    BY <2>3, <2>16, <2>20, DoFits
  <2>21. CASE Begin
    BY <2>3, <2>16, <2>21, BeginFits
  <2>22. CASE Loop
    <3>1. cf # <<>> /\ Top.type \in {"DO"}
      BY <1>0, <2>22, ClosingGuards DEF Loop, Backward, Control
    <3> QED BY <2>3, <2>16, <2>22, <3>1, BackwardFits DEF Loop
  <2>23. CASE Until \/ Again
    <3>1. cf # <<>> /\ Top.type \in {"BEGIN"}
      BY <1>0, <2>23, ClosingGuards DEF Until, Again, Backward, Control
    <3> QED BY <2>3, <2>16, <2>23, <3>1, BackwardFits DEF Until, Again
  <2>24. CASE Repeat
    <3>1. cf # <<>> /\ Top.type \in {"WHILE"} /\ Len(cf) > 1 /\ BelowTop = "BEGIN"
      BY <1>0, <2>24, RepeatGuard DEF Repeat, Control
    <3> QED BY <1>2, <2>3, <2>16, <2>24, <3>1, RepeatFits
  <2> QED BY <1>0, <1>2, <2>2, <2>5, <2>6, <2>7, <2>8, <2>9, <2>10, <2>11, <2>12, <2>13, <2>14,
             <2>15, <2>17, <2>18, <2>19, <2>20, <2>21, <2>22, <2>23, <2>24 DEF Compiles, Colons
<1> QED BY <1>1, <1>2

(* A string literal is compiled.                                           *)
Literals == \E w \in Vocabulary, s \in Strings : String(w, s)

(* A fragment that a word other than a colon creates.                      *)
Newly(x) ==
    /\ x.inWord = defining /\ x.op # "DEFINED_WORD_LOCATION"
    /\ x.op = "EXIT_WORD" => Exit \/ Semicolon
    /\ x.op = "PUSH_DATA_ADDRESS" => Literals

(* All the fragments the step creates are such.                            *)
AllNewly == \A i \in 1..Len(frags') : i \notin 1..Len(frags) => Newly(frags'[i])

(* The fragments new, behind the others.                                   *)
LEMMA JoinedNewly ==
    ASSUME AnySeq(frags), NEW new, AnySeq(new), frags' = frags \o new,
           \A i \in 1..Len(new) : Newly(new[i])
    PROVE  AllNewly
<1>1. /\ Extends(frags, frags', Len(new)) /\ Len(frags) \in Nat /\ Len(new) \in Nat
      /\ \A i \in 1..Len(new) : frags'[Len(frags) + i] = new[i]
  BY Joined
<1> SUFFICES ASSUME NEW f \in 1..Len(frags'), f \notin 1..Len(frags)
             PROVE  Newly(frags'[f])
  BY DEF AllNewly
<1> DEFINE i == f - Len(frags)
<1>2. i \in 1..Len(new) /\ Len(frags) + i = f
  BY <1>1 DEF Extends
<1> HIDE DEF i
<1> QED BY <1>1, <1>2

(* One fragment.                                                           *)
LEMMA OneNewly ==
    ASSUME AnySeq(frags), NEW x, Newly(x), frags' = frags \o <<x>> \/ frags' = Append(frags, x)
    PROVE  AllNewly
<1>1. CASE frags' = frags \o <<x>>
  <2> DEFINE new == <<x>>
  <2>1. AnySeq(new) /\ Len(new) = 1 /\ new[1] = x
    BY Tuples
  <2>2. frags' = frags \o new
    BY <1>1
  <2> HIDE DEF new
  <2>3. \A i \in 1..Len(new) : Newly(new[i])
    BY <2>1
  <2> QED BY <2>1, <2>2, <2>3, JoinedNewly
<1>2. CASE frags' = Append(frags, x)
  <2>1. Len(frags') = Len(frags) + 1 /\ frags'[Len(frags) + 1] = x /\ Len(frags) \in Nat
    BY <1>2, Appended DEF Extends
  <2>2. \A i \in 1..Len(frags') : i \notin 1..Len(frags) => i = Len(frags) + 1
    BY <2>1
  <2> QED BY <2>1, <2>2 DEF AllNewly
<1> QED BY <1>1, <1>2

(* Two fragments.                                                          *)
LEMMA TwoNewly ==
    ASSUME AnySeq(frags), NEW x, Newly(x), NEW y, Newly(y), frags' = frags \o <<x, y>>
    PROVE  AllNewly
<1> DEFINE new == <<x, y>>
<1>1. AnySeq(new) /\ Len(new) = 2 /\ new[1] = x /\ new[2] = y
  BY Tuples
<1>2. frags' = frags \o new
  OBVIOUS
<1> HIDE DEF new
<1>3. \A i \in 1..Len(new) : Newly(new[i])
  BY <1>1
<1> QED BY <1>1, <1>2, <1>3, JoinedNewly

(* A fragment of the word, or the main program, being compiled.            *)
LEMMA FragNewly ==
    ASSUME NEW o, NEW p, o # "DEFINED_WORD_LOCATION",
           o = "EXIT_WORD" => Exit \/ Semicolon,
           o = "PUSH_DATA_ADDRESS" => Literals
    PROVE  Newly(Frag(o, p))
  BY DEF Newly, Frag

(* Emitting one such fragment.                                             *)
LEMMA EmittedNewly ==
    ASSUME AnySeq(frags), NEW o, NEW p, Emit1(o, p), o # "DEFINED_WORD_LOCATION",
           o = "EXIT_WORD" => Exit \/ Semicolon,
           o = "PUSH_DATA_ADDRESS" => Literals
    PROVE  AllNewly
<1>1. Newly(Frag(o, p))
  BY FragNewly
<1>2. frags' = frags \o <<Frag(o, p)>>
  BY DEF Emit1, Emit
<1> HIDE DEF Frag
<1> QED BY <1>1, <1>2, OneNewly

(* What a word other than a colon creates.                                 *)
LEMMA CompilesNewly ==
    ASSUME Reading, ~Colons
    PROVE  AllNewly
<1>0. Compiles /\ AnySeq(frags)
  BY Plainly DEF Reading
<1>1. ASSUME NEW o, NEW p, Emit1(o, p),
             o \notin {"DEFINED_WORD_LOCATION", "EXIT_WORD", "PUSH_DATA_ADDRESS"}
      PROVE  AllNewly
  BY <1>0, <1>1, EmittedNewly
<1>2. ASSUME NEW w, UseName(w)
      PROVE  AllNewly
  <2>1. \E p : Emit1("DEFINED_WORD", p) \/ Emit1("USE_VARIABLE_OR_CONSTANT", p)
    BY <1>2 DEF UseName
  <2> QED BY <1>1, <2>1
<1>3. ASSUME NEW w, UseBuiltin(w)
      PROVE  AllNewly
  <2>1. \E p : Emit1("BUILTIN_WORD", p)
    BY <1>3 DEF UseBuiltin
  <2> QED BY <1>1, <2>1
<1>4. ASSUME NEW w, UseRuntime(w)
      PROVE  AllNewly
  <2>1. \E p : Emit1("RUNTIME_WORD", p)
    BY <1>4 DEF UseRuntime
  <2> QED BY <1>1, <2>1
<1>5. ASSUME NEW w, Plain(w)
      PROVE  AllNewly
  <2>1. Emit1(PlainOps[w], 0)
    BY <1>5 DEF Plain
  <2>2. PlainOps[w] \in {"EXECUTE", "THREAD_CREATE", "THREAD_JOIN", "PUSH_LITERAL"}
    BY <1>5 DEF Plain, PlainOps
  <2> HIDE DEF PlainOps
  <2> QED BY <1>1, <2>1, <2>2
<1>6. ASSUME frags' = frags
      PROVE  AllNewly
  BY <1>6 DEF AllNewly
<1>7. ASSUME NEW w, NEW n, Declare(w, n)
      PROVE  AllNewly
  <2>1. \E p : Emit1("DECLARE_CONSTANT", p) \/ Emit1("DECLARE_VARIABLE", p)
    BY <1>7 DEF Declare
  <2> QED BY <1>1, <2>1
<1>8. ASSUME NEW n, Tick(n)
      PROVE  AllNewly
  <2>1. \E p : Emit1("PUSH_OFFSET_ADDRESS", p)
    BY <1>8 DEF Tick
  <2> QED BY <1>1, <2>1
<1>9. ASSUME NEW n, CTick(n)
      PROVE  AllNewly
  <2>1. \E p : Emit1("PUSH_CALLBACK", p)
    BY <1>9 DEF CTick
  <2> QED BY <1>1, <2>1
<1>10. CASE Exit \/ Semicolon
  <2>1. Emit1("EXIT_WORD", Defining.frag)
    BY <1>10 DEF Exit, Semicolon
  <2> QED BY <1>0, <1>10, <2>1, EmittedNewly
<1>11. CASE Recurse
  <2>1. \E p : Emit1("DEFINED_WORD", p)
    BY <1>11 DEF Recurse
  <2> QED BY <1>1, <2>1
<1>12. ASSUME NEW w \in Vocabulary, NEW s \in Strings, String(w, s)
       PROVE  AllNewly
  <2> DEFINE a == Frag("PUSH_DATA_ADDRESS", Offset(strings', Find(strings', s)))
             b == Frag("PUSH_LITERAL", Length(s))
             c == Frag("RUNTIME_WORD", Find(runtime', "type"))
  <2>1. Literals /\ frags' = frags \o (<<a, b>> \o IF w = ".\"" THEN <<c>> ELSE <<>>)
    BY <1>12 DEF String, Emit, Literals
  <2>2. Newly(a) /\ Newly(b) /\ Newly(c)
    BY <2>1, FragNewly
  <2> HIDE DEF a, b, c
  <2>3. CASE w = ".\""
    <3> DEFINE new == <<a, b, c>>
    <3>1. frags' = frags \o new
      BY <2>1, <2>3, Concats
    <3>2. AnySeq(new) /\ Len(new) = 3 /\ new[1] = a /\ new[2] = b /\ new[3] = c
      BY Tuples
    <3> HIDE DEF new
    <3>3. \A i \in 1..Len(new) : Newly(new[i])
      <4>1. \A i \in 1..3 : i = 1 \/ i = 2 \/ i = 3
        OBVIOUS
      <4> QED BY <4>1, <3>2, <2>2
    <3> QED BY <1>0, <3>1, <3>2, <3>3, JoinedNewly
  <2>4. CASE w # ".\""
    <3>1. frags' = frags \o <<a, b>>
      BY <2>1, <2>4, Concats
    <3> QED BY <1>0, <3>1, <2>2, TwoNewly
  <2> QED BY <2>3, <2>4
<1>13. ASSUME NEW o, NEW p, o \in {"BRANCH", "BRANCH_IF_ZERO"},
              frags' = frags \o <<Pending, Frag(o, p)>>
       PROVE  AllNewly
  <2> DEFINE x == Pending
             y == Frag(o, p)
  <2>1. Newly(x) /\ Newly(y)
    BY <1>13, FragNewly DEF Pending
  <2>2. frags' = frags \o <<x, y>>
    BY <1>13
  <2> HIDE DEF x, y
  <2> QED BY <1>0, <2>1, <2>2, TwoNewly
<1>14. CASE If \/ While
  <2>1. frags' = frags \o <<Pending, Frag("BRANCH_IF_ZERO", Here)>>
    BY <1>14 DEF If, While, Forward
  <2> QED BY <2>1, <1>13
<1>15. CASE Else
  <2>1. frags' = frags \o <<Pending, Frag("BRANCH", Here)>>
    BY <1>15 DEF Else
  <2> QED BY <2>1, <1>13
<1>16. CASE Loop \/ Until \/ Again
  <2>1. \E p : Emit1("LOOP", p) \/ Emit1("BRANCH_IF_ZERO", p) \/ Emit1("BRANCH", p)
    BY <1>16 DEF Loop, Until, Again, Backward
  <2> QED BY <1>1, <2>1
<1>17. CASE Begin
  <2>1. Emit1("BRANCH_LOCATION", 0)
    BY <1>17 DEF Begin, Pending, Emit1
  <2> QED BY <1>1, <2>1
<1>18. CASE Do
  <2> DEFINE x == Frag("DO", 0)
             y == Pending
  <2>1. Newly(x) /\ Newly(y)
    BY FragNewly DEF Pending
  <2>2. frags' = frags \o <<x, y>>
    BY <1>18 DEF Do, Emit
  <2> HIDE DEF x, y
  <2> QED BY <1>0, <2>1, <2>2, TwoNewly
<1>19. CASE Repeat
  <2> DEFINE x == Frag("BRANCH", cf[Len(cf) - 1].frag)
  <2>1. Newly(x)
    BY FragNewly
  <2>2. frags' = Append(frags, x)
    BY <1>19 DEF Repeat
  <2> HIDE DEF x
  <2> QED BY <1>0, <2>1, <2>2, OneNewly
<1>20. ASSUME NEW w, Skip(w) \/ Comment(w) \/ Then
       PROVE  AllNewly
  BY <1>6, <1>20 DEF Skip, Comment, Then, code
<1> QED BY <1>0, <1>2, <1>3, <1>4, <1>5, <1>7, <1>8, <1>9, <1>10, <1>11, <1>12, <1>14, <1>15,
           <1>16, <1>17, <1>18, <1>19, <1>20 DEF Compiles, Colons

(* Only a semicolon ends a definition.                                     *)
LEMMA SameDefining ==
    ASSUME Compiles, ~Colons, ~Semicolon
    PROVE  defining' = defining
  BY DEF Colons, Compiles, UseName, UseBuiltin, UseRuntime, Plain, Skip, Declare,
         Tick, CTick, Exit, Recurse, Comment, String, If, Then, Else, Do,
         Loop, Begin, Until, While, Repeat, Again, Forward, Backward, Control

(* The targets owed belong to the word, or the main program, compiled.     *)
LEMMA CompilesOwed ==
    ASSUME Shaping
    PROVE  OwedHere'
<1>0. Reading /\ OwedHere /\ Compiles /\ defining \in BOOLEAN
  BY DEF Shaping, Reading
<1>1. CASE Colons \/ Semicolon
  <2>1. cf = <<>>
    <3>1. Colons => \E n : Accepts(":", n)
      BY DEF Colons, Colon
    <3>2. \A n : Accepts(":", n) => cf = <<>>
      BY <1>0, ColonGuard
    <3>3. Semicolon => Accepts(";", NoName)
      BY Zenon DEF Semicolon
    <3>4. Accepts(";", NoName) => cf = <<>>
      BY <1>0, SemicolonBalanced
    <3> QED BY <1>1, <3>1, <3>2, <3>3, <3>4, Zenon
  <2>2. cf' = <<>>
    BY <1>1, <2>1 DEF Colons, Colon, Semicolon
  <2>3. Owes(<<>>) = {}
    BY DEF Owes
  <2> QED BY <2>2, <2>3 DEF OwedHere
<1>2. CASE ~Colons /\ ~Semicolon
  <2>1. AllNewly /\ defining' = defining
    BY <1>0, <1>2, CompilesNewly, SameDefining
  <2>2. CodeStep
    BY <1>0, <1>2, CompilesCode DEF Reading, Colons
  <2>3. /\ CodeOK(frags', sequence', cf')
        /\ Prefix(frags, frags') /\ Prefix(sequence, sequence')
    BY <2>2 DEF CodeStep
  <2>4. Placed(Len(frags'), sequence', cf') /\ Placed(Len(frags), sequence, cf)
    BY <1>0, <2>3 DEF Reading, CodeOK
  <2> SUFFICES ASSUME NEW j \in Owes(cf')
               PROVE  frags'[cf'[j].frag].inWord = defining
    BY <2>1 DEF OwedHere
  <2> DEFINE x == cf'[j].frag
  <2>5. x \in 1..Len(frags') /\ \A k \in 1..Len(sequence') : sequence'[k] # x
    BY <2>4 DEF Placed, OwedOnce, Apart
  <2> HIDE DEF x
  <2>6. CASE x \in 1..Len(frags)
    <3>1. ~Emits(sequence, x)
      <4>1. PICK m \in Nat : Extends(sequence, sequence', m)
        BY <2>3 DEF Prefix
      <4>2. Len(sequence) \in Nat
        BY <1>0, Plainly
      <4>3. \A k \in 1..Len(sequence) : sequence[k] # x
        BY <2>5, <4>1, <4>2 DEF Extends
      <4> QED BY <4>3 DEF Emits
    <3>2. OwesFragment(cf, x)
      BY <2>4, <2>6, <3>1 DEF Placed
    <3>3. frags[x].inWord = defining
      BY <1>0, <3>2 DEF OwesFragment, OwedHere
    <3>4. frags'[x] = frags[x]
      BY <2>3, <2>6 DEF Prefix, Extends
    <3> QED BY <3>3, <3>4 DEF x
  <2>7. CASE x \notin 1..Len(frags)
    <3>1. Newly(frags'[x])
      BY <2>1, <2>5, <2>7 DEF AllNewly
    <3> QED BY <3>1 DEF Newly, x
  <2> QED BY <2>6, <2>7
<1> QED BY <1>1, <1>2

(* The code and the stack, while the source is read.                       *)
ShapeInv == ret = "reading" => Shape /\ OwedHere

(* The ENTRY fragment alone is in shape.                                   *)
LEMMA EntryFits ==
    ASSUME NEW e, e[1].op = "ENTRY", e[1].inWord = FALSE, NEW s, NEW f
    PROVE  Fits(1, e, s, <<>>, FALSE, f)
<1>1. ~Inside(e, 1) /\ \A k \in 1..1 : k = 1
  BY DEF Inside
<1>2. Len(<<>>) = 0 /\ Len(<<>>) \in Nat /\ 1..Len(<<>>) = {}
  BY NoTables
<1>3. ~Branching(e, 1)
  BY DEF Branching
<1>4. Regional(1, e, s, FALSE, f)
  <2>1. Kinds(1, e)
    BY <1>1 DEF Kinds
  <2>2. Seams(1, e)
    BY DEF Seams
  <2>3. Exits(1, e, s)
    BY <1>1 DEF Exits
  <2>4. Ends(1, e, s, FALSE, f)
    BY <1>1 DEF Ends
  <2>5. 1 \in Nat \ {0} /\ FALSE \in BOOLEAN
    OBVIOUS
  <2> QED BY ONLY <2>1, <2>2, <2>3, <2>4, <2>5, Zenon DEF Regional
<1>5. Nested(1, e, s, <<>>, FALSE, f)
  <2>1. Arrives(1, e, s)
    BY <1>1, <1>3 DEF Arrives
  <2>2. Awaited(1, e, <<>>, FALSE, f) /\ Begun(1, e, s, <<>>, FALSE, f) /\ Distinct(<<>>)
    BY <1>2 DEF Awaited, Begun, Distinct
  <2>3. Indexed(1, e)
    BY <1>1 DEF Indexed
  <2>4. 1 \in Nat \ {0} /\ Len(<<>>) \in Nat
    BY <1>2
  <2> QED BY ONLY <2>1, <2>2, <2>3, <2>4, Zenon DEF Nested
<1>6. Nest(e, 1 + 1) = Loops(<<>>, Len(<<>>))
  <2>1. Nest(e, 1) = 0 /\ Nest(e, 1 + 1) = Nest(e, 1)
    BY NestNext
  <2>2. Loops(<<>>, 0) = 0
    BY LoopsNext
  <2> QED BY <1>2, <2>1, <2>2
<1> QED BY <1>1, <1>4, <1>5, <1>6 DEF Fits

(* The source starts in shape.                                             *)
LEMMA InitShape == Init => ShapeInv
<1> HAVE Init
<1> DEFINE x == [op |-> "ENTRY", param |-> 0, inWord |-> FALSE]
<1>1. frags = <<x>> /\ sequence = <<1>> /\ cf = <<>> /\ defining = FALSE
  BY DEF Init
<1>2. x.op = "ENTRY" /\ x.inWord = FALSE
  OBVIOUS
<1> HIDE DEF x
<1> DEFINE e == Code(<<x>>, <<1>>)
           s == <<1>>
<1>3. Len(s) = 1 /\ e[1] = x
  BY Tuples DEF Code
<1> HIDE DEF e, s
<1>4. \A f : Fits(1, e, s, <<>>, FALSE, f)
  BY <1>2, <1>3, EntryFits
<1>5. \A f : Fits(Len(s), e, s, <<>>, FALSE, f)
  BY <1>3, <1>4
<1>6. Shape
  BY <1>1, <1>5 DEF Shape, e, s
<1>7. OwedHere
  <2>1. Owes(<<>>) = {}
    BY DEF Owes
  <2> QED BY <1>1, <2>1 DEF OwedHere
<1> QED BY <1>6, <1>7 DEF ShapeInv

(* Every step keeps the code in shape.                                     *)
LEMMA NextShape ==
    ASSUME CompilerInv, TypeInv, ShapeInv, [Next]_vars
    PROVE  ShapeInv'
<1>1. ASSUME Compiles
      PROVE  ShapeInv'
  <2>1. Shaping
    BY <1>1, ReadingNow, CompilesReads DEF Shaping, ShapeInv
  <2> QED BY <2>1, CompilesShape, CompilesOwed DEF ShapeInv
<1>2. ASSUME NEW w, NEW n, Fail(w, n)
      PROVE  ShapeInv'
  <2>1. ret' \in ErrorCode
    BY <1>2, FailCode DEF CompilerInv, TablesOK
  <2> QED BY <2>1 DEF ErrorCode, ShapeInv
<1>3. CASE Finish
  BY <1>3 DEF Finish, ShapeInv
<1>4. CASE FinishEarly
  BY <1>4 DEF FinishEarly, Abandon, ShapeInv
<1>5. CASE UNCHANGED vars
  BY <1>5 DEF vars, code, ShapeInv, Shape, OwedHere, Defining
<1> QED BY <1>1, <1>2, <1>3, <1>4, <1>5, NextCases

(* While the source is read, the code fits the control-flow stack.         *)
THEOREM CodeFits == Spec => []ShapeInv
<1>1. Init => ShapeInv
  BY InitShape
<1>2. CompilerInv /\ TypeInv /\ ShapeInv /\ [Next]_vars => ShapeInv'
  BY NextShape
<1>3. TypeInv /\ FinalCode => TypeInv
  OBVIOUS
<1> QED BY <1>1, <1>2, <1>3, CompilerInvariant, CompilerTypes, PTL DEF Spec

-----------------------------------------------------------------------------
(* The end of the source: the main program moves in front of the words,    *)
(* and what the code was shaped like is read back by position.  Then what  *)
(* the name tables say of the code: the flags of the words and the string  *)
(* literals.                                                               *)

(* The code at the end of the source: N entries and HALT behind them.      *)
Whole(N, e, s) ==
    /\ N \in Nat \ {0} /\ Kinds(N, e) /\ Seams(N + 1, e) /\ Exits(N, e, s)
    /\ Arrives(N, e, s) /\ Indexed(N, e)
    /\ e[N + 1].op = "HALT" /\ ~Inside(e, N + 1) /\ Nest(e, N + 1) = 0

(* With no construct open, HALT completes the code.                        *)
LEMMA HaltWhole ==
    ASSUME NEW N, NEW e, NEW s, NEW f, Fits(N, e, s, <<>>, FALSE, f),
           e[N + 1].op = "HALT", e[N + 1].inWord = FALSE
    PROVE  Whole(N, e, s)
<1>1. /\ N \in Nat \ {0} /\ Kinds(N, e) /\ Seams(N, e) /\ Exits(N, e, s) /\ Ends(N, e, s, FALSE, f)
      /\ Arrives(N, e, s) /\ Indexed(N, e)
  BY DEF Fits, Regional, Nested
<1>2. Nest(e, N + 1) = 0
  <2>1. Len(<<>>) = 0
    BY NoTables
  <2>2. Loops(<<>>, 0) = 0
    BY LoopsNext
  <2> QED BY <2>1, <2>2 DEF Fits
<1>3. ~Inside(e, N + 1)
  BY DEF Inside
<1>4. Seams(N + 1, e)
  <2> SUFFICES ASSUME NEW k \in 2..(N + 1)
               PROVE  /\ Inside(e, k) /\ e[k].op # "DEFINED_WORD_LOCATION" => Inside(e, k - 1)
                      /\ Seam(e, k) => Nest(e, k) = 0 /\ (Inside(e, k - 1) => e[k - 1].op = "EXIT_WORD")
    BY DEF Seams
  <2>1. CASE k \in 2..N
    BY <2>1, <1>1 DEF Seams
  <2>2. CASE k = N + 1
    <3>1. k - 1 = N
      BY <2>2, <1>1
    <3>2. Inside(e, N) => e[N].op = "EXIT_WORD"
      BY <1>1 DEF Ends
    <3> QED BY <3>1, <3>2, <2>2, <1>2, <1>3
  <2> QED BY <2>1, <2>2, <1>1
<1> QED BY <1>1, <1>2, <1>3, <1>4 DEF Whole

(* g has the H entries of e, the one at k at p[k]: the main program in     *)
(* front, both parts in their order.                                       *)
Moves(H, e, p, g) ==
    /\ H \in Nat /\ \A k \in 1..H : p[k] \in 1..H /\ g[p[k]] = e[k]
    /\ \A j, k \in 1..H : p[j] = p[k] => j = k
    /\ \A i \in 1..H : \E k \in 1..H : p[k] = i
    /\ \A j, k \in 1..H : j < k /\ (Inside(e, j) <=> Inside(e, k)) => p[j] < p[k]
    /\ \A j, k \in 1..H : ~Inside(e, j) /\ Inside(e, k) => p[j] < p[k]

(* The pass at the end of the source moves the code so.                    *)
LEMMA ReordersMoves ==
    ASSUME NEW fs, NEW s, NEW p, NEW t, Reorders(fs, s, p, t), Len(s) \in Nat, Parted(fs, s)
    PROVE  Moves(Len(s), Code(fs, s), p, Code(fs, t))
<1> DEFINE H == Len(s)
           e == Code(fs, s)
           g == Code(fs, t)
<1>1. /\ \A k \in 1..H : e[k] = fs[s[k]] /\ g[k] = fs[t[k]]
      /\ \A k \in 1..H : p[k] \in 1..H /\ t[p[k]] = s[k]
      /\ \A j, k \in 1..H : p[j] = p[k] => j = k
      /\ \A i \in 1..H : \E k \in 1..H : p[k] = i
      /\ \A j, k \in 1..H : j # k /\ NoLater(fs, s, j, k) => p[j] < p[k]
  BY DEF Reorders, Code
<1>2. \A k \in 1..H : fs[s[k]].inWord \in BOOLEAN /\ (Inside(e, k) <=> fs[s[k]].inWord = TRUE)
  BY <1>1 DEF Parted, Inside
<1> HIDE DEF e, g, H
<1>3. \A k \in 1..H : g[p[k]] = e[k]
  <2> SUFFICES ASSUME NEW k \in 1..H
               PROVE  g[p[k]] = e[k]
    OBVIOUS
  <2>1. p[k] \in 1..H /\ t[p[k]] = s[k]
    BY <1>1
  <2>2. g[p[k]] = fs[t[p[k]]]
    BY <1>1, <2>1
  <2>3. e[k] = fs[s[k]]
    BY <1>1
  <2> QED BY <2>1, <2>2, <2>3
<1>4. H \in Nat
  BY DEF H
<1>5. ASSUME NEW j \in 1..H, NEW k \in 1..H, j < k, Inside(e, j) <=> Inside(e, k)
      PROVE  p[j] < p[k]
  <2>1. fs[s[j]].inWord = fs[s[k]].inWord
    BY <1>2, <1>5
  <2>2. j # k /\ j <= k
    BY <1>5
  <2>3. NoLater(fs, s, j, k)
    BY <2>1, <2>2 DEF NoLater
  <2> QED BY <2>2, <2>3, <1>1
<1>6. ASSUME NEW j \in 1..H, NEW k \in 1..H, ~Inside(e, j), Inside(e, k)
      PROVE  p[j] < p[k]
  <2>1. fs[s[j]].inWord = FALSE /\ fs[s[k]].inWord = TRUE /\ j # k
    BY <1>2, <1>6
  <2>2. NoLater(fs, s, j, k)
    BY <2>1 DEF NoLater
  <2> QED BY <2>1, <2>2, <1>1
<1>7. Moves(H, e, p, g)
  BY <1>1, <1>3, <1>4, <1>5, <1>6 DEF Moves
<1> QED BY <1>7 DEF H, e, g

(* Neighbours of one part stay neighbours.                                 *)
LEMMA MovesTogether ==
    ASSUME NEW H, NEW e, NEW p, NEW g, Moves(H, e, p, g),
           NEW j \in 1..H, NEW k \in 1..H, k = j + 1, Inside(e, j) <=> Inside(e, k)
    PROVE  p[k] = p[j] + 1
<1>1. p[j] < p[k] /\ p[j] \in 1..H /\ p[k] \in 1..H /\ H \in Nat /\ j < k
  BY DEF Moves
<1> SUFFICES ASSUME p[k] # p[j] + 1
             PROVE  FALSE
  OBVIOUS
<1>2. p[j] + 1 \in 1..H
  BY <1>1
<1>3. PICK x \in 1..H : p[x] = p[j] + 1
  BY <1>2 DEF Moves
<1>4. p[j] < p[x] /\ p[x] < p[k] /\ x # j /\ x # k
  BY <1>1, <1>3
<1>5. Inside(e, x) <=> Inside(e, k)
  BY <1>1, <1>4 DEF Moves
<1>6. ~(x < j) /\ ~(k < x)
  <2>1. x < j => p[x] < p[j]
    BY <1>5 DEF Moves
  <2>2. k < x => p[k] < p[x]
    BY <1>5 DEF Moves
  <2>3. p[x] \in 1..H
    BY DEF Moves
  <2> QED BY <2>1, <2>2, <2>3, <1>1, <1>4
<1> QED BY <1>1, <1>4, <1>6

(* Between entries that have become neighbours in their part only the      *)
(* other part was.                                                         *)
LEMMA MovesGap ==
    ASSUME NEW H, NEW e, NEW p, NEW g, Moves(H, e, p, g),
           NEW j \in 1..H, NEW k \in 1..H, p[k] = p[j] + 1, Inside(e, j) <=> Inside(e, k)
    PROVE  j < k /\ \A x \in 1..H : j < x /\ x < k => ~(Inside(e, x) <=> Inside(e, k))
<1>1. p[j] \in 1..H /\ p[k] \in 1..H /\ H \in Nat
  BY DEF Moves
<1>2. j # k /\ ~(k < j)
  <2>1. k < j => p[k] < p[j]
    BY DEF Moves
  <2> QED BY <2>1, <1>1
<1>3. ASSUME NEW x \in 1..H, j < x, x < k, Inside(e, x) <=> Inside(e, k)
      PROVE  FALSE
  <2>1. p[j] < p[x] /\ p[x] < p[k] /\ p[x] \in 1..H
    BY <1>3 DEF Moves
  <2> QED BY <2>1, <1>1
<1> QED BY <1>2, <1>3

(* The first entry of the code stays the first one.                        *)
LEMMA MovesFirst ==
    ASSUME NEW N, NEW e, NEW s, NEW p, NEW g, Whole(N, e, s), Moves(N + 1, e, p, g)
    PROVE  p[1] = 1 /\ ~Inside(e, 1) /\ e[1].op = "ENTRY"
<1>1. N \in Nat \ {0} /\ Kinds(N, e)
  BY DEF Whole
<1>2. ~Inside(e, 1) /\ e[1].op = "ENTRY" /\ 1 \in 1..(N + 1)
  BY <1>1 DEF Kinds
<1>3. PICK k \in 1..(N + 1) : p[k] = 1
  BY <1>2 DEF Moves
<1>4. k = 1
  <2> SUFFICES ASSUME k # 1
               PROVE  FALSE
    OBVIOUS
  <2>1. 1 < k /\ p[1] \in 1..(N + 1)
    BY <1>1, <1>2 DEF Moves
  <2>2. p[1] < p[k]
    BY <2>1, <1>2 DEF Moves
  <2> QED BY <2>1, <2>2, <1>3
<1> QED BY <1>2, <1>3, <1>4

(* The loops open in front of an entry are the same after the move: a part *)
(* of the code that moved begins and ends outside loops.                   *)
LEMMA MovesNest ==
    ASSUME NEW N, NEW e, NEW s, NEW p, NEW g, Whole(N, e, s), Moves(N + 1, e, p, g)
    PROVE  \A k \in 1..(N + 1) : Nest(g, p[k]) = Nest(e, k)
<1> DEFINE H == N + 1
           Bad == {i \in 1..H : \E k \in 1..H : p[k] = i /\ Nest(g, i) # Nest(e, k)}
<1>0. /\ N \in Nat \ {0} /\ Kinds(N, e) /\ Seams(H, e) /\ H \in Nat \ {0} /\ N + 1 = H
      /\ e[H].op = "HALT" /\ ~Inside(e, H) /\ Nest(e, H) = 0 /\ H - 1 = N
  BY DEF Whole
<1>1. /\ \A k \in 1..H : p[k] \in 1..H /\ g[p[k]] = e[k]
      /\ \A j, k \in 1..H : p[j] = p[k] => j = k
      /\ \A i \in 1..H : \E k \in 1..H : p[k] = i
      /\ \A j, k \in 1..H : j < k /\ (Inside(e, j) <=> Inside(e, k)) => p[j] < p[k]
      /\ \A j, k \in 1..H : ~Inside(e, j) /\ Inside(e, k) => p[j] < p[k]
  BY DEF Moves
<1>2. p[1] = 1 /\ ~Inside(e, 1)
  BY MovesFirst
<1>m. Moves(H, e, p, g)
  OBVIOUS
<1> SUFFICES ASSUME Bad # {}
             PROVE  FALSE
  BY <1>1
<1>3. PICK i \in Bad : \A m \in Bad : i <= m
  <2>1. Bad \in SUBSET Nat
    OBVIOUS
  <2> HIDE DEF Bad
  <2> QED BY <2>1, LeastElement
<1>4. PICK k \in 1..H : p[k] = i /\ Nest(g, i) # Nest(e, k)
  BY <1>3
<1>5. i \in 1..H /\ \A j \in 1..H : p[j] = i - 1 /\ i # 1 => Nest(g, i - 1) = Nest(e, j)
  <2> SUFFICES ASSUME NEW j \in 1..H, p[j] = i - 1, i # 1, Nest(g, i - 1) # Nest(e, j)
               PROVE  FALSE
    BY <1>3
  <2>1. i \in Nat /\ i - 1 \in 1..H
    BY <1>1, <1>3
  <2>2. i - 1 \in Bad
    BY <2>1
  <2>3. i <= i - 1
    BY <1>3, <2>2
  <2> QED BY <2>1, <2>3
<1> HIDE DEF Bad, H
<1>6. i # 1
  <2> SUFFICES ASSUME i = 1
               PROVE  FALSE
    OBVIOUS
  <2>1. k = 1
    BY <1>0, <1>1, <1>2, <1>4
  <2>2. Nest(g, 1) = 0 /\ Nest(e, 1) = 0
    BY NestNext
  <2> QED BY <2>1, <2>2, <1>4
<1>7. i - 1 \in 1..H /\ (i - 1) + 1 = i
  BY <1>0, <1>5, <1>6
<1>8. PICK j \in 1..H : p[j] = i - 1
  BY <1>1, <1>7
<1>9. Nest(g, i - 1) = Nest(e, j) /\ g[i - 1] = e[j]
  BY <1>1, <1>5, <1>6, <1>8
<1>10. Nest(g, i) = Nest(e, j + 1)
  <2> DEFINE y == i - 1
  <2>1. y \in Nat \ {0} /\ y + 1 = i /\ j \in Nat \ {0}
    BY <1>7
  <2>2. Nest(g, y) = Nest(e, j) /\ g[y] = e[j]
    BY <1>9
  <2> HIDE DEF y
  <2>3. /\ Nest(g, y) \in Int
        /\ g[y].op = "DO" => Nest(g, y + 1) = Nest(g, y) + 1
        /\ g[y].op = "LOOP" => Nest(g, y + 1) = Nest(g, y) - 1
        /\ g[y].op \notin {"DO", "LOOP"} => Nest(g, y + 1) = Nest(g, y)
    BY <2>1, NestNext
  <2>4. /\ Nest(e, j) \in Int
        /\ e[j].op = "DO" => Nest(e, j + 1) = Nest(e, j) + 1
        /\ e[j].op = "LOOP" => Nest(e, j + 1) = Nest(e, j) - 1
        /\ e[j].op \notin {"DO", "LOOP"} => Nest(e, j + 1) = Nest(e, j)
    BY <2>1, NestNext
  <2> QED BY <2>1, <2>2, <2>3, <2>4
<1>11. \A m \in 2..H : ~(Inside(e, m) <=> Inside(e, m - 1)) => Nest(e, m) = 0
  BY <1>0 DEF Seams, Seam
<1>12. k # j + 1
  BY <1>4, <1>10
<1>13. CASE Inside(e, j) <=> Inside(e, k)
  <2>1. p[k] = p[j] + 1
    BY <1>4, <1>7, <1>8
  <2>2. j < k /\ \A x \in 1..H : j < x /\ x < k => ~(Inside(e, x) <=> Inside(e, k))
    BY <1>13, <1>m, <2>1, MovesGap
  <2>3. /\ j + 1 \in 2..H /\ j + 1 < k /\ (j + 1) - 1 = j /\ j + 1 \in 1..H
        /\ k \in 2..H /\ k - 1 \in 1..H /\ j < k - 1 /\ k - 1 < k /\ j < j + 1
    BY <1>0, <1>12, <2>2
  <2>4. Nest(e, j + 1) = 0
    BY <1>11, <1>13, <2>2, <2>3
  <2>5. Nest(e, k) = 0
    BY <1>11, <2>2, <2>3
  <2> QED BY <2>4, <2>5, <1>4, <1>10
<1>14. CASE ~(Inside(e, j) <=> Inside(e, k))
  <2>1. p[j] < p[k] /\ p[j] \in 1..H
    BY <1>1, <1>4, <1>7, <1>8
  <2>2. ~Inside(e, j) /\ Inside(e, k)
    <3>1. ~Inside(e, k) /\ Inside(e, j) => p[k] < p[j]
      BY <1>1
    <3> QED BY <3>1, <2>1, <1>1, <1>14
  <2>3. j = H
    <3> SUFFICES ASSUME j # H
                 PROVE  FALSE
      OBVIOUS
    <3>1. H \in 1..H /\ j < H
      BY <1>0
    <3>2. p[j] < p[H] /\ p[H] < p[k] /\ p[H] \in 1..H
      BY <1>0, <1>1, <2>2, <3>1
    <3> QED BY <3>2, <1>4, <1>7, <1>8
  <2>4. Nest(e, j + 1) = 0
    <3>1. e[H].op \notin {"DO", "LOOP"} => Nest(e, H + 1) = Nest(e, H)
      BY <1>0, NestNext
    <3> QED BY <3>1, <2>3, <1>0
  <2>5. k # 1 /\ k \in 2..H /\ k - 1 \in 1..H
    BY <1>0, <1>2, <2>2
  <2>6. ~Inside(e, k - 1)
    <3> SUFFICES ASSUME Inside(e, k - 1)
                 PROVE  FALSE
      OBVIOUS
    <3>1. p[k - 1] < p[k] /\ p[j] < p[k - 1] /\ p[k - 1] \in 1..H
      BY <1>1, <2>2, <2>5
    <3> QED BY <3>1, <1>4, <1>7, <1>8
  <2>7. Nest(e, k) = 0
    BY <1>11, <2>2, <2>5, <2>6
  <2> QED BY <2>4, <2>7, <1>4, <1>10
<1> QED BY <1>13, <1>14

(* The last beginning up to i is at r.                                     *)
Beginning(g, m) == g[m].op \in {"ENTRY", "DEFINED_WORD_LOCATION"}
Origin(g, i, r) ==
    r \in 1..i /\ Beginning(g, r) /\ \A m \in 1..i : Beginning(g, m) => m <= r

(* The main program begins at the first entry, a word at its location,     *)
(* after the move too; no loop is open at either.                          *)
LEMMA MovesOrigin ==
    ASSUME NEW N, NEW e, NEW s, NEW p, NEW g, Whole(N, e, s), Moves(N + 1, e, p, g),
           NEW k \in 1..(N + 1)
    PROVE  /\ ~Inside(e, k) => Origin(g, p[k], 1) /\ Nest(g, 1) = 0
           /\ \A f \in 1..k : InBody(e, f, k) => Origin(g, p[k], p[f]) /\ Nest(g, p[f]) = 0
           /\ Inside(e, k) => \E f \in 1..k : InBody(e, f, k)
<1> DEFINE H == N + 1
<1>0. /\ N \in Nat \ {0} /\ Kinds(N, e) /\ Seams(H, e) /\ H \in Nat \ {0}
      /\ ~Inside(e, H) /\ e[H].op = "HALT" /\ \A m \in 1..H : m \in 1..N \/ m = H
  BY DEF Whole
<1>1. /\ \A m \in 1..H : p[m] \in 1..H /\ g[p[m]] = e[m]
      /\ \A j, m \in 1..H : p[j] = p[m] => j = m
      /\ \A i \in 1..H : \E m \in 1..H : p[m] = i
      /\ \A j, m \in 1..H : j < m /\ (Inside(e, j) <=> Inside(e, m)) => p[j] < p[m]
      /\ \A j, m \in 1..H : ~Inside(e, j) /\ Inside(e, m) => p[j] < p[m]
  BY DEF Moves
<1>2. p[1] = 1 /\ ~Inside(e, 1) /\ e[1].op = "ENTRY" /\ 1 \in 1..H
  BY <1>0, MovesFirst
<1>n. \A m \in 1..H : Nest(g, p[m]) = Nest(e, m)
  BY MovesNest
<1>k. k \in 1..H
  OBVIOUS
<1> HIDE DEF H
<1>3. \A m \in 1..H : /\ e[m].op = "ENTRY" => m = 1
                      /\ e[m].op = "DEFINED_WORD_LOCATION" => Inside(e, m)
  BY <1>0 DEF Kinds
<1>4. ASSUME ~Inside(e, k)
      PROVE  Origin(g, p[k], 1) /\ Nest(g, 1) = 0
  <2>1. 1 \in 1..p[k] /\ Beginning(g, 1)
    BY <1>0, <1>1, <1>2, <1>k DEF Beginning
  <2>2. ASSUME NEW i \in 1..p[k], Beginning(g, i)
        PROVE  i <= 1
    <3>1. i \in 1..H /\ i <= p[k]
      BY <1>0, <1>1, <1>k
    <3>2. PICK m \in 1..H : p[m] = i
      BY <1>1, <3>1
    <3>3. ~Inside(e, m)
      <4>1. Inside(e, m) => p[k] < p[m]
        BY <1>1, <1>4, <1>k
      <4>2. p[k] \in 1..H
        BY <1>1, <1>k
      <4> QED BY <3>1, <3>2, <4>1, <4>2, <1>0
    <3>4. m = 1
      BY <1>1, <1>3, <2>2, <3>2, <3>3 DEF Beginning
    <3> QED BY <3>1, <3>2, <3>4, <1>2
  <2>3. Nest(g, 1) = 0
    BY NestNext
  <2> QED BY <2>1, <2>2, <2>3 DEF Origin
<1>5. ASSUME NEW f \in 1..k, InBody(e, f, k)
      PROVE  Origin(g, p[k], p[f]) /\ Nest(g, p[f]) = 0
  <2>1. /\ f \in 1..H /\ f <= k /\ e[f].op = "DEFINED_WORD_LOCATION"
        /\ \A j \in f..k : Inside(e, j) /\ (j # f => e[j].op # "DEFINED_WORD_LOCATION")
    BY <1>0, <1>5, <1>k DEF InBody
  <2>2. Inside(e, f) /\ Inside(e, k) /\ k \in 1..H
    BY <1>0, <1>k, <2>1
  <2>3. p[f] \in 1..p[k] /\ Beginning(g, p[f])
    <3>1. f # k => p[f] < p[k]
      BY <1>0, <1>1, <2>1, <2>2
    <3>2. p[f] \in 1..H /\ p[k] \in 1..H /\ g[p[f]] = e[f]
      BY <1>1, <2>1, <2>2
    <3> QED BY <3>1, <3>2, <2>1, <1>0 DEF Beginning
  <2>4. ASSUME NEW i \in 1..p[k], Beginning(g, i)
        PROVE  i <= p[f]
    <3>1. i \in 1..H /\ i <= p[k] /\ p[f] \in 1..H /\ p[k] \in 1..H
      BY <1>0, <1>1, <2>1, <2>2
    <3> SUFFICES ASSUME p[f] < i
                 PROVE  FALSE
      BY <1>0, <3>1
    <3>2. PICK m \in 1..H : p[m] = i
      BY <1>1, <3>1
    <3>3. Inside(e, m)
      <4>1. ~Inside(e, m) => p[m] < p[f]
        BY <1>1, <2>1, <2>2
      <4> QED BY <4>1, <3>1, <3>2, <1>0
    <3>4. f <= m /\ m <= k /\ m # f
      <4>1. m < f => p[m] < p[f]
        BY <1>1, <2>1, <2>2, <3>3
      <4>2. k < m => p[k] < p[m]
        BY <1>1, <2>2, <3>3
      <4> QED BY <4>1, <4>2, <3>1, <3>2, <2>1, <2>2, <1>0
    <3>5. e[m].op # "DEFINED_WORD_LOCATION" /\ m \in f..k
      BY <2>1, <3>4, <1>0
    <3>6. m # 1
      BY <1>2, <3>3
    <3> QED BY <1>1, <1>3, <2>4, <3>2, <3>5, <3>6 DEF Beginning
  <2>5. Nest(g, p[f]) = 0
    <3>1. f \in 2..H
      BY <1>0, <1>2, <2>1, <2>2
    <3>2. Nest(e, f) = 0
      BY <1>0, <2>1, <3>1 DEF Seams, Seam
    <3> QED BY <3>2, <1>n, <2>1
  <2> QED BY <2>3, <2>4, <2>5 DEF Origin
<1>6. ASSUME Inside(e, k)
      PROVE  \E f \in 1..k : InBody(e, f, k)
  <2>1. k \in 1..N
    BY <1>0, <1>6, <1>k
  <2>2. Seams(N, e)
    <3>1. \A m \in 2..N : m \in 2..H
      BY <1>0 DEF H
    <3> QED BY <3>1, <1>0 DEF Seams
  <2> QED BY <1>0, <1>6, <2>1, <2>2, BodyExists
<1> QED BY <1>4, <1>5, <1>6

(* The entries from r on in front of i, by opcode.                         *)
LEMMA AheadBetween ==
    ASSUME NEW g, NEW i \in Nat, NEW r \in 1..i, NEW o
    PROVE  Cardinality({m \in r..i : m # i /\ g[m].op = o}) =
             Cardinality(Ahead(g, i, o)) - Cardinality(Ahead(g, r, o))
<1> DEFINE A == Ahead(g, i, o)
           B == Ahead(g, r, o)
           C == {m \in r..i : m # i /\ g[m].op = o}
<1>1. A = B \cup C /\ B \cap C = {}
  <2>1. \A m : m \in 1..(i - 1) <=> m \in 1..(r - 1) \/ (m \in r..i /\ m # i)
    OBVIOUS
  <2>2. \A m : ~(m \in 1..(r - 1) /\ m \in r..i)
    OBVIOUS
  <2> QED BY <2>1, <2>2 DEF Ahead
<1>2. IsFiniteSet(B) /\ Cardinality(B) \in Nat
  <2>1. r \in Nat \ {0}
    OBVIOUS
  <2> QED BY <2>1, AheadNext
<1>3. IsFiniteSet(C) /\ Cardinality(C) \in Nat
  <2>1. C \in SUBSET (1..i) /\ IsFiniteSet(1..i)
    BY Numbers
  <2> HIDE DEF C
  <2> QED BY <2>1, FS_Subset, FS_CardinalityType
<1> HIDE DEF A, B, C
<1>4. Cardinality(A) = Cardinality(B) + Cardinality(C) - Cardinality(B \cap C)
  BY <1>1, <1>2, <1>3, FS_Union
<1>5. Cardinality(B \cap C) = 0
  BY <1>1, FS_EmptySet
<1>6. Cardinality(C) = Cardinality(A) - Cardinality(B)
  BY <1>2, <1>3, <1>4, <1>5
<1> QED BY <1>6 DEF A, B, C

(* Region and Depth, where the last beginning is known.                    *)
LEMMA RegionIs ==
    ASSUME sequence \in Seq(Nat), NEW k \in 1..Len(sequence),
           NEW r, Origin(Code(frags, sequence), k, r)
    PROVE  /\ Region(k) = r /\ r \in 1..k
           /\ Depth(k) = Nest(Code(frags, sequence), k) - Nest(Code(frags, sequence), r)
           /\ Before(k, "DO") - Before(k, "LOOP") = Depth(k)
<1> DEFINE g == Code(frags, sequence)
           H == Len(sequence)
<1>1. H \in Nat /\ DOMAIN sequence = 1..H
  BY LenProperties
<1>2. \A m \in 1..H : Op(m) = g[m].op
  BY DEF Op, Code
<1> HIDE DEF g
<1>3. r \in 1..k /\ Beginning(g, r) /\ \A m \in 1..k : Beginning(g, m) => m <= r
  BY DEF Origin, g
<1>4. Starts = {m \in 1..H : Beginning(g, m)}
  BY <1>1, <1>2 DEF Starts, Beginning
<1>5. r \in Starts /\ r <= k /\ \A m \in Starts : m <= k => m <= r
  BY <1>1, <1>3, <1>4
<1>6. \A m \in Starts : m <= k /\ (\A l \in Starts : l <= k => l <= m) => m = r
  BY <1>1, <1>3, <1>4, <1>5
<1>7. Region(k) = r
  BY <1>5, <1>6 DEF Region
<1>8. \A o : Before(k, o) = Cardinality(Ahead(g, k, o)) - Cardinality(Ahead(g, r, o))
  <2> SUFFICES ASSUME NEW o
               PROVE  Before(k, o) = Cardinality(Ahead(g, k, o)) - Cardinality(Ahead(g, r, o))
    OBVIOUS
  <2>1. {m \in Region(k)..k : m # k /\ Op(m) = o} = {m \in r..k : m # k /\ g[m].op = o}
    BY <1>1, <1>2, <1>3, <1>7
  <2>2. k \in Nat
    BY <1>1
  <2>3. Before(k, o) = Cardinality({m \in r..k : m # k /\ g[m].op = o})
    BY <2>1 DEF Before
  <2>4. r \in 1..k
    BY <1>3
  <2>5. Cardinality({m \in r..k : m # k /\ g[m].op = o}) =
          Cardinality(Ahead(g, k, o)) - Cardinality(Ahead(g, r, o))
    BY ONLY <2>2, <2>4, AheadBetween
  <2> QED BY <2>3, <2>5
<1>9. Depth(k) = Before(k, "DO") - Before(k, "LOOP")
  BY DEF Depth
<1>10. \A o : Cardinality(Ahead(g, k, o)) \in Nat /\ Cardinality(Ahead(g, r, o)) \in Nat
  <2>1. k \in Nat \ {0} /\ r \in Nat \ {0}
    BY <1>1, <1>3
  <2> QED BY <2>1, AheadNext
<1>11. Depth(k) = Nest(g, k) - Nest(g, r)
  BY <1>8, <1>9, <1>10 DEF Nest
<1> QED BY <1>3, <1>7, <1>9, <1>11 DEF g

-----------------------------------------------------------------------------
(* The compiled program, by position.                                      *)

(* The finished code: e and s as they were emitted, p where they are now.  *)
Finished(N, e, s, p) ==
    /\ Whole(N, e, s) /\ Moves(N + 1, e, p, Code(frags, sequence))
    /\ sequence \in Seq(Nat) /\ Len(sequence) = N + 1
    /\ \A k \in 1..(N + 1) : sequence[p[k]] = s[k]

(* The entry at k after the move.                                          *)
LEMMA Final ==
    ASSUME NEW N, NEW e, NEW s, NEW p, Finished(N, e, s, p), NEW k \in 1..(N + 1)
    PROVE  /\ p[k] \in 1..(N + 1) /\ DOMAIN sequence = 1..(N + 1)
           /\ Op(p[k]) = e[k].op /\ Param(p[k]) = e[k].param /\ sequence[p[k]] = s[k]
           /\ Depth(p[k]) = Nest(e, k)
           /\ Before(p[k], "DO") - Before(p[k], "LOOP") = Depth(p[k])
           /\ ~Inside(e, k) => Region(p[k]) = 1
           /\ \A f \in 1..k : InBody(e, f, k) => Region(p[k]) = p[f]
           /\ Inside(e, k) => \E f \in 1..k : InBody(e, f, k)
<1> DEFINE H == N + 1
           g == Code(frags, sequence)
<1>1. /\ Whole(N, e, s) /\ Moves(H, e, p, g) /\ sequence \in Seq(Nat) /\ Len(sequence) = H
      /\ \A m \in 1..H : sequence[p[m]] = s[m]
  BY DEF Finished
<1>2. DOMAIN sequence = 1..H /\ p[k] \in 1..H /\ g[p[k]] = e[k] /\ sequence[p[k]] = s[k]
  BY <1>1, LenProperties DEF Moves
<1>3. Op(p[k]) = e[k].op /\ Param(p[k]) = e[k].param
  <2>1. g[p[k]] = frags[sequence[p[k]]]
    BY <1>1, <1>2 DEF Code
  <2> QED BY <1>2, <2>1 DEF Op, Param
<1>4. /\ ~Inside(e, k) => Origin(g, p[k], 1) /\ Nest(g, 1) = 0
      /\ \A f \in 1..k : InBody(e, f, k) => Origin(g, p[k], p[f]) /\ Nest(g, p[f]) = 0
      /\ Inside(e, k) => \E f \in 1..k : InBody(e, f, k)
      /\ Nest(g, p[k]) = Nest(e, k)
  BY <1>1, MovesOrigin, MovesNest
<1>5. \A r : Origin(g, p[k], r) =>
         /\ Region(p[k]) = r /\ Depth(p[k]) = Nest(g, p[k]) - Nest(g, r)
         /\ Before(p[k], "DO") - Before(p[k], "LOOP") = Depth(p[k])
  BY <1>1, <1>2, RegionIs
<1> HIDE DEF g, H
<1>6. PICK r : Origin(g, p[k], r) /\ Nest(g, r) = 0
  BY <1>4
<1>7. Depth(p[k]) = Nest(e, k) /\ Before(p[k], "DO") - Before(p[k], "LOOP") = Depth(p[k])
  <2>1. k \in Nat \ {0}
    BY <1>1 DEF Whole, H
  <2>2. Nest(e, k) \in Int
    BY <2>1, NestNext
  <2>3. Depth(p[k]) = Nest(g, p[k]) - Nest(g, r)
        /\ Before(p[k], "DO") - Before(p[k], "LOOP") = Depth(p[k])
    BY <1>5, <1>6
  <2> QED BY <2>2, <2>3, <1>4, <1>6
<1> QED BY <1>2, <1>3, <1>4, <1>5, <1>7 DEF H

(* Every place of the finished code has its entry.                         *)
LEMMA FinalPlaces ==
    ASSUME NEW N, NEW e, NEW s, NEW p, Finished(N, e, s, p), NEW i \in DOMAIN sequence
    PROVE  \E k \in 1..(N + 1) : p[k] = i
<1>1. DOMAIN sequence = 1..(N + 1) /\ Moves(N + 1, e, p, Code(frags, sequence))
  BY LenProperties DEF Finished
<1> QED BY <1>1 DEF Moves

(* Where words, and the main program, end.                                 *)
LEMMA FinalEnds ==
    ASSUME NEW N, NEW e, NEW s, NEW p, Finished(N, e, s, p), NEW k \in 1..(N + 1),
           p[k] = N + 1 \/ (p[k] + 1) \in Starts
    PROVE  /\ e[k].op = IF Inside(e, k) THEN "EXIT_WORD" ELSE "HALT"
           /\ Nest(e, k) = 0
<1> DEFINE H == N + 1
           g == Code(frags, sequence)
<1>0. /\ Whole(N, e, s) /\ Moves(H, e, p, g) /\ N \in Nat \ {0} /\ H \in Nat /\ N + 1 = H
      /\ Kinds(N, e) /\ Seams(H, e) /\ ~Inside(e, H) /\ e[H].op = "HALT" /\ Nest(e, H) = 0
      /\ H \in 1..H /\ H - 1 = N
  BY DEF Finished, Whole
<1>1. /\ \A m \in 1..H : p[m] \in 1..H
      /\ \A i \in 1..H : \E m \in 1..H : p[m] = i
      /\ \A j, m \in 1..H : j < m /\ (Inside(e, j) <=> Inside(e, m)) => p[j] < p[m]
      /\ \A j, m \in 1..H : ~Inside(e, j) /\ Inside(e, m) => p[j] < p[m]
      /\ \A j, m \in 1..H : m = j + 1 /\ (Inside(e, j) <=> Inside(e, m)) => p[m] = p[j] + 1
      /\ p[1] = 1
  <2>1. /\ \A m \in 1..H : p[m] \in 1..H
        /\ \A i \in 1..H : \E m \in 1..H : p[m] = i
        /\ \A j, m \in 1..H : j < m /\ (Inside(e, j) <=> Inside(e, m)) => p[j] < p[m]
        /\ \A j, m \in 1..H : ~Inside(e, j) /\ Inside(e, m) => p[j] < p[m]
    BY <1>0 DEF Moves
  <2>2. p[1] = 1
    BY <1>0, MovesFirst
  <2> HIDE DEF H, g
  <2>3. \A j, m \in 1..H : m = j + 1 /\ (Inside(e, j) <=> Inside(e, m)) => p[m] = p[j] + 1
    BY <1>0, MovesTogether
  <2> QED BY <2>1, <2>2, <2>3
<1>2. p[k] = H \/ (p[k] + 1) \in Starts
  OBVIOUS
<1>k. k \in 1..H
  OBVIOUS
<1>3. \A m \in 1..H : p[m] \in Starts =>
         e[m].op \in {"ENTRY", "DEFINED_WORD_LOCATION"}
  <2>1. \A m \in 1..H : Op(p[m]) = e[m].op
    BY Final
  <2> QED BY <2>1 DEF Starts
<1> HIDE DEF H, g
<1>4. \A m \in 1..H : /\ e[m].op = "ENTRY" => m = 1
                      /\ e[m].op = "DEFINED_WORD_LOCATION" => Inside(e, m)
  <2>1. \A m \in 1..H : m \in 1..N \/ m = H
    BY <1>0
  <2> QED BY <2>1, <1>0 DEF Kinds
<1>5. CASE ~Inside(e, k)
  <2>1. k = H
    <3> SUFFICES ASSUME k # H
                 PROVE  FALSE
      OBVIOUS
    <3>1. k < H
      BY <1>0, <1>k
    <3>2. p[k] < p[H] /\ p[H] \in 1..H /\ p[k] \in 1..H
      BY <1>0, <1>1, <1>5, <1>k, <3>1
    <3>3. p[k] + 1 \in 1..H /\ p[k] # H
      BY <1>0, <3>2
    <3>4. PICK x \in 1..H : p[x] = p[k] + 1
      BY <1>1, <3>3
    <3>5. ~Inside(e, x)
      <4>1. Inside(e, x) => p[H] < p[x]
        BY <1>0, <1>1
      <4> QED BY <4>1, <3>2, <3>4, <1>0
    <3>6. x = 1
      BY <1>2, <1>3, <1>4, <3>3, <3>4, <3>5
    <3> QED BY <1>1, <3>2, <3>4, <3>6, <1>0
  <2> QED BY <2>1, <1>0
<1>6. CASE Inside(e, k)
  <2>1. k \in 1..N /\ k + 1 \in 2..H /\ k + 1 \in 1..H /\ (k + 1) - 1 = k
    <3>1. k # H
      BY <1>0, <1>6
    <3> QED BY <1>0, <1>k, <3>1
  <2>2. CASE Seam(e, k + 1)
    <3> DEFINE y == k + 1
    <3>0. y \in 2..H /\ y - 1 = k /\ Seam(e, y) /\ Nest(e, k + 1) = Nest(e, y)
      BY <2>1, <2>2
    <3> HIDE DEF y
    <3>1. e[k].op = "EXIT_WORD" /\ Nest(e, y) = 0
      BY <1>0, <1>6, <3>0 DEF Seams
    <3>2. k \in Nat \ {0}
      BY <2>1
    <3>3. e[k].op \notin {"DO", "LOOP"} => Nest(e, k + 1) = Nest(e, k)
      BY <3>2, NestNext
    <3> QED BY <3>0, <3>1, <3>3, <1>6
  <2>3. CASE ~Seam(e, k + 1)
    <3>1. Inside(e, k + 1) /\ e[k + 1].op # "DEFINED_WORD_LOCATION"
      BY <2>1, <2>3, <1>6 DEF Seam
    <3>2. p[k + 1] = p[k] + 1 /\ p[k + 1] \in 1..H /\ p[k] \in 1..H
      BY <1>1, <1>6, <1>k, <2>1, <3>1
    <3>3. p[k] # H
      BY <3>2, <1>0
    <3>4. p[k + 1] \in Starts
      BY <3>2, <3>3, <1>2
    <3>5. e[k + 1].op = "ENTRY" /\ k + 1 = 1
      BY <1>3, <1>4, <2>1, <3>1, <3>4
    <3> QED BY <3>5, <2>1
  <2> QED BY <2>2, <2>3
<1> QED BY <1>5, <1>6

(* The finished program is made of closed regions.                         *)
LEMMA FinalRegions ==
    ASSUME NEW N, NEW e, NEW s, NEW p, Finished(N, e, s, p)
    PROVE  Regions
<1> DEFINE H == N + 1
<1>0. /\ Whole(N, e, s) /\ Moves(H, e, p, Code(frags, sequence)) /\ N \in Nat \ {0}
      /\ Len(sequence) = H /\ DOMAIN sequence = 1..H /\ Exits(N, e, s)
  BY LenProperties DEF Finished, Whole
<1>1. p[1] = 1 /\ ~Inside(e, 1) /\ e[1].op = "ENTRY" /\ 1 \in 1..H
  BY <1>0, MovesFirst
<1>2. Op(1) = "ENTRY"
  BY <1>1, Final
<1>3. \A m \in 1..H : p[m] = 1 => m = 1
  <2>1. \A j, m \in 1..H : p[j] = p[m] => j = m
    BY <1>0 DEF Moves
  <2> QED BY <2>1, <1>1
<1>4. ASSUME NEW i \in DOMAIN sequence
      PROVE  /\ Op(i) = "EXIT_WORD" => Param(i) = sequence[Region(i)]
             /\ i = Len(sequence) \/ (i + 1) \in Starts =>
                  /\ Op(i) = IF Region(i) = 1 THEN "HALT" ELSE "EXIT_WORD"
                  /\ Depth(i) = 0
  <2>1. PICK k \in 1..H : p[k] = i
    BY FinalPlaces
  <2>2. /\ Op(i) = e[k].op /\ Param(i) = e[k].param /\ Depth(i) = Nest(e, k)
        /\ ~Inside(e, k) => Region(i) = 1
        /\ \A f \in 1..k : InBody(e, f, k) => Region(i) = p[f]
        /\ Inside(e, k) => \E f \in 1..k : InBody(e, f, k)
    BY <2>1, Final
  <2>3. ASSUME Op(i) = "EXIT_WORD"
        PROVE  Param(i) = sequence[Region(i)]
    <3>1. k \in 1..N
      <4>1. e[H].op = "HALT"
        BY <1>0 DEF Whole
      <4>2. k # H
        BY <4>1, <2>2, <2>3
      <4> QED BY <4>2, <1>0
    <3> DEFINE f == e[k].param
    <3>2. f \in 1..k /\ InBody(e, f, k) /\ s[f] = f
      BY <1>0, <2>2, <2>3, <3>1 DEF Exits
    <3>3. Region(i) = p[f] /\ f \in 1..H
      BY <1>0, <2>2, <3>2
    <3> HIDE DEF f
    <3>4. sequence[p[f]] = s[f]
      BY <3>3, Final
    <3> QED BY <2>2, <3>2, <3>3, <3>4 DEF f
  <2>4. ASSUME i = Len(sequence) \/ (i + 1) \in Starts
        PROVE  /\ Op(i) = IF Region(i) = 1 THEN "HALT" ELSE "EXIT_WORD"
               /\ Depth(i) = 0
    <3>1. p[k] = N + 1 \/ (p[k] + 1) \in Starts
      BY <2>1, <2>4, <1>0
    <3>2. /\ e[k].op = IF Inside(e, k) THEN "EXIT_WORD" ELSE "HALT"
          /\ Nest(e, k) = 0
      BY <3>1, FinalEnds
    <3>3. Region(i) = 1 <=> ~Inside(e, k)
      <4> SUFFICES ASSUME Inside(e, k)
                   PROVE  Region(i) # 1
        BY <2>2
      <4>1. PICK f \in 1..k : InBody(e, f, k)
        BY <2>2
      <4>2. f \in 1..H /\ k \in Nat /\ f \in f..k
        BY <1>0, <4>1 DEF InBody
      <4>3. Inside(e, f)
        BY <4>1, <4>2 DEF InBody
      <4> QED BY <1>1, <1>3, <2>2, <4>1, <4>2, <4>3
    <3> QED BY <2>2, <3>2, <3>3
  <2> QED BY <2>3, <2>4
<1> QED BY <1>2, <1>4 DEF Regions

(* A branch of the finished code has its target at one place.              *)
LEMMA FinalTarget ==
    ASSUME FinalCode, TypeInv, cf = <<>>,
           NEW N, NEW e, NEW s, NEW p, Finished(N, e, s, p), NEW k \in 1..(N + 1), Branching(e, k)
    PROVE  \E m \in 1..N : s[m] = e[k].param /\ Position(Param(p[k])) = p[m]
<1> DEFINE H == N + 1
           f == e[k].param
<1>0. /\ AnySeq(frags) /\ Placed(Len(frags), sequence, <<>>) /\ Len(sequence) = H
      /\ DOMAIN sequence = 1..H /\ N \in Nat \ {0} /\ e[H].op = "HALT"
      /\ Moves(H, e, p, Code(frags, sequence))
  BY LenProperties DEF FinalCode, CodeOK, Finished, Whole
<1>1. /\ \A i \in 1..H : sequence[i] \in 1..Len(frags)
      /\ \A i, j \in 1..H : sequence[i] = sequence[j] => i = j
  BY <1>0 DEF Placed, Once
<1>2. p[k] \in 1..H /\ Op(p[k]) = e[k].op /\ Param(p[k]) = f
  BY Final
<1>3. /\ sequence[p[k]] \in 1..Len(frags) /\ frags[sequence[p[k]]].op = e[k].op
      /\ frags[sequence[p[k]]].param = f
  BY <1>1, <1>2 DEF Op, Param
<1>4. f \in 1..Len(frags) /\ frags[f].op = "BRANCH_LOCATION"
  <2> DEFINE x == frags[sequence[p[k]]]
  <2>1. Sound(x)
    BY <1>3 DEF TypeInv
  <2>2. x.op \in {"BRANCH", "BRANCH_IF_ZERO", "LOOP"} /\ x.param = f
    BY <1>3 DEF Branching
  <2> HIDE DEF x, f
  <2>3. f \in OperandsIn(frags, variables, runtime, callbacks, x.op)
    BY <2>1, <2>2 DEF Sound, Refers
  <2>4. f \in DOMAIN frags /\ frags[f].op = "BRANCH_LOCATION"
    BY <2>2, <2>3 DEF OperandsIn
  <2> QED BY <2>4, <1>0, LenProperties DEF AnySeq
<1> HIDE DEF f
<1>5. PICK i \in 1..H : sequence[i] = f
  <2>1. Owes(<<>>) = {}
    BY DEF Owes
  <2>2. Emits(sequence, f)
    BY <1>0, <1>4, <2>1 DEF Placed, OwesFragment
  <2> QED BY <1>0, <2>2 DEF Emits
<1>6. PICK m \in 1..H : p[m] = i
  BY <1>0 DEF Moves
<1>7. s[m] = f /\ Op(p[m]) = e[m].op
  BY <1>5, <1>6, Final
<1>8. e[m].op = "BRANCH_LOCATION"
  BY <1>4, <1>5, <1>6, <1>7 DEF Op
<1>9. m \in 1..N
  <2>1. m # H
    BY <1>0, <1>8
  <2> QED BY <2>1, <1>0
<1>10. Position(f) = i
  <2>1. \A j \in 1..H : sequence[j] = f => j = i
    BY <1>1, <1>5
  <2> QED BY <2>1, <1>0, <1>5 DEF Position
<1> QED BY <1>2, <1>6, <1>7, <1>9, <1>10 DEF f

(* The finished program is structured.                                     *)
LEMMA FinalStructured ==
    ASSUME FinalCode, TypeInv, cf = <<>>,
           NEW N, NEW e, NEW s, NEW p, Finished(N, e, s, p)
    PROVE  Structured
<1> DEFINE H == N + 1
<1>0. /\ Whole(N, e, s) /\ Moves(H, e, p, Code(frags, sequence)) /\ N \in Nat \ {0}
      /\ DOMAIN sequence = 1..H /\ Arrives(N, e, s) /\ Indexed(N, e) /\ e[H].op = "HALT"
  BY LenProperties DEF Finished, Whole
<1>1. \A m \in 1..N : m \in 1..H
  BY <1>0
<1>2. ASSUME NEW i \in DOMAIN sequence
      PROVE  /\ i \in Branches =>
                  LET t == Position(Param(i))
                  IN  /\ Region(t) = Region(i)
                      /\ Before(t, "DO") - Before(t, "LOOP") = Depth(i)
                      /\ Op(i) = "LOOP" => Op(t - 1) = "DO"
             /\ Op(i) = "BUILTIN_WORD" /\ Param(i) = 15 => Depth(i) >= 1
             /\ Op(i) = "BUILTIN_WORD" /\ Param(i) = 16 => Depth(i) >= 2
  <2>1. PICK k \in 1..H : p[k] = i
    BY FinalPlaces
  <2>2. Op(i) = e[k].op /\ Param(i) = e[k].param /\ Depth(i) = Nest(e, k)
    BY <2>1, Final
  <2>3. e[k].op # "HALT" => k \in 1..N
    <3>1. e[k].op # "HALT" => k # H
      BY <1>0
    <3> QED BY <3>1, <1>0
  <2>4. ASSUME i \in Branches
        PROVE  LET t == Position(Param(i))
               IN  /\ Region(t) = Region(i)
                   /\ Before(t, "DO") - Before(t, "LOOP") = Depth(i)
                   /\ Op(i) = "LOOP" => Op(t - 1) = "DO"
    <3>1. Branching(e, k) /\ k \in 1..N
      BY <2>2, <2>3, <2>4 DEF Branches, Branching
    <3>2. PICK m \in 1..N : s[m] = e[k].param /\ Position(Param(p[k])) = p[m]
      BY <3>1, FinalTarget
    <3>3. /\ Together(e, m, k) /\ Nest(e, m) = Nest(e, k)
          /\ e[k].op = "LOOP" => Header(e, m)
      BY <1>0, <3>1, <3>2 DEF Arrives
    <3>4. Position(Param(i)) = p[m] /\ m \in 1..H
      BY <1>1, <2>1, <3>2
    <3>5. Region(p[m]) = Region(i)
      <4>1. CASE ~Inside(e, m) /\ ~Inside(e, k)
        BY <2>1, <3>4, <4>1, Final
      <4>2. ASSUME NEW f \in 1..m, InBody(e, f, m), InBody(e, f, k)
            PROVE  Region(p[m]) = Region(i)
        <5>1. f \in 1..k
          BY <1>0, <4>2 DEF InBody
        <5> QED BY <2>1, <3>4, <4>2, <5>1, Final
      <4> QED BY <3>3, <4>1, <4>2 DEF Together
    <3>6. Before(p[m], "DO") - Before(p[m], "LOOP") = Depth(i)
      BY <2>2, <3>3, <3>4, Final
    <3>7. ASSUME Op(i) = "LOOP"
          PROVE  Op(p[m] - 1) = "DO"
      <4>1. Header(e, m)
        BY <2>2, <3>3, <3>7
      <4> DEFINE l == m - 1
      <4>2. l \in 1..H /\ m = l + 1 /\ e[l].op = "DO" /\ (Inside(e, l) <=> Inside(e, m))
        BY <1>0, <3>4, <4>1 DEF Header
      <4> HIDE DEF l, H
      <4>3. p[m] = p[l] + 1
        BY <1>0, <3>4, <4>2, MovesTogether
      <4>4. p[l] \in 1..H /\ Op(p[l]) = e[l].op
        BY <4>2, Final DEF H
      <4>5. p[m] - 1 = p[l]
        BY <4>3, <4>4
      <4> QED BY <4>2, <4>4, <4>5
    <3> QED BY <3>4, <3>5, <3>6, <3>7
  <2>5. ASSUME Op(i) = "BUILTIN_WORD"
        PROVE  /\ Param(i) = 15 => Depth(i) >= 1
               /\ Param(i) = 16 => Depth(i) >= 2
    BY <1>0, <2>2, <2>3, <2>5 DEF Indexed
  <2> QED BY <2>4, <2>5
<1> QED BY <1>2 DEF Structured

-----------------------------------------------------------------------------
(* The end of the source.                                                  *)

(* The code as it was emitted, HALT included, before the main program      *)
(* moves in front.                                                         *)
Emitted1 == Append(sequence, Len(frags) + 1)

(* What a finish makes of code that fits the empty stack.                  *)
LEMMA FinishMoves ==
    ASSUME CompilerInv, TypeInv, TypeInv', ShapeInv, Finish
    PROVE  LET s == Emitted1
               e == Code(frags', s)
           IN  /\ Whole(Len(sequence), e, s)
               /\ Reorders(frags', s, Places(frags', s), sequence')
               /\ Parted(frags', s) /\ Len(s) = Len(sequence) + 1
               /\ sequence' \in Seq(Nat)
               /\ \A k \in 1..Len(sequence) : e[k] = Code(frags, sequence)[k] /\ s[k] = sequence[k]
<1> DEFINE n == Len(frags)
           N == Len(sequence)
           s == Emitted1
           t == MainFirst(frags', s)
           e == Code(frags', s)
           x == Frag("HALT", 0)
<1>1. /\ frags' = Append(frags, x) /\ sequence' = t
      /\ cf = <<>> /\ ret = "reading" /\ ~defining
  BY DEF Finish, Here, Emitted1
<1>2. CodeOK(frags, sequence, cf) /\ AnySeq(frags) /\ defining \in BOOLEAN
  BY <1>1 DEF CompilerInv, CodeOK, TablesOK
<1>3. n \in Nat /\ N \in Nat /\ sequence \in Seq(Nat) /\ Placed(n, sequence, <<>>)
  BY <1>1, <1>2, LenProperties DEF CodeOK, Placed, Shapes
<1>4. /\ AnySeq(frags') /\ Len(frags') = n + 1 /\ frags'[n + 1] = x
      /\ \A i \in 1..n : frags'[i] = frags[i]
  BY <1>1, <1>2, Appended DEF Extends
<1>5. Placed(n + 1, s, <<>>)
  BY <1>3, PlaceOne DEF Emitted1
<1>6. s \in Seq(Nat) /\ Len(s) = N + 1 /\ s[N + 1] = n + 1 /\ \A k \in 1..N : s[k] = sequence[k]
  BY <1>3, AppendProperties DEF Emitted1
<1>7. Parted(frags', s)
  <2>1. \A k \in 1..Len(s) : s[k] \in 1..Len(frags')
    BY <1>4, <1>5 DEF Placed, Once
  <2>2. \A f \in 1..Len(frags') : frags'[f].inWord \in BOOLEAN
    BY DEF TypeInv, Sound, Refers
  <2> QED BY <2>1, <2>2 DEF Parted
<1>8. x.op = "HALT" /\ x.inWord = FALSE
  BY <1>1, <1>2 DEF Frag
<1>9. \A k \in 1..N : sequence[k] \in 1..n
  BY <1>3 DEF Placed, Once
<1>10. Fits(N, Code(frags, sequence), sequence, <<>>, FALSE, Defining.frag)
  <2>1. defining = FALSE
    BY <1>1, <1>2
  <2> QED BY <2>1, <1>1 DEF ShapeInv, Shape
<1> HIDE DEF s, x
<1>11. Reorders(frags', s, Places(frags', s), t) /\ t \in Seq(Nat)
  BY <1>6, <1>7, MainFirstReorders
<1> HIDE DEF t
<1>12. \A k \in 1..N : e[k] = Code(frags, sequence)[k]
  <2> SUFFICES ASSUME NEW k \in 1..N
               PROVE  e[k] = Code(frags, sequence)[k]
    OBVIOUS
  <2>1. k \in 1..Len(s) /\ s[k] = sequence[k] /\ sequence[k] \in 1..n
    BY <1>3, <1>6, <1>9
  <2>2. e[k] = frags'[sequence[k]]
    BY <2>1 DEF Code
  <2>3. Code(frags, sequence)[k] = frags[sequence[k]]
    BY DEF Code
  <2> QED BY <2>1, <2>2, <2>3, <1>4
<1>13. e[N + 1] = x
  <2>1. N + 1 \in 1..Len(s)
    BY <1>3, <1>6
  <2> QED BY <2>1, <1>4, <1>6 DEF Code
<1> HIDE DEF e, N
<1>14. Fits(N, e, s, <<>>, FALSE, Defining.frag)
  BY <1>6, <1>10, <1>12, FitsSame
<1>15. Whole(N, e, s)
  BY <1>8, <1>13, <1>14, HaltWhole
<1> QED BY <1>1, <1>6, <1>7, <1>11, <1>12, <1>15 DEF e, s, N

(* The code that is compiled is finished code.                             *)
FinalShape == ret = "compiled" => \E N, e, s, p : Finished(N, e, s, p)

(* The same, of any fragments and any order t of them.                     *)
FinishedIn(fs, t, N, e, s, p) ==
    /\ Whole(N, e, s) /\ Moves(N + 1, e, p, Code(fs, t))
    /\ t \in Seq(Nat) /\ Len(t) = N + 1
    /\ \A k \in 1..(N + 1) : t[p[k]] = s[k]

(* Moving the main program in front finishes code that is whole.           *)
LEMMA ReorderedFinishes ==
    ASSUME NEW N, NEW fs, NEW s, NEW p, NEW t, Whole(N, Code(fs, s), s), Len(s) = N + 1,
           Reorders(fs, s, p, t), Parted(fs, s), t \in Seq(Nat)
    PROVE  FinishedIn(fs, t, N, Code(fs, s), s, p)
<1>1. N \in Nat /\ Len(s) \in Nat
  BY DEF Whole
<1>2. Moves(N + 1, Code(fs, s), p, Code(fs, t))
  BY <1>1, ReordersMoves
<1>3. Len(t) = N + 1 /\ \A k \in 1..(N + 1) : t[p[k]] = s[k]
  BY DEF Reorders
<1> QED BY <1>2, <1>3 DEF FinishedIn

(* The end of the source makes it so.                                      *)
LEMMA FinishShape ==
    ASSUME CompilerInv, TypeInv, TypeInv', ShapeInv, Finish
    PROVE  FinalShape'
<1>1. FinishedIn(frags', sequence', Len(sequence), Code(frags', Emitted1), Emitted1, Places(frags', Emitted1))
  BY FinishMoves, ReorderedFinishes
<1>2. \A N, e, s, p : FinishedIn(frags', sequence', N, e, s, p) => Finished(N, e, s, p)'
  BY DEF FinishedIn, Finished
<1> QED BY <1>1, <1>2 DEF FinalShape

(* The source is compiled by the word behind its last one only.            *)
LEMMA CompiledNow ==
    ASSUME CompilerInv, [Next]_vars, ret' = "compiled"
    PROVE  Finish \/ UNCHANGED vars
<1>1. Compiles => ret' = "reading"
  BY CompilesReads
<1>2. \A w, n : Fail(w, n) => ret' \in ErrorCode
  BY FailCode DEF CompilerInv, TablesOK
<1>3. "compiled" \notin ErrorCode /\ "compiled" # "reading"
  BY DEF ErrorCode
<1>4. FinishEarly => ret' = "EARLY_END_OF_SOURCE"
  BY DEF FinishEarly, Abandon
<1> QED BY <1>1, <1>2, <1>3, <1>4, NextCases

(* Every step leaves it so.                                                *)
LEMMA NextFinal ==
    ASSUME CompilerInv, TypeInv, TypeInv', ShapeInv, FinalShape, [Next]_vars
    PROVE  FinalShape'
<1>1. CASE Finish
  BY <1>1, FinishShape
<1>2. CASE UNCHANGED vars
  <2>1. /\ frags' = frags /\ sequence' = sequence /\ ret' = ret
    BY <1>2 DEF vars, code
  <2>2. \A N, e, s, p : Finished(N, e, s, p) <=> FinishedIn(frags, sequence, N, e, s, p)
    BY DEF FinishedIn, Finished
  <2>3. \A N, e, s, p : FinishedIn(frags', sequence', N, e, s, p) => Finished(N, e, s, p)'
    BY DEF FinishedIn, Finished
  <2> QED BY <2>1, <2>2, <2>3 DEF FinalShape
<1>3. CASE ret' # "compiled"
  BY <1>3 DEF FinalShape
<1> QED BY <1>1, <1>2, <1>3, CompiledNow

(* Compiled code is code that was emitted in shape, moved.                 *)
THEOREM CodeFinished == Spec => []FinalShape
<1>1. Init => FinalShape
  BY DEF Init, FinalShape
<1>2. CompilerInv /\ TypeInv /\ TypeInv' /\ ShapeInv /\ FinalShape /\ [Next]_vars => FinalShape'
  BY NextFinal
<1>3. TypeInv /\ FinalCode => TypeInv
  OBVIOUS
<1> QED BY <1>1, <1>2, <1>3, CodeFits, CompilerInvariant, CompilerTypes, PTL DEF Spec

(* In compiled code the main program runs from ENTRY to HALT in front of   *)
(* all words, and each word from its location to an exit at loop depth 0   *)
(* that names it.                                                          *)
THEOREM RegionsHold == Spec => []Regions
<1>1. FinalShape => Regions
  BY FinalRegions DEF FinalShape, Regions
<1> QED BY <1>1, CodeFinished, PTL

(* In compiled code a branch stays in its word or in the main program and  *)
(* arrives at the loop depth it left from, loop closes a do, and i and j   *)
(* stand inside one and two loops.                                         *)
THEOREM StructureHolds == Spec => []Structured
<1>1. CompilerInv /\ TypeInv /\ FinalCode /\ FinalShape => Structured
  <2> SUFFICES ASSUME CompilerInv, TypeInv, FinalCode, FinalShape, ret = "compiled"
               PROVE  Structured
    BY DEF Structured
  <2>1. PICK N, e, s, p : Finished(N, e, s, p)
    BY DEF FinalShape
  <2>2. cf = <<>>
    BY DEF CompilerInv
  <2> QED BY <2>1, <2>2, FinalStructured
<1> QED BY <1>1, CodeFinished, CompilerInvariant, CompilerTypes, PTL

-----------------------------------------------------------------------------
(* The flags of the words.                                                 *)

(* The exits of the word at f, in the code up to N.                        *)
Leaves(N, e, f) == {x \in 1..N : InBody(e, f, x) /\ e[x].op = "EXIT_WORD"}

(* The flags of the word at f: what is called in front of one of its       *)
(* exits, and whether an exit leaves a loop.                               *)
Flagged(N, e, f, flags) ==
    /\ "calls" \in flags <=> TracksLr /\ \E x \in Leaves(N, e, f) : \E k \in f..x : UsesLr(e[k].op)
    /\ "loops" \in flags <=> \E x \in Leaves(N, e, f) : Nest(e, x) > 0

(* Whether an entry is in a word depends on the code up to it.             *)
LEMMA BodySame ==
    ASSUME NEW N \in Nat, NEW e, NEW g, \A k \in 1..N : g[k] = e[k],
           NEW f \in 1..N, NEW x \in 1..N
    PROVE  InBody(g, f, x) <=> InBody(e, f, x)
<1>1. \A j \in f..x : j \in 1..N
  OBVIOUS
<1>2. \A j \in f..x : g[j] = e[j] /\ (Inside(g, j) <=> Inside(e, j))
  BY <1>1 DEF Inside
<1>3. g[f] = e[f]
  OBVIOUS
<1> QED BY <1>2, <1>3 DEF InBody

(* An entry in front of one in the word is in it too.                      *)
LEMMA BodyFront ==
    ASSUME NEW N \in Nat, NEW e, NEW f \in 1..N, NEW x \in 1..N, InBody(e, f, x),
           NEW k \in f..x
    PROVE  InBody(e, f, k)
<1>1. \A j \in f..k : j \in f..x
  OBVIOUS
<1>2. f <= k
  OBVIOUS
<1> QED BY <1>1, <1>2 DEF InBody

(* An entry is in one word at most.                                        *)
LEMMA BodyOnce ==
    ASSUME NEW N \in Nat, NEW e, NEW f \in 1..N, NEW h \in 1..N, NEW x \in 1..N,
           InBody(e, f, x), InBody(e, h, x)
    PROVE  f = h
<1>1. f <= x /\ h <= x /\ e[f].op = "DEFINED_WORD_LOCATION" /\ e[h].op = "DEFINED_WORD_LOCATION"
  BY DEF InBody
<1>2. ~(f < h)
  <2>1. f < h => h \in f..x /\ h # f
    BY <1>1
  <2> QED BY <2>1, <1>1 DEF InBody
<1>3. ~(h < f)
  <2>1. h < f => f \in h..x /\ f # h
    BY <1>1
  <2> QED BY <2>1, <1>1 DEF InBody
<1> QED BY <1>2, <1>3

(* The greatest element.                                                   *)
LEMMA GreatestElement ==
    ASSUME NEW N \in Nat, NEW T \in SUBSET (1..N), T # {}
    PROVE  \E k \in T : \A m \in T : m <= k
<1> DEFINE U == {y \in 0..N : N - y \in T}
<1>1. U \in SUBSET Nat
  OBVIOUS
<1>2. \A k \in T : k \in 1..N /\ N - k \in 0..N /\ N - (N - k) = k
  OBVIOUS
<1>3. \A k \in T : N - k \in U
  BY <1>2
<1>4. U # {}
  BY <1>3
<1> HIDE DEF U
<1>5. PICK y \in U : \A z \in U : y <= z
  BY <1>1, <1>4, LeastElement
<1>6. N - y \in T /\ y \in 0..N
  BY <1>5 DEF U
<1>7. \A m \in T : m <= N - y
  <2> TAKE m \in T
  <2>1. y <= N - m /\ m \in 1..N
    BY <1>3, <1>5
  <2> QED BY <2>1, <1>6
<1> QED BY <1>6, <1>7

(* As long as no exit is added to a word, its flags say the same.          *)
LEMMA FlaggedSame ==
    ASSUME NEW N \in Nat, NEW M \in Nat, N <= M, NEW e, NEW g, \A k \in 1..N : g[k] = e[k],
           NEW f \in 1..N,
           \A x \in 1..M : x \notin 1..N => ~(InBody(g, f, x) /\ g[x].op = "EXIT_WORD"),
           NEW flags, Flagged(N, e, f, flags)
    PROVE  Flagged(M, g, f, flags)
<1>1. \A x \in 1..N : /\ x \in 1..M /\ g[x] = e[x] /\ (InBody(g, f, x) <=> InBody(e, f, x))
                      /\ Nest(g, x) = Nest(e, x)
  <2> TAKE x \in 1..N
  <2>1. \A m \in 1..(x - 1) : g[m] = e[m]
    OBVIOUS
  <2>2. Nest(g, x) = Nest(e, x)
    BY <2>1, NestSame
  <2> QED BY <2>2, BodySame
<1>2. Leaves(M, g, f) = Leaves(N, e, f)
  BY <1>1 DEF Leaves
<1>3. \A x \in Leaves(N, e, f) : x \in 1..N /\ \A k \in f..x : k \in 1..N
  BY DEF Leaves
<1>4. \A x \in Leaves(N, e, f) : \A k \in f..x : g[k] = e[k]
  BY <1>3
<1>5. \A x \in Leaves(N, e, f) : Nest(g, x) = Nest(e, x)
  BY <1>1, <1>3
<1> QED BY <1>2, <1>4, <1>5 DEF Flagged

(* What update_defined_word_nested_call_param looks for.                   *)
Stops(N, e, f) == {k \in 1..N : k = f \/ e[k].op = "EXIT_WORD"}
Called(N, e, f) == LET stop == CHOOSE k \in Stops(N, e, f) : \A m \in Stops(N, e, f) : m <= k
                   IN  \E k \in stop..N : k # stop /\ UsesLr(e[k].op)

(* An exit adds to the flags of the word it is in what its scan found, and *)
(* whether it leaves a loop.                                               *)
LEMMA FlaggedExit ==
    ASSUME NEW N \in Nat, NEW e, NEW g, \A k \in 1..N : g[k] = e[k],
           NEW f \in 1..N, InBody(g, f, N + 1), g[N + 1].op = "EXIT_WORD",
           NEW flags, Flagged(N, e, f, flags), NEW more,
           "calls" \in more <=> TracksLr /\ Called(N, e, f),
           "loops" \in more <=> Nest(g, N + 1) > 0
    PROVE  Flagged(N + 1, g, f, flags \cup more)
<1> DEFINE H == N + 1
<1>0. H \in Nat /\ N <= H /\ \A x \in 1..H : x \in 1..N \/ x = H
  OBVIOUS
<1>1. \A x \in 1..N : /\ x \in 1..H /\ g[x] = e[x] /\ (InBody(g, f, x) <=> InBody(e, f, x))
                      /\ Nest(g, x) = Nest(e, x)
  <2> TAKE x \in 1..N
  <2>1. \A m \in 1..(x - 1) : g[m] = e[m]
    OBVIOUS
  <2>2. Nest(g, x) = Nest(e, x)
    BY <2>1, NestSame
  <2> QED BY <2>2, BodySame
<1>2. Leaves(H, g, f) = Leaves(N, e, f) \cup {H} /\ H \notin Leaves(N, e, f)
  <2>1. \A x \in 1..N : x \in Leaves(H, g, f) <=> x \in Leaves(N, e, f)
    BY <1>1 DEF Leaves
  <2>2. H \in Leaves(H, g, f) /\ H \notin 1..N
    BY DEF Leaves
  <2>3. Leaves(H, g, f) \subseteq 1..H /\ Leaves(N, e, f) \subseteq 1..N
    BY DEF Leaves
  <2> HIDE DEF H
  <2> QED BY <1>0, <2>1, <2>2, <2>3
<1>3. \A x \in Leaves(N, e, f) : x \in 1..N /\ \A k \in f..x : k \in 1..N /\ k \in f..N
  BY DEF Leaves
<1>4. "loops" \in flags \cup more <=> \E x \in Leaves(H, g, f) : Nest(g, x) > 0
  <2>1. "loops" \in flags <=> \E x \in Leaves(N, e, f) : Nest(e, x) > 0
    BY DEF Flagged
  <2>2. \A x \in Leaves(N, e, f) : Nest(g, x) = Nest(e, x)
    BY <1>1, <1>3
  <2> HIDE DEF H
  <2>3. "loops" \in more <=> Nest(g, H) > 0
    BY DEF H
  <2> QED BY <2>1, <2>2, <2>3, <1>2
<1> DEFINE T == Stops(N, e, f)
<1>5. T \in SUBSET (1..N) /\ f \in T
  BY DEF Stops
<1>6. \E k \in T : \A m \in T : m <= k
  <2> HIDE DEF T
  <2> QED BY <1>5, GreatestElement
<1> DEFINE stop == CHOOSE k \in T : \A m \in T : m <= k
<1>7. stop \in T /\ \A m \in T : m <= stop
  BY <1>6
<1>8. Called(N, e, f) <=> \E k \in stop..N : k # stop /\ UsesLr(e[k].op)
  BY DEF Called
<1> HIDE DEF stop
<1>9. stop \in 1..N /\ f <= stop
  BY <1>5, <1>7
<1>10. ~UsesLr("EXIT_WORD") /\ ~UsesLr("DEFINED_WORD_LOCATION") /\ ~UsesLr(g[H].op)
  BY DEF UsesLr
<1>11. e[f].op = "DEFINED_WORD_LOCATION"
  <2>1. g[f].op = "DEFINED_WORD_LOCATION"
    BY DEF InBody
  <2> QED BY <2>1
<1>12. (\E x \in Leaves(H, g, f) : \E k \in f..x : UsesLr(g[k].op)) <=> \E k \in f..N : UsesLr(e[k].op)
  <2>1. \A k \in f..N : k \in f..H /\ g[k] = e[k]
    BY <1>0
  <2>2. \A x \in Leaves(H, g, f) : \A k \in f..x : k = H \/ k \in f..N
    <3> TAKE x \in Leaves(H, g, f)
    <3> TAKE k \in f..x
    <3>1. x \in 1..H
      BY DEF Leaves
    <3> QED BY <3>1
  <2>3. H \in Leaves(H, g, f)
    BY <1>2
  <2> HIDE DEF H
  <2> QED BY <2>1, <2>2, <2>3, <1>10
<1>13. (\E x \in Leaves(N, e, f) : \E k \in f..x : UsesLr(e[k].op)) \/ Called(N, e, f)
         <=> \E k \in f..N : UsesLr(e[k].op)
  <2>1. \A k \in stop..N : k \in f..N
    BY <1>9
  <2>2. ASSUME NEW k \in f..N, UsesLr(e[k].op), ~Called(N, e, f)
        PROVE  \E x \in Leaves(N, e, f) : k \in f..x
    <3>1. k \notin T
      BY <2>2, <1>10, <1>11 DEF Stops
    <3>2. k < stop
      <4>1. k # stop
        BY <3>1, <1>7
      <4>2. k \notin stop..N
        BY <2>2, <4>1, <1>8
      <4> QED BY <4>1, <4>2, <1>9
    <3>3. stop # f
      BY <3>2
    <3>4. e[stop].op = "EXIT_WORD"
      BY <3>3, <1>7 DEF Stops
    <3>5. InBody(g, f, stop)
      <4>1. stop \in f..H /\ H \in 1..H /\ f \in 1..H
        BY <1>9
      <4>2. H \in Nat /\ InBody(g, f, H)
        OBVIOUS
      <4> HIDE DEF H
      <4> QED BY <4>1, <4>2, BodyFront
    <3>6. InBody(e, f, stop)
      BY <3>5, <1>1, <1>9
    <3>7. stop \in Leaves(N, e, f)
      BY <3>4, <3>6, <1>9 DEF Leaves
    <3> QED BY <3>2, <3>7, <1>9
  <2> QED BY <2>1, <2>2, <1>3, <1>8
<1>14. "calls" \in flags \cup more <=>
          TracksLr /\ \E x \in Leaves(H, g, f) : \E k \in f..x : UsesLr(g[k].op)
  <2>1. "calls" \in flags <=> TracksLr /\ \E x \in Leaves(N, e, f) : \E k \in f..x : UsesLr(e[k].op)
    BY DEF Flagged
  <2>2. "calls" \in more <=> TracksLr /\ Called(N, e, f)
    OBVIOUS
  <2> HIDE DEF H
  <2> QED BY ONLY <2>1, <2>2, <1>12, <1>13
<1> QED BY <1>4, <1>14 DEF Flagged

(* The flags of every word, each with a place of its own.                  *)
FlagsIn(N, e, s, ws) ==
    /\ \A n \in 1..Len(ws) :
        /\ ws[n].frag \in 1..N /\ e[ws[n].frag].op = "DEFINED_WORD_LOCATION"
        /\ s[ws[n].frag] = ws[n].frag /\ Flagged(N, e, ws[n].frag, ws[n].flags)
    /\ \A n, m \in 1..Len(ws) : ws[n].frag = ws[m].frag => n = m

(* An entry that is new is a new fragment, or a target that was owed.      *)
LEMMA NewEntries ==
    ASSUME Reading, ~Colons, NEW x \in 1..Len(sequence'), x \notin 1..Len(sequence)
    PROVE  Emitted[x] = frags'[sequence'[x]]
           /\ (Newly(Emitted[x]) \/ Emitted[x].op = "BRANCH_LOCATION")
<1>1. AllNewly
  BY CompilesNewly
<1>2. CodeStep
  BY CompilesCode DEF Reading, Colons
<1>3. /\ CodeOK(frags', sequence', cf') /\ CodeOK(frags, sequence, cf)
      /\ Prefix(frags, frags') /\ Prefix(sequence, sequence')
  BY <1>2 DEF CodeStep, Reading
<1>4. Placed(Len(frags'), sequence', cf') /\ Placed(Len(frags), sequence, cf) /\ Targets(frags, cf)
  BY <1>3 DEF CodeOK
<1>5. Emitted[x] = frags'[sequence'[x]]
  BY DEF Emitted, Code
<1> DEFINE i == sequence'[x]
<1>6. i \in 1..Len(frags') /\ \A k \in 1..Len(sequence') : sequence'[k] = i => k = x
  BY <1>4 DEF Placed, Once
<1> HIDE DEF i
<1>7. CASE i \notin 1..Len(frags)
  <2>1. Newly(frags'[i])
    BY <1>1, <1>6, <1>7 DEF AllNewly
  <2> QED BY <2>1, <1>5 DEF i
<1>8. CASE i \in 1..Len(frags)
  <2>1. ~Emits(sequence, i)
    <3>1. PICK m \in Nat : Extends(sequence, sequence', m)
      BY <1>3 DEF Prefix
    <3>2. Len(sequence) \in Nat
      BY Plainly
    <3>3. \A k \in 1..Len(sequence) : sequence'[k] = sequence[k] /\ k \in 1..Len(sequence')
      BY <3>1, <3>2 DEF Extends
    <3>4. \A k \in 1..Len(sequence) : sequence[k] # i
      BY <3>3, <1>6
    <3> QED BY <3>4 DEF Emits
  <2>2. OwesFragment(cf, i)
    BY <1>4, <1>8, <2>1 DEF Placed
  <2>3. frags[i].op = "BRANCH_LOCATION"
    BY <1>4, <2>2 DEF OwesFragment, Targets, Owes
  <2>4. frags'[i] = frags[i]
    BY <1>3, <1>8 DEF Prefix, Extends
  <2> QED BY <2>3, <2>4, <1>5 DEF i
<1> QED BY <1>5, <1>7, <1>8

(* Only an exit, a semicolon and a colon change the flags.                 *)
LEMMA FlagsStay ==
    ASSUME Reading, ~Colons, ~Exit, ~Semicolon
    PROVE  /\ Len(words') = Len(words)
           /\ \A k \in 1..Len(words) : /\ words'[k].frag = words[k].frag
                                       /\ words'[k].flags = words[k].flags
<1>0. Compiles /\ words \in Seq(Word) /\ Len(words) \in Nat /\ DOMAIN words = 1..Len(words)
  BY Plainly, LenProperties DEF Reading
<1>1. Kept(words')
  BY <1>0, WordsKept DEF Colons
<1>2. ASSUME NEW s, Comment(s), AtWordStart
      PROVE  \A k \in 1..Len(words) : words'[k].flags = words[k].flags
  <2> DEFINE g == <<Capped(s[1], 31), Capped(s[2], 3)>>
             n == Len(words)
  <2>1. words' = [words EXCEPT ![n].sig = g]
    BY <1>2 DEF Comment
  <2> HIDE DEF g
  <2> DEFINE e == [words[n] EXCEPT !.sig = g]
  <2>2. words' = [words EXCEPT ![n] = e]
    BY <2>1
  <2>3. ASSUME NEW k \in 1..n
        PROVE  words'[k].flags = words[k].flags
    <3>1. words[n] \in Word
      BY <1>0, <2>3, ElementOfSeq
    <3>2. e.flags = words[n].flags
      BY <3>1 DEF Word
    <3> HIDE DEF e
    <3>3. words'[k] = IF k = n THEN e ELSE words[k]
      BY <1>0, <2>2
    <3> QED BY <3>2, <3>3
  <2> QED BY <2>3
<1>3. words' = words \/ \E s \in Signatures : Comment(s) /\ AtWordStart
  <2>1. \A s \in Signatures : Comment(s) => words' = words \/ AtWordStart
    BY DEF Comment
  <2> QED BY <1>0, <2>1 DEF Compiles, Colons, UseName, UseBuiltin, UseRuntime, Plain, Skip, Declare,
         Tick, CTick, Recurse, String, If, Then, Else, Do,
         Loop, Begin, Until, While, Repeat, Again, Forward, Backward, Control
<1>4. \A k \in 1..Len(words) : words'[k].flags = words[k].flags
  BY <1>2, <1>3
<1> QED BY <1>1, <1>4 DEF Kept

(* What an exit, or a semicolon, does to the flags.                        *)
LEMMA FlagsAdded ==
    ASSUME words \in Seq(Word), Len(words) > 0, NEW which \in SUBSET {"calls", "loops"}, Flag(which)
    PROVE  /\ Len(words') = Len(words) /\ Len(words) \in 1..Len(words)
           /\ \A k \in 1..Len(words) : /\ words'[k].frag = words[k].frag
                                       /\ k # Len(words) => words'[k].flags = words[k].flags
           /\ words'[Len(words)].flags = words[Len(words)].flags \cup which
<1> DEFINE n == Len(words)
           e == [words[n] EXCEPT !.flags = @ \cup which]
<1>1. words' = [words EXCEPT ![n] = e]
  BY DEF Flag
<1>2. n \in Nat /\ DOMAIN words = 1..n /\ n \in 1..n
  BY LenProperties
<1>3. words[n] \in Word
  BY <1>2, ElementOfSeq
<1>4. e.flags = words[n].flags \cup which
  BY <1>3 DEF Word
<1> HIDE DEF e
<1>5. \A k \in 1..n : words'[k] = IF k = n THEN e ELSE words[k]
  BY <1>1, <1>2
<1>6. /\ Len(words') = n /\ \A k \in 1..n : words'[k].frag = words[k].frag
  BY Flagging
<1> QED BY <1>2, <1>4, <1>5, <1>6

(* The flags, while the source is read.                                    *)
FlagsHere == FlagsIn(Len(sequence), Code(frags, sequence), sequence, words)
FlagsInv == ret = "reading" => FlagsHere

(* What FlagsHere says of the next state.                                  *)
LEMMA FlagsNow ==
    ASSUME FlagsIn(Len(sequence'), Emitted, sequence', words')
    PROVE  FlagsHere'
  BY DEF FlagsHere, Emitted

(* The code the step leaves continues the code there was.                  *)
LEMMA SameSoFar ==
    ASSUME Shaping
    PROVE  /\ Len(sequence) \in Nat \ {0} /\ Len(sequence') \in Nat /\ Len(sequence) <= Len(sequence')
           /\ \A k \in 1..Len(sequence) : /\ Emitted[k] = Code(frags, sequence)[k]
                                          /\ sequence'[k] = sequence[k]
<1>1. Prefix(frags, frags') /\ Prefix(sequence, sequence')
  <2>1. CodeOK(frags, sequence, cf) /\ defining \in BOOLEAN /\ Compiles
    BY DEF Shaping, Reading
  <2>2. CASE Colons
    BY <2>1, <2>2, ColonCode DEF Colons
  <2>3. CASE ~Colons
    BY <2>1, <2>3, CompilesCode DEF Colons, CodeStep
  <2> QED BY <2>2, <2>3
<1>2. PICK m \in Nat : Extends(sequence, sequence', m)
  BY <1>1 DEF Prefix
<1>3. Len(sequence) \in Nat \ {0}
  BY DEF Shaping, Shape, Fits, Nested
<1>4. /\ Len(sequence') = Len(sequence) + m
      /\ \A k \in 1..Len(sequence) : sequence'[k] = sequence[k]
  BY <1>2 DEF Extends
<1>5. ASSUME NEW k \in 1..Len(sequence)
      PROVE  Emitted[k] = Code(frags, sequence)[k]
  <2>1. sequence[k] \in 1..Len(frags)
    BY Plainly DEF Shaping
  <2>2. frags'[sequence[k]] = frags[sequence[k]]
    BY <1>1, <2>1 DEF Prefix, Extends
  <2>3. k \in 1..Len(sequence')
    BY <1>3, <1>4
  <2>4. Emitted[k] = frags'[sequence'[k]]
    BY <2>3 DEF Emitted, Code
  <2>5. Code(frags, sequence)[k] = frags[sequence[k]]
    BY DEF Code
  <2> QED BY <2>2, <2>4, <2>5, <1>4
<1> QED BY <1>3, <1>4, <1>5

(* The words there were, when nothing was added to their flags or bodies.  *)
LEMMA FlagsCarried ==
    ASSUME Shaping, FlagsHere, NEW n \in 1..Len(words), NEW w, w.frag = words[n].frag, w.flags = words[n].flags,
           \A x \in 1..Len(sequence') : x \notin 1..Len(sequence) =>
               ~(InBody(Emitted, words[n].frag, x) /\ Emitted[x].op = "EXIT_WORD")
    PROVE  /\ w.frag \in 1..Len(sequence') /\ Emitted[w.frag].op = "DEFINED_WORD_LOCATION"
           /\ sequence'[w.frag] = w.frag /\ Flagged(Len(sequence'), Emitted, w.frag, w.flags)
<1> DEFINE N == Len(sequence)
           M == Len(sequence')
           e == Code(frags, sequence)
           f == words[n].frag
<1>1. /\ f \in 1..N /\ e[f].op = "DEFINED_WORD_LOCATION" /\ sequence[f] = f
      /\ Flagged(N, e, f, words[n].flags)
  BY DEF FlagsHere, FlagsIn
<1>2. /\ N \in Nat \ {0} /\ M \in Nat /\ N <= M
      /\ \A k \in 1..N : Emitted[k] = e[k] /\ sequence'[k] = sequence[k]
  BY SameSoFar
<1>3. \A x \in 1..M : x \notin 1..N => ~(InBody(Emitted, f, x) /\ Emitted[x].op = "EXIT_WORD")
  OBVIOUS
<1> HIDE DEF N, M, e, f
<1>4. Flagged(M, Emitted, f, words[n].flags)
  BY <1>1, <1>2, <1>3, FlaggedSame
<1>5. f \in 1..M /\ Emitted[f].op = "DEFINED_WORD_LOCATION" /\ sequence'[f] = f
  BY <1>1, <1>2
<1> QED BY <1>4, <1>5 DEF f, M

(* Words that leave no word keep the flags exact.                          *)
LEMMA FlagsOther ==
    ASSUME Shaping, FlagsHere, ~Colons, ~Exit, ~Semicolon
    PROVE  FlagsHere'
<1>0. Reading
  BY DEF Shaping
<1>1. /\ Len(words') = Len(words)
      /\ \A k \in 1..Len(words) : words'[k].frag = words[k].frag /\ words'[k].flags = words[k].flags
  BY <1>0, FlagsStay
<1>2. \A x \in 1..Len(sequence') : x \notin 1..Len(sequence) => Emitted[x].op # "EXIT_WORD"
  <2> SUFFICES ASSUME NEW x \in 1..Len(sequence'), x \notin 1..Len(sequence)
               PROVE  Emitted[x].op # "EXIT_WORD"
    OBVIOUS
  <2>1. Newly(Emitted[x]) \/ Emitted[x].op = "BRANCH_LOCATION"
    BY <1>0, NewEntries
  <2> QED BY <2>1 DEF Newly
<1>3. \A n \in 1..Len(words) :
        LET w == words'[n]
        IN  /\ w.frag \in 1..Len(sequence') /\ Emitted[w.frag].op = "DEFINED_WORD_LOCATION"
            /\ sequence'[w.frag] = w.frag /\ Flagged(Len(sequence'), Emitted, w.frag, w.flags)
  BY <1>1, <1>2, FlagsCarried
<1>4. \A n, m \in 1..Len(words) : words[n].frag = words[m].frag => n = m
  BY DEF FlagsHere, FlagsIn
<1>5. FlagsIn(Len(sequence'), Emitted, sequence', words')
  BY <1>1, <1>3, <1>4 DEF FlagsIn
<1> QED BY <1>5, FlagsNow

(* A new word has no flags, and no exits yet.                              *)
LEMMA FlagsColon ==
    ASSUME Shaping, FlagsHere, NEW n \in Names, Colon(n)
    PROVE  FlagsHere'
<1> DEFINE N == Len(sequence)
           M == Len(sequence')
           q == Len(words)
           x == [name |-> n, frag |-> Len(frags) + 1, flags |-> {}, sig |-> <<>>]
<1>0. words \in Seq(Word) /\ Len(frags) \in Nat /\ q \in Nat
  BY Plainly DEF Shaping
<1>1. FitsNow(cf, TRUE, N + 1) /\ N = Len(frags)
  BY ColonFits
<1>2. N \in Nat \ {0} /\ M = N + 1
  <2>1. CodeOK(frags, sequence, cf)
    BY DEF Shaping, Reading
  <2> QED BY <2>1, ColonCode, SameSoFar
<1>3. N + 1 \in 1..M /\ InBody(Emitted, N + 1, M) /\ sequence'[N + 1] = N + 1
  BY <1>1 DEF FitsNow, Fits, Regional, Ends
<1>4. Emitted[N + 1].op = "DEFINED_WORD_LOCATION"
  BY <1>3 DEF InBody
<1>5. /\ Len(words') = q + 1 /\ \A k \in 1..q : words'[k] = words[k]
      /\ words'[q + 1].frag = N + 1
  BY <1>0, <1>1, ColonWord
<1>6. words'[q + 1].flags = {}
  <2>1. words' = Append(words, x) /\ x.flags = {}
    BY DEF Colon
  <2>2. x \in Word
    BY <1>0 DEF Word
  <2> HIDE DEF x
  <2>3. words'[Len(words) + 1] = x
    BY <1>0, <2>1, <2>2, AppendProperties
  <2> QED BY <2>1, <2>3
<1> HIDE DEF N, M, q, x
<1>7. \A k \in 1..M : k \in 1..N \/ k = N + 1
  BY <1>2
<1>8. Flagged(M, Emitted, N + 1, {})
  <2>1. Leaves(M, Emitted, N + 1) = {}
    <3>1. ASSUME NEW k \in 1..M, InBody(Emitted, N + 1, k)
          PROVE  k = N + 1
      <4>1. N + 1 <= k
        BY <3>1 DEF InBody
      <4> QED BY <1>2, <4>1
    <3> QED BY <3>1, <1>4 DEF Leaves
  <2> QED BY <2>1 DEF Flagged
<1>9. ASSUME NEW k \in 1..q
      PROVE  LET w == words'[k]
             IN  /\ w.frag \in 1..M /\ Emitted[w.frag].op = "DEFINED_WORD_LOCATION"
                 /\ sequence'[w.frag] = w.frag /\ Flagged(M, Emitted, w.frag, w.flags)
  <2>1. \A y \in 1..Len(sequence') : y \notin 1..Len(sequence) => Emitted[y].op # "EXIT_WORD"
    BY <1>4, <1>7 DEF N, M
  <2>2. words'[k] = words[k] /\ k \in 1..Len(words)
    BY <1>5, <1>9 DEF q
  <2> QED BY <2>1, <2>2, FlagsCarried DEF M
<1>10. ASSUME NEW k \in 1..(q + 1)
       PROVE  LET w == words'[k]
              IN  /\ w.frag \in 1..M /\ Emitted[w.frag].op = "DEFINED_WORD_LOCATION"
                  /\ sequence'[w.frag] = w.frag /\ Flagged(M, Emitted, w.frag, w.flags)
  <2>1. k \in 1..q \/ k = q + 1
    BY <1>0 DEF q
  <2>2. CASE k = q + 1
    BY <2>2, <1>3, <1>4, <1>5, <1>6, <1>8
  <2> QED BY <2>1, <2>2, <1>9
<1>11. \A k, m \in 1..(q + 1) : words'[k].frag = words'[m].frag => k = m
  <2>1. \A k \in 1..(q + 1) : k \in 1..q \/ k = q + 1
    BY <1>0 DEF q
  <2>2. \A k \in 1..q : words[k].frag \in 1..N
    BY DEF FlagsHere, FlagsIn, q, N
  <2>3. N + 1 \notin 1..N
    BY <1>2
  <2>4. \A k, m \in 1..q : words[k].frag = words[m].frag => k = m
    BY DEF FlagsHere, FlagsIn, q
  <2> QED BY <2>1, <2>2, <2>3, <2>4, <1>5
<1>12. FlagsIn(M, Emitted, sequence', words')
  BY <1>5, <1>10, <1>11 DEF FlagsIn
<1> QED BY <1>12, FlagsNow DEF M

(* The scan for calls, on the code as plain sequences.                     *)
LEMMA ScanIsCalled ==
    ASSUME Reading, Defining.frag \in 1..Len(sequence)
    PROVE  CallsSinceExit <=> Called(Len(sequence), Code(frags, sequence), Defining.frag)
<1> DEFINE e == Code(frags, sequence)
           N == Len(sequence)
           T == Stops(N, e, Defining.frag)
<1>1. DOMAIN sequence = 1..N /\ N \in Nat
  BY Plainly, LenProperties
<1>2. \A k \in 1..N : e[k] = frags[sequence[k]]
  BY DEF Code
<1> HIDE DEF e
<1>3. T = {k \in DOMAIN sequence : k = Defining.frag \/ frags[sequence[k]].op = "EXIT_WORD"}
  BY <1>1, <1>2 DEF Stops
<1>4. T \in SUBSET (1..N) /\ Defining.frag \in T
  BY DEF Stops
<1>5. Called(N, e, Defining.frag) <=>
        LET stop == CHOOSE k \in T : \A m \in T : m <= k
        IN  \E k \in stop..N : k # stop /\ UsesLr(e[k].op)
  BY DEF Called
<1>6. CallsSinceExit <=>
        LET stop == CHOOSE k \in T : \A m \in T : m <= k
        IN  \E k \in stop..N : k # stop /\ UsesLr(frags[sequence[k]].op)
  BY <1>3 DEF CallsSinceExit
<1> HIDE DEF T, N
<1>7. \E k \in T : \A m \in T : m <= k
  BY <1>1, <1>4, GreatestElement
<1> DEFINE stop == CHOOSE k \in T : \A m \in T : m <= k
<1>8. stop \in T
  BY <1>7
<1>9. /\ Called(N, e, Defining.frag) <=> \E k \in stop..N : k # stop /\ UsesLr(e[k].op)
      /\ CallsSinceExit <=> \E k \in stop..N : k # stop /\ UsesLr(frags[sequence[k]].op)
  BY <1>5, <1>6
<1> HIDE DEF stop
<1>10. \A k \in stop..N : k \in 1..N
  BY <1>1, <1>4, <1>8
<1>11. CallsSinceExit <=> Called(N, e, Defining.frag)
  BY <1>2, <1>9, <1>10
<1> QED BY <1>11 DEF e, N

(* An exit, or a semicolon, in the word being defined.                     *)
LEMMA ExitEntry ==
    ASSUME Shaping, Exit \/ Semicolon
    PROVE  /\ defining = TRUE /\ Len(words) > 0 /\ Len(words) \in Nat
           /\ Len(sequence') = Len(sequence) + 1
           /\ Defining.frag \in 1..Len(sequence)
           /\ InBody(Emitted, Defining.frag, Len(sequence) + 1)
           /\ Emitted[Len(sequence) + 1].op = "EXIT_WORD"
           /\ Nest(Emitted, Len(sequence) + 1) = OpenLoops
<1> DEFINE N == Len(sequence)
           f == Defining.frag
<1>1. Emit1("EXIT_WORD", f)
  BY DEF Exit, Semicolon
<1>2. defining = TRUE
  <2>1. defining \in BOOLEAN
    BY DEF Shaping, Reading
  <2>2. Accepts("exit", NoName) \/ Accepts(";", NoName)
    BY Zenon DEF Exit, Semicolon
  <2>3. defining
    BY <2>1, <2>2, DefiningGuard
  <2> QED BY <2>1, <2>3
<1>3. Len(words) > 0 /\ Len(words) \in Nat
  <2>1. ret = "reading" /\ Len(words) \in Nat
    BY Plainly DEF Shaping
  <2> QED BY <2>1, <1>2 DEF Shaping, Reading, TypeInv
<1>4. /\ Fits(N, Emitted, sequence', cf, defining, f)
      /\ Len(sequence') = N + 1 /\ N \in Nat \ {0}
      /\ Emitted[N + 1].op = "EXIT_WORD" /\ Emitted[N + 1].inWord = defining
  BY <1>1, Emit1Fits
<1> HIDE DEF f
<1>5. f \in 1..N /\ InBody(Emitted, f, N)
  BY <1>2, <1>4 DEF Fits, Regional, Ends
<1>6. InBody(Emitted, f, N + 1)
  <2>1. Inside(Emitted, N + 1)
    BY <1>2, <1>4 DEF Inside
  <2>2. \A j \in f..(N + 1) : j \in f..N \/ (j = N + 1 /\ j # f)
    BY <1>4, <1>5
  <2>3. f <= N + 1
    BY <1>4, <1>5
  <2> QED BY <2>1, <2>2, <2>3, <1>4, <1>5 DEF InBody
<1>7. Nest(Emitted, N + 1) = OpenLoops
  <2>1. OpenLoops = Loops(cf, Len(cf))
    BY OpenLoopsNow DEF Shaping
  <2> QED BY <2>1, <1>4 DEF Fits
<1> QED BY <1>2, <1>3, <1>4, <1>5, <1>6, <1>7 DEF f

(* The flags it sets.                                                      *)
LEMMA ExitFlags ==
    ASSUME Shaping, Exit \/ Semicolon
    PROVE  \E which \in SUBSET {"calls", "loops"} :
               /\ Flag(which)
               /\ "calls" \in which <=>
                    TracksLr /\ Called(Len(sequence), Code(frags, sequence), Defining.frag)
               /\ "loops" \in which <=> Nest(Emitted, Len(sequence) + 1) > 0
<1>1. CallsSinceExit <=> Called(Len(sequence), Code(frags, sequence), Defining.frag)
  BY ExitEntry, ScanIsCalled DEF Shaping
<1>2. Nest(Emitted, Len(sequence) + 1) = OpenLoops
  BY ExitEntry
<1> DEFINE C == TracksLr /\ Called(Len(sequence), Code(frags, sequence), Defining.frag)
<1>3. /\ CallsFlag \in SUBSET {"calls", "loops"} /\ "loops" \notin CallsFlag
      /\ "calls" \in CallsFlag <=> C
  <2>1. CallsFlag = IF TracksLr /\ CallsSinceExit THEN {"calls"} ELSE {}
    BY DEF CallsFlag
  <2> HIDE DEF CallsFlag
  <2>2. C <=> TracksLr /\ CallsSinceExit
    BY <1>1
  <2> HIDE DEF C
  <2> QED BY <2>1, <2>2
<1> HIDE DEF C
<1>4. CASE Exit
  <2> DEFINE l == IF OpenLoops > 0 THEN {"loops"} ELSE {}
             which == CallsFlag \cup l
  <2>1. Flag(which)
    BY <1>4 DEF Exit
  <2>2. l \in SUBSET {"calls", "loops"} /\ "calls" \notin l /\ ("loops" \in l <=> OpenLoops > 0)
    OBVIOUS
  <2> HIDE DEF l
  <2>3. which \in SUBSET {"calls", "loops"} /\ ("calls" \in which <=> C)
        /\ ("loops" \in which <=> OpenLoops > 0)
    BY <2>2, <1>3
  <2> HIDE DEF which
  <2> QED BY <2>1, <2>3, <1>2 DEF C
<1>5. CASE Semicolon
  <2>1. Flag(CallsFlag)
    BY <1>5 DEF Semicolon
  <2>2. cf = <<>>
    <3>1. defining \in BOOLEAN /\ Accepts(";", NoName)
      BY <1>5, Zenon DEF Semicolon, Shaping, Reading
    <3> QED BY <3>1, SemicolonBalanced
  <2>3. OpenLoops = 0
    <3>1. OpenLoops = Loops(cf, Len(cf)) /\ Len(<<>>) = 0
      BY OpenLoopsNow, NoTables DEF Shaping
    <3>2. Loops(<<>>, 0) = 0
      BY LoopsNext
    <3> QED BY <3>1, <3>2, <2>2
  <2>4. ~(Nest(Emitted, Len(sequence) + 1) > 0)
    BY <2>3, <1>2
  <2> QED BY <2>1, <2>4, <1>3 DEF C
<1> QED BY <1>4, <1>5

(* Leaving a word keeps the flags exact.                                   *)
LEMMA FlagsExit ==
    ASSUME Shaping, FlagsHere, Exit \/ Semicolon
    PROVE  FlagsHere'
<1> DEFINE N == Len(sequence)
           e == Code(frags, sequence)
           f == Defining.frag
           q == Len(words)
<1>1. /\ q > 0 /\ q \in Nat /\ Len(sequence') = N + 1 /\ f \in 1..N
      /\ InBody(Emitted, f, N + 1) /\ Emitted[N + 1].op = "EXIT_WORD"
  BY ExitEntry
<1>2. PICK which \in SUBSET {"calls", "loops"} :
         /\ Flag(which)
         /\ "calls" \in which <=> TracksLr /\ Called(N, e, f)
         /\ "loops" \in which <=> Nest(Emitted, N + 1) > 0
  BY ExitFlags
<1>3. /\ Len(words') = q /\ q \in 1..q
      /\ \A k \in 1..q : words'[k].frag = words[k].frag
                        /\ (k # q => words'[k].flags = words[k].flags)
      /\ words'[q].flags = words[q].flags \cup which
  <2>1. words \in Seq(Word)
    BY Plainly DEF Shaping
  <2> QED BY <2>1, <1>1, <1>2, FlagsAdded
<1>4. f = words[q].frag
  BY DEF Defining, Last
<1>5. /\ \A k \in 1..q : words[k].frag \in 1..N
      /\ \A k, m \in 1..q : words[k].frag = words[m].frag => k = m
      /\ e[f].op = "DEFINED_WORD_LOCATION" /\ sequence[f] = f
      /\ Flagged(N, e, f, words[q].flags)
  BY <1>3, <1>4 DEF FlagsHere, FlagsIn
<1>6. /\ N \in Nat \ {0} /\ N + 1 \in Nat
      /\ \A k \in 1..N : Emitted[k] = e[k] /\ sequence'[k] = sequence[k]
  BY SameSoFar
<1> HIDE DEF N, e, f, q
<1>7. Flagged(N + 1, Emitted, f, words[q].flags \cup which)
  BY <1>1, <1>2, <1>5, <1>6, FlaggedExit
<1>8. ASSUME NEW k \in 1..q, k # q
      PROVE  LET w == words'[k]
             IN  /\ w.frag \in 1..(N + 1) /\ Emitted[w.frag].op = "DEFINED_WORD_LOCATION"
                 /\ sequence'[w.frag] = w.frag /\ Flagged(N + 1, Emitted, w.frag, w.flags)
  <2>1. words[k].frag # f
    BY <1>3, <1>4, <1>5, <1>8
  <2>2. ~InBody(Emitted, words[k].frag, N + 1)
    <3> DEFINE H == N + 1
    <3>1. f \in 1..H /\ words[k].frag \in 1..H /\ H \in 1..H /\ H \in Nat
      BY <1>1, <1>5, <1>6
    <3>2. InBody(Emitted, f, H)
      BY <1>1
    <3> HIDE DEF H
    <3>3. ~InBody(Emitted, words[k].frag, H)
      BY <3>1, <3>2, <2>1, BodyOnce
    <3> QED BY <3>3 DEF H
  <2>3. \A x \in 1..Len(sequence') : x \notin 1..Len(sequence) => x = N + 1
    BY <1>1, <1>6 DEF N
  <2>4. \A x \in 1..Len(sequence') : x \notin 1..Len(sequence) =>
            ~(InBody(Emitted, words[k].frag, x) /\ Emitted[x].op = "EXIT_WORD")
    BY <2>2, <2>3
  <2>5. k \in 1..Len(words) /\ Len(sequence') = N + 1
    BY <1>1 DEF q
  <2> QED BY <2>4, <2>5, <1>3, <1>8, FlagsCarried
<1>9. ASSUME NEW k \in 1..q
      PROVE  LET w == words'[k]
             IN  /\ w.frag \in 1..(N + 1) /\ Emitted[w.frag].op = "DEFINED_WORD_LOCATION"
                 /\ sequence'[w.frag] = w.frag /\ Flagged(N + 1, Emitted, w.frag, w.flags)
  <2>1. CASE k = q
    <3>1. words'[q].frag = f /\ f \in 1..(N + 1)
      BY <1>1, <1>3, <1>4, <1>6
    <3>2. Emitted[f].op = "DEFINED_WORD_LOCATION" /\ sequence'[f] = f
      BY <1>1, <1>5, <1>6
    <3> QED BY <3>1, <3>2, <2>1, <1>3, <1>7
  <2> QED BY <2>1, <1>8
<1>10. FlagsIn(N + 1, Emitted, sequence', words')
  BY <1>3, <1>5, <1>9 DEF FlagsIn
<1> QED BY <1>1, <1>10, FlagsNow

(* The flags are exact while the source is read.                           *)
LEMMA NextFlags ==
    ASSUME CompilerInv, TypeInv, ShapeInv, FlagsInv, [Next]_vars
    PROVE  FlagsInv'
<1>1. ASSUME Compiles
      PROVE  FlagsInv'
  <2>1. Shaping /\ FlagsHere
    BY <1>1, ReadingNow, CompilesReads DEF Shaping, ShapeInv, FlagsInv
  <2>2. CASE Colons
    BY <2>1, <2>2, FlagsColon DEF Colons, FlagsInv
  <2> QED BY <2>1, <2>2, FlagsOther, FlagsExit DEF FlagsInv
<1>2. ASSUME NEW w, NEW n, Fail(w, n)
      PROVE  FlagsInv'
  <2>1. ret' \in ErrorCode
    BY <1>2, FailCode DEF CompilerInv, TablesOK
  <2> QED BY <2>1 DEF ErrorCode, FlagsInv
<1>3. CASE Finish
  BY <1>3 DEF Finish, FlagsInv
<1>4. CASE FinishEarly
  BY <1>4 DEF FinishEarly, Abandon, FlagsInv
<1>5. CASE UNCHANGED vars
  BY <1>5 DEF vars, code, FlagsInv, FlagsHere
<1> QED BY <1>1, <1>2, <1>3, <1>4, <1>5, NextCases

(* Every entry of a finished word has an exit of the word behind it.       *)
LEMMA LeavesBehind ==
    ASSUME NEW N, NEW e, NEW s, Whole(N, e, s), NEW f \in 1..N, NEW j \in 1..N, InBody(e, f, j)
    PROVE  \E x \in Leaves(N, e, f) : j <= x
<1> DEFINE T == {y \in j..(N + 1) : ~InBody(e, f, y)}
<1>1. /\ N \in Nat \ {0} /\ Seams(N + 1, e) /\ ~Inside(e, N + 1)
  BY DEF Whole
<1>2. N + 1 \in T
  <2>1. f <= N + 1 /\ N + 1 \in f..(N + 1) /\ N + 1 \in j..(N + 1)
    BY <1>1
  <2> QED BY <2>1, <1>1 DEF InBody
<1>3. PICK y \in T : \A m \in T : y <= m
  <2>1. T \in SUBSET Nat
    BY <1>1
  <2> HIDE DEF T
  <2> QED BY <1>2, <2>1, LeastElement
<1>4. y \in j..(N + 1) /\ ~InBody(e, f, y) /\ y # j
  BY <1>3
<1> DEFINE x == y - 1
<1>5. x \in 1..N /\ j <= x /\ y = x + 1 /\ y \in 2..(N + 1) /\ x \in j..(N + 1) /\ y - 1 = x
  BY <1>1, <1>4
<1>6. x \notin T
  <2>1. ~(y <= x)
    BY <1>5
  <2> QED BY <2>1, <1>3
<1>7. InBody(e, f, x)
  BY <1>5, <1>6
<1> HIDE DEF T, x
<1>8. Inside(e, x) /\ f <= x
  BY <1>5, <1>7 DEF InBody
<1>9. Seam(e, y)
  <2> SUFFICES ASSUME ~Seam(e, y)
               PROVE  InBody(e, f, y)
    BY <1>4
  <2>1. Inside(e, y) /\ e[y].op # "DEFINED_WORD_LOCATION"
    BY <1>5, <1>8 DEF Seam
  <2>2. \A i \in f..y : i \in f..x \/ i = y
    BY <1>5, <1>8
  <2>3. f <= y
    BY <1>5, <1>8
  <2> QED BY <2>1, <2>2, <2>3, <1>7 DEF InBody
<1>10. e[x].op = "EXIT_WORD"
  BY <1>1, <1>5, <1>8, <1>9 DEF Seams
<1> QED BY <1>5, <1>7, <1>10 DEF Leaves

(* The body of a word, in the finished code.                               *)
LEMMA FinalBody ==
    ASSUME FinalCode, NEW N, NEW e, NEW s, NEW p, Finished(N, e, s, p),
           NEW f \in 1..N, e[f].op = "DEFINED_WORD_LOCATION", s[f] = f, NEW j \in 1..(N + 1)
    PROVE  sequence[Region(p[j])] = f <=> InBody(e, f, j)
<1> DEFINE H == N + 1
<1>1. /\ Whole(N, e, s) /\ Moves(H, e, p, Code(frags, sequence)) /\ N \in Nat \ {0}
      /\ Kinds(N, e) /\ Len(sequence) = H /\ H \in Nat
  BY DEF Finished, Whole
<1>2. \A k \in 1..H : p[k] \in 1..H /\ sequence[p[k]] = s[k]
  BY <1>1 DEF Moves, Finished
<1>3. \A k \in 1..H : s[k] = f => k = f
  <2> SUFFICES ASSUME NEW k \in 1..H, s[k] = f
               PROVE  k = f
    OBVIOUS
  <2>1. f \in 1..H
    BY <1>1
  <2>2. sequence[p[k]] = sequence[p[f]] /\ p[k] \in 1..H /\ p[f] \in 1..H
    BY <2>1, <1>2
  <2>3. p[k] = p[f]
    BY <2>2, <1>1 DEF FinalCode, CodeOK, Placed, Once
  <2> QED BY <2>1, <2>3, <1>1 DEF Moves
<1>4. /\ ~Inside(e, j) => Region(p[j]) = 1
      /\ \A h \in 1..j : InBody(e, h, j) => Region(p[j]) = p[h]
      /\ Inside(e, j) => \E h \in 1..j : InBody(e, h, j)
  BY Final
<1>5. 1 \in 1..H /\ 1 \in 1..N /\ p[1] = 1 /\ f # 1
  <2>1. 1 \in 1..N /\ 1 \in 1..H
    BY <1>1
  <2>2. e[1].op = "ENTRY"
    BY <2>1, <1>1 DEF Kinds
  <2>3. Kinds(N, e) /\ Moves(H, e, p, Code(frags, sequence)) /\ N \in Nat \ {0} /\ N + 1 = H
    BY <1>1
  <2>4. p[1] = 1
    <3>1. Whole(N, e, s) /\ Moves(N + 1, e, p, Code(frags, sequence))
      BY <1>1
    <3> HIDE DEF H
    <3> QED BY <2>1, <2>3, <3>1, MovesFirst
  <2> QED BY <2>1, <2>2, <2>4
<1> HIDE DEF H
<1>6. CASE ~Inside(e, j)
  <2>1. sequence[Region(p[j])] = s[1]
    BY <1>2, <1>4, <1>5, <1>6
  <2>2. s[1] # f
    BY <1>3, <1>5
  <2>3. ~InBody(e, f, j)
    <3>1. InBody(e, f, j) => j \in f..j
      BY <1>1 DEF InBody, H
    <3> QED BY <3>1, <1>6 DEF InBody
  <2> QED BY <2>1, <2>2, <2>3
<1>7. CASE Inside(e, j)
  <2>1. PICK h \in 1..j : InBody(e, h, j)
    BY <1>4, <1>7
  <2>2. h \in 1..H /\ j \in 1..H /\ f \in 1..H
    BY <1>1 DEF H
  <2>3. sequence[Region(p[j])] = s[h]
    BY <2>1, <2>2, <1>2, <1>4
  <2>4. s[h] = f <=> h = f
    BY <2>2, <1>3
  <2>5. InBody(e, f, j) => h = f
    BY <2>1, <2>2, <1>1, BodyOnce
  <2> QED BY <2>1, <2>3, <2>4, <2>5
<1> QED BY <1>6, <1>7

(* The compiled code is finished code, and the flags are those of its      *)
(* words.                                                                  *)
FinalFlags ==
    ret = "compiled" => \E N, e, s, p : Finished(N, e, s, p) /\ FlagsIn(N, e, s, words)

(* The end of the source leaves the flags as they are.                     *)
LEMMA FinishFlags ==
    ASSUME CompilerInv, TypeInv, TypeInv', ShapeInv, FlagsInv, Finish
    PROVE  FinalFlags'
<1> DEFINE N == Len(sequence)
           s == Emitted1
           e == Code(frags', s)
           p == Places(frags', s)
<1>1. /\ Whole(N, e, s) /\ \A k \in 1..N : e[k] = Code(frags, sequence)[k] /\ s[k] = sequence[k]
  BY FinishMoves
<1>2. FinishedIn(frags', sequence', N, e, s, p)
  BY FinishMoves, ReorderedFinishes
<1>3. words' = words /\ ret = "reading"
  BY DEF Finish
<1>4. FlagsIn(N, Code(frags, sequence), sequence, words)
  BY <1>3 DEF FlagsInv, FlagsHere
<1> HIDE DEF N, s, e, p
<1>5. N \in Nat /\ N <= N
  BY <1>1 DEF Whole
<1>6. ASSUME NEW n \in 1..Len(words)
      PROVE  /\ words[n].frag \in 1..N /\ e[words[n].frag].op = "DEFINED_WORD_LOCATION"
             /\ s[words[n].frag] = words[n].frag /\ Flagged(N, e, words[n].frag, words[n].flags)
  <2>1. /\ words[n].frag \in 1..N
        /\ Code(frags, sequence)[words[n].frag].op = "DEFINED_WORD_LOCATION"
        /\ sequence[words[n].frag] = words[n].frag
        /\ Flagged(N, Code(frags, sequence), words[n].frag, words[n].flags)
    BY <1>4 DEF FlagsIn
  <2>2. Flagged(N, e, words[n].frag, words[n].flags)
    BY <2>1, <1>1, <1>5, FlaggedSame
  <2> QED BY <2>1, <2>2, <1>1
<1>7. FlagsIn(N, e, s, words)
  BY <1>4, <1>6 DEF FlagsIn
<1>8. \A K, d, t, q : FinishedIn(frags', sequence', K, d, t, q) => Finished(K, d, t, q)'
  BY DEF FinishedIn, Finished
<1>9. \A K, d, t : FlagsIn(K, d, t, words) => FlagsIn(K, d, t, words)'
  BY <1>3 DEF FlagsIn
<1> QED BY <1>2, <1>7, <1>8, <1>9 DEF FinalFlags

(* Every step leaves it so.                                                *)
LEMMA NextFinalFlags ==
    ASSUME CompilerInv, TypeInv, TypeInv', ShapeInv, FlagsInv, FinalFlags, [Next]_vars
    PROVE  FinalFlags'
<1>1. CASE Finish
  BY <1>1, FinishFlags
<1>2. CASE UNCHANGED vars
  <2>1. /\ frags' = frags /\ sequence' = sequence /\ ret' = ret /\ words' = words
    BY <1>2 DEF vars, code
  <2>2. \A N, e, s, p : Finished(N, e, s, p) <=> FinishedIn(frags, sequence, N, e, s, p)
    BY DEF FinishedIn, Finished
  <2>3. \A N, e, s, p : FinishedIn(frags', sequence', N, e, s, p) => Finished(N, e, s, p)'
    BY DEF FinishedIn, Finished
  <2>4. \A N, e, s : FlagsIn(N, e, s, words) => FlagsIn(N, e, s, words)'
    BY <2>1 DEF FlagsIn
  <2> QED BY <2>1, <2>2, <2>3, <2>4 DEF FinalFlags
<1>3. CASE ret' # "compiled"
  BY <1>3 DEF FinalFlags
<1> QED BY <1>1, <1>2, <1>3, CompiledNow

(* So FlagsExact holds.                                                    *)
LEMMA FinalFlagsExact ==
    ASSUME FinalCode, TablesOK, NEW N, NEW e, NEW s, NEW p,
           Finished(N, e, s, p), FlagsIn(N, e, s, words)
    PROVE  FlagsExact
<1> DEFINE H == N + 1
<1>1. Whole(N, e, s) /\ N \in Nat \ {0} /\ H \in Nat /\ ~Inside(e, H)
  BY DEF Finished, Whole
<1>2. /\ DOMAIN sequence = 1..H
      /\ \A k \in 1..H : /\ p[k] \in 1..H /\ Op(p[k]) = e[k].op /\ Depth(p[k]) = Nest(e, k)
  <2>1. H \in 1..H
    BY <1>1
  <2> QED BY <2>1, Final
<1>3. \A i \in DOMAIN sequence : \E k \in 1..H : p[k] = i
  BY FinalPlaces
<1>4. DOMAIN words = 1..Len(words)
  BY LenProperties DEF TablesOK
<1> SUFFICES ASSUME NEW n \in 1..Len(words)
             PROVE  LET body == {k \in DOMAIN sequence : sequence[Region(k)] = words[n].frag}
                    IN  /\ "calls" \in words[n].flags <=>
                                TracksLr /\ \E k \in body : UsesLr(Op(k))
                        /\ "loops" \in words[n].flags <=>
                                \E k \in body : Op(k) = "EXIT_WORD" /\ Depth(k) > 0
  BY <1>4 DEF FlagsExact
<1> DEFINE f == words[n].frag
           body == {k \in DOMAIN sequence : sequence[Region(k)] = f}
<1>5. /\ f \in 1..N /\ e[f].op = "DEFINED_WORD_LOCATION" /\ s[f] = f
      /\ Flagged(N, e, f, words[n].flags)
  BY DEF FlagsIn
<1> HIDE DEF f
<1>6. \A j \in 1..H : p[j] \in body <=> InBody(e, f, j)
  <2>1. \A j \in 1..H : sequence[Region(p[j])] = f <=> InBody(e, f, j)
    BY <1>5, FinalBody
  <2> QED BY <2>1, <1>2
<1>7. body \subseteq 1..H
  BY <1>2
<1> HIDE DEF body
<1>8. \A j \in 1..H : InBody(e, f, j) => j \in 1..N
  <2> SUFFICES ASSUME NEW j \in 1..H, InBody(e, f, j)
               PROVE  j \in 1..N
    OBVIOUS
  <2>1. Inside(e, j)
    <3>1. j \in f..j
      BY <1>5 DEF InBody
    <3> QED BY <3>1 DEF InBody
  <2>2. j # H
    BY <2>1, <1>1
  <2> QED BY <2>2, <1>1
<1>9. \A x \in Leaves(N, e, f) : x \in 1..H /\ x \in 1..N /\ InBody(e, f, x) /\ e[x].op = "EXIT_WORD"
  BY <1>1 DEF Leaves
<1>10. (\E k \in body : UsesLr(Op(k))) <=> \E x \in Leaves(N, e, f) : \E k \in f..x : UsesLr(e[k].op)
  <2>1. ASSUME NEW i \in body, UsesLr(Op(i))
        PROVE  \E x \in Leaves(N, e, f) : \E k \in f..x : UsesLr(e[k].op)
    <3>1. PICK j \in 1..H : p[j] = i
      BY <1>2, <1>3, <1>7
    <3>2. InBody(e, f, j) /\ UsesLr(e[j].op)
      BY <2>1, <3>1, <1>2, <1>6
    <3>3. j \in 1..N
      BY <3>2, <1>8
    <3>4. PICK x \in Leaves(N, e, f) : j <= x
      BY <3>2, <3>3, <1>1, <1>5, LeavesBehind
    <3>5. j \in f..x
      <4>1. f <= j
        BY <3>2 DEF InBody
      <4> QED BY <3>3, <3>4, <4>1, <1>5, <1>9
    <3> QED BY <3>2, <3>5
  <2>2. ASSUME NEW x \in Leaves(N, e, f), NEW k \in f..x, UsesLr(e[k].op)
        PROVE  \E i \in body : UsesLr(Op(i))
    <3>1. x \in 1..N /\ InBody(e, f, x)
      BY <1>9
    <3>2. k \in 1..H
      BY <3>1, <1>1, <1>5
    <3>3. InBody(e, f, k)
      BY <3>1, <1>1, <1>5, BodyFront
    <3> QED BY <2>2, <3>2, <3>3, <1>2, <1>6
  <2> QED BY <2>1, <2>2
<1>11. (\E k \in body : Op(k) = "EXIT_WORD" /\ Depth(k) > 0) <=> \E x \in Leaves(N, e, f) : Nest(e, x) > 0
  <2>1. ASSUME NEW i \in body, Op(i) = "EXIT_WORD", Depth(i) > 0
        PROVE  \E x \in Leaves(N, e, f) : Nest(e, x) > 0
    <3>1. PICK j \in 1..H : p[j] = i
      BY <1>2, <1>3, <1>7
    <3>2. InBody(e, f, j) /\ e[j].op = "EXIT_WORD" /\ Nest(e, j) > 0
      BY <2>1, <3>1, <1>2, <1>6
    <3>3. j \in Leaves(N, e, f)
      BY <3>2, <1>8 DEF Leaves
    <3> QED BY <3>2, <3>3
  <2>2. ASSUME NEW x \in Leaves(N, e, f), Nest(e, x) > 0
        PROVE  \E i \in body : Op(i) = "EXIT_WORD" /\ Depth(i) > 0
    <3>1. p[x] \in body /\ Op(p[x]) = "EXIT_WORD" /\ Depth(p[x]) > 0
      BY <2>2, <1>2, <1>6, <1>9
    <3> QED BY <3>1
  <2> QED BY <2>1, <2>2
<1>12. /\ "calls" \in words[n].flags <=> TracksLr /\ \E k \in body : UsesLr(Op(k))
       /\ "loops" \in words[n].flags <=> \E k \in body : Op(k) = "EXIT_WORD" /\ Depth(k) > 0
  BY <1>5, <1>10, <1>11 DEF Flagged
<1> QED BY <1>12 DEF body, f

(* A word has the flag "calls", from which the ESP32-S3 backend knows that *)
(* its prologue must save the link register, exactly when something in it  *)
(* uses that register, and "loops" exactly when an exit leaves a loop.     *)
THEOREM FlagsAreExact == Spec => []FlagsExact
<1>1. Init => FlagsInv /\ FinalFlags
  <2>1. Init => words = <<>> /\ Len(words) = 0 /\ ret = "reading"
    BY NoTables DEF Init
  <2>2. words = <<>> => 1..Len(words) = {}
    BY NoTables
  <2> QED BY <2>1, <2>2 DEF FlagsInv, FlagsHere, FlagsIn, FinalFlags
<1>2. CompilerInv /\ TypeInv /\ TypeInv' /\ ShapeInv /\ FlagsInv /\ FinalFlags /\ [Next]_vars =>
        FlagsInv' /\ FinalFlags'
  BY NextFlags, NextFinalFlags
<1>3. TypeInv /\ FinalCode => TypeInv
  OBVIOUS
<1>4. CompilerInv /\ TypeInv /\ FinalCode /\ FinalFlags => FlagsExact
  <2> SUFFICES ASSUME CompilerInv, TypeInv, FinalCode, FinalFlags, ret = "compiled"
               PROVE  FlagsExact
    BY DEF FlagsExact
  <2>1. PICK N, e, s, p : Finished(N, e, s, p) /\ FlagsIn(N, e, s, words)
    BY DEF FinalFlags
  <2> QED BY <2>1, FinalFlagsExact DEF CompilerInv
<1> QED BY <1>1, <1>2, <1>3, <1>4, CodeFits, CompilerInvariant, CompilerTypes, PTL DEF Spec

-----------------------------------------------------------------------------
(* String literals.                                                        *)

(* A string of the data segment is not moved by the ones behind it.        *)
LEMMA OffsetsStay ==
    ASSUME NEW data \in Seq(Strings), NEW more \in Seq(Strings), Prefix(data, more),
           NEW k \in 1..Len(data)
    PROVE  /\ k \in 1..Len(more) /\ more[k] = data[k]
           /\ Offset(more, k) = Offset(data, k)
<1>1. /\ Len(data) \in Nat /\ Len(more) \in Nat /\ Len(data) <= Len(more)
      /\ \A j \in 1..Len(data) : more[j] = data[j]
  <2>1. PICK m \in Nat : Extends(data, more, m)
    BY DEF Prefix
  <2> QED BY <2>1, LenProperties DEF Extends
<1> DEFINE Bad == {j \in 1..Len(data) : Offset(more, j) # Offset(data, j)}
<1>2. ASSUME Bad # {}
      PROVE  FALSE
  <2>1. Bad \in SUBSET Nat
    OBVIOUS
  <2> HIDE DEF Bad
  <2>2. PICK j \in Bad : \A m \in Bad : j <= m
    BY <1>2, <2>1, LeastElement
  <2>3. j \in 1..Len(data) /\ Offset(more, j) # Offset(data, j)
    BY <2>2 DEF Bad
  <2>4. j # 1
    BY <2>3, Offsets
  <2> DEFINE i == j - 1
  <2>5. i \in 1..Len(data) /\ i \in 1..Len(more) /\ i + 1 = j /\ i < j
    BY <1>1, <2>3, <2>4
  <2> HIDE DEF i
  <2>6. /\ Offset(data, i + 1) = Offset(data, i) + Length(data[i]) + 1
        /\ Offset(more, i + 1) = Offset(more, i) + Length(more[i]) + 1
    BY <2>5, Offsets
  <2>7. i \notin Bad
    <3>1. i \in Nat /\ j \in Nat
      BY <1>1, <2>3, <2>5
    <3> QED BY <2>2, <2>5, <3>1
  <2>8. Offset(more, i) = Offset(data, i) /\ more[i] = data[i]
    BY <1>1, <2>5, <2>7 DEF Bad
  <2> QED BY <2>3, <2>5, <2>6, <2>8
<1> QED BY <1>1, <1>2

(* Each string, its terminating zero included, ends where the next begins. *)
LEMMA OffsetsApart ==
    ASSUME NEW data \in Seq(Strings), NEW j \in 1..Len(data), NEW k \in 1..Len(data), j < k
    PROVE  /\ Offset(data, j) \in Nat /\ Offset(data, k) \in Nat /\ Length(data[j]) \in Nat
           /\ Offset(data, j) + Length(data[j]) < Offset(data, k)
<1>1. Len(data) \in Nat /\ \A m \in 1..Len(data) : data[m] \in Strings
  BY LenProperties
<1>2. \A m \in 1..Len(data) : Length(data[m]) \in Nat /\ Offset(data, m) \in Nat
  BY <1>1, Offsets, CompilerAssumption
<1> DEFINE end == Offset(data, j) + Length(data[j])
           Bad == {m \in (j + 1)..Len(data) : ~(end < Offset(data, m))}
<1>3. end \in Nat
  BY <1>2
<1>4. ASSUME Bad # {}
      PROVE  FALSE
  <2>1. Bad \in SUBSET Nat
    BY <1>1
  <2> HIDE DEF Bad
  <2>2. PICK m \in Bad : \A n \in Bad : m <= n
    BY <1>4, <2>1, LeastElement
  <2>3. m \in (j + 1)..Len(data) /\ ~(end < Offset(data, m))
    BY <2>2 DEF Bad
  <2> DEFINE i == m - 1
  <2>4. i \in 1..Len(data) /\ i + 1 = m /\ i < m /\ (i = j \/ i \in (j + 1)..Len(data))
    BY <1>1, <2>3
  <2> HIDE DEF i
  <2>5. Offset(data, m) = Offset(data, i) + Length(data[i]) + 1
    BY <2>4, Offsets
  <2>6. CASE i = j
    <3> HIDE DEF end
    <3>1. Offset(data, m) = end + 1
      BY <2>5, <2>6 DEF end
    <3> QED BY <1>3, <2>3, <3>1
  <2>7. CASE i # j
    <3>1. i \notin Bad
      <4>1. i \in Nat /\ m \in Nat
        BY <1>1, <2>3, <2>4
      <4> QED BY <2>2, <2>4, <4>1
    <3> HIDE DEF end
    <3>2. end < Offset(data, i)
      BY <2>4, <2>7, <3>1 DEF Bad
    <3>3. Length(data[i]) \in Nat /\ Offset(data, i) \in Nat
      BY <1>2, <2>4
    <3> QED BY <1>3, <2>3, <2>5, <3>2, <3>3
  <2> QED BY <2>6, <2>7
<1>5. k \in (j + 1)..Len(data)
  BY <1>1
<1> QED BY <1>2, <1>4, <1>5

(* Two strings share all their bytes, or none.                             *)
LEMMA BytesApart ==
    ASSUME NEW data \in Seq(Strings), NEW j \in 1..Len(data), NEW k \in 1..Len(data)
    PROVE  LET bytes(m) == Offset(data, m)..(Offset(data, m) + Length(data[m]))
           IN  bytes(j) = bytes(k) \/ bytes(j) \cap bytes(k) = {}
<1>1. Len(data) \in Nat
  BY LenProperties
<1>2. /\ Offset(data, j) \in Nat /\ Length(data[j]) \in Nat
      /\ Offset(data, k) \in Nat /\ Length(data[k]) \in Nat
  <2>1. data[j] \in Strings /\ data[k] \in Strings
    BY LenProperties
  <2> QED BY <1>1, <2>1, Offsets, CompilerAssumption
<1>3. CASE j = k
  BY <1>3
<1>4. CASE j < k
  <2>1. Offset(data, j) + Length(data[j]) < Offset(data, k)
    BY <1>4, OffsetsApart
  <2> QED BY <1>2, <2>1
<1>5. CASE k < j
  <2>1. Offset(data, k) + Length(data[k]) < Offset(data, j)
    BY <1>5, OffsetsApart
  <2> QED BY <1>2, <2>1
<1> QED BY <1>1, <1>3, <1>4, <1>5

(* The entry at k pushes the address of a string, and the one behind it,   *)
(* in the same part of the code, its length.                               *)
Spelled(e, k, strs) ==
    /\ e[k + 1].op = "PUSH_LITERAL" /\ e[k + 1].inWord = e[k].inWord
    /\ \E m \in 1..Len(strs) : e[k].param = Offset(strs, m) /\ e[k + 1].param = Length(strs[m])

(* Every entry up to N that pushes a string's address does.                *)
StringsIn(N, e, strs) == \A k \in 1..N :
    e[k].op = "PUSH_DATA_ADDRESS" => k + 1 \in 1..N /\ Spelled(e, k, strs)

(* The string literals of the code.                                        *)
StringsInv == StringsIn(Len(sequence), Code(frags, sequence), strings)

(* Strings added behind the others do not change what was compiled.        *)
LEMMA SpelledStay ==
    ASSUME NEW strs \in Seq(Strings), NEW more \in Seq(Strings), Prefix(strs, more),
           NEW e, NEW g, NEW k, g[k] = e[k], g[k + 1] = e[k + 1], Spelled(e, k, strs)
    PROVE  Spelled(g, k, more)
<1>1. PICK m \in 1..Len(strs) : e[k].param = Offset(strs, m) /\ e[k + 1].param = Length(strs[m])
  BY DEF Spelled
<1>2. m \in 1..Len(more) /\ more[m] = strs[m] /\ Offset(more, m) = Offset(strs, m)
  BY OffsetsStay
<1>3. g[k].param = Offset(more, m) /\ g[k + 1].param = Length(more[m])
  BY <1>1, <1>2
<1> QED BY <1>2, <1>3 DEF Spelled

(* A place in the table is a place of every string that is found in it.    *)
LEMMA FoundSpelled ==
    ASSUME NEW strs, AnySeq(strs), NEW t, NEW e, NEW k,
           e[k].param = Offset(Intern(strs, t), Find(Intern(strs, t), t)),
           e[k + 1].op = "PUSH_LITERAL", e[k + 1].inWord = e[k].inWord, e[k + 1].param = Length(t)
    PROVE  Spelled(e, k, Intern(strs, t))
<1> DEFINE more == Intern(strs, t)
           m == Find(more, t)
<1>1. AnySeq(more) /\ t \in Elems(more)
  BY Interned
<1>2. e[k].param = Offset(more, m)
  OBVIOUS
<1> HIDE DEF more
<1>3. m \in 1..Len(more) /\ more[m] = t
  BY <1>1, FindFirst
<1>4. Spelled(e, k, more)
  BY <1>2, <1>3 DEF Spelled
<1> QED BY <1>4 DEF more

(* Two literals share their bytes entirely or not at all.                  *)
LEMMA SpelledApart ==
    ASSUME NEW strs \in Seq(Strings), NEW e, NEW j, NEW k, Spelled(e, j, strs), Spelled(e, k, strs)
    PROVE  LET bytes(i) == e[i].param..(e[i].param + e[i + 1].param)
           IN  bytes(j) = bytes(k) \/ bytes(j) \cap bytes(k) = {}
<1>1. PICK m \in 1..Len(strs) : e[j].param = Offset(strs, m) /\ e[j + 1].param = Length(strs[m])
  BY DEF Spelled
<1>2. PICK n \in 1..Len(strs) : e[k].param = Offset(strs, n) /\ e[k + 1].param = Length(strs[n])
  BY DEF Spelled
<1>3. LET bytes(i) == Offset(strs, i)..(Offset(strs, i) + Length(strs[i]))
      IN  bytes(m) = bytes(n) \/ bytes(m) \cap bytes(n) = {}
  BY BytesApart
<1> QED BY <1>1, <1>2, <1>3

(* So StringAddresses is what is known of the code.                        *)
LEMMA StringsAddressed ==
    ASSUME StringsInv, sequence \in Seq(Nat), strings \in Seq(Strings)
    PROVE  StringAddresses
<1> DEFINE N == Len(sequence)
           e == Code(frags, sequence)
           pushes == {k \in DOMAIN sequence : Op(k) = "PUSH_DATA_ADDRESS"}
           bytes(k) == Param(k)..(Param(k) + Param(k + 1))
<1>1. N \in Nat /\ DOMAIN sequence = 1..N
  BY LenProperties
<1>2. \A k \in 1..N : Op(k) = e[k].op /\ Param(k) = e[k].param
  BY DEF Op, Param, Code
<1>3. StringsIn(N, e, strings)
  BY DEF StringsInv
<1> HIDE DEF e, N
<1>4. \A k \in pushes : /\ k \in 1..N /\ k + 1 \in 1..N /\ Spelled(e, k, strings)
                        /\ e[k + 1].op = "PUSH_LITERAL"
  BY <1>1, <1>2, <1>3 DEF StringsIn, Spelled
<1>5. ASSUME NEW k \in pushes
      PROVE  Region(k + 1) = Region(k)
  <2>1. k \in Nat /\ k + 1 \notin Starts
    BY <1>1, <1>2, <1>4 DEF Starts
  <2>2. Starts \subseteq Nat
    BY <1>1 DEF Starts
  <2>3. \A s \in Starts : s <= k + 1 <=> s <= k
    BY <2>1, <2>2
  <2>4. \A s \in Starts : (s <= k + 1 /\ \A m \in Starts : m <= k + 1 => m <= s)
                      <=> (s <= k /\ \A m \in Starts : m <= k => m <= s)
    BY <2>3
  <2> QED BY ONLY <2>4, Zenon DEF Region
<1>6. ASSUME NEW k \in pushes, NEW m \in pushes
      PROVE  bytes(k) = bytes(m) \/ bytes(k) \cap bytes(m) = {}
  <2>1. /\ Param(k) = e[k].param /\ Param(k + 1) = e[k + 1].param
        /\ Param(m) = e[m].param /\ Param(m + 1) = e[m + 1].param
    BY <1>2, <1>4
  <2>2. Spelled(e, k, strings) /\ Spelled(e, m, strings)
    BY <1>4
  <2>3. LET b(i) == e[i].param..(e[i].param + e[i + 1].param)
        IN  b(k) = b(m) \/ b(k) \cap b(m) = {}
    BY <2>2, SpelledApart
  <2> QED BY <2>1, <2>3
<1> QED BY <1>2, <1>4, <1>5, <1>6 DEF StringAddresses

(* What StringsInv says of the next state.                                 *)
LEMMA StringsNow ==
    ASSUME StringsIn(Len(sequence'), Emitted, strings')
    PROVE  StringsInv'
  BY DEF StringsInv, Emitted

(* The table of strings, and what a word adds to it.                       *)
LEMMA StringsGrow ==
    ASSUME TypeInv, Compiles
    PROVE  /\ strings \in Seq(Strings) /\ strings' \in Seq(Strings)
           /\ AnySeq(strings) /\ Prefix(strings, strings')
<1>1. AnySeq(strings) /\ Elems(strings) \subseteq Strings
  BY DEF TypeInv
<1>2. AnySeq(strings') /\ Elems(strings') \subseteq Strings
  BY <1>1, CompilesStrings
<1>3. strings' = strings \/ \E s \in Strings : strings' = Intern(strings, s)
  BY DEF Compiles, UseName, UseBuiltin, UseRuntime, Plain, Skip, Declare, Colon,
         Tick, CTick, Semicolon, Exit, Recurse, Comment, String, If, Then, Else, Do,
         Loop, Begin, Until, While, Repeat, Again, Forward, Backward, Control, tables
<1>4. Prefix(strings, strings')
  BY <1>1, <1>3, Interned, Itself
<1>5. \A t : AnySeq(t) /\ Elems(t) \subseteq Strings => t \in Seq(Strings)
  <2> SUFFICES ASSUME NEW t, t \in Seq(Elems(t)), Elems(t) \subseteq Strings
               PROVE  t \in Seq(Strings)
    BY DEF AnySeq
  <2>1. /\ Len(t) \in Nat /\ t \in [1..Len(t) -> Elems(t)]
    BY LenProperties
  <2>2. t \in [1..Len(t) -> Strings]
    BY <2>1
  <2> QED BY <2>1, <2>2
<1> QED BY <1>1, <1>2, <1>4, <1>5

(* The literals there were are still there, side by side.                  *)
LEMMA StringsKept ==
    ASSUME Shaping, StringsInv, NEW k \in 1..Len(sequence), Emitted[k].op = "PUSH_DATA_ADDRESS"
    PROVE  k + 1 \in 1..Len(sequence') /\ Spelled(Emitted, k, strings')
<1> DEFINE N == Len(sequence)
           e == Code(frags, sequence)
<1>1. /\ N \in Nat \ {0} /\ Len(sequence') \in Nat /\ N <= Len(sequence')
      /\ \A i \in 1..N : Emitted[i] = e[i]
  BY SameSoFar
<1>2. /\ strings \in Seq(Strings) /\ strings' \in Seq(Strings) /\ Prefix(strings, strings')
  BY StringsGrow DEF Shaping, Reading
<1>3. StringsIn(N, e, strings)
  BY DEF StringsInv
<1> HIDE DEF N, e
<1>4. k \in 1..N
  BY DEF N
<1>5. k + 1 \in 1..N /\ Spelled(e, k, strings)
  BY <1>1, <1>3, <1>4 DEF StringsIn
<1>6. Emitted[k] = e[k] /\ Emitted[k + 1] = e[k + 1]
  BY <1>1, <1>4, <1>5
<1>7. Spelled(Emitted, k, strings')
  BY <1>2, <1>5, <1>6, SpelledStay
<1> QED BY <1>1, <1>5, <1>7

(* Words that are no string literals add no address of a string.           *)
LEMMA StringsOther ==
    ASSUME Shaping, StringsInv, ~Literals
    PROVE  StringsInv'
<1>1. ASSUME NEW k \in 1..Len(sequence'), Emitted[k].op = "PUSH_DATA_ADDRESS"
      PROVE  k \in 1..Len(sequence)
  <2> SUFFICES ASSUME k \notin 1..Len(sequence)
               PROVE  FALSE
    OBVIOUS
  <2>1. CASE ~Colons
    <3>1. Newly(Emitted[k]) \/ Emitted[k].op = "BRANCH_LOCATION"
      BY <2>1, NewEntries DEF Shaping
    <3> QED BY <1>1, <3>1 DEF Newly
  <2>2. CASE Colons
    <3>1. PICK n \in Names : Colon(n)
      BY <2>2 DEF Colons
    <3>2. CodeOK(frags, sequence, cf)
      BY DEF Shaping, Reading
    <3>3. Len(sequence') = Len(sequence) + 1 /\ Len(sequence) \in Nat
      BY <3>1, <3>2, ColonCode, SameSoFar
    <3>4. k = Len(sequence) + 1
      BY <3>3
    <3>5. FitsNow(cf, TRUE, Len(sequence) + 1)
      BY <3>1, ColonFits
    <3>6. InBody(Emitted, Len(sequence) + 1, Len(sequence'))
      BY <3>5 DEF FitsNow, Fits, Regional, Ends
    <3>7. Emitted[k].op = "DEFINED_WORD_LOCATION"
      BY <3>4, <3>6 DEF InBody
    <3> QED BY <1>1, <3>7
  <2> QED BY <2>1, <2>2
<1>2. StringsIn(Len(sequence'), Emitted, strings')
  BY <1>1, StringsKept DEF StringsIn
<1> QED BY <1>2, StringsNow

(* A literal of new fragments.                                             *)
LEMMA StringsAdded ==
    ASSUME Shaping, StringsInv, NEW t, strings' = Intern(strings, t),
           NEW new, AnySeq(new), Len(new) \in Nat, Len(new) > 1, Emit(new),
           new[1].param = Offset(strings', Find(strings', t)),
           new[2].op = "PUSH_LITERAL", new[2].inWord = new[1].inWord, new[2].param = Length(t),
           \A i \in 2..Len(new) : new[i].op # "PUSH_DATA_ADDRESS"
    PROVE  StringsInv'
<1> DEFINE N == Len(sequence)
           M == Len(sequence')
<1>1. /\ M = N + Len(new) /\ N \in Nat
      /\ \A i \in 1..Len(new) : Emitted[N + i] = new[i]
  BY EmitFits
<1>2. AnySeq(strings)
  BY DEF Shaping, Reading, TypeInv
<1>3. 1 \in 1..Len(new) /\ 2 \in 1..Len(new) /\ (N + 1) + 1 = N + 2
  BY <1>1
<1>4. Emitted[N + 1] = new[1] /\ Emitted[(N + 1) + 1] = new[2]
  BY <1>1, <1>3
<1> HIDE DEF N, M
<1>5. Spelled(Emitted, N + 1, Intern(strings, t))
  <2> DEFINE k == N + 1
  <2>1. /\ Emitted[k].param = Offset(Intern(strings, t), Find(Intern(strings, t), t))
        /\ Emitted[k + 1].op = "PUSH_LITERAL" /\ Emitted[k + 1].inWord = Emitted[k].inWord
        /\ Emitted[k + 1].param = Length(t)
    BY <1>4
  <2> HIDE DEF k
  <2>2. Spelled(Emitted, k, Intern(strings, t))
    BY <1>2, <2>1, FoundSpelled
  <2> QED BY <2>2 DEF k
<1>6. ASSUME NEW k \in 1..M, Emitted[k].op = "PUSH_DATA_ADDRESS"
      PROVE  k + 1 \in 1..M /\ Spelled(Emitted, k, strings')
  <2>1. CASE k \in 1..N
    BY <1>6, <2>1, StringsKept DEF N, M
  <2>2. CASE k \notin 1..N
    <3> DEFINE i == k - N
    <3>1. i \in 1..Len(new) /\ N + i = k
      BY <1>1, <2>2
    <3> HIDE DEF i
    <3>2. i = 1
      BY <1>1, <1>6, <3>1
    <3>3. k = N + 1 /\ k + 1 \in 1..M
      BY <1>1, <1>3, <3>1, <3>2
    <3> QED BY <1>5, <3>3
  <2> QED BY <2>1, <2>2
<1>7. StringsIn(M, Emitted, strings')
  BY <1>6 DEF StringsIn
<1> QED BY <1>7, StringsNow DEF M

(* A string literal.                                                       *)
LEMMA StringsLiteral ==
    ASSUME Shaping, StringsInv, NEW w, NEW t, String(w, t)
    PROVE  StringsInv'
<1> DEFINE a == Frag("PUSH_DATA_ADDRESS", Offset(strings', Find(strings', t)))
           b == Frag("PUSH_LITERAL", Length(t))
           c == Frag("RUNTIME_WORD", Find(runtime', "type"))
<1>1. /\ a.op = "PUSH_DATA_ADDRESS" /\ a.param = Offset(strings', Find(strings', t))
      /\ b.op = "PUSH_LITERAL" /\ b.param = Length(t) /\ b.inWord = a.inWord
      /\ c.op = "RUNTIME_WORD"
  BY DEF Frag
<1>2. Emit(<<a, b>> \o IF w = ".\"" THEN <<c>> ELSE <<>>) /\ strings' = Intern(strings, t)
  BY DEF String
<1> HIDE DEF a, b, c
<1>3. <<a, b>> \o <<c>> = <<a, b, c>> /\ <<a, b>> \o <<>> = <<a, b>>
  BY Concats
<1>4. CASE w = ".\""
  <2> DEFINE new == <<a, b, c>>
  <2>1. Emit(new)
    BY <1>2, <1>3, <1>4
  <2>2. AnySeq(new) /\ Len(new) = 3 /\ new[1] = a /\ new[2] = b /\ new[3] = c
    BY Tuples
  <2> HIDE DEF new
  <2>3. Len(new) \in Nat /\ Len(new) > 1 /\ \A i \in 2..Len(new) : i = 2 \/ i = 3
    BY <2>2
  <2>4. \A i \in 2..Len(new) : new[i].op # "PUSH_DATA_ADDRESS"
    BY <1>1, <2>2, <2>3
  <2> QED BY <1>1, <1>2, <2>1, <2>2, <2>3, <2>4, StringsAdded
<1>5. CASE w # ".\""
  <2> DEFINE new == <<a, b>>
  <2>1. Emit(new)
    BY <1>2, <1>3, <1>5
  <2>2. AnySeq(new) /\ Len(new) = 2 /\ new[1] = a /\ new[2] = b
    BY Tuples
  <2> HIDE DEF new
  <2>3. Len(new) \in Nat /\ Len(new) > 1 /\ \A i \in 2..Len(new) : i = 2
    BY <2>2
  <2>4. \A i \in 2..Len(new) : new[i].op # "PUSH_DATA_ADDRESS"
    BY <1>1, <2>2, <2>3
  <2> QED BY <1>1, <1>2, <2>1, <2>2, <2>3, <2>4, StringsAdded
<1> QED BY <1>4, <1>5

(* The move keeps a literal's two entries side by side: they are in one    *)
(* part of the code.                                                       *)
LEMMA StringsMoved ==
    ASSUME NEW N, NEW e, NEW s, NEW p, NEW g, Whole(N, e, s), Moves(N + 1, e, p, g),
           NEW strs, StringsIn(N, e, strs)
    PROVE  StringsIn(N + 1, g, strs)
<1>1. N \in Nat /\ e[N + 1].op = "HALT"
  BY DEF Whole
<1> DEFINE H == N + 1
<1>2. H \in Nat /\ \A k \in 1..H : k \in 1..N \/ k = H
  BY <1>1
<1>3. /\ \A k \in 1..H : p[k] \in 1..H /\ g[p[k]] = e[k]
      /\ \A i \in 1..H : \E k \in 1..H : p[k] = i
  BY DEF Moves
<1>4. ASSUME NEW j \in 1..H, NEW k \in 1..H, k = j + 1, Inside(e, j) <=> Inside(e, k)
      PROVE  p[k] = p[j] + 1
  BY <1>4, MovesTogether
<1> HIDE DEF H
<1>5. e[H].op = "HALT"
  BY <1>1 DEF H
<1>6. ASSUME NEW i \in 1..H, g[i].op = "PUSH_DATA_ADDRESS"
      PROVE  i + 1 \in 1..H /\ Spelled(g, i, strs)
  <2>1. PICK k \in 1..H : p[k] = i
    BY <1>3
  <2>2. g[i] = e[k]
    BY <2>1, <1>3
  <2>3. k \in 1..N
    BY <1>2, <1>5, <1>6, <2>2
  <2>4. k + 1 \in 1..N /\ Spelled(e, k, strs)
    BY <1>6, <2>2, <2>3 DEF StringsIn
  <2>5. k + 1 \in 1..H
    BY <1>1, <2>4 DEF H
  <2>6. Inside(e, k) <=> Inside(e, k + 1)
    BY <2>4 DEF Spelled, Inside
  <2>7. p[k + 1] = i + 1
    BY <1>4, <2>1, <2>5, <2>6
  <2>8. i + 1 \in 1..H /\ g[i + 1] = e[k + 1]
    BY <1>3, <2>5, <2>7
  <2>9. Spelled(g, i, strs)
    BY <2>2, <2>4, <2>8 DEF Spelled
  <2> QED BY <2>8, <2>9
<1>7. StringsIn(H, g, strs)
  BY <1>6 DEF StringsIn
<1> QED BY <1>7 DEF H

(* The end of the source leaves the literals as they are.                  *)
LEMMA StringsFinish ==
    ASSUME CompilerInv, TypeInv, TypeInv', ShapeInv, StringsInv, Finish
    PROVE  StringsInv'
<1> DEFINE N == Len(sequence)
           s == Emitted1
           e == Code(frags', s)
           p == Places(frags', s)
           g == Code(frags', sequence')
<1>1. Whole(N, e, s) /\ \A k \in 1..N : e[k] = Code(frags, sequence)[k]
  BY FinishMoves
<1>2. FinishedIn(frags', sequence', N, e, s, p)
  BY FinishMoves, ReorderedFinishes
<1>3. Moves(N + 1, e, p, g) /\ Len(sequence') = N + 1
  BY <1>2 DEF FinishedIn
<1>4. strings' = strings
  BY DEF Finish, tables
<1>5. StringsIn(N, Code(frags, sequence), strings)
  BY DEF StringsInv
<1> HIDE DEF N, s, e, p
<1>6. StringsIn(N, e, strings)
  BY <1>1, <1>5 DEF StringsIn, Spelled
<1>7. StringsIn(N + 1, g, strings)
  BY <1>1, <1>3, <1>6, StringsMoved
<1>8. StringsIn(Len(sequence'), Emitted, strings')
  BY <1>3, <1>4, <1>7 DEF Emitted
<1> QED BY <1>8, StringsNow

(* Every step leaves the literals as they are.                             *)
LEMMA NextStrings ==
    ASSUME CompilerInv, TypeInv, TypeInv', ShapeInv, StringsInv, [Next]_vars
    PROVE  StringsInv'
<1>1. ASSUME Compiles
      PROVE  StringsInv'
  <2>1. Shaping
    BY <1>1, ReadingNow, CompilesReads DEF Shaping, ShapeInv
  <2> QED BY <2>1, StringsOther, StringsLiteral DEF Literals
<1>2. ASSUME NEW error, Abandon(error)
      PROVE  StringsInv'
  <2>1. sequence' = <<>> /\ Len(<<>>) = 0
    BY <1>2, NoTables DEF Abandon
  <2>2. StringsIn(0, Emitted, strings')
    BY DEF StringsIn
  <2> QED BY <2>1, <2>2, StringsNow
<1>3. ASSUME NEW w, NEW n, Fail(w, n)
      PROVE  StringsInv'
  BY <1>2, <1>3, FailCode DEF CompilerInv, TablesOK
<1>4. CASE Finish
  BY <1>4, StringsFinish
<1>5. CASE FinishEarly
  BY <1>2, <1>5 DEF FinishEarly
<1>6. CASE UNCHANGED vars
  BY <1>6 DEF vars, code, tables, StringsInv
<1> QED BY <1>1, <1>3, <1>4, <1>5, <1>6, NextCases

(* A string literal pushes an address and the length that belongs to it,   *)
(* side by side also after the main program has moved, and two literals    *)
(* share their bytes, terminating zero included, entirely or not at all.   *)
THEOREM StringsAreAddressed == Spec => []StringAddresses
<1>1. Init => StringsInv
  <2> SUFFICES ASSUME Init
               PROVE  StringsInv
    OBVIOUS
  <2>1. sequence = <<1>> /\ Len(sequence) = 1 /\ sequence[1] = 1 /\ frags[1].op = "ENTRY"
    BY DEF Init
  <2>2. Code(frags, sequence)[1].op = "ENTRY"
    BY <2>1 DEF Code
  <2>3. StringsIn(1, Code(frags, sequence), strings)
    BY <2>2 DEF StringsIn
  <2> QED BY <2>1, <2>3 DEF StringsInv
<1>2. CompilerInv /\ TypeInv /\ TypeInv' /\ ShapeInv /\ StringsInv /\ [Next]_vars => StringsInv'
  BY NextStrings
<1>3. TypeInv /\ FinalCode /\ StringsInv => StringAddresses
  <2> SUFFICES ASSUME TypeInv, FinalCode, StringsInv
               PROVE  StringAddresses
    OBVIOUS
  <2>1. sequence \in Seq(Nat)
    BY DEF FinalCode, CodeOK, Placed, Shapes
  <2>2. strings \in Seq(Strings)
    <3>1. strings \in Seq(Elems(strings)) /\ Elems(strings) \subseteq Strings
      BY DEF TypeInv, AnySeq
    <3>2. Len(strings) \in Nat /\ strings \in [1..Len(strings) -> Strings]
      BY <3>1, LenProperties
    <3> QED BY <3>2
  <2> QED BY <2>1, <2>2, StringsAddressed
<1>4. TypeInv /\ FinalCode => TypeInv
  OBVIOUS
<1> QED BY <1>1, <1>2, <1>3, <1>4, CodeFits, CompilerInvariant, CompilerTypes, PTL DEF Spec

=============================================================================
