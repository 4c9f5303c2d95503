--------------------------- MODULE CompilerProofs ---------------------------
(***************************************************************************)
(* Theorems about Compiler, for every vocabulary, every set of names and   *)
(* signatures and every length of the source: lemmas on plain sequences    *)
(* and on single words of the source, the inductive invariant, and what    *)
(* follows from it.  The shape of the code emitted is the matter of        *)
(* CompilerShape.                                                          *)
(***************************************************************************)
EXTENDS Compiler, Integers, FiniteSetTheorems, SequenceTheorems, TLAPS

-----------------------------------------------------------------------------
(* The fragments, their emission order and the control-flow stack as plain *)
(* sequences, what pushing, popping and emitting does to them, and the     *)
(* first entry of a name table.  Then single words of the source: what has *)
(* been checked when a word is accepted, and that every word that compiles *)
(* leaves the code and the stack in order.                                 *)

(* The constructs whose branch target is emitted by the word that closes   *)
(* them.                                                                   *)
Owing == {"IF", "ELSE", "WHILE"}

(* An entry of the control-flow stack.                                     *)
Construct == [type : Owing \cup {"DO", "BEGIN"}, frag : Nat]

(* The entries of the stack that owe a target.                             *)
Owes(c) == {k \in 1..Len(c) : c[k].type \in Owing}

(* n fragments, s the sequence they are emitted in, c the stack.           *)
Shapes(n, s, c) ==
    n \in Nat /\ s \in Seq(Nat) /\ Len(s) \in Nat /\ c \in Seq(Construct) /\ Len(c) \in Nat

(* No fragment is emitted twice.                                           *)
Once(n, s) == /\ \A j \in 1..Len(s) : s[j] \in 1..n
              /\ \A j, k \in 1..Len(s) : s[j] = s[k] => j = k

(* No target is owed twice.                                                *)
OwedOnce(n, c) == /\ \A k \in Owes(c) : c[k].frag \in 1..n
                  /\ \A j, k \in Owes(c) : c[j].frag = c[k].frag => j = k

(* No target that is owed is emitted.                                      *)
Apart(s, c) == \A k \in Owes(c), j \in 1..Len(s) : c[k].frag # s[j]
Emits(s, f) == \E j \in 1..Len(s) : s[j] = f
OwesFragment(c, f) == \E k \in Owes(c) : c[k].frag = f

(* Every fragment is emitted or owed, once.                                *)
Placed(n, s, c) ==
    /\ Shapes(n, s, c) /\ Once(n, s) /\ OwedOnce(n, c) /\ Apart(s, c)
    /\ \A f \in 1..n : Emits(s, f) \/ OwesFragment(c, f)

(* t is s and m entries more.                                              *)
Extends(s, t, m) == /\ Len(t) = Len(s) + m
                    /\ \A i \in 1..Len(s) : t[i] = s[i]

(* Fragments created and emitted together at the end keep Placed.          *)
LEMMA PlaceNew ==
    ASSUME NEW n, NEW s, NEW c, Placed(n, s, c), NEW m \in Nat,
           NEW t \in Seq(Nat), Extends(s, t, m),
           \A i \in 1..m : t[Len(s) + i] = n + i
    PROVE  Placed(n + m, t, c)
<1>1. n \in Nat /\ s \in Seq(Nat) /\ Len(s) \in Nat /\ Len(t) = Len(s) + m
  BY DEF Placed, Shapes, Extends
<1>2. \A j \in 1..Len(s) : t[j] = s[j]
  BY DEF Extends
<1>3. \A j \in 1..Len(t) : j \in 1..Len(s) \/ (j - Len(s) \in 1..m /\ t[j] = n + (j - Len(s)))
  <2> SUFFICES ASSUME NEW j \in 1..Len(t), j \notin 1..Len(s)
               PROVE  j - Len(s) \in 1..m /\ t[j] = n + (j - Len(s))
    OBVIOUS
  <2>1. j - Len(s) \in 1..m /\ Len(s) + (j - Len(s)) = j
    BY <1>1
  <2> QED BY <2>1
<1>4. Once(n, s) /\ OwedOnce(n, c) /\ Apart(s, c)
  BY DEF Placed
<1>5. \A j \in 1..Len(t) : t[j] \in 1..(n + m)
  <2> SUFFICES ASSUME NEW j \in 1..Len(t)
               PROVE  t[j] \in 1..(n + m)
    OBVIOUS
  <2>1. CASE j \in 1..Len(s)
    <3>1. t[j] \in 1..n  BY <2>1, <1>2, <1>4 DEF Once
    <3> QED BY <3>1, <1>1
  <2>2. CASE j \notin 1..Len(s)
    <3> DEFINE i == j - Len(s)
    <3>1. i \in 1..m /\ t[j] = n + i  BY <2>2, <1>3
    <3> HIDE DEF i
    <3> QED BY <3>1, <1>1
  <2> QED BY <2>1, <2>2
<1>6. \A j, k \in 1..Len(t) : t[j] = t[k] => j = k
  <2> SUFFICES ASSUME NEW j \in 1..Len(t), NEW k \in 1..Len(t), t[j] = t[k]
               PROVE  j = k
    OBVIOUS
  <2>1. \A i \in 1..Len(s) : t[i] \in 1..n
    BY <1>2, <1>4 DEF Once
  <2>2. CASE j \in 1..Len(s) /\ k \in 1..Len(s)
    BY <2>2, <1>2, <1>4 DEF Once
  <2>3. CASE j \notin 1..Len(s) \/ k \notin 1..Len(s)
    BY <2>1, <2>3, <1>1, <1>3
  <2> QED BY <2>2, <2>3
<1>7. Apart(t, c)
  <2> SUFFICES ASSUME NEW k \in Owes(c), NEW j \in 1..Len(t)
               PROVE  c[k].frag # t[j]
    BY DEF Apart
  <2>1. c[k].frag \in 1..n
    BY <1>4 DEF OwedOnce
  <2>2. CASE j \in 1..Len(s)  BY <2>2, <1>2, <1>4 DEF Apart
  <2>3. CASE j \notin 1..Len(s)  BY <2>1, <2>3, <1>1, <1>3
  <2> QED BY <2>2, <2>3
<1>8. ASSUME NEW f \in 1..(n + m)
      PROVE  Emits(t, f) \/ OwesFragment(c, f)
  <2>1. CASE f \in 1..n
    <3>1. CASE Emits(s, f)
      <4>1. PICK j \in 1..Len(s) : s[j] = f  BY <3>1 DEF Emits
      <4>2. j \in 1..Len(t) /\ t[j] = f  BY <4>1, <1>1, <1>2
      <4> QED BY <4>2 DEF Emits
    <3> QED BY <2>1, <3>1 DEF Placed
  <2>2. CASE f \notin 1..n
    <3> DEFINE i == f - n
    <3>1. i \in 1..m /\ n + i = f /\ Len(s) + i \in 1..Len(t)
      BY <2>2, <1>1
    <3>2. t[Len(s) + i] = f
      BY <3>1
    <3> QED BY <3>1, <3>2 DEF Emits
  <2> QED BY <2>1, <2>2
<1>9. OwedOnce(n + m, c)
  BY <1>1, <1>4 DEF OwedOnce
<1>10. Shapes(n + m, t, c) /\ Once(n + m, t)
  BY <1>1, <1>5, <1>6 DEF Placed, Shapes, Once
<1> QED BY <1>7, <1>8, <1>9, <1>10 DEF Placed

(* What a push onto the control-flow stack leaves and adds.                *)
LEMMA Pushed ==
    ASSUME NEW c \in Seq(Construct), NEW e \in Construct
    PROVE  /\ Append(c, e) \in Seq(Construct) /\ Len(Append(c, e)) = Len(c) + 1
           /\ \A k \in 1..Len(c) : Append(c, e)[k] = c[k]
           /\ Append(c, e)[Len(c) + 1] = e
           /\ Owes(Append(c, e)) = Owes(c) \cup IF e.type \in Owing THEN {Len(c) + 1} ELSE {}
<1>1. /\ Append(c, e) \in Seq(Construct) /\ Len(Append(c, e)) = Len(c) + 1
      /\ \A k \in 1..Len(c) : Append(c, e)[k] = c[k]
      /\ Append(c, e)[Len(c) + 1] = e
      /\ Len(c) \in Nat
  BY AppendProperties, LenProperties
<1>2. \A k \in 1..(Len(c) + 1) : k \in 1..Len(c) \/ k = Len(c) + 1
  BY <1>1
<1> QED BY <1>1, <1>2 DEF Owes

(* What a pop from the control-flow stack leaves and takes.                *)
LEMMA Popped ==
    ASSUME NEW c \in Seq(Construct), c # <<>>
    PROVE  /\ Front(c) \in Seq(Construct) /\ Len(c) \in Nat \ {0}
           /\ Len(Front(c)) = Len(c) - 1
           /\ \A k \in 1..(Len(c) - 1) : Front(c)[k] = c[k]
           /\ Last(c) \in Construct
           /\ Owes(Front(c)) = Owes(c) \ {Len(c)}
<1>1. Len(c) \in Nat \ {0} /\ Last(c) \in Construct
  BY EmptySeq, ElementOfSeq DEF Last
<1>2. /\ Front(c) \in Seq(Construct) /\ Len(Front(c)) = Len(c) - 1
      /\ \A k \in 1..(Len(c) - 1) : Front(c)[k] = c[k]
  <2>1. \A k \in 1..(Len(c) - 1) : c[k] \in Construct
    BY <1>1, ElementOfSeq
  <2> DEFINE m == Len(c) - 1
  <2>2. m \in Int /\ 1 \in Int /\ m >= 0
    BY <1>1
  <2> HIDE DEF m
  <2>3. \A k \in 1..m : c[k] \in Construct
    BY <2>1 DEF m
  <2>4. /\ SubSeq(c, 1, m) \in Seq(Construct)
        /\ Len(SubSeq(c, 1, m)) = IF 1 <= m THEN m - 1 + 1 ELSE 0
        /\ \A k \in 1..(m - 1 + 1) : SubSeq(c, 1, m)[k] = c[1 + k - 1]
    BY <2>2, <2>3, SubSeqProperties
  <2>5. /\ SubSeq(c, 1, m) \in Seq(Construct) /\ Len(SubSeq(c, 1, m)) = m
        /\ \A k \in 1..m : SubSeq(c, 1, m)[k] = c[k]
    BY <2>2, <2>4
  <2> QED BY <2>5 DEF m, Front
<1> QED BY <1>1, <1>2 DEF Owes

(* Creating a branch target that is emitted later, and pushing the         *)
(* construct that owes it, keeps Placed.                                   *)
LEMMA Opened ==
    ASSUME NEW n, NEW s, NEW c, Placed(n, s, c),
           NEW e \in Construct, e.type \in Owing, e.frag = n + 1
    PROVE  Placed(n + 1, s, Append(c, e))
<1> DEFINE d == Append(c, e)
<1>1. Shapes(n, s, c) /\ Once(n, s) /\ OwedOnce(n, c) /\ Apart(s, c)
  BY DEF Placed
<1>2. n \in Nat /\ c \in Seq(Construct) /\ Len(c) \in Nat
  BY <1>1 DEF Shapes
<1>3. /\ d \in Seq(Construct) /\ Len(d) = Len(c) + 1 /\ d[Len(c) + 1].frag = n + 1
      /\ \A k \in 1..Len(c) : d[k] = c[k]
      /\ Owes(d) = Owes(c) \cup {Len(c) + 1}
  BY <1>2, Pushed
<1> HIDE DEF d
<1>4. \A k \in Owes(c) : k \in 1..Len(c) /\ d[k] = c[k] /\ d[k].frag \in 1..n
  BY <1>1, <1>3 DEF Owes, OwedOnce
<1>5. OwedOnce(n + 1, d)
  <2>1. \A k \in Owes(d) : d[k].frag \in 1..(n + 1)
    BY <1>2, <1>3, <1>4
  <2>2. ASSUME NEW j \in Owes(d), NEW k \in Owes(d), d[j].frag = d[k].frag
        PROVE  j = k
    <3>1. CASE j \in Owes(c) /\ k \in Owes(c)  BY <2>2, <3>1, <1>1, <1>4 DEF OwedOnce
    <3>2. CASE j \notin Owes(c) \/ k \notin Owes(c)  BY <2>2, <3>2, <1>2, <1>3, <1>4
    <3> QED BY <3>1, <3>2
  <2> QED BY <2>1, <2>2 DEF OwedOnce
<1>6. Apart(s, d)
  <2> SUFFICES ASSUME NEW k \in Owes(d), NEW j \in 1..Len(s)
               PROVE  d[k].frag # s[j]
    BY DEF Apart
  <2>1. s[j] \in 1..n
    BY <1>1 DEF Once
  <2>2. CASE k \in Owes(c)  BY <2>2, <1>1, <1>4 DEF Apart
  <2>3. CASE k = Len(c) + 1  BY <2>1, <2>3, <1>2, <1>3
  <2> QED BY <2>2, <2>3, <1>3
<1>7. ASSUME NEW f \in 1..(n + 1)
      PROVE  Emits(s, f) \/ OwesFragment(d, f)
  <2>1. CASE f = n + 1  BY <2>1, <1>3 DEF OwesFragment
  <2>2. CASE f \in 1..n
    <3>1. CASE OwesFragment(c, f)  BY <3>1, <1>3, <1>4 DEF OwesFragment
    <3> QED BY <2>2, <3>1 DEF Placed
  <2> QED BY <2>1, <2>2, <1>2
<1>8. Shapes(n + 1, s, d) /\ Once(n + 1, s)
  BY <1>1, <1>2, <1>3 DEF Shapes, Once
<1>9. Placed(n + 1, s, d)
  BY <1>5, <1>6, <1>7, <1>8 DEF Placed
<1> QED BY <1>9 DEF d

(* Placed only looks at the constructs of the stack that owe a target.     *)
LEMMA SameDebts ==
    ASSUME NEW n, NEW s, NEW c, Placed(n, s, c),
           NEW d \in Seq(Construct), Owes(d) = Owes(c),
           \A k \in Owes(c) : d[k] = c[k]
    PROVE  Placed(n, s, d)
<1>1. Len(d) \in Nat
  BY LenProperties
<1>2. \A f : OwesFragment(d, f) <=> OwesFragment(c, f)
  BY DEF OwesFragment
<1>3. OwedOnce(n, d) /\ Apart(s, d)
  BY DEF Placed, OwedOnce, Apart
<1>4. Shapes(n, s, d) /\ Once(n, s)
  BY <1>1 DEF Placed, Shapes
<1> QED BY <1>2, <1>3, <1>4 DEF Placed

(* Pushing a construct whose target is already emitted keeps Placed.       *)
LEMMA OpenedLoop ==
    ASSUME NEW n, NEW s, NEW c, Placed(n, s, c),
           NEW e \in Construct, e.type \notin Owing
    PROVE  Placed(n, s, Append(c, e))
<1>1. c \in Seq(Construct)
  BY DEF Placed, Shapes
<1>2. /\ Append(c, e) \in Seq(Construct)
      /\ \A k \in 1..Len(c) : Append(c, e)[k] = c[k]
      /\ Owes(Append(c, e)) = Owes(c)
  BY <1>1, Pushed
<1>3. \A k \in Owes(c) : Append(c, e)[k] = c[k]
  BY <1>2 DEF Owes
<1> QED BY <1>2, <1>3, SameDebts

(* Popping a construct whose target is already emitted keeps Placed.       *)
LEMMA ClosedLoop ==
    ASSUME NEW n, NEW s, NEW c, Placed(n, s, c), c # <<>>, Last(c).type \notin Owing
    PROVE  Placed(n, s, Front(c))
<1>1. c \in Seq(Construct)
  BY DEF Placed, Shapes
<1>2. /\ Front(c) \in Seq(Construct) /\ Len(c) \in Nat \ {0}
      /\ \A k \in 1..(Len(c) - 1) : Front(c)[k] = c[k]
      /\ Owes(Front(c)) = Owes(c) \ {Len(c)}
  BY <1>1, Popped
<1>3. \A k \in Owes(c) : k \in 1..(Len(c) - 1)
  BY <1>2 DEF Owes, Last
<1>4. Owes(Front(c)) = Owes(c) /\ \A k \in Owes(c) : Front(c)[k] = c[k]
  BY <1>2, <1>3
<1> QED BY <1>2, <1>4, SameDebts

(* Emitting the target of the innermost construct and popping it keeps     *)
(* Placed: the debt is paid.                                               *)
LEMMA Settled ==
    ASSUME NEW n, NEW s, NEW c, Placed(n, s, c), c # <<>>, Last(c).type \in Owing,
           NEW t \in Seq(Nat), Extends(s, t, 1), t[Len(s) + 1] = Last(c).frag
    PROVE  Placed(n, t, Front(c))
<1> DEFINE b == Front(c)
<1>1. Shapes(n, s, c) /\ Once(n, s) /\ OwedOnce(n, c) /\ Apart(s, c)
  BY DEF Placed
<1>2. n \in Nat /\ Len(s) \in Nat /\ c \in Seq(Construct)
  BY <1>1 DEF Shapes
<1>3. /\ b \in Seq(Construct) /\ Len(c) \in Nat \ {0} /\ Len(b) = Len(c) - 1
      /\ \A k \in 1..(Len(c) - 1) : b[k] = c[k]
      /\ Owes(b) = Owes(c) \ {Len(c)}
  BY <1>2, Popped
<1>4. Len(c) \in Owes(c)
  BY <1>3 DEF Owes, Last
<1> HIDE DEF b
<1>5. \A k \in Owes(b) : b[k] = c[k] /\ k \in Owes(c) /\ k # Len(c)
  BY <1>3 DEF Owes
<1>6. /\ Len(t) = Len(s) + 1 /\ \A j \in 1..Len(s) : t[j] = s[j]
      /\ t[Len(s) + 1] = c[Len(c)].frag
  BY DEF Extends, Last
<1>7. \A j \in 1..Len(t) : j \in 1..Len(s) \/ j = Len(s) + 1
  BY <1>6, <1>2
<1>8. Once(n, t)
  <2>1. \A j \in 1..Len(t) : t[j] \in 1..n
    BY <1>1, <1>4, <1>6, <1>7 DEF Once, OwedOnce
  <2>2. \A j \in 1..Len(s) : t[j] # t[Len(s) + 1]
    BY <1>1, <1>4, <1>6 DEF Apart
  <2>3. ASSUME NEW j \in 1..Len(t), NEW k \in 1..Len(t), t[j] = t[k]
        PROVE  j = k
    <3>1. CASE j \in 1..Len(s) /\ k \in 1..Len(s)  BY <2>3, <3>1, <1>1, <1>6 DEF Once
    <3>2. CASE j = Len(s) + 1 \/ k = Len(s) + 1  BY <2>2, <2>3, <3>2, <1>7
    <3> QED BY <3>1, <3>2, <1>7
  <2> QED BY <2>1, <2>3 DEF Once
<1>9. OwedOnce(n, b)
  BY <1>1, <1>5 DEF OwedOnce
<1>10. Apart(t, b)
  <2> SUFFICES ASSUME NEW k \in Owes(b), NEW j \in 1..Len(t)
               PROVE  b[k].frag # t[j]
    BY DEF Apart
  <2>1. CASE j \in 1..Len(s)  BY <2>1, <1>1, <1>5, <1>6 DEF Apart
  <2>2. CASE j = Len(s) + 1  BY <2>2, <1>1, <1>4, <1>5, <1>6 DEF OwedOnce
  <2> QED BY <2>1, <2>2, <1>7
<1>11. ASSUME NEW f \in 1..n
       PROVE  Emits(t, f) \/ OwesFragment(b, f)
  <2>1. CASE Emits(s, f)
    <3>1. PICK j \in 1..Len(s) : s[j] = f  BY <2>1 DEF Emits
    <3>2. j \in 1..Len(t) /\ t[j] = f  BY <3>1, <1>2, <1>6
    <3> QED BY <3>2 DEF Emits
  <2>2. CASE OwesFragment(c, f)
    <3>1. PICK k \in Owes(c) : c[k].frag = f  BY <2>2 DEF OwesFragment
    <3>2. CASE k = Len(c)
      <4>1. Len(s) + 1 \in 1..Len(t)  BY <1>2, <1>6
      <4> QED BY <4>1, <3>1, <3>2, <1>6 DEF Emits
    <3>3. CASE k # Len(c)
      <4>1. k \in Owes(b)  BY <3>3, <1>3
      <4> QED BY <4>1, <3>1, <1>5 DEF OwesFragment
    <3> QED BY <3>2, <3>3
  <2> QED BY <2>1, <2>2 DEF Placed
<1>12. Shapes(n, t, b)
  BY <1>2, <1>3, <1>6 DEF Shapes
<1>13. Placed(n, t, b)
  BY <1>8, <1>9, <1>10, <1>11, <1>12 DEF Placed
<1> QED BY <1>13 DEF b

(* Placed does not depend on the order of two emitted fragments.           *)
LEMMA Swapped ==
    ASSUME NEW n, NEW s, NEW c, Placed(n, s, c), NEW t \in Seq(Nat), Len(t) = Len(s),
           NEW a \in 1..Len(s), NEW b \in 1..Len(s), t[a] = s[b], t[b] = s[a],
           \A k \in 1..Len(s) : k # a /\ k # b => t[k] = s[k]
    PROVE  Placed(n, t, c)
<1>1. Shapes(n, t, c) /\ OwedOnce(n, c)
  BY DEF Placed, Shapes
<1> DEFINE p == [k \in 1..Len(s) |-> IF k = a THEN b ELSE IF k = b THEN a ELSE k]
<1>2. \A k \in 1..Len(s) : p[k] \in 1..Len(s) /\ t[k] = s[p[k]] /\ p[p[k]] = k
  OBVIOUS
<1> HIDE DEF p
<1>3. Once(n, t)
  <2>1. Once(n, s)
    BY DEF Placed
  <2>2. ASSUME NEW j \in 1..Len(t), NEW k \in 1..Len(t), t[j] = t[k]
        PROVE  j = k
    <3>1. p[j] = p[k]
      <4>1. s[p[j]] = s[p[k]] /\ p[j] \in 1..Len(s) /\ p[k] \in 1..Len(s)
        BY <1>2, <2>2
      <4> QED BY <4>1, <2>1 DEF Once
    <3>2. p[p[j]] = p[p[k]]
      BY <3>1
    <3>3. p[p[j]] = j /\ p[p[k]] = k
      <4>1. j \in 1..Len(s) /\ k \in 1..Len(s)
        OBVIOUS
      <4> QED BY <4>1, <1>2
    <3> QED BY <3>2, <3>3
  <2>3. \A j \in 1..Len(t) : t[j] \in 1..n
    BY <1>2, <2>1 DEF Once
  <2> QED BY <2>2, <2>3 DEF Once
<1>4. Apart(t, c)
  BY <1>2 DEF Placed, Apart
<1>5. \A f : Emits(s, f) => Emits(t, f)
  <2> SUFFICES ASSUME NEW k \in 1..Len(s)
               PROVE  \E j \in 1..Len(t) : t[j] = s[k]
    BY DEF Emits
  <2>1. t[p[k]] = s[p[p[k]]] /\ p[k] \in 1..Len(t)
    BY <1>2
  <2> QED BY <2>1, <1>2
<1> QED BY <1>1, <1>3, <1>4, <1>5 DEF Placed

(* With no construct open, as many fragments are emitted as exist.         *)
LEMMA AllPlaced ==
    ASSUME NEW n, NEW s, Placed(n, s, <<>>)
    PROVE  Len(s) = n
<1>1. n \in Nat /\ s \in Seq(Nat) /\ Len(s) \in Nat /\ Once(n, s)
  BY DEF Placed, Shapes
<1>2. \A f \in 1..n : \E j \in 1..Len(s) : s[j] = f
  <2>1. Owes(<<>>) = {}
    BY DEF Owes
  <2> QED BY <2>1 DEF Placed, Emits, OwesFragment
<1> DEFINE b == [j \in 1..Len(s) |-> s[j]]
<1>3. b \in Bijection(1..Len(s), 1..n)
  BY <1>1, <1>2 DEF Bijection, Injection, Surjection, IsInjective, Once
<1>4. ASSUME NEW m \in Nat
      PROVE  IsFiniteSet(1..m) /\ Cardinality(1..m) = m
  <2>1. IsFiniteSet(1..m) /\ Cardinality(1..m) = IF 1 > m THEN 0 ELSE m - 1 + 1
    BY FS_Interval
  <2> QED BY <2>1
<1>5. Cardinality(1..Len(s)) = Cardinality(1..n)
  <2> HIDE DEF b
  <2>1. ExistsBijection(1..Len(s), 1..n) /\ IsFiniteSet(1..Len(s))
    BY <1>1, <1>3, <1>4 DEF ExistsBijection
  <2> QED BY <2>1, FS_Bijection
<1> QED BY <1>1, <1>4, <1>5

(* A nonempty set of naturals has a least element: the induction principle *)
(* the rest of the proofs uses.                                            *)
LEMMA LeastElement ==
    ASSUME NEW T \in SUBSET Nat, T # {}
    PROVE  \E k \in T : \A m \in T : k <= m
<1>1. \E k \in T : \A m \in T : ~ (<<m, k>> \in OpToRel(<, Nat))
  BY NatLessThanWellFounded, WFMin
<1>2. PICK k \in T : \A m \in T : ~ (<<m, k>> \in OpToRel(<, Nat))
  BY <1>1
<1>3. \A m \in T : ~ (m < k)
  BY <1>2 DEF OpToRel
<1> QED BY <1>3

(* s is a sequence, of whatever.                                           *)
AnySeq(s) == s \in Seq(Elems(s))

(* find_nstring returns the first entry with the name, if there is one.    *)
LEMMA FindFirst ==
    ASSUME NEW t, AnySeq(t), NEW n \in Elems(t)
    PROVE  /\ Find(t, n) \in 1..Len(t) /\ t[Find(t, n)] = n
           /\ \A m \in 1..(Find(t, n) - 1) : t[m] # n
<1>1. DOMAIN t = 1..Len(t) /\ Len(t) \in Nat
  BY LenProperties DEF AnySeq
<1> DEFINE T == {k \in 1..Len(t) : t[k] = n}
<1>2. T \in SUBSET Nat /\ T # {}
  BY <1>1 DEF Elems
<1>3. PICK k \in T : \A m \in T : k <= m
  BY <1>2, LeastElement
<1>4. \E j \in DOMAIN t : t[j] = n /\ \A m \in 1..(j - 1) : t[m] # n
  BY <1>1, <1>3
<1> DEFINE First(j) == t[j] = n /\ \A m \in 1..(j - 1) : t[m] # n
<1>5. Find(t, n) = CHOOSE j \in DOMAIN t : First(j)
  BY DEF Find
<1>6. \E j \in DOMAIN t : First(j)
  BY <1>4
<1> HIDE DEF First
<1>7. Find(t, n) \in DOMAIN t /\ First(Find(t, n))
  BY <1>5, <1>6
<1> QED BY <1>1, <1>7 DEF First
-----------------------------------------------------------------------------
(* What the concatenation of two sequences consists of.                    *)
LEMMA Joined ==
    ASSUME NEW s, AnySeq(s), NEW t, AnySeq(t)
    PROVE  /\ AnySeq(s \o t) /\ Len(s) \in Nat /\ Len(t) \in Nat
           /\ Extends(s, s \o t, Len(t))
           /\ \A i \in 1..Len(t) : (s \o t)[Len(s) + i] = t[i]
<1> DEFINE S == Elems(s) \cup Elems(t)
<1>1. s \in Seq(S) /\ t \in Seq(S)
  BY SeqMonotonic DEF AnySeq
<1> DEFINE u == s \o t
<1> HIDE DEF S, u
<1>2. /\ u \in Seq(S) /\ Len(u) = Len(s) + Len(t)
      /\ \A i \in 1..Len(s) + Len(t) : u[i] = IF i <= Len(s) THEN s[i] ELSE t[i - Len(s)]
  BY <1>1, ConcatProperties DEF u
<1>3. Len(s) \in Nat /\ Len(t) \in Nat
  BY <1>1, LenProperties
<1>4. AnySeq(u)
  <2>1. u \in [1..Len(u) -> S] /\ Len(u) \in Nat
    BY <1>2, LenProperties
  <2>2. u \in [1..Len(u) -> Elems(u)]
    BY <2>1 DEF Elems
  <2> QED BY <2>1, <2>2, SeqDef DEF AnySeq
<1>5. \A i \in 1..Len(s) : u[i] = s[i]
  BY <1>2, <1>3
<1>6. \A i \in 1..Len(t) : u[Len(s) + i] = t[i]
  <2> SUFFICES ASSUME NEW i \in 1..Len(t)
               PROVE  u[Len(s) + i] = t[i]
    OBVIOUS
  <2>1. Len(s) + i \in 1..(Len(s) + Len(t)) /\ ~(Len(s) + i <= Len(s)) /\ Len(s) + i - Len(s) = i
    BY <1>3
  <2> QED BY <2>1, <1>2
<1>7. Extends(s, u, Len(t))
  BY <1>2, <1>5 DEF Extends
<1> QED BY <1>3, <1>4, <1>6, <1>7 DEF u

(* A sequence over any set is a sequence over its elements.                *)
LEMMA SomeSeq ==
    ASSUME NEW S, NEW s \in Seq(S)
    PROVE  AnySeq(s)
<1>1. s \in [1..Len(s) -> S] /\ Len(s) \in Nat
  BY LenProperties
<1>2. s \in [1..Len(s) -> Elems(s)]
  BY <1>1 DEF Elems
<1> QED BY <1>1, <1>2, SeqDef DEF AnySeq

(* What appending to a sequence leaves and adds.                           *)
LEMMA Appended ==
    ASSUME NEW s, AnySeq(s), NEW x
    PROVE  /\ AnySeq(Append(s, x)) /\ Len(s) \in Nat
           /\ Extends(s, Append(s, x), 1)
           /\ Append(s, x)[Len(s) + 1] = x
<1> DEFINE S == Elems(s) \cup {x}
<1>1. s \in Seq(S) /\ x \in S
  BY SeqMonotonic DEF AnySeq
<1> HIDE DEF S
<1>2. /\ Append(s, x) \in Seq(S) /\ Len(Append(s, x)) = Len(s) + 1 /\ Len(s) \in Nat
      /\ \A i \in 1..Len(s) : Append(s, x)[i] = s[i]
      /\ Append(s, x)[Len(s) + 1] = x
  BY <1>1, AppendProperties, LenProperties
<1> QED BY <1>2, SomeSeq DEF Extends

(* Tuples of up to three elements are sequences, and their entries.        *)
LEMMA Tuples ==
    ASSUME NEW x, NEW y, NEW z
    PROVE  /\ AnySeq(<<>>) /\ Len(<<>>) = 0
           /\ AnySeq(<<x>>) /\ Len(<<x>>) = 1 /\ <<x>>[1] = x
           /\ AnySeq(<<x, y>>) /\ Len(<<x, y>>) = 2 /\ <<x, y>>[1] = x /\ <<x, y>>[2] = y
           /\ AnySeq(<<x, y, z>>) /\ Len(<<x, y, z>>) = 3
           /\ <<x, y, z>>[1] = x /\ <<x, y, z>>[2] = y /\ <<x, y, z>>[3] = z
<1>1. /\ <<>> \in Seq({x}) /\ <<x>> \in Seq({x}) /\ <<x, y>> \in Seq({x, y})
      /\ <<x, y, z>> \in Seq({x, y, z})
  OBVIOUS
<1> QED BY <1>1, SomeSeq

(* sequence_helper: the fragments of new are emitted at the end. *)
LEMMA EmitPlaces ==
    ASSUME NEW fs, AnySeq(fs), NEW s, NEW c, Placed(Len(fs), s, c), NEW new, AnySeq(new)
    PROVE  LET t == s \o [k \in 1..Len(new) |-> Len(fs) + k]
           IN  /\ AnySeq(fs \o new) /\ Extends(fs, fs \o new, Len(new))
               /\ \A i \in 1..Len(new) : (fs \o new)[Len(fs) + i] = new[i]
               /\ Placed(Len(fs \o new), t, c) /\ Extends(s, t, Len(new))
               /\ \A i \in 1..Len(new) : t[Len(s) + i] = Len(fs) + i
<1> DEFINE r == [k \in 1..Len(new) |-> Len(fs) + k]
           t == s \o r
<1>1. Len(fs) \in Nat /\ Len(new) \in Nat /\ s \in Seq(Nat)
  BY LenProperties DEF AnySeq, Placed, Shapes
<1>2. r \in Seq(Nat) /\ Len(r) = Len(new) /\ \A i \in 1..Len(new) : r[i] = Len(fs) + i
  <2>1. r \in [1..Len(new) -> Nat]
    BY <1>1
  <2> QED BY <1>1, <2>1, SeqDef
<1> HIDE DEF r
<1>3. t \in Seq(Nat)
  BY <1>1, <1>2, ConcatProperties
<1>4. Extends(s, t, Len(new)) /\ \A i \in 1..Len(new) : t[Len(s) + i] = Len(fs) + i
  BY <1>1, <1>2, SomeSeq, Joined, ZenonT(30)
<1>5. /\ AnySeq(fs \o new) /\ Extends(fs, fs \o new, Len(new))
      /\ \A i \in 1..Len(new) : (fs \o new)[Len(fs) + i] = new[i]
  BY Joined
<1>6. Len(fs \o new) = Len(fs) + Len(new)
  BY <1>5 DEF Extends
<1> HIDE DEF t
<1>7. Placed(Len(fs) + Len(new), t, c)
  BY <1>1, <1>3, <1>4, PlaceNew
<1> QED BY <1>4, <1>5, <1>6, <1>7 DEF t, r

-----------------------------------------------------------------------------
(* Which of the fragments s emits belong to a word is known.               *)
Parted(fs, s) == \A k \in 1..Len(s) : fs[s[k]].inWord \in BOOLEAN

(* The main program and the words in their order: a total order of the     *)
(* places of s.                                                            *)
LEMMA TotalOrder ==
    ASSUME NEW fs, NEW s, Len(s) \in Nat, Parted(fs, s),
           NEW i \in 1..Len(s), NEW j \in 1..Len(s), NEW k \in 1..Len(s)
    PROVE  /\ NoLater(fs, s, k, k)
           /\ NoLater(fs, s, j, k) \/ NoLater(fs, s, k, j)
           /\ NoLater(fs, s, j, k) /\ NoLater(fs, s, k, j) => j = k
           /\ NoLater(fs, s, i, j) /\ NoLater(fs, s, j, k) => NoLater(fs, s, i, k)
<1> DEFINE A(m) == fs[s[m]].inWord = TRUE
<1>1. \A m, l \in 1..Len(s) : /\ (A(m) <=> A(l)) => (NoLater(fs, s, m, l) <=> m <= l)
                              /\ A(m) /\ ~A(l) => ~NoLater(fs, s, m, l)
                              /\ ~A(m) /\ A(l) => NoLater(fs, s, m, l)
  BY DEF Parted, NoLater
<1> HIDE DEF A
<1>2. i \in Int /\ j \in Int /\ k \in Int
  OBVIOUS
<1>3. /\ NoLater(fs, s, k, k)
      /\ NoLater(fs, s, j, k) \/ NoLater(fs, s, k, j)
      /\ NoLater(fs, s, j, k) /\ NoLater(fs, s, k, j) => j = k
  BY <1>1, <1>2
<1>4. NoLater(fs, s, i, j) /\ NoLater(fs, s, j, k) => NoLater(fs, s, i, k)
  BY <1>1, <1>2
<1> QED BY <1>3, <1>4

(* The numbers up to n are n.                                              *)
LEMMA Numbers ==
    ASSUME NEW n \in Nat
    PROVE  IsFiniteSet(1..n) /\ Cardinality(1..n) = n
<1>1. IsFiniteSet(1..n) /\ Cardinality(1..n) = IF 1 > n THEN 0 ELSE n - 1 + 1
  BY FS_Interval
<1> QED BY <1>1

(* t has the entries of s, the one at k at p[k]; the main program comes    *)
(* first and both parts keep their order.                                  *)
Reorders(fs, s, p, t) ==
    /\ p \in [1..Len(s) -> 1..Len(s)]
    /\ \A j, k \in 1..Len(s) : p[j] = p[k] => j = k
    /\ \A i \in 1..Len(s) : \E k \in 1..Len(s) : p[k] = i
    /\ \A j, k \in 1..Len(s) : j # k /\ NoLater(fs, s, j, k) => p[j] < p[k]
    /\ Len(t) = Len(s) /\ \A k \in 1..Len(s) : t[p[k]] = s[k]

(* The places MainFirst moves the fragments to.                            *)
Places(fs, s) == [k \in 1..Len(s) |-> Place(fs, s, k)]

(* The place of a fragment is one of the sequence, and later than that of  *)
(* every fragment that comes before it.                                    *)
LEMMA PlaceOrder ==
    ASSUME NEW fs, NEW s \in Seq(Nat), Parted(fs, s)
    PROVE  /\ Places(fs, s) \in [1..Len(s) -> 1..Len(s)]
           /\ \A j, k \in 1..Len(s) :
                 j # k /\ NoLater(fs, s, j, k) => Places(fs, s)[j] < Places(fs, s)[k]
<1> DEFINE N == Len(s)
           D(k) == {m \in 1..N : NoLater(fs, s, m, k)}
<1>1. N \in Nat /\ DOMAIN s = 1..N
  BY LenProperties
<1>2. \A k \in 1..N : Place(fs, s, k) = Cardinality(D(k))
  BY <1>1 DEF Place
<1>3. ASSUME NEW k \in 1..N
      PROVE  /\ IsFiniteSet(D(k)) /\ Cardinality(D(k)) \in 1..N /\ k \in D(k)
  <2>1. D(k) \in SUBSET (1..N) /\ IsFiniteSet(1..N) /\ Cardinality(1..N) = N
    BY <1>1, Numbers
  <2>2. k \in D(k)
    BY <1>1, TotalOrder
  <2> DEFINE d == D(k)
  <2> HIDE DEF D, N, d
  <2>3. IsFiniteSet(d) /\ Cardinality(d) <= N
    BY <2>1, FS_Subset DEF d
  <2>4. Cardinality(d) \in Nat /\ Cardinality(d) # 0
    BY <2>2, <2>3, FS_CardinalityType, FS_EmptySet DEF d
  <2>5. Cardinality(d) \in 1..N
    BY <1>1, <2>3, <2>4
  <2> QED BY <2>2, <2>3, <2>5 DEF d
<1>4. ASSUME NEW j \in 1..N, NEW k \in 1..N, j # k, NoLater(fs, s, j, k)
      PROVE  Cardinality(D(j)) < Cardinality(D(k))
  <2>1. D(j) \in SUBSET D(k)
    BY <1>1, <1>4, TotalOrder
  <2>2. k \notin D(j)
    BY <1>1, <1>4, TotalOrder
  <2> HIDE DEF D
  <2>3. k \in D(k) /\ IsFiniteSet(D(k)) /\ Cardinality(D(k)) \in Nat /\ Cardinality(D(j)) \in Nat
    <3>1. Cardinality(D(k)) \in 1..N /\ Cardinality(D(j)) \in 1..N
      BY <1>3
    <3> QED BY <3>1, <1>3, SMTT(30)
  <2>4. Cardinality(D(j)) <= Cardinality(D(k)) /\ Cardinality(D(j)) # Cardinality(D(k))
    BY <2>1, <2>2, <2>3, FS_Subset
  <2> QED BY <2>3, <2>4
<1> HIDE DEF D
<1> QED BY <1>2, <1>3, <1>4 DEF Places

(* A function of 1..n into itself that takes no value twice takes every    *)
(* value.                                                                  *)
LEMMA TakesAll ==
    ASSUME NEW n \in Nat, NEW p \in [1..n -> 1..n], \A j, k \in 1..n : p[j] = p[k] => j = k,
           NEW i \in 1..n
    PROVE  \E k \in 1..n : p[k] = i
<1>1. p \in Injection(1..n, 1..n)
  BY DEF Injection, IsInjective
<1>2. p \in Surjection(1..n, 1..n)
  BY <1>1, Numbers, FS_Injection
<1> QED BY <1>2 DEF Surjection

(* The pass at the end of the source reorders.                             *)
LEMMA MainFirstReorders ==
    ASSUME NEW fs, NEW s \in Seq(Nat), Parted(fs, s)
    PROVE  /\ Reorders(fs, s, Places(fs, s), MainFirst(fs, s))
           /\ MainFirst(fs, s) \in Seq(Nat)
<1> DEFINE N == Len(s)
           p == Places(fs, s)
           t == MainFirst(fs, s)
<1>1. N \in Nat /\ DOMAIN s = 1..N /\ \A k \in 1..N : s[k] \in Nat
  BY LenProperties
<1>2. p \in [1..N -> 1..N]
      /\ \A j, k \in 1..N : j # k /\ NoLater(fs, s, j, k) => p[j] < p[k]
  BY PlaceOrder
<1>3. t = [i \in 1..N |-> s[CHOOSE k \in 1..N : p[k] = i]]
  BY <1>1 DEF MainFirst, Places
<1> HIDE DEF p, t
<1>4. \A j, k \in 1..N : p[j] = p[k] => j = k
  <2> SUFFICES ASSUME NEW j \in 1..N, NEW k \in 1..N, j # k
               PROVE  p[j] # p[k]
    OBVIOUS
  <2>1. NoLater(fs, s, j, k) \/ NoLater(fs, s, k, j)
    BY <1>1, TotalOrder
  <2>2. p[j] < p[k] \/ p[k] < p[j]
    BY <2>1, <1>2
  <2>3. p[j] \in Nat /\ p[k] \in Nat
    BY <1>2, SMTT(30)
  <2> QED BY <2>2, <2>3
<1> HIDE DEF N
<1>5. \A i \in 1..N : \E k \in 1..N : p[k] = i
  BY <1>1, <1>2, <1>4, TakesAll
<1>6. \A k \in 1..N : t[p[k]] = s[k]
  <2> SUFFICES ASSUME NEW k \in 1..N
               PROVE  t[p[k]] = s[k]
    OBVIOUS
  <2> DEFINE m == CHOOSE j \in 1..N : p[j] = p[k]
  <2>1. m \in 1..N /\ p[m] = p[k]
    OBVIOUS
  <2>2. m = k
    BY <2>1, <1>4
  <2>3. p[k] \in 1..N
    BY <1>2
  <2> QED BY <2>2, <2>3, <1>3
<1>7. \A i \in 1..N : (CHOOSE k \in 1..N : p[k] = i) \in 1..N
  BY <1>5
<1>8. t \in [1..N -> Nat]
  BY <1>1, <1>3, <1>7
<1>9. t \in Seq(Nat) /\ Len(t) = N
  BY <1>1, <1>8, SeqDef
<1> QED BY <1>2, <1>4, <1>5, <1>6, <1>9 DEF Reorders, p, t, N

(* Placed does not depend on the order of the emitted fragments.           *)
LEMMA Rearranged ==
    ASSUME NEW n, NEW s, NEW c, Placed(n, s, c), NEW t \in Seq(Nat), NEW fs, NEW p,
           Reorders(fs, s, p, t)
    PROVE  Placed(n, t, c)
<1>1. Shapes(n, t, c) /\ OwedOnce(n, c) /\ Once(n, s) /\ Apart(s, c)
  BY DEF Placed, Shapes, Reorders
<1>2. /\ Len(t) = Len(s) /\ \A k \in 1..Len(s) : p[k] \in 1..Len(s) /\ t[p[k]] = s[k]
      /\ \A i \in 1..Len(t) : \E k \in 1..Len(s) : i = p[k] /\ t[i] = s[k]
  <2>1. /\ p \in [1..Len(s) -> 1..Len(s)]
        /\ \A i \in 1..Len(s) : \E k \in 1..Len(s) : p[k] = i
        /\ Len(t) = Len(s) /\ \A k \in 1..Len(s) : t[p[k]] = s[k]
    BY DEF Reorders
  <2>2. ASSUME NEW i \in 1..Len(t)
        PROVE  \E k \in 1..Len(s) : i = p[k] /\ t[i] = s[k]
    <3>1. PICK k \in 1..Len(s) : p[k] = i
      BY <2>1
    <3> QED BY <2>1, <3>1
  <2> QED BY <2>1, <2>2
<1>3. Once(n, t)
  <2>1. \A i \in 1..Len(t) : t[i] \in 1..n
    BY <1>1, <1>2 DEF Once
  <2>2. ASSUME NEW i \in 1..Len(t), NEW j \in 1..Len(t), t[i] = t[j]
        PROVE  i = j
    <3>1. PICK k \in 1..Len(s) : i = p[k] /\ t[i] = s[k]
      BY <1>2
    <3>2. PICK m \in 1..Len(s) : j = p[m] /\ t[j] = s[m]
      BY <1>2
    <3>3. k = m
      BY <2>2, <3>1, <3>2, <1>1 DEF Once
    <3> QED BY <3>1, <3>2, <3>3
  <2> QED BY <2>1, <2>2 DEF Once
<1>4. Apart(t, c)
  BY <1>1, <1>2 DEF Apart
<1>5. \A f : Emits(s, f) => Emits(t, f)
  BY <1>2 DEF Emits
<1> QED BY <1>1, <1>3, <1>4, <1>5 DEF Placed

(* f sums d up to n.                                                       *)
Sums(f, n, d) ==
    /\ f \in [0..n -> Nat] /\ f[0] = 0
    /\ \A m \in 1..n : f[m] = f[m - 1] + d[m]

(* Every finite list of naturals can be summed.                            *)
LEMMA SumsExist ==
    ASSUME NEW N \in Nat, NEW d \in [1..N -> Nat]
    PROVE  \E f : Sums(f, N, d)
<1> DEFINE Bad == {n \in 0..N : ~ \E f : Sums(f, n, d)}
<1> SUFFICES ASSUME Bad # {} PROVE FALSE
  BY SMTT(30)
<1>1. PICK n \in Bad : \A m \in Bad : n <= m
  <2>1. Bad \in SUBSET Nat
    OBVIOUS
  <2> HIDE DEF Bad
  <2> QED BY <2>1, LeastElement
<1>2. n \in 0..N /\ ~ \E f : Sums(f, n, d)
  BY <1>1
<1>3. n # 0
  <2>1. Sums([m \in 0..0 |-> 0], 0, d)
    BY DEF Sums
  <2> QED BY <2>1, <1>2
<1>4. n - 1 \in 0..N /\ n - 1 \notin Bad /\ n \in 1..N
  BY <1>1, <1>2, <1>3
<1>5. PICK f : Sums(f, n - 1, d)
  BY <1>4
<1> DEFINE x == f[n - 1] + d[n]
           g == [m \in 0..n |-> IF m = n THEN x ELSE f[m]]
<1>6. /\ f \in [0..(n - 1) -> Nat] /\ f[0] = 0
      /\ \A m \in 1..(n - 1) : f[m] = f[m - 1] + d[m]
  BY <1>5 DEF Sums
<1>7. x \in Nat
  BY <1>4, <1>6
<1> HIDE DEF x
<1>8. g \in [0..n -> Nat] /\ g[0] = 0
  BY <1>3, <1>4, <1>6, <1>7
<1>9. ASSUME NEW m \in 1..n PROVE g[m] = g[m - 1] + d[m]
  <2>1. g[m - 1] = f[m - 1]
    BY <1>2
  <2>2. CASE m = n
    BY <2>1, <2>2 DEF x
  <2>3. CASE m # n
    <3>1. m \in 1..(n - 1) /\ g[m] = f[m]
      BY <2>3, <1>2
    <3> QED BY <3>1, <2>1, <1>6
  <2> QED BY <2>2, <2>3
<1> QED BY <1>8, <1>9, <1>2 DEF Sums

(* Where the strings of the data segment begin: the first one at its       *)
(* start, every other one behind the zero that ends the one before it.     *)
LEMMA Offsets ==
    ASSUME NEW data \in Seq(Strings)
    PROVE  /\ \A k \in 1..(Len(data) + 1) : Offset(data, k) \in Nat
           /\ Offset(data, 1) = 0
           /\ \A k \in 1..Len(data) :
                 Offset(data, k + 1) = Offset(data, k) + Length(data[k]) + 1
<1> DEFINE N == Len(data)
           d == [m \in 1..N |-> Length(data[m]) + 1]
           Eq(at) == at = [m \in 0..N |-> IF m = 0 THEN 0 ELSE at[m - 1] + Length(data[m]) + 1]
           F == CHOOSE at : Eq(at)
<1>1. N \in Nat /\ \A m \in 1..N : data[m] \in Strings
  BY LenProperties
<1>2. \A m \in 1..N : Length(data[m]) \in Nat
  BY <1>1, CompilerAssumption
<1>3. d \in [1..N -> Nat]
  BY <1>2
<1>4. \E f : Sums(f, N, d)
  <2> HIDE DEF d, N
  <2> QED BY <1>1, <1>3, SumsExist
<1>5. PICK f : Sums(f, N, d)
  BY <1>4
<1>6. /\ f \in [0..N -> Nat] /\ f[0] = 0
      /\ \A m \in 1..N : f[m] = f[m - 1] + d[m]
  BY <1>5 DEF Sums
<1>7. \A m \in 1..N : f[m] = f[m - 1] + Length(data[m]) + 1
  <2> SUFFICES ASSUME NEW m \in 1..N
               PROVE  f[m] = f[m - 1] + Length(data[m]) + 1
    OBVIOUS
  <2>0. m - 1 \in 0..N
    BY <1>1
  <2>1. f[m - 1] \in Nat /\ Length(data[m]) \in Nat
    BY <2>0, <1>2, <1>6
  <2>2. f[m] = f[m - 1] + (Length(data[m]) + 1)
    BY <1>6
  <2> QED BY <2>1, <2>2
<1>8. Eq(f)
  BY <1>1, <1>6, <1>7
<1>9. \A k : Offset(data, k) = F[k - 1]
  BY DEF Offset
<1> HIDE DEF Eq
<1>10. Eq(F)
  BY <1>8
<1> HIDE DEF F
<1>11. F = [m \in 0..N |-> IF m = 0 THEN 0 ELSE F[m - 1] + Length(data[m]) + 1]
  BY <1>10 DEF Eq
<1>12. F[0] = 0 /\ \A m \in 1..N : F[m] = F[m - 1] + Length(data[m]) + 1
  <2>1. F[0] = 0
    BY <1>1, <1>11
  <2>2. ASSUME NEW m \in 1..N
        PROVE  F[m] = F[m - 1] + Length(data[m]) + 1
    <3>1. m \in 0..N /\ m # 0
      BY <1>1
    <3> QED BY <3>1, <1>11
  <2> QED BY <2>1, <2>2
<1>13. \A m \in 0..N : F[m] \in Nat
  <2> DEFINE Bad == {m \in 0..N : F[m] \notin Nat}
  <2> SUFFICES ASSUME Bad # {} PROVE FALSE
    OBVIOUS
  <2>1. PICK m \in Bad : \A k \in Bad : m <= k
    <3>1. Bad \in SUBSET Nat
      OBVIOUS
    <3> HIDE DEF Bad
    <3> QED BY <3>1, LeastElement
  <2>2. m \in 0..N /\ F[m] \notin Nat /\ m # 0
    BY <2>1, <1>12
  <2>3. m \in 1..N /\ m - 1 \in 0..N /\ m - 1 \notin Bad
    BY <2>1, <2>2, <1>1
  <2>4. F[m - 1] \in Nat /\ Length(data[m]) \in Nat
    BY <2>3, <1>2
  <2>5. F[m] = F[m - 1] + Length(data[m]) + 1
    BY <2>3, <1>12
  <2> QED BY <2>2, <2>4, <2>5
<1>14. ASSUME NEW k \in 1..(N + 1)
       PROVE  Offset(data, k) \in Nat
  <2>1. k - 1 \in 0..N
    BY <1>1
  <2> QED BY <2>1, <1>9, <1>13
<1>15. Offset(data, 1) = 0
  <2>1. Offset(data, 1) = F[1 - 1]
    BY <1>9
  <2> QED BY <2>1, <1>12
<1>16. ASSUME NEW k \in 1..N
       PROVE  Offset(data, k + 1) = Offset(data, k) + Length(data[k]) + 1
  <2>1. Offset(data, k + 1) = F[k + 1 - 1] /\ Offset(data, k) = F[k - 1]
    BY <1>9
  <2>2. k + 1 - 1 = k
    OBVIOUS
  <2> QED BY <2>1, <2>2, <1>12
<1> QED BY <1>14, <1>15, <1>16

-----------------------------------------------------------------------------
(* The error codes the RASSERTs of the front end return.                   *)
ErrorCode == {"EARLY_END_OF_SOURCE", "WORD_REDEFINED", "WORD_USED_BEFORE_DEFINED",
    "VARIABLE_OR_CONSTANT_REDEFINED", "UNEXPECTED_CONTROL_FLOW_TERMINATOR",
    "WRONG_TERMINATOR_FOR_THIS_CONTROL_FLOW", "NOT_ALLOWED_OUTSIDE_WORD",
    "NOT_ALLOWED_INSIDE_WORD", "UNTERMINATED_CONTROL_FLOW", "UNEXPECTED_SEMICOLON",
    "TICK_COULD_NOT_FIND_DEFINED_WORD", "INVALID_PARENTHESIS_FOR_C_CALLBACK",
    "LOOP_INDEX_USED_OUTSIDE_LOOP"}
Check == BOOLEAN \X ErrorCode

(* A condition and an error code make a check.                             *)
LEMMA OneCheck == \A b \in BOOLEAN, e \in ErrorCode : <<b, e>> \in Check
  BY DEF Check

(* Every error code of the front end may stand in a check.                 *)
LEMMA EveryCode ==
    ASSUME NEW p \in BOOLEAN
    PROVE  /\ <<p, "EARLY_END_OF_SOURCE">> \in Check
           /\ <<p, "WORD_REDEFINED">> \in Check
           /\ <<p, "WORD_USED_BEFORE_DEFINED">> \in Check
           /\ <<p, "VARIABLE_OR_CONSTANT_REDEFINED">> \in Check
           /\ <<p, "UNEXPECTED_CONTROL_FLOW_TERMINATOR">> \in Check
           /\ <<p, "WRONG_TERMINATOR_FOR_THIS_CONTROL_FLOW">> \in Check
           /\ <<p, "NOT_ALLOWED_OUTSIDE_WORD">> \in Check
           /\ <<p, "NOT_ALLOWED_INSIDE_WORD">> \in Check
           /\ <<p, "UNTERMINATED_CONTROL_FLOW">> \in Check
           /\ <<p, "UNEXPECTED_SEMICOLON">> \in Check
           /\ <<p, "TICK_COULD_NOT_FIND_DEFINED_WORD">> \in Check
           /\ <<p, "INVALID_PARENTHESIS_FOR_C_CALLBACK">> \in Check
           /\ <<p, "LOOP_INDEX_USED_OUTSIDE_LOOP">> \in Check
  BY OneCheck DEF ErrorCode

(* Tuples of checks are sequences of checks.                               *)
LEMMA SomeChecks ==
    ASSUME NEW a \in Check, NEW b \in Check, NEW c \in Check, NEW d \in Check
    PROVE  /\ <<a>> \in Seq(Check) /\ <<a, b>> \in Seq(Check)
           /\ <<a, b, c>> \in Seq(Check) /\ <<a, b, c, d>> \in Seq(Check)
  OBVIOUS

(* The groups of RASSERTs the words share are sequences of checks.         *)
LEMMA Pieces ==
    ASSUME NEW n, defining \in BOOLEAN
    PROVE  /\ NewName(n) \in Seq(Check) /\ \A types : Closes(types) \in Seq(Check)
           /\ InWordOnly \in Seq(Check) /\ MainOnly \in Seq(Check) /\ Balanced \in Seq(Check)
           /\ Complete(n) \in Seq(Check) /\ Ticked(n) \in Seq(Check)
           /\ CallbackReady(n) \in Seq(Check)
           /\ << <<OpenLoops >= 1, "LOOP_INDEX_USED_OUTSIDE_LOOP">> >> \in Seq(Check)
           /\ << <<OpenLoops >= 2, "LOOP_INDEX_USED_OUTSIDE_LOOP">> >> \in Seq(Check)
           /\ << <<defining, "UNEXPECTED_SEMICOLON">> >> \in Seq(Check)
           /\ << <<Len(cf) > 1, "UNEXPECTED_CONTROL_FLOW_TERMINATOR">>,
                 <<BelowTop = "BEGIN", "WRONG_TERMINATOR_FOR_THIS_CONTROL_FLOW">> >> \in Seq(Check)
<1>5. \A s \in Seq(Check), a \in Check : Append(s, a) \in Seq(Check)
  BY AppendProperties
<1>7. NewName(n) \in Seq(Check)
  <2>1. /\ <<n # NoName, "EARLY_END_OF_SOURCE">> \in Check
        /\ <<n \notin Elems(WordNames), "WORD_REDEFINED">> \in Check
        /\ <<n \notin Elems(runtime), "WORD_USED_BEFORE_DEFINED">> \in Check
        /\ <<n \notin Elems(variables), "VARIABLE_OR_CONSTANT_REDEFINED">> \in Check
    BY EveryCode
  <2> QED BY <2>1, SomeChecks DEF NewName
<1>8. ASSUME NEW types
      PROVE  Closes(types) \in Seq(Check)
  <2> DEFINE p == Top.type \in types
  <2>1. p \in BOOLEAN
    OBVIOUS
  <2> HIDE DEF p
  <2>2. /\ <<cf # <<>>, "UNEXPECTED_CONTROL_FLOW_TERMINATOR">> \in Check
        /\ <<p, "WRONG_TERMINATOR_FOR_THIS_CONTROL_FLOW">> \in Check
    BY <2>1, EveryCode
  <2> QED BY <2>2, SomeChecks DEF Closes, p
<1>9. InWordOnly \in Seq(Check) /\ MainOnly \in Seq(Check) /\ Balanced \in Seq(Check)
      /\ Complete(n) \in Seq(Check)
  <2>1. /\ <<defining, "NOT_ALLOWED_OUTSIDE_WORD">> \in Check
        /\ <<~defining, "NOT_ALLOWED_INSIDE_WORD">> \in Check
        /\ <<cf = <<>>, "UNTERMINATED_CONTROL_FLOW">> \in Check
        /\ <<n # NoName, "EARLY_END_OF_SOURCE">> \in Check
    BY EveryCode
  <2> QED BY <2>1, SomeChecks DEF InWordOnly, MainOnly, Balanced, Complete
<1>10. Ticked(n) \in Seq(Check)
  <2> DEFINE p == n \in Elems(WordNames)
  <2>1. p \in BOOLEAN
    OBVIOUS
  <2> HIDE DEF p
  <2>2. <<p, "TICK_COULD_NOT_FIND_DEFINED_WORD">> \in Check
    BY <2>1, EveryCode
  <2> QED BY <2>2, <1>9, <1>5 DEF Ticked, p
<1>11. CallbackReady(n) \in Seq(Check)
  <2>1. ASSUME NEW p \in BOOLEAN
        PROVE  << <<p, "INVALID_PARENTHESIS_FOR_C_CALLBACK">> >> \in Seq(Check)
    <3>1. <<p, "INVALID_PARENTHESIS_FOR_C_CALLBACK">> \in Check
      BY EveryCode
    <3> QED BY <3>1, SomeChecks
  <2> QED BY <2>1 DEF CallbackReady
<1>12. /\ << <<OpenLoops >= 1, "LOOP_INDEX_USED_OUTSIDE_LOOP">> >> \in Seq(Check)
       /\ << <<OpenLoops >= 2, "LOOP_INDEX_USED_OUTSIDE_LOOP">> >> \in Seq(Check)
       /\ << <<defining, "UNEXPECTED_SEMICOLON">> >> \in Seq(Check)
       /\ << <<Len(cf) > 1, "UNEXPECTED_CONTROL_FLOW_TERMINATOR">>,
             <<BelowTop = "BEGIN", "WRONG_TERMINATOR_FOR_THIS_CONTROL_FLOW">> >> \in Seq(Check)
  <2> DEFINE p == OpenLoops >= 1
             q == OpenLoops >= 2
             r == Len(cf) > 1
  <2>1. p \in BOOLEAN /\ q \in BOOLEAN /\ r \in BOOLEAN
    OBVIOUS
  <2> HIDE DEF p, q, r
  <2>2. /\ <<p, "LOOP_INDEX_USED_OUTSIDE_LOOP">> \in Check
        /\ <<q, "LOOP_INDEX_USED_OUTSIDE_LOOP">> \in Check
        /\ <<defining, "UNEXPECTED_SEMICOLON">> \in Check
        /\ <<r, "UNEXPECTED_CONTROL_FLOW_TERMINATOR">> \in Check
        /\ <<BelowTop = "BEGIN", "WRONG_TERMINATOR_FOR_THIS_CONTROL_FLOW">> \in Check
    BY <2>1, EveryCode
  <2> QED BY <2>2, SomeChecks DEF p, q, r
<1> QED BY <1>7, <1>8, <1>9, <1>10, <1>11, <1>12

(* The RASSERTs in front of any word are a sequence of checks.             *)
LEMMA ChecksType ==
    ASSUME NEW w, NEW n, defining \in BOOLEAN
    PROVE  Checks(w, n) \in Seq(Check)
<1>1. \A s, t \in Seq(Check) : s \o t \in Seq(Check)
  BY ConcatProperties
<1>2. <<>> \in Seq(Check)
  OBVIOUS
<1>0. /\ NewName(n) \in Seq(Check) /\ \A types : Closes(types) \in Seq(Check)
      /\ InWordOnly \in Seq(Check) /\ MainOnly \in Seq(Check) /\ Balanced \in Seq(Check)
      /\ Complete(n) \in Seq(Check) /\ Ticked(n) \in Seq(Check)
      /\ CallbackReady(n) \in Seq(Check)
  BY Pieces
<1>00. /\ << <<OpenLoops >= 1, "LOOP_INDEX_USED_OUTSIDE_LOOP">> >> \in Seq(Check)
       /\ << <<OpenLoops >= 2, "LOOP_INDEX_USED_OUTSIDE_LOOP">> >> \in Seq(Check)
       /\ << <<defining, "UNEXPECTED_SEMICOLON">> >> \in Seq(Check)
       /\ << <<Len(cf) > 1, "UNEXPECTED_CONTROL_FLOW_TERMINATOR">>,
             <<BelowTop = "BEGIN", "WRONG_TERMINATOR_FOR_THIS_CONTROL_FLOW">> >> \in Seq(Check)
  BY Pieces
<1>3. MainOnly \o NewName(n) \in Seq(Check) /\ MainOnly \o NewName(n) \o Balanced \in Seq(Check)
  BY <1>0, <1>1
<1>4. /\ << <<defining, "UNEXPECTED_SEMICOLON">> >> \o Balanced \in Seq(Check)
      /\ Closes({"WHILE"}) \o << <<Len(cf) > 1, "UNEXPECTED_CONTROL_FLOW_TERMINATOR">>,
            <<BelowTop = "BEGIN", "WRONG_TERMINATOR_FOR_THIS_CONTROL_FLOW">> >> \in Seq(Check)
      /\ Ticked(n) \o CallbackReady(n) \in Seq(Check)
  BY <1>0, <1>00, <1>1
<1> QED BY <1>0, <1>00, <1>2, <1>3, <1>4 DEF Checks

(* All checks of s hold.                                                   *)
AllHold(s) == \A k \in 1..Len(s) : s[k][1]

(* A word that is accepted has passed all its RASSERTs.                    *)
LEMMA Passed ==
    ASSUME NEW w, NEW n, defining \in BOOLEAN, Accepts(w, n)
    PROVE  AllHold(Checks(w, n))
<1>1. DOMAIN Checks(w, n) = 1..Len(Checks(w, n))
  BY ChecksType, LenProperties
<1> QED BY <1>1 DEF Accepts, Failing, AllHold

(* If all checks of a concatenation hold, all checks of both parts do.     *)
LEMMA BothHold ==
    ASSUME NEW S, NEW s \in Seq(S), NEW t \in Seq(S), AllHold(s \o t)
    PROVE  AllHold(s) /\ AllHold(t)
<1>1. /\ Len(s \o t) = Len(s) + Len(t) /\ Len(s) \in Nat /\ Len(t) \in Nat
      /\ \A i \in 1..Len(s) : (s \o t)[i] = s[i]
      /\ \A i \in 1..Len(t) : (s \o t)[Len(s) + i] = t[i]
  BY SomeSeq, Joined DEF Extends
<1>2. \A i \in 1..Len(s) : i \in 1..Len(s \o t)
  BY <1>1
<1>3. \A i \in 1..Len(t) : Len(s) + i \in 1..Len(s \o t)
  BY <1>1
<1>4. AllHold(s)
  BY <1>1, <1>2 DEF AllHold
<1>5. ASSUME NEW i \in 1..Len(t)
      PROVE  t[i][1]
  <2>1. (s \o t)[Len(s) + i][1]
    BY <1>3 DEF AllHold
  <2> QED BY <2>1, <1>1
<1> QED BY <1>4, <1>5 DEF AllHold

(* A failing word abandons the compilation with an error code of the list, *)
(* so never with success.                                                  *)
LEMMA FailCode ==
    ASSUME NEW w, NEW n, defining \in BOOLEAN, Fail(w, n)
    PROVE  Abandon(ret') /\ ret' \in ErrorCode
<1> DEFINE F == Failing(w, n)
           First(k) == \A m \in F : k <= m
           first == CHOOSE k \in F : First(k)
<1>1. Checks(w, n) \in [1..Len(Checks(w, n)) -> Check] /\ Len(Checks(w, n)) \in Nat
  BY ChecksType, LenProperties
<1>2. F \in SUBSET Nat /\ F # {} /\ F \subseteq 1..Len(Checks(w, n))
  BY <1>1 DEF Failing, Fail
<1>3. \E k \in F : First(k)
  BY <1>2, LeastElement
<1>4. Abandon(Checks(w, n)[first][2])
  BY DEF Fail
<1> HIDE DEF First, F
<1>5. first \in F
  BY <1>3
<1> HIDE DEF first
<1>6. Checks(w, n)[first][2] \in ErrorCode
  BY <1>1, <1>2, <1>5 DEF Check
<1> QED BY <1>4, <1>6 DEF Abandon

(* Behind the RASSERTs of a terminator there is an open construct of the   *)
(* type it closes.                                                         *)
LEMMA ClosesHolds ==
    ASSUME NEW types, AllHold(Closes(types))
    PROVE  cf # <<>> /\ Top.type \in types
<1> DEFINE a == <<cf # <<>>, "UNEXPECTED_CONTROL_FLOW_TERMINATOR">>
           b == <<Top.type \in types, "WRONG_TERMINATOR_FOR_THIS_CONTROL_FLOW">>
<1>1. (a[1] <=> cf # <<>>) /\ (b[1] <=> Top.type \in types)
  OBVIOUS
<1> HIDE DEF a, b
<1>2. Len(<<a, b>>) = 2 /\ <<a, b>>[1] = a /\ <<a, b>>[2] = b
  OBVIOUS
<1>3. AllHold(<<a, b>>)
  BY DEF Closes, a, b
<1>4. a[1] /\ b[1]
  BY <1>2, <1>3 DEF AllHold
<1> QED BY <1>1, <1>4

(* Behind the RASSERTs of a declaration the name has no meaning yet, not   *)
(* even one left to the runtime.                                           *)
LEMMA NewNameHolds ==
    ASSUME NEW n, AllHold(NewName(n))
    PROVE  n \notin Elems(WordNames) \cup Elems(runtime) \cup Elems(variables)
<1> DEFINE a == <<n # NoName, "EARLY_END_OF_SOURCE">>
           b == <<n \notin Elems(WordNames), "WORD_REDEFINED">>
           c == <<n \notin Elems(runtime), "WORD_USED_BEFORE_DEFINED">>
           d == <<n \notin Elems(variables), "VARIABLE_OR_CONSTANT_REDEFINED">>
<1>1. /\ b[1] <=> n \notin Elems(WordNames)
      /\ c[1] <=> n \notin Elems(runtime)
      /\ d[1] <=> n \notin Elems(variables)
  OBVIOUS
<1> HIDE DEF a, b, c, d
<1>2. Len(<<a, b, c, d>>) = 4 /\ <<a, b, c, d>>[2] = b /\ <<a, b, c, d>>[3] = c /\ <<a, b, c, d>>[4] = d
  OBVIOUS
<1>3. AllHold(<<a, b, c, d>>)
  BY DEF NewName, a, b, c, d
<1>4. b[1] /\ c[1] /\ d[1]
  BY <1>2, <1>3 DEF AllHold
<1> QED BY <1>1, <1>4

(* A single check holds when its condition does.                           *)
LEMMA OneHolds ==
    ASSUME NEW p, NEW e, AllHold(<< <<p, e>> >>)
    PROVE  p
<1>1. Len(<< <<p, e>> >>) = 1 /\ << <<p, e>> >>[1][1] = p
  OBVIOUS
<1> QED BY <1>1 DEF AllHold

(* A definition starts with a name without a meaning and outside any       *)
(* construct.                                                              *)
LEMMA ColonGuard ==
    ASSUME NEW n, defining \in BOOLEAN, Accepts(":", n)
    PROVE  /\ n \notin Elems(WordNames) \cup Elems(runtime) \cup Elems(variables)
           /\ cf = <<>>
<1>1. AllHold(MainOnly \o NewName(n) \o Balanced)
  <2>1. Checks(":", n) = MainOnly \o NewName(n) \o Balanced
    BY DEF Checks
  <2>2. AllHold(Checks(":", n))
    BY Passed
  <2> QED BY <2>1, <2>2, Zenon
<1>2. MainOnly \o NewName(n) \in Seq(Check)
  BY Pieces, ConcatProperties
<1>3. AllHold(MainOnly \o NewName(n)) /\ AllHold(Balanced)
  BY <1>1, <1>2, Pieces, BothHold
<1>4. AllHold(NewName(n))
  BY <1>3, Pieces, BothHold
<1>5. cf = <<>>
  BY <1>3, OneHolds DEF Balanced
<1> QED BY <1>4, <1>5, NewNameHolds

(* A variable or constant is declared with a name without a meaning.       *)
LEMMA DeclareGuard ==
    ASSUME NEW n, NEW w \in {"variable", "constant"}, defining \in BOOLEAN, Accepts(w, n)
    PROVE  n \notin Elems(WordNames) \cup Elems(runtime) \cup Elems(variables)
<1>1. AllHold(MainOnly \o NewName(n))
  <2>1. Checks(w, n) = MainOnly \o NewName(n)
    BY DEF Checks
  <2>2. AllHold(Checks(w, n))
    BY Passed
  <2> QED BY <2>1, <2>2, Zenon
<1>2. AllHold(NewName(n))
  BY <1>1, Pieces, BothHold
<1> QED BY <1>2, NewNameHolds

(* then, else, loop, until, while and again find the construct they belong *)
(* to on top of the stack.                                                 *)
LEMMA ClosingGuards ==
    ASSUME defining \in BOOLEAN
    PROVE  /\ Accepts("then", NoName) => cf # <<>> /\ Top.type \in {"IF", "ELSE"}
           /\ Accepts("else", NoName) => cf # <<>> /\ Top.type \in {"IF"}
           /\ Accepts("loop", NoName) => cf # <<>> /\ Top.type \in {"DO"}
           /\ \A w \in {"until", "while", "again"} :
                Accepts(w, NoName) => cf # <<>> /\ Top.type \in {"BEGIN"}
<1>1. /\ Checks("then", NoName) = Closes({"IF", "ELSE"})
      /\ Checks("else", NoName) = Closes({"IF"})
      /\ Checks("loop", NoName) = Closes({"DO"})
      /\ \A w \in {"until", "while", "again"} : Checks(w, NoName) = Closes({"BEGIN"})
  BY DEF Checks
<1> QED BY <1>1, Passed, ClosesHolds

(* repeat finds a while on its begin.                                      *)
LEMMA RepeatGuard ==
    ASSUME defining \in BOOLEAN, Accepts("repeat", NoName)
    PROVE  /\ cf # <<>> /\ Top.type \in {"WHILE"}
           /\ Len(cf) > 1 /\ BelowTop = "BEGIN"
<1> DEFINE a == <<Len(cf) > 1, "UNEXPECTED_CONTROL_FLOW_TERMINATOR">>
           b == <<BelowTop = "BEGIN", "WRONG_TERMINATOR_FOR_THIS_CONTROL_FLOW">>
<1>1. (a[1] <=> Len(cf) > 1) /\ (b[1] <=> BelowTop = "BEGIN")
  OBVIOUS
<1>2. <<a, b>> \in Seq(Check)
  BY Pieces
<1>3. AllHold(Closes({"WHILE"}) \o <<a, b>>)
  <2>1. Checks("repeat", NoName) = Closes({"WHILE"}) \o <<a, b>>
    BY DEF Checks
  <2>2. AllHold(Checks("repeat", NoName))
    BY Passed
  <2> QED BY <2>1, <2>2, Zenon
<1> HIDE DEF a, b
<1>4. AllHold(Closes({"WHILE"})) /\ AllHold(<<a, b>>)
  BY <1>2, <1>3, Pieces, BothHold
<1>5. Len(<<a, b>>) = 2 /\ <<a, b>>[1] = a /\ <<a, b>>[2] = b
  OBVIOUS
<1>6. a[1] /\ b[1]
  BY <1>4, <1>5 DEF AllHold
<1> QED BY <1>1, <1>4, <1>6, ClosesHolds

(* exit, recurse and semicolon stand in a word.                            *)
LEMMA DefiningGuard ==
    ASSUME defining \in BOOLEAN, NEW n
    PROVE  /\ Accepts("exit", n) => defining
           /\ Accepts("recurse", n) => defining
           /\ Accepts(";", n) => defining
<1> DEFINE a == << <<defining, "UNEXPECTED_SEMICOLON">> >>
<1>1. /\ Checks("exit", n) = InWordOnly /\ Checks("recurse", n) = InWordOnly
      /\ Checks(";", n) = a \o Balanced
  BY DEF Checks
<1>2. a \in Seq(Check) /\ Balanced \in Seq(Check)
  BY Pieces
<1>3. AllHold(a) => defining
  BY OneHolds
<1>4. AllHold(InWordOnly) => defining
  BY OneHolds DEF InWordOnly
<1> HIDE DEF a
<1>5. AllHold(a \o Balanced) => AllHold(a)
  BY <1>2, BothHold
<1>6. \A w : Accepts(w, n) => AllHold(Checks(w, n))
  BY Passed
<1> QED BY <1>1, <1>3, <1>4, <1>5, <1>6, Zenon

(* ' and c' find a defined word.                                           *)
LEMMA TickedHolds ==
    ASSUME NEW n, defining \in BOOLEAN, AllHold(Ticked(n))
    PROVE  n \in Elems(WordNames)
<1> DEFINE q == n \in Elems(WordNames)
           e == <<q, "TICK_COULD_NOT_FIND_DEFINED_WORD">>
<1>1. AllHold(Append(Complete(n), e))
  BY DEF Ticked
<1>2. q \in BOOLEAN
  OBVIOUS
<1> HIDE DEF q
<1>3. e \in Check
  BY <1>2, EveryCode
<1>4. Complete(n) \in Seq(Check)
  BY Pieces
<1>5. e[1] = q
  OBVIOUS
<1> HIDE DEF e
<1>6. /\ Len(Append(Complete(n), e)) = Len(Complete(n)) + 1 /\ Len(Complete(n)) \in Nat
      /\ Append(Complete(n), e)[Len(Complete(n)) + 1] = e
  BY <1>3, <1>4, AppendProperties, LenProperties
<1>7. e[1]
  BY <1>1, <1>6 DEF AllHold
<1> QED BY <1>5, <1>7 DEF q

(* ' finds a defined word.                                                 *)
LEMMA TickGuard ==
    ASSUME NEW n, defining \in BOOLEAN, Accepts("'", n)
    PROVE  n \in Elems(WordNames)
<1>1. Checks("'", n) = Ticked(n)
  BY DEF Checks
<1>2. AllHold(Ticked(n))
  BY <1>1, Passed
<1> QED BY <1>2, TickedHolds

(* What the check of a callback asks of the word n.                        *)
Ready(n) ==
    LET k == Find(WordNames, n)
        s == IF k = 0 THEN <<>> ELSE words[k].sig
    IN  k \in Elems(callbacks) \/ (s # <<>> /\ s[1] \in 1..8 /\ s[2] <= 1)

(* c' finds a defined word that is a callback already or has an accepted   *)
(* signature.                                                              *)
LEMMA CTickGuard ==
    ASSUME NEW n, defining \in BOOLEAN, Accepts("c'", n)
    PROVE  n \in Elems(WordNames) /\ Ready(n)
<1>1. AllHold(Ticked(n) \o CallbackReady(n))
  <2>1. Checks("c'", n) = Ticked(n) \o CallbackReady(n)
    BY DEF Checks
  <2>2. AllHold(Checks("c'", n))
    BY Passed
  <2> QED BY <2>1, <2>2, Zenon
<1>2. AllHold(Ticked(n)) /\ AllHold(CallbackReady(n))
  BY <1>1, Pieces, BothHold
<1>3. AllHold(<< <<Ready(n), "INVALID_PARENTHESIS_FOR_C_CALLBACK">> >>)
  <2>1. CallbackReady(n) = << <<Ready(n), "INVALID_PARENTHESIS_FOR_C_CALLBACK">> >>
    BY DEF CallbackReady, Ready
  <2> QED BY <1>2, <2>1, Zenon
<1>4. Ready(n)
  BY <1>3, OneHolds
<1> QED BY <1>2, <1>4, TickedHolds

-----------------------------------------------------------------------------
(* t is s, or s and more.                                                  *)
Prefix(s, t) == \E m \in Nat : Extends(s, t, m)

(* Every construct of the stack refers to a branch target.                 *)
Targets(fs, c) == \A k \in 1..Len(c) :
    c[k].frag \in 1..Len(fs) /\ fs[c[k].frag].op = "BRANCH_LOCATION"

(* The last emitted fragment is a word's location.                         *)
AtLocation(fs, s) == fs[Last(s)].op = "DEFINED_WORD_LOCATION"

(* WhileOnBegin, of the stack c.                                           *)
OnBegin(c) == \A k \in 1..Len(c) : c[k].type = "WHILE" => k > 1 /\ c[k - 1].type = "BEGIN"

(* The code, and the stack that goes with it, are in order.                *)
CodeOK(fs, s, c) ==
    AnySeq(fs) /\ Placed(Len(fs), s, c) /\ Targets(fs, c) /\ OnBegin(c)

(* A step that adds code in order, and does not end in a word's location.  *)
CodeStep ==
    /\ CodeOK(frags', sequence', cf')
    /\ Prefix(frags, frags') /\ Prefix(sequence, sequence')
    /\ UNCHANGED code \/ ~AtLocation(frags', sequence')

(* Extending a sequence twice extends it.                                  *)
LEMMA PrefixTwice ==
    ASSUME NEW s, NEW t, NEW u, Len(s) \in Nat, NEW m \in Nat, NEW n \in Nat,
           Extends(s, t, m), Extends(t, u, n)
    PROVE  Extends(s, u, m + n)
<1>1. \A i \in 1..Len(s) : i \in 1..Len(t)
  BY DEF Extends
<1> QED BY <1>1 DEF Extends

(* New fragments do not change what the stack's fragments are.             *)
LEMMA TargetsKept ==
    ASSUME NEW fs, NEW gs, NEW c, Targets(fs, c), NEW m \in Nat, Len(fs) \in Nat, Extends(fs, gs, m)
    PROVE  Targets(gs, c)
  BY DEF Targets, Extends

(* All that sequence_helper, called for each of the fragments new, does to *)
(* the code.                                                               *)
LEMMA Emitting ==
    ASSUME CodeOK(frags, sequence, cf), NEW new, AnySeq(new), Len(new) > 0, Emit(new)
    PROVE  /\ AnySeq(frags') /\ Placed(Len(frags'), sequence', cf)
           /\ Prefix(frags, frags') /\ Prefix(sequence, sequence')
           /\ Len(sequence) \in Nat /\ Len(frags) \in Nat /\ Len(new) \in Nat
           /\ Len(sequence') = Len(sequence) + Len(new)
           /\ Len(frags') = Len(frags) + Len(new)
           /\ \A i \in 1..Len(new) : sequence'[Len(sequence) + i] = Len(frags) + i
           /\ \A i \in 1..Len(new) : frags'[Len(frags) + i] = new[i]
           /\ Targets(frags', cf) /\ OnBegin(cf)
           /\ frags'[Last(sequence')] = new[Len(new)]
           /\ \A i \in 1..Len(frags) : frags'[i] = frags[i]
<1>1. Len(frags) \in Nat /\ Len(new) \in Nat /\ Len(sequence) \in Nat /\ Placed(Len(frags), sequence, cf)
      /\ AnySeq(frags)
  BY LenProperties DEF AnySeq, Placed, Shapes, CodeOK
<1>2. /\ AnySeq(frags') /\ Extends(frags, frags', Len(new))
      /\ \A i \in 1..Len(new) : frags'[Len(frags) + i] = new[i]
      /\ Placed(Len(frags'), sequence', cf) /\ Extends(sequence, sequence', Len(new))
      /\ \A i \in 1..Len(new) : sequence'[Len(sequence) + i] = Len(frags) + i
  BY <1>1, EmitPlaces DEF Emit
<1>3. Targets(frags', cf)
  BY <1>1, <1>2, TargetsKept DEF CodeOK
<1>4. Len(sequence') = Len(sequence) + Len(new) /\ Len(frags') = Len(frags) + Len(new)
      /\ \A i \in 1..Len(frags) : frags'[i] = frags[i]
  BY <1>2 DEF Extends
<1>5. frags'[Last(sequence')] = new[Len(new)]
  <2>1. Len(new) \in 1..Len(new)
    BY <1>1
  <2>2. sequence'[Len(sequence')] = Len(frags) + Len(new)
    BY <2>1, <1>2, <1>4
  <2> QED BY <2>1, <2>2, <1>2 DEF Last
<1> QED BY <1>1, <1>2, <1>3, <1>4, <1>5 DEF Prefix, CodeOK

(* Emitting fragments that do not end in a word's location, with the stack *)
(* untouched, is a CodeStep.                                               *)
LEMMA EmitOnly ==
    ASSUME CodeOK(frags, sequence, cf), NEW new, AnySeq(new), Len(new) > 0, Emit(new),
           new[Len(new)].op # "DEFINED_WORD_LOCATION", UNCHANGED cf
    PROVE  CodeStep
  BY Emitting DEF CodeStep, CodeOK, AtLocation

(* So is emitting one fragment that is not a word's location.              *)
LEMMA EmitOne ==
    ASSUME CodeOK(frags, sequence, cf), NEW o, NEW p, Emit1(o, p),
           o # "DEFINED_WORD_LOCATION", UNCHANGED cf
    PROVE  CodeStep
<1>1. AnySeq(<<Frag(o, p)>>) /\ Len(<<Frag(o, p)>>) = 1 /\ <<Frag(o, p)>>[1].op = o
  BY Tuples DEF Frag
<1> QED BY <1>1, EmitOnly, SMTT(30) DEF Emit1

(* A stack entry.                                                          *)
Entry(t, f) == [type |-> t, frag |-> f]

(* do and begin: emitting a target and pushing its construct is a          *)
(* CodeStep.                                                               *)
LEMMA LoopOpened ==
    ASSUME CodeOK(frags, sequence, cf), NEW new, AnySeq(new), Len(new) > 0, Emit(new),
           new[Len(new)].op = "BRANCH_LOCATION", NEW t \in {"DO", "BEGIN"},
           cf' = Append(cf, Entry(t, Len(frags) + Len(new)))
    PROVE  CodeStep
<1> DEFINE e == Entry(t, Len(frags) + Len(new))
<1>0. e.type = t /\ e.frag = Len(frags) + Len(new) /\ cf' = Append(cf, e)
  BY DEF Entry
<1>1. e \in Construct /\ e.type \notin Owing /\ cf \in Seq(Construct)
  BY Emitting DEF Construct, Owing, Placed, Shapes, Entry
<1> HIDE DEF e
<1>2. Placed(Len(frags'), sequence', cf')
  BY <1>0, <1>1, Emitting, OpenedLoop
<1>3. /\ Len(cf') = Len(cf) + 1 /\ \A k \in 1..Len(cf) : cf'[k] = cf[k]
      /\ cf'[Len(cf) + 1] = e /\ Len(cf) \in Nat
  BY <1>0, <1>1, Pushed, LenProperties
<1>4. frags'[e.frag].op = "BRANCH_LOCATION" /\ e.frag \in 1..Len(frags')
  <2>1. /\ Len(new) \in 1..Len(new) /\ Len(frags') = Len(frags) + Len(new)
        /\ frags'[Len(frags) + Len(new)] = new[Len(new)]
        /\ Len(frags) \in Nat
    BY Emitting
  <2> QED BY <1>0, <2>1
<1>5. Targets(frags', cf')
  BY <1>3, <1>4, Emitting DEF Targets
<1>6. OnBegin(cf')
  BY <1>0, <1>3 DEF CodeOK, OnBegin
<1>7. frags'[Last(sequence')].op = "BRANCH_LOCATION"
  BY Emitting
<1> QED BY <1>2, <1>5, <1>6, <1>7, Emitting DEF CodeStep, CodeOK, AtLocation

(* loop, until and again: emitting a backward branch and popping the       *)
(* construct is a CodeStep.                                                *)
LEMMA LoopClosed ==
    ASSUME CodeOK(frags, sequence, cf), NEW o, NEW p, Emit1(o, p),
           o # "DEFINED_WORD_LOCATION", cf # <<>>, Last(cf).type \notin Owing, cf' = Front(cf)
    PROVE  CodeStep
<1>1. AnySeq(<<Frag(o, p)>>) /\ Len(<<Frag(o, p)>>) = 1 /\ <<Frag(o, p)>>[1].op = o /\ Emit(<<Frag(o, p)>>)
  BY Tuples DEF Frag, Emit1
<1>2. cf \in Seq(Construct)
  BY DEF CodeOK, Placed, Shapes
<1>3. Placed(Len(frags'), sequence', cf')
  BY <1>1, Emitting, ClosedLoop
<1>4. /\ Len(cf') = Len(cf) - 1 /\ \A k \in 1..(Len(cf) - 1) : cf'[k] = cf[k]
      /\ Len(cf) \in Nat \ {0}
  BY <1>2, Popped
<1>5. Targets(frags', cf')
  <2>1. Targets(frags', cf)
    BY <1>1, Emitting
  <2> QED BY <2>1, <1>4 DEF Targets
<1>6. OnBegin(cf')
  BY <1>4 DEF CodeOK, OnBegin
<1> QED BY <1>1, <1>3, <1>5, <1>6, Emitting DEF CodeStep, CodeOK, AtLocation
(* Appending an index to a sequence of indexes.                            *)
LEMMA AppendedNat ==
    ASSUME NEW s \in Seq(Nat), NEW f \in Nat
    PROVE  /\ Append(s, f) \in Seq(Nat) /\ Extends(s, Append(s, f), 1) /\ Len(s) \in Nat
           /\ Append(s, f)[Len(s) + 1] = f
  BY AppendProperties, LenProperties DEF Extends

(* Creating and emitting one fragment keeps Placed.                        *)
LEMMA PlaceOne ==
    ASSUME NEW n, NEW s, NEW c, Placed(n, s, c)
    PROVE  Placed(n + 1, Append(s, n + 1), c)
<1>1. s \in Seq(Nat) /\ n \in Nat /\ n + 1 \in Nat
  BY DEF Placed, Shapes
<1>2. /\ Append(s, n + 1) \in Seq(Nat) /\ Extends(s, Append(s, n + 1), 1) /\ Len(s) \in Nat
      /\ Append(s, n + 1)[Len(s) + 1] = n + 1
  BY <1>1, AppendedNat
<1>3. \A i \in 1..1 : Append(s, n + 1)[Len(s) + i] = n + i
  BY <1>2
<1> DEFINE t == Append(s, n + 1)
<1> HIDE DEF t
<1>4. Placed(n + 1, t, c)
  BY <1>2, <1>3, PlaceNew DEF t
<1> QED BY <1>4 DEF t

(* if and while: creating a target for later and emitting the branch to it *)
(* keeps Placed.                                                           *)
LEMMA PlaceForward ==
    ASSUME NEW n, NEW s, NEW c, Placed(n, s, c),
           NEW t \in Owing, NEW e, e = [type |-> t, frag |-> n + 1]
    PROVE  e \in Construct /\ Placed(n + 2, Append(s, n + 2), Append(c, e))
<1>1. n \in Nat
  BY DEF Placed, Shapes
<1>2. e \in Construct /\ e.type \in Owing /\ e.frag = n + 1
  BY <1>1 DEF Construct
<1>3. Placed(n + 1, s, Append(c, e))
  BY <1>2, Opened
<1>4. Placed(n + 1 + 1, Append(s, n + 1 + 1), Append(c, e))
  BY <1>3, PlaceOne
<1>5. n + 1 + 1 = n + 2
  BY <1>1
<1> QED BY <1>2, <1>4, <1>5

(* then: emitting the target the innermost construct owes keeps Placed.    *)
LEMMA PlaceSettled ==
    ASSUME NEW n, NEW s, NEW c, Placed(n, s, c), c # <<>>, Last(c).type \in Owing
    PROVE  Placed(n, Append(s, Last(c).frag), Front(c)) /\ Last(c).frag \in 1..n
<1>1. s \in Seq(Nat) /\ c \in Seq(Construct)
  BY DEF Placed, Shapes
<1>2. Last(c) \in Construct /\ Len(c) \in Nat \ {0}
  BY <1>1, Popped
<1>3. Last(c).frag \in Nat
  BY <1>2 DEF Construct
<1>4. Last(c).frag \in 1..n
  <2>1. Len(c) \in Owes(c)
    BY <1>2 DEF Owes, Last
  <2> QED BY <2>1 DEF Placed, OwedOnce, Last
<1> DEFINE t == Append(s, Last(c).frag)
<1>5. t \in Seq(Nat) /\ Extends(s, t, 1) /\ t[Len(s) + 1] = Last(c).frag
  BY <1>1, <1>3, AppendedNat
<1> HIDE DEF t
<1>6. Placed(n, t, Front(c))
  BY <1>5, Settled
<1> QED BY <1>4, <1>6 DEF t

(* What a word that opens a construct does to it. *)
LEMMA Opens ==
    ASSUME NEW fs, AnySeq(fs), NEW gs, Extends(fs, gs, 2), NEW c \in Seq(Construct),
           Targets(fs, c), OnBegin(c), gs[Len(fs) + 1].op = "BRANCH_LOCATION",
           NEW t, t = "WHILE" => c # <<>> /\ Last(c).type = "BEGIN",
           NEW e \in Construct, e = [type |-> t, frag |-> Len(fs) + 1]
    PROVE  Targets(gs, Append(c, e)) /\ OnBegin(Append(c, e))
<1> DEFINE d == Append(c, e)
<1>1. /\ Len(d) = Len(c) + 1 /\ \A k \in 1..Len(c) : d[k] = c[k]
      /\ d[Len(c) + 1] = e /\ Len(c) \in Nat /\ Len(fs) \in Nat
  BY Pushed, LenProperties DEF AnySeq
<1> HIDE DEF d
<1>2. Targets(gs, c)
  BY <1>1, TargetsKept
<1>3. Len(fs) + 1 \in 1..Len(gs)
  BY <1>1 DEF Extends
<1>4. Targets(gs, d)
  <2>1. \A k \in 1..Len(c) : d[k].frag \in 1..Len(gs) /\ gs[d[k].frag].op = "BRANCH_LOCATION"
    BY <1>1, <1>2 DEF Targets
  <2>2. e.frag \in 1..Len(gs) /\ gs[e.frag].op = "BRANCH_LOCATION"
    BY <1>3
  <2>3. \A k \in 1..Len(d) : k \in 1..Len(c) \/ k = Len(c) + 1
    BY <1>1
  <2> QED BY <1>1, <2>1, <2>2, <2>3 DEF Targets
<1>5. OnBegin(d)
  <2>1. c # <<>> => Len(c) > 0
    BY EmptySeq
  <2> QED BY <1>1, <2>1, SMTT(30) DEF OnBegin, Last
<1> QED BY <1>4, <1>5 DEF d

(* Popping keeps what is said of every construct of the stack.             *)
LEMMA Closing ==
    ASSUME NEW fs, NEW c \in Seq(Construct), c # <<>>, Targets(fs, c), OnBegin(c)
    PROVE  Targets(fs, Front(c)) /\ OnBegin(Front(c))
<1>1. /\ Len(Front(c)) = Len(c) - 1 /\ \A k \in 1..(Len(c) - 1) : Front(c)[k] = c[k]
      /\ Len(c) \in Nat \ {0}
  BY Popped
<1> DEFINE d == Front(c)
<1>2. Len(d) = Len(c) - 1 /\ \A k \in 1..(Len(c) - 1) : k \in 1..Len(c) /\ d[k] = c[k]
  BY <1>1
<1> HIDE DEF d
<1>3. Targets(fs, d)
  BY <1>2 DEF Targets
<1>4. OnBegin(d)
  <2> SUFFICES ASSUME NEW k \in 1..Len(d), d[k].type = "WHILE"
               PROVE  k > 1 /\ d[k - 1].type = "BEGIN"
    BY DEF OnBegin
  <2>1. k \in 1..Len(c) /\ c[k].type = "WHILE"
    BY <1>2
  <2>2. k > 1 /\ c[k - 1].type = "BEGIN"
    BY <2>1 DEF OnBegin
  <2>3. k - 1 \in 1..(Len(c) - 1)
    BY <1>1, <1>2, <2>2
  <2> QED BY <1>2, <2>2, <2>3
<1> QED BY <1>3, <1>4 DEF d

(* The last entry of a sequence appended to is the new one.                *)
LEMMA LastOfAppend ==
    ASSUME NEW s \in Seq(Nat), NEW f \in Nat
    PROVE  Last(Append(s, f)) = f
  BY AppendProperties, LenProperties DEF Last

(* if, and while on a begin, are a CodeStep.                               *)
LEMMA ForwardStep ==
    ASSUME CodeOK(frags, sequence, cf), NEW w, NEW t \in {"IF", "WHILE"}, Forward(w, t),
           t = "WHILE" => cf # <<>> /\ Last(cf).type = "BEGIN"
    PROVE  CodeStep
<1> DEFINE n == Len(frags)
           new == <<Pending, Frag("BRANCH_IF_ZERO", Here)>>
           e == [type |-> t, frag |-> n + 1]
<1>1. n \in Nat /\ sequence \in Seq(Nat) /\ cf \in Seq(Construct) /\ AnySeq(frags)
      /\ Placed(n, sequence, cf) /\ Targets(frags, cf) /\ OnBegin(cf)
  BY DEF CodeOK, Placed, Shapes
<1>2. /\ AnySeq(frags') /\ Extends(frags, frags', 2)
      /\ frags'[n + 1].op = "BRANCH_LOCATION" /\ frags'[n + 2].op = "BRANCH_IF_ZERO"
  <2>1. /\ AnySeq(new) /\ Len(new) = 2 /\ new[1].op = "BRANCH_LOCATION"
        /\ new[2].op = "BRANCH_IF_ZERO"
    BY Tuples DEF Pending, Frag
  <2>2. frags' = frags \o new
    BY DEF Forward
  <2> HIDE DEF new
  <2>3. \A i \in 1..2 : frags'[n + i] = new[i]
    <3>0. AnySeq(frags) /\ AnySeq(new)
      BY <1>1, <2>1
    <3>1. \A i \in 1..Len(new) : (frags \o new)[Len(frags) + i] = new[i]
      BY <3>0, Joined
    <3> QED BY <2>1, <2>2, <3>1
  <2>4. frags'[n + 1] = new[1] /\ frags'[n + 2] = new[2]
    BY <2>3
  <2> QED BY <1>1, <2>1, <2>2, <2>4, Joined
<1>3. Len(frags') = n + 2
  BY <1>2 DEF Extends
<1>4. sequence' = Append(sequence, n + 2) /\ cf' = Append(cf, e)
  BY <1>1 DEF Forward, Here, Push
<1>5. e \in Construct /\ Placed(n + 2, sequence', cf')
  BY <1>1, <1>4, PlaceForward DEF Owing
<1>6. Targets(frags', cf') /\ OnBegin(cf')
  BY <1>1, <1>2, <1>4, <1>5, Opens
<1>7. Extends(sequence, sequence', 1) /\ Last(sequence') = n + 2
  <2>1. n + 2 \in Nat
    BY <1>1
  <2> QED BY <1>1, <1>4, <2>1, AppendedNat, LastOfAppend
<1>8. ~AtLocation(frags', sequence')
  BY <1>2, <1>7 DEF AtLocation
<1> QED BY <1>2, <1>3, <1>5, <1>6, <1>7, <1>8 DEF CodeStep, CodeOK, Prefix

(* then behind its RASSERTs is a CodeStep.                                 *)
LEMMA ThenStep ==
    ASSUME CodeOK(frags, sequence, cf), Then, cf # <<>>, Top.type \in {"IF", "ELSE"}
    PROVE  CodeStep
<1>1. sequence \in Seq(Nat) /\ cf \in Seq(Construct) /\ Placed(Len(frags), sequence, cf)
      /\ Targets(frags, cf) /\ OnBegin(cf)
  BY DEF CodeOK, Placed, Shapes
<1>2. Top = Last(cf) /\ Top.type \in Owing
  BY DEF Top, Owing
<1>3. sequence' = Append(sequence, Last(cf).frag) /\ cf' = Front(cf) /\ frags' = frags
  BY <1>2 DEF Then
<1>4. Placed(Len(frags), sequence', cf') /\ Last(cf).frag \in 1..Len(frags)
  BY <1>1, <1>2, <1>3, PlaceSettled
<1>5. Targets(frags, cf') /\ OnBegin(cf')
  BY <1>1, <1>3, Closing
<1>6. frags[Last(cf).frag].op = "BRANCH_LOCATION"
  <2>1. Len(cf) \in 1..Len(cf)
    BY <1>1, Popped
  <2> QED BY <1>1, <2>1 DEF Targets, Last
<1>7. Extends(sequence, sequence', 1) /\ Last(sequence') = Last(cf).frag
  <2>1. Last(cf).frag \in Nat
    BY <1>4
  <2> QED BY <2>1, <1>1, <1>3, AppendedNat, LastOfAppend
<1>8. ~AtLocation(frags', sequence')
  BY <1>3, <1>6, <1>7 DEF AtLocation
<1>9. Prefix(frags, frags')
  BY <1>3, LenProperties, SMTT(30) DEF CodeOK, AnySeq, Prefix, Extends
<1> QED BY <1>3, <1>4, <1>5, <1>7, <1>8, <1>9 DEF CodeStep, CodeOK, Prefix
(* A source position and the target that was owed, in this order. *)
IsElse(n, s, c, e, t) ==
    /\ e = [type |-> "ELSE", frag |-> n + 1]
    /\ t = s \o <<n + 2, Last(c).frag>>

(* else: paying the debt of the if and owing a new target keeps Placed.    *)
LEMMA PlaceElse ==
    ASSUME NEW n, NEW s, NEW c, Placed(n, s, c), c # <<>>, Last(c).type \in Owing,
           NEW e, NEW t, IsElse(n, s, c, e, t)
    PROVE  /\ Placed(n + 2, t, Append(Front(c), e)) /\ e \in Construct
           /\ Extends(s, t, 2) /\ Last(t) = Last(c).frag /\ Last(c).frag \in 1..n
<1> DEFINE f == Last(c).frag
<1>0. e = [type |-> "ELSE", frag |-> n + 1] /\ t = s \o <<n + 2, f>>
  BY DEF IsElse
<1>1. n \in Nat /\ s \in Seq(Nat) /\ Len(s) \in Nat
  BY DEF Placed, Shapes
<1>2. Placed(n, Append(s, f), Front(c)) /\ f \in 1..n
  BY PlaceSettled
<1> HIDE DEF f
<1> DEFINE u == Append(Append(s, f), n + 2)
<1>3. Placed(n + 2, u, Append(Front(c), e)) /\ e \in Construct
  BY <1>0, <1>2, PlaceForward DEF Owing
<1>4. u \in Seq(Nat) /\ Len(u) = Len(s) + 2 /\ u[Len(s) + 1] = f /\ u[Len(s) + 2] = n + 2
      /\ \A i \in 1..Len(s) : u[i] = s[i]
  <2> DEFINE v == Append(s, f)
             g == n + 2
  <2>1. v \in Seq(Nat) /\ Len(v) = Len(s) + 1 /\ v[Len(s) + 1] = f
        /\ \A i \in 1..Len(s) : v[i] = s[i]
    BY <1>1, <1>2, AppendProperties
  <2>2. g \in Nat
    BY <1>1
  <2> HIDE DEF v, g
  <2>3. Append(v, g) \in Seq(Nat) /\ Len(Append(v, g)) = Len(v) + 1
        /\ Append(v, g)[Len(v) + 1] = g /\ \A i \in 1..Len(v) : Append(v, g)[i] = v[i]
    BY <2>1, <2>2, AppendProperties
  <2>4. Append(v, g) \in Seq(Nat) /\ Len(Append(v, g)) = Len(s) + 2
        /\ Append(v, g)[Len(s) + 1] = f /\ Append(v, g)[Len(s) + 2] = g
        /\ \A i \in 1..Len(s) : Append(v, g)[i] = s[i]
    BY <2>1, <2>3, <1>1
  <2> QED BY <2>4 DEF v, g
<1>5. t \in Seq(Nat) /\ Len(t) = Len(s) + 2 /\ t[Len(s) + 1] = n + 2 /\ t[Len(s) + 2] = f
      /\ \A i \in 1..Len(s) : t[i] = s[i]
  <2> DEFINE r == <<n + 2, f>>
  <2>1. r \in Seq(Nat) /\ Len(r) = 2 /\ r[1] = n + 2 /\ r[2] = f
    BY <1>1, <1>2
  <2>2. t = s \o r
    BY <1>0
  <2> HIDE DEF r
  <2>3. t \in Seq(Nat) /\ Len(t) = Len(s) + Len(r)
        /\ \A i \in 1..Len(s) + Len(r) : t[i] = IF i <= Len(s) THEN s[i] ELSE r[i - Len(s)]
    BY <1>1, <2>1, <2>2, ConcatProperties
  <2>4. /\ Len(s) + 1 \in 1..Len(s) + Len(r) /\ ~(Len(s) + 1 <= Len(s)) /\ Len(s) + 1 - Len(s) = 1
        /\ Len(s) + 2 \in 1..Len(s) + Len(r) /\ ~(Len(s) + 2 <= Len(s)) /\ Len(s) + 2 - Len(s) = 2
    BY <1>1, <2>1
  <2>5. t[Len(s) + 1] = r[1] /\ t[Len(s) + 2] = r[2]
    BY <2>3, <2>4
  <2>6. \A i \in 1..Len(s) : t[i] = s[i]
    BY <1>1, <2>1, <2>3
  <2> QED BY <2>1, <2>3, <2>5, <2>6
<1> HIDE DEF u
<1>6. Placed(n + 2, t, Append(Front(c), e))
  <2> DEFINE a == Len(s) + 1
             b == Len(s) + 2
  <2>1. /\ Len(t) = Len(u) /\ a \in 1..Len(u) /\ b \in 1..Len(u)
        /\ t[a] = u[b] /\ t[b] = u[a]
        /\ \A k \in 1..Len(u) : k # a /\ k # b => t[k] = u[k]
    <3>0. Len(s) \in Nat /\ Len(u) = Len(s) + 2
      BY <1>1, <1>4
    <3>1. \A k \in 1..Len(u) : k # a /\ k # b => k \in 1..Len(s)
      BY <3>0
    <3> QED BY <1>1, <1>4, <1>5, <3>1
  <2> DEFINE d == Append(Front(c), e)
             g == n + 2
  <2>2. Placed(g, u, d) /\ t \in Seq(Nat)
    BY <1>3, <1>5
  <2> HIDE DEF a, b, d, g
  <2>3. Placed(g, t, d)
    BY <2>1, <2>2, Swapped
  <2> QED BY <2>3 DEF d, g
<1>7. Extends(s, t, 2) /\ Last(t) = f
  BY <1>5 DEF Extends, Last
<1> QED BY <1>2, <1>3, <1>6, <1>7 DEF f

(* else behind its RASSERTs is a CodeStep.                                 *)
LEMMA ElseStep ==
    ASSUME CodeOK(frags, sequence, cf), Else, cf # <<>>, Top.type \in {"IF"}
    PROVE  CodeStep
<1> DEFINE n == Len(frags)
           new == <<Pending, Frag("BRANCH", Here)>>
           e == [type |-> "ELSE", frag |-> n + 1]
           f == Last(cf).frag
<1>1. n \in Nat /\ sequence \in Seq(Nat) /\ cf \in Seq(Construct) /\ AnySeq(frags)
      /\ Placed(n, sequence, cf) /\ Targets(frags, cf) /\ OnBegin(cf)
  BY DEF CodeOK, Placed, Shapes
<1>2. /\ AnySeq(frags') /\ Extends(frags, frags', 2)
      /\ frags'[n + 1].op = "BRANCH_LOCATION"
  <2>1. AnySeq(new) /\ Len(new) = 2 /\ new[1].op = "BRANCH_LOCATION"
    BY Tuples DEF Pending, Frag
  <2>2. frags' = frags \o new
    BY DEF Else
  <2> HIDE DEF new
  <2>3. \A i \in 1..Len(new) : (frags \o new)[Len(frags) + i] = new[i]
    <3>1. AnySeq(frags) /\ AnySeq(new)
      BY <1>1, <2>1
    <3> QED BY <3>1, Joined
  <2>4. frags'[n + 1] = new[1]
    BY <2>1, <2>2, <2>3
  <2> QED BY <1>1, <2>1, <2>2, <2>4, Joined
<1>3. Len(frags') = n + 2
  BY <1>2 DEF Extends
<1>4. Last(cf).type \in Owing /\ Top = Last(cf)
  BY DEF Top, Owing
<1>5. sequence' = sequence \o <<n + 2, f>> /\ cf' = Append(Front(cf), e)
  <2>1. Here + 1 = n + 2 /\ Here = n + 1
    BY <1>1 DEF Here
  <2> QED BY <1>4, <2>1 DEF Else
<1>6. /\ e \in Construct /\ Placed(n + 2, sequence', cf')
      /\ Extends(sequence, sequence', 2) /\ Last(sequence') = f /\ f \in 1..n
  <2>1. /\ Placed(n, sequence, cf) /\ cf # <<>> /\ Last(cf).type \in Owing
        /\ f = Last(cf).frag /\ e = [type |-> "ELSE", frag |-> n + 1]
        /\ sequence' = sequence \o <<n + 2, f>>
    BY <1>1, <1>4, <1>5
  <2>2. cf' = Append(Front(cf), e)
    BY <1>5
  <2> DEFINE t == sequence'
             d == cf'
  <2>3. IsElse(n, sequence, cf, e, t) /\ d = Append(Front(cf), e)
    BY <2>1, <2>2 DEF IsElse
  <2> HIDE DEF n, e, f, t, d
  <2>4. /\ Placed(n + 2, t, Append(Front(cf), e)) /\ e \in Construct
        /\ Extends(sequence, t, 2) /\ Last(t) = f /\ f \in 1..n
    BY <2>1, <2>3, PlaceElse DEF f
  <2> QED BY <2>3, <2>4 DEF t, d
<1>7. Targets(frags, Front(cf)) /\ OnBegin(Front(cf)) /\ Front(cf) \in Seq(Construct)
  BY <1>1, Closing, Popped
<1>8. Targets(frags', cf') /\ OnBegin(cf')
  BY <1>1, <1>2, <1>5, <1>6, <1>7, Opens
<1>9. frags'[f].op = "BRANCH_LOCATION"
  <2>1. Len(cf) \in 1..Len(cf)
    BY <1>1, Popped
  <2>2. frags[f].op = "BRANCH_LOCATION"
    BY <1>1, <2>1 DEF Targets, Last
  <2> QED BY <2>2, <1>2, <1>6 DEF Extends
<1>10. ~AtLocation(frags', sequence')
  BY <1>6, <1>9 DEF AtLocation
<1> QED BY <1>2, <1>3, <1>6, <1>8, <1>10 DEF CodeStep, CodeOK, Prefix

(* repeat behind its RASSERTs is a CodeStep.                               *)
LEMMA RepeatStep ==
    ASSUME CodeOK(frags, sequence, cf), Repeat, cf # <<>>, Top.type \in {"WHILE"},
           Len(cf) > 1, BelowTop = "BEGIN"
    PROVE  CodeStep
<1> DEFINE n == Len(frags)
           f == Last(cf).frag
           x == Frag("BRANCH", cf[Len(cf) - 1].frag)
<1>1. n \in Nat /\ sequence \in Seq(Nat) /\ cf \in Seq(Construct) /\ AnySeq(frags)
      /\ Placed(n, sequence, cf) /\ Targets(frags, cf) /\ OnBegin(cf)
      /\ Len(cf) \in Nat /\ Len(sequence) \in Nat
  BY DEF CodeOK, Placed, Shapes
<1>2. AnySeq(frags') /\ Extends(frags, frags', 1) /\ Len(frags') = n + 1
  <2>1. frags' = Append(frags, x)
    BY DEF Repeat
  <2> QED BY <1>1, <2>1, Appended DEF Extends
<1>3. Last(cf).type \in Owing /\ Top = Last(cf)
  BY DEF Top, Owing
<1>4. sequence' = sequence \o <<n + 1, f>> /\ cf' = Front(Front(cf))
  BY <1>3 DEF Repeat, Here
<1>5. Placed(n + 1, Append(sequence, n + 1), cf)
  BY <1>1, PlaceOne
<1>6. Placed(n + 1, Append(Append(sequence, n + 1), f), Front(cf)) /\ f \in 1..(n + 1)
  BY <1>3, <1>5, PlaceSettled
<1>7. sequence' = Append(Append(sequence, n + 1), f)
  <2> DEFINE g == n + 1
  <2>1. g \in Nat /\ f \in Nat
    BY <1>1, <1>6
  <2>2. \A s \in Seq(Nat), a, b \in Nat : s \o <<a, b>> = Append(Append(s, a), b)
    OBVIOUS
  <2> HIDE DEF g, f
  <2>3. sequence \o <<g, f>> = Append(Append(sequence, g), f)
    BY <1>1, <2>1, <2>2
  <2> QED BY <1>4, <2>3 DEF g
<1>8. /\ Front(cf) \in Seq(Construct) /\ Front(cf) # <<>>
      /\ Last(Front(cf)).type = "BEGIN"
      /\ Targets(frags, Front(cf)) /\ OnBegin(Front(cf))
  <2>1. /\ Front(cf) \in Seq(Construct) /\ Len(Front(cf)) = Len(cf) - 1
        /\ Front(cf)[Len(cf) - 1] = cf[Len(cf) - 1]
    <3>1. Len(cf) - 1 \in 1..(Len(cf) - 1)
      BY <1>1
    <3> QED BY <1>1, <3>1, Popped
  <2>2. Front(cf) # <<>> /\ cf[Len(cf) - 1].type = "BEGIN"
    BY <1>1, <2>1 DEF BelowTop
  <2> QED BY <1>1, <2>1, <2>2, Closing DEF Last
<1>9. Placed(n + 1, sequence', cf')
  BY <1>4, <1>6, <1>7, <1>8, ClosedLoop DEF Owing
<1>10. Targets(frags', cf') /\ OnBegin(cf')
  BY <1>1, <1>2, <1>4, <1>8, Closing, TargetsKept
<1>11. /\ Extends(sequence, sequence', 1 + 1) /\ Last(sequence') = f
  <2> DEFINE s == Append(sequence, n + 1)
  <2>1. n + 1 \in Nat /\ f \in Nat
    BY <1>1, <1>6
  <2>2. s \in Seq(Nat) /\ Extends(sequence, s, 1)
    BY <1>1, <2>1, AppendedNat
  <2> HIDE DEF s
  <2>3. Extends(s, sequence', 1) /\ Last(sequence') = f
    BY <1>7, <2>1, <2>2, AppendedNat, LastOfAppend DEF s
  <2> QED BY <1>1, <2>2, <2>3, PrefixTwice
<1>12. ~AtLocation(frags', sequence')
  <2>1. Len(cf) \in 1..Len(cf)
    BY <1>1
  <2>2. f \in 1..n /\ frags[f].op = "BRANCH_LOCATION"
    BY <1>1, <2>1 DEF Targets, Last
  <2>3. frags'[f] = frags[f]
    BY <1>2, <2>2 DEF Extends
  <2> QED BY <1>11, <2>2, <2>3 DEF AtLocation
<1>13. Prefix(sequence, sequence')
  BY <1>11 DEF Prefix
<1> QED BY <1>2, <1>9, <1>10, <1>12, <1>13 DEF CodeStep, CodeOK, Prefix

(* The steps that neither fail nor end the source. *)
Compiles ==
    \/ \E w \in Vocabulary : UseName(w) \/ UseBuiltin(w) \/ UseRuntime(w) \/ Plain(w) \/ Skip(w)
    \/ \E w \in Vocabulary, n \in Names : Declare(w, n)
    \/ \E n \in Names : Colon(n) \/ Tick(n) \/ CTick(n)
    \/ Semicolon \/ Exit \/ Recurse
    \/ \E s \in Signatures : Comment(s)
    \/ \E w \in Vocabulary, s \in Strings : String(w, s)
    \/ If \/ Then \/ Else \/ Do \/ Loop \/ Begin \/ Until \/ While \/ Repeat \/ Again

(* A step reads a word that compiles, fails, or ends the source.           *)
LEMMA NextCases ==
    ASSUME Next
    PROVE  \/ Compiles
           \/ \E w \in Vocabulary, n \in Names \cup {NoName} : Fail(w, n)
           \/ Finish \/ FinishEarly
  BY DEF Next, Compiles

(* A word that compiles is read while reading, and reading goes on.        *)
LEMMA CompilesReads ==
    ASSUME Compiles
    PROVE  ret = "reading" /\ ret' = "reading"
<1>1. \A w, n : Accepts(w, n) => ret = "reading" /\ ret' = "reading"
  BY DEF Accepts, Reads
<1>2. \A w : UseName(w) => ret = "reading" /\ ret' = "reading"
  BY DEF UseName, Reads
<1> QED BY <1>1, <1>2 DEF Compiles, UseBuiltin, UseRuntime, Plain, Skip, Declare, Colon,
             Tick, CTick, Semicolon, Exit, Recurse, Comment, String, If, Then, Else, Do,
             Loop, Begin, Until, While, Repeat, Again, Forward, Backward, Control

(* A word that adds no code is a CodeStep.                                 *)
LEMMA SameCode ==
    ASSUME CodeOK(frags, sequence, cf), UNCHANGED <<code, cf>>
    PROVE  CodeStep
<1>1. Len(frags) \in Nat /\ Len(sequence) \in Nat
  BY LenProperties DEF CodeOK, AnySeq, Placed, Shapes
<1>2. UNCHANGED <<frags, sequence, cf>>
  BY DEF code
<1>3. Extends(frags, frags', 0) /\ Extends(sequence, sequence', 0)
  BY <1>1, <1>2 DEF Extends
<1> QED BY <1>2, <1>3 DEF CodeStep, Prefix, code

(* A colon emits the word's location behind everything that is there.      *)
LEMMA ColonCode ==
    ASSUME CodeOK(frags, sequence, cf), NEW n, Colon(n)
    PROVE  /\ CodeOK(frags', sequence', cf')
           /\ Prefix(frags, frags') /\ Prefix(sequence, sequence')
           /\ Len(sequence') = Len(sequence) + 1
           /\ sequence'[Len(sequence) + 1] = Len(frags) + 1
<1> DEFINE f == [op |-> "DEFINED_WORD_LOCATION", param |-> 0, inWord |-> TRUE]
<1>1. AnySeq(<<f>>) /\ Len(<<f>>) = 1
  BY Tuples
<1>2. Emit(<<f>>) /\ UNCHANGED cf
  BY DEF Colon
<1> HIDE DEF f
<1>3. /\ AnySeq(frags') /\ Placed(Len(frags'), sequence', cf)
      /\ Prefix(frags, frags') /\ Prefix(sequence, sequence')
      /\ Len(sequence') = Len(sequence) + 1
      /\ \A i \in 1..1 : sequence'[Len(sequence) + i] = Len(frags) + i
      /\ Targets(frags', cf) /\ OnBegin(cf)
  BY <1>1, <1>2, Emitting
<1> QED BY <1>2, <1>3 DEF CodeOK

(* Two fragments and one more, or none, in one tuple.                      *)
LEMMA Concats ==
    ASSUME NEW a, NEW b, NEW c
    PROVE  <<a, b>> \o <<c>> = <<a, b, c>> /\ <<a, b>> \o <<>> = <<a, b>>
<1> DEFINE S == {a, b, c}
           x == <<a, b>>
           y == <<c>>
           z == <<a, b, c>>
<1>1. x \in Seq(S) /\ y \in Seq(S) /\ z \in Seq(S) /\ Len(x) = 2 /\ Len(y) = 1 /\ Len(z) = 3
      /\ x[1] = z[1] /\ x[2] = z[2] /\ y[1] = z[3]
  OBVIOUS
<1> HIDE DEF S, x, y, z
<1>2. /\ x \o y \in Seq(S) /\ Len(x \o y) = 2 + 1
      /\ \A i \in 1..2 + 1 : (x \o y)[i] = IF i <= 2 THEN x[i] ELSE y[i - 2]
  BY <1>1, ConcatProperties
<1>3. \A i \in 1..3 : (x \o y)[i] = z[i]
  <2>1. (x \o y)[1] = x[1] /\ (x \o y)[2] = x[2] /\ (x \o y)[3] = y[1]
    BY <1>2
  <2>2. \A i \in 1..3 : i = 1 \/ i = 2 \/ i = 3
    OBVIOUS
  <2> QED BY <1>1, <2>1, <2>2
<1>4. x \o y = z
  BY <1>1, <1>2, <1>3, SeqEqual
<1>5. x \o <<>> = x
  BY <1>1, ConcatEmptySeq
<1> QED BY <1>4, <1>5 DEF x, y, z

(* A string literal is a CodeStep.                                         *)
LEMMA StringCode ==
    ASSUME CodeOK(frags, sequence, cf), NEW w, NEW s, String(w, s)
    PROVE  CodeStep
<1> DEFINE a == Frag("PUSH_DATA_ADDRESS", Offset(strings', Find(strings', s)))
           b == Frag("PUSH_LITERAL", Length(s))
           c == Frag("RUNTIME_WORD", Find(runtime', "type"))
<1>1. b.op = "PUSH_LITERAL" /\ c.op = "RUNTIME_WORD"
  BY DEF Frag
<1>2. UNCHANGED cf /\ Emit(<<a, b>> \o IF w = ".\"" THEN <<c>> ELSE <<>>)
  BY DEF String
<1> HIDE DEF a, b, c
<1>3. <<a, b>> \o <<c>> = <<a, b, c>> /\ <<a, b>> \o <<>> = <<a, b>>
  BY Concats
<1>4. CASE w = ".\""
  <2> DEFINE new == <<a, b, c>>
  <2>1. Emit(new)
    BY <1>2, <1>3, <1>4
  <2>2. AnySeq(new) /\ Len(new) = 3 /\ new[3] = c
    BY Tuples
  <2> HIDE DEF new
  <2>3. Len(new) > 0 /\ new[Len(new)].op # "DEFINED_WORD_LOCATION"
    BY <1>1, <2>2
  <2> QED BY <1>2, <2>1, <2>2, <2>3, EmitOnly
<1>5. CASE w # ".\""
  <2> DEFINE new == <<a, b>>
  <2>1. Emit(new)
    BY <1>2, <1>3, <1>5
  <2>2. AnySeq(new) /\ Len(new) = 2 /\ new[2] = b
    BY Tuples
  <2> HIDE DEF new
  <2>3. Len(new) > 0 /\ new[Len(new)].op # "DEFINED_WORD_LOCATION"
    BY <1>1, <2>2
  <2> QED BY <1>2, <2>1, <2>2, <2>3, EmitOnly
<1> QED BY <1>4, <1>5

(* Every word that compiles, but a colon, is a CodeStep.                   *)
LEMMA CompilesCode ==
    ASSUME CodeOK(frags, sequence, cf), defining \in BOOLEAN, Compiles,
           ~ \E n \in Names : Colon(n)
    PROVE  CodeStep
<1>1. ASSUME NEW w, UseName(w)
      PROVE  CodeStep
  <2>1. UNCHANGED cf /\ \E p : Emit1("DEFINED_WORD", p) \/ Emit1("USE_VARIABLE_OR_CONSTANT", p)
    BY <1>1 DEF UseName
  <2> QED BY <2>1, EmitOne
<1>2. ASSUME NEW w, UseBuiltin(w)
      PROVE  CodeStep
  <2>1. UNCHANGED cf /\ \E p : Emit1("BUILTIN_WORD", p)
    BY <1>2 DEF UseBuiltin
  <2> QED BY <2>1, EmitOne
<1>3. ASSUME NEW w, UseRuntime(w)
      PROVE  CodeStep
  BY <1>3, EmitOne DEF UseRuntime
<1>4. ASSUME NEW w, Plain(w)
      PROVE  CodeStep
  <2>1. PlainOps[w] # "DEFINED_WORD_LOCATION"
    BY <1>4 DEF Plain, PlainOps
  <2> QED BY <1>4, <2>1, EmitOne DEF Plain
<1>5. ASSUME NEW w, Skip(w)
      PROVE  CodeStep
  BY <1>5, SameCode DEF Skip
<1>6. ASSUME NEW w, NEW n, Declare(w, n)
      PROVE  CodeStep
  <2>1. UNCHANGED cf /\ \E p : Emit1("DECLARE_CONSTANT", p) \/ Emit1("DECLARE_VARIABLE", p)
    BY <1>6 DEF Declare
  <2> QED BY <2>1, EmitOne
<1>7. ASSUME NEW n, Tick(n)
      PROVE  CodeStep
  BY <1>7, EmitOne DEF Tick
<1>8. ASSUME NEW n, CTick(n)
      PROVE  CodeStep
  BY <1>8, EmitOne DEF CTick
<1>9. CASE Semicolon
  BY <1>9, EmitOne DEF Semicolon
<1>10. CASE Exit
  BY <1>10, EmitOne DEF Exit
<1>11. CASE Recurse
  BY <1>11, EmitOne DEF Recurse
<1>12. ASSUME NEW s, Comment(s)
       PROVE  CodeStep
  BY <1>12, SameCode DEF Comment
<1>13. ASSUME NEW w, NEW s, String(w, s)
       PROVE  CodeStep
  BY <1>13, StringCode
<1>14. CASE If
  BY <1>14, ForwardStep DEF If
<1>15. CASE Then
  BY <1>15, ThenStep, ClosingGuards DEF Then, Control
<1>16. CASE Else
  BY <1>16, ElseStep, ClosingGuards DEF Else, Control
<1>17. CASE Do
  <2> DEFINE new == <<Frag("DO", 0), Pending>>
  <2>1. Emit(new) /\ cf' = Append(cf, Entry("DO", Here + 1))
    BY <1>17 DEF Do, Push, Entry
  <2>2. AnySeq(new) /\ Len(new) = 2 /\ new[Len(new)].op = "BRANCH_LOCATION"
    BY Tuples DEF Pending, Frag
  <2> HIDE DEF new
  <2>3. Here + 1 = Len(frags) + Len(new) /\ Len(new) > 0
    <3>1. Len(frags) \in Nat
      BY LenProperties DEF CodeOK, AnySeq
    <3> QED BY <3>1, <2>2 DEF Here
  <2> QED BY <2>1, <2>2, <2>3, LoopOpened
<1>18. CASE Begin
  <2> DEFINE new == <<Pending>>
  <2>1. Emit(new) /\ cf' = Append(cf, Entry("BEGIN", Here))
    BY <1>18 DEF Begin, Push, Entry
  <2>2. AnySeq(new) /\ Len(new) = 1 /\ new[Len(new)].op = "BRANCH_LOCATION"
    BY Tuples DEF Pending, Frag
  <2> HIDE DEF new
  <2>3. Here = Len(frags) + Len(new) /\ Len(new) > 0
    BY <2>2 DEF Here
  <2> QED BY <2>1, <2>2, <2>3, LoopOpened
<1>19. CASE Loop
  <2>1. cf # <<>> /\ Top.type = "DO" /\ Top = Last(cf)
    BY <1>19, ClosingGuards DEF Loop, Backward, Control, Top
  <2> QED BY <1>19, <2>1, LoopClosed DEF Loop, Backward, Owing
<1>20. ASSUME Until \/ Again
       PROVE  CodeStep
  <2>1. cf # <<>> /\ Top.type = "BEGIN" /\ Top = Last(cf)
    BY <1>20, ClosingGuards DEF Until, Again, Backward, Control, Top
  <2> QED BY <1>20, <2>1, LoopClosed DEF Until, Again, Backward, Owing
<1>21. CASE While
  <2>1. cf # <<>> /\ Top.type = "BEGIN" /\ Top = Last(cf)
    BY <1>21, ClosingGuards DEF While, Forward, Control, Top
  <2> QED BY <1>21, <2>1, ForwardStep DEF While
<1>22. CASE Repeat
  BY <1>22, RepeatStep, RepeatGuard DEF Repeat, Control
<1> QED BY <1>1, <1>2, <1>3, <1>4, <1>5, <1>6, <1>7, <1>8, <1>9, <1>10, <1>11, <1>12,
           <1>13, <1>14, <1>15, <1>16, <1>17, <1>18, <1>19, <1>20, <1>21, <1>22 DEF Compiles

-----------------------------------------------------------------------------
(* The inductive invariant, and the theorems that follow from it.          *)

(* An entry of the table of defined words.                                 *)
Word == [name : Names, frag : Nat, flags : SUBSET {"calls", "loops"}, sig : Seq(Nat)]

(* The types of the name tables.                                           *)
TablesOK ==
    /\ defining \in BOOLEAN /\ words \in Seq(Word) /\ AnySeq(callbacks)
    /\ AnySeq(runtime) /\ AnySeq(variables)

(* Setting flags of the word being defined changes no name, place or       *)
(* signature.                                                              *)
LEMMA Flagging ==
    ASSUME words \in Seq(Word), NEW which \in SUBSET {"calls", "loops"}, Flag(which)
    PROVE  /\ words' \in Seq(Word) /\ Len(words') = Len(words)
           /\ \A k \in 1..Len(words) : /\ words'[k].name = words[k].name
                                       /\ words'[k].frag = words[k].frag
                                      /\ words'[k].sig = words[k].sig
<1> DEFINE n == Len(words)
           e == [words[n] EXCEPT !.flags = @ \cup which]
<1>1. words' = [words EXCEPT ![n] = e]
  BY DEF Flag
<1>2. n \in Nat /\ DOMAIN words = 1..n
  BY LenProperties
<1>3. CASE n \in 1..n
  <2>1. words[n] \in Word
    BY <1>3, ElementOfSeq
  <2>2. e \in Word /\ e.name = words[n].name /\ e.frag = words[n].frag /\ e.sig = words[n].sig
    BY <2>1 DEF Word
  <2> HIDE DEF e
  <2>3. words' \in Seq(Word) /\ Len(words') = n
        /\ \A k \in 1..n : words'[k] = IF k = n THEN e ELSE words[k]
    BY <1>1, <1>3, <2>2, ExceptSeq
  <2> QED BY <2>2, <2>3
<1>4. CASE n \notin 1..n
  <2>1. words \in [1..n -> Word]
    BY LenProperties
  <2>2. words' = words
    BY <1>1, <1>2, <1>4, <2>1
  <2> QED BY <2>2
<1> QED BY <1>3, <1>4

(* ws is words with, at most, another signature on the last word.          *)
Signed(ws) ==
    /\ ws \in Seq(Word) /\ Len(ws) = Len(words)
    /\ \A k \in 1..Len(words) :
          /\ ws[k].name = words[k].name /\ ws[k].frag = words[k].frag
          /\ ws[k].sig # words[k].sig => k = Len(words)

(* Giving the word being defined a signature changes no other signature.   *)
LEMMA Signing ==
    ASSUME words \in Seq(Word), NEW s \in Seq(Nat),
           words' = [words EXCEPT ![Len(words)].sig = s]
    PROVE  Signed(words')
<1> DEFINE n == Len(words)
           e == [words[n] EXCEPT !.sig = s]
<1>1. words' = [words EXCEPT ![n] = e]
  OBVIOUS
<1>2. n \in Nat /\ DOMAIN words = 1..n
  BY LenProperties
<1>3. CASE n \in 1..n
  <2>1. words[n] \in Word
    BY <1>3, ElementOfSeq
  <2>2. e \in Word /\ e.name = words[n].name /\ e.frag = words[n].frag
    BY <2>1 DEF Word
  <2> HIDE DEF e
  <2> DEFINE v == [words EXCEPT ![n] = e]
  <2>3. v \in Seq(Word) /\ Len(v) = n
        /\ \A k \in 1..n : v[k] = IF k = n THEN e ELSE words[k]
    BY <1>3, <2>2, ExceptSeq
  <2>4. words' = v
    BY <1>1
  <2> HIDE DEF v
  <2>5. Signed(v)
    BY <2>2, <2>3 DEF Signed
  <2> QED BY <2>4, <2>5
<1>4. CASE n \notin 1..n
  <2>1. words \in [1..n -> Word]
    BY LenProperties
  <2>2. words' = words
    BY <1>1, <1>2, <1>4, <2>1
  <2>3. Signed(words)
    BY DEF Signed
  <2> QED BY <2>2, <2>3
<1> QED BY <1>3, <1>4

(* The step adds neither code nor a callback.                              *)
Untouched == UNCHANGED <<code, callbacks>>

(* ws is words with, at most, other flags and, on the last word, another   *)
(* signature, given where a comment may give it.                           *)
Kept(ws) ==
    /\ ws \in Seq(Word) /\ Len(ws) = Len(words)
    /\ \A k \in 1..Len(words) :
          /\ ws[k].name = words[k].name /\ ws[k].frag = words[k].frag
          /\ ws[k].sig # words[k].sig => k = Len(words) /\ AtWordStart /\ Untouched

(* exit and semicolon keep the defined words but for flags.                *)
LEMMA KeptByFlags ==
    ASSUME words \in Seq(Word), NEW which \in SUBSET {"calls", "loops"}, Flag(which)
    PROVE  Kept(words')
BY Flagging DEF Kept

(* Signing where a comment may sign is allowed by Kept.                    *)
LEMMA SignedKept ==
    ASSUME NEW ws, Signed(ws), AtWordStart, Untouched
    PROVE  Kept(ws)
BY DEF Signed, Kept

(* A comment at the start of a word keeps the defined words but for its    *)
(* signature.                                                              *)
LEMMA KeptBySigning ==
    ASSUME words \in Seq(Word), NEW s \in Seq(Nat), AtWordStart, Untouched,
           words' = [words EXCEPT ![Len(words)].sig = s]
    PROVE  Kept(words')
<1>1. Signed(words')
  BY Signing
<1> QED BY <1>1, SignedKept

(* What a word of the source that is not a colon does to the defined words. *)
LEMMA WordsKept ==
    ASSUME words \in Seq(Word), Compiles, ~ \E n \in Names : Colon(n)
    PROVE  Kept(words')
<1>1. words' = words => Kept(words')
  BY DEF Kept
<1>2. ASSUME Exit \/ Semicolon
      PROVE  Kept(words')
  <2>1. \E which \in SUBSET {"calls", "loops"} : Flag(which)
    <3>1. CallsFlag \in SUBSET {"calls", "loops"}
      BY DEF CallsFlag
    <3> QED BY <1>2, <3>1 DEF Exit, Semicolon
  <2> QED BY <2>1, KeptByFlags
<1>3. ASSUME NEW s \in Signatures, Comment(s)
      PROVE  Kept(words')
  <2> DEFINE g == <<Capped(s[1], 31), Capped(s[2], 3)>>
  <2>1. g \in Seq(Nat)
    BY CompilerAssumption DEF Capped
  <2>2. Untouched
    BY <1>3 DEF Comment, tables, Untouched
  <2>3. CASE AtWordStart
    <3>1. words' = [words EXCEPT ![Len(words)].sig = g]
      BY <1>3, <2>3 DEF Comment
    <3> HIDE DEF g
    <3> QED BY <2>1, <2>2, <2>3, <3>1, KeptBySigning
  <2>4. CASE ~AtWordStart
    BY <1>3, <2>4, <1>1 DEF Comment
  <2> QED BY <2>3, <2>4
<1>4. \/ words' = words \/ Exit \/ Semicolon \/ \E s \in Signatures : Comment(s)
  BY DEF Compiles, UseName, UseBuiltin, UseRuntime, Plain, Skip, Declare,
         Tick, CTick, Recurse, String, If, Then, Else, Do,
         Loop, Begin, Until, While, Repeat, Again, Forward, Backward, Control
<1> QED BY <1>1, <1>2, <1>3, <1>4

(* Entering a name into a table keeps the table's entries and adds the     *)
(* name, at most.                                                          *)
LEMMA Interned ==
    ASSUME NEW s, AnySeq(s), NEW x
    PROVE  /\ AnySeq(Intern(s, x)) /\ Elems(Intern(s, x)) = Elems(s) \cup {x}
           /\ Prefix(s, Intern(s, x))
<1>1. CASE x \in Elems(s)
  <2>1. Intern(s, x) = s /\ Len(s) \in Nat
    BY <1>1, LenProperties DEF Intern, AnySeq
  <2>2. Extends(s, s, 0)
    BY <2>1 DEF Extends
  <2> QED BY <1>1, <2>1, <2>2 DEF Prefix
<1>2. CASE x \notin Elems(s)
  <2>1. Intern(s, x) = Append(s, x)
    BY <1>2 DEF Intern
  <2> DEFINE t == Append(s, x)
  <2>2. AnySeq(t) /\ Len(s) \in Nat /\ Extends(s, t, 1) /\ t[Len(s) + 1] = x
    BY Appended
  <2> HIDE DEF t
  <2>3. DOMAIN t = 1..(Len(s) + 1) /\ DOMAIN s = 1..Len(s) /\ \A i \in 1..Len(s) : t[i] = s[i]
    BY <2>2, LenProperties DEF AnySeq, Extends
  <2>4. Elems(t) = Elems(s) \cup {x}
    <3>1. \A i \in 1..(Len(s) + 1) : i \in 1..Len(s) \/ i = Len(s) + 1
      BY <2>2
    <3>2. \A i \in 1..Len(s) : i \in 1..(Len(s) + 1)
      BY <2>2
    <3>3. Len(s) + 1 \in 1..(Len(s) + 1)
      BY <2>2
    <3> QED BY <2>2, <2>3, <3>1, <3>2, <3>3 DEF Elems
  <2> QED BY <2>1, <2>2, <2>4 DEF t, Prefix
<1> QED BY <1>1, <1>2

(* The names of the defined words, by index.                               *)
LEMMA Numbering ==
    ASSUME words \in Seq(Word)
    PROVE  /\ AnySeq(WordNames) /\ Len(WordNames) = Len(words) /\ Len(words) \in Nat
           /\ \A k \in 1..Len(words) : WordNames[k] = words[k].name
           /\ DOMAIN words = 1..Len(words)
<1>1. DOMAIN words = 1..Len(words) /\ Len(words) \in Nat
      /\ \A k \in 1..Len(words) : words[k] \in Word
  BY LenProperties
<1>2. \A k \in 1..Len(words) : words[k].name \in Names
  BY <1>1 DEF Word
<1>3. WordNames \in [1..Len(words) -> Names]
  BY <1>1, <1>2 DEF WordNames
<1>4. WordNames \in Seq(Names) /\ Len(WordNames) = Len(words)
  BY <1>1, <1>3, SeqDef
<1> QED BY <1>1, <1>4, SomeSeq DEF WordNames

(* Each defined word's location is emitted where its index says.           *)
Located ==
    \A k \in 1..Len(words) : /\ words[k].frag \in 1..Len(sequence)
                             /\ sequence[words[k].frag] = words[k].frag

(* A signature c' accepts.                                                 *)
Callable(g) == g # <<>> /\ g[1] \in 1..8 /\ g[2] <= 1

CallbacksOK ==
    \A k \in Elems(callbacks) : k \in 1..Len(words) /\ Callable(words[k].sig)

(* A word whose signature may still be given is not a callback yet.        *)
Fresh == AtWordStart => Len(words) \notin Elems(callbacks)

(* The inductive invariant.                                                *)
CompilerInv ==
    /\ TablesOK
    /\ ret # "compiled" => CodeOK(frags, sequence, cf)
    /\ ret = "compiled" => cf = <<>>
    /\ ret = "reading" => Located /\ Fresh
    /\ CallbacksOK

(* The empty code is in order.                                             *)
LEMMA NoCode == CodeOK(<<>>, <<>>, <<>>)
<1>1. AnySeq(<<>>) /\ Len(<<>>) = 0
  BY Tuples
<1>2. Owes(<<>>) = {} /\ <<>> \in Seq(Nat) /\ <<>> \in Seq(Construct)
  BY DEF Owes
<1>3. Placed(0, <<>>, <<>>)
  BY <1>1, <1>2 DEF Placed, Shapes, Once, OwedOnce, Apart
<1>4. Targets(<<>>, <<>>) /\ OnBegin(<<>>)
  BY DEF Targets, OnBegin
<1> QED BY <1>1, <1>3, <1>4 DEF CodeOK

(* The initial code, the ENTRY fragment, is in order.                      *)
LEMMA EntryCode == Init => CodeOK(frags, sequence, cf)
<1> HAVE Init
<1> DEFINE e == [op |-> "ENTRY", param |-> 0, inWord |-> FALSE]
<1>1. frags = <<e>> /\ sequence = <<1>> /\ cf = <<>>
  BY DEF Init
<1> HIDE DEF e
<1>2. AnySeq(<<e>>) /\ Len(<<e>>) = 1 /\ Len(<<>>) = 0
  BY Tuples
<1>3. Placed(0, <<>>, <<>>)
  BY NoCode, <1>2 DEF CodeOK
<1>4. Append(<<>>, 0 + 1) = <<1>> /\ 0 + 1 = 1
  OBVIOUS
<1>5. Placed(0 + 1, Append(<<>>, 0 + 1), <<>>)
  BY <1>3, PlaceOne
<1>6. Placed(1, <<1>>, <<>>)
  BY <1>4, <1>5
<1>7. Targets(<<e>>, <<>>) /\ OnBegin(<<>>)
  BY DEF Targets, OnBegin
<1> QED BY <1>1, <1>2, <1>6, <1>7 DEF CodeOK

(* Facts of the empty table.                                               *)
LEMMA NoTables ==
    /\ AnySeq(<<>>) /\ Elems(<<>>) = {} /\ <<>> \in Seq(Word)
    /\ Len(<<>>) = 0 /\ 1..Len(<<>>) = {}
<1>1. AnySeq(<<>>) /\ Len(<<>>) = 0
  BY Tuples
<1>2. <<>> \in Seq(Word)
  OBVIOUS
<1>3. DOMAIN <<>> = 1..Len(<<>>) /\ 1..Len(<<>>) = {}
  BY <1>1, <1>2, LenProperties
<1> QED BY <1>1, <1>2, <1>3 DEF Elems

(* The invariant holds at the start.                                       *)
LEMMA InitInv == Init => CompilerInv
<1> HAVE Init
<1>1. /\ words = <<>> /\ callbacks = <<>> /\ runtime = <<>> /\ variables = <<>>
      /\ ret = "reading" /\ defining = FALSE
  BY DEF Init
<1>2. TablesOK
  BY <1>1, NoTables DEF TablesOK
<1>3. Located /\ CallbacksOK
  BY <1>1, NoTables DEF Located, CallbacksOK
<1>4. Fresh
  BY <1>1 DEF Fresh, AtWordStart
<1> QED BY <1>1, <1>2, <1>3, <1>4, EntryCode DEF CompilerInv

(* It holds after an error: everything is freed.                           *)
LEMMA AbandonInv ==
    ASSUME NEW error, Abandon(error)
    PROVE  CompilerInv'
<1>1. /\ words' = <<>> /\ callbacks' = <<>> /\ runtime' = <<>> /\ variables' = <<>>
      /\ defining' = FALSE /\ cf' = <<>> /\ frags' = <<>> /\ sequence' = <<>>
  BY DEF Abandon
<1>2. TablesOK'
  BY <1>1, NoTables DEF TablesOK
<1>3. Located' /\ CallbacksOK'
  BY <1>1, NoTables DEF Located, CallbacksOK
<1>4. Fresh'
  BY <1>1 DEF Fresh, AtWordStart
<1>5. CodeOK(frags', sequence', cf')
  BY <1>1, NoCode
<1> QED BY <1>1, <1>2, <1>3, <1>4, <1>5 DEF CompilerInv

(* The steps that enter a name into a table, or a callback.                *)
Colons == \E n \in Names : Colon(n)
Declares == \E w \in {"variable", "constant"}, n \in Names : Declare(w, n)
CTicks == \E n \in Names : CTick(n)

(* Which tables a word of the source changes, and how. *)
LEMMA TablesStep ==
    ASSUME Compiles
    PROVE  /\ runtime' = runtime \/ \E x : runtime' = Intern(runtime, x)
           /\ variables' = variables \/ Declares
           /\ callbacks' = callbacks \/ CTicks
           /\ Colons \/ defining' = defining \/ defining' = FALSE
<1>1. runtime' = runtime \/ \E x : runtime' = Intern(runtime, x)
  BY DEF Compiles, UseName, UseBuiltin, UseRuntime, Plain, Skip, Declare, Colon,
         Tick, CTick, Semicolon, Exit, Recurse, Comment, String, If, Then, Else, Do,
         Loop, Begin, Until, While, Repeat, Again, Forward, Backward, Control, tables
<1>2. variables' = variables \/ Declares
  <2>1. (\E w \in Vocabulary, n \in Names : Declare(w, n)) => Declares
    BY DEF Declare, Declares
  <2> QED BY <2>1
       DEF Compiles, UseName, UseBuiltin, UseRuntime, Plain, Skip, Colon,
         Tick, CTick, Semicolon, Exit, Recurse, Comment, String, If, Then, Else, Do,
         Loop, Begin, Until, While, Repeat, Again, Forward, Backward, Control, tables
<1>3. callbacks' = callbacks \/ CTicks
  <2>1. (\E n \in Names : CTick(n)) => CTicks
    BY DEF CTicks
  <2> QED BY <2>1
       DEF Compiles, UseName, UseBuiltin, UseRuntime, Plain, Skip, Declare, Colon,
         Tick, Semicolon, Exit, Recurse, Comment, String, If, Then, Else, Do,
         Loop, Begin, Until, While, Repeat, Again, Forward, Backward, Control, tables
<1>4. Colons \/ defining' = defining \/ defining' = FALSE
  <2>1. (\E n \in Names : Colon(n)) => Colons
    BY DEF Colons
  <2> QED BY <2>1
       DEF Compiles, UseName, UseBuiltin, UseRuntime, Plain, Skip, Declare,
         Tick, CTick, Semicolon, Exit, Recurse, Comment, String, If, Then, Else, Do,
         Loop, Begin, Until, While, Repeat, Again, Forward, Backward, Control, tables
<1> QED BY <1>1, <1>2, <1>3, <1>4

(* A word that compiles keeps the tables' types.                           *)
LEMMA TablesTyped ==
    ASSUME TablesOK, Compiles
    PROVE  /\ AnySeq(runtime') /\ AnySeq(variables') /\ AnySeq(callbacks')
           /\ defining' \in BOOLEAN
<1>1. AnySeq(runtime) /\ AnySeq(variables) /\ AnySeq(callbacks) /\ defining \in BOOLEAN
  BY DEF TablesOK
<1>2. AnySeq(runtime')
  BY <1>1, TablesStep, Interned
<1>3. AnySeq(variables')
  <2>1. Declares => \E x : variables' = Append(variables, x)
    BY DEF Declares, Declare
  <2> QED BY <1>1, <2>1, TablesStep, Appended
<1>4. AnySeq(callbacks')
  <2>1. CTicks => \E x : callbacks' = Intern(callbacks, x)
    BY DEF CTicks, CTick
  <2> QED BY <1>1, <2>1, TablesStep, Interned
<1>5. defining' \in BOOLEAN
  <2>1. Colons => defining' = TRUE
    BY DEF Colons, Colon
  <2> QED BY <1>1, <2>1, TablesStep
<1> QED BY <1>2, <1>3, <1>4, <1>5

(* The word a colon enters, behind the words there are.                    *)
LEMMA ColonWord ==
    ASSUME words \in Seq(Word), Len(frags) \in Nat, NEW n \in Names, Colon(n)
    PROVE  /\ words' \in Seq(Word) /\ Len(words') = Len(words) + 1 /\ Len(words) \in Nat
           /\ \A k \in 1..Len(words) : words'[k] = words[k]
           /\ words'[Len(words) + 1].frag = Len(frags) + 1
           /\ words'[Len(words) + 1].name = n
<1> DEFINE e == [name |-> n, frag |-> Len(frags) + 1, flags |-> {}, sig |-> <<>>]
<1>1. words' = Append(words, e)
  BY DEF Colon
<1>2. e \in Word /\ e.frag = Len(frags) + 1 /\ e.name = n
  BY DEF Word
<1> HIDE DEF e
<1> QED BY <1>1, <1>2, AppendProperties, LenProperties

(* A colon preserves the invariant: with no construct open all fragments   *)
(* are emitted, so the new location's index is its place.                  *)
LEMMA ColonInv ==
    ASSUME CompilerInv, NEW n \in Names, Colon(n)
    PROVE  CompilerInv'
<1>1. /\ ret = "reading" /\ ret' = "reading" /\ defining \in BOOLEAN
      /\ UNCHANGED <<cf, callbacks, runtime, variables>> /\ defining' = TRUE
  BY DEF CompilerInv, TablesOK, Colon, Accepts, Reads, tables
<1>2. TablesOK /\ CodeOK(frags, sequence, cf) /\ Located /\ CallbacksOK
  BY <1>1 DEF CompilerInv
<1>3. cf = <<>>
  BY <1>1, ColonGuard DEF Colon
<1>4. Len(sequence) = Len(frags) /\ Len(frags) \in Nat
  <2>1. Placed(Len(frags), sequence, <<>>)
    BY <1>2, <1>3 DEF CodeOK
  <2> QED BY <2>1, AllPlaced DEF Placed, Shapes
<1>5. /\ words' \in Seq(Word) /\ Len(words') = Len(words) + 1 /\ Len(words) \in Nat
      /\ \A k \in 1..Len(words) : words'[k] = words[k]
      /\ words'[Len(words) + 1].frag = Len(frags) + 1
  BY <1>2, <1>4, ColonWord DEF TablesOK
<1>6. /\ CodeOK(frags', sequence', cf') /\ Prefix(sequence, sequence')
      /\ Len(sequence') = Len(sequence) + 1
      /\ sequence'[Len(sequence) + 1] = Len(frags) + 1
  BY <1>2, ColonCode
<1>7. TablesOK'
  BY <1>1, <1>2, <1>5 DEF TablesOK
<1>8. Located'
  <2> SUFFICES ASSUME NEW k \in 1..Len(words')
               PROVE  /\ words'[k].frag \in 1..Len(sequence')
                      /\ sequence'[words'[k].frag] = words'[k].frag
    BY DEF Located
  <2>1. CASE k = Len(words) + 1
    BY <2>1, <1>4, <1>5, <1>6
  <2>2. CASE k \in 1..Len(words)
    <3>1. words[k].frag \in 1..Len(sequence) /\ sequence[words[k].frag] = words[k].frag
      BY <2>2, <1>2 DEF Located
    <3>2. sequence'[words[k].frag] = sequence[words[k].frag]
      BY <3>1, <1>6 DEF Prefix, Extends
    <3> QED BY <2>2, <3>1, <3>2, <1>4, <1>5, <1>6
  <2> QED BY <2>1, <2>2, <1>5
<1>9. CallbacksOK'
  BY <1>1, <1>2, <1>5 DEF CallbacksOK
<1>10. Fresh'
  BY <1>1, <1>2, <1>5 DEF CallbacksOK, Fresh
<1> QED BY <1>1, <1>6, <1>7, <1>8, <1>9, <1>10 DEF CompilerInv

(* c' adds a callback with an accepted signature.                          *)
LEMMA CTickWord ==
    ASSUME TablesOK, CallbacksOK, NEW n \in Names, CTick(n)
    PROVE  CallbacksOK'
<1> DEFINE j == Find(WordNames, n)
<1>1. callbacks' = Intern(callbacks, j) /\ words' = words /\ Accepts("c'", n)
  BY DEF CTick
<1>2. /\ words \in Seq(Word) /\ AnySeq(callbacks) /\ defining \in BOOLEAN
  BY DEF TablesOK
<1>3. n \in Elems(WordNames) /\ Ready(n)
  BY <1>1, <1>2, CTickGuard
<1>4. j \in 1..Len(words)
  BY <1>2, <1>3, Numbering, FindFirst
<1>5. j \in Elems(callbacks) \/ Callable(words[j].sig)
  BY <1>3, <1>4 DEF Ready, Callable
<1> HIDE DEF j
<1>6. Elems(callbacks') = Elems(callbacks) \cup {j}
  BY <1>1, <1>2, Interned
<1> QED BY <1>1, <1>4, <1>5, <1>6 DEF CallbacksOK

(* c' emits a fragment, so no comment behind it stands at the start of the *)
(* word.                                                                   *)
LEMMA CTickEmits ==
    ASSUME CodeOK(frags, sequence, cf), NEW n, CTick(n)
    PROVE  sequence' # sequence
<1> DEFINE x == Frag("PUSH_CALLBACK", Find(callbacks', Find(WordNames, n)))
<1>1. Emit(<<x>>)
  BY DEF CTick, Emit1
<1> HIDE DEF x
<1>2. AnySeq(<<x>>) /\ Len(<<x>>) = 1
  BY Tuples
<1>3. Len(sequence') = Len(sequence) + 1 /\ Len(sequence) \in Nat
  BY <1>1, <1>2, Emitting
<1> QED BY <1>3

(* Every other word that compiles preserves the invariant.                 *)
LEMMA OtherInv ==
    ASSUME CompilerInv, Compiles, ~ \E n \in Names : Colon(n)
    PROVE  CompilerInv'
<1>1. ret = "reading" /\ ret' = "reading"
  BY CompilesReads
<1>2. TablesOK /\ CodeOK(frags, sequence, cf) /\ Located /\ CallbacksOK /\ Fresh
  BY <1>1 DEF CompilerInv
<1>3. words \in Seq(Word) /\ defining \in BOOLEAN
  BY <1>2 DEF TablesOK
<1>4. Kept(words')
  BY <1>3, WordsKept
<1>5. CodeStep
  BY <1>2, <1>3, CompilesCode
<1>6. TablesOK'
  BY <1>2, <1>4, TablesTyped DEF TablesOK, Kept
<1>7. Located'
  <2>1. PICK m \in Nat : Extends(sequence, sequence', m)
    BY <1>5 DEF CodeStep, Prefix
  <2>2. Len(sequence) \in Nat
    BY <1>2 DEF CodeOK, Placed, Shapes
  <2> SUFFICES ASSUME NEW k \in 1..Len(words)
               PROVE  /\ words'[k].frag \in 1..Len(sequence')
                      /\ sequence'[words'[k].frag] = words'[k].frag
    BY <1>4 DEF Located, Kept
  <2>3. words[k].frag \in 1..Len(sequence) /\ sequence[words[k].frag] = words[k].frag
    BY <1>2 DEF Located
  <2>4. words'[k].frag = words[k].frag
    BY <1>4 DEF Kept
  <2> QED BY <2>1, <2>2, <2>3, <2>4 DEF Extends
<1>8. CallbacksOK'
  <2>1. CASE callbacks' = callbacks
    <3> SUFFICES ASSUME NEW k \in Elems(callbacks)
                 PROVE  k \in 1..Len(words') /\ Callable(words'[k].sig)
      BY <2>1 DEF CallbacksOK
    <3>1. k \in 1..Len(words) /\ Callable(words[k].sig)
      BY <1>2 DEF CallbacksOK
    <3>2. words'[k].sig = words[k].sig
      BY <3>1, <1>2, <1>4 DEF Kept, Fresh
    <3>3. Len(words') = Len(words)
      BY <1>4 DEF Kept
    <3> QED BY <3>1, <3>2, <3>3
  <2>2. CASE CTicks
    BY <2>2, <1>2, CTickWord DEF CTicks
  <2> QED BY <2>1, <2>2, TablesStep
<1>9. Fresh'
  <2> SUFFICES ASSUME AtWordStart'
               PROVE  Len(words') \notin Elems(callbacks')
    BY DEF Fresh
  <2>1. UNCHANGED <<frags, sequence>> /\ defining'
    BY <1>5 DEF CodeStep, AtLocation, AtWordStart, code
  <2>2. callbacks' = callbacks
    BY <2>1, <1>2, TablesStep, CTickEmits DEF CTicks
  <2>3. AtWordStart
    <3>1. defining
      BY <2>1, TablesStep DEF Colons
    <3> QED BY <2>1, <3>1 DEF AtWordStart
  <2>4. Len(words') = Len(words)
    BY <1>4 DEF Kept
  <2> QED BY <2>2, <2>3, <2>4, <1>2 DEF Fresh
<1>10. CodeOK(frags', sequence', cf')
  BY <1>5 DEF CodeStep
<1> QED BY <1>1, <1>6, <1>7, <1>8, <1>9, <1>10 DEF CompilerInv

(* Every step preserves the invariant.                                     *)
LEMMA NextInv ==
    ASSUME CompilerInv, [Next]_vars
    PROVE  CompilerInv'
<1>1. ASSUME Compiles
      PROVE  CompilerInv'
  BY <1>1, ColonInv, OtherInv
<1>2. ASSUME NEW w, NEW n, Fail(w, n)
      PROVE  CompilerInv'
  <2>1. \E error : Abandon(error)
    BY <1>2 DEF Fail
  <2> QED BY <2>1, AbandonInv
<1>3. CASE Finish
  <2>1. /\ ret' = "compiled" /\ UNCHANGED <<cf, words, callbacks, runtime, variables, defining>>
        /\ cf = <<>>
    BY <1>3 DEF Finish, tables
  <2>2. TablesOK' /\ CallbacksOK'
    BY <2>1 DEF CompilerInv, TablesOK, CallbacksOK
  <2> QED BY <2>1, <2>2 DEF CompilerInv
<1>4. CASE FinishEarly
  BY <1>4, AbandonInv DEF FinishEarly
<1>5. CASE UNCHANGED vars
  BY <1>5 DEF vars, code, tables, CompilerInv, TablesOK, CallbacksOK, Located, Fresh,
              AtWordStart
<1> QED BY <1>1, <1>2, <1>3, <1>4, <1>5, NextCases

(* The invariant holds throughout every compilation, of whatever           *)
(* vocabulary and length.                                                  *)
THEOREM CompilerInvariant == Spec => []CompilerInv
<1>1. Init => CompilerInv
  BY InitInv
<1>2. CompilerInv /\ [Next]_vars => CompilerInv'
  BY NextInv
<1> QED BY <1>1, <1>2, PTL DEF Spec

-----------------------------------------------------------------------------
(* find_nstring returns an index only for a name that is in the table.     *)
LEMMA NotFound ==
    ASSUME NEW t, NEW n, Find(t, n) # 0
    PROVE  n \in Elems(t)
  BY DEF Find

(* A table that grows at the end does not move the names it has.           *)
LEMMA FindKept ==
    ASSUME NEW s, AnySeq(s), NEW t, AnySeq(t), Prefix(s, t), NEW n \in Elems(s)
    PROVE  n \in Elems(t) /\ Find(t, n) = Find(s, n)
<1> DEFINE j == Find(s, n)
           k == Find(t, n)
<1>1. PICK m \in Nat : Extends(s, t, m)
  BY DEF Prefix
<1>2. /\ DOMAIN s = 1..Len(s) /\ Len(s) \in Nat
      /\ DOMAIN t = 1..Len(t) /\ Len(t) \in Nat
      /\ Len(t) = Len(s) + m /\ \A i \in 1..Len(s) : t[i] = s[i]
  BY <1>1, LenProperties DEF AnySeq, Extends
<1>3. j \in 1..Len(s) /\ s[j] = n /\ \A i \in 1..(j - 1) : s[i] # n
  BY FindFirst
<1> HIDE DEF j
<1>4. j \in 1..Len(t) /\ t[j] = n
  BY <1>2, <1>3
<1>5. n \in Elems(t)
  BY <1>2, <1>4 DEF Elems
<1>6. k \in 1..Len(t) /\ t[k] = n /\ \A i \in 1..(k - 1) : t[i] # n
  BY <1>5, FindFirst
<1> HIDE DEF k
<1>7. ~(j < k)
  <2>1. j < k => j \in 1..(k - 1)
    BY <1>2, <1>3, <1>6
  <2> QED BY <2>1, <1>4, <1>6
<1>8. ~(k < j)
  <2>1. k < j => k \in 1..(j - 1) /\ k \in 1..Len(s)
    BY <1>2, <1>3, <1>6
  <2> QED BY <2>1, <1>2, <1>3, <1>6
<1>9. j = k
  BY <1>2, <1>3, <1>6, <1>7, <1>8
<1> QED BY <1>5, <1>9 DEF j, k

(* Appending to a table adds the name and keeps the entries.               *)
LEMMA NewElement ==
    ASSUME NEW s, AnySeq(s), NEW x
    PROVE  Elems(Append(s, x)) = Elems(s) \cup {x} /\ Prefix(s, Append(s, x))
<1> DEFINE t == Append(s, x)
<1>1. AnySeq(t) /\ Len(s) \in Nat /\ Extends(s, t, 1) /\ t[Len(s) + 1] = x
  BY Appended
<1> HIDE DEF t
<1>2. DOMAIN t = 1..(Len(s) + 1) /\ DOMAIN s = 1..Len(s) /\ \A i \in 1..Len(s) : t[i] = s[i]
  BY <1>1, LenProperties DEF AnySeq, Extends
<1>3. \A i \in 1..(Len(s) + 1) : i \in 1..Len(s) \/ i = Len(s) + 1
  BY <1>1
<1>4. \A i \in 1..Len(s) : i \in 1..(Len(s) + 1)
  BY <1>1
<1>5. Len(s) + 1 \in 1..(Len(s) + 1)
  BY <1>1
<1>6. Elems(t) = Elems(s) \cup {x}
  BY <1>1, <1>2, <1>3, <1>4, <1>5 DEF Elems
<1> QED BY <1>1, <1>6 DEF t, Prefix

(* A sequence is its own prefix.                                           *)
LEMMA Itself ==
    ASSUME NEW s, AnySeq(s)
    PROVE  Prefix(s, s)
<1>1. Len(s) \in Nat
  BY LenProperties DEF AnySeq
<1> QED BY <1>1 DEF Prefix, Extends

(* t adds to s nothing that has a meaning already.                         *)
Adds(s, t) ==
    /\ AnySeq(s) /\ AnySeq(t) /\ Prefix(s, t)
    /\ \A n \in Elems(t) \ Elems(s) :
          n \notin Elems(WordNames) \cup Elems(runtime) \cup Elems(variables)

(* A table that stays adds nothing.                                        *)
LEMMA AddsNone ==
    ASSUME NEW s, AnySeq(s)
    PROVE  Adds(s, s)
  BY Itself DEF Adds

(* Appending a name without a meaning.                                     *)
LEMMA AddsOne ==
    ASSUME NEW s, AnySeq(s), NEW x,
           x \notin Elems(WordNames) \cup Elems(runtime) \cup Elems(variables)
    PROVE  Adds(s, Append(s, x))
  BY NewElement, Appended DEF Adds

(* A word that compiles enters at most a name without a meaning among the  *)
(* defined words.                                                          *)
LEMMA WordNamesAdd ==
    ASSUME CompilerInv, Compiles
    PROVE  Adds(WordNames, WordNames')
<1>1. ret = "reading" /\ words \in Seq(Word) /\ defining \in BOOLEAN
  BY CompilesReads DEF CompilerInv, TablesOK
<1>2. /\ AnySeq(WordNames) /\ Len(WordNames) = Len(words) /\ Len(words) \in Nat
      /\ \A k \in 1..Len(words) : WordNames[k] = words[k].name
      /\ DOMAIN words = 1..Len(words)
  BY <1>1, Numbering
<1>3. words' \in Seq(Word) => /\ AnySeq(WordNames') /\ Len(WordNames') = Len(words')
                              /\ \A k \in 1..Len(words') : WordNames'[k] = words'[k].name
                              /\ DOMAIN words' = 1..Len(words')
  <2>1. ASSUME NEW ws \in Seq(Word)
        PROVE  /\ AnySeq([k \in DOMAIN ws |-> ws[k].name])
               /\ Len([k \in DOMAIN ws |-> ws[k].name]) = Len(ws)
               /\ \A k \in 1..Len(ws) : [i \in DOMAIN ws |-> ws[i].name][k] = ws[k].name
               /\ DOMAIN ws = 1..Len(ws)
    <3> DEFINE names == [k \in DOMAIN ws |-> ws[k].name]
    <3>1. DOMAIN ws = 1..Len(ws) /\ Len(ws) \in Nat /\ \A k \in 1..Len(ws) : ws[k] \in Word
      BY LenProperties
    <3>2. \A k \in 1..Len(ws) : ws[k].name \in Names
      BY <3>1 DEF Word
    <3>3. names \in [1..Len(ws) -> Names]
      BY <3>1, <3>2
    <3>4. names \in Seq(Names) /\ Len(names) = Len(ws)
      BY <3>1, <3>3, SeqDef
    <3>5. \A k \in 1..Len(ws) : names[k] = ws[k].name
      BY <3>1
    <3> HIDE DEF names
    <3>6. AnySeq(names)
      BY <3>4, SomeSeq
    <3> QED BY <3>1, <3>4, <3>5, <3>6 DEF names
  <2> QED BY <2>1 DEF WordNames
<1>4. ASSUME NEW n \in Names, Colon(n)
      PROVE  Adds(WordNames, WordNames')
  <2>1. n \notin Elems(WordNames) \cup Elems(runtime) \cup Elems(variables)
    BY <1>1, <1>4, ColonGuard DEF Colon
  <2>2. Len(frags) \in Nat
    BY <1>1 DEF CompilerInv, CodeOK, Placed, Shapes
  <2>3. /\ words' \in Seq(Word) /\ Len(words') = Len(words) + 1
        /\ \A k \in 1..Len(words) : words'[k] = words[k]
        /\ words'[Len(words) + 1].name = n
    BY <1>1, <1>4, <2>2, ColonWord
  <2> DEFINE s == WordNames
             t == WordNames'
  <2>4. /\ AnySeq(s) /\ AnySeq(t) /\ Len(t) = Len(s) + 1 /\ Len(s) \in Nat
        /\ \A k \in 1..Len(s) : t[k] = s[k]
        /\ t[Len(s) + 1] = n
    BY <1>2, <1>3, <2>3
  <2> HIDE DEF s, t
  <2>5. Prefix(s, t)
    BY <2>4 DEF Prefix, Extends
  <2>6. \A x \in Elems(t) : x \in Elems(s) \/ x = n
    <3>1. DOMAIN t = 1..(Len(s) + 1) /\ DOMAIN s = 1..Len(s)
      BY <2>4, LenProperties DEF AnySeq
    <3>2. \A k \in 1..(Len(s) + 1) : k \in 1..Len(s) \/ k = Len(s) + 1
      BY <2>4
    <3> QED BY <2>4, <3>1, <3>2 DEF Elems
  <2>7. Adds(s, t)
    BY <2>1, <2>4, <2>5, <2>6 DEF Adds
  <2> QED BY <2>7 DEF s, t
<1>5. ASSUME ~ \E n \in Names : Colon(n)
      PROVE  Adds(WordNames, WordNames')
  <2>1. Kept(words')
    BY <1>1, <1>5, WordsKept
  <2>2. words' \in Seq(Word) /\ DOMAIN words' = DOMAIN words
        /\ \A k \in DOMAIN words : words'[k].name = words[k].name
    BY <2>1, <1>2, <1>3 DEF Kept
  <2>3. WordNames' = WordNames
    BY <2>2 DEF WordNames
  <2> QED BY <2>3, <1>2, AddsNone
<1> QED BY <1>4, <1>5

(* And among the variables and constants.                                  *)
LEMMA VariablesAdd ==
    ASSUME CompilerInv, Compiles
    PROVE  Adds(variables, variables')
<1>1. AnySeq(variables) /\ defining \in BOOLEAN
  BY DEF CompilerInv, TablesOK
<1>2. CASE variables' = variables
  BY <1>1, <1>2, AddsNone
<1>3. ASSUME NEW w \in {"variable", "constant"}, NEW n \in Names, Declare(w, n)
      PROVE  Adds(variables, variables')
  <2>1. variables' = Append(variables, n) /\ Accepts(w, n)
    BY <1>3 DEF Declare
  <2>2. n \notin Elems(WordNames) \cup Elems(runtime) \cup Elems(variables)
    BY <1>1, <2>1, DeclareGuard
  <2> QED BY <1>1, <2>1, <2>2, AddsOne
<1> QED BY <1>2, <1>3, TablesStep DEF Declares

(* The meaning of a name, case by case.                                    *)
LEMMA MeaningCases ==
    ASSUME NEW n
    PROVE  /\ n \in Elems(WordNames) => Meaning(n) = <<"word", Find(WordNames, n)>>
           /\ n \notin Elems(WordNames) /\ n \in Elems(variables) =>
                Meaning(n) = <<"variable", Find(variables, n)>>
           /\ ~Known(n) /\ n \in Builtins \cup Keywords => Meaning(n) = <<"built in", 0>>
           /\ ~Known(n) /\ n \notin Builtins \cup Keywords =>
                Meaning(n) = <<"runtime", Find(runtime, n)>>
  BY DEF Meaning, Known

(* Meaning, of the tables it depends on.                                   *)
MeaningIn(ws, vs, rs, n) ==
    CASE n \in Elems(ws) -> <<"word", Find(ws, n)>>
      [] n \notin Elems(ws) /\ n \in Elems(vs) -> <<"variable", Find(vs, n)>>
      [] n \notin Elems(ws) \cup Elems(vs) /\ n \in Builtins \cup Keywords -> <<"built in", 0>>
      [] OTHER -> <<"runtime", Find(rs, n)>>

(* The meaning of a name after a step, by the tables after it.             *)
LEMMA MeaningNext ==
    ASSUME NEW n
    PROVE  Meaning(n)' = MeaningIn(WordNames', variables', runtime', n)
  BY DEF Meaning, MeaningIn, Known

(* The meaning of a name by given tables, case by case.                    *)
LEMMA MeaningInCases ==
    ASSUME NEW ws, NEW vs, NEW rs, NEW n
    PROVE  /\ n \in Elems(ws) => MeaningIn(ws, vs, rs, n) = <<"word", Find(ws, n)>>
           /\ n \notin Elems(ws) /\ n \in Elems(vs) =>
                MeaningIn(ws, vs, rs, n) = <<"variable", Find(vs, n)>>
           /\ n \notin Elems(ws) \cup Elems(vs) /\ n \notin Builtins \cup Keywords =>
                MeaningIn(ws, vs, rs, n) = <<"runtime", Find(rs, n)>>
  BY DEF MeaningIn

(* A word that compiles changes the meaning of no name that has one.       *)
LEMMA MeaningKept ==
    ASSUME CompilerInv, Compiles, NEW n, Meaning(n)[2] # 0
    PROVE  Meaning(n)' = Meaning(n)
<1>1. Adds(WordNames, WordNames') /\ Adds(variables, variables')
  BY WordNamesAdd, VariablesAdd
<1>2. AnySeq(runtime) /\ AnySeq(runtime') /\ Prefix(runtime, runtime')
  <2>1. TablesOK /\ AnySeq(runtime) /\ AnySeq(runtime')
    BY TablesTyped DEF CompilerInv, TablesOK
  <2> QED BY <2>1, TablesStep, Interned, Itself
<1>3. CASE n \in Elems(WordNames)
  <2>1. n \in Elems(WordNames') /\ Find(WordNames', n) = Find(WordNames, n)
    BY <1>1, <1>3, FindKept DEF Adds
  <2>2. Meaning(n)' = <<"word", Find(WordNames', n)>>
    BY <2>1, MeaningNext, MeaningInCases
  <2> QED BY <1>3, <2>1, <2>2, MeaningCases
<1>4. CASE n \notin Elems(WordNames) /\ n \in Elems(variables)
  <2>1. n \in Elems(variables') /\ Find(variables', n) = Find(variables, n)
    BY <1>1, <1>4, FindKept DEF Adds
  <2>2. n \notin Elems(WordNames')
    BY <1>1, <1>4 DEF Adds
  <2>3. Meaning(n)' = <<"variable", Find(variables', n)>>
    BY <2>1, <2>2, MeaningNext, MeaningInCases
  <2> QED BY <1>4, <2>1, <2>3, MeaningCases
<1>5. CASE ~Known(n) /\ n \notin Builtins \cup Keywords
  <2>1. Meaning(n) = <<"runtime", Find(runtime, n)>>
    BY <1>5, MeaningCases
  <2>2. n \in Elems(runtime)
    BY <2>1, NotFound
  <2>3. Find(runtime', n) = Find(runtime, n)
    BY <1>2, <2>2, FindKept
  <2>4. n \notin Elems(WordNames') /\ n \notin Elems(variables')
    BY <1>1, <1>5, <2>2 DEF Adds, Known
  <2>5. Meaning(n)' = <<"runtime", Find(runtime', n)>>
    BY <1>5, <2>4, MeaningNext, MeaningInCases
  <2> QED BY <2>1, <2>3, <2>5
<1>6. CASE ~Known(n) /\ n \in Builtins \cup Keywords
  <2>1. Meaning(n) = <<"built in", 0>>
    BY <1>6, MeaningCases
  <2>2. <<"built in", 0>>[2] = 0
    OBVIOUS
  <2>3. Meaning(n)[2] = 0
    BY <2>1, <2>2
  <2> QED BY <2>3
<1> QED BY <1>3, <1>4, <1>5, <1>6 DEF Known

(* What NameKeepsMeaning asks of a step.                                   *)
KeepMeanings ==
    \A n \in Vocabulary :
        (Meaning(n)[2] # 0 /\ ret' \in {"reading", "compiled"}) =>
            Meaning(n)' = Meaning(n)

(* No step changes the meaning of a name that has one, but an error.       *)
LEMMA MeaningStep ==
    ASSUME CompilerInv, [Next]_vars
    PROVE  [KeepMeanings]_vars
<1>1. CASE Compiles
  BY <1>1, MeaningKept DEF KeepMeanings
<1>2. ASSUME NEW w, NEW n, Fail(w, n)
      PROVE  KeepMeanings
  <2>1. ret' \in ErrorCode
    BY <1>2, FailCode DEF CompilerInv, TablesOK
  <2>2. ret' \notin {"reading", "compiled"}
    BY <2>1 DEF ErrorCode
  <2> QED BY <2>2 DEF KeepMeanings
<1>3. CASE Finish
  <2>1. UNCHANGED <<words, variables, runtime>>
    BY <1>3 DEF Finish, tables
  <2>2. \A n \in Vocabulary : Meaning(n)' = Meaning(n)
    BY <2>1 DEF Meaning, WordNames, Known
  <2> QED BY <2>2 DEF KeepMeanings
<1>4. CASE FinishEarly
  <2>1. ret' = "EARLY_END_OF_SOURCE"
    BY <1>4 DEF FinishEarly, Abandon
  <2> QED BY <2>1 DEF KeepMeanings
<1>5. CASE UNCHANGED vars
  BY <1>5
<1> QED BY <1>1, <1>2, <1>3, <1>4, <1>5, NextCases

(* A name that was given a meaning, as a word, a variable or a word left   *)
(* to the runtime (compile.c looks these tables up in this order), keeps   *)
(* it to the end of the source: a definition never gives a new meaning to  *)
(* a text that was compiled already.                                       *)
THEOREM MeaningsStay == Spec => NameKeepsMeaning
<1>1. CompilerInv /\ [Next]_vars => [KeepMeanings]_vars
  BY MeaningStep
<1> QED BY <1>1, CompilerInvariant, PTL DEF Spec, NameKeepsMeaning, KeepMeanings

(* A sequence without repetition has as many elements as entries.          *)
LEMMA CountedOnce ==
    ASSUME NEW n, NEW s, s \in Seq(Nat), Len(s) \in Nat, Once(n, s)
    PROVE  Cardinality(Elems(s)) = Len(s)
<1>1. DOMAIN s = 1..Len(s) /\ s \in [1..Len(s) -> Nat]
  BY LenProperties
<1>2. s \in Bijection(1..Len(s), Elems(s))
  <2>1. s \in [1..Len(s) -> Elems(s)]
    BY <1>1 DEF Elems
  <2>2. \A f \in Elems(s) : \E j \in 1..Len(s) : s[j] = f
    BY <1>1 DEF Elems
  <2> QED BY <2>1, <2>2 DEF Bijection, Injection, Surjection, IsInjective, Once
<1>3. IsFiniteSet(1..Len(s)) /\ Cardinality(1..Len(s)) = Len(s)
  <2>1. IsFiniteSet(1..Len(s)) /\ Cardinality(1..Len(s)) = IF 1 > Len(s) THEN 0 ELSE Len(s) - 1 + 1
    BY FS_Interval
  <2> QED BY <2>1
<1>4. ExistsBijection(1..Len(s), Elems(s))
  BY <1>2 DEF ExistsBijection
<1> QED BY <1>3, <1>4, FS_Bijection

(* Code in order is placed as Placement says.                              *)
LEMMA CodePlaced ==
    ASSUME CodeOK(frags, sequence, cf)
    PROVE  Placement
<1>1. /\ sequence \in Seq(Nat) /\ Len(sequence) \in Nat /\ cf \in Seq(Construct)
      /\ Once(Len(frags), sequence) /\ OwedOnce(Len(frags), cf) /\ Apart(sequence, cf)
      /\ \A f \in 1..Len(frags) : Emits(sequence, f) \/ OwesFragment(cf, f)
  BY DEF CodeOK, Placed, Shapes
<1>2. /\ DOMAIN frags = 1..Len(frags) /\ DOMAIN cf = 1..Len(cf)
      /\ DOMAIN sequence = 1..Len(sequence)
  BY <1>1, LenProperties DEF CodeOK, AnySeq
<1>3. {m \in DOMAIN cf : cf[m].type \in {"IF", "ELSE", "WHILE"}} = Owes(cf)
  BY <1>2 DEF Owes, Owing
<1>4. \A f : f \in Elems(sequence) <=> Emits(sequence, f)
  BY <1>2 DEF Elems, Emits
<1>5. \A f \in 1..Len(frags) : f \notin Elems(sequence) =>
        f \in {cf[k].frag : k \in Owes(cf)}
  BY <1>1, <1>4 DEF OwesFragment
<1>6. \A k \in Owes(cf) : cf[k].frag \in 1..Len(frags) /\ cf[k].frag \notin Elems(sequence)
  BY <1>1, <1>4 DEF OwedOnce, Apart, Emits
<1>7. DOMAIN frags \ Elems(sequence) = {cf[k].frag : k \in Owes(cf)}
  BY <1>2, <1>5, <1>6
<1>8. Cardinality(Elems(sequence)) = Len(sequence)
  BY <1>1, CountedOnce
<1> QED BY <1>3, <1>7, <1>8 DEF Placement

(* A while always stands on its begin, so the last two RASSERTs of repeat  *)
(* cannot fail.                                                            *)
THEOREM WhilesOnBegin == Spec => []WhileOnBegin
<1>1. CompilerInv => WhileOnBegin
  <2> SUFFICES ASSUME CompilerInv
               PROVE  WhileOnBegin
    OBVIOUS
  <2>1. CASE ret = "compiled"
    BY <2>1, NoTables DEF CompilerInv, WhileOnBegin
  <2>2. CASE ret # "compiled"
    <3>1. OnBegin(cf) /\ cf \in Seq(Construct)
      BY <2>2 DEF CompilerInv, CodeOK, Placed, Shapes
    <3>2. DOMAIN cf = 1..Len(cf)
      BY <3>1, LenProperties
    <3> QED BY <3>1, <3>2 DEF OnBegin, WhileOnBegin
  <2> QED BY <2>1, <2>2
<1> QED BY <1>1, CompilerInvariant, PTL

(* A word's location fragment is emitted at the place of its own index,    *)
(* where the backward scan of update_defined_word_nested_call_param ends.  *)
THEOREM IndexesAgree == Spec => []WordIndexAgrees
<1>1. CompilerInv => WordIndexAgrees
  <2> SUFFICES ASSUME CompilerInv, ret = "reading"
               PROVE  \A k \in DOMAIN words :
                        words[k].frag \in DOMAIN sequence /\ sequence[words[k].frag] = words[k].frag
    BY DEF WordIndexAgrees
  <2>1. words \in Seq(Word) /\ Located /\ sequence \in Seq(Nat)
    BY DEF CompilerInv, TablesOK, CodeOK, Placed, Shapes
  <2>2. DOMAIN words = 1..Len(words) /\ DOMAIN sequence = 1..Len(sequence)
    BY <2>1, LenProperties
  <2> QED BY <2>1, <2>2 DEF Located
<1> QED BY <1>1, CompilerInvariant, PTL

(* The signature of a callback stays one that c' accepts: no later stack   *)
(* comment changes it.                                                     *)
THEOREM SignaturesStay == Spec => []CallbackSignatures
<1>1. CompilerInv => CallbackSignatures
  BY DEF CompilerInv, CallbacksOK, CallbackSignatures, Callable
<1> QED BY <1>1, CompilerInvariant, PTL

-----------------------------------------------------------------------------
(* Operands, of the tables it depends on.                                  *)
OperandsIn(fs, vs, rs, cs, o) ==
    CASE o \in {"DEFINED_WORD", "PUSH_OFFSET_ADDRESS", "EXIT_WORD"} ->
            {f \in DOMAIN fs : fs[f].op \in {"DEFINED_WORD_LOCATION"}}
      [] o \in {"BRANCH", "BRANCH_IF_ZERO", "LOOP"} ->
            {f \in DOMAIN fs : fs[f].op \in {"BRANCH_LOCATION"}}
      [] o \in {"USE_VARIABLE_OR_CONSTANT", "DECLARE_CONSTANT", "DECLARE_VARIABLE"} -> DOMAIN vs
      [] o = "RUNTIME_WORD" -> DOMAIN rs
      [] o = "PUSH_CALLBACK" -> DOMAIN cs
      [] OTHER -> Nat

(* The tables of the state, before and after a step.                       *)
LEMMA OperandsNow ==
    /\ \A o : Operands(o) = OperandsIn(frags, variables, runtime, callbacks, o)
    /\ \A o : Operands(o)' = OperandsIn(frags', variables', runtime', callbacks', o)
  BY DEF Operands, OperandsIn, FragmentsWith

(* A fragment x refers to an entry of the tables.                          *)
Refers(fs, vs, rs, cs, x) ==
    x.param \in OperandsIn(fs, vs, rs, cs, x.op) /\ x.inWord \in BOOLEAN

(* x refers to an entry of the tables as they are.                         *)
Sound(x) == Refers(frags, variables, runtime, callbacks, x)

(* The strengthening of TypeOK that the steps keep: with CompilerInv, a    *)
(* word is being defined only when there is one.                           *)
TypeInv ==
    /\ \A f \in 1..Len(frags) : Sound(frags[f])
    /\ \A k \in 1..Len(words) : words[k].frag \in FragmentsWith({"DEFINED_WORD_LOCATION"})
    /\ ret = "reading" /\ defining => Len(words) > 0
    /\ AnySeq(strings) /\ Elems(strings) \subseteq Strings
    /\ read \in 0..MaxWords

(* x refers to an entry of the tables as the step leaves them.             *)
SoundNext(x) == Refers(frags', variables', runtime', callbacks', x)

(* The tables that fragments refer to only grow.                           *)
Grows == /\ AnySeq(frags) /\ AnySeq(frags') /\ Prefix(frags, frags')
         /\ AnySeq(variables) /\ AnySeq(variables') /\ Prefix(variables, variables')
         /\ AnySeq(runtime) /\ AnySeq(runtime') /\ Prefix(runtime, runtime')
         /\ AnySeq(callbacks) /\ AnySeq(callbacks') /\ Prefix(callbacks, callbacks')

(* A prefix has no index that the whole does not have.                     *)
LEMMA PrefixDomain ==
    ASSUME NEW s, NEW t, AnySeq(s), AnySeq(t), Prefix(s, t)
    PROVE  /\ DOMAIN s \subseteq DOMAIN t /\ \A k \in DOMAIN s : t[k] = s[k]
           /\ DOMAIN s = 1..Len(s) /\ DOMAIN t = 1..Len(t)
<1>1. PICK m \in Nat : Extends(s, t, m)
  BY DEF Prefix
<1>2. /\ DOMAIN s = 1..Len(s) /\ Len(s) \in Nat /\ DOMAIN t = 1..Len(t)
  BY LenProperties DEF AnySeq
<1> QED BY <1>1, <1>2 DEF Extends

(* So an operand stays one.                                                *)
LEMMA OperandsGrow ==
    ASSUME Grows, NEW x, Sound(x)
    PROVE  SoundNext(x)
<1>1. /\ DOMAIN frags \subseteq DOMAIN frags' /\ \A k \in DOMAIN frags : frags'[k] = frags[k]
      /\ DOMAIN variables \subseteq DOMAIN variables' /\ DOMAIN runtime \subseteq DOMAIN runtime'
      /\ DOMAIN callbacks \subseteq DOMAIN callbacks'
  BY PrefixDomain DEF Grows
<1>2. \A ops : FragmentsWith(ops) \subseteq FragmentsWith(ops)'
  BY <1>1 DEF FragmentsWith
<1>3. \A o : Operands(o) \subseteq Operands(o)'
  BY <1>1, <1>2 DEF Operands
<1> QED BY <1>3, OperandsNow DEF Sound, SoundNext, Refers

(* What an opcode's param refers to, group by group.                       *)
LEMMA OperandsOf ==
    /\ \A o \in {"DEFINED_WORD", "PUSH_OFFSET_ADDRESS", "EXIT_WORD"} :
          Operands(o)' = FragmentsWith({"DEFINED_WORD_LOCATION"})'
    /\ \A o \in {"BRANCH", "BRANCH_IF_ZERO", "LOOP"} :
          Operands(o)' = FragmentsWith({"BRANCH_LOCATION"})'
    /\ \A o \in {"USE_VARIABLE_OR_CONSTANT", "DECLARE_CONSTANT", "DECLARE_VARIABLE"} :
          Operands(o)' = DOMAIN variables'
    /\ Operands("RUNTIME_WORD")' = DOMAIN runtime'
    /\ Operands("PUSH_CALLBACK")' = DOMAIN callbacks'
    /\ \A o \in {"ENTRY", "HALT", "BUILTIN_WORD", "EXECUTE", "THREAD_CREATE", "THREAD_JOIN",
                 "PUSH_LITERAL", "PUSH_DATA_ADDRESS", "DO", "BRANCH_LOCATION",
                 "DEFINED_WORD_LOCATION"} : Operands(o)' = Nat
  BY DEF Operands

(* The tables grow with every word that compiles.                          *)
LEMMA CompilesGrows ==
    ASSUME CompilerInv, Compiles
    PROVE  Grows
<1>1. CodeOK(frags, sequence, cf) /\ TablesOK
  BY CompilesReads DEF CompilerInv
<1>2. /\ AnySeq(variables) /\ AnySeq(runtime) /\ AnySeq(callbacks) /\ defining \in BOOLEAN
      /\ AnySeq(variables') /\ AnySeq(runtime') /\ AnySeq(callbacks') /\ AnySeq(frags)
  BY <1>1, TablesTyped DEF TablesOK, CodeOK
<1>3. AnySeq(frags') /\ Prefix(frags, frags')
  <2>1. CASE Colons
    BY <2>1, <1>1, ColonCode DEF Colons, CodeOK
  <2>2. CASE ~Colons
    BY <2>2, <1>1, <1>2, CompilesCode DEF Colons, CodeStep, CodeOK
  <2> QED BY <2>1, <2>2
<1>4. Prefix(runtime, runtime')
  BY <1>2, TablesStep, Interned, Itself
<1>5. Prefix(variables, variables')
  <2>1. Declares => \E x : variables' = Append(variables, x)
    BY DEF Declares, Declare
  <2> QED BY <1>2, <2>1, TablesStep, NewElement, Itself
<1>6. Prefix(callbacks, callbacks')
  <2>1. CTicks => \E x : callbacks' = Intern(callbacks, x)
    BY DEF CTicks, CTick
  <2> QED BY <1>2, <2>1, TablesStep, Interned, Itself
<1> QED BY <1>2, <1>3, <1>4, <1>5, <1>6 DEF Grows

(* Every fragment refers to an entry of the tables after the step.         *)
AllSound == \A f \in 1..Len(frags') : SoundNext(frags'[f])

(* That holds of the old fragments, so only the new ones matter.           *)
LEMMA NewSound ==
    ASSUME CompilerInv, Compiles, \A f \in 1..Len(frags) : Sound(frags[f]),
           NEW m \in Nat, Extends(frags, frags', m),
           \A i \in 1..m : SoundNext(frags'[Len(frags) + i])
    PROVE  AllSound
<1>1. Grows
  BY CompilesGrows
<1>2. Len(frags) \in Nat /\ Len(frags') = Len(frags) + m
      /\ \A i \in 1..Len(frags) : frags'[i] = frags[i]
  BY <1>1, LenProperties DEF Grows, AnySeq, Extends
<1> SUFFICES ASSUME NEW f \in 1..Len(frags')
             PROVE  SoundNext(frags'[f])
  BY DEF AllSound
<1>3. CASE f \in 1..Len(frags)
  BY <1>1, <1>2, <1>3, OperandsGrow
<1>4. CASE f \notin 1..Len(frags)
  <2> DEFINE i == f - Len(frags)
  <2>1. i \in 1..m /\ Len(frags) + i = f
    BY <1>2, <1>4
  <2> HIDE DEF i
  <2> QED BY <2>1
<1> QED BY <1>3, <1>4

(* No new fragment.                                                        *)
LEMMA NoneSound ==
    ASSUME CompilerInv, Compiles, \A f \in 1..Len(frags) : Sound(frags[f]), frags' = frags
    PROVE  AllSound
<1>1. Grows
  BY CompilesGrows
<1>2. Extends(frags, frags', 0)
  BY <1>1, LenProperties DEF Grows, AnySeq, Extends
<1>3. 0 \in Nat /\ \A i \in 1..0 : SoundNext(frags'[Len(frags) + i])
  OBVIOUS
<1> QED BY <1>2, <1>3, NewSound

(* The fragments new, behind the others.                                   *)
LEMMA JoinedSound ==
    ASSUME CompilerInv, Compiles, \A f \in 1..Len(frags) : Sound(frags[f]),
           NEW new, AnySeq(new), frags' = frags \o new,
           \A i \in 1..Len(new) : SoundNext(new[i])
    PROVE  AllSound
<1>1. AnySeq(frags)
  BY CompilesGrows DEF Grows
<1>2. /\ Len(new) \in Nat /\ Extends(frags, frags', Len(new))
      /\ \A i \in 1..Len(new) : frags'[Len(frags) + i] = new[i]
  BY <1>1, Joined
<1> QED BY <1>2, NewSound

(* One fragment.                                                           *)
LEMMA OneSound ==
    ASSUME CompilerInv, Compiles, \A f \in 1..Len(frags) : Sound(frags[f]),
           NEW x, frags' = frags \o <<x>> \/ frags' = Append(frags, x), SoundNext(x)
    PROVE  AllSound
<1>1. AnySeq(frags)
  BY CompilesGrows DEF Grows
<1>2. CASE frags' = frags \o <<x>>
  <2>1. AnySeq(<<x>>) /\ Len(<<x>>) = 1 /\ <<x>>[1] = x
    BY Tuples
  <2> DEFINE new == <<x>>
  <2> HIDE DEF new
  <2>2. \A i \in 1..Len(new) : SoundNext(new[i])
    BY <2>1 DEF new
  <2> QED BY <1>2, <2>1, <2>2, JoinedSound DEF new
<1>3. CASE frags' = Append(frags, x)
  <2>1. Extends(frags, frags', 1) /\ frags'[Len(frags) + 1] = x
    BY <1>1, <1>3, Appended
  <2>2. 1 \in Nat /\ \A i \in 1..1 : SoundNext(frags'[Len(frags) + i])
    BY <2>1
  <2> QED BY <2>1, <2>2, NewSound
<1> QED BY <1>2, <1>3

(* Two fragments.                                                          *)
LEMMA TwoSound ==
    ASSUME CompilerInv, Compiles, \A f \in 1..Len(frags) : Sound(frags[f]),
           NEW x, NEW y, frags' = frags \o <<x, y>>, SoundNext(x), SoundNext(y)
    PROVE  AllSound
<1>1. AnySeq(<<x, y>>) /\ Len(<<x, y>>) = 2 /\ <<x, y>>[1] = x /\ <<x, y>>[2] = y
  BY Tuples
<1> DEFINE new == <<x, y>>
<1> HIDE DEF new
<1>2. \A i \in 1..Len(new) : SoundNext(new[i])
  BY <1>1 DEF new
<1> QED BY <1>1, <1>2, JoinedSound DEF new

(* A fragment the word being compiled creates, by its opcode and param.    *)
LEMMA FragSound ==
    ASSUME defining \in BOOLEAN, NEW o, NEW p, p \in Operands(o)'
    PROVE  SoundNext(Frag(o, p))
<1>1. p \in OperandsIn(frags', variables', runtime', callbacks', o)
  BY OperandsNow
<1> QED BY <1>1 DEF SoundNext, Refers, Frag

(* What the steps below start from.                                        *)
Reading == /\ CompilerInv /\ Compiles /\ TypeInv
           /\ CodeOK(frags, sequence, cf) /\ TablesOK /\ defining \in BOOLEAN
           /\ \A f \in 1..Len(frags) : Sound(frags[f])

(* A word that compiles, with both invariants.                              *)
LEMMA ReadingNow == CompilerInv /\ TypeInv /\ Compiles => Reading
  BY CompilesReads DEF CompilerInv, TablesOK, TypeInv, Reading

(* A word's location stays one.                                            *)
LEMMA LocationsStay ==
    ASSUME Reading
    PROVE  \A ops : FragmentsWith(ops) \subseteq FragmentsWith(ops)'
<1>1. /\ DOMAIN frags \subseteq DOMAIN frags' /\ \A k \in DOMAIN frags : frags'[k] = frags[k]
  BY CompilesGrows, PrefixDomain DEF Grows, Reading
<1> QED BY <1>1 DEF FragmentsWith

(* The location of a defined word is an operand.                           *)
LEMMA WordOperand ==
    ASSUME Reading, NEW k \in 1..Len(words),
           NEW o \in {"DEFINED_WORD", "PUSH_OFFSET_ADDRESS", "EXIT_WORD"}
    PROVE  words[k].frag \in Operands(o)'
<1>1. words[k].frag \in FragmentsWith({"DEFINED_WORD_LOCATION"})
  BY DEF Reading, TypeInv
<1>2. Operands(o)' = FragmentsWith({"DEFINED_WORD_LOCATION"})'
  BY OperandsOf
<1> QED BY <1>1, <1>2, LocationsStay

(* In a word, the word being defined is there.                             *)
LEMMA DefiningOperand ==
    ASSUME Reading, defining,
           NEW o \in {"DEFINED_WORD", "PUSH_OFFSET_ADDRESS", "EXIT_WORD"}
    PROVE  Defining.frag \in Operands(o)'
<1>1. ret = "reading" /\ words \in Seq(Word)
  BY CompilesReads DEF Reading, TablesOK
<1>2. Len(words) > 0 /\ Len(words) \in Nat
  BY <1>1, LenProperties DEF Reading, TypeInv
<1>3. Len(words) \in 1..Len(words)
  BY <1>2
<1> QED BY <1>3, WordOperand DEF Defining, Last

(* An entered name is found.                                               *)
LEMMA InternedFound ==
    ASSUME NEW s, AnySeq(s), NEW x
    PROVE  Find(Intern(s, x), x) \in DOMAIN Intern(s, x)
<1> DEFINE t == Intern(s, x)
<1>1. AnySeq(t) /\ x \in Elems(t)
  BY Interned
<1> HIDE DEF t
<1>2. DOMAIN t = 1..Len(t) /\ Find(t, x) \in 1..Len(t)
  BY <1>1, FindFirst, LenProperties DEF AnySeq
<1> QED BY <1>2 DEF t

(* The fragment a branch target of the stack is an operand of a branch.    *)
LEMMA BranchOperand ==
    ASSUME Reading, NEW k \in 1..Len(cf), NEW o \in {"BRANCH", "BRANCH_IF_ZERO", "LOOP"}
    PROVE  cf[k].frag \in Operands(o)'
<1>1. cf[k].frag \in 1..Len(frags) /\ frags[cf[k].frag].op = "BRANCH_LOCATION"
  BY DEF Reading, CodeOK, Targets
<1>2. DOMAIN frags = 1..Len(frags)
  BY LenProperties DEF Reading, CodeOK, AnySeq
<1>3. cf[k].frag \in FragmentsWith({"BRANCH_LOCATION"})
  BY <1>1, <1>2 DEF FragmentsWith
<1>4. Operands(o)' = FragmentsWith({"BRANCH_LOCATION"})'
  BY OperandsOf
<1> QED BY <1>3, <1>4, LocationsStay

(* The innermost construct has a target.                                   *)
LEMMA TopOperand ==
    ASSUME Reading, cf # <<>>, NEW o \in {"BRANCH", "BRANCH_IF_ZERO", "LOOP"}
    PROVE  Top.frag \in Operands(o)'
<1>1. cf \in Seq(Construct)
  BY DEF Reading, CodeOK, Placed, Shapes
<1>2. Len(cf) \in 1..Len(cf) /\ Top = cf[Len(cf)]
  BY <1>1, Popped DEF Top, Last
<1> QED BY <1>2, BranchOperand

(* A target created in front of a branch, for later.                       *)
LEMMA AheadSound ==
    ASSUME Reading, NEW o \in {"BRANCH", "BRANCH_IF_ZERO"},
           frags' = frags \o <<Pending, Frag(o, Here)>>
    PROVE  AllSound
<1> DEFINE x == Pending
           y == Frag(o, Here)
           new == <<x, y>>
<1>1. AnySeq(frags) /\ Len(frags) \in Nat /\ defining \in BOOLEAN
  BY LenProperties DEF Reading, CodeOK, AnySeq
<1>2. AnySeq(new) /\ Len(new) = 2 /\ new[1] = x
  BY Tuples
<1>3. x.op = "BRANCH_LOCATION"
  BY DEF Pending, Frag
<1>4. 0 \in Operands("BRANCH_LOCATION")'
  BY OperandsOf
<1>5. SoundNext(x)
  BY <1>1, <1>4, FragSound DEF Pending
<1> HIDE DEF x, new
<1>6. Here \in DOMAIN frags' /\ frags'[Here] = x
  <2>1. AnySeq(frags') /\ Len(frags') = Len(frags) + 2 /\ frags'[Len(frags) + 1] = x
    <3>1. AnySeq(frags \o new) /\ Extends(frags, frags \o new, 2) /\ (frags \o new)[Len(frags) + 1] = new[1]
      <4>1. /\ AnySeq(frags \o new) /\ Extends(frags, frags \o new, Len(new))
            /\ \A i \in 1..Len(new) : (frags \o new)[Len(frags) + i] = new[i]
        <5>1. \A v : AnySeq(v) => /\ AnySeq(frags \o v) /\ Extends(frags, frags \o v, Len(v))
                                  /\ \A i \in 1..Len(v) : (frags \o v)[Len(frags) + i] = v[i]
          BY <1>1, Joined
        <5> QED BY <5>1, <1>2
      <4>2. 1 \in 1..Len(new)
        BY <1>2
      <4> QED BY <1>2, <4>1, <4>2
    <3>2. frags' = frags \o new
      BY DEF new, x
    <3> QED BY <1>2, <3>1, <3>2 DEF Extends
  <2>2. DOMAIN frags' = 1..(Len(frags) + 2)
    BY <2>1, LenProperties DEF AnySeq
  <2> QED BY <1>1, <2>1, <2>2 DEF Here
<1>7. Here \in FragmentsWith({"BRANCH_LOCATION"})'
  <2>1. Here \in {f \in DOMAIN frags' : frags'[f].op \in {"BRANCH_LOCATION"}}
    BY <1>3, <1>6
  <2> QED BY <2>1 DEF FragmentsWith
<1>8. Here \in Operands(o)'
  BY <1>7, OperandsOf
<1>9. SoundNext(y)
  BY <1>1, <1>8, FragSound
<1> HIDE DEF y
<1>10. frags' = frags \o <<x, y>>
  BY DEF x, y
<1> QED BY <1>5, <1>9, <1>10, TwoSound DEF Reading

(* A fragment emitted alone, that refers to an entry.                      *)
LEMMA EmittedSound ==
    ASSUME Reading, NEW o, NEW p, Emit1(o, p), p \in Operands(o)'
    PROVE  AllSound
<1>1. SoundNext(Frag(o, p)) /\ frags' = frags \o <<Frag(o, p)>>
  BY FragSound DEF Reading, Emit1, Emit
<1> QED BY <1>1, OneSound DEF Reading

(* Every fragment a word adds refers to an entry of the tables.            *)
LEMMA CompilesSound ==
    ASSUME CompilerInv, TypeInv, Compiles
    PROVE  AllSound
<1>0. Reading
  BY ReadingNow
<1>00. /\ defining \in BOOLEAN /\ AnySeq(runtime) /\ AnySeq(variables) /\ AnySeq(callbacks)
       /\ words \in Seq(Word) /\ AnySeq(strings) /\ Elems(strings) \subseteq Strings
  BY <1>0 DEF Reading, TablesOK, TypeInv
<1>1. ASSUME NEW w, UseName(w)
      PROVE  AllSound
  <2> DEFINE k == Find(WordNames, w)
  <2>1. CASE k # 0
    <3>1. Emit1("DEFINED_WORD", words[k].frag)
      BY <1>1, <2>1 DEF UseName
    <3>2. k \in 1..Len(words)
      BY <1>00, <2>1, NotFound, Numbering, FindFirst
    <3> HIDE DEF k
    <3> QED BY <1>0, <3>1, <3>2, WordOperand, EmittedSound
  <2>2. CASE k = 0
    <3>1. Emit1("USE_VARIABLE_OR_CONSTANT", Find(variables, w)) /\ Known(w)
      BY <1>1, <2>2 DEF UseName
    <3>2. w \notin Elems(WordNames)
      <4>1. w \in Elems(WordNames) => k \in 1..Len(WordNames)
        BY <1>00, Numbering, FindFirst
      <4> QED BY <4>1, <2>2
    <3>3. Find(variables, w) \in DOMAIN variables
      BY <1>00, <3>1, <3>2, FindFirst, LenProperties DEF Known, AnySeq
    <3>4. DOMAIN variables \subseteq DOMAIN variables'
      BY <1>0, CompilesGrows, PrefixDomain DEF Reading, Grows
    <3>5. Find(variables, w) \in Operands("USE_VARIABLE_OR_CONSTANT")'
      BY <3>3, <3>4, OperandsOf
    <3> QED BY <1>0, <3>1, <3>5, EmittedSound
  <2> QED BY <2>1, <2>2
<1>2. ASSUME NEW w, UseBuiltin(w)
      PROVE  AllSound
  <2>1. \E p \in Nat : Emit1("BUILTIN_WORD", p)
    BY <1>2 DEF UseBuiltin
  <2>2. Operands("BUILTIN_WORD")' = Nat
    BY OperandsOf
  <2> QED BY <1>0, <2>1, <2>2, EmittedSound
<1>3. ASSUME NEW w, UseRuntime(w)
      PROVE  AllSound
  <2>1. runtime' = Intern(runtime, w) /\ Emit1("RUNTIME_WORD", Find(runtime', w))
    BY <1>3 DEF UseRuntime
  <2>2. Find(runtime', w) \in Operands("RUNTIME_WORD")'
    BY <1>00, <2>1, InternedFound, OperandsOf
  <2> QED BY <1>0, <2>1, <2>2, EmittedSound
<1>4. ASSUME NEW w, Plain(w)
      PROVE  AllSound
  <2>1. Emit1(PlainOps[w], 0)
    BY <1>4 DEF Plain
  <2>2. PlainOps[w] \in {"EXECUTE", "THREAD_CREATE", "THREAD_JOIN", "PUSH_LITERAL"}
    BY <1>4 DEF Plain, PlainOps
  <2>3. 0 \in Operands(PlainOps[w])'
    BY <2>2, OperandsOf
  <2> QED BY <1>0, <2>1, <2>3, EmittedSound
<1>5. ASSUME frags' = frags
      PROVE  AllSound
  BY <1>0, <1>5, NoneSound DEF Reading
<1>6. ASSUME NEW w, NEW n, Declare(w, n)
      PROVE  AllSound
  <2>1. /\ variables' = Append(variables, n)
        /\ \E o \in {"DECLARE_CONSTANT", "DECLARE_VARIABLE"} : Emit1(o, Len(variables'))
    BY <1>6 DEF Declare
  <2>2. Len(variables') \in DOMAIN variables'
    <3>1. Len(variables') = Len(variables) + 1 /\ Len(variables) \in Nat /\ AnySeq(variables')
      BY <1>00, <2>1, Appended DEF Extends
    <3>2. DOMAIN variables' = 1..Len(variables')
      BY <3>1, LenProperties DEF AnySeq
    <3> QED BY <3>1, <3>2
  <2>3. \A o \in {"DECLARE_CONSTANT", "DECLARE_VARIABLE"} : Len(variables') \in Operands(o)'
    BY <2>2, OperandsOf
  <2> QED BY <1>0, <2>1, <2>3, EmittedSound
<1>7. ASSUME NEW n, Tick(n)
      PROVE  AllSound
  <2> DEFINE k == Find(WordNames, n)
  <2>1. Emit1("PUSH_OFFSET_ADDRESS", words[k].frag) /\ Accepts("'", n)
    BY <1>7 DEF Tick
  <2>2. k \in 1..Len(words)
    BY <1>00, <2>1, TickGuard, Numbering, FindFirst
  <2> HIDE DEF k
  <2> QED BY <1>0, <2>1, <2>2, WordOperand, EmittedSound
<1>8. ASSUME NEW n, CTick(n)
      PROVE  AllSound
  <2> DEFINE k == Find(WordNames, n)
  <2>1. callbacks' = Intern(callbacks, k) /\ Emit1("PUSH_CALLBACK", Find(callbacks', k))
    BY <1>8 DEF CTick
  <2> HIDE DEF k
  <2>2. Find(callbacks', k) \in Operands("PUSH_CALLBACK")'
    BY <1>00, <2>1, InternedFound, OperandsOf
  <2> QED BY <1>0, <2>1, <2>2, EmittedSound
<1>9. CASE Semicolon
  BY <1>0, <1>00, <1>9, DefiningGuard, DefiningOperand, EmittedSound DEF Semicolon
<1>10. CASE Exit
  BY <1>0, <1>00, <1>10, DefiningGuard, DefiningOperand, EmittedSound DEF Exit
<1>11. CASE Recurse
  BY <1>0, <1>00, <1>11, DefiningGuard, DefiningOperand, EmittedSound DEF Recurse
<1>12. ASSUME NEW w, NEW s \in Strings, String(w, s)
       PROVE  AllSound
  <2> DEFINE a == Frag("PUSH_DATA_ADDRESS", Offset(strings', Find(strings', s)))
             b == Frag("PUSH_LITERAL", Length(s))
             c == Frag("RUNTIME_WORD", Find(runtime', "type"))
  <2>1. /\ strings' = Intern(strings, s)
        /\ w = ".\"" => runtime' = Intern(runtime, "type")
        /\ frags' = frags \o (<<a, b>> \o IF w = ".\"" THEN <<c>> ELSE <<>>)
    BY <1>12 DEF String, Emit
  <2>2. SoundNext(a)
    <3>1. AnySeq(strings') /\ Elems(strings') = Elems(strings) \cup {s}
      BY <1>00, <2>1, Interned
    <3>2. strings' \in Seq(Strings) /\ s \in Elems(strings')
      BY <3>1, <1>00, SeqMonotonic DEF AnySeq
    <3>3. Find(strings', s) \in 1..Len(strings') /\ Len(strings') \in Nat
      BY <3>1, <3>2, FindFirst, LenProperties
    <3>4. Find(strings', s) \in 1..(Len(strings') + 1)
      BY <3>3
    <3>5. Offset(strings', Find(strings', s)) \in Nat
      BY <3>2, <3>4, Offsets
    <3>6. Offset(strings', Find(strings', s)) \in Operands("PUSH_DATA_ADDRESS")'
      BY <3>5, OperandsOf
    <3> QED BY <1>00, <3>6, FragSound
  <2>3. SoundNext(b)
    <3>1. Length(s) \in Operands("PUSH_LITERAL")'
      BY OperandsOf, CompilerAssumption
    <3> QED BY <1>00, <3>1, FragSound
  <2>4. w = ".\"" => SoundNext(c)
    BY <1>00, <2>1, InternedFound, OperandsOf, FragSound
  <2> HIDE DEF a, b, c
  <2>5. CASE w = ".\""
    <3> DEFINE new == <<a, b, c>>
    <3>1. frags' = frags \o new
      BY <2>1, <2>5, Concats
    <3>2. AnySeq(new) /\ Len(new) = 3 /\ new[1] = a /\ new[2] = b /\ new[3] = c
      BY Tuples
    <3> HIDE DEF new
    <3>3. \A i \in 1..Len(new) : SoundNext(new[i])
      <4>1. \A i \in 1..3 : i = 1 \/ i = 2 \/ i = 3
        OBVIOUS
      <4> QED BY <4>1, <3>2, <2>2, <2>3, <2>4, <2>5
    <3> QED BY <1>0, <3>1, <3>2, <3>3, JoinedSound DEF Reading
  <2>6. CASE w # ".\""
    <3>1. frags' = frags \o <<a, b>>
      BY <2>1, <2>6, Concats
    <3> QED BY <1>0, <3>1, <2>2, <2>3, TwoSound DEF Reading
  <2> QED BY <2>5, <2>6
<1>13. CASE If \/ While
  <2>1. frags' = frags \o <<Pending, Frag("BRANCH_IF_ZERO", Here)>>
    BY <1>13 DEF If, While, Forward
  <2> QED BY <1>0, <2>1, AheadSound
<1>14. CASE Else
  <2>1. frags' = frags \o <<Pending, Frag("BRANCH", Here)>>
    BY <1>14 DEF Else
  <2> QED BY <1>0, <2>1, AheadSound
<1>15. SoundNext(Pending)
  <2>1. 0 \in Operands("BRANCH_LOCATION")'
    BY OperandsOf
  <2> QED BY <1>00, <2>1, FragSound DEF Pending
<1>16. CASE Do
  <2>1. 0 \in Operands("DO")'
    BY OperandsOf
  <2>2. SoundNext(Frag("DO", 0))
    BY <1>00, <2>1, FragSound
  <2>3. frags' = frags \o <<Frag("DO", 0), Pending>>
    BY <1>16 DEF Do, Emit
  <2> QED BY <1>0, <1>15, <2>2, <2>3, TwoSound DEF Reading
<1>17. CASE Begin
  <2>1. frags' = frags \o <<Pending>>
    BY <1>17 DEF Begin, Emit
  <2> QED BY <1>0, <1>15, <2>1, OneSound DEF Reading
<1>18. CASE Loop \/ Until \/ Again
  <2>1. cf # <<>>
    BY <1>00, <1>18, ClosingGuards DEF Loop, Until, Again, Backward, Control
  <2>2. \E o \in {"BRANCH", "BRANCH_IF_ZERO", "LOOP"} : Emit1(o, Top.frag)
    BY <1>18 DEF Loop, Until, Again, Backward
  <2> QED BY <1>0, <2>1, <2>2, TopOperand, EmittedSound
<1>19. CASE Repeat
  <2> DEFINE k == Len(cf) - 1
  <2>1. Len(cf) > 1
    BY <1>00, <1>19, RepeatGuard DEF Repeat, Control
  <2>2. k \in 1..Len(cf)
    <3>1. Len(cf) \in Nat
      BY <1>0 DEF Reading, CodeOK, Placed, Shapes
    <3> QED BY <2>1, <3>1
  <2>3. frags' = Append(frags, Frag("BRANCH", cf[k].frag))
    BY <1>19 DEF Repeat
  <2> HIDE DEF k
  <2>4. cf[k].frag \in Operands("BRANCH")'
    BY <1>0, <2>2, BranchOperand
  <2>5. SoundNext(Frag("BRANCH", cf[k].frag))
    BY <1>00, <2>4, FragSound
  <2> QED BY <1>0, <2>3, <2>5, OneSound DEF Reading
<1>20. ASSUME NEW n, Colon(n)
       PROVE  AllSound
  <2> DEFINE x == [op |-> "DEFINED_WORD_LOCATION", param |-> 0, inWord |-> TRUE]
  <2>1. frags' = frags \o <<x>>
    BY <1>20 DEF Colon, Emit
  <2>2. x.op = "DEFINED_WORD_LOCATION" /\ x.param = 0 /\ x.inWord = TRUE
    OBVIOUS
  <2> HIDE DEF x
  <2>3. 0 \in OperandsIn(frags', variables', runtime', callbacks', "DEFINED_WORD_LOCATION")
    <3>1. 0 \in Operands("DEFINED_WORD_LOCATION")'
      BY OperandsOf
    <3> QED BY <3>1, OperandsNow
  <2>4. SoundNext(x)
    BY <2>2, <2>3 DEF SoundNext, Refers
  <2> QED BY <1>0, <2>1, <2>4, OneSound DEF Reading
<1>21. ASSUME NEW w, Skip(w) \/ Comment(w) \/ Then
       PROVE  AllSound
  <2>1. frags' = frags
    BY <1>21 DEF Skip, Comment, Then, code
  <2> QED BY <2>1, <1>5
<1> QED BY <1>1, <1>2, <1>3, <1>4, <1>6, <1>7, <1>8, <1>9, <1>10, <1>11, <1>12, <1>13, <1>14,
           <1>16, <1>17, <1>18, <1>19, <1>20, <1>21 DEF Compiles

(* What else a word that compiles does to what TypeInv is about.           *)
LEMMA CompilesWords ==
    ASSUME CompilerInv, TypeInv, Compiles
    PROVE  /\ \A k \in 1..Len(words') : words'[k].frag \in FragmentsWith({"DEFINED_WORD_LOCATION"})'
           /\ defining' => Len(words') > 0
<1>0. Reading
  BY ReadingNow
<1>1. /\ words \in Seq(Word) /\ CodeOK(frags, sequence, cf) /\ ret = "reading"
      /\ defining \in BOOLEAN
      /\ \A k \in 1..Len(words) : words[k].frag \in FragmentsWith({"DEFINED_WORD_LOCATION"})
      /\ defining => Len(words) > 0
  BY <1>0, CompilesReads DEF Reading, TablesOK, TypeInv
<1>2. ASSUME NEW n \in Names, Colon(n)
      PROVE  /\ \A k \in 1..Len(words') :
                   words'[k].frag \in FragmentsWith({"DEFINED_WORD_LOCATION"})'
             /\ Len(words') > 0
  <2> DEFINE x == [op |-> "DEFINED_WORD_LOCATION", param |-> 0, inWord |-> TRUE]
  <2>1. Len(frags) \in Nat /\ AnySeq(frags)
    BY <1>1, LenProperties DEF CodeOK, AnySeq
  <2>2. /\ Len(words') = Len(words) + 1 /\ Len(words) \in Nat
        /\ \A k \in 1..Len(words) : words'[k] = words[k]
        /\ words'[Len(words) + 1].frag = Len(frags) + 1
    BY <1>1, <1>2, <2>1, ColonWord
  <2>3. frags' = frags \o <<x>>
    BY <1>2 DEF Colon, Emit
  <2>4. x.op = "DEFINED_WORD_LOCATION"
    OBVIOUS
  <2> HIDE DEF x
  <2>5. AnySeq(<<x>>) /\ Len(<<x>>) = 1 /\ <<x>>[1] = x
    BY Tuples
  <2>6. AnySeq(frags') /\ Len(frags') = Len(frags) + 1 /\ frags'[Len(frags) + 1] = x
    <3> DEFINE y == <<x>>
    <3>0. AnySeq(y) /\ Len(y) = 1
      BY <2>5
    <3> HIDE DEF y
    <3>2. /\ AnySeq(frags \o y) /\ Extends(frags, frags \o y, Len(y))
          /\ \A i \in 1..Len(y) : (frags \o y)[Len(frags) + i] = y[i]
      BY <2>1, <3>0, Joined, Zenon
    <3>1. /\ AnySeq(frags \o <<x>>) /\ Extends(frags, frags \o <<x>>, 1)
          /\ \A i \in 1..1 : (frags \o <<x>>)[Len(frags) + i] = <<x>>[i]
      BY <3>0, <3>2 DEF y
    <3> QED BY <2>3, <2>5, <3>1 DEF Extends
  <2>7. Len(frags) + 1 \in DOMAIN frags'
    <3>1. DOMAIN frags' = 1..(Len(frags) + 1)
      BY <2>6, LenProperties DEF AnySeq
    <3> QED BY <2>1, <3>1
  <2>8. Len(frags) + 1 \in FragmentsWith({"DEFINED_WORD_LOCATION"})'
    <3>1. Len(frags) + 1 \in {f \in DOMAIN frags' : frags'[f].op \in {"DEFINED_WORD_LOCATION"}}
      BY <2>4, <2>6, <2>7
    <3> QED BY <3>1 DEF FragmentsWith
  <2>9. \A k \in 1..Len(words') : k \in 1..Len(words) \/ k = Len(words) + 1
    BY <2>2
  <2>10. \A k \in 1..Len(words) :
            words'[k].frag \in FragmentsWith({"DEFINED_WORD_LOCATION"})'
    BY <1>0, <1>1, <2>2, LocationsStay
  <2> QED BY <2>2, <2>8, <2>9, <2>10
<1>3. ASSUME ~ \E n \in Names : Colon(n)
      PROVE  /\ \A k \in 1..Len(words') :
                   words'[k].frag \in FragmentsWith({"DEFINED_WORD_LOCATION"})'
             /\ defining' => Len(words') > 0
  <2>1. Kept(words')
    BY <1>1, <1>3, WordsKept
  <2>2. Len(words') = Len(words) /\ \A k \in 1..Len(words) : words'[k].frag = words[k].frag
    BY <2>1 DEF Kept
  <2>3. defining' => defining
    BY <1>3, TablesStep DEF Colons
  <2> QED BY <1>0, <1>1, <2>2, <2>3, LocationsStay
<1> QED BY <1>2, <1>3

(* Only string literals are entered as strings.                            *)
LEMMA CompilesStrings ==
    ASSUME AnySeq(strings), Elems(strings) \subseteq Strings, Compiles
    PROVE  AnySeq(strings') /\ Elems(strings') \subseteq Strings
<1>1. strings' = strings \/ \E s \in Strings : strings' = Intern(strings, s)
  BY DEF Compiles, UseName, UseBuiltin, UseRuntime, Plain, Skip, Declare, Colon,
         Tick, CTick, Semicolon, Exit, Recurse, Comment, String, If, Then, Else, Do,
         Loop, Begin, Until, While, Repeat, Again, Forward, Backward, Control, tables
<1> QED BY <1>1, Interned

(* A word is read while there is room for it.                              *)
LEMMA CompilesCounts ==
    ASSUME read \in 0..MaxWords, Compiles
    PROVE  read' \in 0..MaxWords
<1>1. read < MaxWords /\ read' = read + 1
  <2>1. \A w, n : Accepts(w, n) => read < MaxWords /\ read' = read + 1
    BY DEF Accepts, Reads
  <2>2. \A w : UseName(w) => read < MaxWords /\ read' = read + 1
    BY DEF UseName, Reads
  <2> QED BY <2>1, <2>2 DEF Compiles, UseBuiltin, UseRuntime, Plain, Skip, Declare, Colon,
             Tick, CTick, Semicolon, Exit, Recurse, Comment, String, If, Then, Else, Do,
             Loop, Begin, Until, While, Repeat, Again, Forward, Backward, Control
<1> QED BY <1>1, CompilerAssumption

(* After an error there is nothing left to be wrong.                       *)
LEMMA AbandonTypes ==
    ASSUME NEW error, error # "reading", Abandon(error)
    PROVE  TypeInv'
<1>1. /\ words' = <<>> /\ frags' = <<>> /\ strings' = <<>> /\ read' = 0 /\ ret' = error
  BY DEF Abandon
<1>2. 1..Len(<<>>) = {} /\ AnySeq(<<>>) /\ Elems(<<>>) = {}
  BY NoTables
<1>3. 0 \in 0..MaxWords
  BY CompilerAssumption
<1> QED BY <1>1, <1>2, <1>3 DEF TypeInv

(* The end of the source adds the HALT fragment.                           *)
LEMMA FinishTypes ==
    ASSUME CompilerInv, TypeInv, Finish
    PROVE  TypeInv'
<1> DEFINE x == Frag("HALT", 0)
<1>1. /\ frags' = Append(frags, x) /\ ret = "reading" /\ ret' = "compiled"
      /\ UNCHANGED <<words, runtime, variables, callbacks, strings, defining, read>>
  BY DEF Finish, tables
<1>2. /\ defining \in BOOLEAN /\ AnySeq(frags) /\ Len(frags) \in Nat
      /\ AnySeq(runtime) /\ AnySeq(variables) /\ AnySeq(callbacks)
  BY <1>1, LenProperties DEF CompilerInv, TablesOK, CodeOK, AnySeq
<1>3. SoundNext(x)
  <2>1. 0 \in Operands("HALT")'
    BY OperandsOf
  <2> QED BY <1>2, <2>1, FragSound
<1> HIDE DEF x
<1>4. AnySeq(frags') /\ Extends(frags, frags', 1) /\ frags'[Len(frags) + 1] = x
  BY <1>1, <1>2, Appended
<1>5. Grows
  BY <1>1, <1>2, <1>4, Itself DEF Grows, Prefix
<1>6. \A f \in 1..Len(frags') : SoundNext(frags'[f])
  <2>1. /\ Len(frags') = Len(frags) + 1 /\ \A f \in 1..Len(frags) : frags'[f] = frags[f]
    BY <1>4 DEF Extends
  <2>2. \A f \in 1..Len(frags') : f \in 1..Len(frags) \/ f = Len(frags) + 1
    BY <1>2, <2>1
  <2>3. \A f \in 1..Len(frags) : SoundNext(frags[f])
    BY <1>5, OperandsGrow DEF TypeInv
  <2>4. SoundNext(frags'[Len(frags) + 1])
    BY <1>3, <1>4
  <2>5. \A f \in 1..Len(frags) : SoundNext(frags'[f])
    BY <2>1, <2>3
  <2> QED BY <2>2, <2>4, <2>5
<1>7. \A k \in 1..Len(words) : words[k].frag \in FragmentsWith({"DEFINED_WORD_LOCATION"})'
  <2>1. DOMAIN frags \subseteq DOMAIN frags' /\ \A k \in DOMAIN frags : frags'[k] = frags[k]
    BY <1>5, PrefixDomain DEF Grows
  <2>2. FragmentsWith({"DEFINED_WORD_LOCATION"}) \subseteq FragmentsWith({"DEFINED_WORD_LOCATION"})'
    BY <2>1 DEF FragmentsWith
  <2> QED BY <2>2 DEF TypeInv
<1>8. \A f \in 1..Len(frags') : Sound(frags[f])'
  BY <1>6 DEF Sound, SoundNext
<1> QED BY <1>1, <1>7, <1>8 DEF TypeInv

(* Every step preserves the invariant.                                     *)
LEMMA NextTypes ==
    ASSUME CompilerInv, TypeInv, [Next]_vars
    PROVE  TypeInv'
<1>1. ASSUME Compiles
      PROVE  TypeInv'
  <2>1. AnySeq(strings') /\ Elems(strings') \subseteq Strings /\ read' \in 0..MaxWords
    BY <1>1, CompilesStrings, CompilesCounts DEF TypeInv
  <2>2. \A f \in 1..Len(frags') : Sound(frags[f])'
    BY <1>1, CompilesSound DEF AllSound, Sound, SoundNext
  <2>3. /\ \A k \in 1..Len(words') : words'[k].frag \in FragmentsWith({"DEFINED_WORD_LOCATION"})'
        /\ defining' => Len(words') > 0
    BY <1>1, CompilesWords
  <2> QED BY <2>1, <2>2, <2>3 DEF TypeInv
<1>2. ASSUME NEW w, NEW n, Fail(w, n)
      PROVE  TypeInv'
  <2>1. Abandon(ret') /\ ret' \in ErrorCode
    BY <1>2, FailCode DEF CompilerInv, TablesOK
  <2>2. ret' # "reading"
    BY <2>1 DEF ErrorCode
  <2> QED BY <2>1, <2>2, AbandonTypes
<1>3. CASE Finish
  BY <1>3, FinishTypes
<1>4. CASE FinishEarly
  BY <1>4, AbandonTypes DEF FinishEarly
<1>5. CASE UNCHANGED vars
  BY <1>5 DEF vars, code, tables, TypeInv, Sound, FragmentsWith
<1> QED BY <1>1, <1>2, <1>3, <1>4, <1>5, NextCases

(* The ENTRY fragment refers to nothing.                                   *)
LEMMA InitTypes == Init => TypeInv
<1> HAVE Init
<1> DEFINE e == [op |-> "ENTRY", param |-> 0, inWord |-> FALSE]
<1>1. frags = <<e>> /\ words = <<>> /\ strings = <<>> /\ read = 0 /\ defining = FALSE
  BY DEF Init
<1>2. e.op = "ENTRY" /\ e.param = 0 /\ e.inWord \in BOOLEAN
  OBVIOUS
<1> HIDE DEF e
<1>3. Len(<<e>>) = 1 /\ <<e>>[1] = e
  BY Tuples
<1>4. \A o : o = "ENTRY" => OperandsIn(frags, variables, runtime, callbacks, o) = Nat
  BY DEF OperandsIn
<1>5. \A f \in 1..Len(frags) : Sound(frags[f])
  <2>1. Sound(e)
    BY <1>2, <1>4 DEF Sound, Refers
  <2>2. \A f \in 1..Len(frags) : frags[f] = e
    BY <1>1, <1>3
  <2> QED BY <2>1, <2>2
<1>6. 1..Len(<<>>) = {} /\ AnySeq(<<>>) /\ Elems(<<>>) = {}
  BY NoTables
<1>7. 0 \in 0..MaxWords
  BY CompilerAssumption
<1> QED BY <1>1, <1>5, <1>6, <1>7 DEF TypeInv

(* The code, of the finished program as well as of the one being read.     *)
FinalCode == CodeOK(frags, sequence, cf)

(* The pass at the end of the source leaves the code in order.             *)
LEMMA FinishCode ==
    ASSUME CompilerInv, TypeInv, TypeInv', Finish
    PROVE  FinalCode'
<1> DEFINE n == Len(frags)
           s == Append(sequence, n + 1)
           t == MainFirst(frags', s)
<1>1. /\ frags' = Append(frags, Frag("HALT", 0)) /\ sequence' = t
      /\ cf = <<>> /\ cf' = <<>> /\ ret = "reading"
  BY DEF Finish, Here
<1>2. CodeOK(frags, sequence, cf) /\ AnySeq(frags)
  BY <1>1 DEF CompilerInv, CodeOK
<1>3. n \in Nat /\ sequence \in Seq(Nat) /\ Placed(n, sequence, <<>>)
  BY <1>1, <1>2 DEF CodeOK, Placed, Shapes
<1>4. AnySeq(frags') /\ Len(frags') = n + 1
  BY <1>1, <1>2, Appended DEF Extends
<1>5. Placed(n + 1, s, <<>>)
  BY <1>3, PlaceOne
<1>6. s \in Seq(Nat)
  BY <1>5 DEF Placed, Shapes
<1>7. Parted(frags', s)
  <2>1. \A k \in 1..Len(s) : s[k] \in 1..Len(frags')
    BY <1>4, <1>5 DEF Placed, Once
  <2>2. \A f \in 1..Len(frags') : frags'[f].inWord \in BOOLEAN
    BY DEF TypeInv, Sound, Refers
  <2> QED BY <2>1, <2>2 DEF Parted
<1> HIDE DEF s
<1>8. Reorders(frags', s, Places(frags', s), t) /\ t \in Seq(Nat)
  BY <1>6, <1>7, MainFirstReorders
<1> HIDE DEF t
<1>9. Placed(n + 1, t, <<>>)
  BY <1>5, <1>8, Rearranged
<1>10. Targets(frags', <<>>) /\ OnBegin(<<>>)
  BY DEF Targets, OnBegin
<1> QED BY <1>1, <1>4, <1>9, <1>10 DEF FinalCode, CodeOK

(* Fragments refer only to entries the tables have, and the code stays in  *)
(* order to the end.                                                       *)
THEOREM CompilerTypes == Spec => [](TypeInv /\ FinalCode)
<1>1. Init => TypeInv /\ FinalCode
  BY InitTypes, EntryCode DEF FinalCode
<1>2. CompilerInv /\ CompilerInv' /\ TypeInv /\ FinalCode /\ [Next]_vars => TypeInv' /\ FinalCode'
  <2> SUFFICES ASSUME CompilerInv, CompilerInv', TypeInv, FinalCode, [Next]_vars
               PROVE  TypeInv' /\ FinalCode'
    OBVIOUS
  <2>1. TypeInv'
    BY NextTypes
  <2>2. CASE Finish
    BY <2>1, <2>2, FinishCode
  <2>3. CASE UNCHANGED vars
    BY <2>1, <2>3 DEF vars, code, FinalCode
  <2>4. CASE ret' # "compiled"
    BY <2>1, <2>4 DEF CompilerInv, FinalCode
  <2>5. ret' = "compiled" => Finish \/ UNCHANGED vars
    <3>1. Compiles => ret' = "reading"
      BY CompilesReads
    <3>2. \A w, n : Fail(w, n) => ret' \in ErrorCode
      BY FailCode DEF CompilerInv, TablesOK
    <3>3. "compiled" \notin ErrorCode /\ "compiled" # "reading"
      BY DEF ErrorCode
    <3>4. FinishEarly => ret' = "EARLY_END_OF_SOURCE"
      BY DEF FinishEarly, Abandon
    <3> QED BY <3>1, <3>2, <3>3, <3>4, NextCases
  <2> QED BY <2>1, <2>2, <2>3, <2>4, <2>5
<1> QED BY <1>1, <1>2, CompilerInvariant, PTL DEF Spec

(* No fragment refers to an entry that its table does not have.            *)
THEOREM TypesHold == Spec => []TypeOK
<1>1. CompilerInv /\ TypeInv /\ FinalCode => TypeOK
  <2> SUFFICES ASSUME CompilerInv, TypeInv, FinalCode
               PROVE  TypeOK
    OBVIOUS
  <2>1. /\ AnySeq(frags) /\ sequence \in Seq(Nat) /\ cf \in Seq(Construct) /\ words \in Seq(Word)
        /\ Once(Len(frags), sequence) /\ Targets(frags, cf)
    BY DEF FinalCode, CodeOK, Placed, Shapes, CompilerInv, TablesOK
  <2>2. /\ DOMAIN frags = 1..Len(frags) /\ DOMAIN sequence = 1..Len(sequence)
        /\ DOMAIN cf = 1..Len(cf) /\ DOMAIN words = 1..Len(words)
        /\ \A k \in 1..Len(cf) : cf[k] \in Construct
        /\ \A k \in 1..Len(words) : words[k] \in Word
    BY <2>1, LenProperties DEF AnySeq
  <2>3. \A f \in DOMAIN frags : frags[f].param \in Operands(frags[f].op) /\ frags[f].inWord \in BOOLEAN
    BY <2>2, OperandsNow DEF TypeInv, Sound, Refers
  <2>4. Elems(sequence) \subseteq DOMAIN frags
    BY <2>1, <2>2 DEF Elems, Once
  <2>5. \A k \in DOMAIN cf : /\ cf[k].type \in {"IF", "ELSE", "DO", "BEGIN", "WHILE"}
                            /\ cf[k].frag \in FragmentsWith({"BRANCH_LOCATION"})
    <3>1. \A k \in DOMAIN cf : cf[k].type \in {"IF", "ELSE", "DO", "BEGIN", "WHILE"}
      BY <2>2 DEF Construct, Owing
    <3>2. \A k \in DOMAIN cf : cf[k].frag \in FragmentsWith({"BRANCH_LOCATION"})
      BY <2>1, <2>2 DEF Targets, FragmentsWith
    <3> QED BY <3>1, <3>2
  <2>6. \A k \in DOMAIN words : /\ words[k].frag \in FragmentsWith({"DEFINED_WORD_LOCATION"})
                               /\ words[k].flags \subseteq {"calls", "loops"}
    BY <2>2 DEF TypeInv, Word
  <2>7. Elems(callbacks) \subseteq DOMAIN words
    BY <2>2 DEF CompilerInv, CallbacksOK
  <2>8. defining \in BOOLEAN /\ Elems(strings) \subseteq Strings /\ read \in 0..MaxWords
    BY DEF CompilerInv, TablesOK, TypeInv
  <2> QED BY <2>3, <2>4, <2>5, <2>6, <2>7, <2>8 DEF TypeOK
<1> QED BY <1>1, CompilerInvariant, CompilerTypes, PTL

(* No fragment is emitted twice, and the ones not emitted are exactly the  *)
(* targets the open constructs of the control-flow stack owe: at the end   *)
(* of an accepted source none is, also after the main program has moved in *)
(* front of the words.                                                     *)
THEOREM PlacedToTheEnd == Spec => []Placement
<1>1. FinalCode => Placement
  BY CodePlaced DEF FinalCode
<1> QED BY <1>1, CompilerTypes, PTL

=============================================================================
