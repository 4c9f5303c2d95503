---------------------------- MODULE BinaryProofs ----------------------------
(***************************************************************************)
(* The first part is about the format of the binary: numbers, sums and     *)
(* texts, the parts of the header and the code.  It holds for every source *)
(* that satisfies LegalSource, and says nothing of the steps of a program. *)
(*                                                                         *)
(* The second part has the inductive invariant of Binary and the theorems  *)
(* that follow from it, for every set of jobs: every source, engine, set   *)
(* of runtime words and range of memory.                                   *)
(***************************************************************************)
EXTENDS Binary, TLAPS, NaturalsInduction, WellFoundedInduction, SequenceTheorems

(* A set of natural numbers that is not empty has a least element.         *)
LEMMA LeastElement ==
    ASSUME NEW T \in SUBSET Nat, T # {}
    PROVE  \E k \in T : \A m \in T : k <= m
<1>1. \E k \in T : \A m \in T : ~ (<<m, k>> \in OpToRel(<, Nat))
  BY NatLessThanWellFounded, WFMin
<1>2. PICK k \in T : \A m \in T : ~ (<<m, k>> \in OpToRel(<, Nat))
  BY <1>1
<1>3. \A m \in T : ~ (m < k)
  BY <1>2 DEF OpToRel
<1>. QED  BY <1>3

(* Counting up to N: a set that has 0 and, below N, the successor of each  *)
(* of its elements has all numbers up to N.  The proofs about sums, texts  *)
(* and code go by it.                                                      *)
LEMMA UpTo ==
    ASSUME NEW N \in Nat, NEW T, 0 \in T, \A i \in 0..(N - 1) : i \in T => i + 1 \in T
    PROVE  \A i \in 0..N : i \in T
<1> DEFINE Bad == {i \in 0..N : i \notin T}
<1> SUFFICES ASSUME Bad # {} PROVE FALSE
  OBVIOUS
<1>1. PICK k \in Bad : \A m \in Bad : k <= m
  <2>1. Bad \in SUBSET Nat
    OBVIOUS
  <2> HIDE DEF Bad
  <2>. QED  BY <2>1, LeastElement
<1>2. k \in 0..N /\ k \notin T /\ k # 0
  BY <1>1
<1>3. k - 1 \in 0..(N - 1) /\ k - 1 \in T
  BY <1>1, <1>2
<1>. QED  BY <1>2, <1>3

(* The ints of the program.                                                *)
Number == (-INT_MAX - 1)..INT_MAX

(* How large INT_MAX is, as far as the number format asks: five groups of  *)
(* bits are enough for it.  Nothing else is used of its value.             *)
LEMMA MaxFits == INT_MAX \in Nat /\ INT_MAX > 255 /\ INT_MAX < 64 * (128 * 128 * 128 * 128)
  BY SMT DEF INT_MAX

(* The complement of an int is never negative.                             *)
LEMMA NumberFits == \A n : n \in Number => n \in Int /\ Complement(n) \in 0..INT_MAX
  BY MaxFits DEF Complement, Number

(* Counts are ints.                                                        *)
LEMMA CountFits == \A n : n \in Counts => n \in Nat /\ n \in Number
  BY MaxFits DEF Counts, Number

(* Each shift divides by 128, and four of them leave at most six bits of   *)
(* an int.                                                                 *)
LEMMA ShiftedStep ==
    ASSUME NEW n \in Number
    PROVE  /\ Shifted(n, 0) = Complement(n)
           /\ \A k \in 0..4 : Shifted(n, k) \in Nat
           /\ \A k \in 0..3 : Shifted(n, k + 1) = Shifted(n, k) \div 128
           /\ Shifted(n, 4) < 64
<1> DEFINE c == Complement(n)
<1>1. c \in Nat /\ c < 64 * (128 * 128 * 128 * 128)
  BY NumberFits, MaxFits
<1>2. /\ Shifted(n, 0) = c \div 1 /\ Shifted(n, 1) = c \div 128
      /\ Shifted(n, 2) = c \div (128 * 128) /\ Shifted(n, 3) = c \div (128 * 128 * 128)
      /\ Shifted(n, 4) = c \div (128 * 128 * 128 * 128)
  BY SMT DEF Shifted, Weights
<1> HIDE DEF c
<1>3. /\ c \div 1 = c /\ c \div 128 \in Nat /\ c \div (128 * 128) \in Nat
      /\ c \div (128 * 128 * 128) \in Nat /\ c \div (128 * 128 * 128 * 128) \in Nat
      /\ c \div (128 * 128 * 128 * 128) < 64
  BY <1>1, SMT
<1>4. c \div (128 * 128) = (c \div 128) \div 128
  BY <1>1, SMT
<1>5. c \div (128 * 128 * 128) = (c \div (128 * 128)) \div 128
  BY <1>1, SMT
<1>6. c \div (128 * 128 * 128 * 128) = (c \div (128 * 128 * 128)) \div 128
  BY <1>1, SMT
<1>7. \A k \in 0..4 : k = 0 \/ k = 1 \/ k = 2 \/ k = 3 \/ k = 4
  OBVIOUS
<1>8. \A k \in 0..4 : Shifted(n, k) \in Nat
  BY <1>1, <1>2, <1>3, <1>7, SMT
<1>9. Shifted(n, 0 + 1) = Shifted(n, 0) \div 128 /\ Shifted(n, 1 + 1) = Shifted(n, 1) \div 128
  BY <1>2, <1>3, <1>4, SMT
<1>10. Shifted(n, 2 + 1) = Shifted(n, 2) \div 128 /\ Shifted(n, 3 + 1) = Shifted(n, 3) \div 128
  BY <1>2, <1>5, <1>6, SMT
<1>11. \A k \in 0..3 : Shifted(n, k + 1) = Shifted(n, k) \div 128
  <2>1. \A k \in 0..3 : k = 0 \/ k = 1 \/ k = 2 \/ k = 3
    OBVIOUS
  <2>. QED  BY <2>1, <1>9, <1>10
<1>. QED  BY <1>2, <1>3, <1>8, <1>11, SMT DEF c

(* The loops over a number stop, after at most four shifts, at the first   *)
(* at which no bit above the sixth is set.                                 *)
LEMMA ShiftsStop ==
    ASSUME NEW n \in Number
    PROVE  /\ Shifts(n) \in 0..4
           /\ \A k \in 0..4 : Shifts(n) <= k => Shifted(n, k) < 64
           /\ \A j \in 0..(Shifts(n) - 1) : Shifted(n, j) >= 64
<1> DEFINE Stops(k) == Shifted(n, k) < 64 /\ \A j \in 0..(k - 1) : Shifted(n, j) >= 64
<1>1. /\ \A k \in 0..4 : Shifted(n, k) \in Nat
      /\ \A k \in 0..3 : Shifted(n, k + 1) = Shifted(n, k) \div 128
      /\ Shifted(n, 4) < 64
  BY ShiftedStep
<1>2. \E k \in 0..4 : Stops(k)
  <2>1. CASE Shifted(n, 0) < 64
    <3>1. Stops(0)
      BY <2>1
    <3>. QED  BY <3>1
  <2>2. CASE Shifted(n, 0) >= 64 /\ Shifted(n, 1) < 64
    <3>1. Stops(1)
      BY <2>2
    <3>. QED  BY <3>1
  <2>3. CASE Shifted(n, 0) >= 64 /\ Shifted(n, 1) >= 64 /\ Shifted(n, 2) < 64
    <3>1. Stops(2)
      BY <2>3
    <3>. QED  BY <3>1
  <2>4. CASE Shifted(n, 0) >= 64 /\ Shifted(n, 1) >= 64 /\ Shifted(n, 2) >= 64 /\ Shifted(n, 3) < 64
    <3>1. Stops(3)
      BY <2>4
    <3>. QED  BY <3>1
  <2>5. CASE Shifted(n, 0) >= 64 /\ Shifted(n, 1) >= 64 /\ Shifted(n, 2) >= 64 /\ Shifted(n, 3) >= 64
    <3>1. Stops(4)
      BY <2>5, <1>1
    <3>. QED  BY <3>1
  <2>6. \A k \in 0..3 : Shifted(n, k) < 64 \/ Shifted(n, k) >= 64
    BY <1>1
  <2>7. 0 \in 0..3 /\ 1 \in 0..3 /\ 2 \in 0..3 /\ 3 \in 0..3
    OBVIOUS
  <2>. QED  BY ONLY <2>1, <2>2, <2>3, <2>4, <2>5, <2>6, <2>7
<1>3. Shifts(n) = CHOOSE k \in 0..4 : Stops(k)
  BY DEF Shifts
<1> DEFINE s == CHOOSE k \in 0..4 : Stops(k)
<1>4. s \in 0..4 /\ Stops(s)
  <2> HIDE DEF Stops
  <2>. QED  BY <1>2
<1> HIDE DEF s
<1>5. s \in 0..4 /\ Shifted(n, s) < 64 /\ \A j \in 0..(s - 1) : Shifted(n, j) >= 64
  BY <1>4
<1>6. \A k \in 0..3 : Shifted(n, k) < 64 => Shifted(n, k + 1) < 64
  BY <1>1
<1>7. \A k \in 0..4 : s <= k => Shifted(n, k) < 64
  <2>1. \A k \in 0..4 : k = 0 \/ k = 1 \/ k = 2 \/ k = 3 \/ k = 4
    OBVIOUS
  <2>2. /\ Shifted(n, 0) < 64 => Shifted(n, 1) < 64
        /\ Shifted(n, 1) < 64 => Shifted(n, 2) < 64
        /\ Shifted(n, 2) < 64 => Shifted(n, 3) < 64
        /\ Shifted(n, 3) < 64 => Shifted(n, 4) < 64
    <3>1. /\ Shifted(n, 0) < 64 => Shifted(n, 0 + 1) < 64
          /\ Shifted(n, 1) < 64 => Shifted(n, 1 + 1) < 64
          /\ Shifted(n, 2) < 64 => Shifted(n, 2 + 1) < 64
          /\ Shifted(n, 3) < 64 => Shifted(n, 3 + 1) < 64
      BY <1>6
    <3>. QED  BY <3>1
  <2>. QED  BY <1>5, <2>1, <2>2
<1>. QED  BY <1>3, <1>5, <1>7 DEF s

(* m4_num_encode_with_size, given room enough, writes that many bytes: all *)
(* but the last have the eighth bit set and seven bits of the number, the  *)
(* last has six bits and the sign.                                         *)
LEMMA EncodedBytes ==
    ASSUME NEW n \in Number, NEW size \in 1..5, Shifts(n) < size
    PROVE  LET t == encode_with_size(n, size)
           IN  /\ t \in Seq(Bytes) /\ Len(t) = size
               /\ \A k \in 1..(size - 1) : t[k] >= 128 /\ t[k] % 128 = Shifted(n, k - 1) % 128
               /\ t[size] < 128 /\ t[size] % 64 = Shifted(n, size - 1)
               /\ t[size] >= 64 <=> n < 0
<1> DEFINE t == encode_with_size(n, size)
<1>1. Shifts(n) \in 0..4 /\ \A k \in 0..4 : Shifted(n, k) \in Nat
  BY ShiftsStop, ShiftedStep
<1>2. Shifted(n, size - 1) \in 0..63
  <2>1. size - 1 \in 0..4 /\ Shifts(n) <= size - 1
    BY <1>1
  <2>2. Shifted(n, size - 1) < 64
    BY <2>1, ShiftsStop
  <2>. QED  BY <1>1, <2>1, <2>2
<1>3. SignBit(n) = (IF n < 0 THEN 64 ELSE 0)
  BY DEF SignBit
<1>4. t = [k \in 1..size |-> IF k < size THEN 128 + (Shifted(n, k - 1) % 128)
                             ELSE Shifted(n, k - 1) + SignBit(n)]
  <2>1. size > Shifts(n)
    BY <1>1
  <2>. QED  BY <2>1 DEF encode_with_size
<1> HIDE DEF t
<1>5. \A k \in 1..(size - 1) : t[k] = 128 + (Shifted(n, k - 1) % 128) /\ t[k] \in Bytes
  <2> SUFFICES ASSUME NEW k \in 1..(size - 1)
               PROVE  t[k] = 128 + (Shifted(n, k - 1) % 128) /\ t[k] \in Bytes
    OBVIOUS
  <2>1. k - 1 \in 0..4 /\ k \in 1..size /\ k < size
    OBVIOUS
  <2>2. t[k] = 128 + (Shifted(n, k - 1) % 128)
    BY <1>4, <2>1
  <2>3. Shifted(n, k - 1) \in Nat
    BY <1>1, <2>1
  <2>. QED  BY <2>2, <2>3 DEF Bytes
<1>6. t[size] = Shifted(n, size - 1) + SignBit(n) /\ t[size] \in Bytes
  <2>1. t[size] = Shifted(n, size - 1) + SignBit(n)
    BY <1>4
  <2>. QED  BY <2>1, <1>2, <1>3 DEF Bytes
<1>7. t \in [1..size -> Bytes]
  <2>1. \A k \in 1..size : t[k] \in Bytes
    BY <1>5, <1>6
  <2>2. DOMAIN t = 1..size /\ t = [k \in 1..size |-> t[k]]
    BY <1>4
  <2>. QED  BY <2>1, <2>2
<1>8. t \in Seq(Bytes) /\ Len(t) = size
  BY <1>7
<1>9. \A k \in 1..(size - 1) : t[k] >= 128 /\ t[k] % 128 = Shifted(n, k - 1) % 128
  <2> SUFFICES ASSUME NEW k \in 1..(size - 1)
               PROVE  t[k] >= 128 /\ t[k] % 128 = Shifted(n, k - 1) % 128
    OBVIOUS
  <2>1. k - 1 \in 0..4 /\ t[k] = 128 + (Shifted(n, k - 1) % 128)
    BY <1>5
  <2>2. Shifted(n, k - 1) \in Nat
    BY <1>1, <2>1
  <2>. QED  BY <2>1, <2>2
<1>10. t[size] < 128 /\ t[size] % 64 = Shifted(n, size - 1) /\ (t[size] >= 64 <=> n < 0)
  <2>0. n \in Int
    BY NumberFits
  <2>1. CASE n < 0
    BY <1>2, <1>3, <1>6, <2>1
  <2>2. CASE ~(n < 0)
    BY <1>2, <1>3, <1>6, <2>2
  <2>. QED  BY <2>1, <2>2
<1>. QED  BY <1>8, <1>9, <1>10 DEF t

(* The bytes t stand in b, from position p on.                             *)
Holds(b, p, t) ==
    p \in Nat /\ p + Len(t) <= Len(b) /\ \A k \in 1..Len(t) : b[p + k] = t[k]

(* m4_num_decode is the inverse of m4_num_encode_with_size, for every int  *)
(* and every size the compiler may choose: it finds the number and the     *)
(* position behind it.                                                     *)
LEMMA Decoded ==
    ASSUME NEW n \in Number, NEW size \in 1..5, Shifts(n) < size,
           NEW p, Holds(bin, p, encode_with_size(n, size))
    PROVE  decode(p).n = n /\ decode(p).next = p + size
<1> DEFINE t == encode_with_size(n, size)
           end == p + size - 1
           Ends(q) == Byte(q) < 128 /\ \A r \in p..(q - 1) : Byte(r) >= 128
           last == CHOOSE q \in p..(p + 4) : Ends(q)
           Is(v) == v = [q \in p..last |->
                           IF q = last THEN Byte(q) % 64 ELSE v[q + 1] * 128 + (Byte(q) % 128)]
           value == CHOOSE v : Is(v)
<1>1. /\ t \in Seq(Bytes) /\ Len(t) = size
      /\ \A k \in 1..(size - 1) : t[k] >= 128 /\ t[k] % 128 = Shifted(n, k - 1) % 128
      /\ t[size] < 128 /\ t[size] % 64 = Shifted(n, size - 1)
      /\ t[size] >= 64 <=> n < 0
  BY EncodedBytes
<1>2. p \in Nat /\ \A k \in 1..size : bin[p + k] = t[k]
  BY <1>1 DEF Holds
<1> HIDE DEF t
<1>3. /\ \A q \in p..(end - 1) : Byte(q) >= 128 /\ Byte(q) % 128 = Shifted(n, q - p) % 128
      /\ Byte(end) < 128 /\ Byte(end) % 64 = Shifted(n, size - 1)
      /\ Byte(end) >= 64 <=> n < 0
  <2>1. ASSUME NEW q \in p..(end - 1)
        PROVE  Byte(q) >= 128 /\ Byte(q) % 128 = Shifted(n, q - p) % 128
    <3>1. q - p + 1 \in 1..(size - 1) /\ q - p + 1 \in 1..size /\ p + (q - p + 1) = q + 1
          /\ (q - p + 1) - 1 = q - p
      BY <1>2
    <3>2. Byte(q) = t[q - p + 1]
      <4>1. bin[p + (q - p + 1)] = t[q - p + 1]
        BY <1>2, <3>1
      <4>. QED  BY <4>1, <3>1 DEF Byte
    <3>3. t[q - p + 1] >= 128 /\ t[q - p + 1] % 128 = Shifted(n, (q - p + 1) - 1) % 128
      BY <1>1, <3>1
    <3>. QED  BY <3>1, <3>2, <3>3
  <2>2. end + 1 = p + size /\ size \in 1..size
    BY <1>2
  <2>3. Byte(end) = t[size]
    BY <1>2, <2>2 DEF Byte
  <2>. QED  BY <1>1, <2>1, <2>3
<1>4. end \in p..(p + 4) /\ Ends(end)
  BY <1>2, <1>3
<1>5. last = end
  <2>1. \A q \in p..(p + 4) : Ends(q) => q = end
    <3> SUFFICES ASSUME NEW q \in p..(p + 4), Ends(q), q # end PROVE FALSE
      OBVIOUS
    <3>1. q \in Int /\ end \in Int /\ p \in Int
      BY <1>2
    <3>2. CASE q < end
      <4>1. q \in p..(end - 1)
        BY <3>1, <3>2
      <4>2. Byte(q) >= 128 /\ Byte(q) < 128
        BY <1>3, <4>1
      <4>3. Byte(q) \in Int
        <5>1. q - p + 1 \in 1..size /\ p + (q - p + 1) = q + 1
          BY <3>1, <4>1
        <5>2. t[q - p + 1] \in Bytes /\ bin[p + (q - p + 1)] = t[q - p + 1]
          BY <1>1, <1>2, <5>1
        <5>. QED  BY <5>1, <5>2 DEF Byte, Bytes
      <4>. QED  BY <4>2, <4>3
    <3>3. CASE end < q
      <4>1. end \in p..(q - 1)
        BY <3>1, <3>3, <1>4
      <4>2. Byte(end) >= 128 /\ Byte(end) < 128
        BY <1>3, <4>1
      <4>3. Byte(end) \in Int
        <5>1. end + 1 = p + size /\ size \in 1..size
          BY <1>2
        <5>2. t[size] \in Bytes /\ bin[p + size] = t[size]
          BY <1>1, <1>2, <5>1
        <5>. QED  BY <5>1, <5>2 DEF Byte, Bytes
      <4>. QED  BY <4>2, <4>3
    <3>. QED  BY <3>1, <3>2, <3>3
  <2>2. \E q \in p..(p + 4) : Ends(q)
    BY <1>4
  <2> HIDE DEF Ends
  <2>3. last \in p..(p + 4) /\ Ends(last)
    BY <2>2
  <2>. QED  BY <2>1, <2>3
<1>6. decode(p) = [n |-> IF Byte(last) >= 64 THEN -value[p] - 1 ELSE value[p], next |-> last + 1]
  BY DEF decode
<1> HIDE DEF last
<1>7. \A q \in p..(end - 1) : q + 1 \in p..end /\ q \in p..end /\ q # end /\ q - p \in 0..3
      /\ (q + 1) - p = (q - p) + 1
  BY <1>2
<1>8. \A q \in p..(end - 1) :
        Shifted(n, q - p) = Shifted(n, (q - p) + 1) * 128 + (Byte(q) % 128)
  <2> SUFFICES ASSUME NEW q \in p..(end - 1)
               PROVE  Shifted(n, q - p) = Shifted(n, (q - p) + 1) * 128 + (Byte(q) % 128)
    OBVIOUS
  <2>1. q - p \in 0..3
    BY <1>7
  <2> DEFINE x == Shifted(n, q - p)
  <2>2. x \in Nat /\ Shifted(n, (q - p) + 1) = x \div 128
    BY <2>1, ShiftedStep
  <2>3. Byte(q) % 128 = x % 128
    BY <1>3
  <2> HIDE DEF x
  <2>4. x = (x \div 128) * 128 + (x % 128)
    BY <2>2
  <2>. QED  BY <2>2, <2>3, <2>4 DEF x
<1>9. Is([q \in p..end |-> Shifted(n, q - p)])
  <2> DEFINE v == [q \in p..end |-> Shifted(n, q - p)]
  <2>1. ASSUME NEW q \in p..end
        PROVE  v[q] = IF q = end THEN Byte(q) % 64 ELSE v[q + 1] * 128 + (Byte(q) % 128)
    <3>1. CASE q = end
      <4>1. end - p = size - 1
        BY <1>2
      <4>. QED  BY <3>1, <4>1, <1>3
    <3>2. CASE q # end
      <4>1. q \in p..(end - 1)
        BY <3>2, <1>2
      <4>2. v[q + 1] = Shifted(n, (q - p) + 1)
        BY <4>1, <1>7
      <4>3. v[q] = Shifted(n, q - p)
        BY <4>1, <1>7
      <4>. QED  BY <3>2, <4>1, <4>2, <4>3, <1>8
    <3>. QED  BY <3>1, <3>2
  <2> DEFINE w == [q \in p..last |-> IF q = last THEN Byte(q) % 64
                                     ELSE v[q + 1] * 128 + (Byte(q) % 128)]
  <2>2. DOMAIN v = p..end /\ DOMAIN w = p..end
    BY <1>5
  <2>3. \A q \in p..end : v[q] = w[q]
    BY <1>5, <2>1
  <2>4. v = [q \in p..end |-> v[q]] /\ w = [q \in p..end |-> w[q]]
    BY <2>2
  <2> HIDE DEF v, w
  <2>5. v = w
    BY <2>3, <2>4
  <2>. QED  BY <2>5 DEF w, v
<1>10. Is(value)
  <2> HIDE DEF Is
  <2>1. \E v : Is(v)
    BY <1>9
  <2>. QED  BY <2>1
<1> HIDE DEF value
<1>11. \A q \in p..end :
         value[q] = IF q = end THEN Byte(q) % 64 ELSE value[q + 1] * 128 + (Byte(q) % 128)
  BY <1>10, <1>5
<1>12. value[p] = Complement(n)
  <2> DEFINE T == {i \in 0..(size - 1) : value[end - i] = Shifted(n, (size - 1) - i)}
  <2>1. 0 \in T
    <3>1. end - 0 = end /\ (size - 1) - 0 = size - 1 /\ 0 \in 0..(size - 1) /\ end \in p..end
      BY <1>2
    <3>2. value[end] = Byte(end) % 64
      BY <3>1, <1>11
    <3>. QED  BY <3>1, <3>2, <1>3
  <2>2. \A i \in 0..((size - 1) - 1) : i \in T => i + 1 \in T
    <3> SUFFICES ASSUME NEW i \in 0..((size - 1) - 1), i \in T PROVE i + 1 \in T
      OBVIOUS
    <3> DEFINE q == end - (i + 1)
    <3>1. /\ q \in p..(end - 1) /\ q + 1 = end - i /\ (q - p) + 1 = (size - 1) - i
          /\ q - p = (size - 1) - (i + 1) /\ i + 1 \in 0..(size - 1)
      BY <1>2
    <3>2. q \in p..end /\ q # end
      BY <3>1, <1>7
    <3> HIDE DEF q
    <3>3. value[q] = value[q + 1] * 128 + (Byte(q) % 128)
      BY <3>2, <1>11
    <3>4. value[q + 1] = Shifted(n, (q - p) + 1)
      BY <3>1
    <3>5. value[q] = Shifted(n, q - p)
      BY <3>1, <3>3, <3>4, <1>8
    <3>. QED  BY <3>1, <3>5 DEF q
  <2>3. size - 1 \in Nat /\ size - 1 \in 0..(size - 1)
    OBVIOUS
  <2> HIDE DEF T
  <2>4. size - 1 \in T
    BY <2>1, <2>2, <2>3, UpTo
  <2>5. value[end - (size - 1)] = Shifted(n, (size - 1) - (size - 1))
    BY <2>4 DEF T
  <2>6. end - (size - 1) = p /\ (size - 1) - (size - 1) = 0
    BY <1>2
  <2>. QED  BY <2>5, <2>6, ShiftedStep
<1>13. n \in Int /\ Complement(n) \in Int
  BY NumberFits
<1>14. n = IF n < 0 THEN -Complement(n) - 1 ELSE Complement(n)
  BY <1>13 DEF Complement
<1>15. last + 1 = p + size
  BY <1>2, <1>5
<1>16. Byte(last) >= 64 <=> n < 0
  BY <1>3, <1>5
<1>. QED  BY <1>6, <1>12, <1>14, <1>15, <1>16

(* One text behind another stands somewhere exactly if each stands in its  *)
(* place.                                                                  *)
LEMMA HoldsCat ==
    ASSUME NEW S, NEW s \in Seq(S), NEW t \in Seq(S), NEW b \in Seq(S), NEW p
    PROVE  Holds(b, p, s \o t) <=> Holds(b, p, s) /\ Holds(b, p + Len(s), t)
<1>1. /\ Len(s \o t) = Len(s) + Len(t) /\ Len(s) \in Nat /\ Len(t) \in Nat /\ Len(b) \in Nat
      /\ \A k \in 1..Len(s) : (s \o t)[k] = s[k]
      /\ \A k \in 1..Len(t) : (s \o t)[Len(s) + k] = t[k]
  BY LenProperties, ConcatProperties
<1> DEFINE c == s \o t
<1> HIDE DEF c
<1>2. ASSUME Holds(b, p, c)
      PROVE  Holds(b, p, s) /\ Holds(b, p + Len(s), t)
  <2>1. p \in Nat /\ p + Len(c) <= Len(b) /\ \A k \in 1..Len(c) : b[p + k] = c[k]
    BY <1>2 DEF Holds
  <2>2. \A k \in 1..Len(s) : k \in 1..Len(c) /\ b[p + k] = s[k]
    BY <1>1, <2>1 DEF c
  <2>3. \A k \in 1..Len(t) : b[(p + Len(s)) + k] = t[k]
    <3> SUFFICES ASSUME NEW k \in 1..Len(t) PROVE b[(p + Len(s)) + k] = t[k]
      OBVIOUS
    <3>1. Len(s) + k \in 1..Len(c) /\ p + (Len(s) + k) = (p + Len(s)) + k
      BY <1>1, <2>1 DEF c
    <3>2. b[p + (Len(s) + k)] = c[Len(s) + k] /\ c[Len(s) + k] = t[k]
      BY <1>1, <2>1, <3>1 DEF c
    <3>. QED  BY <3>1, <3>2
  <2>4. p + Len(s) \in Nat /\ p + Len(s) <= Len(b) /\ (p + Len(s)) + Len(t) <= Len(b)
    BY <1>1, <2>1 DEF c
  <2>. QED  BY <2>1, <2>2, <2>3, <2>4 DEF Holds
<1>3. ASSUME Holds(b, p, s), Holds(b, p + Len(s), t)
      PROVE  Holds(b, p, c)
  <2>1. /\ p \in Nat /\ \A k \in 1..Len(s) : b[p + k] = s[k]
        /\ (p + Len(s)) + Len(t) <= Len(b) /\ \A k \in 1..Len(t) : b[(p + Len(s)) + k] = t[k]
    BY <1>3 DEF Holds
  <2>2. p + Len(c) <= Len(b)
    BY <1>1, <2>1 DEF c
  <2>3. \A k \in 1..Len(c) : b[p + k] = c[k]
    <3> SUFFICES ASSUME NEW k \in 1..Len(c) PROVE b[p + k] = c[k]
      OBVIOUS
    <3>1. CASE k <= Len(s)
      BY <1>1, <2>1, <3>1 DEF c
    <3>2. CASE ~(k <= Len(s))
      <4>1. k - Len(s) \in 1..Len(t) /\ Len(s) + (k - Len(s)) = k
            /\ (p + Len(s)) + (k - Len(s)) = p + k
        BY <1>1, <2>1, <3>2 DEF c
      <4>2. c[Len(s) + (k - Len(s))] = t[k - Len(s)]
        BY <1>1, <4>1 DEF c
      <4>. QED  BY <2>1, <4>1, <4>2
    <3>. QED  BY <3>1, <3>2
  <2>. QED  BY <2>1, <2>2, <2>3 DEF Holds
<1>. QED  BY <1>2, <1>3 DEF c

(* What stands in a text stands wherever that text does.                   *)
LEMMA HoldsWithin ==
    ASSUME NEW b, Len(b) \in Nat, NEW s, Len(s) \in Nat, NEW t, Len(t) \in Nat,
           NEW p, NEW q, Holds(b, p, s), Holds(s, q, t)
    PROVE  Holds(b, p + q, t)
<1>1. /\ p \in Nat /\ p + Len(s) <= Len(b) /\ \A k \in 1..Len(s) : b[p + k] = s[k]
      /\ q \in Nat /\ q + Len(t) <= Len(s) /\ \A k \in 1..Len(t) : s[q + k] = t[k]
  BY DEF Holds
<1>2. ASSUME NEW k \in 1..Len(t) PROVE b[(p + q) + k] = t[k]
  <2>1. q + k \in 1..Len(s) /\ p + (q + k) = (p + q) + k
    BY <1>1
  <2>2. b[p + (q + k)] = s[q + k] /\ s[q + k] = t[k]
    BY <1>1, <2>1
  <2>. QED  BY <2>1, <2>2
<1>3. p + q \in Nat /\ (p + q) + Len(t) <= Len(b)
  BY <1>1
<1>. QED  BY <1>2, <1>3 DEF Holds

(* A text stands at its own beginning.                                     *)
LEMMA HoldsItself ==
    ASSUME NEW S, NEW s \in Seq(S)
    PROVE  Holds(s, 0, s)
<1>1. Len(s) \in Nat /\ \A k \in 1..Len(s) : 0 + k = k
  OBVIOUS
<1>. QED  BY <1>1 DEF Holds

(* The recursive definition of sums has a solution.                        *)
LEMMA SumsExist ==
    ASSUME NEW N \in Nat, NEW d \in [1..N -> Nat]
    PROVE  \E f \in [0..N -> Nat] : f[0] = 0 /\ \A m \in 1..N : f[m] = f[m - 1] + d[m]
<1> DEFINE Is(f, n) == /\ f \in [0..n -> Nat] /\ f[0] = 0
                       /\ \A m \in 1..n : f[m] = f[m - 1] + d[m]
           T == {n \in 0..N : \E f : Is(f, n)}
<1>1. 0 \in T
  <2>1. Is([m \in 0..0 |-> 0], 0)
    OBVIOUS
  <2>2. 0 \in 0..N
    OBVIOUS
  <2> HIDE DEF Is
  <2>. QED  BY <2>1, <2>2
<1>2. ASSUME NEW n \in 0..(N - 1), n \in T PROVE n + 1 \in T
  <2>1. PICK f : Is(f, n)
    BY <1>2
  <2> DEFINE x == f[n] + d[n + 1]
             g == [m \in 0..(n + 1) |-> IF m = n + 1 THEN x ELSE f[m]]
  <2>2. /\ f \in [0..n -> Nat] /\ f[0] = 0
        /\ \A m \in 1..n : f[m] = f[m - 1] + d[m]
    BY <2>1
  <2>3. x \in Nat /\ n + 1 \in 1..N /\ n + 1 \in 0..N
    <3>1. n \in 0..n /\ n + 1 \in 1..N
      BY <1>2
    <3>. QED  BY <2>2, <3>1
  <2> HIDE DEF x
  <2>4. g \in [0..(n + 1) -> Nat] /\ g[0] = 0
    BY <2>2, <2>3
  <2>5. ASSUME NEW m \in 1..(n + 1) PROVE g[m] = g[m - 1] + d[m]
    <3>1. g[m - 1] = f[m - 1]
      BY <1>2
    <3>2. CASE m = n + 1
      BY <3>1, <3>2 DEF x
    <3>3. CASE m # n + 1
      <4>1. m \in 1..n /\ g[m] = f[m]
        BY <3>3, <1>2
      <4>. QED  BY <4>1, <3>1, <2>2
    <3>. QED  BY <3>2, <3>3
  <2>6. Is(g, n + 1)
    BY <2>4, <2>5
  <2> HIDE DEF Is, g
  <2>. QED  BY <2>3, <2>6
<1> HIDE DEF T
<1>3. N \in T
  <2>1. N \in 0..N
    OBVIOUS
  <2>. QED  BY <1>1, <1>2, <2>1, UpTo
<1>. QED  BY <1>3 DEF T

(* Sums is the function it is defined as: each sum is the one before it    *)
(* and a number more.                                                      *)
LEMMA SumsStep ==
    ASSUME NEW ns \in Seq(Nat)
    PROVE  /\ Sums(ns) \in [0..Len(ns) -> Nat] /\ Sums(ns)[0] = 0
           /\ \A i \in 1..Len(ns) : Sums(ns)[i] = Sums(ns)[i - 1] + ns[i]
<1> DEFINE N == Len(ns)
           Is(f) == f = [i \in 0..N |-> IF i = 0 THEN 0 ELSE f[i - 1] + ns[i]]
           F == CHOOSE f : Is(f)
<1>1. N \in Nat /\ ns \in [1..N -> Nat]
  BY LenProperties
<1>2. PICK f \in [0..N -> Nat] : f[0] = 0 /\ \A m \in 1..N : f[m] = f[m - 1] + ns[m]
  <2> HIDE DEF N
  <2>. QED  BY <1>1, SumsExist
<1>3. Is(f)
  BY <1>1, <1>2
<1>4. Sums(ns) = F
  BY DEF Sums
<1> HIDE DEF Is
<1>5. Is(F)
  BY <1>3
<1> HIDE DEF F
<1>6. F = [i \in 0..N |-> IF i = 0 THEN 0 ELSE F[i - 1] + ns[i]]
  BY <1>5 DEF Is
<1>7. F[0] = 0 /\ \A i \in 1..N : F[i] = F[i - 1] + ns[i]
  <2>1. F[0] = 0
    BY <1>1, <1>6
  <2>2. ASSUME NEW i \in 1..N PROVE F[i] = F[i - 1] + ns[i]
    <3>1. i \in 0..N /\ i # 0
      BY <1>1
    <3>. QED  BY <3>1, <1>6
  <2>. QED  BY <2>1, <2>2
<1>8. \A i \in 0..N : F[i] \in Nat
  <2> DEFINE T == {i \in 0..N : F[i] \in Nat}
  <2>1. 0 \in T
    BY <1>1, <1>7
  <2>2. ASSUME NEW i \in 0..(N - 1), i \in T PROVE i + 1 \in T
    <3>1. i + 1 \in 1..N /\ (i + 1) - 1 = i /\ i + 1 \in 0..N
      BY <1>1
    <3>2. F[i + 1] = F[i] + ns[i + 1] /\ ns[i + 1] \in Nat /\ F[i] \in Nat
      BY <3>1, <1>1, <1>7, <2>2
    <3>. QED  BY <3>1, <3>2
  <2> HIDE DEF T, N
  <2>3. \A i \in 0..N : i \in T
    BY <1>1, <2>1, <2>2, UpTo
  <2>. QED  BY <2>3 DEF T
<1>9. F \in [0..N -> Nat]
  <2>1. DOMAIN F = 0..N /\ F = [i \in 0..N |-> F[i]]
    BY <1>6
  <2>. QED  BY <2>1, <1>8
<1>. QED  BY <1>4, <1>7, <1>9

(* Sums grow with the number of their terms.                               *)
LEMMA SumsGrow ==
    ASSUME NEW ns \in Seq(Nat), NEW i \in 0..Len(ns), NEW j \in 0..Len(ns), i <= j
    PROVE  Sums(ns)[i] <= Sums(ns)[j]
<1> DEFINE F == Sums(ns)
           N == Len(ns) - i
           T == {k \in 0..N : F[i] <= F[i + k]}
<1>1. /\ F \in [0..Len(ns) -> Nat] /\ \A k \in 1..Len(ns) : F[k] = F[k - 1] + ns[k]
      /\ \A k \in 1..Len(ns) : ns[k] \in Nat
      /\ Len(ns) \in Nat
  BY SumsStep
<1> HIDE DEF F
<1>2. 0 \in T
  <2>1. 0 \in 0..N /\ i + 0 = i /\ F[i] \in Nat
    BY <1>1
  <2>. QED  BY <2>1
<1>3. ASSUME NEW k \in 0..(N - 1), k \in T PROVE k + 1 \in T
  <2>1. i + (k + 1) \in 1..Len(ns) /\ (i + (k + 1)) - 1 = i + k /\ i + k \in 0..Len(ns) /\ k + 1 \in 0..N
    BY <1>1
  <2>2. F[i + (k + 1)] = F[i + k] + ns[i + (k + 1)] /\ ns[i + (k + 1)] \in Nat
    BY <1>1, <2>1
  <2>3. F[i + k] \in Nat /\ F[i] \in Nat /\ F[i] <= F[i + k]
    BY <1>1, <1>3, <2>1
  <2>. QED  BY <2>1, <2>2, <2>3
<1> HIDE DEF T
<1>4. N \in Nat /\ j - i \in 0..N /\ i + (j - i) = j
  BY <1>1
<1> HIDE DEF N
<1>5. j - i \in T
  BY <1>2, <1>3, <1>4, UpTo
<1>. QED  BY <1>4, <1>5 DEF T, F

(* The lengths of texts.                                                   *)
Lengths(ts) == [i \in DOMAIN ts |-> Len(ts[i])]

(* The lengths of texts are natural numbers, one for each text.            *)
LEMMA LengthsAre ==
    ASSUME NEW S, NEW ts \in Seq(Seq(S))
    PROVE  /\ Lengths(ts) \in Seq(Nat) /\ Len(Lengths(ts)) = Len(ts)
           /\ \A i \in 1..Len(ts) : Lengths(ts)[i] = Len(ts[i])
<1>1. Len(ts) \in Nat /\ DOMAIN ts = 1..Len(ts) /\ \A i \in 1..Len(ts) : ts[i] \in Seq(S)
  BY LenProperties, ElementOfSeq
<1>2. \A i \in 1..Len(ts) : Len(ts[i]) \in Nat
  BY <1>1, LenProperties
<1>3. Lengths(ts) \in [1..Len(ts) -> Nat] /\ \A i \in 1..Len(ts) : Lengths(ts)[i] = Len(ts[i])
  BY <1>1, <1>2 DEF Lengths
<1> DEFINE L == Lengths(ts)
           N == Len(ts)
<1> HIDE DEF L, N
<1>4. N \in Nat /\ L \in [1..N -> Nat]
  BY <1>1, <1>3 DEF L, N
<1>5. L \in Seq(Nat) /\ Len(L) = N
  BY <1>4
<1>. QED  BY <1>3, <1>5 DEF L, N

(* The recursive definition of FlattenSeq has a solution.                  *)
LEMMA FlattenExists ==
    ASSUME NEW S, NEW ts \in Seq(Seq(S))
    PROVE  \E f : f = [i \in 1..Len(ts) |-> IF i = 1 THEN ts[i] ELSE f[i - 1] \o ts[i]]
<1> DEFINE N == Len(ts)
           Is(f, n) == f = [i \in 1..n |-> IF i = 1 THEN ts[i] ELSE f[i - 1] \o ts[i]]
           T == {n \in 0..N : \E f : Is(f, n)}
<1>0. N \in Nat
  BY LenProperties
<1> HIDE DEF N
<1>1. 0 \in T
  <2>1. Is(<<>>, 0)
    <3>1. 1..0 = {}
      OBVIOUS
    <3>. QED  BY <3>1
  <2>2. 0 \in 0..N
    BY <1>0
  <2> HIDE DEF Is
  <2>. QED  BY <2>1, <2>2
<1>2. ASSUME NEW n \in 0..(N - 1), n \in T PROVE n + 1 \in T
  <2>1. PICK f : Is(f, n)
    BY <1>2
  <2> DEFINE x == IF n + 1 = 1 THEN ts[n + 1] ELSE f[n] \o ts[n + 1]
             g == [m \in 1..(n + 1) |-> IF m = n + 1 THEN x ELSE f[m]]
             h == [i \in 1..(n + 1) |-> IF i = 1 THEN ts[i] ELSE g[i - 1] \o ts[i]]
  <2>2. \A m \in 1..n : f[m] = IF m = 1 THEN ts[m] ELSE f[m - 1] \o ts[m]
    BY <2>1
  <2>3. n \in Nat /\ n + 1 \in 0..N
    BY <1>0, <1>2
  <2>4. ASSUME NEW m \in 1..(n + 1) PROVE g[m] = h[m]
    <3>1. m # 1 => m - 1 \in 1..(n + 1) /\ m - 1 # n + 1
      BY <2>3
    <3>2. m # 1 => g[m - 1] = f[m - 1]
      BY <3>1
    <3>3. h[m] = IF m = 1 THEN ts[m] ELSE f[m - 1] \o ts[m]
      BY <3>2
    <3>4. CASE m = n + 1
      <4>1. m - 1 = n /\ g[m] = x
        BY <3>4, <2>3
      <4>. QED  BY <4>1, <3>3, <3>4
    <3>5. CASE m # n + 1
      <4>1. m \in 1..n /\ g[m] = f[m]
        BY <3>5, <2>3
      <4>. QED  BY <4>1, <3>3, <2>2
    <3>. QED  BY <3>4, <3>5
  <2>5. g = h
    <3>1. g = [m \in 1..(n + 1) |-> g[m]] /\ h = [m \in 1..(n + 1) |-> h[m]]
      OBVIOUS
    <3> HIDE DEF g, h
    <3>. QED  BY <3>1, <2>4
  <2>6. Is(g, n + 1)
    BY <2>5
  <2> HIDE DEF Is, g
  <2>. QED  BY <2>3, <2>6
<1> HIDE DEF T
<1>3. N \in T
  <2>1. N \in 0..N
    BY <1>0
  <2>. QED  BY <1>0, <1>1, <1>2, <2>1, UpTo
<1>. QED  BY <1>3 DEF T, N

(* Texts written one behind the other: their length is the sum of the      *)
(* lengths, and each stands where the sum of those before it says.         *)
LEMMA Flattened ==
    ASSUME NEW S, NEW ts \in Seq(Seq(S))
    PROVE  /\ FlattenSeq(ts) \in Seq(S)
           /\ Len(FlattenSeq(ts)) = Sums(Lengths(ts))[Len(ts)]
           /\ \A i \in 1..Len(ts) : Holds(FlattenSeq(ts), Sums(Lengths(ts))[i - 1], ts[i])
<1> DEFINE N == Len(ts)
           sums == Sums(Lengths(ts))
           Is(f) == f = [i \in 1..N |-> IF i = 1 THEN ts[i] ELSE f[i - 1] \o ts[i]]
           F == CHOOSE f : Is(f)
<1>1. N \in Nat /\ DOMAIN ts = 1..N /\ \A i \in 1..N : ts[i] \in Seq(S) /\ Len(ts[i]) \in Nat
  <2>1. N \in Nat /\ DOMAIN ts = 1..N /\ \A i \in 1..N : ts[i] \in Seq(S)
    BY LenProperties, ElementOfSeq
  <2>. QED  BY <2>1, LenProperties
<1>2. /\ sums \in [0..N -> Nat] /\ sums[0] = 0
      /\ \A i \in 1..N : sums[i] = sums[i - 1] + Len(ts[i])
  <2>1. /\ Lengths(ts) \in Seq(Nat) /\ Len(Lengths(ts)) = N
        /\ \A i \in 1..N : Lengths(ts)[i] = Len(ts[i])
    BY LengthsAre
  <2>. QED  BY <2>1, SumsStep
<1> HIDE DEF sums
<1>3. N # 0 => FlattenSeq(ts) = F[N]
  BY DEF FlattenSeq
<1>4. N = 0 => FlattenSeq(ts) = <<>>
  BY DEF FlattenSeq
<1>5. Is(F)
  <2>1. \E f : Is(f)
    BY FlattenExists
  <2> HIDE DEF Is
  <2>. QED  BY <2>1
<1> HIDE DEF F
<1>6. \A i \in 1..N : F[i] = IF i = 1 THEN ts[i] ELSE F[i - 1] \o ts[i]
  BY <1>5
<1> HIDE DEF Is
<1> DEFINE Good(i) == /\ F[i] \in Seq(S) /\ Len(F[i]) = sums[i]
                      /\ \A j \in 1..i : Holds(F[i], sums[j - 1], ts[j])
           T == {i \in 0..N : i = 0 \/ Good(i)}
<1> HIDE DEF N
<1>7. ASSUME NEW i \in 0..(N - 1), i \in T PROVE i + 1 \in T
  <2>1. /\ i + 1 \in 1..N /\ (i + 1) - 1 = i /\ i + 1 \in 0..N /\ i \in 0..N
        /\ ts[i + 1] \in Seq(S) /\ Len(ts[i + 1]) \in Nat
    BY <1>1
  <2>2. sums[i + 1] = sums[i] + Len(ts[i + 1]) /\ sums[i] \in Nat
    BY <2>1, <1>2
  <2>3. CASE i = 0
    <3>1. F[i + 1] = ts[i + 1]
      BY <2>1, <2>3, <1>6
    <3>2. sums[i + 1] = Len(ts[i + 1]) /\ sums[i] = 0
      BY <2>1, <2>2, <2>3, <1>2
    <3>3. Holds(F[i + 1], sums[i], ts[i + 1])
      BY <2>1, <3>1, <3>2, HoldsItself
    <3>4. \A j \in 1..(i + 1) : j = i + 1 /\ j - 1 = i
      BY <2>3
    <3>5. Good(i + 1)
      BY <2>1, <3>1, <3>2, <3>3, <3>4
    <3> HIDE DEF Good
    <3>. QED  BY <2>1, <3>5
  <2>4. CASE i # 0
    <3>1. F[i + 1] = F[i] \o ts[i + 1]
      <4>1. i + 1 # 1
        BY <2>1, <2>4
      <4>. QED  BY <2>1, <4>1, <1>6
    <3>2. /\ F[i] \in Seq(S) /\ Len(F[i]) = sums[i]
          /\ \A j \in 1..i : Holds(F[i], sums[j - 1], ts[j])
      BY <1>7, <2>4
    <3>3. F[i + 1] \in Seq(S) /\ Len(F[i + 1]) = sums[i + 1]
      <4>1. /\ F[i] \o ts[i + 1] \in Seq(S)
            /\ Len(F[i] \o ts[i + 1]) = Len(F[i]) + Len(ts[i + 1])
        BY ONLY <2>1, <3>2, ConcatProperties
      <4>. QED  BY <4>1, <2>2, <3>1, <3>2
    <3>4. Holds(F[i + 1], 0, F[i]) /\ Holds(F[i + 1], sums[i], ts[i + 1])
      <4>1. Holds(F[i + 1], 0, F[i + 1])
        BY <3>3, HoldsItself
      <4>2. Holds(F[i + 1], 0, F[i]) /\ Holds(F[i + 1], 0 + Len(F[i]), ts[i + 1])
        <5>1. \A b \in Seq(S) : Holds(b, 0, F[i] \o ts[i + 1]) <=>
                 Holds(b, 0, F[i]) /\ Holds(b, 0 + Len(F[i]), ts[i + 1])
          BY <2>1, <3>2, HoldsCat
        <5>. QED  BY <3>1, <3>3, <4>1, <5>1
      <4>3. 0 + Len(F[i]) = sums[i]
        BY <2>2, <3>2
      <4>. QED  BY <4>2, <4>3
    <3>5. ASSUME NEW j \in 1..(i + 1) PROVE Holds(F[i + 1], sums[j - 1], ts[j])
      <4>1. CASE j = i + 1
        BY <4>1, <2>1, <3>4
      <4>2. CASE j # i + 1
        <5>1. j \in 1..i /\ j \in 1..N /\ j - 1 \in 0..N
          BY <4>2, <2>1, <1>1
        <5>2. Holds(F[i], sums[j - 1], ts[j]) /\ Len(ts[j]) \in Nat /\ sums[j - 1] \in Nat
          BY <5>1, <3>2, <1>1, <1>2
        <5>3. Len(F[i]) \in Nat /\ Len(F[i + 1]) \in Nat
          BY <3>2, <3>3, LenProperties
        <5>4. Holds(F[i + 1], 0 + sums[j - 1], ts[j])
          BY <3>4, <5>2, <5>3, HoldsWithin
        <5>. QED  BY <5>2, <5>4
      <4>. QED  BY <4>1, <4>2
    <3>6. Good(i + 1)
      BY <3>3, <3>5
    <3> HIDE DEF Good
    <3>. QED  BY <2>1, <3>6
  <2>. QED  BY <2>3, <2>4
<1>8. N = 0 \/ Good(N)
  <2>1. 0 \in T /\ N \in 0..N
    BY <1>1
  <2> HIDE DEF T
  <2>2. N \in T
    BY <1>1, <1>7, <2>1, UpTo
  <2>. QED  BY <2>2 DEF T
<1>9. CASE N = 0
  <2>1. FlattenSeq(ts) = <<>> /\ sums[N] = 0 /\ 1..N = {}
    BY <1>2, <1>4, <1>9
  <2>2. <<>> \in Seq(S) /\ Len(<<>>) = 0
    BY EmptySeq
  <2>. QED  BY <2>1, <2>2 DEF sums, N
<1>10. CASE N # 0
  <2>1. Good(N) /\ FlattenSeq(ts) = F[N]
    BY <1>3, <1>8, <1>10
  <2>. QED  BY <2>1 DEF sums, N
<1>. QED  BY <1>9, <1>10

(* m4_align rounds up to the next multiple of four.                        *)
LEMMA Aligned ==
    ASSUME NEW x \in Nat
    PROVE  /\ m4_align(x) \in Nat /\ m4_align(x) % 4 = 0
           /\ x <= m4_align(x) /\ m4_align(x) < x + 4
  BY DEF m4_align

(* m4_align leaves a multiple of four alone.                               *)
LEMMA AlignedStays ==
    ASSUME NEW x \in Nat, x % 4 = 0
    PROVE  m4_align(x) = x
  BY DEF m4_align

(* m4_align looks only at what is behind a multiple of four.               *)
LEMMA AlignedPast ==
    ASSUME NEW x \in Nat, x % 4 = 0, NEW y \in Nat
    PROVE  m4_align(x + y) = x + m4_align(y)
  BY DEF m4_align

(* Filling up with zeros: the result is as long as m4_align says and       *)
(* begins with what was there.                                             *)
LEMMA PaddedLength ==
    ASSUME NEW t \in Seq(Bytes)
    PROVE  /\ Padded(t) \in Seq(Bytes) /\ Len(Padded(t)) = m4_align(Len(t))
           /\ Holds(Padded(t), 0, t)
<1> DEFINE gap == m4_align(Len(t)) - Len(t)
           zeros == [i \in 1..gap |-> 0]
<1>1. Len(t) \in Nat /\ gap \in Nat
  <2>1. Len(t) \in Nat
    BY LenProperties
  <2>2. m4_align(Len(t)) \in Nat /\ Len(t) <= m4_align(Len(t))
    BY <2>1, Aligned
  <2>. QED  BY <2>1, <2>2
<1>2. Padded(t) = t \o zeros
  BY DEF Padded
<1>3. m4_align(Len(t)) = Len(t) + gap
  <2>1. m4_align(Len(t)) \in Nat
    BY <1>1, Aligned
  <2>. QED  BY <1>1, <2>1
<1> HIDE DEF gap
<1>4. zeros \in Seq(Bytes) /\ Len(zeros) = gap
  <2>1. 0 \in Bytes
    BY DEF Bytes
  <2>2. zeros \in [1..gap -> Bytes]
    BY <2>1
  <2> HIDE DEF zeros
  <2>. QED  BY <1>1, <2>2
<1> HIDE DEF zeros
<1>5. t \o zeros \in Seq(Bytes) /\ Len(t \o zeros) = Len(t) + gap
  BY <1>4, ConcatProperties
<1>6. Holds(t \o zeros, 0, t \o zeros)
  BY <1>5, HoldsItself
<1>7. Holds(t \o zeros, 0, t)
  BY <1>4, <1>5, <1>6, HoldsCat
<1>. QED  BY <1>2, <1>3, <1>5, <1>7

(* A number takes one to five bytes, enough for it.                        *)
LEMMA NumberSize ==
    ASSUME NEW n \in Number
    PROVE  encoded_size_from_int(n) \in 1..5 /\ Shifts(n) < encoded_size_from_int(n)
  BY ShiftsStop DEF encoded_size_from_int

(* m4_num_encode writes as many bytes as m4_num_encoded_size_from_int      *)
(* says.                                                                   *)
LEMMA EncodedLength ==
    ASSUME NEW n \in Number
    PROVE  encode(n) \in Seq(Bytes) /\ Len(encode(n)) = encoded_size_from_int(n)
  BY NumberSize, EncodedBytes DEF encode

(* Numbers up to 63 take one byte.                                         *)
LEMMA OneByte ==
    ASSUME NEW n \in 0..63
    PROVE  n \in Number /\ encoded_size_from_int(n) = 1
<1>1. n \in Number
  BY MaxFits DEF Number
<1>2. Shifted(n, 0) < 64
  <2>1. Shifted(n, 0) = Complement(n) /\ Complement(n) = n
    BY <1>1, ShiftedStep DEF Complement
  <2>. QED  BY <2>1
<1>3. Shifts(n) \in 0..4 /\ \A j \in 0..(Shifts(n) - 1) : Shifted(n, j) >= 64
  BY <1>1, ShiftsStop
<1>4. Shifted(n, 0) \in Nat
  BY <1>1, ShiftedStep
<1>5. Shifts(n) = 0
  <2>1. Shifts(n) # 0 => 0 \in 0..(Shifts(n) - 1)
    BY <1>3
  <2>. QED  BY <1>2, <1>3, <1>4, <2>1
<1>. QED  BY <1>1, <1>5 DEF encoded_size_from_int

(* That byte is the number.                                                *)
LEMMA OneByteIs ==
    ASSUME NEW n \in 0..63
    PROVE  encode(n) = <<n>>
<1>1. n \in Number /\ encoded_size_from_int(n) = 1 /\ Shifts(n) = 0
  <2>1. n \in Number /\ encoded_size_from_int(n) = 1
    BY OneByte
  <2>2. Shifts(n) \in 0..4
    BY <2>1, ShiftsStop
  <2>. QED  BY <2>1, <2>2 DEF encoded_size_from_int
<1>2. encode(n) = [k \in 1..1 |-> IF k < 1 THEN 128 + (Shifted(n, k - 1) % 128)
                                  ELSE Shifted(n, k - 1) + SignBit(n)]
  BY <1>1 DEF encode, encode_with_size
<1>3. Shifted(n, 0) = n /\ SignBit(n) = 0
  <2>1. Shifted(n, 0) = Complement(n)
    BY <1>1, ShiftedStep
  <2>. QED  BY <2>1 DEF Complement, SignBit
<1>4. encode(n) \in Seq(Bytes) /\ Len(encode(n)) = 1 /\ encode(n)[1] = n
  <2>1. encode(n)[1] = Shifted(n, 0) + SignBit(n)
    BY <1>2
  <2>2. encode(n) \in Seq(Bytes) /\ Len(encode(n)) = 1
    BY <1>1, EncodedLength
  <2>. QED  BY <1>3, <2>1, <2>2
<1>. QED  BY <1>4

(* Where an encoded number stands in the binary, m4_num_decode reads it.   *)
LEMMA EncodedHere ==
    ASSUME NEW n \in Number, NEW p, Holds(bin, p, encode(n))
    PROVE  decode(p).n = n /\ decode(p).next = p + encoded_size_from_int(n)
  BY NumberSize, Decoded DEF encode

(* The sum of fours.                                                       *)
LEMMA SumsOfFours ==
    ASSUME NEW ns \in Seq(Nat), \A i \in 1..Len(ns) : ns[i] = 4
    PROVE  Sums(ns)[Len(ns)] = 4 * Len(ns)
<1> DEFINE F == Sums(ns)
           N == Len(ns)
           T == {i \in 0..N : F[i] = 4 * i}
<1>1. N \in Nat /\ F[0] = 0 /\ \A i \in 1..N : F[i] = F[i - 1] + 4
  BY SumsStep, LenProperties
<1> HIDE DEF F, N
<1>2. 0 \in T
  BY <1>1
<1>3. ASSUME NEW i \in 0..(N - 1), i \in T PROVE i + 1 \in T
  <2>1. i + 1 \in 1..N /\ (i + 1) - 1 = i /\ F[i] = 4 * i /\ i + 1 \in 0..N
    BY <1>1, <1>3
  <2>2. F[i + 1] = F[i] + 4
    BY <1>1, <2>1
  <2>. QED  BY <2>1, <2>2
<1>4. N \in T
  <2>1. N \in 0..N
    BY <1>1
  <2> HIDE DEF T
  <2>. QED  BY <1>1, <1>2, <1>3, <2>1, UpTo
<1>. QED  BY <1>4 DEF T, F, N

(* The instructions that have an opcode.                                   *)
Coded == WithParam \cup Displaced \cup Plain

(* Opcodes are the numbers from 1 to 21, one for each instruction with an  *)
(* opcode; one-byte builtins begin behind them.                            *)
LEMMA Opcodes ==
    /\ OPCODE_LAST = 22 /\ DOMAIN OPCODES = 1..21
    /\ \A op \in Coded : op # "BUILTIN_WORD" /\ op \notin Marks
    /\ \A op \in Coded : opcode(op) \in 1..21 /\ OPCODES[opcode(op)] = op
<1>1. /\ OPCODES[1] = "DEFINED_WORD" /\ OPCODES[2] = "RUNTIME_WORD" /\ OPCODES[3] = "PUSH_LITERAL"
      /\ OPCODES[4] = "EXIT_WORD" /\ OPCODES[6] = "PUSH_DATA_ADDRESS"
      /\ OPCODES[7] = "DECLARE_VARIABLE" /\ OPCODES[8] = "USE_VARIABLE_OR_CONSTANT"
      /\ OPCODES[9] = "HALT" /\ OPCODES[11] = "BRANCH_IF_ZERO" /\ OPCODES[12] = "BRANCH"
      /\ OPCODES[13] = "DO" /\ OPCODES[14] = "LOOP" /\ OPCODES[15] = "PUSH_OFFSET_ADDRESS"
      /\ OPCODES[16] = "PUSH_CALLBACK" /\ OPCODES[17] = "DECLARE_CONSTANT"
      /\ OPCODES[18] = "EXECUTE" /\ OPCODES[19] = "THREAD_CREATE"
      /\ OPCODES[20] = "THREAD_JOIN"
  BY DEF OPCODES
<1>2. DOMAIN OPCODES = 1..21 /\ Len(OPCODES) = 21
  BY DEF OPCODES
<1>3. ASSUME NEW op \in Coded PROVE \E i \in DOMAIN OPCODES : OPCODES[i] = op
  BY <1>1, <1>2 DEF Coded, WithParam, Displaced, Plain
<1>4. ASSUME NEW op \in Coded PROVE op # "BUILTIN_WORD" /\ op \notin Marks
  BY DEF Coded, WithParam, Displaced, Plain, Marks
<1>5. ASSUME NEW op \in Coded PROVE opcode(op) \in 1..21 /\ OPCODES[opcode(op)] = op
  <2>1. opcode(op) = CHOOSE i \in DOMAIN OPCODES : OPCODES[i] = op
    BY <1>4 DEF opcode
  <2>. QED  BY <1>2, <1>3, <2>1
<1>. QED  BY <1>2, <1>4, <1>5 DEF OPCODE_LAST

(* The kinds of fragments: what vm_backend.c writes for each, and the size *)
(* it gives.                                                               *)
LEMMA Dumps ==
    ASSUME NEW f \in Fragments
    PROVE  /\ f.param \in Number /\ f.width \in 0..5
           /\ f.op = "BUILTIN_WORD" \/ f.op \in WithParam \/ f.op \in Displaced
              \/ f.op \in Plain \/ f.op \in Marks
           /\ f.op = "BUILTIN_WORD" /\ f.param \in OneByteBuiltins =>
                fragment_bin_dump(f) = <<f.param + OPCODE_LAST>> /\ fragment_bin_size(f) = 1
           /\ f.op = "BUILTIN_WORD" /\ f.param \notin OneByteBuiltins =>
                /\ fragment_bin_dump(f) = encode(0) \o encode(f.param)
                /\ fragment_bin_size(f) = 1 + encoded_size_from_int(f.param)
           /\ f.op \in WithParam =>
                /\ fragment_bin_dump(f) = encode(opcode(f.op)) \o encode(f.param)
                /\ fragment_bin_size(f) = 1 + encoded_size_from_int(f.param)
           /\ f.op \in Displaced =>
                /\ fragment_bin_dump(f) = encode(opcode(f.op)) \o encode_with_size(f.param, f.width)
                /\ fragment_bin_size(f) = 1 + f.width
           /\ f.op \in Plain =>
                fragment_bin_dump(f) = encode(opcode(f.op)) /\ fragment_bin_size(f) = 1
           /\ f.op \in Marks => fragment_bin_dump(f) = <<>> /\ fragment_bin_size(f) = 0
<1>1. f.param \in Number /\ f.width \in 0..5
  BY DEF Fragments, Number
<1>2. f.op = "BUILTIN_WORD" \/ f.op \in WithParam \/ f.op \in Displaced
        \/ f.op \in Plain \/ f.op \in Marks
  BY DEF Fragments
<1>3. /\ f.op \in WithParam => f.op # "BUILTIN_WORD"
      /\ f.op \in Displaced => f.op # "BUILTIN_WORD" /\ f.op \notin WithParam
      /\ f.op \in Plain => f.op # "BUILTIN_WORD" /\ f.op \notin WithParam /\ f.op \notin Displaced
      /\ f.op \in Marks => /\ f.op # "BUILTIN_WORD" /\ f.op \notin WithParam
                           /\ f.op \notin Displaced /\ f.op \notin Plain
  BY DEF WithParam, Displaced, Plain, Marks
<1>4. f.op = "BUILTIN_WORD" =>
        f.op \notin WithParam /\ f.op \notin Displaced /\ f.op \notin Plain /\ f.op \notin Marks
  BY DEF WithParam, Displaced, Plain, Marks
<1>5. CASE f.op = "BUILTIN_WORD"
  BY <1>1, <1>2, <1>4, <1>5 DEF fragment_bin_dump, fragment_bin_size
<1>6. CASE f.op \in WithParam
  BY <1>1, <1>2, <1>3, <1>6 DEF fragment_bin_dump, fragment_bin_size
<1>7. CASE f.op \in Displaced
  BY <1>1, <1>2, <1>3, <1>7 DEF fragment_bin_dump, fragment_bin_size
<1>8. CASE f.op \in Plain
  BY <1>1, <1>2, <1>3, <1>8 DEF fragment_bin_dump, fragment_bin_size
<1>9. CASE f.op \in Marks
  BY <1>1, <1>2, <1>3, <1>9 DEF fragment_bin_dump, fragment_bin_size
<1>. QED  BY <1>2, <1>5, <1>6, <1>7, <1>8, <1>9

(* fragment_bin_dump writes as many bytes as fragment_bin_size says, for   *)
(* every fragment whose displacement was given the room it needs.          *)
LEMMA DumpSize ==
    ASSUME NEW f \in Fragments, f.op \in Displaced => f.width >= encoded_size_from_int(f.param)
    PROVE  /\ fragment_bin_dump(f) \in Seq(Bytes)
           /\ Len(fragment_bin_dump(f)) = fragment_bin_size(f)
           /\ fragment_bin_size(f) \in Nat
<1>1. f.param \in Number /\ f.width \in 0..5
  BY Dumps
<1>2. /\ encode(f.param) \in Seq(Bytes) /\ Len(encode(f.param)) = encoded_size_from_int(f.param)
      /\ encoded_size_from_int(f.param) \in 1..5
  BY <1>1, EncodedLength, NumberSize
<1>3. f.op \in Coded => encode(opcode(f.op)) \in Seq(Bytes) /\ Len(encode(opcode(f.op))) = 1
  <2> SUFFICES ASSUME f.op \in Coded
               PROVE  encode(opcode(f.op)) \in Seq(Bytes) /\ Len(encode(opcode(f.op))) = 1
    OBVIOUS
  <2>1. opcode(f.op) \in 0..63
    <3>1. opcode(f.op) \in 1..21
      BY Opcodes
    <3>. QED  BY <3>1
  <2>. QED  BY <2>1, OneByte, EncodedLength
<1>4. encode(0) \in Seq(Bytes) /\ Len(encode(0)) = 1
  <2>1. 0 \in 0..63
    OBVIOUS
  <2>. QED  BY <2>1, OneByte, EncodedLength
<1>0. \A s, t \in Seq(Bytes) :
        Len(s) = 1 => s \o t \in Seq(Bytes) /\ Len(s \o t) = 1 + Len(t)
  BY ONLY ConcatProperties, SMTT(30)
<1>5. CASE f.op = "BUILTIN_WORD" /\ f.param \in OneByteBuiltins
  <2>1. fragment_bin_dump(f) = <<f.param + OPCODE_LAST>> /\ fragment_bin_size(f) = 1
    BY <1>5, Dumps
  <2>2. f.param + OPCODE_LAST \in Bytes
    BY <1>5, Opcodes DEF OneByteBuiltins, NUM_MAX_ONE_BYTE, Bytes
  <2>. QED  BY <2>1, <2>2
<1>6. CASE f.op = "BUILTIN_WORD" /\ f.param \notin OneByteBuiltins
  <2>1. /\ fragment_bin_dump(f) = encode(0) \o encode(f.param)
        /\ fragment_bin_size(f) = 1 + encoded_size_from_int(f.param)
    BY <1>6, Dumps
  <2>. QED  BY <1>0, <1>2, <1>4, <2>1
<1>7. CASE f.op \in WithParam
  <2>1. /\ fragment_bin_dump(f) = encode(opcode(f.op)) \o encode(f.param)
        /\ fragment_bin_size(f) = 1 + encoded_size_from_int(f.param)
    BY <1>7, Dumps
  <2>2. f.op \in Coded
    BY <1>7 DEF Coded
  <2>. QED  BY <1>0, <1>2, <1>3, <2>1, <2>2
<1>8. CASE f.op \in Displaced
  <2>1. /\ fragment_bin_dump(f) = encode(opcode(f.op)) \o encode_with_size(f.param, f.width)
        /\ fragment_bin_size(f) = 1 + f.width
    BY <1>8, Dumps
  <2>2. f.op \in Coded
    BY <1>8 DEF Coded
  <2>3. f.width \in 1..5 /\ Shifts(f.param) < f.width
    <3>1. Shifts(f.param) \in 0..4
      BY <1>1, ShiftsStop
    <3>. QED  BY <1>1, <1>2, <1>8, <3>1 DEF encoded_size_from_int
  <2>4. /\ encode_with_size(f.param, f.width) \in Seq(Bytes)
        /\ Len(encode_with_size(f.param, f.width)) = f.width
    BY <1>1, <2>3, EncodedBytes
  <2>. QED  BY <1>0, <1>1, <1>3, <2>1, <2>2, <2>4
<1>9. CASE f.op \in Plain
  <2>1. fragment_bin_dump(f) = encode(opcode(f.op)) /\ fragment_bin_size(f) = 1
    BY <1>9, Dumps
  <2>2. f.op \in Coded
    BY <1>9 DEF Coded
  <2>. QED  BY <1>3, <2>1, <2>2
<1>10. CASE f.op \in Marks
  <2>1. fragment_bin_dump(f) = <<>> /\ fragment_bin_size(f) = 0
    BY <1>10, Dumps
  <2>2. <<>> \in Seq(Bytes) /\ Len(<<>>) = 0
    BY EmptySeq
  <2>. QED  BY <2>1, <2>2
<1>. QED  BY Dumps, <1>5, <1>6, <1>7, <1>8, <1>9, <1>10

(* The parts of the binary that are lists: names, strings, callbacks and   *)
(* the code, each element as the bytes written for it.                     *)
WordTexts(s) == [i \in DOMAIN s.words |-> lower(s.words[i]) \o <<0>>]
DataTexts(s) == [i \in DOMAIN s.data |-> s.data[i] \o <<0>>]
CallbackTexts(s) == [i \in DOMAIN s.callbacks |->
                       <<params_info(s.callbacks[i])>> \o encode(s.callbacks[i].position)]
CodeTexts(s) == [i \in DOMAIN s.code |-> fragment_bin_dump(s.code[i])]

(* Bytes are the numbers up to 255.                                        *)
LEMMA ByteRange ==
    /\ \A x \in Bytes : x \in Nat /\ x <= 255
    /\ \A x \in Nat : x <= 255 => x \in Bytes
  BY DEF Bytes

(* The characters of a name are the bytes other than 0.                    *)
LEMMA CharacterRange ==
    /\ \A x \in 1..255 : x \in Nat /\ 1 <= x /\ x <= 255
    /\ \A x \in Nat : 1 <= x /\ x <= 255 => x \in 1..255 /\ x \in Bytes
  BY DEF Bytes

(* A character stays one in lower case.                                    *)
LEMMA LowerRange == \A x \in 1..255 : tolower(x) \in 1..255
<1>1. \A x \in Nat : 1 <= x /\ x <= 255 =>
        tolower(x) \in Nat /\ 1 <= tolower(x) /\ tolower(x) <= 255
  BY DEF tolower
<1>. QED  BY ONLY <1>1, CharacterRange, Zenon

(* What the caller of a callback has to know fits a byte.                  *)
LEMMA InfoRange ==
    ASSUME NEW c, c.params \in 0..31
    PROVE  params_info(c) \in Bytes
<1>1. c.params \in Nat /\ c.params <= 31
  OBVIOUS
<1>2. params_info(c) \in Nat /\ params_info(c) <= 255
  BY ONLY <1>1 DEF params_info
<1>. QED  BY ONLY <1>2, ByteRange, Zenon

(* The length of one sequence behind another.                              *)
LEMMA ConcatLength ==
    ASSUME NEW S, NEW s \in Seq(S), NEW t \in Seq(S)
    PROVE  s \o t \in Seq(S) /\ Len(s \o t) = Len(s) + Len(t)
  BY ConcatProperties

(* The names of the runtime words: in lower case and terminated, together  *)
(* as long as m4_compile measures.                                         *)
LEMMA WordsWritten ==
    ASSUME NEW s, LegalSource(s)
    PROVE  /\ WordTexts(s) \in Seq(Seq(Bytes)) /\ Len(WordTexts(s)) = Len(s.words)
           /\ \A i \in 1..Len(s.words) : /\ lower(s.words[i]) \in Names
                                         /\ WordTexts(s)[i] = lower(s.words[i]) \o <<0>>
           /\ Total(terminated, s.words) = Sums(Lengths(WordTexts(s)))[Len(s.words)]
<1> DEFINE w == s.words
           N == Len(w)
           ts == WordTexts(s)
<1>1. w \in Seq(Names) /\ N \in Nat /\ DOMAIN w = 1..N /\ \A i \in 1..N : w[i] \in Names
  <2>1. w \in Seq(Names)
    BY DEF LegalSource
  <2>. QED  BY <2>1, LenProperties, ElementOfSeq
<1>2. ts = [i \in 1..N |-> lower(w[i]) \o <<0>>]
  BY <1>1 DEF WordTexts
<1>3. ASSUME NEW i \in 1..N
      PROVE  /\ lower(w[i]) \in Names /\ Len(lower(w[i])) = Len(w[i])
             /\ lower(w[i]) \o <<0>> \in Seq(Bytes)
             /\ Len(lower(w[i]) \o <<0>>) = Len(w[i]) + 1
  <2> DEFINE t == w[i]
             n == Len(t)
  <2>1. t \in Seq(1..255) /\ n \in Nat /\ DOMAIN t = 1..n /\ \A k \in 1..n : t[k] \in 1..255
    <3>1. t \in Seq(1..255)
      BY <1>1 DEF Names
    <3>. QED  BY <3>1, LenProperties, ElementOfSeq
  <2> HIDE DEF t, n
  <2>2. \A k \in 1..n : tolower(t[k]) \in 1..255
    BY <2>1, LowerRange
  <2>3. lower(t) \in [1..n -> 1..255]
    BY <2>1, <2>2 DEF lower
  <2>4. lower(t) \in Seq(1..255) /\ Len(lower(t)) = n
    BY <2>1, <2>3
  <2>5. lower(t) \in Seq(Bytes)
    <3>1. lower(t) \in [1..n -> Bytes]
      BY <2>3 DEF Bytes
    <3>. QED  BY <3>1, <2>1
  <2>6. <<0>> \in Seq(Bytes) /\ Len(<<0>>) = 1
    BY DEF Bytes
  <2>7. lower(t) \o <<0>> \in Seq(Bytes) /\ Len(lower(t) \o <<0>>) = n + 1
    BY ONLY <2>4, <2>5, <2>6, ConcatProperties
  <2>. QED  BY <2>4, <2>7 DEF t, n, Names
<1> HIDE DEF w, N, ts
<1>4. ts \in [1..N -> Seq(Bytes)]
  BY <1>2, <1>3
<1>5. ts \in Seq(Seq(Bytes)) /\ Len(ts) = N
  BY <1>1, <1>4
<1>6. Lengths(ts) = [i \in DOMAIN w |-> terminated(w[i])]
  <2>1. DOMAIN ts = DOMAIN w
    BY <1>1, <1>4
  <2>2. \A i \in DOMAIN w : Len(ts[i]) = terminated(w[i])
    BY <1>1, <1>2, <1>3 DEF terminated
  <2>. QED  BY <2>1, <2>2 DEF Lengths
<1>7. Total(terminated, w) = Sums(Lengths(ts))[N]
  BY <1>6 DEF Total, N
<1>. QED  BY <1>2, <1>3, <1>5, <1>7 DEF w, N, ts

(* The data strings: terminated, together as long as m4_compile measures.  *)
LEMMA DataWritten ==
    ASSUME NEW s, LegalSource(s)
    PROVE  /\ DataTexts(s) \in Seq(Seq(Bytes)) /\ Len(DataTexts(s)) = Len(s.data)
           /\ Total(terminated, s.data) = Sums(Lengths(DataTexts(s)))[Len(s.data)]
<1> DEFINE w == s.data
           N == Len(w)
           ts == DataTexts(s)
<1>1. w \in Seq(Seq(Bytes)) /\ N \in Nat /\ DOMAIN w = 1..N /\ \A i \in 1..N : w[i] \in Seq(Bytes)
  <2>1. w \in Seq(Seq(Bytes))
    BY DEF LegalSource
  <2>. QED  BY <2>1, LenProperties, ElementOfSeq
<1>2. ts = [i \in 1..N |-> w[i] \o <<0>>]
  BY <1>1 DEF DataTexts
<1>3. ASSUME NEW i \in 1..N
      PROVE  w[i] \o <<0>> \in Seq(Bytes) /\ Len(w[i] \o <<0>>) = Len(w[i]) + 1
  <2>1. <<0>> \in Seq(Bytes) /\ Len(<<0>>) = 1
    BY DEF Bytes
  <2>2. w[i] \in Seq(Bytes)
    BY <1>1
  <2>. QED  BY ONLY <2>1, <2>2, ConcatProperties
<1> HIDE DEF w, N, ts
<1>4. ts \in [1..N -> Seq(Bytes)]
  BY <1>2, <1>3
<1>5. ts \in Seq(Seq(Bytes)) /\ Len(ts) = N
  BY <1>1, <1>4
<1>6. Lengths(ts) = [i \in DOMAIN w |-> terminated(w[i])]
  <2>1. DOMAIN ts = DOMAIN w
    BY <1>1, <1>4
  <2>2. \A i \in DOMAIN w : Len(ts[i]) = terminated(w[i])
    BY <1>1, <1>2, <1>3 DEF terminated
  <2>. QED  BY <2>1, <2>2 DEF Lengths
<1>7. Total(terminated, w) = Sums(Lengths(ts))[N]
  BY <1>6 DEF Total, N
<1>. QED  BY <1>5, <1>7 DEF w, N, ts

(* The callbacks: a byte and a number each, together as long as m4_compile *)
(* measures.                                                               *)
LEMMA CallbacksWritten ==
    ASSUME NEW s, LegalSource(s)
    PROVE  /\ CallbackTexts(s) \in Seq(Seq(Bytes)) /\ Len(CallbackTexts(s)) = Len(s.callbacks)
           /\ \A i \in 1..Len(s.callbacks) :
                /\ s.callbacks[i].position \in Counts /\ params_info(s.callbacks[i]) \in Bytes
                /\ CallbackTexts(s)[i] = <<params_info(s.callbacks[i])>>
                                           \o encode(s.callbacks[i].position)
                /\ Len(CallbackTexts(s)[i]) = callback_size(s.callbacks[i])
           /\ Total(callback_size, s.callbacks) = Sums(Lengths(CallbackTexts(s)))[Len(s.callbacks)]
<1> DEFINE w == s.callbacks
           N == Len(w)
           ts == CallbackTexts(s)
           C == [params : 0..31, results : 0..3, position : Counts]
<1>1. w \in Seq(C) /\ N \in Nat /\ DOMAIN w = 1..N /\ \A i \in 1..N : w[i] \in C
  <2>1. w \in Seq(C)
    BY DEF LegalSource
  <2> HIDE DEF C
  <2>. QED  BY <2>1, LenProperties, ElementOfSeq
<1>2. ts = [i \in 1..N |-> <<params_info(w[i])>> \o encode(w[i].position)]
  BY <1>1 DEF CallbackTexts
<1>3. ASSUME NEW i \in 1..N
      PROVE  /\ w[i].position \in Counts /\ params_info(w[i]) \in Bytes
             /\ <<params_info(w[i])>> \o encode(w[i].position) \in Seq(Bytes)
             /\ Len(<<params_info(w[i])>> \o encode(w[i].position)) = callback_size(w[i])
  <2>1. w[i] \in C
    BY <1>1
  <2>2. w[i].position \in Counts /\ w[i].params \in 0..31
    BY <2>1
  <2>3. params_info(w[i]) \in Bytes
    BY <2>2, InfoRange
  <2>4. <<params_info(w[i])>> \in Seq(Bytes) /\ Len(<<params_info(w[i])>>) = 1
    BY <2>3
  <2>5. /\ encode(w[i].position) \in Seq(Bytes)
        /\ Len(encode(w[i].position)) = encoded_size_from_int(w[i].position)
    BY <2>2, CountFits, EncodedLength
  <2> DEFINE a == <<params_info(w[i])>>
             b == encode(w[i].position)
  <2> HIDE DEF a, b
  <2>6. a \o b \in Seq(Bytes) /\ Len(a \o b) = Len(a) + Len(b)
    BY ONLY <2>4, <2>5, ConcatLength DEF a, b
  <2>. QED  BY <2>2, <2>3, <2>4, <2>5, <2>6 DEF callback_size, a, b
<1> HIDE DEF w, N, ts, C
<1>4. ts \in [1..N -> Seq(Bytes)]
  BY <1>2, <1>3
<1>5. ts \in Seq(Seq(Bytes)) /\ Len(ts) = N
  BY <1>1, <1>4
<1>6. Lengths(ts) = [i \in DOMAIN w |-> callback_size(w[i])]
  <2>1. DOMAIN ts = DOMAIN w
    BY <1>1, <1>4
  <2>2. \A i \in DOMAIN w : Len(ts[i]) = callback_size(w[i])
    BY <1>1, <1>2, <1>3
  <2>. QED  BY <2>1, <2>2 DEF Lengths
<1>7. Total(callback_size, w) = Sums(Lengths(ts))[N]
  BY <1>6 DEF Total, N
<1>. QED  BY <1>2, <1>3, <1>5, <1>7 DEF w, N, ts

(* The literals: four bytes each.                                          *)
LEMMA LiteralsWritten ==
    ASSUME NEW s, LegalSource(s)
    PROVE  /\ s.literals \in Seq(Seq(Bytes))
           /\ Sums(Lengths(s.literals))[Len(s.literals)] = 4 * Len(s.literals)
<1> DEFINE w == s.literals
           N == Len(w)
<1>1. w \in Seq([1..4 -> Bytes])
  BY DEF LegalSource
<1>2. N \in Nat /\ DOMAIN w = 1..N /\ \A i \in 1..N : w[i] \in [1..4 -> Bytes]
  BY <1>1, LenProperties, ElementOfSeq
<1>3. \A l \in [1..4 -> Bytes] : l \in Seq(Bytes) /\ Len(l) = 4
  <2>1. ASSUME NEW n \in Nat, NEW l \in [1..n -> Bytes]
        PROVE  l \in Seq(Bytes) /\ Len(l) = n
    OBVIOUS
  <2>. QED  BY <2>1
<1>4. w \in [1..N -> Seq(Bytes)]
  <2>1. w = [i \in 1..N |-> w[i]]
    BY <1>1, <1>2
  <2>. QED  BY <1>2, <1>3, <2>1
<1> HIDE DEF w, N
<1>5. w \in Seq(Seq(Bytes)) /\ Len(w) = N
  BY <1>2, <1>4
<1>6. /\ Lengths(w) \in Seq(Nat) /\ Len(Lengths(w)) = N
      /\ \A i \in 1..N : Lengths(w)[i] = 4
  <2>1. /\ Lengths(w) \in Seq(Nat) /\ Len(Lengths(w)) = N
        /\ \A i \in 1..N : Lengths(w)[i] = Len(w[i])
    BY <1>5, LengthsAre
  <2>. QED  BY <1>2, <1>3, <2>1
<1>7. Sums(Lengths(w))[N] = 4 * N
  BY <1>6, SumsOfFours
<1>. QED  BY <1>5, <1>7 DEF w, N

(* The code: each fragment as long as fragment_bin_size says, together as  *)
(* long as m4_compile measures.                                            *)
LEMMA CodeWritten ==
    ASSUME NEW s, LegalSource(s)
    PROVE  /\ CodeTexts(s) \in Seq(Seq(Bytes)) /\ Len(CodeTexts(s)) = Len(s.code)
           /\ \A i \in 1..Len(s.code) :
                /\ s.code[i] \in Fragments
                /\ s.code[i].op \in Displaced =>
                     s.code[i].width >= encoded_size_from_int(s.code[i].param)
                /\ CodeTexts(s)[i] = fragment_bin_dump(s.code[i])
                /\ Len(CodeTexts(s)[i]) = fragment_bin_size(s.code[i])
           /\ Total(fragment_bin_size, s.code) = Sums(Lengths(CodeTexts(s)))[Len(s.code)]
<1> DEFINE w == s.code
           N == Len(w)
           ts == CodeTexts(s)
<1>1. /\ w \in Seq(Fragments) /\ N \in Nat /\ DOMAIN w = 1..N /\ \A i \in 1..N : w[i] \in Fragments
      /\ \A i \in 1..N : w[i].op \in Displaced =>
                           w[i].width >= encoded_size_from_int(w[i].param)
  <2>1. w \in Seq(Fragments) /\ \A i \in DOMAIN w : w[i].op \in Displaced =>
                                  w[i].width >= encoded_size_from_int(w[i].param)
    BY DEF LegalSource
  <2>. QED  BY <2>1, LenProperties, ElementOfSeq
<1>2. ts = [i \in 1..N |-> fragment_bin_dump(w[i])]
  BY <1>1 DEF CodeTexts
<1> HIDE DEF w, N, ts
<1>3. ASSUME NEW i \in 1..N
      PROVE  /\ fragment_bin_dump(w[i]) \in Seq(Bytes)
             /\ Len(fragment_bin_dump(w[i])) = fragment_bin_size(w[i])
  BY <1>1, DumpSize
<1>4. ts \in [1..N -> Seq(Bytes)]
  BY <1>2, <1>3
<1>5. ts \in Seq(Seq(Bytes)) /\ Len(ts) = N
  BY <1>1, <1>4
<1>6. Lengths(ts) = [i \in DOMAIN w |-> fragment_bin_size(w[i])]
  <2>1. DOMAIN ts = DOMAIN w
    BY <1>1, <1>4
  <2>2. \A i \in DOMAIN w : Len(ts[i]) = fragment_bin_size(w[i])
    BY <1>1, <1>2, <1>3
  <2>. QED  BY <2>1, <2>2 DEF Lengths
<1>7. Total(fragment_bin_size, w) = Sums(Lengths(ts))[N]
  BY <1>6 DEF Total, N
<1>8. \A i \in 1..N : ts[i] = fragment_bin_dump(w[i]) /\ Len(ts[i]) = fragment_bin_size(w[i])
  BY <1>2, <1>3
<1>. QED  BY <1>1, <1>5, <1>7, <1>8 DEF w, N, ts

(* The length of the data.                                                 *)
DataLength(s) == Total(terminated, s.data)

(* Where each part of the header begins: the number of runtime words,      *)
(* their names, the length of the data, the data, the number of callbacks, *)
(* the callbacks and the number of literals; the end of the header; the    *)
(* literals.                                                               *)
RuntimeAt(s) == encoded_size_from_int(s.variables)
NamesAt(s) == RuntimeAt(s) + encoded_size_from_int(Len(s.words))
DataLengthAt(s) == NamesAt(s) + Total(terminated, s.words)
DataAt(s) == DataLengthAt(s) + encoded_size_from_int(DataLength(s))
CallbackCountAt(s) == DataAt(s) + DataLength(s)
CallbacksAt(s) == CallbackCountAt(s) + encoded_size_from_int(Len(s.callbacks))
LiteralCountAt(s) == CallbacksAt(s) + Total(callback_size, s.callbacks)
HeaderEnd(s) == LiteralCountAt(s) + encoded_size_from_int(Len(s.literals))
LiteralsAt(s) == m4_align(HeaderEnd(s))

(* The counts and positions that m4_compile encodes are ints.              *)
LEMMA CountsFit ==
    ASSUME NEW s, LegalSource(s)
    PROVE  /\ s.variables \in Nat /\ s.variables \in Number
           /\ Len(s.words) \in Nat /\ Len(s.words) \in Number
           /\ DataLength(s) \in Nat /\ DataLength(s) \in Number
           /\ Len(s.callbacks) \in Nat /\ Len(s.callbacks) \in Number
           /\ Len(s.literals) \in Nat /\ Len(s.literals) \in Number
           /\ \A i \in 1..Len(s.callbacks) :
                s.callbacks[i].position \in Nat /\ s.callbacks[i].position \in Number
<1>1. /\ s.variables \in Counts /\ Len(s.words) \in Counts /\ DataLength(s) \in Counts
      /\ Len(s.callbacks) \in Counts /\ Len(s.literals) \in Counts
  BY DEF LegalSource, DataLength
<1>2. \A i \in 1..Len(s.callbacks) : s.callbacks[i].position \in Counts
  BY CallbacksWritten
<1>. QED  BY <1>1, <1>2, CountFits

(* The parts begin at natural numbers, the literals at a multiple of four, *)
(* and the code behind them at code_offset.                                *)
LEMMA PositionsAre ==
    ASSUME NEW s, LegalSource(s)
    PROVE  /\ RuntimeAt(s) \in Nat /\ NamesAt(s) \in Nat /\ DataLengthAt(s) \in Nat
           /\ DataAt(s) \in Nat /\ CallbackCountAt(s) \in Nat /\ CallbacksAt(s) \in Nat
           /\ LiteralCountAt(s) \in Nat /\ HeaderEnd(s) \in Nat /\ LiteralsAt(s) \in Nat
           /\ LiteralsAt(s) % 4 = 0
           /\ code_offset(s) = LiteralsAt(s) + 4 * Len(s.literals)
<1> DEFINE v == encoded_size_from_int(s.variables)
           w == encoded_size_from_int(Len(s.words))
           n == Total(terminated, s.words)
           d == encoded_size_from_int(DataLength(s))
           e == DataLength(s)
           c == encoded_size_from_int(Len(s.callbacks))
           p == Total(callback_size, s.callbacks)
           l == encoded_size_from_int(Len(s.literals))
<1>1. v \in 1..5 /\ w \in 1..5 /\ d \in 1..5 /\ c \in 1..5 /\ l \in 1..5 /\ e \in Nat
  BY CountsFit, NumberSize
<1>2. n \in Nat
  <2>1. /\ WordTexts(s) \in Seq(Seq(Bytes)) /\ Len(WordTexts(s)) = Len(s.words)
        /\ n = Sums(Lengths(WordTexts(s)))[Len(s.words)]
    BY WordsWritten
  <2>2. n = Len(FlattenSeq(WordTexts(s))) /\ FlattenSeq(WordTexts(s)) \in Seq(Bytes)
    BY <2>1, Flattened
  <2>. QED  BY <2>2, LenProperties
<1>3. p \in Nat
  <2>1. /\ CallbackTexts(s) \in Seq(Seq(Bytes)) /\ Len(CallbackTexts(s)) = Len(s.callbacks)
        /\ p = Sums(Lengths(CallbackTexts(s)))[Len(s.callbacks)]
    BY CallbacksWritten
  <2>2. p = Len(FlattenSeq(CallbackTexts(s))) /\ FlattenSeq(CallbackTexts(s)) \in Seq(Bytes)
    BY <2>1, Flattened
  <2>. QED  BY <2>2, LenProperties
<1>4. /\ RuntimeAt(s) = v /\ NamesAt(s) = v + w /\ DataLengthAt(s) = v + w + n
      /\ DataAt(s) = v + w + n + d /\ CallbackCountAt(s) = v + w + n + d + e
      /\ CallbacksAt(s) = v + w + n + d + e + c /\ LiteralCountAt(s) = v + w + n + d + e + c + p
      /\ HeaderEnd(s) = v + w + n + d + e + c + p + l
  BY DEF RuntimeAt, NamesAt, DataLengthAt, DataAt, CallbackCountAt, CallbacksAt,
         LiteralCountAt, HeaderEnd
<1>5. code_offset(s) = m4_align(v + w + n + d + e + c + p + l) + 4 * Len(s.literals)
  BY DEF code_offset, DataLength
<1> HIDE DEF v, w, n, d, e, c, p, l
<1>6. v + w + n + d + e + c + p + l = HeaderEnd(s) /\ HeaderEnd(s) \in Nat
  BY <1>1, <1>2, <1>3, <1>4
<1>7. LiteralsAt(s) \in Nat /\ LiteralsAt(s) % 4 = 0
  BY <1>6, Aligned DEF LiteralsAt
<1>8. /\ RuntimeAt(s) \in Nat /\ NamesAt(s) \in Nat /\ DataLengthAt(s) \in Nat
      /\ DataAt(s) \in Nat /\ CallbackCountAt(s) \in Nat /\ CallbacksAt(s) \in Nat
      /\ LiteralCountAt(s) \in Nat
  BY <1>1, <1>2, <1>3, <1>4
<1>. QED  BY <1>5, <1>6, <1>7, <1>8 DEF LiteralsAt

(* What begins with one text behind another has both.                      *)
LEMMA SplitLast ==
    ASSUME NEW S, NEW b \in Seq(S), NEW s \in Seq(S), NEW t \in Seq(S), Holds(b, 0, s \o t)
    PROVE  Holds(b, 0, s) /\ Holds(b, Len(s), t)
<1>1. Holds(b, 0, s) /\ Holds(b, 0 + Len(s), t)
  BY HoldsCat
<1>2. 0 + Len(s) = Len(s)
  BY LenProperties
<1>. QED  BY <1>1, <1>2

(* The header m4_compile writes is as long as it measured, and each part   *)
(* stands where the sizes of those before it say.                          *)
LEMMA HeaderParts ==
    ASSUME NEW s, LegalSource(s)
    PROVE  LET h == Header(s)
           IN  /\ h \in Seq(Bytes) /\ Len(h) = HeaderEnd(s)
               /\ Holds(h, 0, encode(s.variables))
               /\ Holds(h, RuntimeAt(s), encode(Len(s.words)))
               /\ Holds(h, NamesAt(s), FlattenSeq(WordTexts(s)))
               /\ Holds(h, DataLengthAt(s), encode(DataLength(s)))
               /\ Holds(h, DataAt(s), FlattenSeq(DataTexts(s)))
               /\ Holds(h, CallbackCountAt(s), encode(Len(s.callbacks)))
               /\ Holds(h, CallbacksAt(s), FlattenSeq(CallbackTexts(s)))
               /\ Holds(h, LiteralCountAt(s), encode(Len(s.literals)))
<1> DEFINE h1 == encode(s.variables)
           h2 == encode(Len(s.words))
           h3 == FlattenSeq(WordTexts(s))
           h4 == encode(DataLength(s))
           h5 == FlattenSeq(DataTexts(s))
           h6 == encode(Len(s.callbacks))
           h7 == FlattenSeq(CallbackTexts(s))
           h8 == encode(Len(s.literals))
           c2 == h1 \o h2
           c3 == c2 \o h3
           c4 == c3 \o h4
           c5 == c4 \o h5
           c6 == c5 \o h6
           c7 == c6 \o h7
           h == c7 \o h8
<1>1. Header(s) = h
  BY DEF Header, Each, DataLength, WordTexts, DataTexts, CallbackTexts, word, text, callback
<1>2. h1 \in Seq(Bytes) /\ Len(h1) = RuntimeAt(s)
  BY CountsFit, EncodedLength DEF RuntimeAt
<1>22. h2 \in Seq(Bytes) /\ Len(h2) = encoded_size_from_int(Len(s.words))
  BY CountsFit, EncodedLength
<1>24. h4 \in Seq(Bytes) /\ Len(h4) = encoded_size_from_int(DataLength(s))
  BY CountsFit, EncodedLength
<1>26. h6 \in Seq(Bytes) /\ Len(h6) = encoded_size_from_int(Len(s.callbacks))
  BY CountsFit, EncodedLength
<1>28. h8 \in Seq(Bytes) /\ Len(h8) = encoded_size_from_int(Len(s.literals))
  BY CountsFit, EncodedLength
<1>3. h3 \in Seq(Bytes) /\ Len(h3) = Total(terminated, s.words)
  BY WordsWritten, Flattened
<1>4. h5 \in Seq(Bytes) /\ Len(h5) = DataLength(s)
  BY DataWritten, Flattened DEF DataLength
<1>5. h7 \in Seq(Bytes) /\ Len(h7) = Total(callback_size, s.callbacks)
  BY CallbacksWritten, Flattened
<1> HIDE DEF h1, h2, h3, h4, h5, h6, h7, h8
<1>6. c2 \in Seq(Bytes) /\ Len(c2) = NamesAt(s)
  BY <1>2, <1>22, ConcatLength DEF NamesAt
<1> HIDE DEF c2
<1>7. c3 \in Seq(Bytes) /\ Len(c3) = DataLengthAt(s)
  BY <1>3, <1>6, ConcatLength DEF DataLengthAt
<1> HIDE DEF c3
<1>8. c4 \in Seq(Bytes) /\ Len(c4) = DataAt(s)
  BY <1>24, <1>7, ConcatLength DEF DataAt
<1> HIDE DEF c4
<1>9. c5 \in Seq(Bytes) /\ Len(c5) = CallbackCountAt(s)
  BY <1>4, <1>8, ConcatLength DEF CallbackCountAt
<1> HIDE DEF c5
<1>10. c6 \in Seq(Bytes) /\ Len(c6) = CallbacksAt(s)
  BY <1>26, <1>9, ConcatLength DEF CallbacksAt
<1> HIDE DEF c6
<1>11. c7 \in Seq(Bytes) /\ Len(c7) = LiteralCountAt(s)
  BY <1>5, <1>10, ConcatLength DEF LiteralCountAt
<1> HIDE DEF c7
<1>12. h \in Seq(Bytes) /\ Len(h) = HeaderEnd(s)
  BY <1>28, <1>11, ConcatLength DEF HeaderEnd
<1>13. Holds(h, 0, h)
  BY <1>12, HoldsItself
<1>14. Holds(h, 0, c7) /\ Holds(h, LiteralCountAt(s), h8)
  BY <1>28, <1>11, <1>12, <1>13, SplitLast
<1> HIDE DEF h
<1>15. Holds(h, 0, c6) /\ Holds(h, CallbacksAt(s), h7)
  BY <1>5, <1>10, <1>12, <1>14, SplitLast DEF c7
<1>16. Holds(h, 0, c5) /\ Holds(h, CallbackCountAt(s), h6)
  BY <1>26, <1>9, <1>12, <1>15, SplitLast DEF c6
<1>17. Holds(h, 0, c4) /\ Holds(h, DataAt(s), h5)
  BY <1>4, <1>8, <1>12, <1>16, SplitLast DEF c5
<1>18. Holds(h, 0, c3) /\ Holds(h, DataLengthAt(s), h4)
  BY <1>24, <1>7, <1>12, <1>17, SplitLast DEF c4
<1>19. Holds(h, 0, c2) /\ Holds(h, NamesAt(s), h3)
  BY <1>3, <1>6, <1>12, <1>18, SplitLast DEF c3
<1>20. Holds(h, 0, h1) /\ Holds(h, RuntimeAt(s), h2)
  BY <1>2, <1>22, <1>12, <1>19, SplitLast DEF c2
<1>. QED  BY <1>1, <1>12, <1>14, <1>15, <1>16, <1>17, <1>18, <1>19, <1>20
        DEF h1, h2, h3, h4, h5, h6, h7, h8

(* Where the fragments begin, from code_offset on, and where the code      *)
(* ends.                                                                   *)
CodeSums(s) == Sums(Lengths(CodeTexts(s)))
CodeLength(s) == Total(fragment_bin_size, s.code)

(* The binary: as long as m4_compile measured, with the header, the        *)
(* literals and the code in their places.                                  *)
LEMMA BinaryParts ==
    ASSUME NEW s, LegalSource(s)
    PROVE  LET b == Written(s)
           IN  /\ b \in Seq(Bytes) /\ Len(b) = Measured(s) /\ Measured(s) \in Nat
               /\ Holds(b, 0, Header(s))
               /\ Holds(b, LiteralsAt(s), FlattenSeq(s.literals))
               /\ Holds(b, code_offset(s), FlattenSeq(CodeTexts(s)))
               /\ code_offset(s) \in Nat /\ CodeLength(s) \in Nat
               /\ code_offset(s) + CodeLength(s) <= Len(b)
<1> DEFINE h == Padded(Header(s))
           l == FlattenSeq(s.literals)
           c == FlattenSeq(CodeTexts(s))
           x == h \o l
           y == x \o c
           b == Padded(y)
<1>1. Header(s) \in Seq(Bytes) /\ Len(Header(s)) = HeaderEnd(s)
  BY HeaderParts
<1>2. h \in Seq(Bytes) /\ Len(h) = LiteralsAt(s) /\ Holds(h, 0, Header(s))
  BY <1>1, PaddedLength DEF LiteralsAt
<1>3. l \in Seq(Bytes) /\ Len(l) = 4 * Len(s.literals)
  BY LiteralsWritten, Flattened
<1>4. c \in Seq(Bytes) /\ Len(c) = CodeLength(s)
  BY CodeWritten, Flattened DEF CodeLength
<1>5. Written(s) = b
  BY DEF Written, Each, CodeTexts
<1> HIDE DEF h, l, c
<1>6. x \in Seq(Bytes) /\ Len(x) = code_offset(s)
  BY <1>2, <1>3, ConcatLength, PositionsAre
<1> HIDE DEF x
<1>7. y \in Seq(Bytes) /\ Len(y) = code_offset(s) + CodeLength(s)
  BY <1>4, <1>6, ConcatLength
<1> HIDE DEF y
<1>8. b \in Seq(Bytes) /\ Len(b) = m4_align(Len(y)) /\ Holds(b, 0, y)
  BY <1>7, PaddedLength
<1>9. Len(b) = Measured(s)
  BY <1>7, <1>8 DEF Measured, CodeLength
<1>10. /\ Len(y) \in Nat /\ Len(x) \in Nat /\ Len(h) \in Nat /\ Len(b) \in Nat /\ Len(c) \in Nat
       /\ Len(Header(s)) \in Nat
  BY <1>1, <1>2, <1>4, <1>6, <1>7, <1>8, LenProperties
<1>11. Len(y) <= Len(b)
  <2>1. Len(y) <= m4_align(Len(y))
    BY <1>10, Aligned
  <2>. QED  BY <2>1, <1>8
<1> HIDE DEF b
<1>12. Holds(b, 0, x) /\ Holds(b, code_offset(s), c)
  BY <1>4, <1>6, <1>8, SplitLast DEF y
<1>13. Holds(b, 0, h) /\ Holds(b, LiteralsAt(s), l)
  BY <1>2, <1>3, <1>8, <1>12, SplitLast DEF x
<1>14. Holds(b, 0, Header(s))
  <2>1. Holds(b, 0 + 0, Header(s))
    BY <1>2, <1>10, <1>13, HoldsWithin
  <2>. QED  BY <2>1
<1>15. code_offset(s) \in Nat /\ CodeLength(s) \in Nat /\ code_offset(s) + CodeLength(s) <= Len(b)
  BY <1>4, <1>6, <1>7, <1>10, <1>11
<1>. QED  BY <1>5, <1>8, <1>9, <1>10, <1>12, <1>13, <1>14, <1>15 DEF l, c

(* A part of the header is a part of the binary.                           *)
LEMMA HeaderHeld ==
    ASSUME NEW s, LegalSource(s), NEW q, NEW t \in Seq(Bytes), Holds(Header(s), q, t)
    PROVE  Holds(Written(s), q, t) /\ q \in Nat
<1>1. Holds(Written(s), 0, Header(s))
  BY BinaryParts
<1>2. Len(Written(s)) \in Nat /\ Len(Header(s)) \in Nat /\ Len(t) \in Nat
  BY BinaryParts, HeaderParts, LenProperties
<1>3. Holds(Written(s), 0 + q, t)
  BY <1>1, <1>2, HoldsWithin
<1>4. q \in Nat
  BY DEF Holds
<1>. QED  BY <1>3, <1>4

(* An element of a list of texts stands where the lengths of those before  *)
(* it say.                                                                 *)
LEMMA ElementHeld ==
    ASSUME NEW b \in Seq(Bytes), NEW p, NEW ts \in Seq(Seq(Bytes)),
           Holds(b, p, FlattenSeq(ts)), NEW i \in 1..Len(ts)
    PROVE  Holds(b, p + Sums(Lengths(ts))[i - 1], ts[i])
<1>1. Holds(FlattenSeq(ts), Sums(Lengths(ts))[i - 1], ts[i])
  BY Flattened
<1>2. Len(b) \in Nat /\ Len(FlattenSeq(ts)) \in Nat /\ Len(ts[i]) \in Nat
  BY Flattened, LenProperties, ElementOfSeq
<1>. QED  BY <1>1, <1>2, HoldsWithin

(* Where the names and the callbacks begin, from the first on.             *)
WordSums(s) == Sums(Lengths(WordTexts(s)))
CallbackSums(s) == Sums(Lengths(CallbackTexts(s)))

(* All that a reader may find in the binary, in one place.                 *)
LEMMA BinaryHolds ==
    ASSUME NEW s, LegalSource(s)
    PROVE  LET b == Written(s)
           IN  /\ Holds(b, 0, encode(s.variables))
               /\ Holds(b, RuntimeAt(s), encode(Len(s.words)))
               /\ \A i \in 1..Len(s.words) :
                    Holds(b, NamesAt(s) + WordSums(s)[i - 1], lower(s.words[i]) \o <<0>>)
               /\ Holds(b, DataLengthAt(s), encode(DataLength(s)))
               /\ Holds(b, DataAt(s), FlattenSeq(DataTexts(s)))
               /\ Holds(b, CallbackCountAt(s), encode(Len(s.callbacks)))
               /\ \A i \in 1..Len(s.callbacks) :
                    Holds(b, CallbacksAt(s) + CallbackSums(s)[i - 1],
                          <<params_info(s.callbacks[i])>> \o encode(s.callbacks[i].position))
               /\ Holds(b, LiteralCountAt(s), encode(Len(s.literals)))
               /\ Holds(b, LiteralsAt(s), FlattenSeq(s.literals))
               /\ \A i \in 1..Len(s.code) :
                    Holds(b, code_offset(s) + CodeSums(s)[i - 1], fragment_bin_dump(s.code[i]))
<1> DEFINE b == Written(s)
<1>1. b \in Seq(Bytes)
  BY BinaryParts
<1>2. /\ encode(s.variables) \in Seq(Bytes) /\ encode(Len(s.words)) \in Seq(Bytes)
      /\ encode(DataLength(s)) \in Seq(Bytes) /\ encode(Len(s.callbacks)) \in Seq(Bytes)
      /\ encode(Len(s.literals)) \in Seq(Bytes)
  BY CountsFit, EncodedLength
<1>3. /\ FlattenSeq(WordTexts(s)) \in Seq(Bytes) /\ FlattenSeq(DataTexts(s)) \in Seq(Bytes)
      /\ FlattenSeq(CallbackTexts(s)) \in Seq(Bytes)
  BY WordsWritten, DataWritten, CallbacksWritten, Flattened
<1>4. \A q, t : t \in Seq(Bytes) /\ Holds(Header(s), q, t) => Holds(b, q, t)
  BY HeaderHeld
<1> HIDE DEF b
<1>5. /\ Holds(b, 0, encode(s.variables)) /\ Holds(b, RuntimeAt(s), encode(Len(s.words)))
      /\ Holds(b, NamesAt(s), FlattenSeq(WordTexts(s)))
      /\ Holds(b, DataLengthAt(s), encode(DataLength(s)))
      /\ Holds(b, DataAt(s), FlattenSeq(DataTexts(s)))
      /\ Holds(b, CallbackCountAt(s), encode(Len(s.callbacks)))
      /\ Holds(b, CallbacksAt(s), FlattenSeq(CallbackTexts(s)))
      /\ Holds(b, LiteralCountAt(s), encode(Len(s.literals)))
  BY <1>2, <1>3, <1>4, HeaderParts
<1>6. ASSUME NEW i \in 1..Len(s.words)
      PROVE  Holds(b, NamesAt(s) + WordSums(s)[i - 1], lower(s.words[i]) \o <<0>>)
  BY <1>1, <1>5, WordsWritten, ElementHeld DEF WordSums
<1>7. ASSUME NEW i \in 1..Len(s.callbacks)
      PROVE  Holds(b, CallbacksAt(s) + CallbackSums(s)[i - 1],
                   <<params_info(s.callbacks[i])>> \o encode(s.callbacks[i].position))
  BY <1>1, <1>5, CallbacksWritten, ElementHeld DEF CallbackSums
<1>8. Holds(b, LiteralsAt(s), FlattenSeq(s.literals)) /\ Holds(b, code_offset(s), FlattenSeq(CodeTexts(s)))
  BY BinaryParts DEF b
<1>9. ASSUME NEW i \in 1..Len(s.code)
      PROVE  Holds(b, code_offset(s) + CodeSums(s)[i - 1], fragment_bin_dump(s.code[i]))
  BY <1>1, <1>8, CodeWritten, ElementHeld DEF CodeSums
<1>. QED  BY <1>5, <1>6, <1>7, <1>8, <1>9 DEF b

(* The recursive definition of Instructions has a solution.                *)
LEMMA InstructionsExist ==
    ASSUME NEW code \in Seq(Fragments)
    PROVE  \E f \in [0..Len(code) -> Seq(Fragments)] :
             /\ f[0] = <<>>
             /\ \A m \in 1..Len(code) : f[m] = IF code[m].op \in Marks THEN f[m - 1]
                                               ELSE Append(f[m - 1], code[m])
<1> DEFINE N == Len(code)
           Fr == Fragments
           Mk == Marks
           Is(f, n) == /\ f \in [0..n -> Seq(Fr)] /\ f[0] = <<>>
                       /\ \A m \in 1..n : f[m] = IF code[m].op \in Mk THEN f[m - 1]
                                                 ELSE Append(f[m - 1], code[m])
           T == {n \in 0..N : \E f : Is(f, n)}
<1>0. N \in Nat /\ \A m \in 1..N : code[m] \in Fr
  BY LenProperties, ElementOfSeq
<1> HIDE DEF N, Fr, Mk
<1>1. 0 \in T
  <2>1. <<>> \in Seq(Fr)
    OBVIOUS
  <2> DEFINE e == <<>>
  <2>2. e \in Seq(Fr)
    BY <2>1
  <2> HIDE DEF e
  <2>3. [m \in 0..0 |-> e] \in [0..0 -> Seq(Fr)] /\ [m \in 0..0 |-> e][0] = e /\ 1..0 = {}
    BY <2>2
  <2>4. Is([m \in 0..0 |-> e], 0)
    BY <2>3 DEF e
  <2>5. 0 \in 0..N
    BY <1>0
  <2> HIDE DEF Is
  <2>. QED  BY <2>4, <2>5
<1>2. ASSUME NEW n \in 0..(N - 1), n \in T
      PROVE  n + 1 \in T
  <2>1. PICK f : Is(f, n)
    BY <1>2
  <2> DEFINE x == IF code[n + 1].op \in Mk THEN f[n] ELSE Append(f[n], code[n + 1])
             g == [m \in 0..(n + 1) |-> IF m = n + 1 THEN x ELSE f[m]]
  <2>2. /\ f \in [0..n -> Seq(Fr)] /\ f[0] = <<>>
        /\ \A m \in 1..n : f[m] = IF code[m].op \in Mk THEN f[m - 1]
                                  ELSE Append(f[m - 1], code[m])
    BY <2>1
  <2>3. n \in Nat /\ n + 1 \in 1..N /\ n + 1 \in 0..N /\ n \in 0..n
    BY <1>0, <1>2
  <2>4. x \in Seq(Fr)
    <3>1. f[n] \in Seq(Fr) /\ code[n + 1] \in Fr
      BY <1>0, <2>2, <2>3
    <3>2. Append(f[n], code[n + 1]) \in Seq(Fr)
      BY <3>1, AppendProperties
    <3>. QED  BY <3>1, <3>2
  <2> HIDE DEF x
  <2>5. g \in [0..(n + 1) -> Seq(Fr)] /\ g[0] = <<>>
    BY <2>2, <2>3, <2>4
  <2>6. ASSUME NEW m \in 1..(n + 1)
        PROVE  g[m] = IF code[m].op \in Mk THEN g[m - 1] ELSE Append(g[m - 1], code[m])
    <3>1. g[m - 1] = f[m - 1]
      BY <2>3
    <3>2. CASE m = n + 1
      <4>1. g[m] = x /\ m - 1 = n
        BY <2>3, <3>2
      <4>. QED  BY <3>1, <3>2, <4>1 DEF x
    <3>3. CASE m # n + 1
      <4>1. m \in 1..n /\ g[m] = f[m]
        BY <3>3, <2>3
      <4>. QED  BY <4>1, <3>1, <2>2
    <3>. QED  BY <3>2, <3>3
  <2>7. Is(g, n + 1)
    BY <2>5, <2>6
  <2> HIDE DEF Is, g
  <2>. QED  BY <2>3, <2>7
<1> HIDE DEF T
<1>3. N \in T
  <2>1. N \in 0..N
    BY <1>0
  <2>. QED  BY <1>0, <1>1, <1>2, <2>1, UpTo
<1>. QED  BY <1>3 DEF T, N, Fr, Mk

(* Instructions is the function it is defined as: a fragment adds itself,  *)
(* unless it is a mark.                                                    *)
LEMMA InstructionsStep ==
    ASSUME NEW code \in Seq(Fragments)
    PROVE  LET F == Instructions(code)
           IN  /\ F[0] = <<>>
               /\ \A i \in 1..Len(code) : F[i] = IF code[i].op \in Marks THEN F[i - 1]
                                                 ELSE Append(F[i - 1], code[i])
               /\ \A i \in 0..Len(code) : F[i] \in Seq(Fragments)
<1> DEFINE N == Len(code)
           Fr == Fragments
           Mk == Marks
           Is(f) == f = [i \in 0..N |-> IF i = 0 THEN <<>>
                                        ELSE IF code[i].op \in Mk THEN f[i - 1]
                                        ELSE Append(f[i - 1], code[i])]
           F == CHOOSE f : Is(f)
<1>1. N \in Nat /\ \A i \in 1..N : code[i] \in Fr
  BY LenProperties, ElementOfSeq
<1>2. PICK f \in [0..N -> Seq(Fr)] :
        /\ f[0] = <<>>
        /\ \A m \in 1..N : f[m] = IF code[m].op \in Mk THEN f[m - 1]
                                  ELSE Append(f[m - 1], code[m])
  BY InstructionsExist
<1>3. Instructions(code) = F
  BY DEF Instructions
<1> HIDE DEF N, Fr, Mk, F
<1>4. Is(f)
  <2> DEFINE g == [i \in 0..N |-> IF i = 0 THEN <<>>
                                  ELSE IF code[i].op \in Mk THEN f[i - 1]
                                  ELSE Append(f[i - 1], code[i])]
  <2>1. ASSUME NEW i \in 0..N
        PROVE  f[i] = g[i]
    <3>1. CASE i = 0
      <4>1. g[i] = <<>> /\ f[i] = <<>>
        BY <1>2, <3>1
      <4>. QED  BY <4>1
    <3>2. CASE i # 0
      <4>1. i \in 1..N
        BY <1>1, <3>2
      <4>2. g[i] = IF code[i].op \in Mk THEN f[i - 1] ELSE Append(f[i - 1], code[i])
        BY <3>2
      <4> HIDE DEF g
      <4>. QED  BY <1>2, <4>1, <4>2
    <3>. QED  BY <3>1, <3>2
  <2>2. f = [i \in 0..N |-> f[i]] /\ g = [i \in 0..N |-> g[i]]
    BY <1>2
  <2> HIDE DEF g
  <2>3. f = g
    BY <2>1, <2>2
  <2>. QED  BY <2>3 DEF g
<1> HIDE DEF Is
<1>5. Is(F)
  BY <1>4 DEF F
<1>6. F = [i \in 0..N |-> IF i = 0 THEN <<>> ELSE IF code[i].op \in Mk THEN F[i - 1]
                          ELSE Append(F[i - 1], code[i])]
  BY <1>5 DEF Is
<1>7. F[0] = <<>>
  <2>1. 0 \in 0..N
    BY <1>1
  <2>. QED  BY <2>1, <1>6
<1>8. \A i \in 1..N : F[i] = IF code[i].op \in Mk THEN F[i - 1]
                             ELSE Append(F[i - 1], code[i])
  <2>1. \A i \in 1..N : i \in 0..N /\ i # 0
    BY <1>1
  <2>. QED  BY <2>1, <1>6
<1>9. \A i \in 0..N : F[i] \in Seq(Fr)
  <2> DEFINE T == {i \in 0..N : F[i] \in Seq(Fr)}
  <2>1. 0 \in T
    <3>1. 0 \in 0..N /\ <<>> \in Seq(Fr)
      BY <1>1
    <3>. QED  BY <1>7, <3>1
  <2>2. ASSUME NEW i \in 0..(N - 1), i \in T
        PROVE  i + 1 \in T
    <3>1. i + 1 \in 1..N /\ (i + 1) - 1 = i /\ i + 1 \in 0..N
      BY <1>1
    <3>2. F[i] \in Seq(Fr) /\ code[i + 1] \in Fr
      BY <1>1, <2>2, <3>1
    <3>3. Append(F[i], code[i + 1]) \in Seq(Fr)
      BY <3>2, AppendProperties
    <3>4. F[i + 1] = IF code[i + 1].op \in Mk THEN F[i] ELSE Append(F[i], code[i + 1])
      BY <1>8, <3>1
    <3>5. F[i + 1] \in Seq(Fr)
      BY <3>2, <3>3, <3>4
    <3>. QED  BY <3>1, <3>5
  <2> HIDE DEF T
  <2>3. \A i \in 0..N : i \in T
    BY <1>1, <2>1, <2>2, UpTo
  <2>. QED  BY <2>3 DEF T
<1>. QED  BY <1>3, <1>7, <1>8, <1>9 DEF N, Fr, Mk

(* The instructions found are a beginning of those found later.            *)
LEMMA InstructionsGrow ==
    ASSUME NEW code \in Seq(Fragments), NEW k \in 0..Len(code)
    PROVE  LET F == Instructions(code)
           IN  \A j \in k..Len(code) : /\ Len(F[k]) <= Len(F[j])
                                       /\ \A m \in 1..Len(F[k]) : F[j][m] = F[k][m]
<1> DEFINE N == Len(code)
           F == Instructions(code)
           Good(j) == Len(F[k]) <= Len(F[j]) /\ \A m \in 1..Len(F[k]) : F[j][m] = F[k][m]
           Fr == Fragments
           T == {i \in 0..(N - k) : Good(k + i)}
<1>1. /\ \A i \in 1..N : F[i] = IF code[i].op \in Marks THEN F[i - 1]
                                ELSE Append(F[i - 1], code[i])
      /\ \A i \in 0..N : F[i] \in Seq(Fr) /\ Len(F[i]) \in Nat
      /\ \A i \in 1..N : code[i] \in Fr
      /\ N \in Nat /\ k \in 0..N
  <2>1. \A i \in 0..N : F[i] \in Seq(Fr)
    BY InstructionsStep
  <2> HIDE DEF F
  <2>2. \A i \in 0..N : Len(F[i]) \in Nat
    BY <2>1, LenProperties
  <2>. QED  BY <2>1, <2>2, InstructionsStep, LenProperties, ElementOfSeq DEF F
<1> HIDE DEF F, Fr, N
<1>2. 0 \in T
  <2>1. 0 \in 0..(N - k) /\ k + 0 = k /\ Good(k)
    BY <1>1
  <2> HIDE DEF Good
  <2>. QED  BY <2>1
<1>3. ASSUME NEW i \in 0..((N - k) - 1), i \in T
      PROVE  i + 1 \in T
  <2>1. /\ i + 1 \in 0..(N - k) /\ k + i \in 0..N /\ k + (i + 1) \in 1..N
        /\ (k + (i + 1)) - 1 = k + i
    BY <1>1
  <2> DEFINE a == k + i
             b == k + (i + 1)
  <2>2. b \in 1..N /\ b - 1 = a /\ a \in 0..N
    BY <2>1
  <2>3. Good(a)
    BY <1>3
  <2> HIDE DEF a, b
  <2>4. F[b] = F[a] \/ F[b] = Append(F[a], code[b])
    BY <1>1, <2>2
  <2>5. /\ Len(Append(F[a], code[b])) = Len(F[a]) + 1
        /\ \A m \in 1..Len(F[a]) : Append(F[a], code[b])[m] = F[a][m]
    BY <1>1, <2>2, AppendProperties
  <2>6. Good(b)
    <3>1. CASE F[b] = F[a]
      BY <2>3, <3>1
    <3>2. CASE F[b] = Append(F[a], code[b])
      <4>1. Len(F[b]) = Len(F[a]) + 1 /\ \A m \in 1..Len(F[a]) : F[b][m] = F[a][m]
        BY <2>5, <3>2
      <4>2. Len(F[a]) \in Nat /\ Len(F[k]) \in Nat
        BY <1>1, <2>2
      <4>. QED  BY <2>3, <4>1, <4>2
    <3>. QED  BY <2>4, <3>1, <3>2
  <2> HIDE DEF Good
  <2>. QED  BY <2>1, <2>6 DEF b
<1> HIDE DEF T
<1>4. \A i \in 0..(N - k) : i \in T
  <2>1. N - k \in Nat
    BY <1>1
  <2>. QED  BY <1>2, <1>3, <2>1, UpTo
<1>5. ASSUME NEW j \in k..N
      PROVE  Good(j)
  <2>1. j - k \in 0..(N - k) /\ k + (j - k) = j
    BY <1>1
  <2> HIDE DEF Good
  <2>. QED  BY <1>4, <2>1 DEF T
<1>. QED  BY <1>5 DEF F, N

(* A number of one byte is read, and what follows it stands behind.        *)
LEMMA FirstNumber ==
    ASSUME NEW a \in 0..63, NEW t \in Seq(Bytes), bin \in Seq(Bytes), NEW p,
           Holds(bin, p, encode(a) \o t)
    PROVE  /\ p \in Nat /\ decode(p).n = a /\ decode(p).next = p + 1
           /\ Holds(bin, p + 1, t)
<1>1. a \in Number /\ encoded_size_from_int(a) = 1
  BY OneByte
<1> DEFINE e == encode(a)
<1>2. e \in Seq(Bytes) /\ Len(e) = 1
  BY <1>1, EncodedLength
<1> HIDE DEF e
<1>3. \A b \in Seq(Bytes) : Holds(b, p, e \o t) <=> Holds(b, p, e) /\ Holds(b, p + Len(e), t)
  BY <1>2, HoldsCat
<1>4. Holds(bin, p, e) /\ Holds(bin, p + 1, t)
  BY <1>2, <1>3 DEF e
<1>5. decode(p).n = a /\ decode(p).next = p + 1
  BY <1>1, <1>4, EncodedHere DEF e
<1>6. p \in Nat
  BY <1>4 DEF Holds
<1>. QED  BY <1>4, <1>5, <1>6

(* Where a fragment that is not a mark was written the bytecode engine     *)
(* reads that instruction, with its operand, and stops at its end.         *)
LEMMA InstructionHere ==
    ASSUME bin \in Seq(Bytes), NEW f \in Fragments, f.op \notin Marks,
           f.op \in Displaced => f.width >= encoded_size_from_int(f.param),
           NEW p, Holds(bin, p, fragment_bin_dump(f))
    PROVE  /\ Instruction(p).op = f.op
           /\ Instruction(p).param = (IF f.op \in Plain THEN 0 ELSE f.param)
           /\ Instruction(p).next = p + fragment_bin_size(f)
           /\ fragment_bin_size(f) >= 1
<1>1. f.param \in Number /\ f.width \in 0..5
  BY Dumps
<1>2. encoded_size_from_int(f.param) \in 1..5 /\ Shifts(f.param) < encoded_size_from_int(f.param)
  BY <1>1, NumberSize
<1>3. encode(f.param) \in Seq(Bytes) /\ Len(encode(f.param)) = encoded_size_from_int(f.param)
  BY <1>1, EncodedLength
<1>4. OPCODE_LAST = 22 /\ NUM_MAX_ONE_BYTE = 63
  BY Opcodes DEF NUM_MAX_ONE_BYTE
<1>5. CASE f.op = "BUILTIN_WORD" /\ f.param \in OneByteBuiltins
  <2>1. /\ f.param \in Int /\ f.param + 22 \in 0..63 /\ f.param + 22 >= 22
        /\ f.param + 22 <= 63 /\ (f.param + 22) - 22 = f.param
    <3>1. f.param \in 0..(63 - 22)
      BY <1>4, <1>5 DEF OneByteBuiltins
    <3>4. \A x \in 0..(63 - 22) : x \in Nat /\ x <= 41
      BY SMT
    <3>2. f.param \in Nat /\ f.param <= 41
      BY <3>1, <3>4, Zenon
    <3>3. \A x \in Nat : x <= 41 => /\ x \in Int /\ x + 22 \in 0..63 /\ x + 22 >= 22
                                    /\ x + 22 <= 63 /\ (x + 22) - 22 = x
      BY SMT
    <3>. QED  BY <3>2, <3>3, Zenon
  <2>2. fragment_bin_dump(f) = <<f.param + 22>> /\ fragment_bin_size(f) = 1
    BY <1>4, <1>5, Dumps
  <2>3. encode(f.param + 22) = <<f.param + 22>>
    BY <2>1, OneByteIs
  <2>4. decode(p).n = f.param + 22 /\ decode(p).next = p + 1
    <3>1. f.param + 22 \in Number /\ encoded_size_from_int(f.param + 22) = 1
      BY <2>1, OneByte
    <3>2. Holds(bin, p, encode(f.param + 22))
      BY <2>2, <2>3
    <3>. QED  BY <3>1, <3>2, EncodedHere
  <2>6. Instruction(p) = [op |-> "BUILTIN_WORD", param |-> (f.param + 22) - 22, next |-> p + 1]
    BY <1>4, <2>1, <2>4 DEF Instruction
  <2>7. f.op \notin Plain
    BY <1>5 DEF Plain
  <2>. QED  BY <1>5, <2>1, <2>2, <2>6, <2>7
<1>6. CASE f.op = "BUILTIN_WORD" /\ f.param \notin OneByteBuiltins
  <2>1. fragment_bin_dump(f) = encode(0) \o encode(f.param)
        /\ fragment_bin_size(f) = 1 + encoded_size_from_int(f.param)
    BY <1>6, Dumps
  <2>2. Holds(bin, p, encode(0) \o encode(f.param)) /\ 0 \in 0..63
    BY <2>1
  <2>3. p \in Nat /\ decode(p).n = 0 /\ decode(p).next = p + 1
        /\ Holds(bin, p + 1, encode(f.param))
    BY <1>3, <2>2, FirstNumber
  <2>4. /\ decode(p + 1).n = f.param
        /\ decode(p + 1).next = (p + 1) + encoded_size_from_int(f.param)
    BY <1>1, <2>3, EncodedHere
  <2>5. Instruction(p) = [op |-> "BUILTIN_WORD", param |-> f.param,
                          next |-> (p + 1) + encoded_size_from_int(f.param)]
    BY <1>4, <2>3, <2>4 DEF Instruction
  <2>6. f.op \notin Plain
    BY <1>6 DEF Plain
  <2>. QED  BY <1>2, <1>6, <2>1, <2>3, <2>5, <2>6
<1>7. CASE f.op \in WithParam
  <2>1. /\ fragment_bin_dump(f) = encode(opcode(f.op)) \o encode(f.param)
        /\ fragment_bin_size(f) = 1 + encoded_size_from_int(f.param)
    BY <1>7, Dumps
  <2>2. opcode(f.op) \in 1..21 /\ OPCODES[opcode(f.op)] = f.op
    BY <1>7, Opcodes DEF Coded
  <2>3. opcode(f.op) \in 0..63 /\ opcode(f.op) \in Int /\ opcode(f.op) # 0
        /\ ~(opcode(f.op) >= 22)
    BY <2>2, SMTT(30)
  <2>4. p \in Nat /\ decode(p).n = opcode(f.op) /\ decode(p).next = p + 1
        /\ Holds(bin, p + 1, encode(f.param))
    <3>1. Holds(bin, p, encode(opcode(f.op)) \o encode(f.param))
      BY <2>1
    <3>. QED  BY <1>3, <2>3, <3>1, FirstNumber, Zenon
  <2>5. /\ decode(p + 1).n = f.param
        /\ decode(p + 1).next = (p + 1) + encoded_size_from_int(f.param)
    BY <1>1, <2>4, EncodedHere
  <2>6. f.op \notin Plain
    BY <1>7 DEF WithParam, Plain
  <2>7. Instruction(p) = [op |-> f.op, param |-> f.param,
                          next |-> (p + 1) + encoded_size_from_int(f.param)]
    BY <1>4, <2>2, <2>3, <2>4, <2>5, <2>6 DEF Instruction
  <2>. QED  BY <1>2, <2>1, <2>4, <2>6, <2>7
<1>8. CASE f.op \in Displaced
  <2>0. f.width \in 1..5 /\ Shifts(f.param) < f.width
    <3>1. Shifts(f.param) \in Nat
      BY <1>1, ShiftsStop
    <3>. QED  BY <1>1, <1>2, <1>8, <3>1
  <2>1. /\ fragment_bin_dump(f) = encode(opcode(f.op)) \o encode_with_size(f.param, f.width)
        /\ fragment_bin_size(f) = 1 + f.width
    BY <1>8, Dumps
  <2>2. opcode(f.op) \in 1..21 /\ OPCODES[opcode(f.op)] = f.op
    BY <1>8, Opcodes DEF Coded
  <2>3. opcode(f.op) \in 0..63 /\ opcode(f.op) \in Int /\ opcode(f.op) # 0
        /\ ~(opcode(f.op) >= 22)
    BY <2>2, SMTT(30)
  <2>4. encode_with_size(f.param, f.width) \in Seq(Bytes)
    BY <1>1, <2>0, EncodedBytes
  <2>5. p \in Nat /\ decode(p).n = opcode(f.op) /\ decode(p).next = p + 1
        /\ Holds(bin, p + 1, encode_with_size(f.param, f.width))
    <3>1. Holds(bin, p, encode(opcode(f.op)) \o encode_with_size(f.param, f.width))
      BY <2>1
    <3>. QED  BY <2>3, <2>4, <3>1, FirstNumber, Zenon
  <2>6. decode(p + 1).n = f.param /\ decode(p + 1).next = (p + 1) + f.width
    BY <1>1, <2>0, <2>5, Decoded
  <2>7. f.op \notin Plain
    BY <1>8 DEF Displaced, Plain
  <2>8. Instruction(p) = [op |-> f.op, param |-> f.param, next |-> (p + 1) + f.width]
    BY <1>4, <2>2, <2>3, <2>5, <2>6, <2>7 DEF Instruction
  <2>. QED  BY <2>0, <2>1, <2>5, <2>7, <2>8
<1>9. CASE f.op \in Plain
  <2>1. fragment_bin_dump(f) = encode(opcode(f.op)) /\ fragment_bin_size(f) = 1
    BY <1>9, Dumps
  <2>2. opcode(f.op) \in 1..21 /\ OPCODES[opcode(f.op)] = f.op
    BY <1>9, Opcodes DEF Coded
  <2>3. opcode(f.op) \in 0..63 /\ opcode(f.op) \in Int /\ opcode(f.op) # 0
        /\ ~(opcode(f.op) >= 22)
    BY <2>2, SMTT(30)
  <2>4. opcode(f.op) \in Number /\ encoded_size_from_int(opcode(f.op)) = 1
    BY <2>3, OneByte
  <2>5. decode(p).n = opcode(f.op) /\ decode(p).next = p + 1
    BY <2>1, <2>4, EncodedHere
  <2>6. Instruction(p) = [op |-> f.op, param |-> 0, next |-> p + 1]
    BY <1>4, <1>9, <2>2, <2>3, <2>5 DEF Instruction
  <2>. QED  BY <1>9, <2>1, <2>6
<1>. QED  BY <1>5, <1>6, <1>7, <1>8, <1>9, Dumps

(* Behind the first k fragments, marks left out, fragment m is next.       *)
Ahead(s, k, m) ==
    /\ m \in (k + 1)..Len(s.code) /\ CodeSums(s)[m - 1] = CodeSums(s)[k]
    /\ Instructions(s.code)[m - 1] = Instructions(s.code)[k]
    /\ s.code[m].op \notin Marks

(* The positions of fragments: each is the one before it and the size of   *)
(* that fragment.                                                          *)
LEMMA CodeSumsAre ==
    ASSUME NEW s, LegalSource(s)
    PROVE  /\ s.code \in Seq(Fragments) /\ Len(s.code) \in Nat
           /\ CodeSums(s) \in [0..Len(s.code) -> Nat] /\ CodeSums(s)[0] = 0
           /\ \A i \in 1..Len(s.code) :
                CodeSums(s)[i] = CodeSums(s)[i - 1] + fragment_bin_size(s.code[i])
           /\ \A i, j \in 0..Len(s.code) : i <= j => CodeSums(s)[i] <= CodeSums(s)[j]
           /\ CodeLength(s) = CodeSums(s)[Len(s.code)]
<1> DEFINE ns == Lengths(CodeTexts(s))
           N == Len(s.code)
           code == s.code
<1>1. s.code \in Seq(Fragments) /\ N \in Nat
  BY LenProperties DEF LegalSource
<1>2. ns \in Seq(Nat) /\ Len(ns) = N
      /\ \A i \in 1..N : ns[i] = fragment_bin_size(code[i])
  <2>1. /\ CodeTexts(s) \in Seq(Seq(Bytes)) /\ Len(CodeTexts(s)) = N
        /\ \A i \in 1..N : Len(CodeTexts(s)[i]) = fragment_bin_size(code[i])
    BY CodeWritten
  <2>2. /\ ns \in Seq(Nat) /\ Len(ns) = Len(CodeTexts(s))
        /\ \A i \in 1..Len(CodeTexts(s)) : ns[i] = Len(CodeTexts(s)[i])
    BY <2>1, LengthsAre
  <2>. QED  BY <2>1, <2>2
<1>3. CodeLength(s) = Sums(ns)[N]
  BY CodeWritten DEF CodeLength
<1>4. CodeSums(s) = Sums(ns)
  BY DEF CodeSums
<1> HIDE DEF ns, N, code
<1>5. /\ Sums(ns) \in [0..N -> Nat] /\ Sums(ns)[0] = 0
      /\ \A i \in 1..N : Sums(ns)[i] = Sums(ns)[i - 1] + ns[i]
  BY <1>2, SumsStep
<1>6. \A i, j \in 0..N : i <= j => Sums(ns)[i] <= Sums(ns)[j]
  BY <1>2, SumsGrow
<1>. QED  BY <1>1, <1>2, <1>3, <1>4, <1>5, <1>6 DEF N, code

(* Behind the first k fragments there is an instruction, or only marks are *)
(* left, which have no bytes.                                              *)
LEMMA AheadOrRead ==
    ASSUME NEW s, LegalSource(s), NEW k \in 0..Len(s.code)
    PROVE  \/ \E m : Ahead(s, k, m)
           \/ /\ CodeSums(s)[Len(s.code)] = CodeSums(s)[k]
              /\ Instructions(s.code)[Len(s.code)] = Instructions(s.code)[k]
<1> DEFINE N == Len(s.code)
           F == Instructions(s.code)
           C == CodeSums(s)
           some == \E m : Ahead(s, k, m)
           T == {i \in 0..(N - k) : some \/ (C[k + i] = C[k] /\ F[k + i] = F[k])}
<1>1. /\ N \in Nat /\ C \in [0..N -> Nat] /\ k \in 0..N
      /\ \A i \in 1..N : C[i] = C[i - 1] + fragment_bin_size(s.code[i])
      /\ s.code \in Seq(Fragments) /\ \A i \in 1..N : s.code[i] \in Fragments
  BY CodeSumsAre, ElementOfSeq
<1>2. \A i \in 1..N : s.code[i].op \in Marks => F[i] = F[i - 1]
  BY <1>1, InstructionsStep
<1>3. \A i \in 1..N : s.code[i].op \in Marks => C[i] = C[i - 1]
  <2> SUFFICES ASSUME NEW i \in 1..N, s.code[i].op \in Marks
               PROVE  C[i] = C[i - 1]
    OBVIOUS
  <2>1. fragment_bin_size(s.code[i]) = 0
    BY <1>1, Dumps
  <2>2. C[i] = C[i - 1] + 0 /\ i - 1 \in 0..N
    BY <1>1, <2>1
  <2>3. C[i - 1] \in Nat
    BY <1>1, <2>2
  <2>. QED  BY <2>2, <2>3
<1>4. ASSUME NEW m \in (k + 1)..N, C[m - 1] = C[k], F[m - 1] = F[k], s.code[m].op \notin Marks
      PROVE  some
  BY <1>4 DEF Ahead
<1> HIDE DEF some, N, F, C
<1>5. 0 \in T
  <2>1. 0 \in 0..(N - k) /\ k + 0 = k
    BY <1>1
  <2>. QED  BY <2>1
<1>6. ASSUME NEW i \in 0..((N - k) - 1), i \in T
      PROVE  i + 1 \in T
  <2>1. /\ i + 1 \in 0..(N - k) /\ k + (i + 1) \in 1..N /\ k + (i + 1) \in (k + 1)..N
        /\ (k + (i + 1)) - 1 = k + i
    BY <1>1
  <2>2. some \/ (C[k + i] = C[k] /\ F[k + i] = F[k])
    BY <1>6
  <2> DEFINE m == k + (i + 1)
  <2>3. m \in 1..N /\ m \in (k + 1)..N /\ m - 1 = k + i
    BY <2>1
  <2> HIDE DEF m
  <2>4. some \/ (C[m] = C[k] /\ F[m] = F[k])
    <3>1. CASE s.code[m].op \in Marks
      BY <1>2, <1>3, <2>2, <2>3, <3>1
    <3>2. CASE s.code[m].op \notin Marks
      BY <1>4, <2>2, <2>3, <3>2
    <3>. QED  BY <3>1, <3>2
  <2>. QED  BY <2>1, <2>4 DEF m
<1> HIDE DEF T
<1>7. N - k \in T
  <2>1. N - k \in Nat /\ N - k \in 0..(N - k)
    BY <1>1
  <2>. QED  BY <1>5, <1>6, <2>1, UpTo
<1>8. k + (N - k) = N
  BY <1>1
<1>9. some \/ (C[N] = C[k] /\ F[N] = F[k])
  BY <1>7, <1>8 DEF T
<1>. QED  BY <1>9 DEF some, N, F, C

(* The instruction that is ahead has a byte at least, so the code does not *)
(* end in front of it, and it is the next of the list.                     *)
LEMMA AheadIsCode ==
    ASSUME NEW s, LegalSource(s), NEW k \in 0..Len(s.code), NEW m, Ahead(s, k, m)
    PROVE  /\ m \in 1..Len(s.code) /\ s.code[m] \in Fragments
           /\ CodeSums(s)[k] < CodeSums(s)[Len(s.code)]
           /\ Instructions(s.code)[m] = Append(Instructions(s.code)[k], s.code[m])
<1> DEFINE N == Len(s.code)
           C == CodeSums(s)
           F == Instructions(s.code)
<1>1. /\ N \in Nat /\ C \in [0..N -> Nat] /\ k \in 0..N
      /\ \A i \in 1..N : C[i] = C[i - 1] + fragment_bin_size(s.code[i])
      /\ s.code \in Seq(Fragments) /\ \A i \in 1..N : s.code[i] \in Fragments
      /\ \A i, j \in 0..N : i <= j => C[i] <= C[j]
  BY CodeSumsAre, ElementOfSeq
<1>2. m \in (k + 1)..N /\ C[m - 1] = C[k] /\ F[m - 1] = F[k] /\ s.code[m].op \notin Marks
  BY DEF Ahead
<1>3. F[m] = Append(F[k], s.code[m])
  <2>1. m \in 1..N
    BY <1>1, <1>2
  <2>2. \A i \in 1..N : F[i] = IF s.code[i].op \in Marks THEN F[i - 1]
                               ELSE Append(F[i - 1], s.code[i])
    BY <1>1, InstructionsStep
  <2> HIDE DEF F, N
  <2>. QED  BY <1>2, <2>1, <2>2
<1>4. m \in 1..N /\ m \in 0..N /\ N \in 0..N /\ m <= N
  BY <1>1, <1>2
<1>5. fragment_bin_size(s.code[m]) \in Nat /\ fragment_bin_size(s.code[m]) >= 1
  <2> DEFINE f == s.code[m]
  <2>1. f \in Fragments /\ f.op \notin Marks
        /\ (f.op \in Displaced => f.width >= encoded_size_from_int(f.param))
    BY <1>1, <1>2, <1>4, CodeWritten
  <2> HIDE DEF f
  <2>2. f.width \in Nat /\ encoded_size_from_int(f.param) \in Nat
    BY <2>1, Dumps, NumberSize
  <2>3. fragment_bin_size(f) \in Nat /\ fragment_bin_size(f) >= 1
    BY <2>1, <2>2, Dumps
  <2>. QED  BY <2>3 DEF f
<1>6. C[k] < C[N]
  <2>1. C[m] = C[k] + fragment_bin_size(s.code[m]) /\ C[m] <= C[N]
    BY <1>1, <1>2, <1>4
  <2>2. C[k] \in Nat /\ C[m] \in Nat /\ C[N] \in Nat
    BY <1>1, <1>4
  <2>. QED  BY <1>5, <2>1, <2>2
<1>. QED  BY <1>1, <1>3, <1>4, <1>6

(* What stands in a sequence is a part of it.                              *)
LEMMA HeldIsSub ==
    ASSUME NEW b \in Seq(Bytes), NEW t \in Seq(Bytes), NEW p, Holds(b, p, t)
    PROVE  SubSeq(b, p + 1, p + Len(t)) = t
<1> DEFINE L == Len(t)
           q == p + L
           u == SubSeq(b, p + 1, q)
<1>1. L \in Nat /\ p \in Nat /\ Len(b) \in Nat /\ q <= Len(b)
      /\ \A k \in 1..L : b[p + k] = t[k]
  BY LenProperties DEF Holds
<1> HIDE DEF L
<1>2. \A j \in (p + 1)..q : b[j] \in Bytes
  <2>1. \A j \in (p + 1)..q : j \in 1..Len(b)
    BY <1>1
  <2>. QED  BY <2>1, ElementOfSeq
<1>3. /\ u \in Seq(Bytes) /\ Len(u) = (IF p + 1 <= q THEN q - (p + 1) + 1 ELSE 0)
      /\ \A j \in 1..(q - (p + 1) + 1) : u[j] = b[(p + 1) + j - 1]
  <2>1. p + 1 \in Int /\ q \in Int
    BY <1>1
  <2>. QED  BY <1>2, <2>1, SubSeqProperties
<1>4. q - (p + 1) + 1 = L /\ (IF p + 1 <= q THEN q - (p + 1) + 1 ELSE 0) = L
      /\ \A j \in 1..L : (p + 1) + j - 1 = p + j
  BY <1>1
<1> HIDE DEF q, u
<1>5. Len(u) = L /\ \A j \in 1..L : u[j] = t[j]
  BY <1>1, <1>3, <1>4
<1>6. u = [j \in 1..L |-> u[j]] /\ t = [j \in 1..L |-> t[j]]
  BY <1>3, <1>5, LenProperties DEF L
<1>7. u = t
  BY <1>5, <1>6
<1>. QED  BY <1>7 DEF u, q, L

-----------------------------------------------------------------------------
(* Second part: the program's steps.                                       *)

(* The addresses up to which the pieces of memory reach: the aligned       *)
(* start, the stacks, the variables, the runtime words and the callbacks;  *)
(* and the end of the memory given.                                        *)
Start == m4_align(job.base)
Limit == job.base + job.len
StackEnd == Start + Sums(Space(job.engine))[Len(Space(job.engine))]
VariableEnd == StackEnd + 4 * job.source.variables
WordEnd == VariableEnd + 4 * Len(job.source.words)
TableEnd == WordEnd + (m4_align(Len(job.source.callbacks)) + 4 * Len(job.source.callbacks))

(* The runtime words that have been found.                                 *)
Found == Len(job.source.words) - lookup.todo

(* The types of the tables.                                                *)
Tables == [variables : Nat, runtime_cbs : Seq(Nat \X Nat), data_start : Nat,
           callback_info : Seq(Int), callback_words : Seq(Int), literals : Nat,
           program_start : Nat, room : Int]

(* The stages of a program whose stacks have been carved.                  *)
Reading == {"variables", "runtime", "lookup", "callbacks", "literals", "enter", "running"}

(* The types of the state.  They are more precise than TypeOK where the    *)
(* proofs ask for it.                                                      *)
StateTyped ==
    /\ job \in Jobs
    /\ stage \in {"measure", "carve"} \cup Reading \cup BINARY_ERRORS
    /\ memory_p \in Nat /\ bin_p \in 0..Len(bin)
    /\ lookup \in [todo : Nat, array : Nat, entry : Nat]
    /\ tables \in Tables

(* There is no binary before Compile; from then on it is the one that the  *)
(* source has, and never changes.                                          *)
Compiled ==
    /\ stage = "measure" => bin = <<>> /\ bin_len = 0
    /\ stage # "measure" => bin = Written(job.source) /\ bin_len = Measured(job.source)

(* How far the reader is in the binary, and how far the memory is used, at *)
(* each stage.  The reader is where the parts of the binary begin.         *)
Placed ==
    LET s == job.source
    IN  /\ stage \in {"carve", "variables"} => bin_p = 0
        /\ stage = "carve" => memory_p = Start
        /\ stage = "variables" => memory_p = StackEnd /\ StackEnd <= Limit
        /\ stage = "runtime" =>
             bin_p = RuntimeAt(s) /\ memory_p = VariableEnd /\ VariableEnd <= Limit
        /\ stage = "lookup" =>
             /\ lookup.todo <= Len(s.words)
             /\ bin_p = NamesAt(s) + WordSums(s)[Found]
             /\ memory_p = VariableEnd + 4 * Found /\ WordEnd <= Limit
        /\ stage = "callbacks" =>
             bin_p = CallbackCountAt(s) /\ memory_p = WordEnd /\ WordEnd <= Limit
        /\ stage = "literals" => bin_p = LiteralCountAt(s)
        /\ stage \in {"literals", "enter", "running"} =>
             memory_p = TableEnd /\ TableEnd <= Limit /\ Len(s.callbacks) <= job.slots

(* For the runtime words that have been found the table has the first      *)
(* entry with their name; for the one that is sought no entry before the   *)
(* one looked at has it.                                                   *)
Searched ==
    LET s == job.source
    IN  /\ stage \in {"callbacks", "literals", "enter", "running"} => lookup.todo = 0
        /\ stage \in {"measure", "carve", "variables", "runtime"} =>
             tables.runtime_cbs = <<>>
        /\ stage \in {"lookup", "callbacks", "literals", "enter", "running"} =>
             /\ lookup.todo <= Len(s.words) /\ Len(tables.runtime_cbs) = Found
             /\ \A i \in 1..Found : /\ FirstEntry(lower(s.words[i]), tables.runtime_cbs[i])
                                    /\ lower(s.words[i]) \in Offered
        /\ stage = "lookup" /\ lookup.todo > 0 =>
             LET name == lower(s.words[Found + 1])
             IN  /\ lookup.array \in 1..Len(job.arrays)
                 /\ lookup.entry \in 1..(Len(job.arrays[lookup.array]) + 1)
                 /\ \A a \in 1..(lookup.array - 1) : \A k \in DOMAIN job.arrays[a] :
                      job.arrays[a][k] # name
                 /\ \A k \in 1..(lookup.entry - 1) : job.arrays[lookup.array][k] # name

(* The tables, from the stage at which each is filled.                     *)
Restored ==
    LET s == job.source
        n == Len(s.callbacks)
        base == IF job.code = NoCopy \/ job.engine = "vm" THEN code_offset(s) ELSE job.code
    IN  /\ stage \in Reading \ {"variables"} => tables.variables = StackEnd
        /\ stage \in {"callbacks", "literals", "enter", "running"} =>
             tables.data_start = DataAt(s)
        /\ stage \in {"literals", "enter", "running"} =>
             tables.callback_info = [i \in 1..n |-> params_info(s.callbacks[i])]
        /\ stage = "literals" =>
             tables.callback_words = [i \in 1..n |-> s.callbacks[i].position]
        /\ stage \in {"enter", "running"} => tables.literals = LiteralsAt(s)
        /\ stage = "enter" =>
             /\ tables.callback_words = [i \in 1..n |-> code_offset(s) + s.callbacks[i].position]
             /\ tables.program_start = code_offset(s)
        /\ stage = "running" =>
             /\ tables.callback_words = [i \in 1..n |-> base + s.callbacks[i].position]
             /\ tables.program_start = IF job.code = NoCopy THEN code_offset(s) ELSE job.code
             /\ tables.room = Limit - TableEnd

(* Ranges that do not overlap, within first and last, and below top.       *)
Apart(ranges, first, last, top) ==
    /\ \A r \in ranges : /\ r[1] \in Nat /\ r[2] \in Nat /\ r[2] <= last /\ r[2] <= top
                         /\ first <= r[1] /\ r[1] <= r[2]
    /\ \A r, q \in ranges : r = q \/ r[2] <= q[1] \/ q[2] <= r[1]

(* The ranges written do not overlap, lie within the memory given and end  *)
(* at the next free address at the latest, so that what is written next    *)
(* cannot touch them.                                                      *)
Kept ==
    /\ stage \in {"measure", "carve"} => wrote = {}
    /\ Apart(wrote, job.base, Limit, memory_p)

(* A program can be loaded.                                                *)
Possible ==
    LET s == job.source
    IN  /\ job.len >= Needed(s, job.engine, job.base)
        /\ Len(s.callbacks) <= job.slots
        /\ \A i \in DOMAIN s.words : lower(s.words[i]) \in Offered

(* No error is returned for a program that could be loaded.                *)
Justified == stage \in BINARY_ERRORS => ~Possible

(* An instruction as the engine reads it.                                  *)
Ran(f) == [op |-> f.op, param |-> IF f.op \in Plain THEN 0 ELSE f.param]

(* The bytecode engine is at the beginning of a fragment, or behind the    *)
(* last, and has read the instructions in front of it.                     *)
Decoding ==
    LET s == job.source
    IN  /\ stage # "running" => pc = 0 /\ decoded = <<>>
        /\ stage = "running" =>
             \E k \in 0..Len(s.code) :
               /\ pc = code_offset(s) + CodeSums(s)[k]
               /\ Len(decoded) = Len(Instructions(s.code)[k])
               /\ decoded = [i \in 1..Len(decoded) |-> Ran(Instructions(s.code)[k][i])]

(* The inductive invariant.                                                *)
BinaryInv ==
    StateTyped /\ Compiled /\ Placed /\ Searched /\ Restored /\ Kept /\ Justified /\ Decoding

(* What is known of the job.                                               *)
LEMMA JobFacts ==
    ASSUME job \in Jobs
    PROVE  /\ LegalSource(job.source) /\ job.engine \in {"vm", "x86_32", "esp32s3"}
           /\ job.arrays \in Seq(Seq(Names)) /\ job.slots \in Nat /\ job.base \in Nat
           /\ job.len \in Int /\ job.code \in Nat \cup {NoCopy}
BY JobsAssumption, CountFits

(* The sum of multiples of four is one.                                    *)
LEMMA SumsOfMultiples ==
    ASSUME NEW ns \in Seq(Nat), \A i \in 1..Len(ns) : ns[i] % 4 = 0
    PROVE  Sums(ns)[Len(ns)] % 4 = 0
<1> DEFINE T == {i \in 0..Len(ns) : Sums(ns)[i] % 4 = 0}
<1>0. Len(ns) \in Nat
  OBVIOUS
<1>1. 0 \in T
  BY <1>0, SumsStep
<1>2. ASSUME NEW i \in 0..(Len(ns) - 1), i \in T
      PROVE  i + 1 \in T
  <2>1. i \in Nat /\ i + 1 \in 1..Len(ns) /\ i + 1 \in 0..Len(ns) /\ (i + 1) - 1 = i /\ i \in 0..Len(ns)
    BY <1>0
  <2>2. Sums(ns)[i + 1] = Sums(ns)[i] + ns[i + 1]
    BY <2>1, SumsStep
  <2>5. Sums(ns)[i] \in Nat /\ ns[i + 1] \in Nat
    BY <2>1, SumsStep, SMTT(30)
  <2>6. Sums(ns)[i] % 4 = 0 /\ ns[i + 1] % 4 = 0
    BY <2>1, <1>2
  <2>3. Sums(ns)[i] \in Nat /\ ns[i + 1] \in Nat /\ Sums(ns)[i] % 4 = 0 /\ ns[i + 1] % 4 = 0
    BY <2>5, <2>6
  <2>4. \A x, y \in Nat : x % 4 = 0 /\ y % 4 = 0 => (x + y) % 4 = 0
    OBVIOUS
  <2>. QED  BY <2>1, <2>2, <2>3, <2>4
<1> HIDE DEF T
<1>3. \A i \in 0..Len(ns) : i \in T
  BY <1>0, <1>1, <1>2, UpTo
<1>. QED  BY <1>0, <1>3 DEF T

(* The context and the stacks of each engine: none is larger than all      *)
(* together, which is a multiple of four.                                  *)
LEMMA Spaces ==
    ASSUME NEW e \in {"vm", "x86_32", "esp32s3"}
    PROVE  /\ Space(e) \in Seq(Nat) /\ Len(Space(e)) >= 1
           /\ Sums(Space(e)) \in [0..Len(Space(e)) -> Nat]
           /\ Sums(Space(e))[Len(Space(e))] \in Nat
           /\ Sums(Space(e))[Len(Space(e))] % 4 = 0
           /\ \A i \in 1..Len(Space(e)) :
                Sums(Space(e))[i] <= Sums(Space(e))[Len(Space(e))]
<1>1. Space(e) \in Seq(Nat) /\ Len(Space(e)) \in {2, 3}
  BY SMT DEF Space, VmSpace, X86Space, EspSpace
<1>2. \A i \in 1..Len(Space(e)) : Space(e)[i] % 4 = 0
  BY SMT DEF Space, VmSpace, X86Space, EspSpace
<1> DEFINE ns == Space(e)
<1>3. ns \in Seq(Nat) /\ Len(ns) \in Nat /\ Len(ns) >= 1
  BY <1>1
<1>4. \A i \in 1..Len(ns) : ns[i] % 4 = 0
  BY <1>2
<1>5. /\ ns \in Seq(Nat) /\ Len(ns) >= 1
      /\ Sums(ns) \in [0..Len(ns) -> Nat]
      /\ Sums(ns)[Len(ns)] \in Nat
      /\ Sums(ns)[Len(ns)] % 4 = 0
      /\ \A i \in 1..Len(ns) : Sums(ns)[i] <= Sums(ns)[Len(ns)]
  <2> HIDE DEF ns
  <2>1. Sums(ns) \in [0..Len(ns) -> Nat]
    BY <1>3, SumsStep
  <2>2. Len(ns) \in 0..Len(ns)
    BY <1>3
  <2>3. Sums(ns)[Len(ns)] % 4 = 0
    BY <1>3, <1>4, SumsOfMultiples
  <2>4. \A i \in 1..Len(ns) : i \in 0..Len(ns) /\ i <= Len(ns)
    BY <1>3
  <2>5. \A i \in 1..Len(ns) : Sums(ns)[i] <= Sums(ns)[Len(ns)]
    BY <1>3, <2>2, <2>4, SumsGrow
  <2>. QED  BY <1>3, <2>1, <2>2, <2>3, <2>5
<1>. QED  BY <1>5

(* The pieces of memory follow each other and begin at multiples of four,  *)
(* and a program needs what they take.                                     *)
LEMMA Ends ==
    ASSUME job \in Jobs
    PROVE  /\ job.base \in Nat /\ Limit \in Int
           /\ Start \in Nat /\ StackEnd \in Nat /\ VariableEnd \in Nat
           /\ WordEnd \in Nat /\ TableEnd \in Nat
           /\ Start % 4 = 0 /\ StackEnd % 4 = 0 /\ VariableEnd % 4 = 0
           /\ WordEnd % 4 = 0 /\ TableEnd % 4 = 0
           /\ job.base <= Start /\ Start <= StackEnd /\ StackEnd <= VariableEnd
           /\ VariableEnd <= WordEnd /\ WordEnd <= TableEnd
           /\ job.base + Needed(job.source, job.engine, job.base) = TableEnd
           /\ job.base + Needed(job.source, job.engine, job.base) <= Limit
                <=> job.len >= Needed(job.source, job.engine, job.base)
<1>1. /\ LegalSource(job.source) /\ job.engine \in {"vm", "x86_32", "esp32s3"}
      /\ job.base \in Nat /\ job.len \in Int
  BY JobFacts
<1> DEFINE v == job.source.variables
           w == Len(job.source.words)
           n == Len(job.source.callbacks)
           k == Sums(Space(job.engine))[Len(Space(job.engine))]
           a == m4_align(job.base)
           c == m4_align(n)
<1>2. v \in Nat /\ w \in Nat /\ n \in Nat
  BY <1>1, CountsFit
<1>3. k \in Nat /\ k % 4 = 0
  BY <1>1, Spaces
<1>4. a \in Nat /\ a % 4 = 0 /\ job.base <= a
  BY <1>1, Aligned
<1>5. c \in Nat /\ c % 4 = 0 /\ n <= c
  BY <1>2, Aligned
<1>6. /\ Start = a /\ StackEnd = a + k /\ VariableEnd = (a + k) + 4 * v
      /\ WordEnd = ((a + k) + 4 * v) + 4 * w
      /\ TableEnd = (((a + k) + 4 * v) + 4 * w) + (c + 4 * n)
      /\ Limit = job.base + job.len
      /\ Needed(job.source, job.engine, job.base)
           = (a - job.base) + k + 4 * v + 4 * w + c + 4 * n
  BY DEF Start, StackEnd, VariableEnd, WordEnd, TableEnd, Limit, Needed
<1> HIDE DEF v, w, n, k, a, c
<1>7. /\ (a + k) % 4 = 0 /\ ((a + k) + 4 * v) % 4 = 0
      /\ (((a + k) + 4 * v) + 4 * w) % 4 = 0
      /\ ((((a + k) + 4 * v) + 4 * w) + (c + 4 * n)) % 4 = 0
  BY <1>2, <1>3, <1>4, <1>5
<1>. QED  BY <1>1, <1>2, <1>3, <1>4, <1>5, <1>6, <1>7

(* What m4_unpack_binary_header decodes at the beginning of each part of   *)
(* the binary: the count that the source has, and the position behind it.  *)
LEMMA Reads ==
    ASSUME job \in Jobs, bin = Written(job.source)
    PROVE  LET s == job.source
           IN  /\ decode(0).n = s.variables /\ decode(0).next = RuntimeAt(s)
               /\ decode(RuntimeAt(s)).n = Len(s.words)
               /\ decode(RuntimeAt(s)).next = NamesAt(s)
               /\ decode(DataLengthAt(s)).n = DataLength(s)
               /\ decode(DataLengthAt(s)).next = DataAt(s)
               /\ decode(CallbackCountAt(s)).n = Len(s.callbacks)
               /\ decode(CallbackCountAt(s)).next = CallbacksAt(s)
               /\ decode(LiteralCountAt(s)).n = Len(s.literals)
               /\ decode(LiteralCountAt(s)).next = HeaderEnd(s)
<1> DEFINE s == job.source
<1>1. LegalSource(s)
  BY JobFacts
<1>2. /\ s.variables \in Number /\ Len(s.words) \in Number /\ DataLength(s) \in Number
      /\ Len(s.callbacks) \in Number /\ Len(s.literals) \in Number
  BY <1>1, CountsFit
<1>3. /\ Holds(bin, 0, encode(s.variables))
      /\ Holds(bin, RuntimeAt(s), encode(Len(s.words)))
      /\ Holds(bin, DataLengthAt(s), encode(DataLength(s)))
      /\ Holds(bin, CallbackCountAt(s), encode(Len(s.callbacks)))
      /\ Holds(bin, LiteralCountAt(s), encode(Len(s.literals)))
  BY <1>1, BinaryHolds
<1> HIDE DEF s
<1>4. decode(0).n = s.variables /\ decode(0).next = 0 + encoded_size_from_int(s.variables)
  BY <1>2, <1>3, EncodedHere
<1>5. encoded_size_from_int(s.variables) \in Nat
  BY <1>2, NumberSize
<1>6. decode(RuntimeAt(s)).n = Len(s.words) /\ decode(RuntimeAt(s)).next = NamesAt(s)
  BY <1>2, <1>3, EncodedHere DEF NamesAt
<1>7. decode(DataLengthAt(s)).n = DataLength(s) /\ decode(DataLengthAt(s)).next = DataAt(s)
  BY <1>2, <1>3, EncodedHere DEF DataAt
<1>8. /\ decode(CallbackCountAt(s)).n = Len(s.callbacks)
      /\ decode(CallbackCountAt(s)).next = CallbacksAt(s)
  BY <1>2, <1>3, EncodedHere DEF CallbacksAt
<1>9. /\ decode(LiteralCountAt(s)).n = Len(s.literals)
      /\ decode(LiteralCountAt(s)).next = HeaderEnd(s)
  BY <1>2, <1>3, EncodedHere DEF HeaderEnd
<1>10. decode(0).next = RuntimeAt(s)
  BY <1>4, <1>5 DEF RuntimeAt
<1>. QED  BY <1>4, <1>6, <1>7, <1>8, <1>9, <1>10 DEF s

(* What depends on the job alone does not change.                          *)
LEMMA SameJob ==
    ASSUME job' = job
    PROVE  /\ Start' = Start /\ Limit' = Limit /\ StackEnd' = StackEnd
           /\ VariableEnd' = VariableEnd /\ WordEnd' = WordEnd /\ TableEnd' = TableEnd
           /\ Possible' <=> Possible
           /\ Offered' = Offered
           /\ \A name, e : FirstEntry(name, e)' <=> FirstEntry(name, e)
<1>1. Start' = Start /\ Limit' = Limit
  BY DEF Start, Limit
<1>2. StackEnd' = StackEnd
  BY <1>1 DEF StackEnd
<1>3. VariableEnd' = VariableEnd
  BY <1>2 DEF VariableEnd
<1>4. WordEnd' = WordEnd
  BY <1>3 DEF WordEnd
<1>5. TableEnd' = TableEnd
  BY <1>4 DEF TableEnd
<1>6. Offered' = Offered
  BY DEF Offered
<1>7. Possible' <=> Possible
  BY <1>6 DEF Possible
<1>8. \A name, e : FirstEntry(name, e)' <=> FirstEntry(name, e)
  BY DEF FirstEntry
<1>. QED  BY <1>1, <1>2, <1>3, <1>4, <1>5, <1>6, <1>7, <1>8

(* One range more.                                                         *)
With(W, a, b) == W \cup {<<a, b>>}

(* A range at or behind the next free address overlaps none.               *)
LEMMA Adds ==
    ASSUME NEW W, NEW first, NEW last, NEW top, NEW a \in Nat, NEW b \in Nat,
           first \in Nat, last \in Int, top \in Nat,
           Apart(W, first, last, top), first <= top, top <= a, a <= b, b <= last
    PROVE  Apart(With(W, a, b), first, last, b)
<1>1. \A r \in W : /\ r[1] \in Nat /\ r[2] \in Nat /\ r[2] <= last /\ r[2] <= top
                   /\ first <= r[1] /\ r[1] <= r[2]
  BY DEF Apart
<1>2. \A r, q \in W : r = q \/ r[2] <= q[1] \/ q[2] <= r[1]
  BY DEF Apart
<1>3. <<a, b>>[1] = a /\ <<a, b>>[2] = b
  OBVIOUS
<1> DEFINE z == <<a, b>>
<1>4. z[1] = a /\ z[2] = b
  BY <1>3
<1> HIDE DEF z
<1>5. ASSUME NEW r \in W \cup {z}
      PROVE  /\ r[1] \in Nat /\ r[2] \in Nat /\ r[2] <= last /\ r[2] <= b
             /\ first <= r[1] /\ r[1] <= r[2]
  <2>1. CASE r \in W
    BY <1>1, <2>1
  <2>2. CASE r = z
    BY <1>4, <2>2
  <2>. QED  BY <1>5, <2>1, <2>2
<1>6. ASSUME NEW r \in W \cup {z}, NEW q \in W \cup {z}
      PROVE  r = q \/ r[2] <= q[1] \/ q[2] <= r[1]
  <2>1. CASE r \in W /\ q \in W
    BY <1>2, <2>1
  <2>2. CASE r \in W /\ q = z
    BY <1>1, <1>4, <2>2
  <2>3. CASE r = z /\ q \in W
    BY <1>1, <1>4, <2>3
  <2>4. CASE r = z /\ q = z
    BY <2>4
  <2>. QED  BY <1>6, <2>1, <2>2, <2>3, <2>4
<1>7. Apart(W \cup {z}, first, last, b)
  BY <1>5, <1>6 DEF Apart
<1>. QED  BY <1>7 DEF z, With

(* The invariant holds initially.                                          *)
LEMMA InitKeeps ==
    ASSUME Init
    PROVE  BinaryInv
<1> USE DEF Init, NoTables
<1>1. StateTyped
  BY DEF StateTyped, Tables, BINARY_ERRORS, Reading
<1>2. Compiled /\ Placed /\ Searched /\ Justified /\ Decoding
  BY DEF Compiled, Placed, Searched, Justified, Decoding, BINARY_ERRORS
<1>3. Restored
  BY DEF Restored, Reading
<1>4. Kept
  BY DEF Kept, Apart
<1>. QED  BY <1>1, <1>2, <1>3, <1>4 DEF BinaryInv

(* An error keeps the invariant, if the program could not be loaded.       *)
LEMMA FailKeeps ==
    ASSUME BinaryInv, stage \notin {"measure", "running"}, NEW error \in BINARY_ERRORS,
           Fail(error), ~Possible
    PROVE  BinaryInv'
<1>0. job' = job /\ wrote' = wrote /\ memory_p' = memory_p /\ stage' = error
  BY DEF Fail
<1>1. StateTyped'
  BY DEF StateTyped, BinaryInv, Fail
<1>2. Compiled' /\ Placed' /\ Searched'
  BY DEF Compiled, Placed, Searched, BinaryInv, Fail, BINARY_ERRORS
<1>3. Restored'
  BY DEF Restored, Reading, BinaryInv, Fail, BINARY_ERRORS
<1>4. Kept'
  <2>1. Apart(wrote, job.base, Limit, memory_p)
    BY DEF BinaryInv, Kept
  <2>2. stage' \notin {"measure", "carve"}
    BY <1>0 DEF BINARY_ERRORS
  <2>. QED  BY <1>0, <2>1, <2>2, SameJob DEF Kept
<1>5. Justified'
  BY <1>0, SameJob DEF Justified
<1>6. Decoding'
  BY DEF Decoding, BinaryInv, Fail, BINARY_ERRORS
<1>. QED  BY <1>1, <1>2, <1>3, <1>4, <1>5, <1>6 DEF BinaryInv

(* Compile keeps the invariant.                                            *)
LEMMA CompileKeeps ==
    ASSUME BinaryInv, Compile
    PROVE  BinaryInv'
<1>0. /\ job' = job /\ wrote' = wrote /\ wrote = {} /\ memory_p' = Start /\ stage' = "carve"
      /\ bin_p' = bin_p /\ bin_p = 0 /\ lookup' = lookup /\ tables' = tables
      /\ pc' = 0 /\ decoded' = <<>> /\ job \in Jobs /\ tables \in Tables
      /\ lookup \in [todo : Nat, array : Nat, entry : Nat]
      /\ tables.runtime_cbs = <<>> /\ bin' = Written(job.source)
      /\ bin_len' = Measured(job.source)
  BY DEF Compile, BinaryInv, Kept, StateTyped, Compiled, Decoding, Searched, Start
<1>1. StateTyped'
  <2>1. Start \in Nat
    BY <1>0, Ends
  <2>2. Len(Written(job.source)) \in Nat
    BY <1>0, JobFacts, BinaryParts
  <2>3. bin_p' \in 0..Len(bin')
    BY <1>0, <2>2
  <2>. QED  BY <1>0, <2>1, <2>3 DEF StateTyped
<1>2. Compiled'
  BY <1>0 DEF Compiled
<1>3. Placed' /\ Searched' /\ Justified' /\ Decoding'
  BY <1>0, SameJob DEF Placed, Searched, Justified, Decoding, BINARY_ERRORS
<1>4. Restored'
  BY <1>0 DEF Restored, Reading
<1>5. Kept'
  BY <1>0 DEF Kept, Apart
<1>. QED  BY <1>1, <1>2, <1>3, <1>4, <1>5 DEF BinaryInv

(* m4_bytes_remaining is negative exactly behind the end of the memory.    *)
LEMMA Remaining ==
    ASSUME job \in Jobs, NEW m \in Int
    PROVE  bytes_remaining(m) = Limit - m /\ (TooFar(m) <=> m > Limit)
  BY JobFacts DEF bytes_remaining, TooFar, Limit

(* What is not enough for a piece is not enough for the program.           *)
LEMMA NotEnough ==
    ASSUME job \in Jobs, NEW m \in Int, m > Limit, m <= TableEnd
    PROVE  ~Possible
<1>1. TableEnd > Limit
  BY Ends
<1>. QED  BY <1>1, Ends DEF Possible

(* Carve keeps the invariant.                                              *)
LEMMA CarveKeeps ==
    ASSUME BinaryInv, Carve
    PROVE  BinaryInv'
<1>0. /\ stage = "carve" /\ job \in Jobs /\ memory_p = Start /\ wrote = {} /\ bin_p = 0
      /\ bin = Written(job.source) /\ bin_len = Measured(job.source)
      /\ pc = 0 /\ decoded = <<>> /\ tables \in Tables /\ tables.runtime_cbs = <<>>
      /\ lookup \in [todo : Nat, array : Nat, entry : Nat] /\ 0 \in 0..Len(bin)
  BY DEF Carve, BinaryInv, StateTyped, Placed, Kept, Searched, Compiled, Decoding
<1> DEFINE sp == Space(job.engine)
           ends == [i \in 1..Len(sp) |-> memory_p + Sums(sp)[i]]
<1>1. /\ sp \in Seq(Nat) /\ Len(sp) \in Nat /\ Len(sp) >= 1
      /\ Sums(sp) \in [0..Len(sp) -> Nat] /\ Sums(sp)[Len(sp)] \in Nat
      /\ \A i \in 1..Len(sp) : Sums(sp)[i] <= Sums(sp)[Len(sp)]
  <2>1. job.engine \in {"vm", "x86_32", "esp32s3"}
    BY <1>0, JobFacts
  <2>2. /\ sp \in Seq(Nat) /\ Len(sp) >= 1
        /\ Sums(sp) \in [0..Len(sp) -> Nat] /\ Sums(sp)[Len(sp)] \in Nat
        /\ \A i \in 1..Len(sp) : Sums(sp)[i] <= Sums(sp)[Len(sp)]
    BY <2>1, Spaces
  <2> HIDE DEF sp
  <2>. QED  BY <2>2, LenProperties
<1>2. StackEnd = Start + Sums(sp)[Len(sp)]
  BY DEF StackEnd
<1>3. \/ (\E i \in DOMAIN ends : TooFar(ends[i])) /\ Fail("out_of_memory")
      \/ /\ ~(\E i \in DOMAIN ends : TooFar(ends[i]))
         /\ wrote' = {<<memory_p, ends[Len(ends)]>>} /\ memory_p' = m4_align(ends[Len(ends)])
         /\ stage' = "variables"
         /\ UNCHANGED <<job, bin_len, bin, bin_p, lookup, tables, pc, decoded>>
  BY DEF Carve
<1> HIDE DEF sp
<1>4. Start \in Nat /\ Limit \in Int /\ StackEnd \in Nat /\ StackEnd <= TableEnd
      /\ StackEnd % 4 = 0 /\ job.base \in Nat /\ job.base <= Start /\ Start <= StackEnd
      /\ TableEnd \in Nat
  BY <1>0, Ends
<1>5. DOMAIN ends = 1..Len(sp) /\ Len(ends) = Len(sp) /\ ends[Len(ends)] = StackEnd
      /\ Len(ends) \in DOMAIN ends
      /\ \A i \in DOMAIN ends : ends[i] \in Nat /\ ends[i] <= StackEnd
  <2>1. DOMAIN ends = 1..Len(sp) /\ Len(ends) = Len(sp)
    BY <1>1
  <2>2. \A i \in 1..Len(sp) : ends[i] = Start + Sums(sp)[i]
    BY <1>0
  <2>3. \A i \in 1..Len(sp) : Sums(sp)[i] \in Nat
    BY <1>1, SMTT(30)
  <2> HIDE DEF ends
  <2>4. ends[Len(sp)] = StackEnd
    BY <1>1, <1>2, <2>2
  <2>5. \A i \in 1..Len(sp) : ends[i] \in Nat /\ ends[i] <= StackEnd
    BY <1>1, <1>2, <1>4, <2>2, <2>3, SMTT(30)
  <2>. QED  BY <1>1, <2>1, <2>4, <2>5
<1> HIDE DEF ends
<1>6. CASE (\E i \in DOMAIN ends : TooFar(ends[i])) /\ Fail("out_of_memory")
  <2>1. PICK i \in DOMAIN ends : TooFar(ends[i])
    BY <1>6
  <2>2. ends[i] \in Int /\ ends[i] > Limit /\ ends[i] <= TableEnd
    <3>1. ends[i] \in Int /\ ends[i] <= StackEnd
      BY <1>5
    <3>2. ends[i] > Limit
      BY <1>0, <2>1, <3>1, Remaining
    <3>. QED  BY <1>4, <3>1, <3>2
  <2>3. ~Possible
    BY <1>0, <2>2, NotEnough
  <2>4. Fail("out_of_memory") /\ "out_of_memory" \in BINARY_ERRORS
        /\ stage \notin {"measure", "running"}
    BY <1>0, <1>6 DEF BINARY_ERRORS
  <2>. QED  BY <2>3, <2>4, FailKeeps
<1>7. CASE /\ ~(\E i \in DOMAIN ends : TooFar(ends[i]))
           /\ wrote' = {<<memory_p, ends[Len(ends)]>>} /\ memory_p' = m4_align(ends[Len(ends)])
           /\ stage' = "variables"
           /\ UNCHANGED <<job, bin_len, bin, bin_p, lookup, tables, pc, decoded>>
  <2>1. StackEnd <= Limit
    <3>1. ~TooFar(StackEnd)
      BY <1>5, <1>7
    <3>. QED  BY <1>0, <1>4, <3>1, Remaining
  <2>2. memory_p' = StackEnd
    BY <1>4, <1>5, <1>7, AlignedStays
  <2>3. Apart(wrote', job.base, Limit, StackEnd)
    <3>1. Apart({}, job.base, Limit, Start)
      BY DEF Apart
    <3>2. Apart(wrote, job.base, Limit, Start) /\ wrote' = wrote \cup {<<Start, StackEnd>>}
      BY <1>0, <1>5, <1>7, <3>1
    <3>4. /\ Start \in Nat /\ StackEnd \in Nat /\ job.base \in Nat /\ Limit \in Int
          /\ job.base <= Start /\ Start <= Start /\ Start <= StackEnd /\ StackEnd <= Limit
          /\ Apart(wrote, job.base, Limit, Start)
      BY <1>4, <2>1, <3>2
    <3>3. Apart(With(wrote, Start, StackEnd), job.base, Limit, StackEnd)
      BY <3>4, Adds, Zenon
    <3>. QED  BY <3>2, <3>3 DEF With
  <2>4. StateTyped'
    BY <1>0, <1>4, <1>7, <2>2 DEF StateTyped, Reading
  <2>5. Compiled' /\ Searched' /\ Justified' /\ Decoding'
    BY <1>0, <1>7 DEF Compiled, Searched, Justified, Decoding, BINARY_ERRORS
  <2>6. Placed'
    BY <1>0, <1>7, <2>1, <2>2, SameJob DEF Placed
  <2>7. Restored'
    BY <1>0, <1>7 DEF Restored, Reading
  <2>8. Kept'
    BY <1>7, <2>2, <2>3, SameJob DEF Kept
  <2>. QED  BY <2>4, <2>5, <2>6, <2>7, <2>8 DEF BinaryInv
<1>. QED  BY <1>3, <1>6, <1>7

(* Variables keeps the invariant.                                          *)
LEMMA VariablesKeeps ==
    ASSUME BinaryInv, Variables
    PROVE  BinaryInv'
<1>0. /\ stage = "variables" /\ job \in Jobs /\ memory_p = StackEnd /\ bin_p = 0
      /\ bin = Written(job.source) /\ bin_len = Measured(job.source)
      /\ pc = 0 /\ decoded = <<>> /\ tables \in Tables /\ tables.runtime_cbs = <<>>
      /\ lookup \in [todo : Nat, array : Nat, entry : Nat] /\ StackEnd <= Limit
      /\ Apart(wrote, job.base, Limit, StackEnd)
  BY DEF Variables, BinaryInv, StateTyped, Placed, Kept, Searched, Compiled, Decoding
<1> DEFINE s == job.source
           end == StackEnd + s.variables * 4
<1>1. decode(bin_p).n = s.variables /\ decode(bin_p).next = RuntimeAt(s)
  BY <1>0, Reads
<1>2. LegalSource(s) /\ s.variables \in Nat
  BY <1>0, JobFacts, CountsFit
<1>3. \/ TooFar(end) /\ Fail("out_of_memory")
      \/ /\ ~TooFar(end)
         /\ tables' = [tables EXCEPT !.variables = memory_p]
         /\ wrote' = wrote \cup {<<memory_p, end>>}
         /\ memory_p' = end /\ bin_p' = RuntimeAt(s) /\ stage' = "runtime"
         /\ UNCHANGED <<job, bin_len, bin, lookup, pc, decoded>>
  BY <1>0, <1>1 DEF Variables
<1>4. /\ end = VariableEnd /\ VariableEnd \in Nat /\ VariableEnd <= TableEnd
      /\ StackEnd \in Nat /\ StackEnd <= VariableEnd /\ Limit \in Int
      /\ job.base \in Nat /\ job.base <= StackEnd /\ TableEnd \in Nat
  <2>1. end = VariableEnd
    BY <1>0, <1>2, Ends DEF VariableEnd
  <2> HIDE DEF end
  <2>. QED  BY <1>0, <2>1, Ends
<1> HIDE DEF end
<1>5. CASE TooFar(end) /\ Fail("out_of_memory")
  <2>1. end > Limit
    BY <1>0, <1>4, <1>5, Remaining
  <2>2. ~Possible
    BY <1>0, <1>4, <2>1, NotEnough
  <2>3. "out_of_memory" \in BINARY_ERRORS /\ stage \notin {"measure", "running"}
    BY <1>0 DEF BINARY_ERRORS
  <2>. QED  BY <1>5, <2>2, <2>3, FailKeeps
<1>6. CASE /\ ~TooFar(end)
           /\ tables' = [tables EXCEPT !.variables = memory_p]
           /\ wrote' = wrote \cup {<<memory_p, end>>}
           /\ memory_p' = end /\ bin_p' = RuntimeAt(s) /\ stage' = "runtime"
           /\ UNCHANGED <<job, bin_len, bin, lookup, pc, decoded>>
  <2>1. VariableEnd <= Limit
    BY <1>0, <1>4, <1>6, Remaining
  <2>2. Apart(wrote', job.base, Limit, VariableEnd)
    <3>1. wrote' = wrote \cup {<<StackEnd, VariableEnd>>}
      BY <1>0, <1>4, <1>6
    <3>3. /\ StackEnd \in Nat /\ VariableEnd \in Nat /\ job.base \in Nat /\ Limit \in Int
          /\ job.base <= StackEnd /\ StackEnd <= StackEnd /\ StackEnd <= VariableEnd
          /\ VariableEnd <= Limit /\ Apart(wrote, job.base, Limit, StackEnd)
      BY <1>0, <1>4, <2>1
    <3>2. Apart(With(wrote, StackEnd, VariableEnd), job.base, Limit, VariableEnd)
      BY <3>3, Adds, Zenon
    <3>. QED  BY <3>1, <3>2 DEF With
  <2>3. RuntimeAt(s) \in 0..Len(bin)
    <3>1. Holds(bin, RuntimeAt(s), encode(Len(s.words)))
      BY <1>0, <1>2, BinaryHolds
    <3>2. encode(Len(s.words)) \in Seq(Bytes) /\ bin \in Seq(Bytes)
      BY <1>0, <1>2, CountsFit, EncodedLength, BinaryParts
    <3>3. Len(encode(Len(s.words))) \in Nat /\ Len(bin) \in Nat
      BY <3>2
    <3>. QED  BY <3>1, <3>3 DEF Holds
  <2>4. tables' \in Tables /\ tables'.variables = StackEnd /\ tables'.runtime_cbs = <<>>
    BY <1>0, <1>4, <1>6 DEF Tables
  <2>5. StateTyped'
    BY <1>0, <1>4, <1>6, <2>3, <2>4 DEF StateTyped, Reading
  <2>6. Compiled' /\ Searched' /\ Justified' /\ Decoding'
    BY <1>0, <1>6, <2>4 DEF Compiled, Searched, Justified, Decoding, BINARY_ERRORS
  <2>7. Placed'
    BY <1>0, <1>4, <1>6, <2>1, SameJob DEF Placed
  <2>8. Restored'
    BY <1>0, <1>6, <2>4, SameJob DEF Restored, Reading
  <2>9. Kept'
    BY <1>4, <1>6, <2>2, SameJob DEF Kept
  <2>. QED  BY <2>5, <2>6, <2>7, <2>8, <2>9 DEF BinaryInv
<1>. QED  BY <1>3, <1>5, <1>6

(* RuntimeWords keeps the invariant.                                       *)
LEMMA RuntimeWordsKeeps ==
    ASSUME BinaryInv, RuntimeWords
    PROVE  BinaryInv'
<1>0. /\ stage = "runtime" /\ job \in Jobs /\ memory_p = VariableEnd
      /\ bin_p = RuntimeAt(job.source)
      /\ bin = Written(job.source) /\ bin_len = Measured(job.source)
      /\ pc = 0 /\ decoded = <<>> /\ tables \in Tables /\ tables.runtime_cbs = <<>>
      /\ tables.variables = StackEnd /\ VariableEnd <= Limit
      /\ Apart(wrote, job.base, Limit, VariableEnd)
  BY DEF RuntimeWords, BinaryInv, StateTyped, Placed, Kept, Searched, Compiled, Decoding,
         Restored, Reading
<1> DEFINE s == job.source
           n == Len(s.words)
<1>1. decode(bin_p).n = n /\ decode(bin_p).next = NamesAt(s)
  BY <1>0, Reads
<1>2. /\ LegalSource(s) /\ n \in Nat /\ NamesAt(s) \in Nat /\ NamesAt(s) <= Len(bin)
      /\ job.arrays \in Seq(Seq(Names))
  <2>1. LegalSource(s) /\ job.arrays \in Seq(Seq(Names))
    BY <1>0, JobFacts
  <2>2. n \in Nat /\ NamesAt(s) \in Nat /\ DataLengthAt(s) \in Nat
    BY <2>1, CountsFit, PositionsAre
  <2>3. Holds(Written(s), NamesAt(s), FlattenSeq(WordTexts(s)))
    BY <2>1, WordsWritten, Flattened, HeaderParts, HeaderHeld
  <2>4. Len(FlattenSeq(WordTexts(s))) \in Nat /\ Len(Written(s)) \in Nat
    BY <2>1, WordsWritten, Flattened, BinaryParts, LenProperties
  <2>5. NamesAt(s) <= Len(Written(s))
    BY <2>2, <2>3, <2>4 DEF Holds
  <2>. QED  BY <1>0, <2>1, <2>2, <2>5
<1>3. \/ (n > 0 /\ job.arrays = <<>>) /\ Fail("runtime_word_missing")
      \/ bytes_remaining(memory_p) < n * 4 /\ Fail("out_of_memory")
      \/ /\ ~(n > 0 /\ job.arrays = <<>>)
         /\ ~(bytes_remaining(memory_p) < n * 4)
         /\ lookup' = [todo |-> n, array |-> 1, entry |-> 1]
         /\ bin_p' = NamesAt(s) /\ stage' = "lookup"
         /\ UNCHANGED <<job, bin_len, bin, memory_p, tables, wrote, pc, decoded>>
  BY <1>1 DEF RuntimeWords
<1>4. bytes_remaining(memory_p) = Limit - VariableEnd
  BY <1>0, Ends, Remaining
<1>5. /\ WordEnd = VariableEnd + 4 * n /\ WordEnd <= TableEnd /\ Limit \in Int
      /\ VariableEnd \in Nat /\ WordEnd \in Nat /\ TableEnd \in Nat
  BY <1>0, Ends DEF WordEnd
<1>6. CASE (n > 0 /\ job.arrays = <<>>) /\ Fail("runtime_word_missing")
  <2>1. Offered = {}
    BY <1>6 DEF Offered
  <2>2. 1 \in DOMAIN s.words
    BY <1>2, <1>6 DEF LegalSource
  <2>3. ~Possible
    BY <2>1, <2>2 DEF Possible
  <2>4. "runtime_word_missing" \in BINARY_ERRORS /\ stage \notin {"measure", "running"}
    BY <1>0 DEF BINARY_ERRORS
  <2>. QED  BY <1>6, <2>3, <2>4, FailKeeps
<1>7. CASE bytes_remaining(memory_p) < n * 4 /\ Fail("out_of_memory")
  <2> HIDE DEF n
  <2>1. WordEnd > Limit
    BY <1>2, <1>4, <1>5, <1>7
  <2>2. ~Possible
    BY <1>0, <1>5, <2>1, NotEnough
  <2>3. "out_of_memory" \in BINARY_ERRORS /\ stage \notin {"measure", "running"}
    BY <1>0 DEF BINARY_ERRORS
  <2>. QED  BY <1>7, <2>2, <2>3, FailKeeps
<1>8. CASE /\ ~(n > 0 /\ job.arrays = <<>>)
           /\ ~(bytes_remaining(memory_p) < n * 4)
           /\ lookup' = [todo |-> n, array |-> 1, entry |-> 1]
           /\ bin_p' = NamesAt(s) /\ stage' = "lookup"
           /\ UNCHANGED <<job, bin_len, bin, memory_p, tables, wrote, pc, decoded>>
  <2> DEFINE a == Len(job.arrays)
  <2>0. /\ lookup'.todo = n /\ lookup'.array = 1 /\ lookup'.entry = 1
        /\ lookup' \in [todo : Nat, array : Nat, entry : Nat]
    BY <1>2, <1>8
  <2>1. WordEnd <= Limit
    <3> HIDE DEF n
    <3>. QED  BY <1>2, <1>4, <1>5, <1>8
  <2>2. StateTyped'
    <3>1. NamesAt(s) \in 0..Len(bin)
      BY <1>0, <1>2, JobFacts, BinaryParts
    <3>. QED  BY <1>0, <1>5, <1>8, <2>0, <3>1 DEF StateTyped, Reading
  <2>3. Compiled' /\ Justified' /\ Decoding'
    BY <1>0, <1>8 DEF Compiled, Justified, Decoding, BINARY_ERRORS
  <2>4. Found' = 0
    <3>1. Found' = n - n
      BY <1>8, <2>0 DEF Found
    <3> HIDE DEF n
    <3>. QED  BY <1>2, <3>1
  <2>5. Placed'
    <3>1. WordSums(s)[0] = 0
      <4>1. Lengths(WordTexts(s)) \in Seq(Nat)
        BY <1>2, WordsWritten, LengthsAre
      <4>. QED  BY <4>1, SumsStep DEF WordSums
    <3>2. lookup'.todo <= Len(s.words)
      BY <1>2, <2>0
    <3>3. /\ bin_p' = NamesAt(s) + WordSums(s)[Found']
          /\ memory_p' = VariableEnd + 4 * Found'
      BY <1>0, <1>2, <1>5, <1>8, <2>4, <3>1
    <3>. QED  BY <1>8, <2>1, <3>2, <3>3, SameJob DEF Placed
  <2>6. Searched'
    <3>1. lookup'.todo <= Len(s.words) /\ Len(tables.runtime_cbs) = 0 /\ 1..0 = {}
      BY <1>0, <1>2, <2>0
    <3>2. n > 0 => /\ 1 \in 1..Len(job.arrays) /\ 1 \in 1..(Len(job.arrays[1]) + 1)
                   /\ 1..(1 - 1) = {}
      <4>1. n > 0 => Len(job.arrays) \in Nat /\ Len(job.arrays) # 0
        BY <1>2, <1>8, EmptySeq, LenProperties
      <4>2. n > 0 => 1 \in 1..Len(job.arrays)
        BY <4>1
      <4>3. n > 0 => Len(job.arrays[1]) \in Nat
        BY <1>2, <4>2, ElementOfSeq, LenProperties
      <4>. QED  BY <4>2, <4>3
    <3>. QED  BY <1>8, <2>0, <2>4, <3>1, <3>2 DEF Searched
  <2>7. Restored'
    BY <1>0, <1>8, SameJob DEF Restored, Reading
  <2>8. Kept'
    BY <1>0, <1>8, SameJob DEF Kept
  <2>. QED  BY <2>2, <2>3, <2>5, <2>6, <2>7, <2>8 DEF BinaryInv
<1>. QED  BY <1>3, <1>6, <1>7, <1>8

(* Data keeps the invariant.                                               *)
LEMMA DataKeeps ==
    ASSUME BinaryInv, Data
    PROVE  BinaryInv'
<1>0. /\ stage = "lookup" /\ job \in Jobs /\ lookup.todo = 0
      /\ bin_p = NamesAt(job.source) + WordSums(job.source)[Found]
      /\ memory_p = VariableEnd + 4 * Found /\ WordEnd <= Limit
      /\ bin = Written(job.source) /\ bin_len = Measured(job.source)
      /\ pc = 0 /\ decoded = <<>> /\ tables \in Tables
      /\ tables.variables = StackEnd /\ lookup \in [todo : Nat, array : Nat, entry : Nat]
      /\ Apart(wrote, job.base, Limit, memory_p) /\ memory_p \in Nat
  BY DEF Data, BinaryInv, StateTyped, Placed, Kept, Searched, Compiled, Decoding,
         Restored, Reading
<1> DEFINE s == job.source
<1>1. LegalSource(s) /\ Len(s.words) \in Nat
  BY <1>0, JobFacts, CountsFit
<1>2. Found = Len(s.words)
  BY <1>0, <1>1 DEF Found
<1>3. bin_p = DataLengthAt(s)
  BY <1>0, <1>1, <1>2, WordsWritten DEF DataLengthAt, WordSums
<1>4. memory_p = WordEnd
  BY <1>0, <1>2 DEF WordEnd
<1>5. /\ tables' = [tables EXCEPT !.data_start = DataAt(s)]
      /\ bin_p' = DataAt(s) + DataLength(s)
      /\ stage' = "callbacks"
      /\ UNCHANGED <<job, bin_len, bin, memory_p, lookup, wrote, pc, decoded>>
  BY <1>0, <1>3, Reads DEF Data
<1>6. bin_p' = CallbackCountAt(s)
  BY <1>5 DEF CallbackCountAt
<1>7. /\ tables' \in Tables /\ tables'.variables = StackEnd /\ tables'.data_start = DataAt(s)
      /\ tables'.runtime_cbs = tables.runtime_cbs
  <2>1. DataAt(s) \in Nat
    BY <1>1, PositionsAre
  <2>. QED  BY <1>0, <1>5, <2>1 DEF Tables
<1>8. StateTyped'
  <2>1. Holds(bin, CallbackCountAt(s), encode(Len(s.callbacks)))
    BY <1>0, <1>1, BinaryHolds
  <2>2. Len(encode(Len(s.callbacks))) \in Nat /\ Len(bin) \in Nat
    BY <1>0, <1>1, CountsFit, EncodedLength, BinaryParts, LenProperties
  <2>3. CallbackCountAt(s) \in 0..Len(bin)
    BY <2>1, <2>2 DEF Holds
  <2>. QED  BY <1>0, <1>5, <1>6, <1>7, <2>3 DEF StateTyped, Reading
<1>9. Compiled' /\ Justified' /\ Decoding'
  BY <1>0, <1>5 DEF Compiled, Justified, Decoding, BINARY_ERRORS
<1>10. Placed'
  BY <1>0, <1>4, <1>5, <1>6, SameJob DEF Placed
<1>11. Searched'
  <2>1. Found' = Found
    BY <1>5 DEF Found
  <2>2. /\ lookup.todo <= Len(s.words) /\ Len(tables.runtime_cbs) = Found
        /\ \A i \in 1..Found : /\ FirstEntry(lower(s.words[i]), tables.runtime_cbs[i])
                               /\ lower(s.words[i]) \in Offered
    BY <1>0 DEF BinaryInv, Searched
  <2>3. \A i \in 1..Found : /\ FirstEntry(lower(s.words[i]), tables.runtime_cbs[i])'
                            /\ lower(s.words[i]) \in Offered'
    <3>1. \A i : FirstEntry(lower(s.words[i]), tables.runtime_cbs[i])'
                 <=> FirstEntry(lower(s.words[i]), tables.runtime_cbs[i])
      BY <1>5, <1>7 DEF FirstEntry
    <3>. QED  BY <1>5, <2>2, <3>1, SameJob
  <2>4. stage' = "callbacks" /\ lookup' = lookup /\ job' = job
    BY <1>5
  <2>. QED  BY <1>0, <1>7, <2>1, <2>2, <2>3, <2>4 DEF Searched
<1>12. Restored'
  BY <1>5, <1>7, SameJob DEF Restored, Reading
<1>13. Kept'
  BY <1>0, <1>5, SameJob DEF Kept
<1>. QED  BY <1>8, <1>9, <1>10, <1>11, <1>12, <1>13 DEF BinaryInv

(* Once all names are found, they stay found.                              *)
LEMMA FoundStays ==
    ASSUME Searched, stage \in {"callbacks", "literals", "enter", "running"},
           stage' \in {"callbacks", "literals", "enter", "running"},
           job' = job, lookup' = lookup, tables'.runtime_cbs = tables.runtime_cbs
    PROVE  Searched'
<1> DEFINE s == job.source
<1>1. Found' = Found
  BY DEF Found
<1>2. /\ lookup.todo = 0 /\ lookup.todo <= Len(s.words) /\ Len(tables.runtime_cbs) = Found
      /\ \A i \in 1..Found : /\ FirstEntry(lower(s.words[i]), tables.runtime_cbs[i])
                             /\ lower(s.words[i]) \in Offered
  BY DEF Searched
<1>3. \A i \in 1..Found : /\ FirstEntry(lower(s.words[i]), tables.runtime_cbs[i])'
                          /\ lower(s.words[i]) \in Offered'
  <2>1. \A i : FirstEntry(lower(s.words[i]), tables.runtime_cbs[i])'
               <=> FirstEntry(lower(s.words[i]), tables.runtime_cbs[i])
    BY DEF FirstEntry
  <2>. QED  BY <1>2, <2>1, SameJob
<1>. QED  BY <1>1, <1>2, <1>3 DEF Searched

(* Literals keeps the invariant.                                           *)
LEMMA LiteralsKeeps ==
    ASSUME BinaryInv, Literals
    PROVE  BinaryInv'
<1> DEFINE s == job.source
           n == Len(s.callbacks)
<1>0. /\ stage = "literals" /\ job \in Jobs
      /\ bin_p = LiteralCountAt(s)
      /\ memory_p = TableEnd /\ TableEnd <= Limit /\ Len(s.callbacks) <= job.slots
      /\ bin = Written(s) /\ bin_len = Measured(s)
      /\ pc = 0 /\ decoded = <<>> /\ tables \in Tables /\ lookup.todo = 0
      /\ tables.variables = StackEnd /\ lookup \in [todo : Nat, array : Nat, entry : Nat]
      /\ tables.data_start = DataAt(s)
      /\ tables.callback_info = [i \in 1..n |-> params_info(s.callbacks[i])]
      /\ tables.callback_words = [i \in 1..n |-> s.callbacks[i].position]
      /\ Apart(wrote, job.base, Limit, memory_p) /\ memory_p \in Nat
  BY DEF Literals, BinaryInv, StateTyped, Placed, Kept, Searched, Compiled, Decoding,
         Restored, Reading
<1>1. /\ LegalSource(s) /\ n \in Nat
      /\ \A i \in 1..n : s.callbacks[i].position \in Nat
  BY <1>0, JobFacts, CountsFit
<1>2. /\ decode(bin_p).n = Len(s.literals) /\ decode(bin_p).next = HeaderEnd(s)
      /\ LiteralsAt(s) \in Nat /\ code_offset(s) = LiteralsAt(s) + 4 * Len(s.literals)
  BY <1>0, <1>1, Reads, PositionsAre
<1> DEFINE words == [i \in 1..n |-> code_offset(s) + s.callbacks[i].position]
<1>3. /\ tables' = [tables EXCEPT !.literals = LiteralsAt(s),
                        !.callback_words = [i \in DOMAIN @ |-> code_offset(s) + @[i]],
                        !.program_start = code_offset(s)]
      /\ bin_p' = code_offset(s) /\ stage' = "enter"
      /\ UNCHANGED <<job, bin_len, bin, memory_p, lookup, wrote, pc, decoded>>
  <2>1. m4_align(HeaderEnd(s)) = LiteralsAt(s)
    BY DEF LiteralsAt
  <2>. QED  BY <1>2, <2>1 DEF Literals
<1>4. /\ tables'.literals = LiteralsAt(s) /\ tables'.program_start = code_offset(s)
      /\ tables'.variables = tables.variables /\ tables'.data_start = tables.data_start
      /\ tables'.runtime_cbs = tables.runtime_cbs
      /\ tables'.callback_info = tables.callback_info
      /\ tables'.room = tables.room
      /\ tables'.callback_words = [i \in DOMAIN tables.callback_words |->
                                      code_offset(s) + tables.callback_words[i]]
  <2> DEFINE co == code_offset(s)
             la == LiteralsAt(s)
             w == tables.callback_words
             x == [i \in DOMAIN w |-> co + w[i]]
  <2>1. tables' = [tables EXCEPT !.literals = la, !.callback_words = x,
                                 !.program_start = co]
    BY <1>3
  <2>2. tables \in Tables
    BY <1>0
  <2> HIDE DEF co, la, x, w
  <2>3. /\ tables'.literals = la /\ tables'.program_start = co
        /\ tables'.variables = tables.variables /\ tables'.data_start = tables.data_start
        /\ tables'.runtime_cbs = tables.runtime_cbs
        /\ tables'.callback_info = tables.callback_info
        /\ tables'.room = tables.room
        /\ tables'.callback_words = x
    BY <2>1, <2>2 DEF Tables
  <2>. QED  BY <2>3 DEF co, la, x, w
<1>5. tables'.callback_words = words
  <2>1. DOMAIN tables.callback_words = 1..n
    BY <1>0
  <2>2. \A i \in 1..n : tables.callback_words[i] = s.callbacks[i].position
    BY <1>0
  <2>. QED  BY <1>4, <2>1, <2>2
<1>6. code_offset(s) \in 0..Len(bin)
  BY <1>0, <1>1, BinaryParts, LenProperties
<1>7. tables' \in Tables
  <2>1. words \in Seq(Int)
    BY <1>1, <1>6
  <2>2. code_offset(s) \in Nat
    BY <1>1, BinaryParts
  <2> HIDE DEF words
  <2>3. tables' = [variables |-> tables'.variables, runtime_cbs |-> tables'.runtime_cbs,
                   data_start |-> tables'.data_start,
                   callback_info |-> tables'.callback_info,
                   callback_words |-> tables'.callback_words,
                   literals |-> tables'.literals, program_start |-> tables'.program_start,
                   room |-> tables'.room]
    BY <1>0, <1>3 DEF Tables
  <2>4. /\ tables'.variables \in Nat /\ tables'.runtime_cbs \in Seq(Nat \X Nat)
        /\ tables'.data_start \in Nat /\ tables'.callback_info \in Seq(Int)
        /\ tables'.callback_words \in Seq(Int) /\ tables'.literals \in Nat
        /\ tables'.program_start \in Nat /\ tables'.room \in Int
    BY <1>0, <1>2, <1>4, <1>5, <2>1, <2>2 DEF Tables
  <2>. QED  BY <2>3, <2>4 DEF Tables
<1> HIDE DEF words
<1>8. StateTyped'
  BY <1>0, <1>3, <1>6, <1>7 DEF StateTyped, Reading
<1>9. Compiled' /\ Justified' /\ Decoding'
  BY <1>0, <1>3 DEF Compiled, Justified, Decoding, BINARY_ERRORS
<1>10. Placed'
  BY <1>0, <1>3, SameJob DEF Placed
<1>11. Searched'
  BY <1>0, <1>3, <1>4, FoundStays DEF BinaryInv
<1>12. Restored'
  BY <1>0, <1>3, <1>4, <1>5, SameJob DEF Restored, Reading, words
<1>13. Kept'
  BY <1>0, <1>3, SameJob DEF Kept
<1>. QED  BY <1>8, <1>9, <1>10, <1>11, <1>12, <1>13 DEF BinaryInv

(* Enter keeps the invariant.                                              *)
LEMMA EnterKeeps ==
    ASSUME BinaryInv, Enter
    PROVE  BinaryInv'
<1> DEFINE s == job.source
           n == Len(s.callbacks)
           co == code_offset(s)
<1>0. /\ stage = "enter" /\ job \in Jobs
      /\ memory_p = TableEnd /\ TableEnd <= Limit /\ Len(s.callbacks) <= job.slots
      /\ bin = Written(s) /\ bin_len = Measured(s) /\ bin_p \in 0..Len(bin)
      /\ pc = 0 /\ decoded = <<>> /\ tables \in Tables /\ lookup.todo = 0
      /\ tables.variables = StackEnd /\ lookup \in [todo : Nat, array : Nat, entry : Nat]
      /\ tables.data_start = DataAt(s) /\ tables.literals = LiteralsAt(s)
      /\ tables.callback_info = [i \in 1..n |-> params_info(s.callbacks[i])]
      /\ tables.callback_words = [i \in 1..n |-> co + s.callbacks[i].position]
      /\ tables.program_start = co
      /\ Apart(wrote, job.base, Limit, memory_p) /\ memory_p \in Nat
  BY DEF Enter, BinaryInv, StateTyped, Placed, Kept, Searched, Compiled, Decoding,
         Restored, Reading
<1>1. /\ LegalSource(s) /\ n \in Nat /\ job.code \in Nat \cup {NoCopy} /\ co \in Nat
      /\ \A i \in 1..n : s.callbacks[i].position \in Nat
  BY <1>0, JobFacts, CountsFit, BinaryParts
<1> DEFINE words == IF job.code = NoCopy \/ job.engine = "vm" THEN VmWords ELSE NativeWords
           base == IF job.code = NoCopy \/ job.engine = "vm" THEN co ELSE job.code
           first == IF job.code = NoCopy THEN tables.program_start ELSE job.code
           rest == bytes_remaining(memory_p)
<1>2. /\ tables' = [tables EXCEPT !.callback_words = words, !.program_start = first,
                                  !.room = rest]
      /\ pc' = co /\ stage' = "running"
      /\ UNCHANGED <<job, bin_len, bin, bin_p, memory_p, lookup, wrote, decoded>>
  BY <1>0 DEF Enter
<1>3. rest = Limit - TableEnd /\ rest \in Int
  <2>1. TableEnd \in Int /\ Limit \in Int
    BY <1>0, Ends
  <2>. QED  BY <1>0, <2>1, Remaining
<1>4. words = [i \in 1..n |-> base + s.callbacks[i].position]
  <2> DEFINE w == tables.callback_words
  <2>1. DOMAIN w = 1..n /\ \A i \in 1..n : w[i] = co + s.callbacks[i].position
    BY <1>0
  <2>2. w = [i \in 1..n |-> co + s.callbacks[i].position]
    BY <1>0
  <2> HIDE DEF w, n, co
  <2>3. CASE job.code = NoCopy \/ job.engine = "vm"
    BY <2>2, <2>3 DEF VmWords, w
  <2>4. CASE ~(job.code = NoCopy \/ job.engine = "vm")
    <3>1. NativeWords = [i \in DOMAIN w |-> job.code + (w[i] - co)]
      BY <1>0 DEF NativeWords, w
    <3>2. \A i \in 1..n : job.code + (w[i] - co) = job.code + s.callbacks[i].position
      <4>1. job.code \in Nat
        BY <1>1, <2>4
      <4>. QED  BY <1>1, <2>1, <4>1
    <3>3. NativeWords = [i \in 1..n |-> job.code + s.callbacks[i].position]
      BY <2>1, <3>1, <3>2
    <3>. QED  BY <2>4, <3>3
  <2>. QED  BY <2>3, <2>4
<1>5. base \in Int /\ first \in Nat
  BY <1>0, <1>1 DEF NoCopy
<1>6. words \in Seq(Int)
  <2>1. [i \in 1..n |-> base + s.callbacks[i].position] \in Seq(Int)
    <3> HIDE DEF base, n
    <3>. QED  BY <1>1, <1>5
  <2> HIDE DEF words
  <2>. QED  BY <1>4, <2>1
<1>7. first = IF job.code = NoCopy THEN co ELSE job.code
  BY <1>0
<1>8. /\ tables'.callback_words = words /\ tables'.program_start = first /\ tables'.room = rest
      /\ tables'.variables = tables.variables /\ tables'.data_start = tables.data_start
      /\ tables'.runtime_cbs = tables.runtime_cbs /\ tables'.literals = tables.literals
      /\ tables'.callback_info = tables.callback_info
      /\ tables' \in Tables
  <2> HIDE DEF words, first, rest
  <2>. QED  BY <1>0, <1>2, <1>3, <1>5, <1>6 DEF Tables
<1>9. stage' = "running" /\ job' = job /\ lookup' = lookup /\ pc' = co /\ decoded' = <<>>
      /\ bin' = bin /\ bin_len' = bin_len /\ bin_p' = bin_p /\ memory_p' = memory_p
      /\ wrote' = wrote
  BY <1>0, <1>2
<1>10. StateTyped'
  BY <1>0, <1>8, <1>9 DEF StateTyped, Reading
<1>11. Compiled' /\ Justified'
  BY <1>0, <1>9 DEF Compiled, Justified, BINARY_ERRORS
<1>12. Placed'
  BY <1>0, <1>9, SameJob DEF Placed
<1>13. Searched'
  BY <1>0, <1>8, <1>9, FoundStays DEF BinaryInv
<1>14. Restored'
  <2>1. /\ tables'.variables = StackEnd' /\ tables'.data_start = DataAt(s)
        /\ tables'.callback_info = [i \in 1..n |-> params_info(s.callbacks[i])]
        /\ tables'.literals = LiteralsAt(s)
        /\ tables'.callback_words = [i \in 1..n |-> base + s.callbacks[i].position]
        /\ tables'.program_start = IF job.code = NoCopy THEN co ELSE job.code
        /\ tables'.room = Limit' - TableEnd'
    <3> HIDE DEF base, words, first, rest, n, co
    <3>. QED  BY <1>0, <1>3, <1>4, <1>7, <1>8, <1>9, SameJob
  <2>. QED  BY <1>9, <2>1 DEF Restored, Reading
<1>15. Kept'
  BY <1>0, <1>9, SameJob DEF Kept
<1>16. Decoding'
  <2>1. s.code \in Seq(Fragments) /\ Len(s.code) \in Nat /\ 0 \in 0..Len(s.code)
    BY <1>1, LenProperties DEF LegalSource
  <2>2. CodeSums(s)[0] = 0
    BY <1>1, CodeWritten, LengthsAre, SumsStep DEF CodeSums
  <2>3. Instructions(s.code)[0] = <<>>
    BY <2>1, InstructionsStep
  <2> DEFINE F == Instructions(s.code)[0]
  <2>4. F = <<>> /\ Len(<<>>) = 0 /\ 1..0 = {}
    BY <2>3
  <2>5. decoded' = [i \in 1..Len(decoded') |-> Ran(F[i])] /\ Len(decoded') = Len(F)
    BY <1>9, <2>4
  <2>6. pc' = co + CodeSums(s)[0]
    BY <1>1, <1>9, <2>2
  <2>. QED  BY <1>9, <2>1, <2>5, <2>6 DEF Decoding
<1>. QED  BY <1>10, <1>11, <1>12, <1>13, <1>14, <1>15, <1>16 DEF BinaryInv

(* What a reader finds where a callback was written: the byte of           *)
(* information, the position of the word, and the next callback.           *)
LEMMA CallbackHere ==
    ASSUME job \in Jobs, bin = Written(job.source),
           NEW i \in 1..Len(job.source.callbacks)
    PROVE  LET s == job.source
               p == CallbacksAt(s) + CallbackSums(s)[i - 1]
           IN  /\ p \in Nat /\ Byte(p) = params_info(s.callbacks[i])
               /\ decode(p + 1).n = s.callbacks[i].position
               /\ decode(p + 1).next = CallbacksAt(s) + CallbackSums(s)[i]
<1> DEFINE s == job.source
           p == CallbacksAt(s) + CallbackSums(s)[i - 1]
           info == params_info(s.callbacks[i])
           pos == s.callbacks[i].position
<1>1. LegalSource(s)
  BY JobFacts
<1>2. /\ info \in Bytes /\ pos \in Number /\ CallbacksAt(s) \in Nat
      /\ i \in 1..Len(s.callbacks) /\ Len(s.callbacks) \in Nat
  BY <1>1, CallbacksWritten, CountsFit, PositionsAre
<1>3. /\ CallbackTexts(s) \in Seq(Seq(Bytes)) /\ Len(CallbackTexts(s)) = Len(s.callbacks)
      /\ Len(CallbackTexts(s)[i]) = callback_size(s.callbacks[i])
  BY <1>1, CallbacksWritten
<1>4. Holds(bin, p, <<info>> \o encode(pos))
  BY <1>1, BinaryHolds
<1>5. bin \in Seq(Bytes) /\ encode(pos) \in Seq(Bytes) /\ <<info>> \in Seq(Bytes)
      /\ Len(<<info>>) = 1 /\ <<info>>[1] = info
  BY <1>1, <1>2, BinaryParts, EncodedLength
<1>6. /\ CallbackSums(s)[i - 1] \in Nat
      /\ CallbackSums(s)[i] = CallbackSums(s)[i - 1] + (1 + encoded_size_from_int(pos))
  <2>1. /\ Lengths(CallbackTexts(s)) \in Seq(Nat)
        /\ Len(Lengths(CallbackTexts(s))) = Len(s.callbacks)
        /\ Lengths(CallbackTexts(s))[i] = 1 + encoded_size_from_int(pos)
    BY <1>2, <1>3, LengthsAre DEF callback_size
  <2>2. i - 1 \in 0..Len(s.callbacks)
    BY <1>2
  <2>. QED  BY <1>2, <2>1, <2>2, SumsStep DEF CallbackSums
<1>7. p \in Nat
  BY <1>2, <1>6
<1>8. CallbacksAt(s) + CallbackSums(s)[i] = (p + 1) + encoded_size_from_int(pos)
  <2>1. encoded_size_from_int(pos) \in Nat
    BY <1>2, NumberSize
  <2> DEFINE x == CallbackSums(s)[i - 1]
             y == CallbackSums(s)[i]
             c == CallbacksAt(s)
             e == encoded_size_from_int(pos)
  <2>2. p = c + x /\ y = x + (1 + e) /\ x \in Nat /\ c \in Nat /\ e \in Nat
    BY <1>2, <1>6, <2>1
  <2> HIDE DEF x, y, c, e, p
  <2>3. c + y = (p + 1) + e
    BY <2>2
  <2>. QED  BY <2>3 DEF x, y, c, e
<1> HIDE DEF p, info, pos
<1>9. Holds(bin, p, <<info>>) /\ Holds(bin, p + 1, encode(pos))
  <2> DEFINE t == <<info>>
             e == encode(pos)
  <2>1. t \in Seq(Bytes) /\ e \in Seq(Bytes) /\ Len(t) = 1 /\ Holds(bin, p, t \o e)
    BY <1>4, <1>5
  <2> HIDE DEF t, e
  <2>2. Holds(bin, p, t) /\ Holds(bin, p + Len(t), e)
    BY <1>5, <2>1, HoldsCat
  <2>3. Holds(bin, p, t) /\ Holds(bin, p + 1, e)
    BY <2>1, <2>2
  <2>. QED  BY <2>3 DEF t, e
<1>10. Byte(p) = info
  <2>1. 1 \in 1..Len(<<info>>) /\ bin[p + 1] = <<info>>[1]
    BY <1>5, <1>9 DEF Holds
  <2>. QED  BY <1>5, <2>1 DEF Byte
<1>11. decode(p + 1).n = pos /\ decode(p + 1).next = (p + 1) + encoded_size_from_int(pos)
  BY <1>2, <1>9, EncodedHere
<1>. QED  BY <1>7, <1>8, <1>10, <1>11 DEF p, info, pos

(* The loop over the callbacks finds each where it was written.            *)
LEMMA CallbackPositions ==
    ASSUME job \in Jobs, bin = Written(job.source)
    PROVE  LET s == job.source
               n == Len(s.callbacks)
           IN  \A i \in 1..(n + 1) :
                 CallbackAt(CallbacksAt(s), n)[i] = CallbacksAt(s) + CallbackSums(s)[i - 1]
<1> DEFINE s == job.source
           n == Len(s.callbacks)
           c == CallbacksAt(s)
           g == [i \in 1..(n + 1) |-> c + CallbackSums(s)[i - 1]]
           next(x) == decode(x + 1).next
           Is(f) == f = [i \in 1..(n + 1) |-> IF i = 1 THEN c ELSE next(f[i - 1])]
           F == CHOOSE f : Is(f)
<1>1. LegalSource(s) /\ n \in Nat /\ c \in Nat
  BY JobFacts, CountsFit, PositionsAre
<1>2. CallbackSums(s)[0] = 0
  BY <1>1, CallbacksWritten, LengthsAre, SumsStep DEF CallbackSums
<1>3. \A i \in 1..n : next(c + CallbackSums(s)[i - 1]) = c + CallbackSums(s)[i]
  BY CallbackHere
<1>4. CallbackAt(c, n) = F
  BY DEF CallbackAt
<1>5. g[1] = c /\ \A i \in 2..(n + 1) : g[i] = next(g[i - 1])
  <2> HIDE DEF n, c, s, next
  <2>1. g[1] = c
    BY <1>1, <1>2
  <2>2. ASSUME NEW i \in 2..(n + 1)
        PROVE  g[i] = next(g[i - 1])
    <3>1. i - 1 \in 1..n /\ i - 1 \in 1..(n + 1) /\ i \in 1..(n + 1)
      BY <1>1
    <3>2. g[i] = c + CallbackSums(s)[i - 1] /\ g[i - 1] = c + CallbackSums(s)[(i - 1) - 1]
      BY <3>1
    <3>3. next(c + CallbackSums(s)[(i - 1) - 1]) = c + CallbackSums(s)[i - 1]
      BY <1>3, <3>1
    <3>. QED  BY <3>2, <3>3
  <2>. QED  BY <2>1, <2>2
<1>6. Is(F)
  <2> DEFINE h == [i \in 1..(n + 1) |-> IF i = 1 THEN c ELSE next(g[i - 1])]
  <2>1. \A i \in 1..(n + 1) : g[i] = h[i]
    <3> HIDE DEF g, next, c, n
    <3>1. \A i \in 1..(n + 1) : i = 1 \/ i \in 2..(n + 1)
      BY <1>1
    <3>. QED  BY <1>5, <3>1
  <2>2. g = [i \in 1..(n + 1) |-> g[i]] /\ h = [i \in 1..(n + 1) |-> h[i]]
    OBVIOUS
  <2>3. g = h
    <3> HIDE DEF g, h
    <3>. QED  BY <2>1, <2>2
  <2>4. Is(g)
    <3> HIDE DEF g
    <3>. QED  BY <2>3
  <2> HIDE DEF Is, g
  <2>. QED  BY <2>4
<1> HIDE DEF F
<1>7. F[1] = c /\ \A i \in 2..(n + 1) : F[i] = next(F[i - 1])
  <2>1. F = [i \in 1..(n + 1) |-> IF i = 1 THEN c ELSE next(F[i - 1])]
    BY <1>6
  <2> HIDE DEF next, c, n, Is
  <2>2. 1 \in 1..(n + 1) /\ \A i \in 2..(n + 1) : i \in 1..(n + 1) /\ i # 1
    BY <1>1
  <2>. QED  BY <2>1, <2>2
<1> HIDE DEF Is, next
<1> DEFINE T == {i \in 0..n : F[i + 1] = g[i + 1]}
<1>8. \A i \in 0..n : i \in T
  <2> HIDE DEF g, c, n
  <2>1. 0 \in T
    BY <1>1, <1>5, <1>7
  <2>2. ASSUME NEW i \in 0..(n - 1), i \in T
        PROVE  i + 1 \in T
    <3>1. i + 1 \in 0..n /\ (i + 1) + 1 \in 2..(n + 1) /\ ((i + 1) + 1) - 1 = i + 1
      BY <1>1
    <3>2. F[(i + 1) + 1] = next(F[i + 1]) /\ g[(i + 1) + 1] = next(g[i + 1])
      BY <1>5, <1>7, <3>1
    <3>3. F[i + 1] = g[i + 1]
      BY <2>2
    <3>. QED  BY <3>1, <3>2, <3>3
  <2> HIDE DEF T
  <2>. QED  BY <1>1, <2>1, <2>2, UpTo
<1>9. ASSUME NEW i \in 1..(n + 1)
      PROVE  F[i] = g[i]
  <2> HIDE DEF n, g
  <2>1. i - 1 \in 0..n /\ (i - 1) + 1 = i
    BY <1>1
  <2>2. i - 1 \in T
    BY <1>8, <2>1
  <2>. QED  BY <2>1, <2>2
<1>. QED  BY <1>4, <1>9

(* Callbacks keeps the invariant.                                          *)
LEMMA CallbacksKeeps ==
    ASSUME BinaryInv, Callbacks
    PROVE  BinaryInv'
<1> DEFINE s == job.source
           n == Len(s.callbacks)
           c == m4_align(n)
<1>0. /\ stage = "callbacks" /\ job \in Jobs
      /\ bin_p = CallbackCountAt(s)
      /\ memory_p = WordEnd /\ WordEnd <= Limit
      /\ bin = Written(s) /\ bin_len = Measured(s)
      /\ pc = 0 /\ decoded = <<>> /\ tables \in Tables /\ lookup.todo = 0
      /\ tables.variables = StackEnd /\ lookup \in [todo : Nat, array : Nat, entry : Nat]
      /\ tables.data_start = DataAt(s)
      /\ Apart(wrote, job.base, Limit, WordEnd)
  BY DEF Callbacks, BinaryInv, StateTyped, Placed, Kept, Searched, Compiled, Decoding,
         Restored, Reading
<1>1. /\ LegalSource(s) /\ n \in Nat /\ job.slots \in Nat
      /\ \A i \in 1..n : s.callbacks[i].position \in Nat /\ params_info(s.callbacks[i]) \in Bytes
  BY <1>0, JobFacts, CountsFit, CallbacksWritten
<1>2. decode(bin_p).n = n /\ decode(bin_p).next = CallbacksAt(s)
  BY <1>0, Reads
<1> DEFINE at == CallbackAt(CallbacksAt(s), n)
           info == memory_p
           offsets == m4_align(memory_p + n)
           end == offsets + n * 4
           infos == [i \in 1..n |-> Byte(at[i])]
           words == [i \in 1..n |-> decode(at[i] + 1).n]
<1>3. \/ n > job.slots /\ Fail("too_many_callbacks")
      \/ TooFar(end) /\ Fail("out_of_memory")
      \/ /\ ~(n > job.slots) /\ ~TooFar(end)
         /\ tables' = [tables EXCEPT !.callback_info = infos, !.callback_words = words]
         /\ wrote' = wrote \cup {<<info, info + n>>, <<offsets, end>>}
         /\ memory_p' = end /\ bin_p' = at[n + 1] /\ stage' = "literals"
         /\ UNCHANGED <<job, bin_len, bin, lookup, pc, decoded>>
  BY <1>2 DEF Callbacks
<1>4. /\ WordEnd \in Nat /\ WordEnd % 4 = 0 /\ TableEnd \in Nat /\ Limit \in Int
      /\ job.base \in Nat /\ job.base <= WordEnd
      /\ c \in Nat /\ n <= c /\ TableEnd = WordEnd + (c + 4 * n)
  <2>1. /\ WordEnd \in Nat /\ WordEnd % 4 = 0 /\ TableEnd \in Nat /\ Limit \in Int
        /\ job.base \in Nat /\ TableEnd = WordEnd + (c + 4 * n)
    BY <1>0, Ends DEF TableEnd
  <2>2. job.base <= WordEnd
    BY <1>0, Ends
  <2>3. c \in Nat /\ n <= c
    BY <1>1, Aligned
  <2>. QED  BY <2>1, <2>2, <2>3
<1>5. offsets = WordEnd + c /\ end = TableEnd
  <2>1. offsets = WordEnd + c
    BY <1>0, <1>1, <1>4, AlignedPast
  <2> HIDE DEF offsets, c, n
  <2>2. end = TableEnd
    BY <1>1, <1>4, <2>1
  <2>. QED  BY <2>1, <2>2
<1>6. /\ \A i \in 1..n : infos[i] = params_info(s.callbacks[i])
      /\ \A i \in 1..n : words[i] = s.callbacks[i].position
      /\ at[n + 1] = LiteralCountAt(s)
  <2>1. \A i \in 1..(n + 1) : at[i] = CallbacksAt(s) + CallbackSums(s)[i - 1]
    BY <1>0, CallbackPositions
  <2>2. \A i \in 1..n : /\ Byte(CallbacksAt(s) + CallbackSums(s)[i - 1])
                             = params_info(s.callbacks[i])
                        /\ decode((CallbacksAt(s) + CallbackSums(s)[i - 1]) + 1).n
                             = s.callbacks[i].position
    BY <1>0, CallbackHere
  <2>3. at[n + 1] = CallbacksAt(s) + CallbackSums(s)[n]
    <3> HIDE DEF at, n
    <3>1. n + 1 \in 1..(n + 1) /\ (n + 1) - 1 = n
      BY <1>1
    <3>. QED  BY <2>1, <3>1
  <2>4. at[n + 1] = LiteralCountAt(s)
    BY <1>1, <2>3, CallbacksWritten DEF LiteralCountAt, CallbackSums
  <2>5. ASSUME NEW i \in 1..n
        PROVE  infos[i] = params_info(s.callbacks[i]) /\ words[i] = s.callbacks[i].position
    <3>1. i \in 1..(n + 1)
      BY <1>1
    <3>2. at[i] = CallbacksAt(s) + CallbackSums(s)[i - 1]
      BY <2>1, <3>1
    <3>3. infos[i] = Byte(at[i]) /\ words[i] = decode(at[i] + 1).n
      OBVIOUS
    <3> HIDE DEF at, infos, words
    <3>. QED  BY <2>2, <3>2, <3>3
  <2>. QED  BY <2>4, <2>5
<1>7. /\ infos = [i \in 1..n |-> params_info(s.callbacks[i])]
      /\ words = [i \in 1..n |-> s.callbacks[i].position]
  <2>1. infos = [i \in 1..n |-> infos[i]] /\ words = [i \in 1..n |-> words[i]]
    OBVIOUS
  <2> HIDE DEF infos, words
  <2>. QED  BY <1>6, <2>1
<1>8. CASE n > job.slots /\ Fail("too_many_callbacks")
  <2>1. ~Possible
    BY <1>1, <1>8 DEF Possible
  <2>2. "too_many_callbacks" \in BINARY_ERRORS /\ stage \notin {"measure", "running"}
    BY <1>0 DEF BINARY_ERRORS
  <2>. QED  BY <1>8, <2>1, <2>2, FailKeeps
<1>9. CASE TooFar(end) /\ Fail("out_of_memory")
  <2>1. TableEnd > Limit
    <3>1. TooFar(TableEnd)
      BY <1>5, <1>9
    <3>. QED  BY <1>0, <1>4, <3>1, Remaining
  <2>2. ~Possible
    BY <1>0, <1>4, <2>1, NotEnough
  <2>3. "out_of_memory" \in BINARY_ERRORS /\ stage \notin {"measure", "running"}
    BY <1>0 DEF BINARY_ERRORS
  <2>. QED  BY <1>9, <2>2, <2>3, FailKeeps
<1>10. CASE /\ ~(n > job.slots) /\ ~TooFar(end)
            /\ tables' = [tables EXCEPT !.callback_info = infos, !.callback_words = words]
            /\ wrote' = wrote \cup {<<info, info + n>>, <<offsets, end>>}
            /\ memory_p' = end /\ bin_p' = at[n + 1] /\ stage' = "literals"
            /\ UNCHANGED <<job, bin_len, bin, lookup, pc, decoded>>
  <2> HIDE DEF at, infos, words, offsets, end
  <2>1. TableEnd <= Limit
    <3>1. ~TooFar(TableEnd)
      BY <1>5, <1>10
    <3>. QED  BY <1>0, <1>4, <3>1, Remaining
  <2>2. n <= job.slots
    <3> HIDE DEF n
    <3>. QED  BY <1>1, <1>10
  <2>3. Apart(wrote', job.base, Limit, TableEnd)
    <3> DEFINE a == WordEnd + n
               b == WordEnd + c
    <3>1. /\ a \in Nat /\ b \in Nat /\ WordEnd <= a /\ a <= b /\ b <= TableEnd
          /\ WordEnd <= WordEnd /\ b <= b /\ a <= Limit /\ job.base <= a
      <4>1. \A x, y, w, t \in Nat : \A l \in Int : \A f \in Nat :
              x <= y /\ t = w + (y + 4 * x) /\ t <= l /\ f <= w =>
                /\ w + x \in Nat /\ w + y \in Nat /\ w <= w + x /\ w + x <= w + y
                /\ w + y <= t /\ w <= w /\ w + y <= w + y /\ w + x <= l /\ f <= w + x
        OBVIOUS
      <4> HIDE DEF n, c
      <4>. QED  BY <1>1, <1>4, <2>1, <4>1
    <3>2. /\ wrote' = wrote \cup {<<WordEnd, a>>, <<b, TableEnd>>}
      BY <1>0, <1>5, <1>10
    <3> HIDE DEF a, b
    <3>3. Apart(With(wrote, WordEnd, a), job.base, Limit, a)
      BY <1>0, <1>4, <3>1, Adds, Zenon
    <3>4. Apart(With(With(wrote, WordEnd, a), b, TableEnd), job.base, Limit, TableEnd)
      BY <1>4, <2>1, <3>1, <3>3, Adds, Zenon
    <3>5. wrote' = With(With(wrote, WordEnd, a), b, TableEnd)
      BY <3>2 DEF With
    <3>. QED  BY <3>4, <3>5
  <2>4. /\ tables'.callback_info = infos /\ tables'.callback_words = words
        /\ tables'.variables = tables.variables /\ tables'.data_start = tables.data_start
        /\ tables'.runtime_cbs = tables.runtime_cbs
        /\ tables' \in Tables
    <3>1. infos \in Seq(Int) /\ words \in Seq(Int)
      <4>1. \A i \in 1..n : params_info(s.callbacks[i]) \in Int
        BY <1>1, ByteRange
      <4>2. [i \in 1..n |-> params_info(s.callbacks[i])] \in Seq(Int)
        BY <1>1, <4>1
      <4>3. [i \in 1..n |-> s.callbacks[i].position] \in Seq(Int)
        BY <1>1
      <4>. QED  BY <1>7, <4>2, <4>3
    <3>. QED  BY <1>0, <1>10, <3>1 DEF Tables
  <2>5. stage' = "literals" /\ job' = job /\ lookup' = lookup /\ memory_p' = TableEnd
        /\ bin_p' = LiteralCountAt(s) /\ bin' = bin /\ bin_len' = bin_len /\ pc' = pc
        /\ decoded' = decoded
    BY <1>5, <1>6, <1>10
  <2>6. StateTyped'
    <3>1. Holds(bin, LiteralCountAt(s), encode(Len(s.literals)))
      BY <1>0, <1>1, BinaryHolds
    <3>2. Len(encode(Len(s.literals))) \in Nat /\ Len(bin) \in Nat
      BY <1>0, <1>1, CountsFit, EncodedLength, BinaryParts, LenProperties
    <3>3. LiteralCountAt(s) \in 0..Len(bin)
      BY <3>1, <3>2 DEF Holds
    <3>. QED  BY <1>0, <1>4, <2>4, <2>5, <3>3 DEF StateTyped, Reading
  <2>7. Compiled' /\ Justified' /\ Decoding'
    BY <1>0, <2>5 DEF Compiled, Justified, Decoding, BINARY_ERRORS
  <2>8. Placed'
    BY <2>1, <2>2, <2>5, SameJob DEF Placed
  <2>9. Searched'
    BY <1>0, <2>4, <2>5, FoundStays DEF BinaryInv
  <2>10. Restored'
    BY <1>0, <1>7, <2>4, <2>5, SameJob DEF Restored, Reading
  <2>11. Kept'
    BY <2>3, <2>5, SameJob DEF Kept
  <2>. QED  BY <2>6, <2>7, <2>8, <2>9, <2>10, <2>11 DEF BinaryInv
<1>. QED  BY <1>3, <1>8, <1>9, <1>10

(* strcmp and strlen, at a name that was written, see that name up to its  *)
(* end.                                                                    *)
LEMMA NameHere ==
    ASSUME NEW t \in Names, NEW b \in Seq(Bytes), b = bin, bin_p \in Nat,
           Holds(bin, bin_p, text(t))
    PROVE  NameEnd = bin_p + Len(t) /\ Name = t
<1> DEFINE L == Len(t)
           q == bin_p + L
           p == bin_p
           z == <<0>>
<1>1. /\ L \in Nat /\ t \in Seq(Bytes) /\ z \in Seq(Bytes) /\ Len(z) = 1 /\ z[1] = 0
      /\ \A k \in 1..L : t[k] \in Nat /\ t[k] # 0
  <2>1. L \in Nat /\ \A k \in 1..L : t[k] \in 1..255
    BY ElementOfSeq, LenProperties DEF Names
  <2> HIDE DEF L
  <2>8. \A k \in 1..L : t[k] \in Nat /\ 1 <= t[k] /\ t[k] <= 255
    BY <2>1, CharacterRange, Zenon
  <2>9. \A k \in 1..L : t[k] \in Bytes
    BY <2>8, CharacterRange, Zenon
  <2>2. \A k \in 1..L : t[k] \in Nat /\ t[k] # 0 /\ t[k] \in Bytes
    BY <2>8, <2>9
  <2>3. t = [k \in 1..L |-> t[k]]
    BY LenProperties DEF Names, L
  <2>4. [k \in 1..L |-> t[k]] \in Seq(Bytes)
    BY <2>1, <2>2
  <2>5. t \in Seq(Bytes)
    BY <2>3, <2>4
  <2>6. 0 \in Bytes
    BY ByteRange
  <2>7. z \in Seq(Bytes) /\ Len(z) = 1 /\ z[1] = 0
    BY <2>6
  <2>. QED  BY <2>1, <2>2, <2>5, <2>7
<1>2. Holds(bin, p, t) /\ Holds(bin, p + L, z)
  <2>1. Holds(bin, p, t \o z)
    BY DEF text
  <2> HIDE DEF z
  <2>. QED  BY <1>1, <2>1, HoldsCat
<1>3. /\ p \in Nat /\ Len(bin) \in Nat /\ q + 1 <= Len(bin)
      /\ \A k \in 1..L : bin[p + k] = t[k]
      /\ bin[q + 1] = 0
  <2>1. Len(bin) \in Nat /\ p \in Nat
    BY LenProperties
  <2>2. q + Len(z) <= Len(bin) /\ \A k \in 1..Len(z) : bin[q + k] = z[k]
    BY <1>2 DEF Holds
  <2>3. \A k \in 1..L : bin[p + k] = t[k]
    BY <1>2 DEF Holds
  <2>4. 1 \in 1..Len(z) /\ Len(z) = 1 /\ z[1] = 0
    BY <1>1
  <2> HIDE DEF z, q
  <2>. QED  BY <2>1, <2>2, <2>3, <2>4
<1>4. \A k \in 1..L : bin[p + k] # 0
  BY <1>1, <1>3
<1> HIDE DEF L
<1> DEFINE First(e) == Byte(e) = 0 /\ \A r \in p..(e - 1) : Byte(r) # 0
<1>5. q \in p..(Len(bin) - 1)
  BY <1>1, <1>3
<1>6. \A r \in p..(q - 1) : Byte(r) # 0
  <2> SUFFICES ASSUME NEW r \in p..(q - 1)
               PROVE  Byte(r) # 0
    OBVIOUS
  <2>1. (r + 1) - p \in 1..L /\ p + ((r + 1) - p) = r + 1
    BY <1>1, <1>3
  <2>2. bin[r + 1] # 0
    BY <1>4, <2>1
  <2>. QED  BY <2>2 DEF Byte
<1>7. Byte(q) = 0
  BY <1>3 DEF Byte
<1>8. First(q)
  BY <1>6, <1>7
<1>9. \A e \in p..(Len(bin) - 1) : First(e) => e = q
  <2> SUFFICES ASSUME NEW e \in p..(Len(bin) - 1), First(e), e # q
               PROVE  FALSE
    OBVIOUS
  <2> HIDE DEF q
  <2>0. e \in Int /\ q \in Int /\ p \in Int /\ p <= e /\ p <= q
    BY <1>3, <1>5
  <2>1. CASE e < q
    <3>1. e \in p..(q - 1)
      BY <2>0, <2>1
    <3>. QED  BY <1>6, <3>1
  <2>2. CASE q < e
    <3>1. q \in p..(e - 1)
      BY <2>0, <2>2
    <3>. QED  BY <1>7, <3>1
  <2>. QED  BY <2>0, <2>1, <2>2
<1> HIDE DEF First, q
<1>10. NameEnd = q
  <2>1. NameEnd = CHOOSE e \in p..(Len(bin) - 1) : First(e)
    BY DEF NameEnd, First
  <2>. QED  BY <1>5, <1>8, <1>9, <2>1
<1>11. Name = t
  <2>1. q = p + L
    BY DEF q
  <2> DEFINE u == SubSeq(bin, p + 1, q)
  <2>2. \A j \in (p + 1)..q : bin[j] \in Bytes
    <3>1. \A j \in (p + 1)..q : j \in 1..Len(bin)
      BY <1>1, <1>3, <2>1
    <3>. QED  BY <3>1, ElementOfSeq
  <2>3. /\ u \in Seq(Bytes) /\ Len(u) = (IF p + 1 <= q THEN q - (p + 1) + 1 ELSE 0)
        /\ \A j \in 1..(q - (p + 1) + 1) : u[j] = bin[(p + 1) + j - 1]
    <3>1. p + 1 \in Int /\ q \in Int
      BY <1>1, <1>3, <2>1
    <3>. QED  BY <2>2, <3>1, SubSeqProperties
  <2> HIDE DEF u
  <2>5. Len(u) = L /\ \A j \in 1..L : u[j] = bin[p + j]
    <3>1. q - (p + 1) + 1 = L
      BY <1>1, <1>3, <2>1
    <3>2. (IF p + 1 <= q THEN q - (p + 1) + 1 ELSE 0) = L
      BY <1>1, <1>3, <2>1
    <3>3. \A j \in 1..L : (p + 1) + j - 1 = p + j
      BY <1>1, <1>3
    <3>. QED  BY <2>3, <3>1, <3>2, <3>3
  <2>6. \A j \in 1..L : u[j] = t[j]
    BY <1>3, <2>5
  <2>7. u = [j \in 1..L |-> u[j]] /\ t = [j \in 1..L |-> t[j]]
    BY <1>1, <2>3, <2>5, LenProperties DEF L
  <2>8. u = t
    BY <2>6, <2>7
  <2>4. SubSeq(bin, p + 1, q) = t
    BY <2>8 DEF u
  <2>. QED  BY <1>10, <2>4 DEF Name
<1>. QED  BY <1>10, <1>11 DEF q, L

(* The name at the reader's position is the one the source has, in lower   *)
(* case, and the next one follows it.                                      *)
LEMMA NameSought ==
    ASSUME job \in Jobs, bin = Written(job.source), NEW i \in 1..Len(job.source.words),
           bin_p = NamesAt(job.source) + WordSums(job.source)[i - 1]
    PROVE  /\ Name = lower(job.source.words[i])
           /\ NameEnd + 1 = NamesAt(job.source) + WordSums(job.source)[i]
           /\ NameEnd + 1 \in 0..Len(bin)
<1> DEFINE s == job.source
           t == lower(s.words[i])
           L == Len(t)
           x == WordSums(s)[i - 1]
           y == WordSums(s)[i]
           a == NamesAt(s)
<1>1. LegalSource(s) /\ Len(s.words) \in Nat /\ a \in Nat
  BY JobFacts, CountsFit, PositionsAre
<1>2. t \in Names /\ WordTexts(s)[i] = t \o <<0>>
  BY <1>1, WordsWritten
<1>3. bin \in Seq(Bytes) /\ Len(bin) \in Nat
  BY <1>1, BinaryParts, LenProperties
<1>4. Len(t \o <<0>>) = L + 1 /\ L \in Nat
  <2>1. t \in Seq(Nat)
    <3>1. Len(t) \in Nat /\ \A k \in 1..Len(t) : t[k] \in 1..255
      BY <1>2, LenProperties, ElementOfSeq DEF Names
    <3>2. t = [k \in 1..Len(t) |-> t[k]]
      BY <1>2, LenProperties DEF Names
    <3> HIDE DEF t
    <3>3. \A k \in 1..Len(t) : t[k] \in Nat
      BY <3>1, CharacterRange, Zenon
    <3>. QED  BY <3>1, <3>2, <3>3
  <2>2. <<0>> \in Seq(Nat) /\ Len(<<0>>) = 1
    OBVIOUS
  <2> HIDE DEF t
  <2>3. Len(t \o <<0>>) = Len(t) + Len(<<0>>)
    BY <2>1, <2>2, ConcatLength
  <2>. QED  BY <2>1, <2>2, <2>3, LenProperties
<1>5. x \in Nat /\ y = x + (L + 1)
  <2>1. /\ Lengths(WordTexts(s)) \in Seq(Nat)
        /\ Len(Lengths(WordTexts(s))) = Len(s.words)
        /\ Lengths(WordTexts(s))[i] = L + 1
    BY <1>1, <1>2, <1>4, WordsWritten, LengthsAre, SMTT(30)
  <2>2. i - 1 \in 0..Len(s.words) /\ i \in 1..Len(s.words)
    BY <1>1
  <2>. QED  BY <2>1, <2>2, SumsStep DEF WordSums
<1>6. Holds(bin, bin_p, text(t))
  BY <1>1, BinaryHolds DEF text
<1> HIDE DEF t, x, y, a
<1>7. bin_p \in Nat /\ bin_p = a + x
  BY <1>1, <1>5 DEF a, x
<1>8. NameEnd = bin_p + L /\ Name = t
  BY <1>2, <1>3, <1>6, <1>7, NameHere
<1> HIDE DEF L
<1>9. NameEnd + 1 = a + y
  BY <1>1, <1>4, <1>5, <1>7, <1>8
<1>10. NameEnd + 1 \in 0..Len(bin)
  <2>1. bin_p + (L + 1) <= Len(bin)
    BY <1>4, <1>6 DEF Holds, text
  <2>. QED  BY <1>3, <1>4, <1>7, <1>8, <2>1
<1>. QED  BY <1>8, <1>9, <1>10 DEF t, a, y

(* The arrays of runtime words are sequences.                              *)
LEMMA ArraysAre ==
    ASSUME job \in Jobs
    PROVE  /\ Len(job.arrays) \in Nat /\ DOMAIN job.arrays = 1..Len(job.arrays)
           /\ \A a \in 1..Len(job.arrays) :
                /\ Len(job.arrays[a]) \in Nat
                /\ DOMAIN job.arrays[a] = 1..Len(job.arrays[a])
<1>1. job.arrays \in Seq(Seq(Names))
  BY JobFacts
<1>2. Len(job.arrays) \in Nat /\ DOMAIN job.arrays = 1..Len(job.arrays)
  BY <1>1, LenProperties
<1>3. ASSUME NEW a \in 1..Len(job.arrays)
      PROVE  /\ Len(job.arrays[a]) \in Nat
             /\ DOMAIN job.arrays[a] = 1..Len(job.arrays[a])
  <2>1. job.arrays[a] \in Seq(Names)
    BY <1>1, ElementOfSeq
  <2>. QED  BY <2>1, LenProperties
<1>. QED  BY <1>2, <1>3

(* A step of the search that goes on, past entries with other names, keeps *)
(* the invariant.                                                          *)
LEMMA SearchKeeps ==
    ASSUME BinaryInv, stage = "lookup", lookup.todo > 0,
           UNCHANGED <<job, stage, bin_len, bin, bin_p, memory_p, tables, wrote, pc, decoded>>,
           lookup' \in [todo : Nat, array : Nat, entry : Nat], lookup'.todo = lookup.todo,
           LET name == lower(job.source.words[Found + 1])
           IN  /\ lookup'.array \in 1..Len(job.arrays)
               /\ lookup'.entry \in 1..(Len(job.arrays[lookup'.array]) + 1)
               /\ \A a \in 1..(lookup'.array - 1) : \A k \in DOMAIN job.arrays[a] :
                    job.arrays[a][k] # name
               /\ \A k \in 1..(lookup'.entry - 1) : job.arrays[lookup'.array][k] # name
    PROVE  BinaryInv'
<1> DEFINE s == job.source
<1>1. Found' = Found
  BY DEF Found
<1>2. /\ lookup.todo <= Len(s.words) /\ Len(tables.runtime_cbs) = Found
      /\ \A i \in 1..Found : /\ FirstEntry(lower(s.words[i]), tables.runtime_cbs[i])
                             /\ lower(s.words[i]) \in Offered
  BY DEF BinaryInv, Searched
<1>3. StateTyped'
  BY DEF BinaryInv, StateTyped
<1>4. Compiled' /\ Justified' /\ Decoding'
  BY DEF BinaryInv, Compiled, Justified, Decoding, BINARY_ERRORS
<1>5. Placed'
  BY <1>1, SameJob DEF BinaryInv, Placed
<1>6. Searched'
  <2>1. \A i \in 1..Found : /\ FirstEntry(lower(s.words[i]), tables.runtime_cbs[i])'
                            /\ lower(s.words[i]) \in Offered'
    <3>1. \A i : FirstEntry(lower(s.words[i]), tables.runtime_cbs[i])'
                 <=> FirstEntry(lower(s.words[i]), tables.runtime_cbs[i])
      BY DEF FirstEntry
    <3>. QED  BY <1>2, <3>1, SameJob
  <2>. QED  BY <1>1, <1>2, <2>1 DEF Searched
<1>7. Restored'
  BY SameJob DEF BinaryInv, Restored, Reading
<1>8. Kept'
  BY SameJob DEF BinaryInv, Kept
<1>. QED  BY <1>3, <1>4, <1>5, <1>6, <1>7, <1>8 DEF BinaryInv

(* A step of the search that finds the name keeps the invariant.           *)
LEMMA FoundKeeps ==
    ASSUME BinaryInv, stage = "lookup", lookup.todo > 0,
           lookup.entry \in 1..Len(job.arrays[lookup.array]),
           job.arrays[lookup.array][lookup.entry] = Name,
           tables' = [tables EXCEPT !.runtime_cbs =
                        Append(@, <<lookup.array, lookup.entry>>)],
           wrote' = wrote \cup {<<memory_p, memory_p + 4>>},
           memory_p' = memory_p + 4, bin_p' = NameEnd + 1,
           lookup' = [todo |-> lookup.todo - 1, array |-> 1, entry |-> 1],
           UNCHANGED <<job, stage, bin_len, bin, pc, decoded>>
    PROVE  BinaryInv'
<1> DEFINE s == job.source
           w == Len(s.words)
           e == <<lookup.array, lookup.entry>>
           i == Found + 1
           name == lower(s.words[i])
           cbs == tables.runtime_cbs
<1>0. /\ job \in Jobs /\ lookup \in [todo : Nat, array : Nat, entry : Nat]
      /\ bin = Written(s) /\ bin_len = Measured(s) /\ tables \in Tables
      /\ bin_p = NamesAt(s) + WordSums(s)[Found]
      /\ memory_p = VariableEnd + 4 * Found /\ WordEnd <= Limit
      /\ Apart(wrote, job.base, Limit, memory_p) /\ tables.variables = StackEnd
      /\ lookup.todo <= w /\ Len(cbs) = Found /\ pc = 0 /\ decoded = <<>>
  BY DEF BinaryInv, StateTyped, Compiled, Placed, Searched, Restored, Reading, Kept, Decoding
<1>1. /\ lookup.array \in 1..Len(job.arrays)
      /\ \A a \in 1..(lookup.array - 1) : \A k \in DOMAIN job.arrays[a] :
           job.arrays[a][k] # name
      /\ \A k \in 1..(lookup.entry - 1) : job.arrays[lookup.array][k] # name
      /\ \A j \in 1..Found : /\ FirstEntry(lower(s.words[j]), cbs[j])
                             /\ lower(s.words[j]) \in Offered
  BY DEF BinaryInv, Searched
<1>2. LegalSource(s) /\ w \in Nat
  BY <1>0, JobFacts, CountsFit
<1>3. /\ Found \in Nat /\ i \in 1..w /\ i - 1 = Found /\ lookup.todo \in Nat
      /\ Found' = i /\ Found + 1 <= w /\ lookup'.todo \in Nat /\ lookup'.todo <= w
      /\ lookup' \in [todo : Nat, array : Nat, entry : Nat]
      /\ w - lookup'.todo = i /\ Found = w - lookup.todo
      /\ (lookup'.todo > 0 => i + 1 \in 1..w)
  <2>1. Found = w - lookup.todo /\ Found' = w - (lookup.todo - 1) /\ lookup.todo \in Nat
        /\ lookup'.todo = lookup.todo - 1 /\ lookup'.array = 1 /\ lookup'.entry = 1
    BY <1>0 DEF Found
  <2> HIDE DEF w
  <2>2. lookup.todo - 1 \in Nat
    BY <2>1
  <2>3. lookup' \in [todo : Nat, array : Nat, entry : Nat]
    BY <2>2
  <2>4. \A n, t \in Nat : t > 0 /\ t <= n =>
          /\ n - t \in Nat /\ (n - t) + 1 \in 1..n /\ ((n - t) + 1) - 1 = n - t
          /\ n - (t - 1) = (n - t) + 1 /\ (n - t) + 1 <= n /\ t - 1 <= n
          /\ (t - 1 > 0 => ((n - t) + 1) + 1 \in 1..n)
    OBVIOUS
  <2> DEFINE t == lookup.todo
             f == Found
  <2>5. /\ t \in Nat /\ t > 0 /\ t <= w /\ w \in Nat /\ f = w - t /\ Found' = w - (t - 1)
        /\ lookup'.todo = t - 1
    BY <1>0, <1>2, <2>1
  <2>6. /\ f \in Nat /\ f + 1 \in 1..w /\ (f + 1) - 1 = f /\ w - (t - 1) = f + 1
        /\ f + 1 <= w /\ t - 1 <= w /\ (t - 1 > 0 => (f + 1) + 1 \in 1..w)
    BY <2>4, <2>5
  <2> HIDE DEF t, f
  <2>7. /\ f \in Nat /\ f + 1 \in 1..w /\ (f + 1) - 1 = f /\ t \in Nat
        /\ Found' = f + 1 /\ f + 1 <= w /\ lookup'.todo \in Nat /\ lookup'.todo <= w
        /\ w - lookup'.todo = f + 1 /\ f = w - t
        /\ (lookup'.todo > 0 => (f + 1) + 1 \in 1..w)
    BY <2>2, <2>5, <2>6 DEF t
  <2>. QED  BY <2>3, <2>7 DEF t, f
<1>4. /\ Name = name /\ NameEnd + 1 = NamesAt(s) + WordSums(s)[i]
      /\ NameEnd + 1 \in 0..Len(bin)
  BY <1>0, <1>3, NameSought
<1>5. job.arrays[lookup.array][lookup.entry] = name
  BY <1>4
<1>6. /\ Len(job.arrays) \in Nat /\ DOMAIN job.arrays = 1..Len(job.arrays)
      /\ \A a \in 1..Len(job.arrays) : /\ Len(job.arrays[a]) \in Nat
                                       /\ DOMAIN job.arrays[a] = 1..Len(job.arrays[a])
  BY <1>0, ArraysAre
<1> HIDE DEF name, w, cbs
<1>7. FirstEntry(name, e)
  <2>1. e[1] = lookup.array /\ e[2] = lookup.entry
    OBVIOUS
  <2>2. ASSUME NEW a \in 1..lookup.array, NEW k \in DOMAIN job.arrays[a],
               job.arrays[a][k] = name
        PROVE  a = lookup.array /\ k >= lookup.entry
    <3>1. a = lookup.array
      <4>1. a # lookup.array => a \in 1..(lookup.array - 1)
        BY <1>1
      <4>. QED  BY <1>1, <2>2, <4>1
    <3>2. k \in 1..Len(job.arrays[lookup.array])
      BY <1>1, <1>6, <3>1
    <3>3. k < lookup.entry => k \in 1..(lookup.entry - 1)
      BY <3>2
    <3>. QED  BY <1>1, <2>2, <3>1, <3>2, <3>3
  <2>3. job.arrays[e[1]][e[2]] = name
    BY <1>5, <2>1
  <2> HIDE DEF e
  <2>. QED  BY <2>1, <2>2, <2>3 DEF FirstEntry
<1>8. name \in Offered
  <2>1. lookup.array \in DOMAIN job.arrays
    BY <1>1, <1>6
  <2>2. lookup.entry \in DOMAIN job.arrays[lookup.array]
    BY <1>1, <1>6
  <2>3. name \in Range(job.arrays[lookup.array])
    BY <1>5, <2>2 DEF Range
  <2>. QED  BY <2>1, <2>3 DEF Offered
<1>9. /\ Append(cbs, e) \in Seq(Nat \X Nat) /\ Len(Append(cbs, e)) = i
      /\ \A j \in 1..Found : Append(cbs, e)[j] = cbs[j]
      /\ Append(cbs, e)[i] = e
  <2>1. cbs \in Seq(Nat \X Nat) /\ e \in Nat \X Nat
    BY <1>0, <1>1 DEF Tables, cbs
  <2> HIDE DEF e
  <2>2. /\ Append(cbs, e) \in Seq(Nat \X Nat) /\ Len(Append(cbs, e)) = Len(cbs) + 1
        /\ \A j \in 1..Len(cbs) : Append(cbs, e)[j] = cbs[j]
        /\ Append(cbs, e)[Len(cbs) + 1] = e
    BY <2>1, AppendProperties
  <2>. QED  BY <1>0, <2>2
<1> DEFINE new == Append(cbs, e)
<1>10. /\ tables' \in Tables /\ tables'.variables = tables.variables
       /\ tables'.runtime_cbs = new
  <2>1. tables' = [tables EXCEPT !.runtime_cbs = new]
    BY DEF cbs
  <2>2. new \in Seq(Nat \X Nat)
    BY <1>9
  <2> HIDE DEF new
  <2>. QED  BY <1>0, <2>1, <2>2 DEF Tables
<1>11. /\ memory_p \in Nat /\ memory_p + 4 \in Nat /\ memory_p <= memory_p + 4
       /\ memory_p + 4 = VariableEnd + 4 * i /\ memory_p + 4 <= Limit /\ job.base <= memory_p
       /\ job.base \in Nat /\ Limit \in Int /\ memory_p <= memory_p
  <2>1. WordEnd = VariableEnd + 4 * w
    BY DEF WordEnd, w
  <2>2. VariableEnd \in Nat /\ job.base \in Nat /\ Limit \in Int /\ job.base <= VariableEnd
        /\ WordEnd \in Nat
    BY <1>0, Ends, SMTT(30)
  <2>5. /\ Found \in Nat /\ w \in Nat /\ Found + 1 <= w /\ i = Found + 1
        /\ memory_p = VariableEnd + 4 * Found /\ WordEnd <= Limit
    BY <1>0, <1>2, <1>3
  <2>4. memory_p \in Nat
    BY DEF BinaryInv, StateTyped
  <2> DEFINE f == Found
             v == VariableEnd
             l == Limit
             x == WordEnd
             m == memory_p
             b == job.base
  <2>6. /\ f \in Nat /\ w \in Nat /\ f + 1 <= w /\ m = v + 4 * f /\ x <= l /\ i = f + 1
        /\ x = v + 4 * w /\ v \in Nat /\ b \in Nat /\ l \in Int /\ b <= v /\ m \in Nat
    BY <2>1, <2>2, <2>4, <2>5
  <2> HIDE DEF f, v, l, x, m, b, i
  <2>7. /\ m \in Nat /\ m + 4 \in Nat /\ m <= m + 4 /\ m + 4 = v + 4 * i /\ m + 4 <= l
        /\ b <= m /\ b \in Nat /\ l \in Int /\ m <= m
    BY <2>6, SMTT(30)
  <2>. QED  BY <2>7 DEF f, v, l, x, m, b
<1>12. Apart(wrote', job.base, Limit, memory_p + 4)
  <2>1. Apart(With(wrote, memory_p, memory_p + 4), job.base, Limit, memory_p + 4)
    BY <1>0, <1>11, Adds, Zenon
  <2>. QED  BY <2>1 DEF With
<1>13. StateTyped'
  BY <1>0, <1>3, <1>4, <1>10, <1>11 DEF StateTyped, Reading
<1>14. Compiled' /\ Justified' /\ Decoding'
  BY <1>0 DEF Compiled, Justified, Decoding, BINARY_ERRORS
<1>15. Placed'
  <2>1. /\ lookup'.todo <= Len(s.words) /\ bin_p' = NamesAt(s) + WordSums(s)[Found']
        /\ memory_p' = VariableEnd + 4 * Found'
    BY <1>3, <1>4, <1>11 DEF w
  <2>. QED  BY <1>0, <2>1, SameJob DEF Placed
<1>16. Searched'
  <2>1. ASSUME NEW j \in 1..Found'
        PROVE  /\ FirstEntry(lower(s.words[j]), new[j])
               /\ lower(s.words[j]) \in Offered
    <3>1. CASE j = i
      BY <1>7, <1>8, <1>9, <3>1 DEF name
    <3>2. CASE j # i
      <4>1. j \in 1..Found
        BY <1>3, <3>2
      <4>. QED  BY <1>1, <1>9, <4>1
    <3>. QED  BY <3>1, <3>2
  <2>2. lookup'.todo > 0 =>
          /\ 1 \in 1..Len(job.arrays) /\ 1 \in 1..(Len(job.arrays[1]) + 1)
          /\ 1..(1 - 1) = {} /\ lookup'.array = 1 /\ lookup'.entry = 1
    BY <1>1, <1>6
  <2>3. \A j \in 1..Found' : /\ FirstEntry(lower(s.words[j]), tables.runtime_cbs[j])'
                             /\ lower(s.words[j]) \in Offered'
    <3>1. \A j : FirstEntry(lower(s.words[j]), tables.runtime_cbs[j])'
                 <=> FirstEntry(lower(s.words[j]), new[j])
      BY <1>10 DEF FirstEntry
    <3>. QED  BY <2>1, <3>1, <1>10, SameJob
  <2>. QED  BY <1>3, <1>9, <1>10, <2>1, <2>2, <2>3, SameJob DEF Searched, w
<1>17. Restored'
  BY <1>0, <1>10, SameJob DEF Restored, Reading
<1>18. Kept'
  BY <1>12, SameJob DEF Kept, BinaryInv
<1>. QED  BY <1>13, <1>14, <1>15, <1>16, <1>17, <1>18 DEF BinaryInv

(* LookUp keeps the invariant: it goes on, finds the name, or fails behind *)
(* the last entry, and then no entry has the name.                         *)
LEMMA LookUpKeeps ==
    ASSUME BinaryInv, LookUp
    PROVE  BinaryInv'
<1> DEFINE s == job.source
           la == lookup.array
           le == lookup.entry
           array == job.arrays[la]
           atEnd == le > Len(array)
           i == Found + 1
           name == lower(s.words[i])
<1>0. /\ stage = "lookup" /\ lookup.todo > 0 /\ job \in Jobs
      /\ lookup \in [todo : Nat, array : Nat, entry : Nat]
      /\ bin = Written(s) /\ bin_p = NamesAt(s) + WordSums(s)[Found]
      /\ lookup.todo <= Len(s.words)
  BY DEF LookUp, BinaryInv, StateTyped, Compiled, Placed
<1>1. /\ la \in 1..Len(job.arrays) /\ le \in 1..(Len(array) + 1)
      /\ \A a \in 1..(la - 1) : \A k \in DOMAIN job.arrays[a] : job.arrays[a][k] # name
      /\ \A k \in 1..(le - 1) : array[k] # name
  BY <1>0 DEF BinaryInv, Searched
<1>2. /\ Len(job.arrays) \in Nat /\ DOMAIN job.arrays = 1..Len(job.arrays)
      /\ \A a \in 1..Len(job.arrays) : /\ Len(job.arrays[a]) \in Nat
                                       /\ DOMAIN job.arrays[a] = 1..Len(job.arrays[a])
  BY <1>0, ArraysAre
<1>3. i \in 1..Len(s.words) /\ i - 1 = Found
  <2>1. Len(s.words) \in Nat /\ Found = Len(s.words) - lookup.todo /\ lookup.todo \in Nat
    BY <1>0, JobFacts, CountsFit DEF Found
  <2>2. \A n, t \in Nat : t > 0 /\ t <= n => (n - t) + 1 \in 1..n /\ ((n - t) + 1) - 1 = n - t
    OBVIOUS
  <2>. QED  BY <1>0, <2>1, <2>2
<1>4. Name = name
  BY <1>0, <1>3, NameSought
<1>5. Len(array) \in Nat /\ DOMAIN array = 1..Len(array) /\ la \in Nat /\ le \in Nat
  BY <1>0, <1>1, <1>2
<1>6. LookUp =>
        /\ \/ /\ atEnd /\ la = Len(job.arrays)
              /\ Fail("runtime_word_missing")
           \/ /\ atEnd /\ la < Len(job.arrays)
              /\ lookup' = [lookup EXCEPT !.array = @ + 1, !.entry = 1]
              /\ UNCHANGED <<stage, bin_p, memory_p, tables, wrote>>
           \/ /\ ~atEnd /\ array[le] # Name
              /\ lookup' = [lookup EXCEPT !.entry = @ + 1]
              /\ UNCHANGED <<stage, bin_p, memory_p, tables, wrote>>
           \/ /\ ~atEnd /\ array[le] = Name
              /\ tables' = [tables EXCEPT !.runtime_cbs = Append(@, <<la, le>>)]
              /\ wrote' = wrote \cup {<<memory_p, memory_p + 4>>}
              /\ memory_p' = memory_p + 4 /\ bin_p' = NameEnd + 1
              /\ lookup' = [todo |-> lookup.todo - 1, array |-> 1, entry |-> 1]
              /\ UNCHANGED stage
        /\ UNCHANGED <<job, bin_len, bin, pc, decoded>>
  BY DEF LookUp
<1>7. UNCHANGED <<job, bin_len, bin, pc, decoded>>
  BY <1>6
<1>8. ASSUME atEnd
      PROVE  \A k \in DOMAIN array : array[k] # name
  <2>1. le - 1 = Len(array)
    BY <1>1, <1>5, <1>8
  <2>. QED  BY <1>1, <1>5, <2>1
<1>9. CASE atEnd /\ la = Len(job.arrays) /\ Fail("runtime_word_missing")
  <2>1. \A a \in 1..Len(job.arrays) : \A k \in DOMAIN job.arrays[a] : job.arrays[a][k] # name
    <3>1. \A a \in 1..Len(job.arrays) : a = la \/ a \in 1..(la - 1)
      BY <1>2, <1>9
    <3> HIDE DEF name
    <3>. QED  BY <1>1, <1>8, <1>9, <3>1
  <2>2. name \notin Offered
    <3> HIDE DEF name
    <3>. QED  BY <1>2, <2>1 DEF Offered, Range
  <2>3. i \in DOMAIN s.words
    BY <1>0, <1>3, JobFacts, LenProperties DEF LegalSource
  <2>4. ~Possible
    BY <2>2, <2>3 DEF Possible
  <2>5. "runtime_word_missing" \in BINARY_ERRORS /\ stage \notin {"measure", "running"}
    BY <1>0 DEF BINARY_ERRORS
  <2>. QED  BY <1>9, <2>4, <2>5, FailKeeps
<1>10. CASE /\ atEnd /\ la < Len(job.arrays)
            /\ lookup' = [lookup EXCEPT !.array = @ + 1, !.entry = 1]
            /\ UNCHANGED <<stage, bin_p, memory_p, tables, wrote>>
  <2>1. /\ lookup'.array = la + 1 /\ lookup'.entry = 1 /\ lookup'.todo = lookup.todo
        /\ lookup' \in [todo : Nat, array : Nat, entry : Nat]
    <3>1. lookup' = [lookup EXCEPT !.array = la + 1, !.entry = 1] /\ la + 1 \in Nat
      BY <1>5, <1>10
    <3> HIDE DEF la
    <3>. QED  BY <1>0, <3>1
  <2>2. la + 1 \in 1..Len(job.arrays) /\ 1 \in 1..(Len(job.arrays[la + 1]) + 1)
    <3>1. la + 1 \in 1..Len(job.arrays)
      BY <1>2, <1>5, <1>10
    <3>. QED  BY <1>2, <3>1
  <2>3. \A a \in 1..((la + 1) - 1) : \A k \in DOMAIN job.arrays[a] : job.arrays[a][k] # name
    <3>1. \A a \in 1..((la + 1) - 1) : a = la \/ a \in 1..(la - 1)
      BY <1>5
    <3> HIDE DEF name
    <3>. QED  BY <1>1, <1>8, <1>10, <3>1
  <2>4. 1..(1 - 1) = {}
    OBVIOUS
  <2>5. /\ lookup'.array \in 1..Len(job.arrays)
        /\ lookup'.entry \in 1..(Len(job.arrays[lookup'.array]) + 1)
        /\ \A a \in 1..(lookup'.array - 1) : \A k \in DOMAIN job.arrays[a] :
             job.arrays[a][k] # name
        /\ \A k \in 1..(lookup'.entry - 1) : job.arrays[lookup'.array][k] # name
    BY <2>1, <2>2, <2>3, <2>4
  <2>. QED  BY <1>0, <1>7, <1>10, <2>1, <2>5, SearchKeeps
<1>11. CASE /\ ~atEnd /\ array[le] # Name
            /\ lookup' = [lookup EXCEPT !.entry = @ + 1]
            /\ UNCHANGED <<stage, bin_p, memory_p, tables, wrote>>
  <2>1. /\ lookup'.array = la /\ lookup'.entry = le + 1 /\ lookup'.todo = lookup.todo
        /\ lookup' \in [todo : Nat, array : Nat, entry : Nat]
    BY <1>0, <1>11
  <2>2. le + 1 \in 1..(Len(array) + 1)
    BY <1>1, <1>5, <1>11
  <2>3. \A k \in 1..((le + 1) - 1) : array[k] # name
    <3>1. \A k \in 1..((le + 1) - 1) : k = le \/ k \in 1..(le - 1)
      BY <1>5
    <3> HIDE DEF name
    <3>. QED  BY <1>1, <1>4, <1>11, <3>1
  <2>4. /\ lookup'.array \in 1..Len(job.arrays)
        /\ lookup'.entry \in 1..(Len(job.arrays[lookup'.array]) + 1)
        /\ \A a \in 1..(lookup'.array - 1) : \A k \in DOMAIN job.arrays[a] :
             job.arrays[a][k] # name
        /\ \A k \in 1..(lookup'.entry - 1) : job.arrays[lookup'.array][k] # name
    BY <1>1, <2>1, <2>2, <2>3
  <2>. QED  BY <1>0, <1>7, <1>11, <2>1, <2>4, SearchKeeps
<1>12. CASE /\ ~atEnd /\ array[le] = Name
            /\ tables' = [tables EXCEPT !.runtime_cbs = Append(@, <<la, le>>)]
            /\ wrote' = wrote \cup {<<memory_p, memory_p + 4>>}
            /\ memory_p' = memory_p + 4 /\ bin_p' = NameEnd + 1
            /\ lookup' = [todo |-> lookup.todo - 1, array |-> 1, entry |-> 1]
            /\ UNCHANGED stage
  <2>1. le \in 1..Len(array)
    BY <1>1, <1>5, <1>12
  <2>. QED  BY <1>0, <1>7, <1>12, <2>1, FoundKeeps
<1>. QED  BY <1>6, <1>9, <1>10, <1>11, <1>12

(* Step keeps the invariant: pc is where the fragments read so far end,    *)
(* perhaps in front of marks, so the next instruction is read.             *)
LEMMA StepKeeps ==
    ASSUME BinaryInv, Step
    PROVE  BinaryInv'
<1> DEFINE s == job.source
           N == Len(s.code)
           co == code_offset(s)
           F == Instructions(s.code)
           C == CodeSums(s)
<1>0. /\ stage = "running" /\ job \in Jobs /\ bin = Written(s) /\ pc < CodeEnd
      /\ decoded' = Append(decoded, [op |-> Instruction(pc).op,
                                     param |-> Instruction(pc).param])
      /\ pc' = Instruction(pc).next
      /\ UNCHANGED <<job, stage, bin_len, bin, bin_p, memory_p, lookup, tables, wrote>>
  BY DEF Step, BinaryInv, StateTyped, Compiled
<1>1. PICK k \in 0..N : /\ pc = co + C[k] /\ Len(decoded) = Len(F[k])
                        /\ decoded = [i \in 1..Len(decoded) |-> Ran(F[k][i])]
  BY <1>0 DEF BinaryInv, Decoding
<1>2. LegalSource(s) /\ bin \in Seq(Bytes) /\ co \in Nat
  BY <1>0, JobFacts, BinaryParts
<1>3. /\ N \in Nat /\ C \in [0..N -> Nat] /\ CodeLength(s) = C[N]
      /\ \A i \in 1..N : C[i] = C[i - 1] + fragment_bin_size(s.code[i])
      /\ s.code \in Seq(Fragments)
  BY <1>2, CodeSumsAre
<1>4. C[k] < C[N]
  <2>1. CodeEnd = co + CodeLength(s)
    BY DEF CodeEnd, CodeLength
  <2>2. C[k] \in Nat /\ C[N] \in Nat
    BY <1>3
  <2>. QED  BY <1>0, <1>1, <1>2, <1>3, <2>1, <2>2
<1>5. PICK m : Ahead(s, k, m)
  <2>1. C[k] \in Nat /\ C[N] \in Nat
    BY <1>3
  <2>2. C[N] # C[k]
    BY <1>4, <2>1
  <2>. QED  BY <1>2, <2>2, AheadOrRead
<1> DEFINE f == s.code[m]
<1>6. /\ m \in 1..N /\ f \in Fragments /\ f.op \notin Marks /\ C[m - 1] = C[k]
      /\ F[m] = Append(F[k], f)
  BY <1>2, <1>5, AheadIsCode DEF Ahead
<1>7. /\ f.op \in Displaced => f.width >= encoded_size_from_int(f.param)
      /\ Holds(bin, pc, fragment_bin_dump(f))
  BY <1>0, <1>1, <1>2, <1>6, CodeWritten, BinaryHolds
<1>8. F[k] \in Seq(Fragments) /\ Len(F[k]) \in Nat
  <2>1. F[k] \in Seq(Fragments)
    BY <1>3, InstructionsStep
  <2> HIDE DEF F
  <2>. QED  BY <2>1, LenProperties
<1>9. C[m] = C[k] + fragment_bin_size(f)
  BY <1>3, <1>6
<1>10. co \in Nat /\ C[k] \in Nat
  BY <1>2, <1>3
<1> HIDE DEF f, F, C, co, N
<1>11. /\ Instruction(pc).op = f.op
       /\ Instruction(pc).param = (IF f.op \in Plain THEN 0 ELSE f.param)
       /\ Instruction(pc).next = pc + fragment_bin_size(f)
       /\ fragment_bin_size(f) \in Nat
  <2>1. /\ Instruction(pc).op = f.op
        /\ Instruction(pc).param = (IF f.op \in Plain THEN 0 ELSE f.param)
        /\ Instruction(pc).next = pc + fragment_bin_size(f)
    BY <1>2, <1>6, <1>7, InstructionHere
  <2>2. fragment_bin_size(f) \in Nat
    BY <1>6, <1>7, DumpSize
  <2>. QED  BY <2>1, <2>2
<1>12. pc' = co + C[m]
  BY <1>0, <1>1, <1>9, <1>10, <1>11
<1>13. decoded' = Append(decoded, Ran(f))
  BY <1>0, <1>11 DEF Ran
<1>14. Len(decoded') = Len(F[m]) /\ decoded' = [i \in 1..Len(decoded') |-> Ran(F[m][i])]
  <2> DEFINE X == {Ran(g) : g \in Fragments}
             L == Len(F[k])
  <2>1. \A i \in 1..L : F[k][i] \in Fragments
    BY <1>8, ElementOfSeq
  <2>2. \A g \in Fragments : Ran(g) \in X
    OBVIOUS
  <2>3. L \in Nat
    BY <1>8
  <2>4. /\ F[m] \in Seq(Fragments) /\ Len(F[m]) = L + 1 /\ F[m][L + 1] = f
        /\ \A i \in 1..L : F[m][i] = F[k][i]
    BY <1>6, <1>8, AppendProperties
  <2> HIDE DEF X, L
  <2>5. decoded = [i \in 1..L |-> Ran(F[k][i])]
    BY <1>1 DEF L
  <2>6. [i \in 1..L |-> Ran(F[k][i])] \in Seq(X)
    BY <2>1, <2>2, <2>3
  <2>7. decoded \in Seq(X) /\ Len(decoded) = L /\ Ran(f) \in X
        /\ \A i \in 1..L : decoded[i] = Ran(F[k][i])
    BY <1>1, <1>6, <2>2, <2>5, <2>6 DEF L
  <2> DEFINE new == Append(decoded, Ran(f))
  <2>8. /\ new \in Seq(X) /\ Len(new) = L + 1
        /\ \A i \in 1..L : new[i] = decoded[i]
        /\ new[L + 1] = Ran(f)
    BY <2>7, AppendProperties
  <2> HIDE DEF new
  <2>9. \A i \in 1..(L + 1) : new[i] = Ran(F[m][i])
    <3>1. \A i \in 1..(L + 1) : i = L + 1 \/ i \in 1..L
      BY <2>3
    <3>. QED  BY <2>4, <2>7, <2>8, <3>1
  <2>10. new = [i \in 1..(L + 1) |-> new[i]]
    BY <2>8, LenProperties
  <2>11. new = [i \in 1..(L + 1) |-> Ran(F[m][i])]
    BY <2>9, <2>10
  <2>12. decoded' = new
    BY <1>13 DEF new
  <2>13. Len(decoded') = L + 1
    BY <2>8, <2>12
  <2>. QED  BY <2>4, <2>11, <2>12, <2>13
<1>15. StateTyped' /\ Compiled'
  BY <1>0 DEF BinaryInv, StateTyped, Compiled
<1>16. Placed'
  BY <1>0, SameJob DEF BinaryInv, Placed
<1>17. Searched'
  BY <1>0, FoundStays DEF BinaryInv
<1>18. Restored' /\ Kept' /\ Justified'
  BY <1>0, SameJob DEF BinaryInv, Restored, Kept, Justified, Reading, BINARY_ERRORS
<1>19. Decoding'
  <2>1. m \in 0..N
    BY <1>3, <1>6
  <2>2. \E j \in 0..N : /\ pc' = co + C[j] /\ Len(decoded') = Len(F[j])
                        /\ decoded' = [i \in 1..Len(decoded') |-> Ran(F[j][i])]
    BY <1>12, <1>14, <2>1
  <2>. QED  BY <1>0, <2>2 DEF Decoding, N, co, C, F
<1>. QED  BY <1>15, <1>16, <1>17, <1>18, <1>19 DEF BinaryInv

(* Stuttering keeps the invariant.                                         *)
LEMMA StutterKeeps ==
    ASSUME BinaryInv, UNCHANGED vars
    PROVE  BinaryInv'
<1> USE DEF vars, BinaryInv
<1>1. StateTyped' /\ Compiled' /\ Justified' /\ Decoding'
  BY SameJob DEF StateTyped, Compiled, Justified, Decoding
<1>2. Placed' /\ Restored' /\ Kept'
  BY SameJob DEF Placed, Restored, Kept, Found
<1>3. Searched'
  <2> DEFINE s == job.source
  <2>1. Found' = Found
    BY DEF Found
  <2>2. ASSUME stage \in {"lookup", "callbacks", "literals", "enter", "running"}
        PROVE  \A i \in 1..Found : /\ FirstEntry(lower(s.words[i]), tables.runtime_cbs[i])'
                                   /\ lower(s.words[i]) \in Offered'
    <3>1. \A i : FirstEntry(lower(s.words[i]), tables.runtime_cbs[i])'
                 <=> FirstEntry(lower(s.words[i]), tables.runtime_cbs[i])
      BY DEF FirstEntry
    <3>2. \A i \in 1..Found : /\ FirstEntry(lower(s.words[i]), tables.runtime_cbs[i])
                              /\ lower(s.words[i]) \in Offered
      BY <2>2 DEF Searched
    <3>. QED  BY <3>1, <3>2, SameJob
  <2>. QED  BY <2>1, <2>2 DEF Searched
<1>. QED  BY <1>1, <1>2, <1>3

(* The inductive invariant holds in every state, for every set of jobs     *)
(* that satisfies JobsAssumption.                                          *)
THEOREM BinaryInvariant == Spec => []BinaryInv
<1>1. Init => BinaryInv
  BY InitKeeps
<1>2. BinaryInv /\ [Next]_vars => BinaryInv'
  BY CompileKeeps, CarveKeeps, VariablesKeeps, RuntimeWordsKeeps, LookUpKeeps, DataKeeps,
     CallbacksKeeps, LiteralsKeeps, EnterKeeps, StepKeeps, StutterKeeps DEF Next
<1>. QED  BY <1>1, <1>2, PTL DEF Spec

(* The type invariant of Binary.                                           *)
THEOREM TypesHold == Spec => []TypeOK
<1>1. BinaryInv => TypeOK
  <2> SUFFICES ASSUME BinaryInv
               PROVE  TypeOK
    OBVIOUS
  <2> DEFINE s == job.source
  <2>1. StateTyped /\ LegalSource(s)
    BY JobFacts DEF BinaryInv, StateTyped
  <2>2. bin \in Seq(Bytes) /\ bin_len \in Nat
    <3>1. CASE stage = "measure"
      <4>1. bin = <<>> /\ bin_len = 0
        BY <3>1 DEF BinaryInv, Compiled
      <4>. QED  BY <4>1
    <3>2. CASE stage # "measure"
      BY <2>1, <3>2, BinaryParts DEF BinaryInv, Compiled
    <3>. QED  BY <3>1, <3>2
  <2>3. \A i \in DOMAIN bin : bin[i] \in 0..255
    <3>1. \A i \in DOMAIN bin : bin[i] \in Bytes
      BY <2>2, LenProperties, ElementOfSeq
    <3>. QED  BY <3>1 DEF Bytes
  <2>4. pc \in 0..Len(bin)
    <3>0. Len(bin) \in Nat
      BY <2>2, LenProperties
    <3>1. CASE stage # "running"
      BY <3>0, <3>1 DEF BinaryInv, Decoding
    <3>2. CASE stage = "running"
      <4>1. PICK k \in 0..Len(s.code) : pc = code_offset(s) + CodeSums(s)[k]
        BY <3>2 DEF BinaryInv, Decoding
      <4>2. /\ CodeSums(s)[k] \in Nat /\ CodeSums(s)[k] <= CodeSums(s)[Len(s.code)]
            /\ CodeLength(s) = CodeSums(s)[Len(s.code)] /\ CodeLength(s) \in Nat
        <5>1. Len(s.code) \in Nat
          BY <2>1, CodeSumsAre
        <5>2. Len(s.code) \in 0..Len(s.code) /\ k <= Len(s.code)
          BY <5>1
        <5>. QED  BY <2>1, <5>2, CodeSumsAre, BinaryParts
      <4>3. bin = Written(s)
        BY <3>2 DEF BinaryInv, Compiled
      <4>4. code_offset(s) \in Nat /\ code_offset(s) + CodeLength(s) <= Len(bin)
        BY <2>1, <4>3, BinaryParts
      <4>. QED  BY <3>0, <4>1, <4>2, <4>4
    <3>. QED  BY <3>1, <3>2
  <2>5. DOMAIN tables = DOMAIN NoTables
    BY <2>1 DEF StateTyped, Tables, NoTables
  <2>. QED  BY <2>1, <2>2, <2>3, <2>4, <2>5 DEF TypeOK, StateTyped, Reading
<1>. QED  BY <1>1, BinaryInvariant, PTL

(* The bytes m4_compile writes are exactly those it measured and           *)
(* allocated, and the code_offset it reports is where                      *)
(* m4_unpack_binary_header finds the code, for every source.               *)
THEOREM MeasureHolds == Spec => []MeasuredIsWritten
<1>1. BinaryInv => MeasuredIsWritten
  <2> SUFFICES ASSUME BinaryInv
               PROVE  MeasuredIsWritten
    OBVIOUS
  <2>1. LegalSource(job.source)
    BY JobFacts DEF BinaryInv, StateTyped
  <2>2. Len(Written(job.source)) = Measured(job.source)
    BY <2>1, BinaryParts
  <2>3. stage # "measure" => bin = Written(job.source) /\ bin_len = Measured(job.source)
    BY DEF BinaryInv, Compiled
  <2>4. stage = "enter" => tables.program_start = code_offset(job.source)
    BY DEF BinaryInv, Restored
  <2>. QED  BY <2>2, <2>3, <2>4 DEF MeasuredIsWritten
<1>. QED  BY <1>1, BinaryInvariant, PTL

(* m4_*_engine_run and m4_unpack_binary_header write nothing outside the   *)
(* memory they are given, no piece of it twice, and leave the rest,        *)
(* aligned, to the program.                                                *)
THEOREM MemoryHolds == Spec => []MemoryKept
<1>1. BinaryInv => MemoryKept
  <2> SUFFICES ASSUME BinaryInv
               PROVE  MemoryKept
    OBVIOUS
  <2>1. job \in Jobs /\ Apart(wrote, job.base, Limit, memory_p)
    BY DEF BinaryInv, StateTyped, Kept
  <2>2. /\ \A r \in wrote : /\ r[1] \in Nat /\ r[2] \in Nat /\ r[2] <= Limit
                            /\ r[2] <= memory_p /\ job.base <= r[1] /\ r[1] <= r[2]
        /\ \A r, q \in wrote : r = q \/ r[2] <= q[1] \/ q[2] <= r[1]
    BY <2>1 DEF Apart
  <2>3. Limit = job.base + job.len
    BY DEF Limit
  <2>4. ASSUME stage = "running"
        PROVE  /\ tables.variables % 4 = 0 /\ memory_p % 4 = 0
               /\ tables.room = job.base + job.len - memory_p /\ tables.room >= 0
    <3>1. /\ memory_p = TableEnd /\ TableEnd <= Limit /\ tables.variables = StackEnd
          /\ tables.room = Limit - TableEnd
      BY <2>4 DEF BinaryInv, Placed, Restored, Reading
    <3>2. TableEnd % 4 = 0 /\ StackEnd % 4 = 0 /\ TableEnd \in Nat /\ Limit \in Int
      BY <2>1, Ends
    <3>3. job.base \in Int /\ job.len \in Int
      BY <2>1, JobFacts
    <3>4. \A b, l, t, x, r \in Int : x = b + l /\ t <= x /\ r = x - t => r = b + l - t /\ r >= 0
      OBVIOUS
    <3>5. tables.room = job.base + job.len - TableEnd /\ tables.room >= 0
      BY <2>3, <3>1, <3>2, <3>3, <3>4
    <3>. QED  BY <3>1, <3>2, <3>5
  <2>. QED  BY <2>2, <2>3, <2>4 DEF MemoryKept
<1>. QED  BY <1>1, BinaryInvariant, PTL

(* m4_*_engine_run starts a program exactly if its words are there, its    *)
(* callbacks fit and its tables fit: no check is too strict by a byte, and *)
(* none too lax.                                                           *)
THEOREM LoadingIsExact == Spec => []LoadsIffPossible
<1>1. BinaryInv => LoadsIffPossible
  <2> SUFFICES ASSUME BinaryInv
               PROVE  LoadsIffPossible
    OBVIOUS
  <2> DEFINE s == job.source
  <2>1. job \in Jobs
    BY DEF BinaryInv, StateTyped
  <2>2. ASSUME stage = "running"
        PROVE  Possible
    <3>1. TableEnd <= Limit /\ Len(s.callbacks) <= job.slots /\ lookup.todo = 0
          /\ \A i \in 1..Found : lower(s.words[i]) \in Offered
      BY <2>2 DEF BinaryInv, Placed, Searched
    <3>2. job.len >= Needed(s, job.engine, job.base)
      BY <2>1, <3>1, Ends
    <3>3. Found = Len(s.words) /\ DOMAIN s.words = 1..Len(s.words)
      <4>1. LegalSource(s)
        BY <2>1, JobFacts
      <4>2. Len(s.words) \in Nat /\ DOMAIN s.words = 1..Len(s.words)
        BY <4>1, LenProperties DEF LegalSource
      <4>. QED  BY <3>1, <4>2 DEF Found
    <3>. QED  BY <3>1, <3>2, <3>3 DEF Possible
  <2>3. stage \in BINARY_ERRORS => ~Possible
    BY DEF BinaryInv, Justified
  <2>. QED  BY <2>2, <2>3 DEF LoadsIffPossible, Possible
<1>. QED  BY <1>1, BinaryInvariant, PTL

(* The tables m4_unpack_binary_header and the engines fill have what the   *)
(* source had: every runtime word its first entry, every callback its      *)
(* signature and its place in the code that runs, data and literals their  *)
(* bytes.                                                                  *)
THEOREM TablesHold == Spec => []TablesRestored
<1>1. BinaryInv => TablesRestored
  <2> SUFFICES ASSUME BinaryInv, stage = "running"
               PROVE  TablesRestored
    BY DEF TablesRestored
  <2> DEFINE s == job.source
             n == Len(s.callbacks)
             co == code_offset(s)
             held(at, b) == SubSeq(bin, at + 1, at + Len(b)) = b
             base == IF job.engine = "vm" THEN co ELSE tables.program_start
             from == IF job.code = NoCopy \/ job.engine = "vm" THEN co ELSE job.code
  <2>1. /\ job \in Jobs /\ bin = Written(s) /\ lookup.todo = 0
        /\ Len(tables.runtime_cbs) = Found
        /\ \A i \in 1..Found : FirstEntry(lower(s.words[i]), tables.runtime_cbs[i])
        /\ tables.data_start = DataAt(s) /\ tables.literals = LiteralsAt(s)
        /\ tables.callback_info = [i \in 1..n |-> params_info(s.callbacks[i])]
        /\ tables.callback_words = [i \in 1..n |-> from + s.callbacks[i].position]
        /\ tables.program_start = IF job.code = NoCopy THEN co ELSE job.code
    BY DEF BinaryInv, StateTyped, Compiled, Searched, Restored, Reading
  <2>2. LegalSource(s) /\ co \in Nat /\ n \in Nat /\ job.code \in Nat \cup {NoCopy}
    BY <2>1, JobFacts, CountsFit, BinaryParts
  <2>3. Found = Len(s.words) /\ DOMAIN s.words = 1..Len(s.words)
    <3>1. Len(s.words) \in Nat /\ DOMAIN s.words = 1..Len(s.words)
      BY <2>2, LenProperties DEF LegalSource
    <3>. QED  BY <2>1, <3>1 DEF Found
  <2>4. \A i \in DOMAIN s.words :
          FirstEntry([k \in DOMAIN s.words[i] |->
                        IF s.words[i][k] \in 65..90 THEN s.words[i][k] + 32
                        ELSE s.words[i][k]], tables.runtime_cbs[i])
    <3>1. \A i \in DOMAIN s.words : FirstEntry(lower(s.words[i]), tables.runtime_cbs[i])
      BY <2>1, <2>3
    <3>. QED  BY <3>1, Zenon DEF lower, tolower
  <2>5. held(tables.data_start, Each(text, s.data))
    <3>1. Each(text, s.data) = FlattenSeq(DataTexts(s))
      BY DEF Each, text, DataTexts
    <3>2. FlattenSeq(DataTexts(s)) \in Seq(Bytes) /\ bin \in Seq(Bytes)
      BY <2>1, <2>2, DataWritten, Flattened, BinaryParts
    <3>3. Holds(bin, DataAt(s), FlattenSeq(DataTexts(s)))
      BY <2>1, <2>2, BinaryHolds
    <3>. QED  BY <2>1, <3>1, <3>2, <3>3, HeldIsSub
  <2>6. tables.literals % 4 = 0 /\ held(tables.literals, FlattenSeq(s.literals))
    <3>1. LiteralsAt(s) % 4 = 0
      BY <2>2, PositionsAre
    <3>2. FlattenSeq(s.literals) \in Seq(Bytes) /\ bin \in Seq(Bytes)
      BY <2>1, <2>2, LiteralsWritten, Flattened, BinaryParts
    <3>3. Holds(bin, LiteralsAt(s), FlattenSeq(s.literals))
      BY <2>1, <2>2, BinaryHolds
    <3>. QED  BY <2>1, <3>1, <3>2, <3>3, HeldIsSub
  <2>7. Len(tables.callback_words) = n
    BY <2>1, <2>2
  <2>8. base = from /\ base \in Int
    BY <2>1, <2>2 DEF NoCopy
  <2>9. DOMAIN s.callbacks = 1..n
    BY <2>2, LenProperties DEF LegalSource
  <2>10. ASSUME NEW i \in DOMAIN s.callbacks
         PROVE  /\ tables.callback_words[i] - base = s.callbacks[i].position
                /\ tables.callback_info[i] \div 2 = s.callbacks[i].params
                /\ tables.callback_info[i] % 2 = 1 <=> s.callbacks[i].results > 0
    <3> DEFINE c == s.callbacks[i]
    <3>0. i \in 1..n
      BY <2>9
    <3>1. c.position \in Nat
      BY <2>2, <3>0, CountsFit
    <3>2. c.params \in 0..31 /\ c.results \in 0..3
      <4>1. c \in [params : 0..31, results : 0..3, position : Counts]
        BY <2>2, <3>0, ElementOfSeq DEF LegalSource
      <4> HIDE DEF c
      <4>. QED  BY <4>1, Zenon
    <3>3. tables.callback_words[i] = from + c.position
      BY <2>1, <3>0
    <3>4. tables.callback_info[i] = params_info(c)
      BY <2>1, <3>0
    <3>5. c.params \in Nat /\ c.results \in Nat
      BY <3>2, SMT
    <3> HIDE DEF c, base, from
    <3>6. tables.callback_words[i] - base = c.position
      BY <2>8, <3>1, <3>3
    <3>7. \A x \in Nat : /\ (x * 2 + 1) \div 2 = x /\ (x * 2 + 1) % 2 = 1
                         /\ (x * 2 + 0) \div 2 = x /\ (x * 2 + 0) % 2 = 0
      BY SMT
    <3>8. /\ params_info(c) \div 2 = c.params
          /\ params_info(c) % 2 = 1 <=> c.results > 0
      <4>1. CASE c.results > 0
        <5>1. params_info(c) = c.params * 2 + 1
          BY <4>1 DEF params_info
        <5>. QED  BY <3>5, <3>7, <4>1, <5>1
      <4>2. CASE ~(c.results > 0)
        <5>1. params_info(c) = c.params * 2 + 0
          BY <4>2 DEF params_info
        <5>. QED  BY <3>5, <3>7, <4>2, <5>1
      <4>. QED  BY <4>1, <4>2
    <3>. QED  BY <3>4, <3>6, <3>8 DEF c
  <2> HIDE DEF from
  <2>. QED  BY <2>1, <2>3, <2>4, <2>5, <2>6, <2>7, <2>10 DEF TablesRestored
<1>. QED  BY <1>1, BinaryInvariant, PTL

(* run_inner decodes the instructions the compiler wrote, all of them, in  *)
(* order and with their operands, whatever their encoded sizes.            *)
THEOREM DecodingHolds == Spec => []InstructionsDecoded
<1>1. BinaryInv => InstructionsDecoded
  <2> SUFFICES ASSUME BinaryInv
               PROVE  InstructionsDecoded
    OBVIOUS
  <2> DEFINE s == job.source
             N == Len(s.code)
             F == Instructions(s.code)
             W == F[N]
  <2>1. LegalSource(s) /\ s.code \in Seq(Fragments) /\ N \in Nat
    <3>1. LegalSource(s)
      BY JobFacts DEF BinaryInv, StateTyped
    <3>. QED  BY <3>1, CodeSumsAre
  <2>2. CASE stage # "running"
    <3>1. decoded = <<>> /\ Len(decoded) = 0 /\ 1..0 = {}
      BY <2>2 DEF BinaryInv, Decoding
    <3>. QED  BY <2>2, <3>1 DEF InstructionsDecoded
  <2>3. CASE stage = "running"
    <3>1. PICK k \in 0..N : /\ pc = code_offset(s) + CodeSums(s)[k]
                            /\ Len(decoded) = Len(F[k])
                            /\ decoded = [i \in 1..Len(decoded) |-> Ran(F[k][i])]
      BY <2>3 DEF BinaryInv, Decoding
    <3>2. Len(F[k]) <= Len(W) /\ \A i \in 1..Len(F[k]) : W[i] = F[k][i]
      <4>1. N \in k..N
        BY <2>1
      <4>. QED  BY <2>1, <4>1, InstructionsGrow
    <3> HIDE DEF F
    <3>3. decoded = [i \in 1..Len(decoded) |->
                       [op |-> W[i].op,
                        param |-> IF W[i].op \in Plain THEN 0 ELSE W[i].param]]
      <4>1. decoded = [i \in 1..Len(decoded) |-> Ran(W[i])]
        BY <3>1, <3>2
      <4> HIDE DEF W
      <4>. QED  BY <4>1 DEF Ran
    <3>4. ASSUME pc >= CodeEnd
          PROVE  Len(decoded) = Len(W)
      <4>1. /\ CodeSums(s)[k] \in Nat /\ CodeSums(s)[N] \in Nat
            /\ CodeEnd = code_offset(s) + CodeSums(s)[N] /\ code_offset(s) \in Nat
        <5>1. N \in 0..N
          BY <2>1
        <5>. QED  BY <2>1, <5>1, CodeSumsAre, BinaryParts DEF CodeEnd, CodeLength
      <4>2. ~(CodeSums(s)[k] < CodeSums(s)[N])
        BY <3>1, <3>4, <4>1
      <4>3. F[N] = F[k]
        BY <2>1, <4>2, AheadOrRead, AheadIsCode DEF F
      <4>. QED  BY <3>1, <4>3
    <3>. QED  BY <2>3, <3>3, <3>4 DEF InstructionsDecoded, F
  <2>. QED  BY <2>2, <2>3
<1>. QED  BY <1>1, BinaryInvariant, PTL

=============================================================================
