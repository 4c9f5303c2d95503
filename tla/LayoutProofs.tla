----------------------------- MODULE LayoutProofs -----------------------------
(***************************************************************************)
(* What the relaxation loop leaves behind when it ends, for every set of   *)
(* programs and every choice of backends: displacements that fit, no       *)
(* relaxation a backend has no encoding for, and the least layout.         *)
(***************************************************************************)
EXTENDS Layout, NaturalsInduction, WellFoundedInduction, TLAPS

(* The inductive invariant: after the last round every fragment is         *)
(* representable at the positions and relaxations that are dumped, and     *)
(* "misencoded" is reached on the ESP32-S3 only.                           *)
SolvedInv ==
    /\ program \in Programs
    /\ backend \in {"vm", "x86_32", "esp32s3"}
    /\ relaxation = [k \in DOMAIN program |-> relaxation[k]]
    /\ stage \in {"solving", "solved", "dumped", "misencoded"}
    /\ stage # "solving" => Misfits(position) = {}
    /\ DumpFits

(* The two measures of a displacement agree on the vm and x86_32: what     *)
(* fragment_bin_is_representable accepts fragment_bin_dump can write.      *)
LEMMA MeasuresAgree ==
    ASSUME program \in Programs, backend \in {"vm", "x86_32"},
           NEW at, NEW k \in DOMAIN program, NEW r,
           Representable(k, at, r)
    PROVE  Encodable(k, at, r)
  <1> DEFINE o == program[k].op
  <1>1. CASE o \notin Jumps
    BY <1>1 DEF Encodable, VmEncodable, X86Encodable, Jumps
  <1>2. CASE o \in Jumps /\ backend = "vm"
    BY <1>2 DEF Encodable, VmEncodable, Representable, VmRepresentable
  <1>3. CASE o \in Jumps /\ backend = "x86_32"
    <2>1. X86Representable(k, at, r)
      BY <1>3 DEF Representable
    <2>2. CASE o \in {"BRANCH_IF_ZERO", "BRANCH"}
      BY <1>3, <2>1, <2>2 DEF Encodable, X86Encodable, X86Representable
    <2>3. CASE o = "LOOP"
      BY <1>3, <2>1, <2>3 DEF Encodable, X86Encodable, X86Representable
    <2>4. CASE o = "PUSH_OFFSET_ADDRESS"
      BY <1>3, <2>1, <2>4 DEF Encodable, X86Encodable, X86Representable
    <2>5. CASE o = "DEFINED_WORD"
      BY <1>3, <2>5 DEF Encodable, X86Encodable, Jumps
    <2> QED
      BY <1>3, <2>2, <2>3, <2>4, <2>5 DEF Jumps
  <1> QED
    BY <1>1, <1>2, <1>3

(* Compilation starts with everything unrelaxed and nothing solved.        *)
LEMMA SolvedInvInit == Init => SolvedInv
  BY LayoutAssumption DEF Init, SolvedInv, DumpFits

(* A round that finds no misfit changes no relaxation, so that its         *)
(* positions are the ones the code is written with.                        *)
LEMMA PassKeeps == SolvedInv /\ Pass => SolvedInv'
  <1> SUFFICES ASSUME SolvedInv, Pass PROVE SolvedInv'
    OBVIOUS
  <1>1. program' = program /\ backend' = backend
    BY DEF Pass
  <1>2. relaxation' = [k \in DOMAIN program |->
                          IF k \in Misfits(position') THEN relaxation[k] + 1 ELSE relaxation[k]]
    BY DEF Pass, Relaxed
  <1>3. relaxation' = [k \in DOMAIN program' |-> relaxation'[k]]
    BY <1>1, <1>2
  <1>4. stage' \in {"solving", "solved"}
    BY DEF Pass
  <1>5. ASSUME stage' # "solving" PROVE Misfits(position)' = {}
    <2>1. Misfits(position') = {}
      BY <1>5 DEF Pass
    <2>2. relaxation' = relaxation
      BY <1>2, <2>1 DEF SolvedInv
    <2> QED
      BY <1>1, <2>1, <2>2 DEF Misfits, Representable, VmRepresentable,
         X86Representable, EspRepresentable
  <1>6. DumpFits'
    BY <1>4 DEF DumpFits
  <1> QED
    BY <1>1, <1>3, <1>4, <1>5, <1>6 DEF SolvedInv

(* Writing the code of a solved layout cuts nothing off.                   *)
LEMMA DumpKeeps == SolvedInv /\ Dump => SolvedInv'
  <1> SUFFICES ASSUME SolvedInv, Dump PROVE SolvedInv'
    OBVIOUS
  <1>1. UNCHANGED <<backend, program, relaxation, position>>
    BY DEF Dump
  <1>2. Misfits(position) = {}
    BY DEF SolvedInv, Dump
  <1>3. Misfits(position)' = {}
    BY <1>1, <1>2 DEF Misfits, Representable, VmRepresentable, X86Representable,
       EspRepresentable
  <1>4. ASSUME backend # "esp32s3" PROVE stage' = "dumped"
    <2>1. \A k \in DOMAIN program : Encodable(k, position, relaxation[k])
      BY <1>2, <1>4, MeasuresAgree DEF Misfits, SolvedInv
    <2> QED
      BY <2>1 DEF Dump
  <1>5. DumpFits'
    BY <1>1, <1>4 DEF DumpFits
  <1>6. stage' \in {"dumped", "misencoded"}
    BY DEF Dump
  <1> QED
    BY <1>1, <1>3, <1>5, <1>6 DEF SolvedInv

(* When the loop of compile.c:805-820 has ended, every displacement is     *)
(* representable at the final positions, whatever was relaxed in which     *)
(* round.                                                                  *)
THEOREM SolvedFits == Spec => []SolvedInv
  <1>1. SolvedInv /\ UNCHANGED vars => SolvedInv'
    BY DEF SolvedInv, DumpFits, vars, Misfits, Representable, VmRepresentable,
       X86Representable, EspRepresentable
  <1>2. SolvedInv /\ [Next]_vars => SolvedInv'
    BY <1>1, PassKeeps, DumpKeeps DEF Next
  <1> QED
    BY SolvedInvInit, <1>2, PTL DEF Spec

(* What fragment_bin_is_representable of the vm and x86_32 promises is     *)
(* what fragment_bin_dump needs: no displacement is cut off.               *)
THEOREM NothingCutOff == Spec => []DumpFits
  <1>1. SolvedInv => DumpFits
    BY DEF SolvedInv
  <1> QED
    BY SolvedFits, <1>1, PTL

-----------------------------------------------------------------------------
(* A set of naturals has a least element.                                  *)
LEMMA LeastElement ==
    ASSUME NEW T \in SUBSET Nat, T # {}
    PROVE  \E k \in T : \A m \in T : k <= m
<1>1. \E k \in T : \A m \in T : ~ (<<m, k>> \in OpToRel(<, Nat))
  BY NatLessThanWellFounded, WFMin
<1>2. PICK k \in T : \A m \in T : ~ (<<m, k>> \in OpToRel(<, Nat))
  BY <1>1
<1>3. \A m \in T : ~ (m < k)
  BY <1>2 DEF OpToRel
<1> QED BY <1>3

(* f starts at 0 and goes from k to k + 1 by step.                         *)
Iterates(f, n, step) ==
    /\ f \in [1..n -> Nat]
    /\ f[1] = 0
    /\ \A k \in 1..(n - 1) : f[k + 1] = step[<<k, f[k]>>]

(* Each step can be taken, so that the positions of a layout exist.        *)
LEMMA IterationExists ==
    ASSUME NEW N \in Nat, NEW step \in [(1..N) \X Nat -> Nat]
    PROVE  \E f : Iterates(f, N + 1, step)
<1> DEFINE Bad == {n \in 1..(N + 1) : ~ \E f : Iterates(f, n, step)}
<1> SUFFICES ASSUME Bad # {} PROVE FALSE
  OBVIOUS
<1>1. PICK n \in Bad : \A m \in Bad : n <= m
  <2>1. Bad \in SUBSET Nat
    OBVIOUS
  <2> HIDE DEF Bad
  <2> QED
    BY <2>1, LeastElement
<1>2. n \in 1..(N + 1) /\ ~ \E f : Iterates(f, n, step)
  BY <1>1
<1>3. n # 1
  <2>1. Iterates([k \in 1..1 |-> 0], 1, step)
    BY DEF Iterates
  <2> QED
    BY <2>1, <1>2
<1>4. n - 1 \in 1..N /\ n - 1 \notin Bad
  BY <1>1, <1>2, <1>3
<1>5. PICK f : Iterates(f, n - 1, step)
  BY <1>4
<1> DEFINE g == [k \in 1..n |-> IF k = n THEN step[<<n - 1, f[n - 1]>>] ELSE f[k]]
<1>6. f \in [1..(n - 1) -> Nat] /\ f[1] = 0
      /\ \A k \in 1..(n - 2) : f[k + 1] = step[<<k, f[k]>>]
  <2>1. (n - 1) - 1 = n - 2
    BY <1>4
  <2> QED
    BY <1>5, <2>1 DEF Iterates
<1>7. step[<<n - 1, f[n - 1]>>] \in Nat
  BY <1>4, <1>6
<1>8. g \in [1..n -> Nat] /\ g[1] = 0
  BY <1>3, <1>4, <1>6, <1>7
<1>9. ASSUME NEW k \in 1..(n - 1) PROVE g[k + 1] = step[<<k, g[k]>>]
  <2>1. g[k] = f[k]
    BY <1>2
  <2>2. CASE k = n - 1
    <3>1. k + 1 = n /\ n \in 1..n
      BY <2>2, <1>2
    <3>2. g[k + 1] = step[<<n - 1, f[n - 1]>>]
      BY <3>1
    <3> QED
      BY <2>1, <2>2, <3>2
  <2>3. CASE k # n - 1
    <3>1. k \in 1..(n - 2) /\ k + 1 \in 1..n /\ k + 1 # n
      BY <2>3, <1>2
    <3> QED
      BY <3>1, <2>1, <1>6
  <2> QED
    BY <2>2, <2>3
<1>10. Iterates(g, n, step)
  BY <1>8, <1>9 DEF Iterates
<1> QED
  BY <1>10, <1>2

(* A program of the model, with what LayoutAssumption says of it.          *)
IsProgram(p) ==
    /\ p \in Seq(Fragment) /\ Len(p) \in Nat /\ DOMAIN p = 1..Len(p)
    /\ \A k \in 1..Len(p) :
        /\ p[k].op \in Jumps \cup Locations \cup {"FILL"}
        /\ p[k].bytes \in Nat
        /\ p[k].op \in Jumps => p[k].to \in 1..Len(p) /\ p[p[k].to].op \in Locations

(* A position of the model is a natural number.                            *)
LEMMA CodeLimitNat == CodeLimit \in Nat
BY SMT DEF CodeLimit

(* What LayoutAssumption says of a program, in terms of its length.        *)
LEMMA ProgramShape ==
    ASSUME NEW p \in Programs
    PROVE  IsProgram(p)
<1>1. p \in Seq(Fragment) /\ Len(p) \in Nat /\ DOMAIN p = 1..Len(p)
  BY LayoutAssumption
<1>2. ASSUME NEW k \in 1..Len(p)
      PROVE  p[k] \in Fragment
  BY <1>1
<1>3. \A k \in 1..Len(p) : p[k].op \in Jumps \cup Locations \cup {"FILL"} /\ p[k].bytes \in Nat
  BY <1>2, CodeLimitNat DEF Fragment
<1> QED
  BY <1>1, <1>3, LayoutAssumption DEF IsProgram

(* Relaxations the backends have an encoding for.                          *)
Relaxations(rs) == \A k \in 1..Len(program) : rs[k] \in 0..MostRelaxed(program[k].op)

(* Five encodings at most, and three on the backends other than the        *)
(* ESP32-S3.                                                               *)
LEMMA MostRelaxedRange ==
    ASSUME backend \in {"vm", "x86_32", "esp32s3"}, NEW o
    PROVE  MostRelaxed(o) \in 0..4 /\ (backend # "esp32s3" => MostRelaxed(o) <= 2)
<1>1. CASE backend = "vm"
  BY <1>1 DEF MostRelaxed
<1>2. CASE backend = "x86_32"
  BY <1>2 DEF MostRelaxed
<1>3. CASE backend = "esp32s3"
  BY <1>3 DEF MostRelaxed
<1> QED
  BY <1>1, <1>2, <1>3

(* The limit of a fragment is a number of bytes.                           *)
LEMMA LongestType ==
    ASSUME NEW p, IsProgram(p), NEW k \in 1..Len(p)
    PROVE  LongestSize(p, k) \in Nat
BY DEF IsProgram, LongestSize

(* fragment_bin_size returns a number of bytes, at most the longest.       *)
LEMMA SizeRange ==
    ASSUME IsProgram(program), backend \in {"vm", "x86_32", "esp32s3"},
           NEW k \in 1..Len(program), NEW pos \in Nat, NEW r \in 0..MostRelaxed(program[k].op)
    PROVE  /\ Size(k, pos, r) \in Nat
           /\ Size(k, pos, r) <= LongestSize(program, k)
<1>1. /\ program[k].op \in Jumps \cup Locations \cup {"FILL"}
      /\ program[k].bytes \in Nat /\ r \in 0..4
      /\ (backend # "esp32s3" => r \in 0..2)
      /\ Len(program) \in Nat
  BY MostRelaxedRange DEF IsProgram
<1>2. CASE backend = "vm"
  BY <1>1, <1>2, SMTT(30) DEF Size, LongestSize, VmSize, Jumps, Locations
<1>3. CASE backend = "x86_32"
  BY <1>1, <1>3, SMTT(30) DEF Size, LongestSize, X86Size, Jumps, Locations
<1>4. CASE backend = "esp32s3"
  <2> DEFINE f == program[k]
             next == IF k < Len(program) THEN program[k + 1].op ELSE "none"
             esp == IF f.op = "FILL" THEN f.bytes ELSE EspSize(f, r, pos)
  <2>1. /\ esp \in Nat
        /\ esp <= (CASE program[k].op = "FILL" -> program[k].bytes
                     [] program[k].op = "BRANCH_IF_ZERO" -> 14
                     [] program[k].op = "LOOP" -> 19
                     [] program[k].op = "PUSH_OFFSET_ADDRESS" -> 16
                     [] OTHER -> IF program[k].op \in Jumps THEN 5 ELSE 0)
    <3>1. CASE f.op = "BRANCH_IF_ZERO"
      BY <3>1, <1>1 DEF EspSize
    <3>2. CASE f.op = "LOOP"
      BY <3>2, <1>1 DEF EspSize
    <3>3. CASE f.op = "PUSH_OFFSET_ADDRESS"
      <4>1. AddiSize[r + 1] \in 0..5
        BY <1>1 DEF AddiSize
      <4> QED
        BY <3>3, <4>1 DEF EspSize
    <3>4. CASE f.op \in {"BRANCH", "DEFINED_WORD", "FILL"} \cup Locations
      BY <3>4, <1>1 DEF EspSize, Jumps, Locations
    <3> QED
      BY <1>1, <3>1, <3>2, <3>3, <3>4 DEF Jumps
  <2>2. ASSUME NEW q \in Nat
        PROVE  /\ EspPadding(q, next) \in 0..3
               /\ next \notin Locations => EspPadding(q, next) = 0
    BY SMTT(30) DEF EspPadding, Locations
  <2>3. Size(k, pos, r) = esp + EspPadding(pos + esp, next)
    BY <1>4 DEF Size
  <2>4. /\ EspPadding(pos + esp, next) \in 0..3
        /\ next \notin Locations => EspPadding(pos + esp, next) = 0
    BY <2>1, <2>2
  <2>5. next \in Locations <=> (k < Len(program) /\ program[k + 1].op \in Locations)
    BY DEF Locations
  <2> DEFINE pad == EspPadding(pos + esp, next)
             longest == CASE program[k].op = "FILL" -> program[k].bytes
                     [] program[k].op = "BRANCH_IF_ZERO" -> 14
                     [] program[k].op = "LOOP" -> 19
                     [] program[k].op = "PUSH_OFFSET_ADDRESS" -> 16
                     [] OTHER -> IF program[k].op \in Jumps THEN 5 ELSE 0
             padding == IF k < Len(program) /\ program[k + 1].op \in Locations THEN 3 ELSE 0
  <2>6. LongestSize(program, k) = longest + padding
    BY DEF LongestSize
  <2>7. pad \in Nat /\ pad <= padding /\ padding \in Nat
    BY <2>4, <2>5
  <2>8. longest \in Nat
    BY <1>1
  <2> HIDE DEF esp, next, pad, longest, padding
  <2> QED
    BY <2>1, <2>3, <2>6, <2>7, <2>8, SMTT(30) DEF longest, pad
<1> QED
  BY <1>2, <1>3, <1>4

-----------------------------------------------------------------------------
(* The recursive functions of the model, one step at a time.               *)

(* A layout starts at 0, and a fragment begins where the one before ends.  *)
LEMMA PositionsStep ==
    ASSUME IsProgram(program), backend \in {"vm", "x86_32", "esp32s3"},
           NEW rs, Relaxations(rs)
    PROVE  /\ DOMAIN Positions(rs) = 1..(Len(program) + 1)
           /\ \A k \in 1..(Len(program) + 1) : Positions(rs)[k] \in Nat
           /\ Positions(rs)[1] = 0
           /\ \A k \in 1..Len(program) :
                 Positions(rs)[k + 1] = Positions(rs)[k] + Size(k, Positions(rs)[k], rs[k])
<1> DEFINE N == Len(program)
           step == [kx \in (1..N) \X Nat |-> kx[2] + Size(kx[1], kx[2], rs[kx[1]])]
           Eq(at) == at = [k \in 1..(N + 1) |->
                              IF k = 1 THEN 0 ELSE at[k - 1] + Size(k - 1, at[k - 1], rs[k - 1])]
<1>1. N \in Nat
  BY DEF IsProgram
<1>2. \A k \in 1..N, x \in Nat : Size(k, x, rs[k]) \in Nat
  BY SizeRange DEF Relaxations
<1>3. step \in [(1..N) \X Nat -> Nat]
  <2>1. ASSUME NEW kx \in (1..N) \X Nat
        PROVE  kx[2] + Size(kx[1], kx[2], rs[kx[1]]) \in Nat
    <3>1. kx[1] \in 1..N /\ kx[2] \in Nat
      BY <2>1
    <3>2. Size(kx[1], kx[2], rs[kx[1]]) \in Nat
      BY <3>1, <1>2
    <3> QED
      BY <3>1, <3>2
  <2> QED
    BY <2>1
<1>4. \E f : Iterates(f, N + 1, step)
  <2> HIDE DEF step, N
  <2> QED
    BY <1>1, <1>3, IterationExists
<1>5. PICK f : Iterates(f, N + 1, step)
  BY <1>4
<1>6. /\ f \in [1..(N + 1) -> Nat] /\ f[1] = 0
      /\ \A k \in 1..N : f[k + 1] = step[<<k, f[k]>>]
  <2> HIDE DEF step
  <2>1. (N + 1) - 1 = N
    BY <1>1
  <2> QED
    BY <1>5, <2>1 DEF Iterates
<1>7. \A k \in 1..N : f[k + 1] = f[k] + Size(k, f[k], rs[k])
  <2> SUFFICES ASSUME NEW k \in 1..N PROVE f[k + 1] = f[k] + Size(k, f[k], rs[k])
    OBVIOUS
  <2>1. k \in 1..(N + 1) /\ f[k] \in Nat
    BY <1>1, <1>6
  <2>2. step[<<k, f[k]>>] = f[k] + Size(k, f[k], rs[k])
    BY <2>1
  <2> QED
    BY <1>6, <2>2
<1>8. Eq(f)
  <2>1. ASSUME NEW k \in 1..(N + 1), k # 1
        PROVE  f[k] = f[k - 1] + Size(k - 1, f[k - 1], rs[k - 1])
    <3>1. k - 1 \in 1..N /\ (k - 1) + 1 = k
      BY <2>1, <1>1
    <3> QED
      BY <3>1, <1>7
  <2> QED
    BY <2>1, <1>6
<1>9. Eq(Positions(rs))
  <2>1. Positions(rs) = CHOOSE at : Eq(at)
    BY DEF Positions
  <2> HIDE DEF Eq
  <2> QED
    BY <2>1, <1>8
<1> DEFINE P == Positions(rs)
<1>10. P = [k \in 1..(N + 1) |->
              IF k = 1 THEN 0 ELSE P[k - 1] + Size(k - 1, P[k - 1], rs[k - 1])]
  BY <1>9
<1> HIDE DEF P
<1>11. DOMAIN P = 1..(N + 1) /\ P[1] = 0
  BY <1>10, <1>1
<1>12. \A k \in 1..N : P[k + 1] = P[k] + Size(k, P[k], rs[k])
  <2> SUFFICES ASSUME NEW k \in 1..N PROVE P[k + 1] = P[k] + Size(k, P[k], rs[k])
    OBVIOUS
  <2>1. k + 1 \in 1..(N + 1) /\ k + 1 # 1 /\ (k + 1) - 1 = k
    BY <1>1
  <2> HIDE DEF N
  <2> QED
    BY <2>1, <1>10
<1>13. \A k \in 1..(N + 1) : P[k] \in Nat
  <2> DEFINE Bad == {k \in 1..(N + 1) : P[k] \notin Nat}
  <2> SUFFICES ASSUME Bad # {} PROVE FALSE
    OBVIOUS
  <2>1. PICK m \in Bad : \A k \in Bad : m <= k
    <3>1. Bad \in SUBSET Nat
      OBVIOUS
    <3> HIDE DEF Bad
    <3> QED
      BY <3>1, LeastElement
  <2>2. m \in 1..(N + 1) /\ m # 1 /\ P[m] \notin Nat
    BY <1>11
  <2>3. m - 1 \in 1..N /\ (m - 1) + 1 = m /\ m - 1 \notin Bad
    BY <2>1, <2>2, <1>1
  <2>4. P[m - 1] \in Nat
    BY <2>3, <1>1
  <2>5. P[m] = P[m - 1] + Size(m - 1, P[m - 1], rs[m - 1])
    BY <2>3, <1>12
  <2>6. Size(m - 1, P[m - 1], rs[m - 1]) \in Nat
    BY <2>3, <2>4, <1>2
  <2> QED
    BY <2>2, <2>4, <2>5, <2>6
<1> QED
  BY <1>11, <1>12, <1>13 DEF P

(* The same of the limits that the assumption puts on a program.           *)
LEMMA FarthestStep ==
    ASSUME NEW p, IsProgram(p)
    PROVE  /\ \A k \in 1..(Len(p) + 1) : Farthest(p)[k] \in Nat
           /\ Farthest(p)[1] = 0
           /\ \A k \in 1..Len(p) :
                 Farthest(p)[k + 1] = Farthest(p)[k] + LongestSize(p, k)
<1> DEFINE N == Len(p)
           step == [kx \in (1..N) \X Nat |-> kx[2] + LongestSize(p, kx[1])]
           Eq(at) == at = [k \in 1..(N + 1) |->
                              IF k = 1 THEN 0 ELSE at[k - 1] + LongestSize(p, k - 1)]
<1>1. N \in Nat
  BY DEF IsProgram
<1>2. \A k \in 1..N : LongestSize(p, k) \in Nat
  BY LongestType
<1>3. step \in [(1..N) \X Nat -> Nat]
  <2>1. ASSUME NEW kx \in (1..N) \X Nat PROVE kx[2] + LongestSize(p, kx[1]) \in Nat
    BY <1>2
  <2> QED
    BY <2>1
<1>4. \E f : Iterates(f, N + 1, step)
  <2> HIDE DEF step, N
  <2> QED
    BY <1>1, <1>3, IterationExists
<1>5. PICK f : Iterates(f, N + 1, step)
  BY <1>4
<1>6. /\ f \in [1..(N + 1) -> Nat] /\ f[1] = 0
      /\ \A k \in 1..N : f[k + 1] = step[<<k, f[k]>>]
  <2> HIDE DEF step
  <2>1. (N + 1) - 1 = N
    BY <1>1
  <2> QED
    BY <1>5, <2>1 DEF Iterates
<1>7. \A k \in 1..N : f[k + 1] = f[k] + LongestSize(p, k)
  <2> SUFFICES ASSUME NEW k \in 1..N PROVE f[k + 1] = f[k] + LongestSize(p, k)
    OBVIOUS
  <2>1. k \in 1..(N + 1) /\ f[k] \in Nat
    BY <1>1, <1>6
  <2>2. step[<<k, f[k]>>] = f[k] + LongestSize(p, k)
    BY <2>1
  <2> QED
    BY <1>6, <2>2
<1>8. Eq(f)
  <2>1. ASSUME NEW k \in 1..(N + 1), k # 1
        PROVE  f[k] = f[k - 1] + LongestSize(p, k - 1)
    <3>1. k - 1 \in 1..N /\ (k - 1) + 1 = k
      BY <2>1, <1>1
    <3> QED
      BY <3>1, <1>7
  <2> QED
    BY <2>1, <1>6
<1>9. Eq(Farthest(p))
  <2>1. Farthest(p) = CHOOSE at : Eq(at)
    BY DEF Farthest
  <2> HIDE DEF Eq
  <2> QED
    BY <2>1, <1>8
<1> DEFINE F == Farthest(p)
<1>10. F = [k \in 1..(N + 1) |-> IF k = 1 THEN 0 ELSE F[k - 1] + LongestSize(p, k - 1)]
  BY <1>9
<1> HIDE DEF F
<1>11. F[1] = 0
  BY <1>10, <1>1
<1>12. \A k \in 1..N : F[k + 1] = F[k] + LongestSize(p, k)
  <2> SUFFICES ASSUME NEW k \in 1..N PROVE F[k + 1] = F[k] + LongestSize(p, k)
    OBVIOUS
  <2>1. k + 1 \in 1..(N + 1) /\ k + 1 # 1 /\ (k + 1) - 1 = k
    BY <1>1
  <2> HIDE DEF N
  <2> QED
    BY <2>1, <1>10
<1>13. \A k \in 1..(N + 1) : F[k] \in Nat
  <2> DEFINE Bad == {k \in 1..(N + 1) : F[k] \notin Nat}
  <2> SUFFICES ASSUME Bad # {} PROVE FALSE
    OBVIOUS
  <2>1. PICK m \in Bad : \A k \in Bad : m <= k
    <3>1. Bad \in SUBSET Nat
      OBVIOUS
    <3> HIDE DEF Bad
    <3> QED
      BY <3>1, LeastElement
  <2>2. m \in 1..(N + 1) /\ m # 1 /\ F[m] \notin Nat
    BY <1>11
  <2>3. m - 1 \in 1..N /\ (m - 1) + 1 = m /\ m - 1 \notin Bad
    BY <2>1, <2>2, <1>1
  <2>4. F[m - 1] \in Nat
    BY <2>3, <1>1
  <2>5. F[m] = F[m - 1] + LongestSize(p, m - 1)
    BY <2>3, <1>12
  <2> QED
    BY <2>2, <2>3, <2>4, <2>5, <1>2
<1> QED
  BY <1>11, <1>12, <1>13 DEF F

(* Nothing begins farther out than the limit says, and a limit is no less  *)
(* than the limits before it.                                              *)
LEMMA WithinFarthest ==
    ASSUME IsProgram(program), backend \in {"vm", "x86_32", "esp32s3"},
           NEW rs, Relaxations(rs), NEW k \in 1..(Len(program) + 1)
    PROVE  /\ Positions(rs)[k] \in Nat
           /\ Positions(rs)[k] <= Farthest(program)[k]
           /\ Farthest(program)[k] <= Farthest(program)[Len(program) + 1]
<1> DEFINE N == Len(program)
           P == Positions(rs)
           F == Farthest(program)
<1>1. /\ N \in Nat /\ P[1] = 0 /\ F[1] = 0
      /\ \A i \in 1..(N + 1) : P[i] \in Nat /\ F[i] \in Nat
      /\ \A i \in 1..N : F[i + 1] = F[i] + LongestSize(program, i)
      /\ \A i \in 1..N : LongestSize(program, i) \in Nat
  BY PositionsStep, FarthestStep, LongestType DEF IsProgram
<1>2. \A i \in 1..N : P[i + 1] <= P[i] + LongestSize(program, i)
  <2> SUFFICES ASSUME NEW i \in 1..N PROVE P[i + 1] <= P[i] + LongestSize(program, i)
    OBVIOUS
  <2>1. P[i + 1] = P[i] + Size(i, P[i], rs[i])
    BY PositionsStep
  <2>2. P[i] \in Nat
    BY <1>1
  <2>3. Size(i, P[i], rs[i]) \in Nat /\ Size(i, P[i], rs[i]) <= LongestSize(program, i)
    BY <2>2, SizeRange DEF Relaxations
  <2>4. LongestSize(program, i) \in Nat
    BY <1>1
  <2> HIDE DEF P
  <2> QED
    BY <2>1, <2>2, <2>3, <2>4
<1> HIDE DEF P, F, N
<1>3. P[k] <= F[k]
  <2> DEFINE Bad == {i \in 1..(N + 1) : ~(P[i] <= F[i])}
  <2> SUFFICES ASSUME Bad # {} PROVE FALSE
    BY DEF N
  <2>1. PICK m \in Bad : \A i \in Bad : m <= i
    <3>1. Bad \in SUBSET Nat
      OBVIOUS
    <3> HIDE DEF Bad
    <3> QED
      BY <3>1, LeastElement
  <2>2. m \in 1..(N + 1) /\ m # 1 /\ ~(P[m] <= F[m])
    BY <1>1
  <2>3. m - 1 \in 1..N /\ m - 1 \in 1..(N + 1) /\ (m - 1) + 1 = m /\ m - 1 \notin Bad
    BY <2>1, <2>2, <1>1
  <2>4. P[m - 1] <= F[m - 1]
    BY <2>3
  <2>5. /\ P[m] <= P[m - 1] + LongestSize(program, m - 1)
        /\ F[m] = F[m - 1] + LongestSize(program, m - 1)
    BY <2>3, <1>1, <1>2
  <2>6. /\ P[m] \in Nat /\ F[m] \in Nat /\ P[m - 1] \in Nat /\ F[m - 1] \in Nat
        /\ LongestSize(program, m - 1) \in Nat
    BY <2>2, <2>3, <1>1
  <2> QED
    BY <2>2, <2>4, <2>5, <2>6
<1>4. F[k] <= F[N + 1]
  <2> DEFINE Bad == {i \in 0..N : ~(F[N + 1 - i] <= F[N + 1])}
  <2> SUFFICES ASSUME Bad # {} PROVE FALSE
    <3>1. N + 1 - k \in 0..N /\ N + 1 - (N + 1 - k) = k
      BY <1>1 DEF N
    <3> QED
      BY <3>1
  <2>1. PICK m \in Bad : \A i \in Bad : m <= i
    <3>1. Bad \in SUBSET Nat
      OBVIOUS
    <3> HIDE DEF Bad
    <3> QED
      BY <3>1, LeastElement
  <2>2. m \in 0..N /\ ~(F[N + 1 - m] <= F[N + 1])
    OBVIOUS
  <2>3. m # 0
    BY <2>2, <1>1
  <2> DEFINE i == N + 1 - m
  <2>4. /\ m - 1 \in 0..N /\ m - 1 \notin Bad /\ i \in 1..N /\ i + 1 \in 1..(N + 1)
        /\ i \in 1..(N + 1) /\ N + 1 \in 1..(N + 1) /\ i + 1 = N + 1 - (m - 1)
    <3>1. /\ m - 1 \in 0..N /\ i \in 1..N /\ i + 1 \in 1..(N + 1)
          /\ i \in 1..(N + 1) /\ N + 1 \in 1..(N + 1) /\ i + 1 = N + 1 - (m - 1)
      BY <2>2, <2>3, <1>1
    <3>2. m - 1 \notin Bad
      BY <2>1, <2>2, <3>1
    <3> QED
      BY <3>1, <3>2
  <2>5. F[N + 1 - (m - 1)] <= F[N + 1]
    BY <2>4
  <2>6. F[i + 1] <= F[N + 1] /\ ~(F[i] <= F[N + 1])
    BY <2>2, <2>4, <2>5
  <2> HIDE DEF i
  <2>7. /\ F[i + 1] = F[i] + LongestSize(program, i) /\ LongestSize(program, i) \in Nat
        /\ F[i] \in Nat /\ F[i + 1] \in Nat /\ F[N + 1] \in Nat
    BY <2>4, <1>1
  <2> QED
    BY <2>6, <2>7
<1> QED
  BY <1>1, <1>3, <1>4 DEF P, F, N

(* Distances grow when shorter sizes are added to the shorter one.         *)
LEMMA DistanceStep ==
    ASSUME NEW a \in Nat, NEW b \in Nat, NEW c \in Nat, NEW d \in Nat,
           NEW x \in Nat, NEW y \in Nat, a <= b, b - a <= d - c, x <= y
    PROVE  a <= b + x /\ (b + x) - a <= (d + y) - c
OBVIOUS

(* Less relaxed code lies closer together, on the backends whose sizes do  *)
(* not depend on positions.                                                *)
LEMMA DistancesGrow ==
    ASSUME IsProgram(program), backend \in {"vm", "x86_32"},
           NEW rs, Relaxations(rs), NEW ss, Relaxations(ss),
           \A k \in 1..Len(program) : rs[k] <= ss[k],
           NEW i \in 1..(Len(program) + 1), NEW j \in i..(Len(program) + 1)
    PROVE  /\ Positions(rs)[i] <= Positions(rs)[j]
           /\ Positions(rs)[j] - Positions(rs)[i] <= Positions(ss)[j] - Positions(ss)[i]
<1> DEFINE N == Len(program)
           P == Positions(rs)
           Q == Positions(ss)
           p(k) == Size(k, P[k], rs[k])
           q(k) == Size(k, Q[k], ss[k])
<1>a. backend \in {"vm", "x86_32", "esp32s3"} /\ backend # "esp32s3"
  OBVIOUS
<1>1. /\ N \in Nat
      /\ \A k \in 1..(N + 1) : P[k] \in Nat /\ Q[k] \in Nat
      /\ \A k \in 1..N : P[k + 1] = P[k] + p(k) /\ Q[k + 1] = Q[k] + q(k)
  BY <1>a, PositionsStep DEF IsProgram
<1>2. \A k \in 1..N : p(k) \in Nat /\ q(k) \in Nat
  <2> SUFFICES ASSUME NEW k \in 1..N PROVE p(k) \in Nat /\ q(k) \in Nat
    OBVIOUS
  <2>1. k \in 1..(N + 1) /\ rs[k] \in 0..MostRelaxed(program[k].op)
        /\ ss[k] \in 0..MostRelaxed(program[k].op)
    BY <1>1 DEF Relaxations
  <2>2. P[k] \in Nat /\ Q[k] \in Nat
    BY <1>1, <2>1
  <2> HIDE DEF P, Q
  <2> QED
    BY <1>a, <2>1, <2>2, SizeRange
<1>3. \A k \in 1..N : p(k) <= q(k)
  <2> SUFFICES ASSUME NEW k \in 1..N PROVE p(k) <= q(k)
    OBVIOUS
  <2>1. /\ program[k].op \in Jumps \cup Locations \cup {"FILL"}
        /\ program[k].bytes \in Nat /\ rs[k] \in 0..2 /\ ss[k] \in 0..2 /\ rs[k] <= ss[k]
    <3>1. /\ rs[k] \in 0..MostRelaxed(program[k].op) /\ ss[k] \in 0..MostRelaxed(program[k].op)
          /\ MostRelaxed(program[k].op) \in 0..4 /\ MostRelaxed(program[k].op) <= 2
      BY <1>a, MostRelaxedRange DEF Relaxations
    <3> QED
      BY <3>1, SMTT(30) DEF IsProgram
  <2>2. CASE backend = "vm"
    BY <2>1, <2>2 DEF Size, VmSize
  <2>3. CASE backend = "x86_32"
    BY <2>1, <2>3 DEF Size, X86Size, Jumps, Locations
  <2> QED
    BY <2>2, <2>3
<1> HIDE DEF P, Q, p, q, N
<1> DEFINE Good(m) == P[i] <= P[m] /\ P[m] - P[i] <= Q[m] - Q[i]
           Bad == {m \in i..(N + 1) : ~Good(m)}
<1> SUFFICES ASSUME Bad # {} PROVE FALSE
  BY DEF N, P, Q
<1>4. i \in 1..(N + 1)
  BY DEF N
<1>5. PICK m \in Bad : \A k \in Bad : m <= k
  <2>1. Bad \in SUBSET Nat
    BY <1>4, <1>1
  <2> HIDE DEF Bad
  <2> QED
    BY <2>1, LeastElement
<1>6. m \in i..(N + 1) /\ ~Good(m)
  OBVIOUS
<1>7. m # i
  BY <1>6, <1>4, <1>1
<1>8. /\ m - 1 \in i..(N + 1) /\ m - 1 \notin Bad /\ m - 1 \in 1..N
      /\ m - 1 \in 1..(N + 1) /\ m \in 1..(N + 1) /\ (m - 1) + 1 = m
  BY <1>4, <1>5, <1>6, <1>7, <1>1
<1>9. P[i] <= P[m - 1] /\ P[m - 1] - P[i] <= Q[m - 1] - Q[i]
  BY <1>8
<1>10. /\ P[m] = P[m - 1] + p(m - 1) /\ Q[m] = Q[m - 1] + q(m - 1)
       /\ p(m - 1) \in Nat /\ q(m - 1) \in Nat /\ p(m - 1) <= q(m - 1)
       /\ P[m - 1] \in Nat /\ Q[m - 1] \in Nat /\ P[i] \in Nat /\ Q[i] \in Nat
  BY <1>1, <1>2, <1>3, <1>4, <1>8
<1>11. /\ P[i] <= P[m - 1] + p(m - 1)
       /\ (P[m - 1] + p(m - 1)) - P[i] <= (Q[m - 1] + q(m - 1)) - Q[i]
  BY <1>9, <1>10, DistanceStep
<1> QED
  BY <1>6, <1>10, <1>11

-----------------------------------------------------------------------------
(* A displacement d lies within e when it leads in the same direction and  *)
(* no farther.                                                             *)
Within(d, e) == (0 <= d /\ d <= e) \/ (e <= d /\ d <= 0)

(* Every encoding that holds a displacement holds those within it.         *)
LEMMA EncodedWithin ==
    ASSUME NEW d \in Int, NEW e \in Int, Within(d, e)
    PROVE  EncodedSize(d) <= EncodedSize(e)
BY DEF Within, EncodedSize

(* A signed byte, as an inequality.                                        *)
LEMMA SmallIs == ASSUME NEW n \in Int PROVE Small(n) <=> (-128 <= n /\ n <= 127)
BY DEF Small

(* A byte that holds a displacement holds those within it.                 *)
LEMMA SmallWithin ==
    ASSUME NEW d \in Int, NEW e \in Int, Within(d, e), Small(e) PROVE Small(d)
BY SmallIs DEF Within

(* The same where a LOOP measures, 3 bytes before its end.                 *)
LEMMA LoopWithin ==
    ASSUME NEW d \in Int, NEW e \in Int, Within(d, e), Small(e + 3) PROVE Small(d + 3)
BY SmallIs DEF Within

(* The same where an offset to push is measured, 10 bytes behind the start *)
(* of the fragment: an offset forward leads past the fragment, which is    *)
(* longer.                                                                 *)
LEMMA PushWithin ==
    ASSUME NEW d \in Int, NEW e \in Int, Within(d, e), d >= 10 \/ e <= 0, Small(e - 10)
    PROVE  Small(d - 10)
BY SmallIs DEF Within

(* Differences of positions, and the displacements that LOOP and an offset *)
(* to push make of them.                                                   *)
LEMMA Differences ==
    ASSUME NEW a \in Nat, NEW b \in Nat
    PROVE  /\ a - b \in Int
           /\ a - (b - 3) = (a - b) + 3
           /\ a - (b + 5 + 5) = (a - b) - 10
OBVIOUS

(* Behind a fragment a of 11 bytes or more an offset of 10 is never 0; b   *)
(* ends a and t lies at b or behind it, c, d and u are the same in the     *)
(* other layout.                                                           *)
LEMMA Ahead ==
    ASSUME NEW a \in Nat, NEW b \in Nat, NEW t \in Nat, NEW c \in Nat, NEW d \in Nat,
           NEW u \in Nat, b >= a + 11, d >= c + 11, b <= t, t - b <= u - d
    PROVE  t - a >= 10 /\ (u - c) - 10 # 0
OBVIOUS

(* The last encoding of addi_auto_using_relaxation, movi, takes 12 bits.   *)
LEMMA WidestAddi == ASSUME NEW n \in Nat, n <= 2047 PROVE AddiFits(4, n)
BY DEF AddiFits

(* The most relaxed encoding of a fragment can express any displacement    *)
(* there is: a misfit can be relaxed.                                      *)
LEMMA MostRelaxedFits ==
    ASSUME program \in Programs, backend \in Backends,
           NEW rs, Relaxations(rs), NEW k \in 1..Len(program)
    PROVE  Representable(k, Positions(rs), MostRelaxed(program[k].op))
<1> DEFINE o == program[k].op
           at == Positions(rs)
<1>1. IsProgram(program) /\ backend \in {"vm", "x86_32", "esp32s3"}
  BY ProgramShape, LayoutAssumption
<1> SUFFICES ASSUME o \in Jumps
             PROVE  Representable(k, Positions(rs), MostRelaxed(program[k].op))
  BY DEF Representable
<1>2. CASE backend = "vm"
  <2>1. MostRelaxed(o) = 2
    BY <1>2 DEF MostRelaxed, Jumps
  <2>2. \A n : EncodedSize(n) <= 3
    BY DEF EncodedSize
  <2> QED
    BY <1>2, <2>1, <2>2 DEF Representable, VmRepresentable
<1>3. CASE backend = "x86_32"
  <2>1. CASE o \in {"BRANCH_IF_ZERO", "BRANCH", "LOOP"}
    <3>1. MostRelaxed(o) = 1
      BY <1>3, <2>1 DEF MostRelaxed
    <3> QED
      BY <1>3, <2>1, <3>1 DEF Representable, X86Representable
  <2>2. CASE o = "PUSH_OFFSET_ADDRESS"
    <3>1. MostRelaxed(o) = 2
      BY <1>3, <2>2 DEF MostRelaxed
    <3> QED
      BY <1>3, <2>2, <3>1 DEF Representable, X86Representable
  <2>3. CASE o = "DEFINED_WORD"
    BY <1>3, <2>3 DEF Representable, X86Representable
  <2> QED
    BY <2>1, <2>2, <2>3 DEF Jumps
<1>4. CASE backend = "esp32s3"
  <2>1. CASE o = "BRANCH_IF_ZERO"
    <3>1. MostRelaxed(o) = 2
      BY <1>4, <2>1 DEF MostRelaxed
    <3> QED
      BY <1>4, <2>1, <3>1 DEF Representable, EspRepresentable
  <2>2. CASE o = "LOOP"
    <3>1. MostRelaxed(o) = 1
      BY <1>4, <2>2 DEF MostRelaxed
    <3> QED
      BY <1>4, <2>2, <3>1 DEF Representable, EspRepresentable
  <2>3. CASE o = "PUSH_OFFSET_ADDRESS"
    <3>1. MostRelaxed(o) = 4
      BY <1>4, <2>3 DEF MostRelaxed
    <3>2. program[k].to \in 1..Len(program) /\ Len(program) \in Nat
      BY <1>1 DEF IsProgram
    <3>3. Farthest(program)[program[k].to] <= 2047
      <4>1. "esp32s3" \in Backends /\ k \in DOMAIN program
        BY <1>1, <1>4 DEF IsProgram
      <4> QED
        BY <4>1, <2>3, SizeAssumption
    <3> DEFINE t == program[k].to
    <3>4. t \in 1..(Len(program) + 1)
      BY <3>2
    <3>5. /\ at[t] \in Nat /\ at[t] <= Farthest(program)[t] /\ Farthest(program)[t] \in Nat
      BY <1>1, <3>4, WithinFarthest, FarthestStep
    <3>6. at[t] <= 2047
      BY <3>3, <3>5
    <3>7. AddiFits(4, at[t])
      BY <3>5, <3>6, WidestAddi
    <3> QED
      BY <1>4, <2>3, <3>1, <3>7 DEF Representable, EspRepresentable
  <2>4. CASE o \in {"DEFINED_WORD", "BRANCH"}
    BY <1>4, <2>4 DEF Representable, EspRepresentable
  <2> QED
    BY <2>1, <2>2, <2>3, <2>4 DEF Jumps
<1> QED
  BY <1>1, <1>2, <1>3, <1>4

(* A displacement that fits in a layout fits in one that lies closer       *)
(* together: its two ends lie closer together, in the same direction.  (An *)
(* offset to push is never 0, so its shortest encoding is never the one.)  *)
LEMMA CloserFits ==
    ASSUME program \in Programs, backend \in {"vm", "x86_32"},
           NEW rs, Relaxations(rs), NEW ss, Relaxations(ss),
           \A k \in 1..Len(program) : rs[k] <= ss[k],
           NEW k \in 1..Len(program), rs[k] = ss[k],
           Encodable(k, Positions(ss), ss[k])
    PROVE  Representable(k, Positions(rs), rs[k])
<1> DEFINE o == program[k].op
           t == program[k].to
           P == Positions(rs)
           Q == Positions(ss)
           r == rs[k]
<1>1. IsProgram(program) /\ backend \in {"vm", "x86_32", "esp32s3"} /\ backend # "esp32s3"
  BY ProgramShape
<1> SUFFICES ASSUME o \in Jumps
             PROVE  Representable(k, Positions(rs), rs[k])
  BY DEF Representable
<1>2. t \in 1..Len(program) /\ Len(program) \in Nat
  BY <1>1 DEF IsProgram
<1>3. /\ P[t] \in Nat /\ P[k] \in Nat /\ P[k + 1] \in Nat
      /\ Q[t] \in Nat /\ Q[k] \in Nat /\ Q[k + 1] \in Nat
  <2>1. {t, k, k + 1} \subseteq 1..(Len(program) + 1)
    BY <1>2
  <2>2. /\ \A m \in 1..(Len(program) + 1) : P[m] \in Nat
        /\ \A m \in 1..(Len(program) + 1) : Q[m] \in Nat
    BY <1>1, PositionsStep
  <2> QED
    BY <2>1, <2>2
<1>4. /\ t > k => P[k + 1] <= P[t] /\ P[t] - P[k + 1] <= Q[t] - Q[k + 1]
      /\ t > k => P[k] <= P[t] /\ P[t] - P[k] <= Q[t] - Q[k]
      /\ t <= k => P[t] <= P[k] /\ P[k] - P[t] <= Q[k] - Q[t]
      /\ t <= k => P[t] <= P[k + 1] /\ P[k + 1] - P[t] <= Q[k + 1] - Q[t]
  <2> DEFINE M == Len(program) + 1
  <2>1. \A i \in 1..M : \A j \in i..M : P[i] <= P[j] /\ P[j] - P[i] <= Q[j] - Q[i]
    BY <1>1, DistancesGrow
  <2>2. /\ k \in 1..M /\ k + 1 \in 1..M /\ t \in 1..M
        /\ t > k => t \in (k + 1)..M /\ t \in k..M
        /\ t <= k => k \in t..M /\ k + 1 \in t..M
    BY <1>2
  <2> HIDE DEF P, Q, M, t
  <2> QED
    BY <2>1, <2>2
<1>5. t \in Nat /\ k \in Nat
  BY <1>2
<1>6. r \in 0..2
  <2>1. rs[k] \in 0..MostRelaxed(o) /\ MostRelaxed(o) \in 0..4 /\ MostRelaxed(o) <= 2
    BY <1>1, MostRelaxedRange DEF Relaxations
  <2> QED
    BY <2>1
<1>7. /\ P[t] - P[k] \in Int /\ Q[t] - Q[k] \in Int
      /\ P[t] - P[k + 1] \in Int /\ Q[t] - Q[k + 1] \in Int
  BY <1>3, Differences
<1>8. Within(P[t] - P[k], Q[t] - Q[k])
  <2> HIDE DEF P, Q, t
  <2> QED
    BY <1>3, <1>4, <1>5, SMTT(30) DEF Within
<1>9. Within(P[t] - P[k + 1], Q[t] - Q[k + 1])
  <2> HIDE DEF P, Q, t
  <2> QED
    BY <1>3, <1>4, <1>5, SMTT(30) DEF Within
<1>10. CASE backend = "vm"
  <2>1. EncodedSize(Q[t] - Q[k]) <= r + 1
    BY <1>10 DEF Encodable, VmEncodable
  <2>2. EncodedSize(P[t] - P[k]) <= EncodedSize(Q[t] - Q[k])
    BY <1>7, <1>8, EncodedWithin
  <2>3. \A n : EncodedSize(n) \in Nat
    BY DEF EncodedSize
  <2> HIDE DEF P, Q, t, r
  <2>4. EncodedSize(P[t] - P[k]) <= r + 1
    BY <2>1, <2>2, <2>3, <1>6
  <2> QED
    BY <1>10, <2>4 DEF Representable, VmRepresentable, P, t, r
<1>11. CASE backend = "x86_32"
  <2>1. X86Encodable(k, Q, r)
    BY <1>11 DEF Encodable
  <2>2. CASE o \in {"BRANCH_IF_ZERO", "BRANCH"}
    <3>1. r # 0 \/ Small(Q[t] - Q[k + 1])
      BY <2>1, <2>2 DEF X86Encodable
    <3>2. r = 0 => Small(P[t] - P[k + 1])
      BY <3>1, <1>7, <1>9, SmallWithin
    <3> QED
      BY <1>11, <2>2, <3>2 DEF Representable, X86Representable
  <2>3. CASE o = "LOOP"
    <3>1. r # 0 \/ Small(Q[t] - (Q[k + 1] - 3))
      BY <2>1, <2>3 DEF X86Encodable
    <3>2. /\ Q[t] - (Q[k + 1] - 3) = (Q[t] - Q[k + 1]) + 3
          /\ P[t] - (P[k + 1] - 3) = (P[t] - P[k + 1]) + 3
      BY <1>3, Differences
    <3>3. r = 0 => Small((P[t] - P[k + 1]) + 3)
      <4>1. r # 0 \/ Small((Q[t] - Q[k + 1]) + 3)
        BY <3>1, <3>2
      <4> HIDE DEF P, Q, t, r
      <4> QED
        BY <4>1, <1>7, <1>9, LoopWithin
    <3>4. r = 0 => Small(P[t] - (P[k + 1] - 3))
      BY <3>2, <3>3
    <3> QED
      BY <1>11, <2>3, <3>4 DEF Representable, X86Representable
  <2>4. CASE o = "PUSH_OFFSET_ADDRESS"
    <3>1. /\ r = 0 => Q[t] - (Q[k] + 5 + 5) = 0
          /\ r = 1 => Small(Q[t] - (Q[k] + 5 + 5))
      BY <2>1, <2>4 DEF X86Encodable
    <3>2. /\ Q[t] - (Q[k] + 5 + 5) = (Q[t] - Q[k]) - 10
          /\ P[t] - (P[k] + 5 + 5) = (P[t] - P[k]) - 10
      BY <1>3, Differences
    <3>3. Q[k + 1] >= Q[k] + 11 /\ P[k + 1] >= P[k] + 11
      <4>1. Q[k + 1] = Q[k] + Size(k, Q[k], ss[k]) /\ P[k + 1] = P[k] + Size(k, P[k], rs[k])
        BY <1>1, PositionsStep
      <4>2. \A at : Size(k, at, r) \in {11, 14, 16}
        BY <1>11, <2>4 DEF Size, X86Size
      <4>3. Size(k, Q[k], ss[k]) \in {11, 14, 16} /\ Size(k, P[k], rs[k]) \in {11, 14, 16}
        BY <4>2
      <4> HIDE DEF P, Q, t, r
      <4> QED
        BY <4>1, <4>3, <1>3, SMTT(30)
    <3>4. /\ P[t] - P[k] >= 10 \/ Q[t] - Q[k] <= 0
          /\ (Q[t] - Q[k]) - 10 # 0
      <4> HIDE DEF P, Q, t, r
      <4>1. CASE t > k
        <5>1. P[k + 1] <= P[t] /\ P[t] - P[k + 1] <= Q[t] - Q[k + 1]
          BY <4>1, <1>4
        <5>2. P[t] - P[k] >= 10 /\ (Q[t] - Q[k]) - 10 # 0
          BY <5>1, <3>3, <1>3, Ahead
        <5> QED
          BY <5>2
      <4>2. CASE t <= k
        <5>1. P[t] <= P[k] /\ P[k] - P[t] <= Q[k] - Q[t]
          BY <4>2, <1>4
        <5> QED
          BY <5>1, <1>3, SMTT(30)
      <4> QED
        BY <4>1, <4>2, <1>5
    <3>5. r # 0
      BY <3>1, <3>2, <3>4
    <3>6. r = 1 => Small((P[t] - P[k]) - 10)
      <4>1. r # 1 \/ Small((Q[t] - Q[k]) - 10)
        BY <3>1, <3>2
      <4> HIDE DEF P, Q, t, r
      <4> QED
        BY <4>1, <3>4, <1>7, <1>8, PushWithin
    <3>7. r = 1 => Small(P[t] - (P[k] + 5 + 5))
      BY <3>2, <3>6
    <3> QED
      BY <1>11, <2>4, <3>5, <3>7 DEF Representable, X86Representable
  <2>5. CASE o = "DEFINED_WORD"
    BY <1>11, <2>5 DEF Representable, X86Representable
  <2> QED
    BY <2>2, <2>3, <2>4, <2>5 DEF Jumps
<1> QED
  BY <1>10, <1>11

-----------------------------------------------------------------------------
(* Types.                                                                  *)

(* The inductive invariant behind TypeOK.                                  *)
Typed ==
    /\ program \in Programs /\ backend \in Backends
    /\ relaxation = [k \in 1..Len(program) |-> relaxation[k]]
    /\ Relaxations(relaxation)
    /\ DOMAIN position = 1..(Len(program) + 1)
    /\ \A k \in 1..(Len(program) + 1) : position[k] \in 0..CodeLimit
    /\ stage \in {"solving", "solved", "dumped", "misencoded"}

(* A program starts unrelaxed, which every backend has an encoding for.    *)
LEMMA TypedInit == Init => Typed
<1> SUFFICES ASSUME Init PROVE Typed
  OBVIOUS
<1>1. program \in Programs /\ backend \in Backends
  BY DEF Init
<1>2. IsProgram(program) /\ backend \in {"vm", "x86_32", "esp32s3"}
  BY <1>1, ProgramShape, LayoutAssumption
<1>3. relaxation = [k \in 1..Len(program) |-> 0]
  BY <1>2 DEF Init, IsProgram
<1>4. Relaxations(relaxation)
  <2>1. \A o : MostRelaxed(o) \in 0..4
    BY <1>2, MostRelaxedRange
  <2>2. \A o : 0 \in 0..MostRelaxed(o)
    BY <2>1
  <2> QED
    BY <1>3, <2>2 DEF Relaxations
<1>5. position = [k \in 1..(Len(program) + 1) |-> 0]
  BY DEF Init
<1>6. 0 \in 0..CodeLimit
  BY CodeLimitNat
<1> QED
  BY <1>1, <1>3, <1>4, <1>5, <1>6 DEF Typed, Init

(* A round relaxes misfits only, and a misfit is not at the last encoding. *)
LEMMA TypedPass == Typed /\ Pass => Typed'
<1> SUFFICES ASSUME Typed, Pass PROVE Typed'
  OBVIOUS
<1>1. /\ program' = program /\ backend' = backend
      /\ program \in Programs /\ backend \in Backends
  BY DEF Pass, Typed
<1>2. IsProgram(program) /\ backend \in {"vm", "x86_32", "esp32s3"}
  BY <1>1, ProgramShape, LayoutAssumption
<1> DEFINE P == Positions(relaxation)
<1>3. Relaxations(relaxation) /\ position' = P
  BY DEF Typed, Pass
<1>4. DOMAIN P = 1..(Len(program) + 1)
  BY <1>2, <1>3, PositionsStep
<1>5. ASSUME NEW k \in 1..(Len(program) + 1) PROVE P[k] \in 0..CodeLimit
  <2>1. P[k] \in Nat /\ P[k] <= Farthest(program)[k]
        /\ Farthest(program)[k] <= Farthest(program)[Len(program) + 1]
    BY <1>2, <1>3, WithinFarthest
  <2>2. Farthest(program)[Len(program) + 1] <= CodeLimit
    BY <1>1, SizeAssumption
  <2>3. Farthest(program)[k] \in Nat /\ Farthest(program)[Len(program) + 1] \in Nat
    <3>1. Len(program) + 1 \in 1..(Len(program) + 1)
      BY <1>2 DEF IsProgram
    <3> QED
      BY <3>1, <1>2, FarthestStep
  <2> HIDE DEF P
  <2> QED
    BY <2>1, <2>2, <2>3, CodeLimitNat
<1>6. relaxation' = [k \in 1..Len(program) |->
                        IF k \in Misfits(P) THEN relaxation[k] + 1 ELSE relaxation[k]]
  BY <1>2, <1>3 DEF Pass, Relaxed, IsProgram
<1>7. ASSUME NEW k \in 1..Len(program)
      PROVE  relaxation'[k] \in 0..MostRelaxed(program[k].op)
  <2> DEFINE most == MostRelaxed(program[k].op)
  <2>1. relaxation[k] \in 0..most /\ most \in 0..4
    BY <1>2, <1>3, MostRelaxedRange DEF Relaxations
  <2>2. k \in Misfits(P) => relaxation[k] # most
    BY <1>1, <1>3, MostRelaxedFits DEF Misfits
  <2>3. relaxation'[k] = IF k \in Misfits(P) THEN relaxation[k] + 1 ELSE relaxation[k]
    BY <1>6
  <2> HIDE DEF most, P
  <2>4. relaxation'[k] \in 0..most
    BY <2>1, <2>2, <2>3
  <2> QED
    BY <2>4 DEF most
<1>8. Relaxations(relaxation)'
  <2>1. \A o : MostRelaxed(o)' = MostRelaxed(o)
    BY <1>1 DEF MostRelaxed
  <2> QED
    BY <1>1, <1>7, <2>1 DEF Relaxations
<1>9. stage' \in {"solving", "solved"}
  BY DEF Pass
<1>10. relaxation' = [k \in 1..Len(program) |-> relaxation'[k]]
  BY <1>6
<1> QED
  BY <1>1, <1>3, <1>4, <1>5, <1>8, <1>9, <1>10 DEF Typed

(* Writing the code changes the stage only.                                *)
LEMMA TypedRest == Typed /\ (Dump \/ UNCHANGED vars) => Typed'
<1> SUFFICES ASSUME Typed, Dump \/ UNCHANGED vars PROVE Typed'
  OBVIOUS
<1>1. UNCHANGED <<backend, program, relaxation, position>>
      /\ stage' \in {"solving", "solved", "dumped", "misencoded"}
  BY DEF Dump, vars, Typed
<1>2. \A o : MostRelaxed(o)' = MostRelaxed(o)
  BY <1>1 DEF MostRelaxed
<1>3. Relaxations(relaxation)'
  BY <1>1, <1>2 DEF Relaxations, Typed
<1> QED
  BY <1>1, <1>3 DEF Typed

(* Typed holds of every layout.                                            *)
LEMMA AlwaysTyped == Spec => []Typed
<1>1. Typed /\ [Next]_vars => Typed'
  BY TypedPass, TypedRest DEF Next
<1> QED
  BY TypedInit, <1>1, PTL DEF Spec

(* No fragment is relaxed beyond the encodings its backend has, so that no *)
(* backend reaches the assertion behind its last encoding, and no position *)
(* leaves the model's range, for every program and every backend.          *)
THEOREM LayoutTypes == Spec => []TypeOK
<1>1. Typed => TypeOK
  <2> SUFFICES ASSUME Typed PROVE TypeOK
    OBVIOUS
  <2>1. DOMAIN program = 1..Len(program)
    BY ProgramShape DEF Typed, IsProgram
  <2> QED
    BY <2>1 DEF Typed, TypeOK, Relaxations
<1> QED
  BY AlwaysTyped, <1>1, PTL

-----------------------------------------------------------------------------
(* The least layout.                                                       *)

(* Relaxations under which every displacement can be encoded.              *)
Fits(rs) == \A k \in 1..Len(program) : Encodable(k, Positions(rs), rs[k])

(* The inductive invariant behind LeastLayout: no round goes past any      *)
(* relaxations that fit, whether they will be reached or not.              *)
BelowFitting ==
    backend # "esp32s3" =>
        \A rs \in [1..Len(program) -> 0..2] :
            Relaxations(rs) /\ Fits(rs) =>
                \A k \in 1..Len(program) : relaxation[k] <= rs[k]

(* What fits depends on the program and the backend alone.                 *)
LEMMA SameFit ==
    ASSUME program' = program, backend' = backend, NEW CONSTANT rs
    PROVE  Relaxations(rs)' = Relaxations(rs) /\ Fits(rs)' = Fits(rs)
<1>1. Positions(rs)' = Positions(rs)
  BY DEF Positions, Size
<1>2. \A at, k, r : Encodable(k, at, r)' = Encodable(k, at, r)
  BY DEF Encodable, VmEncodable, X86Encodable, EspEncodable
<1>3. \A o : MostRelaxed(o)' = MostRelaxed(o)
  BY DEF MostRelaxed
<1> QED
  BY <1>1, <1>2, <1>3 DEF Relaxations, Fits

(* Unrelaxed code is below everything.                                     *)
LEMMA BelowFittingInit == Init => BelowFitting
<1> SUFFICES ASSUME Init PROVE BelowFitting
  OBVIOUS
<1>1. relaxation = [k \in 1..Len(program) |-> 0]
  BY ProgramShape DEF Init, IsProgram
<1> QED
  BY <1>1 DEF BelowFitting

(* A misfit that has come up to the relaxation of the fitting layout would *)
(* fit there already: its two ends lie no farther apart than in that one.  *)
LEMMA BelowFittingPass == Typed /\ BelowFitting /\ Pass => BelowFitting'
<1> SUFFICES ASSUME Typed, BelowFitting, Pass, backend' # "esp32s3",
                    NEW rs \in [1..Len(program') -> 0..2],
                    Relaxations(rs)', Fits(rs)',
                    NEW k \in 1..Len(program')
             PROVE  relaxation'[k] <= rs[k]
  BY DEF BelowFitting
<1>1. /\ program' = program /\ backend' = backend
      /\ program \in Programs /\ backend \in Backends
  BY DEF Pass, Typed
<1>2. IsProgram(program) /\ backend \in {"vm", "x86_32"}
  BY <1>1, ProgramShape, LayoutAssumption
<1> DEFINE P == Positions(relaxation)
<1>3. Relaxations(relaxation) /\ position' = P
  BY DEF Typed, Pass
<1>4. Relaxations(rs)
  BY <1>1, SameFit
<1>5. Fits(rs)
  BY <1>1, SameFit
<1>6. \A m \in 1..Len(program) : relaxation[m] <= rs[m]
  BY <1>1, <1>2, <1>4, <1>5 DEF BelowFitting
<1>7. relaxation'[k] = IF k \in Misfits(P) THEN relaxation[k] + 1 ELSE relaxation[k]
  BY <1>1, <1>2, <1>3 DEF Pass, Relaxed, IsProgram
<1>8. k \in Misfits(P) => relaxation[k] # rs[k]
  <2>1. relaxation[k] = rs[k] => Representable(k, P, relaxation[k])
    BY <1>1, <1>2, <1>3, <1>4, <1>5, <1>6, CloserFits DEF Fits
  <2> QED
    BY <2>1 DEF Misfits
<1>9. relaxation[k] \in Nat /\ rs[k] \in Nat /\ relaxation[k] <= rs[k]
  <2>1. relaxation[k] \in 0..MostRelaxed(program[k].op)
    BY <1>1, <1>3 DEF Relaxations
  <2> QED
    BY <1>1, <1>6, <2>1
<1> HIDE DEF P
<1> QED
  BY <1>7, <1>8, <1>9

(* Writing the code relaxes nothing.                                       *)
LEMMA BelowFittingRest == BelowFitting /\ (Dump \/ UNCHANGED vars) => BelowFitting'
<1> SUFFICES ASSUME BelowFitting, Dump \/ UNCHANGED vars PROVE BelowFitting'
  OBVIOUS
<1>1. UNCHANGED <<backend, program, relaxation, position>>
  BY DEF Dump, vars
<1>2. \A rs : Relaxations(rs)' = Relaxations(rs) /\ Fits(rs)' = Fits(rs)
  BY <1>1, SameFit
<1> QED
  BY <1>1, <1>2 DEF BelowFitting

(* Where the loop of compile.c:804-820 ends on the vm and the x86_32, no   *)
(* displacement can be shorter without another that is longer: whatever is *)
(* relaxed in a round is relaxed in every layout that fits.                *)
THEOREM LayoutIsLeast == Spec => []LeastLayout
<1>1. Typed /\ BelowFitting /\ [Next]_vars => BelowFitting'
  BY BelowFittingPass, BelowFittingRest DEF Next
<1>2. Typed /\ BelowFitting => LeastLayout
  <2> SUFFICES ASSUME Typed, BelowFitting, backend # "esp32s3",
                      NEW rs \in [DOMAIN program -> 0..2],
                      \A k \in DOMAIN program : rs[k] <= relaxation[k],
                      \A k \in DOMAIN program : Encodable(k, Positions(rs), rs[k])
               PROVE  rs = relaxation
    BY DEF LeastLayout
  <2>1. DOMAIN program = 1..Len(program)
    BY ProgramShape DEF Typed, IsProgram
  <2>2. backend \in {"vm", "x86_32", "esp32s3"}
    BY LayoutAssumption DEF Typed
  <2>3. ASSUME NEW k \in 1..Len(program)
        PROVE  /\ relaxation[k] \in Nat /\ rs[k] \in Nat
               /\ rs[k] \in 0..MostRelaxed(program[k].op)
    <3>1. relaxation[k] \in 0..MostRelaxed(program[k].op) /\ MostRelaxed(program[k].op) \in 0..4
      BY <2>2, MostRelaxedRange DEF Typed, Relaxations
    <3>2. rs[k] \in 0..2 /\ rs[k] <= relaxation[k]
      BY <2>1
    <3> QED
      BY <3>1, <3>2
  <2>4. Relaxations(rs) /\ Fits(rs)
    BY <2>1, <2>3 DEF Relaxations, Fits
  <2>5. \A k \in 1..Len(program) : relaxation[k] <= rs[k]
    BY <2>1, <2>4 DEF BelowFitting
  <2>6. ASSUME NEW k \in 1..Len(program) PROVE relaxation[k] = rs[k]
    BY <2>1, <2>3, <2>5
  <2>7. rs = [k \in 1..Len(program) |-> rs[k]]
    BY <2>1
  <2> QED
    BY <2>6, <2>7 DEF Typed
<1> QED
  BY AlwaysTyped, BelowFittingInit, <1>1, <1>2, PTL DEF Spec
=============================================================================
