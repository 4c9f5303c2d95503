--------------------------- MODULE TaskQueueProofs ---------------------------
(***************************************************************************)
(* Theorems about TaskQueue, for every set of threads, every capacity and  *)
(* every number of calls.                                                  *)
(***************************************************************************)
EXTENDS TaskQueue, Integers, FiniteSetTheorems, SequenceTheorems, TLAPS

(* What pthread_cond_signal does to the places of the threads: the caller  *)
(* goes on, at most sleepers on o are moved, to "lock", and if one sleeps  *)
(* and the condition is signalled one is moved.                            *)
LEMMA SignalEffect ==
    ASSUME TypeOK, NEW t \in Threads, at[t] \in Critical,
           NEW next \in Places, NEW when \in BOOLEAN, NEW o \in Ops,
           Signal(t, next, when, o)
    PROVE  /\ at' \in [Threads -> Places]
           /\ at'[t] = next
           /\ \A u \in Threads \ {t} :
                 \/ at'[u] = at[u]
                 \/ u \in Sleepers(o) /\ at'[u] = "lock"
           /\ when => \/ Sleepers(o) = {}
                      \/ \E w \in Sleepers(o) : w # t /\ at'[w] = "lock"
<1>1. CASE when /\ Sleepers(o) # {}
  <2>1. PICK w \in Sleepers(o) : at' = [at EXCEPT ![t] = next, ![w] = "lock"]
    BY <1>1 DEF Signal
  <2>2. w \in Threads /\ w # t
    BY DEF Sleepers, Critical
  <2> QED
    BY <2>1, <2>2 DEF TypeOK, Places
<1>2. CASE ~(when /\ Sleepers(o) # {})
  BY <1>2 DEF Signal, TypeOK
<1> QED
  BY <1>1, <1>2

(* The step of queue_put and queue_get that signals: the caller goes on to *)
(* its bookkeeping, and sleepers are at most woken.                        *)
LEMMA SignalStep ==
    ASSUME TypeOK, NEW t \in Threads, PutSignal(t) \/ GetSignal(t)
    PROVE  /\ at[t] = "signal" /\ at'[t] = "commit"
           /\ at' \in [Threads -> Places]
           /\ \A u \in Threads \ {t} :
                 at'[u] = at[u] \/ (at[u] = "asleep" /\ at'[u] = "lock")
           /\ UNCHANGED <<ring, mutex, op, el, calls, spurious, destroyed>>
<1>1. PICK o \in Ops, when \in BOOLEAN : Signal(t, "commit", when, o)
  <2>1. CASE PutSignal(t)
    <3>1. Signal(t, "commit", len = 0, "get")
      BY <2>1 DEF PutSignal
    <3>2. (len = 0) \in BOOLEAN /\ "get" \in Ops
      BY DEF Ops
    <3> QED
      BY <3>1, <3>2
  <2>2. CASE GetSignal(t)
    <3>1. Signal(t, "commit", len = nels, "put")
      BY <2>2 DEF GetSignal
    <3>2. (len = nels) \in BOOLEAN /\ "put" \in Ops
      BY DEF Ops
    <3> QED
      BY <3>1, <3>2
  <2> QED
    BY <2>1, <2>2
<1>2. at[t] = "signal" /\ UNCHANGED <<ring, mutex, op, el, calls, spurious, destroyed>>
  BY DEF PutSignal, GetSignal
<1>3. at[t] \in Critical /\ "commit" \in Places
  BY <1>2 DEF Critical, Places
<1>4. /\ at' \in [Threads -> Places] /\ at'[t] = "commit"
      /\ \A u \in Threads \ {t} :
            at'[u] = at[u] \/ (u \in Sleepers(o) /\ at'[u] = "lock")
  BY <1>1, <1>3, SignalEffect
<1> QED
  BY <1>2, <1>4 DEF Sleepers

(* The same of queue_task_done, which ends there.                          *)
LEMMA DoneStep ==
    ASSUME TypeOK, NEW t \in Threads, TaskDone(t)
    PROVE  /\ at[t] = "check" /\ at'[t] = "out"
           /\ at' \in [Threads -> Places]
           /\ \A u \in Threads \ {t} :
                 at'[u] = at[u] \/ (op[u] = "join" /\ at[u] = "asleep" /\ at'[u] = "lock")
<1>1. Signal(t, "out", unfinished' = 0, "join") /\ at[t] = "check"
  BY DEF TaskDone
<1>2. at[t] \in Critical /\ "out" \in Places /\ "join" \in Ops /\ (unfinished' = 0) \in BOOLEAN
  BY <1>1 DEF Critical, Places, Ops
<1>3. /\ at' \in [Threads -> Places] /\ at'[t] = "out"
      /\ \A u \in Threads \ {t} :
            at'[u] = at[u] \/ (u \in Sleepers("join") /\ at'[u] = "lock")
  BY <1>1, <1>2, SignalEffect
<1> QED
  BY <1>1, <1>3 DEF Sleepers

LEMMA InitQueueInv == Init => QueueInv
<1> SUFFICES ASSUME Init PROVE QueueInv
  OBVIOUS
<1> USE QueueAssumption
<1>1. TypeOK
  <2>1. nels \in Capacities /\ nels \in Nat /\ nels > 0
    BY DEF Init
  <2>2. slots \in [0..(nels - 1) -> Elements \cup {NoElement}]
    BY DEF Init
  <2>3. nextOut \in 0..(nels - 1) /\ len \in 0..nels /\ unfinished \in Nat
    BY <2>1 DEF Init
  <2>4. op \in [Threads -> Ops] /\ at \in [Threads -> Places]
    BY DEF Init, Ops, Places
  <2>5. el \in [Threads -> Elements \cup {NoElement}] /\ calls \in [Threads -> Nat]
    BY DEF Init
  <2> QED
    BY <2>1, <2>2, <2>3, <2>4, <2>5 DEF Init, TypeOK
<1>2. CallsFit /\ MutexHeld /\ InFlight /\ Announced
  BY DEF Init, CallsFit, MutexHeld, InFlight, Announced, Critical, Threads
<1>3. NoLostWakeup
  BY DEF Init, NoLostWakeup, Sleepers, Threads
<1> QED
  BY <1>1, <1>2, <1>3 DEF QueueInv

(* Facts about the state that every step uses.                             *)
LEMMA Basics ==
    ASSUME QueueInv
    PROVE  /\ nels \in Nat \ {0} /\ nextOut \in Nat /\ len \in Nat
           /\ nextOut < nels /\ len <= nels
           /\ \A i \in Nat : i < 2 * nels => Wrap(i) \in 0..(nels - 1)
<1> USE QueueAssumption
<1>1. nels \in Nat \ {0} /\ nextOut \in 0..(nels - 1) /\ len \in 0..nels
  BY DEF QueueInv, TypeOK
<1> QED
  BY <1>1 DEF Wrap

LEMMA StepTypeOK ==
    ASSUME QueueInv, NEW t \in Threads, Step(t) \/ SpuriousWakeup(t)
    PROVE  TypeOK'
<1> USE QueueAssumption
<1>a. TypeOK /\ CallsFit /\ InFlight
  BY DEF QueueInv
<1>b. nels \in Nat \ {0} /\ nextOut \in Nat /\ len \in Nat /\ nextOut < nels /\ len <= nels
  BY Basics
<1>1. CASE StartPut(t)
  <2>1. <<t, calls[t]>> \in Elements
    BY <1>1, <1>a DEF StartPut, Elements, CallsFit, TypeOK
  <2> QED
    BY <1>1, <1>a, <2>1 DEF StartPut, Start, TypeOK, ring, Ops, Places
<1>2. CASE StartGet(t) \/ StartTaskDone(t) \/ StartJoin(t)
  <2>1. op' \in [Threads -> Ops] /\ at' \in [Threads -> Places]
    BY <1>2, <1>a DEF StartGet, StartTaskDone, StartJoin, Start, TypeOK, Ops, Places
  <2>2. calls' \in [Threads -> Nat]
    BY <1>2, <1>a DEF StartGet, StartTaskDone, StartJoin, TypeOK
  <2> QED
    BY <1>2, <1>a, <2>1, <2>2 DEF StartGet, StartTaskDone, StartJoin, Start, TypeOK, ring
<1>3. CASE Lock(t) \/ Wait(t) \/ SpuriousWakeup(t)
  <2>1. at' \in [Threads -> Places] /\ mutex' \in Threads \cup {Nobody}
    BY <1>3, <1>a DEF Lock, Wait, SpuriousWakeup, TypeOK, Places
  <2>2. spurious' \in Nat
    BY <1>3, <1>a DEF Lock, Wait, SpuriousWakeup, TypeOK
  <2> QED
    BY <1>3, <1>a, <2>1, <2>2 DEF Lock, Wait, SpuriousWakeup, TypeOK, ring
<1>4. CASE PutCopy(t)
  BY <1>4, <1>a DEF PutCopy, TypeOK, Places
<1>5. CASE PutSignal(t) \/ GetSignal(t)
  <2>1. at' \in [Threads -> Places]
    BY <1>5, <1>a, SignalStep
  <2> QED
    BY <1>5, <1>a, <2>1 DEF PutSignal, GetSignal, TypeOK, ring
<1>6. CASE PutCommit(t)
  <2>1. len' \in 0..nels' /\ nextOut' \in 0..(nels' - 1)
    BY <1>6, <1>a, <1>b DEF PutCommit, InFlight
  <2> QED
    BY <1>6, <1>a, <2>1 DEF PutCommit, Return, TypeOK, Ops, Places
<1>7. CASE GetCopy(t)
  BY <1>7, <1>a DEF GetCopy, TypeOK, ring, Places
<1>8. CASE GetCommit(t)
  <2>1. len' \in 0..nels' /\ nextOut' \in 0..(nels' - 1)
    BY <1>8, <1>a, <1>b DEF GetCommit, InFlight, Wrap
  <2> QED
    BY <1>8, <1>a, <2>1 DEF GetCommit, Return, TypeOK, Ops, Places
<1>9. CASE TaskDone(t)
  <2>1. at' \in [Threads -> Places]
    BY <1>9, <1>a, DoneStep
  <2>2. unfinished' \in Nat
    BY <1>9, <1>a DEF TaskDone, TypeOK
  <2> QED
    BY <1>9, <1>a, <2>1, <2>2 DEF TaskDone, Return, TypeOK, Ops
<1>10. CASE JoinReturn(t)
  BY <1>10, <1>a DEF JoinReturn, Return, TypeOK, ring, Ops, Places
<1>11. CASE Destroy(t)
  BY <1>11, <1>a DEF Destroy, TypeOK, ring
<1> QED
  BY <1>1, <1>2, <1>3, <1>4, <1>5, <1>6, <1>7, <1>8, <1>9, <1>10, <1>11 DEF Step

LEMMA StepCallsFit ==
    ASSUME QueueInv, NEW t \in Threads, Step(t) \/ SpuriousWakeup(t)
    PROVE  CallsFit'
<1> USE QueueAssumption
<1>a. TypeOK /\ CallsFit
  BY DEF QueueInv
<1>b. \A u \in Threads : calls[u] \in Nat /\ Calls[u] \in Nat
  BY <1>a DEF TypeOK
<1>1. CASE StartPut(t)
  BY <1>1, <1>a, <1>b DEF StartPut, Start, TypeOK, CallsFit
<1>2. CASE StartGet(t)
  BY <1>2, <1>a, <1>b DEF StartGet, Start, TypeOK, CallsFit
<1>3. CASE StartTaskDone(t)
  BY <1>3, <1>a, <1>b DEF StartTaskDone, Start, TypeOK, CallsFit
<1>4. CASE StartJoin(t)
  BY <1>4, <1>a, <1>b DEF StartJoin, Start, TypeOK, CallsFit
<1>5. CASE Lock(t) \/ SpuriousWakeup(t)
  BY <1>5, <1>a DEF Lock, SpuriousWakeup, TypeOK, CallsFit
<1>6. CASE Wait(t)
  BY <1>6, <1>a DEF Wait, Blocked, TypeOK, CallsFit
<1>7. CASE PutCopy(t)
  BY <1>7, <1>a DEF PutCopy, TypeOK, CallsFit
<1>8. CASE PutSignal(t) \/ GetSignal(t)
  <2>1. /\ at'[t] = "commit"
        /\ \A u \in Threads \ {t} :
              at'[u] = at[u] \/ (at[u] = "asleep" /\ at'[u] = "lock")
    BY <1>8, <1>a, SignalStep
  <2> QED
    BY <1>8, <1>a, <2>1 DEF PutSignal, GetSignal, CallsFit, TypeOK
<1>9. CASE PutCommit(t)
  BY <1>9, <1>a DEF PutCommit, Return, TypeOK, CallsFit
<1>10. CASE GetCopy(t)
  BY <1>10, <1>a DEF GetCopy, TypeOK, CallsFit
<1>11. CASE GetCommit(t)
  BY <1>11, <1>a DEF GetCommit, Return, TypeOK, CallsFit
<1>12. CASE TaskDone(t)
  <2>1. /\ at'[t] = "out"
        /\ \A u \in Threads \ {t} :
              at'[u] = at[u] \/ (at[u] = "asleep" /\ at'[u] = "lock")
    BY <1>12, <1>a, DoneStep
  <2> QED
    BY <1>12, <1>a, <2>1 DEF TaskDone, Return, CallsFit, TypeOK
<1>13. CASE JoinReturn(t)
  BY <1>13, <1>a DEF JoinReturn, Return, TypeOK, CallsFit
<1>14. CASE Destroy(t)
  BY <1>14, <1>a DEF Destroy, CallsFit
<1> QED
  BY <1>1, <1>2, <1>3, <1>4, <1>5, <1>6, <1>7, <1>8, <1>9, <1>10, <1>11, <1>12,
     <1>13, <1>14 DEF Step

LEMMA StepMutexHeld ==
    ASSUME QueueInv, NEW t \in Threads, Step(t) \/ SpuriousWakeup(t)
    PROVE  MutexHeld'
<1> USE QueueAssumption
<1>a. TypeOK /\ CallsFit /\ MutexHeld
  BY DEF QueueInv
<1>1. CASE StartPut(t) \/ StartGet(t) \/ StartTaskDone(t) \/ StartJoin(t)
  <2>1. /\ op[t] = "none" /\ at' = [at EXCEPT ![t] = "lock"] /\ mutex' = mutex
    BY <1>1 DEF StartPut, StartGet, StartTaskDone, StartJoin, Start
  <2> QED
    BY <2>1, <1>a DEF TypeOK, CallsFit, MutexHeld, Critical
<1>2. CASE Lock(t)
  BY <1>2, <1>a DEF Lock, TypeOK, MutexHeld, Critical
<1>3. CASE Wait(t)
  BY <1>3, <1>a DEF Wait, TypeOK, MutexHeld, Critical
<1>4. CASE SpuriousWakeup(t)
  BY <1>4, <1>a DEF SpuriousWakeup, TypeOK, MutexHeld, Critical
<1>5. CASE PutCopy(t) \/ GetCopy(t)
  BY <1>5, <1>a DEF PutCopy, GetCopy, TypeOK, MutexHeld, Critical, ring
<1>6. CASE PutSignal(t) \/ GetSignal(t)
  <2>1. /\ at'[t] = "commit" /\ at[t] = "signal" /\ mutex' = mutex
        /\ \A u \in Threads \ {t} :
              at'[u] = at[u] \/ (at[u] = "asleep" /\ at'[u] = "lock")
    BY <1>6, <1>a, SignalStep
  <2> QED
    BY <2>1, <1>a DEF MutexHeld, Critical
<1>7. CASE PutCommit(t) \/ GetCommit(t) \/ JoinReturn(t)
  BY <1>7, <1>a DEF PutCommit, GetCommit, JoinReturn, Return, TypeOK, MutexHeld, Critical
<1>8. CASE TaskDone(t)
  <2>1. /\ at'[t] = "out" /\ at[t] = "check" /\ mutex' = Nobody
        /\ \A u \in Threads \ {t} :
              at'[u] = at[u] \/ (at[u] = "asleep" /\ at'[u] = "lock")
    BY <1>8, <1>a, DoneStep DEF TaskDone, Return
  <2> QED
    BY <2>1, <1>a DEF MutexHeld, Critical
<1>9. CASE Destroy(t)
  BY <1>9, <1>a DEF Destroy, MutexHeld
<1> QED
  BY <1>1, <1>2, <1>3, <1>4, <1>5, <1>6, <1>7, <1>8, <1>9 DEF Step

LEMMA StepInFlight ==
    ASSUME QueueInv, NEW t \in Threads, Step(t) \/ SpuriousWakeup(t)
    PROVE  InFlight'
<1> USE QueueAssumption
<1>a. TypeOK /\ CallsFit /\ MutexHeld /\ InFlight
  BY DEF QueueInv
<1>b. MutexHeld'
  BY StepMutexHeld
<1>c. nels \in Nat \ {0} /\ nextOut \in Nat /\ len \in Nat /\ nextOut < nels /\ len <= nels
      /\ \A i \in Nat : i < 2 * nels => Wrap(i) \in 0..(nels - 1)
  BY Basics
<1>1. CASE StartPut(t) \/ StartGet(t) \/ StartTaskDone(t) \/ StartJoin(t)
  <2>1. /\ at' = [at EXCEPT ![t] = "lock"] /\ op' = [op EXCEPT ![t] = op'[t]]
        /\ UNCHANGED ring /\ \A u \in Threads \ {t} : el'[u] = el[u]
    BY <1>1, <1>a DEF StartPut, StartGet, StartTaskDone, StartJoin, Start, TypeOK
  <2> QED
    BY <2>1, <1>a DEF TypeOK, InFlight, ring, Wrap
<1>2. CASE Lock(t) \/ SpuriousWakeup(t) \/ Wait(t) \/ Destroy(t)
  <2>1. /\ at'[t] \notin {"signal", "commit"} \/ at'[t] = at[t]
        /\ \A u \in Threads \ {t} : at'[u] = at[u]
        /\ UNCHANGED <<ring, op, el>>
    BY <1>2, <1>a DEF Lock, SpuriousWakeup, Wait, Destroy, TypeOK
  <2> QED
    BY <2>1, <1>a DEF TypeOK, InFlight, ring, Wrap
<1>3. CASE PutCopy(t)
  <2>1. mutex' = t
    BY <1>3, <1>a DEF PutCopy, MutexHeld, Critical
  <2>2. \A u \in Threads \ {t} : at'[u] \notin {"signal", "commit"}
    BY <2>1, <1>b DEF MutexHeld, Critical
  <2>3. len' < nels' /\ slots'[Wrap(nextOut + len)] = el'[t]
    BY <1>3, <1>a, <1>c DEF PutCopy, Blocked, TypeOK
  <2>4. op'[t] = "put" /\ Wrap(nextOut + len)' = Wrap(nextOut + len)
    BY <1>3 DEF PutCopy, Wrap
  <2> QED
    BY <2>2, <2>3, <2>4 DEF InFlight
<1>4. CASE PutSignal(t) \/ GetSignal(t)
  <2>1. mutex' = t
    BY <1>4, <1>a DEF PutSignal, GetSignal, MutexHeld, Critical
  <2>2. \A u \in Threads \ {t} : at'[u] \notin {"signal", "commit"}
    BY <2>1, <1>b DEF MutexHeld, Critical
  <2>3. UNCHANGED <<ring, op, el>> /\ at[t] = "signal"
    BY <1>4 DEF PutSignal, GetSignal
  <2> QED
    BY <2>2, <2>3, <1>a DEF InFlight, ring, Wrap
<1>5. CASE GetCopy(t)
  <2>1. mutex' = t
    BY <1>5, <1>a DEF GetCopy, MutexHeld, Critical
  <2>2. \A u \in Threads \ {t} : at'[u] \notin {"signal", "commit"}
    BY <2>1, <1>b DEF MutexHeld, Critical
  <2>3. len' > 0 /\ slots'[nextOut'] = el'[t] /\ op'[t] = "get"
    BY <1>5, <1>a, <1>c DEF GetCopy, Blocked, TypeOK, ring
  <2> QED
    BY <2>2, <2>3 DEF InFlight
<1>6. CASE PutCommit(t) \/ GetCommit(t) \/ TaskDone(t) \/ JoinReturn(t)
  <2>1. mutex' = Nobody
    BY <1>6 DEF PutCommit, GetCommit, TaskDone, JoinReturn, Return
  <2>2. \A u \in Threads : at'[u] \notin {"signal", "commit"}
    BY <2>1, <1>b DEF MutexHeld, Critical
  <2> QED
    BY <2>2 DEF InFlight
<1> QED
  BY <1>1, <1>2, <1>3, <1>4, <1>5, <1>6 DEF Step

(* The waiting side of a step.  Sleepers(o) and OnTheWay(o) change only as *)
(* follows when nobody but t leaves a call.                                *)
LEMMA Woken ==
    ASSUME QueueInv, NEW t \in Threads, NEW next \in {"commit", "out"},
           NEW when \in BOOLEAN, NEW o \in {"put", "get", "join"},
           at[t] \in Critical, Signal(t, next, when, o), op[t] # o,
           \A u \in Threads \ {t} : op'[u] = op[u]
    PROVE  /\ when => (Sleepers(o)' = {} \/ OnTheWay(o)')
           /\ OnTheWay(o) => OnTheWay(o)'
           /\ \A q \in {"put", "get", "join"} : Sleepers(q)' \subseteq Sleepers(q)
<1>a. TypeOK
  BY DEF QueueInv
<1>1. /\ at'[t] = next
      /\ \A u \in Threads \ {t} : at'[u] = at[u] \/ (u \in Sleepers(o) /\ at'[u] = "lock")
      /\ when => (Sleepers(o) = {} \/ \E w \in Sleepers(o) : w # t /\ at'[w] = "lock")
  BY <1>a, SignalEffect DEF Places, Ops
<1>2. \A q \in {"put", "get", "join"} : Sleepers(q)' \subseteq Sleepers(q)
  BY <1>1 DEF Sleepers
<1>3. OnTheWay(o) => OnTheWay(o)'
  BY <1>1 DEF OnTheWay, Sleepers
<1>4. when => (Sleepers(o)' = {} \/ OnTheWay(o)')
  BY <1>1, <1>2 DEF OnTheWay, Sleepers
<1> QED
  BY <1>2, <1>3, <1>4

LEMMA StepAnnounced ==
    ASSUME QueueInv, NEW t \in Threads, Step(t) \/ SpuriousWakeup(t)
    PROVE  Announced'
<1> USE QueueAssumption
<1>a. TypeOK /\ CallsFit /\ MutexHeld /\ Announced
  BY DEF QueueInv
<1>b. MutexHeld'
  BY StepMutexHeld
<1>1. CASE StartPut(t) \/ StartGet(t) \/ StartTaskDone(t) \/ StartJoin(t)
  <2>1. /\ op[t] = "none" /\ at[t] = "out"
        /\ at' = [at EXCEPT ![t] = "lock"] /\ op' = [op EXCEPT ![t] = op'[t]]
        /\ UNCHANGED ring
    BY <1>1, <1>a DEF StartPut, StartGet, StartTaskDone, StartJoin, Start, TypeOK, CallsFit
  <2>2. \A q \in {"put", "get"} : /\ Sleepers(q)' \subseteq Sleepers(q)
                                  /\ OnTheWay(q) => OnTheWay(q)'
    BY <2>1, <1>a DEF Sleepers, OnTheWay, TypeOK
  <2> QED
    BY <2>1, <2>2, <1>a DEF Announced, TypeOK, ring
<1>2. CASE Lock(t) \/ SpuriousWakeup(t)
  <2>1. /\ at[t] \in {"lock", "asleep"} /\ at'[t] \in {"lock", "check"}
        /\ \A u \in Threads \ {t} : at'[u] = at[u]
        /\ UNCHANGED <<ring, op>>
    BY <1>2, <1>a DEF Lock, SpuriousWakeup, TypeOK
  <2>2. \A q \in {"put", "get"} : /\ Sleepers(q)' \subseteq Sleepers(q)
                                  /\ OnTheWay(q) => OnTheWay(q)'
    BY <2>1 DEF Sleepers, OnTheWay
  <2> QED
    BY <2>1, <2>2, <1>a DEF Announced, ring
<1>3. CASE Wait(t) \/ PutCommit(t) \/ GetCommit(t) \/ TaskDone(t) \/ JoinReturn(t)
  <2>1. mutex' = Nobody
    BY <1>3 DEF Wait, PutCommit, GetCommit, TaskDone, JoinReturn, Return
  <2> QED
    BY <2>1, <1>b DEF Announced, MutexHeld, Critical
<1>4. CASE PutCopy(t) \/ GetCopy(t)
  <2>1. mutex' = t /\ at'[t] = "signal"
    BY <1>4, <1>a DEF PutCopy, GetCopy, MutexHeld, Critical, TypeOK
  <2> QED
    BY <2>1, <1>b DEF Announced, MutexHeld, Critical
<1>5. CASE PutSignal(t)
  <2>1. mutex' = t /\ op'[t] = "put" /\ len' = len
    BY <1>5, <1>a DEF PutSignal, MutexHeld, Critical, ring
  <2>2. len = 0 => (Sleepers("get")' = {} \/ OnTheWay("get")')
    BY <1>5, Woken DEF PutSignal, Critical
  <2> QED
    BY <2>1, <2>2, <1>b DEF Announced, MutexHeld, Critical
<1>6. CASE GetSignal(t)
  <2>1. mutex' = t /\ op'[t] = "get" /\ len' = len /\ nels' = nels
    BY <1>6, <1>a DEF GetSignal, MutexHeld, Critical, ring
  <2>2. len = nels => (Sleepers("put")' = {} \/ OnTheWay("put")')
    BY <1>6, Woken DEF GetSignal, Critical
  <2> QED
    BY <2>1, <2>2, <1>b DEF Announced, MutexHeld, Critical
<1>7. CASE Destroy(t)
  BY <1>7, <1>a DEF Destroy, Announced, Sleepers, OnTheWay, ring
<1> QED
  BY <1>1, <1>2, <1>3, <1>4, <1>5, <1>6, <1>7 DEF Step

(* A step that moves no thread to sleep, makes none leave its way and      *)
(* changes no while condition loses no wakeup.                             *)
LEMMA Calm ==
    ASSUME NoLostWakeup, nels' = nels, NEW o \in {"put", "get", "join"},
           Blocked(o)' \/ (~Blocked(o) /\ Sleepers(o)' \subseteq Sleepers(o)
                           /\ (OnTheWay(o) => OnTheWay(o)'))
    PROVE  SignalsSuffice(o)' /\ Sleepers(o)' # {} /\ ~Blocked(o)' => OnTheWay(o)'
<1>1. SignalsSuffice(o)' <=> SignalsSuffice(o)
  BY DEF SignalsSuffice, Lone
<1> QED
  BY <1>1 DEF NoLostWakeup

(* A thread that leaves the only call of its kind leaves no sleeper behind. *)
LEMMA LoneLeaves ==
    ASSUME QueueInv, CallsFit', NEW t \in Threads, NEW o \in {"put", "get", "join"},
           op[t] = o, op'[t] = "none",
           o = "put" => Lone(Producers), o = "get" => Lone(Consumers),
           o = "join" => Lone(Joiners)
    PROVE  Sleepers(o)' = {}
<1> USE QueueAssumption
<1>1. ASSUME NEW u \in Threads, op'[u] = o PROVE u = t
  <2>1. /\ o = "put" => u \in Producers
        /\ o = "get" => u \in Consumers
        /\ o = "join" => u \in Joiners
    BY <1>1 DEF CallsFit
  <2>2. /\ o = "put" => t \in Producers
        /\ o = "get" => t \in Consumers
        /\ o = "join" => t \in Joiners
    BY DEF QueueInv, CallsFit
  <2> QED
    BY <2>1, <2>2 DEF Lone
<1> QED
  BY <1>1 DEF Sleepers

LEMMA StepNoLostWakeup ==
    ASSUME QueueInv, NEW t \in Threads, Step(t) \/ SpuriousWakeup(t)
    PROVE  NoLostWakeup'
<1> USE QueueAssumption
<1>a. TypeOK /\ CallsFit /\ NoLostWakeup /\ MutexHeld /\ Announced /\ InFlight
  BY DEF QueueInv
<1>b. CallsFit' /\ MutexHeld'
  BY StepCallsFit, StepMutexHeld
<1>c. nels \in Nat \ {0} /\ len \in Nat /\ len <= nels /\ unfinished \in Nat
  BY Basics, <1>a DEF TypeOK
<1>d. nels' = nels
  BY DEF Step, SpuriousWakeup, StartPut, StartGet, StartTaskDone, StartJoin, Start,
         Lock, Wait, PutCopy, PutSignal, PutCommit, GetCopy, GetSignal, GetCommit,
         TaskDone, JoinReturn, Destroy, ring
<1> SUFFICES ASSUME NEW o \in {"put", "get", "join"},
                    SignalsSuffice(o)', Sleepers(o)' # {}, ~Blocked(o)'
             PROVE  OnTheWay(o)'
  BY DEF NoLostWakeup
<1>1. CASE StartPut(t) \/ StartGet(t) \/ StartTaskDone(t) \/ StartJoin(t)
  <2>1. /\ op[t] = "none" /\ at[t] = "out"
        /\ at' = [at EXCEPT ![t] = "lock"] /\ op' = [op EXCEPT ![t] = op'[t]]
        /\ UNCHANGED ring
    BY <1>1, <1>a DEF StartPut, StartGet, StartTaskDone, StartJoin, Start, TypeOK, CallsFit
  <2>2. Sleepers(o)' \subseteq Sleepers(o) /\ (OnTheWay(o) => OnTheWay(o)')
    BY <2>1, <1>a DEF Sleepers, OnTheWay, TypeOK
  <2>3. Blocked(o)' <=> Blocked(o)
    BY <2>1 DEF Blocked, ring
  <2> QED
    BY <2>2, <2>3, <1>a, <1>d, Calm
<1>2. CASE Lock(t) \/ SpuriousWakeup(t) \/ PutCopy(t) \/ GetCopy(t)
  <2>1. /\ at'[t] \in {"lock", "check", "signal"}
        /\ \A u \in Threads \ {t} : at'[u] = at[u]
        /\ UNCHANGED <<nels, len, unfinished, op>>
    BY <1>2, <1>a DEF Lock, SpuriousWakeup, PutCopy, GetCopy, TypeOK, ring
  <2>2. Sleepers(o)' \subseteq Sleepers(o) /\ (OnTheWay(o) => OnTheWay(o)')
    BY <2>1 DEF Sleepers, OnTheWay
  <2>3. Blocked(o)' <=> Blocked(o)
    BY <2>1 DEF Blocked
  <2> QED
    BY <2>2, <2>3, <1>a, <1>d, Calm
<1>3. CASE Wait(t)
  <2>1. /\ at' = [at EXCEPT ![t] = "asleep"] /\ UNCHANGED <<ring, op>>
        /\ Blocked(op[t])
    BY <1>3 DEF Wait
  <2>2. Blocked(o)' <=> Blocked(o)
    BY <2>1 DEF Blocked, ring
  <2>3. o # op[t]
    BY <2>1, <2>2
  <2>4. Sleepers(o)' \subseteq Sleepers(o) /\ (OnTheWay(o) => OnTheWay(o)')
    BY <2>1, <2>3, <1>a DEF Sleepers, OnTheWay, TypeOK
  <2> QED
    BY <2>2, <2>4, <1>a, <1>d, Calm
<1>4. CASE PutSignal(t) \/ GetSignal(t)
  <2>1. /\ at'[t] = "commit" /\ UNCHANGED <<ring, op>>
        /\ \A u \in Threads \ {t} :
              at'[u] = at[u] \/ (at[u] = "asleep" /\ at'[u] = "lock")
    BY <1>4, <1>a, SignalStep
  <2>2. Sleepers(o)' \subseteq Sleepers(o) /\ (OnTheWay(o) => OnTheWay(o)')
    BY <2>1 DEF Sleepers, OnTheWay
  <2>3. Blocked(o)' <=> Blocked(o)
    BY <2>1 DEF Blocked, ring
  <2> QED
    BY <2>2, <2>3, <1>a, <1>d, Calm
<1>5. CASE PutCommit(t)
  <2>1. /\ op[t] = "put" /\ at[t] = "commit" /\ len' = len + 1
        /\ unfinished' = unfinished + 1 /\ op'[t] = "none" /\ at'[t] = "out"
        /\ \A u \in Threads \ {t} : at'[u] = at[u] /\ op'[u] = op[u]
    BY <1>5, <1>a DEF PutCommit, Return, TypeOK
  <2>2. o # "join"
    BY <2>1, <1>c DEF Blocked
  <2>3. CASE o = "get"
    <3>1. Sleepers("get")' = Sleepers("get") /\ (OnTheWay("get") => OnTheWay("get")')
      BY <2>1 DEF Sleepers, OnTheWay
    <3>2. CASE len = 0
      BY <3>1, <3>2, <2>1, <2>3, <1>a DEF Announced
    <3>3. CASE len # 0
      BY <3>1, <3>3, <2>3, <1>a, <1>d, Calm DEF Blocked
    <3> QED
      BY <3>2, <3>3
  <2>4. CASE o = "put"
    <3>1. nels # 1
      BY <2>1, <2>4, <1>a, <1>c, <1>d DEF Blocked, InFlight
    <3>2. Lone(Producers)
      BY <3>1, <2>4, <1>d DEF SignalsSuffice, Lone
    <3> QED
      BY <3>2, <2>1, <2>4, <1>b, LoneLeaves
  <2> QED
    BY <2>2, <2>3, <2>4
<1>6. CASE GetCommit(t)
  <2>1. /\ op[t] = "get" /\ at[t] = "commit" /\ len' = len - 1
        /\ unfinished' = unfinished /\ op'[t] = "none" /\ at'[t] = "out"
        /\ \A u \in Threads \ {t} : at'[u] = at[u] /\ op'[u] = op[u]
    BY <1>6, <1>a DEF GetCommit, Return, TypeOK
  <2>2. CASE o = "join"
    <3>1. Sleepers("join")' \subseteq Sleepers("join") /\ (OnTheWay("join") => OnTheWay("join")')
      BY <2>1 DEF Sleepers, OnTheWay
    <3> QED
      BY <3>1, <2>1, <2>2, <1>a, <1>d, Calm DEF Blocked
  <2>3. CASE o = "put"
    <3>1. Sleepers("put")' = Sleepers("put") /\ (OnTheWay("put") => OnTheWay("put")')
      BY <2>1 DEF Sleepers, OnTheWay
    <3>2. CASE len = nels
      BY <3>1, <3>2, <2>1, <2>3, <1>a DEF Announced
    <3>3. CASE len # nels
      BY <3>1, <3>3, <2>3, <1>a, <1>d, Calm DEF Blocked
    <3> QED
      BY <3>2, <3>3
  <2>4. CASE o = "get"
    <3>1. nels # 1
      BY <2>1, <2>4, <1>a, <1>c, <1>d DEF Blocked, InFlight
    <3>2. Lone(Consumers)
      BY <3>1, <2>4, <1>d DEF SignalsSuffice, Lone
    <3> QED
      BY <3>2, <2>1, <2>4, <1>b, LoneLeaves
  <2> QED
    BY <2>2, <2>3, <2>4
<1>7. CASE TaskDone(t)
  <2>1. /\ op[t] = "task_done" /\ at[t] = "check" /\ op'[t] = "none"
        /\ len' = len /\ unfinished' = unfinished - 1
        /\ \A u \in Threads \ {t} : op'[u] = op[u]
        /\ Signal(t, "out", unfinished' = 0, "join")
    BY <1>7, <1>a DEF TaskDone, Return, TypeOK
  <2>2. /\ unfinished' = 0 => (Sleepers("join")' = {} \/ OnTheWay("join")')
        /\ \A q \in {"put", "get", "join"} : Sleepers(q)' \subseteq Sleepers(q)
    BY <2>1, Woken DEF Critical
  <2>3. CASE o = "join"
    BY <2>2, <2>3 DEF Blocked
  <2>4. CASE o # "join"
    <3>1. /\ at'[t] = "out"
          /\ \A u \in Threads \ {t} :
                at'[u] = at[u] \/ (op[u] = "join" /\ at'[u] = "lock")
      BY <1>7, <1>a, DoneStep
    <3>2. OnTheWay(o) => OnTheWay(o)'
      BY <3>1, <2>1, <2>4 DEF OnTheWay
    <3>3. Blocked(o)' <=> Blocked(o)
      BY <2>1, <2>4, <1>d DEF Blocked
    <3> QED
      BY <3>2, <3>3, <2>2, <1>a, <1>d, Calm
  <2> QED
    BY <2>3, <2>4
<1>8. CASE JoinReturn(t)
  <2>1. /\ op[t] = "join" /\ op'[t] = "none" /\ at'[t] = "out" /\ UNCHANGED ring
        /\ \A u \in Threads \ {t} : at'[u] = at[u] /\ op'[u] = op[u]
    BY <1>8, <1>a DEF JoinReturn, Return, TypeOK
  <2>2. CASE o = "join"
    BY <2>1, <2>2, <1>b, LoneLeaves DEF SignalsSuffice, Lone
  <2>3. CASE o # "join"
    <3>1. Sleepers(o)' \subseteq Sleepers(o) /\ (OnTheWay(o) => OnTheWay(o)')
      BY <2>1, <2>3 DEF Sleepers, OnTheWay
    <3>2. Blocked(o)' <=> Blocked(o)
      BY <2>1 DEF Blocked, ring
    <3> QED
      BY <3>1, <3>2, <1>a, <1>d, Calm
  <2> QED
    BY <2>2, <2>3
<1>9. CASE Destroy(t)
  BY <1>9, <1>a DEF Destroy, NoLostWakeup, SignalsSuffice, Sleepers, Blocked, OnTheWay,
                    ring, Lone
<1> QED
  BY <1>1, <1>2, <1>3, <1>4, <1>5, <1>6, <1>7, <1>8, <1>9 DEF Step

-----------------------------------------------------------------------------
(* The invariant is inductive.                                             *)
LEMMA StepQueueInv == QueueInv /\ [Next]_vars => QueueInv'
<1> SUFFICES ASSUME QueueInv, [Next]_vars PROVE QueueInv'
  OBVIOUS
<1>1. CASE Next
  BY <1>1, StepTypeOK, StepCallsFit, StepMutexHeld, StepInFlight, StepAnnounced,
     StepNoLostWakeup DEF Next, QueueInv
<1>2. CASE UNCHANGED vars
  BY <1>2, SMTT(30) DEF vars, ring, QueueInv, TypeOK, CallsFit, MutexHeld, InFlight, Announced,
              NoLostWakeup, SignalsSuffice, Sleepers, Blocked, OnTheWay, Wrap, Lone
<1> QED
  BY <1>1, <1>2

(* In every reachable state, with any number of threads and any capacity,  *)
(* the fields of queue_t are in range, the mutex has the one holder the    *)
(* calls imply, and an operation in flight finds its slot untouched.       *)
THEOREM QueueInvariant == Spec => []QueueInv
<1>1. QueueInv /\ [Next]_vars => QueueInv'
  BY StepQueueInv
<1> QED
  BY <1>1, InitQueueInv, PTL DEF Spec

(* Type correctness: in particular next_out always indexes buf, and len    *)
(* stays between 0 and nels.                                               *)
THEOREM TypeCorrect == Spec => []TypeOK
<1>1. QueueInv => TypeOK
  BY DEF QueueInv
<1> QED
  BY <1>1, QueueInvariant, PTL

(* runtime_threadutil.c:65, 94 and 120 signal once, and only on a change   *)
(* from empty, from full or to all done; that wakes everybody it has to    *)
(* whenever nels is one or each condition has at most one waiter.          *)
THEOREM NoWakeupIsLost == Spec => []NoLostWakeup
<1>1. QueueInv => NoLostWakeup
  BY DEF QueueInv
<1> QED
  BY <1>1, QueueInvariant, PTL

-----------------------------------------------------------------------------
(* The elements in the ring as a sequence.                                 *)

(* A sequence is the function of its entries.                              *)
LEMMA SeqAsFunction ==
    ASSUME NEW S, NEW s \in Seq(S)
    PROVE  s = [i \in 1..Len(s) |-> s[i]]
BY LenProperties

(* What the ring holds are len entries of buf.                             *)
LEMMA ContentsType ==
    ASSUME QueueInv
    PROVE  /\ Contents \in Seq(Elements \cup {NoElement})
           /\ Len(Contents) = len
           /\ DOMAIN Contents = 1..len
<1>1. \A i \in 1..len : Wrap(nextOut + i - 1) \in 0..(nels - 1)
  BY Basics DEF Wrap
<1>2. slots \in [0..(nels - 1) -> Elements \cup {NoElement}] /\ len \in Nat
  BY Basics DEF QueueInv, TypeOK
<1>3. Contents \in [1..len -> Elements \cup {NoElement}]
  BY <1>1, <1>2 DEF Contents
<1> QED
  BY <1>2, <1>3

(* Writing the next free slot leaves the elements in the ring alone.       *)
LEMMA CopyKeepsContents ==
    ASSUME QueueInv, NEW t \in Threads, PutCopy(t)
    PROVE  Contents' = Contents
<1>1. /\ nels \in Nat \ {0} /\ nextOut \in Nat /\ len \in Nat
      /\ nextOut < nels /\ len < nels
  BY Basics DEF PutCopy, Blocked
<1>2. \A i \in 1..len : Wrap(nextOut + i - 1) # Wrap(nextOut + len)
  BY <1>1 DEF Wrap
<1>3. \A i \in 1..len : slots'[Wrap(nextOut + i - 1)] = slots[Wrap(nextOut + i - 1)]
  <2>1. \A i \in 1..len : Wrap(nextOut + i - 1) \in 0..(nels - 1)
    BY <1>1 DEF Wrap
  <2>2. slots' = [slots EXCEPT ![Wrap(nextOut + len)] = el[t]]
    BY DEF PutCopy
  <2>3. DOMAIN slots = 0..(nels - 1)
    BY DEF QueueInv, TypeOK
  <2> QED
    BY <2>1, <2>2, <2>3, <1>2
<1>4. len' = len /\ nextOut' = nextOut /\ nels' = nels
  BY DEF PutCopy
<1> QED
  BY <1>3, <1>4 DEF Contents, Wrap

(* The commit of a put makes the copied element the newest of the ring.    *)
LEMMA CommitAppends ==
    ASSUME QueueInv, NEW t \in Threads, PutCommit(t)
    PROVE  Contents' = Append(Contents, el[t])
<1>1. /\ len' = len + 1 /\ nextOut' = nextOut /\ nels' = nels /\ slots' = slots
      /\ slots[Wrap(nextOut + len)] = el[t] /\ len \in Nat /\ nextOut \in Nat
  BY Basics DEF PutCommit, QueueInv, InFlight
<1>2. Contents' = [i \in 1..(len + 1) |-> slots[Wrap(nextOut + i - 1)]]
  BY <1>1 DEF Contents, Wrap
<1>3. nextOut + (len + 1) - 1 = nextOut + len
  BY <1>1
<1>4. Append(Contents, el[t]) =
         [i \in 1..(len + 1) |-> IF i = len + 1 THEN el[t] ELSE Contents[i]]
  BY ContentsType, <1>1 DEF Contents
<1>5. \A i \in 1..(len + 1) : i # len + 1 => i \in 1..len
  BY <1>1
<1> QED
  BY <1>1, <1>2, <1>3, <1>4, <1>5 DEF Contents

(* The commit of a get removes the oldest, which is the one copied.        *)
LEMMA CommitRemoves ==
    ASSUME QueueInv, NEW t \in Threads, GetCommit(t)
    PROVE  /\ Contents # <<>>
           /\ Head(Contents) = el[t]
           /\ Contents' = Tail(Contents)
<1>1. /\ len' = len - 1 /\ nextOut' = Wrap(nextOut + 1) /\ nels' = nels /\ slots' = slots
      /\ slots[nextOut] = el[t] /\ len \in Nat /\ len > 0 /\ nextOut \in Nat
      /\ nels \in Nat \ {0} /\ nextOut < nels /\ len <= nels
  BY Basics DEF GetCommit, QueueInv, InFlight
<1>2. Len(Contents) = len /\ DOMAIN Contents = 1..len
  BY ContentsType
<1>3. Contents # <<>>
  BY <1>1, <1>2
<1>4. Wrap(nextOut + 1 - 1) = nextOut
  BY <1>1 DEF Wrap
<1>5. Head(Contents) = el[t]
  BY <1>1, <1>4 DEF Contents
<1>6. Tail(Contents) = [i \in 1..(len - 1) |-> Contents[i + 1]]
  <2>1. /\ Tail(Contents) \in Seq(Elements \cup {NoElement})
        /\ Len(Tail(Contents)) = len - 1
        /\ \A i \in 1..Len(Tail(Contents)) : Tail(Contents)[i] = Contents[i + 1]
    BY <1>2, <1>3, ContentsType, HeadTailProperties
  <2>2. Tail(Contents) = [i \in 1..(len - 1) |-> Tail(Contents)[i]]
    BY <2>1, SeqAsFunction
  <2> QED
    BY <2>1, <2>2
<1>7. \A i \in 1..(len - 1) : i + 1 \in 1..len
  BY <1>1
<1>8. \A i \in 1..(len - 1) : Wrap(Wrap(nextOut + 1) + i - 1) = Wrap(nextOut + (i + 1) - 1)
  BY <1>1 DEF Wrap
<1>9. Contents' = [i \in 1..(len - 1) |-> slots[Wrap(Wrap(nextOut + 1) + i - 1)]]
  BY <1>1 DEF Contents, Wrap
<1> QED
  BY <1>3, <1>5, <1>6, <1>7, <1>8, <1>9 DEF Contents

-----------------------------------------------------------------------------
(* What the fields count.                                                  *)

(* A step that leaves the ring, the hands and the pending calls alone.     *)
Uncounted ==
    /\ Contents' = Contents /\ len' = len /\ unfinished' = unfinished
    /\ Holding' = Holding /\ OwedPuts' = OwedPuts /\ OwedGets' = OwedGets

LEMMA UncountedKeeps ==
    ASSUME Filled, Tally, Served, Uncounted
    PROVE  Filled' /\ Tally' /\ Served'
BY DEF Filled, Tally, Served, Uncounted

(* The sizes that are counted are numbers.                                 *)
LEMMA Sizes ==
    ASSUME Tally
    PROVE  /\ Cardinality(Holding) \in Nat
           /\ IsFiniteSet(OwedPuts) /\ Cardinality(OwedPuts) \in Nat
           /\ IsFiniteSet(OwedGets) /\ Cardinality(OwedGets) \in Nat
<1>1. OwedPuts \in SUBSET Elements /\ OwedGets \in SUBSET Requests
  BY DEF OwedPuts, OwedGets
<1>2. IsFiniteSet(OwedPuts) /\ IsFiniteSet(OwedGets)
  BY <1>1, WorkloadAssumption, FS_Subset
<1> QED
  BY <1>2, FS_CardinalityType DEF Tally

(* A thread that commits its put has one call less to count.               *)
LEMMA PutCommitted ==
    ASSUME QueueInv, NEW t \in Threads, PutCommit(t)
    PROVE  /\ <<t, calls[t] + 1>> \in OwedPuts
           /\ OwedPuts' = OwedPuts \ {<<t, calls[t] + 1>>}
           /\ OwedGets' = OwedGets
           /\ Holding' = Holding
<1> USE QueueAssumption
<1>1. /\ t \in Producers /\ t \notin Consumers /\ calls' = calls
      /\ op[t] = "put" /\ op'[t] = "none"
      /\ calls[t] \in Nat /\ Calls[t] \in Nat /\ calls[t] < Calls[t]
      /\ \A u \in Threads \ {t} : op'[u] = op[u] /\ el'[u] = el[u]
  BY DEF PutCommit, Return, QueueInv, TypeOK, CallsFit
<1>2. Pending(t, "put") = calls[t] + 1 /\ Pending(t, "put")' = calls[t]
  BY <1>1 DEF Pending
<1>3. \A u \in Threads \ {t} : Pending(u, "put")' = Pending(u, "put")
  BY <1>1 DEF Pending
<1>4. \A c \in Consumers : c # t /\ Pending(c, "get")' = Pending(c, "get")
  BY <1>1 DEF Pending, Threads
<1>5. <<t, calls[t] + 1>> \in OwedPuts
  BY <1>1, <1>2 DEF OwedPuts, Elements
<1>6. ASSUME NEW e \in Elements
      PROVE  e[2] <= Pending(e[1], "put")' <=>
                e[2] <= Pending(e[1], "put") /\ e # <<t, calls[t] + 1>>
  <2>1. PICK p \in Producers : \E k \in 1..Calls[p] : e = <<p, k>>
    BY DEF Elements
  <2>2. PICK k \in 1..Calls[p] : e = <<p, k>>
    BY <2>1
  <2>3. p \in Threads /\ k \in Nat
    BY <2>2 DEF Threads
  <2> QED
    BY <2>2, <2>3, <1>1, <1>2, <1>3
<1>7. OwedPuts' = OwedPuts \ {<<t, calls[t] + 1>>}
  BY <1>6 DEF OwedPuts
<1>8. ASSUME NEW e \in Requests
      PROVE  Pending(e[1], "get")' = Pending(e[1], "get")
  BY <1>4 DEF Requests
<1>9. OwedGets' = OwedGets
  BY <1>8 DEF OwedGets
<1>10. Holding' = Holding
  BY <1>1 DEF Holding, Threads
<1> QED
  BY <1>5, <1>7, <1>9, <1>10

(* A thread that commits its get has one call less to count and a task in  *)
(* hand.                                                                   *)
LEMMA GetCommitted ==
    ASSUME QueueInv, Filled, NEW t \in Threads, GetCommit(t)
    PROVE  /\ <<t, calls[t] + 1>> \in OwedGets
           /\ OwedGets' = OwedGets \ {<<t, calls[t] + 1>>}
           /\ OwedPuts' = OwedPuts
           /\ t \notin Holding /\ Holding' = Holding \cup {t}
<1> USE QueueAssumption
<1>1. /\ t \in Consumers /\ t \notin Producers /\ calls' = calls /\ el' = el
      /\ op[t] = "get" /\ op'[t] = "none"
      /\ calls[t] \in Nat /\ Calls[t] \in Nat /\ calls[t] < Calls[t]
      /\ \A u \in Threads \ {t} : op'[u] = op[u]
  BY DEF GetCommit, Return, QueueInv, TypeOK, CallsFit
<1>2. Pending(t, "get") = calls[t] + 1 /\ Pending(t, "get")' = calls[t]
  BY <1>1 DEF Pending
<1>3. \A u \in Threads \ {t} : Pending(u, "get")' = Pending(u, "get")
  BY <1>1 DEF Pending
<1>4. \A c \in Producers : c # t /\ Pending(c, "put")' = Pending(c, "put")
  BY <1>1 DEF Pending, Threads
<1>5. <<t, calls[t] + 1>> \in OwedGets
  BY <1>1, <1>2 DEF OwedGets, Requests
<1>6. ASSUME NEW e \in Requests
      PROVE  e[2] <= Pending(e[1], "get")' <=>
                e[2] <= Pending(e[1], "get") /\ e # <<t, calls[t] + 1>>
  <2>1. PICK p \in Consumers : \E k \in 1..Calls[p] : e = <<p, k>>
    BY DEF Requests
  <2>2. PICK k \in 1..Calls[p] : e = <<p, k>>
    BY <2>1
  <2>3. p \in Threads /\ k \in Nat
    BY <2>2 DEF Threads
  <2> QED
    BY <2>2, <2>3, <1>1, <1>2, <1>3
<1>7. OwedGets' = OwedGets \ {<<t, calls[t] + 1>>}
  BY <1>6 DEF OwedGets
<1>8. ASSUME NEW e \in Elements
      PROVE  Pending(e[1], "put")' = Pending(e[1], "put")
  BY <1>4 DEF Elements
<1>9. OwedPuts' = OwedPuts
  BY <1>8 DEF OwedPuts
<1>10. el[t] # NoElement
  <2>1. Contents[1] = el[t]
    BY CommitRemoves, ContentsType
  <2>2. 1 \in 1..len
    BY Basics DEF GetCommit, QueueInv, InFlight
  <2> QED
    BY <2>1, <2>2 DEF Filled
<1>11. t \notin Holding /\ Holding' = Holding \cup {t}
  BY <1>1, <1>10 DEF Holding, Threads
<1> QED
  BY <1>5, <1>7, <1>9, <1>11

(* Calls pending as before are counted as before.                          *)
LEMMA PendingKept ==
    ASSUME \A p \in Producers : Pending(p, "put")' = Pending(p, "put"),
           \A c \in Consumers : Pending(c, "get")' = Pending(c, "get")
    PROVE  OwedPuts' = OwedPuts /\ OwedGets' = OwedGets
<1>1. \A e \in Elements : Pending(e[1], "put")' = Pending(e[1], "put")
  BY DEF Elements
<1>2. \A r \in Requests : Pending(r[1], "get")' = Pending(r[1], "get")
  BY DEF Requests
<1> QED
  BY <1>1, <1>2 DEF OwedPuts, OwedGets

(* Until it commits, no call is counted otherwise than before it began:    *)
(* neither beginning one, nor sleeping, waking, copying or signalling.     *)
LEMMA UncountedSteps ==
    ASSUME QueueInv, NEW t \in Threads,
           \/ StartPut(t) \/ StartGet(t) \/ StartTaskDone(t) \/ StartJoin(t)
           \/ Lock(t) \/ Wait(t) \/ SpuriousWakeup(t) \/ PutCopy(t) \/ PutSignal(t)
           \/ GetCopy(t) \/ GetSignal(t) \/ JoinReturn(t) \/ Destroy(t)
    PROVE  Uncounted
<1> USE QueueAssumption
<1>a. TypeOK /\ CallsFit
  BY DEF QueueInv
<1>1. Contents' = Contents /\ len' = len /\ unfinished' = unfinished
  <2>1. CASE PutCopy(t)
    BY <2>1, CopyKeepsContents DEF PutCopy
  <2>2. CASE ~PutCopy(t)
    BY <2>2 DEF StartPut, StartGet, StartTaskDone, StartJoin, Start, Lock, Wait,
       SpuriousWakeup, PutSignal, GetCopy, GetSignal, JoinReturn, Destroy, ring,
       Contents, Wrap
  <2> QED
    BY <2>1, <2>2
<1>2. CASE StartPut(t)
  <2>1. /\ t \notin Consumers /\ op[t] = "none" /\ op'[t] = "put"
        /\ calls[t] \in Nat /\ calls'[t] = calls[t] - 1
        /\ \A u \in Threads \ {t} : /\ op'[u] = op[u] /\ calls'[u] = calls[u]
                                    /\ el'[u] = el[u]
    BY <1>2, <1>a DEF StartPut, Start, TypeOK
  <2>2. Holding' = Holding
    BY <2>1 DEF Holding, Threads
  <2>3. \A u \in Producers : Pending(u, "put")' = Pending(u, "put")
    BY <2>1 DEF Pending, Threads
  <2>4. \A u \in Consumers : Pending(u, "get")' = Pending(u, "get")
    BY <2>1 DEF Pending, Threads
  <2> QED
    BY <1>1, <2>2, <2>3, <2>4, PendingKept DEF Uncounted
<1>3. CASE StartGet(t)
  <2>1. /\ t \notin Producers /\ op[t] = "none" /\ op'[t] = "get" /\ el' = el
        /\ calls[t] \in Nat /\ calls'[t] = calls[t] - 1 /\ el[t] = NoElement
        /\ \A u \in Threads \ {t} : op'[u] = op[u] /\ calls'[u] = calls[u]
    BY <1>3, <1>a DEF StartGet, Start, TypeOK
  <2>2. Holding' = Holding
    BY <2>1 DEF Holding, Threads
  <2>3. \A u \in Producers : Pending(u, "put")' = Pending(u, "put")
    BY <2>1 DEF Pending, Threads
  <2>4. \A u \in Consumers : Pending(u, "get")' = Pending(u, "get")
    BY <2>1 DEF Pending, Threads
  <2> QED
    BY <1>1, <2>2, <2>3, <2>4, PendingKept DEF Uncounted
<1>4. CASE StartTaskDone(t) \/ StartJoin(t) \/ JoinReturn(t)
  <2>1. /\ op[t] \notin {"put", "get"} /\ op'[t] \notin {"put", "get"} /\ el' = el
        /\ calls'[t] # calls[t] => t \in Joiners
        /\ \A u \in Threads \ {t} : op'[u] = op[u] /\ calls'[u] = calls[u]
    BY <1>4, <1>a DEF StartTaskDone, StartJoin, JoinReturn, Return, Start, TypeOK
  <2>2. Holding' = Holding
    BY <2>1 DEF Holding, Threads
  <2>3. \A u \in Producers : Pending(u, "put")' = Pending(u, "put")
    BY <2>1 DEF Pending, Threads
  <2>4. \A u \in Consumers : Pending(u, "get")' = Pending(u, "get")
    BY <2>1 DEF Pending, Threads
  <2> QED
    BY <1>1, <2>2, <2>3, <2>4, PendingKept DEF Uncounted
<1>5. CASE Lock(t) \/ Wait(t) \/ SpuriousWakeup(t) \/ PutCopy(t) \/ PutSignal(t)
           \/ GetSignal(t) \/ Destroy(t)
  BY <1>5, <1>1 DEF Lock, Wait, SpuriousWakeup, PutCopy, PutSignal, GetSignal, Destroy,
     Uncounted, Holding, OwedPuts, OwedGets, Pending
<1>6. CASE GetCopy(t)
  <2>1. /\ op[t] = "get" /\ op' = op /\ calls' = calls
        /\ \A u \in Threads \ {t} : el'[u] = el[u]
    BY <1>6, <1>a DEF GetCopy, TypeOK
  <2>2. Holding' = Holding
    BY <2>1 DEF Holding, Threads
  <2> QED
    BY <1>1, <2>1, <2>2 DEF Uncounted, OwedPuts, OwedGets, Pending
<1> QED
  BY <1>2, <1>3, <1>4, <1>5, <1>6

(* A commit of a put counts one more of both.                              *)
LEMMA PutCounts ==
    ASSUME QueueInv, Filled, Tally, Served, NEW t \in Threads, PutCommit(t)
    PROVE  Filled' /\ Tally' /\ Served'
<1> USE QueueAssumption
<1>1. /\ <<t, calls[t] + 1>> \in OwedPuts
      /\ OwedPuts' = OwedPuts \ {<<t, calls[t] + 1>>}
      /\ OwedGets' = OwedGets /\ Holding' = Holding
  BY PutCommitted
<1>2. /\ Contents' = Append(Contents, el[t]) /\ len' = len + 1
      /\ unfinished' = unfinished + 1 /\ len \in Nat
  BY CommitAppends, Basics DEF PutCommit
<1>3. el[t] # NoElement
  <2>1. /\ t \in Producers /\ el[t] = <<t, calls[t] + 1>> /\ calls[t] < Calls[t]
        /\ calls[t] \in Nat /\ Calls[t] \in Nat
    BY DEF PutCommit, QueueInv, CallsFit, TypeOK
  <2>2. el[t] \in Elements
    BY <2>1 DEF Elements
  <2> QED
    BY <2>2
<1>4. Filled'
  <2>1. \A i \in 1..(len + 1) : Append(Contents, el[t])[i] =
                                    IF i = len + 1 THEN el[t] ELSE Contents[i]
    BY <1>2, ContentsType
  <2>2. ASSUME NEW i \in 1..(len + 1) PROVE Append(Contents, el[t])[i] # NoElement
    <3> DEFINE A == Append(Contents, el[t])
    <3>1. A[i] = IF i = len + 1 THEN el[t] ELSE Contents[i]
      BY <2>1
    <3>2. i # len + 1 => i \in 1..len
      BY <1>2
    <3>3. i # len + 1 => Contents[i] # NoElement
      BY <3>2 DEF Filled
    <3> HIDE DEF A
    <3>4. A[i] # NoElement
      BY <3>1, <3>3, <1>3
    <3> QED
      BY <3>4 DEF A
  <2> QED
    BY <2>2, <1>2 DEF Filled
<1>5. Tally'
  BY <1>1, <1>2, Sizes DEF Tally
<1>6. Cardinality(OwedPuts') = Cardinality(OwedPuts) - 1
  <2> DEFINE e == <<t, calls[t] + 1>>
  <2>1. e \in OwedPuts /\ OwedPuts' = OwedPuts \ {e} /\ IsFiniteSet(OwedPuts)
    BY <1>1, Sizes
  <2> HIDE DEF e
  <2> QED
    BY <2>1, FS_RemoveElement
<1>7. Served'
  BY <1>1, <1>2, <1>6, Sizes DEF Served
<1> QED
  BY <1>4, <1>5, <1>7

(* A commit of a get moves one task from the ring into a hand.             *)
LEMMA GetCounts ==
    ASSUME QueueInv, Filled, Tally, Served, NEW t \in Threads, GetCommit(t)
    PROVE  Filled' /\ Tally' /\ Served'
<1>1. /\ <<t, calls[t] + 1>> \in OwedGets
      /\ OwedGets' = OwedGets \ {<<t, calls[t] + 1>>}
      /\ OwedPuts' = OwedPuts
      /\ t \notin Holding /\ Holding' = Holding \cup {t}
  BY GetCommitted
<1>2. /\ Contents # <<>> /\ Contents' = Tail(Contents) /\ len' = len - 1
      /\ unfinished' = unfinished /\ len \in Nat /\ len > 0
  BY CommitRemoves, Basics DEF GetCommit, QueueInv, InFlight
<1>3. Filled'
  <2>1. \A i \in 1..(len - 1) : Tail(Contents)[i] = Contents[i + 1]
    BY <1>2, ContentsType, HeadTailProperties
  <2>2. ASSUME NEW i \in 1..(len - 1) PROVE Tail(Contents)[i] # NoElement
    <3>1. i + 1 \in 1..len
      BY <1>2
    <3> QED
      BY <2>1, <3>1 DEF Filled
  <2> QED
    BY <2>2, <1>2 DEF Filled
<1>4. /\ IsFiniteSet(Holding') /\ Cardinality(Holding') = Cardinality(Holding) + 1
  BY <1>1, FS_AddElement DEF Tally
<1>5. Tally'
  BY <1>2, <1>4, Sizes DEF Tally
<1>6. Cardinality(OwedGets') = Cardinality(OwedGets) - 1
  <2> DEFINE e == <<t, calls[t] + 1>>
  <2>1. e \in OwedGets /\ OwedGets' = OwedGets \ {e} /\ IsFiniteSet(OwedGets)
    BY <1>1, Sizes
  <2> HIDE DEF e
  <2> QED
    BY <2>1, FS_RemoveElement
<1>7. Served'
  BY <1>1, <1>2, <1>6, Sizes DEF Served
<1> QED
  BY <1>3, <1>5, <1>7

(* A report takes one task out of a hand.                                  *)
LEMMA DoneCounts ==
    ASSUME QueueInv, Filled, Tally, Served, NEW t \in Threads, TaskDone(t)
    PROVE  Filled' /\ Tally' /\ Served'
<1> USE QueueAssumption
<1>1. /\ t \in Consumers /\ t \notin Producers /\ el[t] # NoElement
      /\ op[t] = "task_done" /\ op'[t] = "none" /\ el'[t] = NoElement
      /\ calls' = calls /\ UNCHANGED <<nels, slots, nextOut, len>>
      /\ unfinished' = unfinished - 1
      /\ \A u \in Threads \ {t} : op'[u] = op[u] /\ el'[u] = el[u]
  BY DEF TaskDone, Return, QueueInv, TypeOK, CallsFit
<1>2. t \in Holding /\ Holding' = Holding \ {t}
  BY <1>1 DEF Holding, Threads
<1>3. OwedPuts' = OwedPuts /\ OwedGets' = OwedGets
  <2>1. \A u \in Producers : Pending(u, "put")' = Pending(u, "put")
    BY <1>1 DEF Pending, Threads
  <2>2. \A u \in Consumers : Pending(u, "get")' = Pending(u, "get")
    BY <1>1 DEF Pending, Threads
  <2> QED
    BY <2>1, <2>2, PendingKept
<1>4. Contents' = Contents /\ len' = len /\ len \in Nat
  BY <1>1, Basics DEF Contents, Wrap
<1>5. IsFiniteSet(Holding') /\ Cardinality(Holding') = Cardinality(Holding) - 1
  BY <1>2, FS_RemoveElement DEF Tally
<1>6. Tally'
  BY <1>1, <1>4, <1>5, Sizes DEF Tally
<1> QED
  BY <1>3, <1>4, <1>6 DEF Filled, Served

(* Producers that are through do not come back, so that nothing is put     *)
(* behind the last join.                                                   *)
LEMMA StepJoinedLast ==
    ASSUME QueueInv, JoinedLast, NEW t \in Threads, Step(t) \/ SpuriousWakeup(t)
    PROVE  JoinedLast'
<1> USE QueueAssumption
<1>a. TypeOK /\ CallsFit
  BY DEF QueueInv
<1> SUFFICES ASSUME NEW j \in Joiners, calls'[j] = 0
             PROVE  AllPutsReturned' /\ (op'[j] = "none" => unfinished' = 0)
  BY DEF JoinedLast
<1>j. j \in Threads /\ j \notin Producers /\ j \notin Consumers /\ calls[j] \in Nat
  BY <1>a DEF Threads, TypeOK
<1>1. ASSUME calls[j] = 0, AllPutsReturned
      PROVE  ~PutCommit(t) /\ AllPutsReturned'
  <2>1. ~PutCommit(t) /\ ~StartPut(t) /\ ~PutCopy(t) /\ ~PutSignal(t)
    BY <1>1, <1>a DEF PutCommit, StartPut, PutCopy, PutSignal, AllPutsReturned, CallsFit
  <2>2. \A p \in Producers : calls'[p] = calls[p] /\ op'[p] = op[p]
    <3>1. CASE StartGet(t) \/ StartTaskDone(t) \/ StartJoin(t)
      <4>1. t \notin Producers
        BY <3>1 DEF StartGet, StartTaskDone, StartJoin
      <4> QED
        BY <3>1, <4>1, <1>a DEF StartGet, StartTaskDone, StartJoin, Start, TypeOK, Threads
    <3>2. CASE GetCommit(t) \/ TaskDone(t) \/ JoinReturn(t)
      <4>1. t \notin Producers
        BY <3>2, <1>a DEF GetCommit, TaskDone, JoinReturn, CallsFit
      <4> QED
        BY <3>2, <4>1, <1>a DEF GetCommit, TaskDone, JoinReturn, Return, TypeOK, Threads
    <3>3. CASE \/ Lock(t) \/ Wait(t) \/ SpuriousWakeup(t) \/ GetCopy(t)
               \/ GetSignal(t) \/ Destroy(t)
      BY <3>3 DEF Lock, Wait, SpuriousWakeup, GetCopy, GetSignal, Destroy
    <3> QED
      BY <2>1, <3>1, <3>2, <3>3 DEF Step
  <2> QED
    BY <1>1, <2>1, <2>2 DEF AllPutsReturned
<1>2. CASE StartJoin(t) /\ t = j
  <2>1. calls[j] = 1 /\ op'[j] = "join" /\ op' = [op EXCEPT ![j] = "join"]
    BY <1>2, <1>a, <1>j DEF StartJoin, Start, TypeOK
  <2>2. AllPutsReturned
    BY <1>2, <2>1 DEF StartJoin
  <2>3. AllPutsReturned'
    BY <1>2, <1>a, <1>j, <2>1, <2>2 DEF StartJoin, AllPutsReturned, TypeOK, Threads
  <2> QED
    BY <2>1, <2>3
<1>3. CASE ~(StartJoin(t) /\ t = j)
  <2>1. calls[j] = 0
    <3>1. CASE StartPut(t) \/ StartGet(t) \/ StartJoin(t)
      BY <3>1, <1>3, <1>a, <1>j DEF StartPut, StartGet, StartJoin, TypeOK
    <3>2. CASE ~(StartPut(t) \/ StartGet(t) \/ StartJoin(t))
      BY <3>2 DEF Step, SpuriousWakeup, StartTaskDone, Lock, Wait, PutCopy, PutSignal,
         PutCommit, GetCopy, GetSignal, GetCommit, TaskDone, JoinReturn, Destroy
    <3> QED
      BY <3>1, <3>2
  <2>2. AllPutsReturned /\ (op[j] = "none" => unfinished = 0)
    BY <2>1 DEF JoinedLast
  <2>3. ~PutCommit(t) /\ AllPutsReturned'
    BY <2>1, <2>2, <1>1
  <2>4. ASSUME op'[j] = "none" PROVE unfinished' = 0
    <3>1. CASE JoinReturn(t)
      <4>1. unfinished = 0 /\ unfinished' = unfinished
        BY <3>1 DEF JoinReturn, Blocked, ring
      <4> QED
        BY <4>1
    <3>2. CASE TaskDone(t)
      <4>1. t # j /\ op'[j] = op[j]
        BY <3>2, <1>j, <1>a DEF TaskDone, CallsFit, Return, TypeOK
      <4> QED
        BY <3>2, <4>1, <2>2, <2>4 DEF TaskDone
    <3>3. CASE ~JoinReturn(t) /\ ~TaskDone(t)
      <4>1. op'[j] = op[j] \/ op'[j] # "none" \/ (t = j /\ op[j] \in {"put", "get"})
        <5>1. CASE StartPut(t) \/ StartGet(t) \/ StartTaskDone(t) \/ StartJoin(t)
          BY <5>1, <1>a, <1>j DEF StartPut, StartGet, StartTaskDone, StartJoin, Start, TypeOK
        <5>2. CASE GetCommit(t)
          BY <5>2, <1>a, <1>j DEF GetCommit, Return, TypeOK
        <5>3. CASE \/ Lock(t) \/ Wait(t) \/ SpuriousWakeup(t) \/ PutCopy(t)
                   \/ PutSignal(t) \/ GetCopy(t) \/ GetSignal(t) \/ Destroy(t)
          BY <5>3 DEF Lock, Wait, SpuriousWakeup, PutCopy, PutSignal, GetCopy,
             GetSignal, Destroy
        <5> QED
          BY <3>3, <2>3, <5>1, <5>2, <5>3 DEF Step
      <4>2. unfinished' = unfinished
        BY <3>3, <2>3 DEF Step, SpuriousWakeup, StartPut, StartGet, StartTaskDone,
           StartJoin, Start, Lock, Wait, PutCopy, PutSignal, GetCopy, GetSignal,
           GetCommit, Destroy, ring
      <4>3. op[j] \notin {"put", "get"}
        BY <1>a, <1>j DEF CallsFit
      <4> QED
        BY <4>1, <4>2, <4>3, <2>2, <2>4
    <3> QED
      BY <3>1, <3>2, <3>3
  <2> QED
    BY <2>3, <2>4
<1> QED
  BY <1>2, <1>3

(* Joiners that are through do not come back behind the destruction.       *)
LEMMA StepDestroyedLast ==
    ASSUME QueueInv, DestroyedLast, NEW t \in Threads, Step(t) \/ SpuriousWakeup(t)
    PROVE  DestroyedLast'
<1> USE QueueAssumption
<1>a. TypeOK /\ CallsFit
  BY DEF QueueInv
<1>1. CASE Destroy(t)
  BY <1>1 DEF Destroy, DestroyedLast
<1>2. CASE ~Destroy(t)
  <2>1. destroyed' = destroyed
    BY <1>2 DEF Step, SpuriousWakeup, StartPut, StartGet, StartTaskDone, StartJoin, Start,
       Lock, Wait, PutCopy, PutSignal, PutCommit, GetCopy, GetSignal, GetCommit,
       TaskDone, JoinReturn
  <2> SUFFICES ASSUME destroyed, NEW j \in Joiners
               PROVE  calls'[j] = 0 /\ op'[j] = "none"
    BY <2>1 DEF DestroyedLast
  <2>2. j \in Threads /\ j \notin Producers /\ j \notin Consumers
        /\ calls[j] = 0 /\ op[j] = "none"
    BY DEF DestroyedLast, Threads
  <2>3. CASE StartPut(t) \/ StartGet(t) \/ StartTaskDone(t) \/ StartJoin(t)
    <3>1. t # j
      BY <2>2, <2>3 DEF StartPut, StartGet, StartTaskDone, StartJoin
    <3> QED
      BY <2>2, <2>3, <3>1, <1>a DEF StartPut, StartGet, StartTaskDone, StartJoin, Start, TypeOK
  <2>4. CASE PutCommit(t) \/ GetCommit(t) \/ TaskDone(t) \/ JoinReturn(t)
    BY <2>2, <2>4, <1>a DEF PutCommit, GetCommit, TaskDone, JoinReturn, Return, TypeOK
  <2>5. CASE \/ Lock(t) \/ Wait(t) \/ SpuriousWakeup(t) \/ PutCopy(t) \/ PutSignal(t)
             \/ GetCopy(t) \/ GetSignal(t)
    BY <2>2, <2>5 DEF Lock, Wait, SpuriousWakeup, PutCopy, PutSignal, GetCopy, GetSignal
  <2> QED
    BY <1>2, <2>3, <2>4, <2>5 DEF Step
<1> QED
  BY <1>1, <1>2

(* Before the first call everything there is to count is a call to come.   *)
LEMMA InitCountInv == Init => CountInv
<1> SUFFICES ASSUME Init PROVE CountInv
  OBVIOUS
<1> USE QueueAssumption
<1>1. Filled
  BY DEF Init, Filled
<1>2. Tally
  <2>1. Holding = {}
    BY DEF Init, Holding, Threads
  <2> QED
    BY <2>1, FS_EmptySet DEF Init, Tally
<1>3. Served
  <2>1. OwedPuts = Elements
    BY DEF Init, OwedPuts, Elements, Pending, Threads
  <2>2. OwedGets = Requests
    BY DEF Init, OwedGets, Requests, Pending, Threads
  <2>3. Cardinality(Elements) \in Nat
    BY WorkloadAssumption, FS_CardinalityType
  <2>4. len = 0
    BY DEF Init
  <2> QED
    BY <2>1, <2>2, <2>3, <2>4, WorkloadAssumption DEF Served
<1>4. JoinedLast /\ DestroyedLast
  BY WorkloadAssumption DEF Init, JoinedLast, DestroyedLast
<1> QED
  BY <1>1, <1>2, <1>3, <1>4 DEF CountInv

(* What the fields count is preserved by every step.                       *)
LEMMA StepCountInv == QueueInv /\ CountInv /\ [Next]_vars => CountInv'
<1> SUFFICES ASSUME QueueInv, CountInv, [Next]_vars PROVE CountInv'
  OBVIOUS
<1>a. Filled /\ Tally /\ Served /\ JoinedLast /\ DestroyedLast
  BY DEF CountInv
<1>1. ASSUME NEW t \in Threads, Step(t) \/ SpuriousWakeup(t) PROVE CountInv'
  <2>1. JoinedLast' /\ DestroyedLast'
    BY <1>1, <1>a, StepJoinedLast, StepDestroyedLast
  <2>2. CASE PutCommit(t) \/ GetCommit(t) \/ TaskDone(t)
    BY <2>1, <2>2, <1>a, PutCounts, GetCounts, DoneCounts DEF CountInv
  <2>3. CASE ~(PutCommit(t) \/ GetCommit(t) \/ TaskDone(t))
    <3>1. Uncounted
      BY <1>1, <2>3, UncountedSteps DEF Step
    <3> QED
      BY <3>1, <2>1, <1>a, UncountedKeeps DEF CountInv
  <2> QED
    BY <2>2, <2>3
<1>2. CASE Next
  BY <1>1, <1>2 DEF Next
<1>3. CASE UNCHANGED vars
  <2>1. Uncounted /\ JoinedLast' /\ DestroyedLast'
    BY <1>3, <1>a DEF vars, ring, Uncounted, Contents, Wrap, Holding, OwedPuts, OwedGets,
       Pending, JoinedLast, DestroyedLast, AllPutsReturned
  <2> QED
    BY <2>1, <1>a, UncountedKeeps DEF CountInv
<1> QED
  BY <1>2, <1>3

(* In every reachable state unfinished_tasks is what waits in the ring and *)
(* what the consumers have in hand, and the ring and the puts to come      *)
(* serve the gets to come, however the calls interleave.                   *)
THEOREM CountsAddUp == Spec => []CountInv
<1>1. CountInv /\ QueueInv /\ QueueInv' /\ [Next]_vars => CountInv'
  BY StepCountInv
<1> QED
  BY <1>1, InitCountInv, QueueInvariant, PTL DEF Spec

(* The assertion of runtime_threadutil.c:115: a consumer about to report a *)
(* task is one of those that unfinished_tasks counts.                      *)
THEOREM TaskDoneNeverAborts == Spec => []TaskDoneAsserts
<1>1. QueueInv /\ CountInv => TaskDoneAsserts
  <2> SUFFICES ASSUME QueueInv, CountInv, NEW t \in Threads,
                      op[t] = "task_done", unfinished = 0
               PROVE  FALSE
    BY DEF TaskDoneAsserts
  <2>1. t \in Holding
    BY DEF QueueInv, CallsFit, Holding
  <2>2. Cardinality(Holding) = 0
    BY Sizes, Basics DEF CountInv, Tally
  <2> QED
    BY <2>1, <2>2, FS_EmptySet DEF CountInv, Tally
<1> QED
  BY <1>1, QueueInvariant, CountsAddUp, PTL

(* Whoever destroys the queue behind the last join finds it empty and      *)
(* everybody gone, although queue_join looks at unfinished_tasks only: no  *)
(* producer is left, nothing is in the ring or in a hand, and so no get is *)
(* left that could wait for it.                                            *)
THEOREM DestroyFindsIdle == Spec => []DestroyedIdle
<1> USE QueueAssumption
<1>1. QueueInv /\ CountInv => DestroyedIdle
  <2> SUFFICES ASSUME QueueInv, CountInv, destroyed
               PROVE  /\ mutex = Nobody /\ len = 0
                      /\ \A t \in Threads : op[t] = "none" /\ calls[t] = 0
    BY DEF DestroyedIdle
  <2>a. TypeOK /\ CallsFit /\ MutexHeld
    BY DEF QueueInv
  <2>1. PICK j \in Joiners : calls[j] = 0 /\ op[j] = "none"
    BY DEF CountInv, DestroyedLast
  <2>2. AllPutsReturned /\ unfinished = 0
    BY <2>1 DEF CountInv, JoinedLast
  <2>3. len = 0 /\ Cardinality(Holding) = 0
    BY <2>2, Sizes, Basics DEF CountInv, Tally
  <2>4. Holding = {}
    BY <2>3, FS_EmptySet DEF CountInv, Tally
  <2>5. OwedPuts = {}
    BY <2>2 DEF AllPutsReturned, OwedPuts, Elements, Pending
  <2>6. Cardinality(OwedGets) = 0
    BY <2>3, <2>5, Sizes, FS_EmptySet DEF CountInv, Served
  <2>7. OwedGets = {}
    BY <2>6, Sizes, FS_EmptySet DEF CountInv
  <2>8. ASSUME NEW c \in Consumers PROVE op[c] = "none" /\ calls[c] = 0
    <3>1. c \in Threads /\ c \notin Producers /\ c \notin Joiners
          /\ calls[c] \in Nat /\ Calls[c] \in Nat /\ calls[c] <= Calls[c]
      BY <2>a DEF Threads, TypeOK, CallsFit
    <3>2. ASSUME Pending(c, "get") # 0 PROVE FALSE
      <4>1. Pending(c, "get") \in 1..Calls[c]
        BY <3>1, <3>2, <2>a DEF Pending, CallsFit
      <4>2. <<c, Pending(c, "get")>> \in OwedGets
        BY <4>1 DEF OwedGets, Requests
      <4> QED
        BY <4>2, <2>7
    <3>3. op[c] # "get" /\ calls[c] = 0
      BY <3>1, <3>2 DEF Pending
    <3>4. op[c] \notin {"put", "join", "task_done"}
      BY <3>1, <2>4, <2>a DEF CallsFit, Holding
    <3> QED
      BY <3>1, <3>3, <3>4, <2>a DEF TypeOK, Ops
  <2>9. \A t \in Threads : op[t] = "none" /\ calls[t] = 0
    BY <2>2, <2>8 DEF Threads, AllPutsReturned, CountInv, DestroyedLast
  <2>10. mutex = Nobody
    BY <2>9, <2>a DEF TypeOK, CallsFit, MutexHeld, Critical
  <2> QED
    BY <2>3, <2>9, <2>10
<1> QED
  BY <1>1, QueueInvariant, CountsAddUp, PTL

-----------------------------------------------------------------------------
(* The ring, the mutex and the condition variables of runtime_threadutil.c *)
(* implement the queue of tasks of WorkQueue.                              *)

(* What a consumer holds, and the calls a producer or a joiner still owes. *)
Hand == [c \in Consumers |-> IF op[c] = "get" THEN NoElement ELSE el[c]]
Owed == [t \in Producers \cup Joiners |->
            Pending(t, IF t \in Producers THEN "put" ELSE "join")]

-----------------------------------------------------------------------------
(* Each step of the queue is one step of WorkQueue, or none.               *)
LEMMA StepRefines ==
    ASSUME QueueInv, NEW t \in Threads, Step(t) \/ SpuriousWakeup(t)
    PROVE  [Abstract!Next]_(Abstract!vars)
<1> USE QueueAssumption
<1>a. TypeOK /\ CallsFit
  BY DEF QueueInv
<1> DEFINE Quiet == /\ nels' = nels /\ Contents' = Contents /\ Hand' = Hand
                    /\ unfinished' = unfinished /\ Owed' = Owed
<1>q. Quiet => [Abstract!Next]_(Abstract!vars)
  BY DEF Abstract!vars, Hand, Owed
<1>1. CASE StartPut(t)
  <2>1. t \notin Consumers /\ op[t] = "none" /\ op'[t] = "put"
        /\ calls'[t] = calls[t] - 1 /\ calls[t] \in Nat
        /\ \A u \in Threads \ {t} : /\ op'[u] = op[u] /\ calls'[u] = calls[u]
                                    /\ el'[u] = el[u]
    BY <1>1, <1>a DEF StartPut, Start, TypeOK
  <2>2. Hand' = Hand
    BY <2>1 DEF Hand, Threads
  <2>3. Owed' = Owed
    BY <2>1, <1>1 DEF Owed, Pending, Threads, StartPut
  <2> QED
    BY <2>2, <2>3, <1>1, <1>q DEF StartPut, Start, ring, Contents, Wrap
<1>2. CASE StartGet(t) \/ StartTaskDone(t)
  <2>1. t \in Consumers /\ op[t] = "none" /\ op'[t] \in {"get", "task_done"}
        /\ (op'[t] = "get" => el[t] = NoElement) /\ el' = el
        /\ \A u \in Threads \ {t} : op'[u] = op[u] /\ calls'[u] = calls[u]
    BY <1>2, <1>a DEF StartGet, StartTaskDone, Start, TypeOK
  <2>2. Hand' = Hand
    BY <2>1 DEF Hand, Threads
  <2>3. Owed' = Owed
    BY <2>1 DEF Owed, Pending, Threads
  <2> QED
    BY <2>2, <2>3, <1>2, <1>q DEF StartGet, StartTaskDone, Start, ring, Contents, Wrap
<1>3. CASE StartJoin(t)
  <2>1. t \notin Consumers /\ op[t] = "none" /\ op'[t] = "join" /\ el' = el
        /\ calls'[t] = calls[t] - 1 /\ calls[t] \in Nat
        /\ \A u \in Threads \ {t} : op'[u] = op[u] /\ calls'[u] = calls[u]
    BY <1>3, <1>a DEF StartJoin, Start, TypeOK
  <2>2. Hand' = Hand
    BY <2>1 DEF Hand, Threads
  <2>3. Owed' = Owed
    BY <2>1, <1>3 DEF Owed, Pending, Threads, StartJoin
  <2> QED
    BY <2>2, <2>3, <1>3, <1>q DEF StartJoin, Start, ring, Contents, Wrap
<1>4. CASE Lock(t) \/ Wait(t) \/ SpuriousWakeup(t) \/ PutSignal(t) \/ GetSignal(t)
           \/ Destroy(t)
  BY <1>4, <1>q DEF Lock, Wait, SpuriousWakeup, PutSignal, GetSignal, Destroy, ring,
                    Contents, Wrap, Hand, Owed, Pending
<1>5. CASE PutCopy(t)
  <2>1. Contents' = Contents
    BY <1>5, CopyKeepsContents
  <2> QED
    BY <2>1, <1>5, <1>q DEF PutCopy, Hand, Owed, Pending
<1>6. CASE PutCommit(t)
  <2>1. t \in Producers /\ t \notin Joiners /\ t \notin Consumers
        /\ op[t] = "put" /\ op'[t] = "none" /\ calls' = calls /\ calls[t] \in Nat
        /\ el[t] = <<t, calls[t] + 1>>
        /\ \A u \in Threads \ {t} : op'[u] = op[u] /\ el'[u] = el[u]
    BY <1>6, <1>a DEF PutCommit, Return, TypeOK, CallsFit
  <2>2. Owed[t] = calls[t] + 1 /\ Owed' = [Owed EXCEPT ![t] = Owed[t] - 1]
    <3>1. Owed[t] = calls[t] + 1 /\ Owed'[t] = calls[t]
      BY <2>1 DEF Owed, Pending
    <3>2. \A u \in (Producers \cup Joiners) \ {t} : Owed'[u] = Owed[u]
      BY <2>1 DEF Owed, Pending, Threads
    <3> DEFINE F == Owed
               G == Owed'
    <3>3. /\ F = [u \in Producers \cup Joiners |-> F[u]]
          /\ G = [u \in Producers \cup Joiners |-> G[u]]
      BY DEF Owed
    <3>4. F[t] - 1 = G[t] /\ \A u \in (Producers \cup Joiners) \ {t} : G[u] = F[u]
      BY <2>1, <3>1, <3>2
    <3> HIDE DEF F, G
    <3>5. G = [F EXCEPT ![t] = F[t] - 1]
      BY <2>1, <3>3, <3>4
    <3> QED
      BY <3>1, <3>5 DEF F, G
  <2>3. Hand' = Hand
    BY <2>1 DEF Hand, Threads
  <2>4. Contents' = Append(Contents, <<t, Owed[t]>>)
    BY <1>6, <2>1, <2>2, CommitAppends
  <2>5. Owed[t] > 0 /\ Len(Contents) < nels
    BY <1>6, <2>1, <2>2, ContentsType DEF PutCommit, QueueInv, InFlight
  <2>6. unfinished' = unfinished + 1 /\ nels' = nels
    BY <1>6 DEF PutCommit
  <2>7. Abstract!Put(t)
    BY <2>2, <2>3, <2>4, <2>5, <2>6 DEF Abstract!Put, Hand, Owed
  <2> QED
    BY <2>1, <2>7 DEF Abstract!Next
<1>7. CASE GetCopy(t)
  <2>1. op[t] = "get" /\ op' = op /\ calls' = calls
        /\ \A u \in Threads \ {t} : el'[u] = el[u]
    BY <1>7, <1>a DEF GetCopy, TypeOK
  <2>2. Hand' = Hand
    BY <2>1 DEF Hand, Threads
  <2> QED
    BY <2>1, <2>2, <1>7, <1>q DEF GetCopy, ring, Contents, Wrap, Owed, Pending
<1>8. CASE GetCommit(t)
  <2>1. t \in Consumers /\ t \notin Producers /\ t \notin Joiners
        /\ op[t] = "get" /\ op'[t] = "none" /\ calls' = calls /\ el' = el
        /\ \A u \in Threads \ {t} : op'[u] = op[u]
    BY <1>8, <1>a DEF GetCommit, Return, TypeOK, CallsFit
  <2>2. Hand[t] = NoElement /\ Hand' = [Hand EXCEPT ![t] = el[t]]
    BY <2>1 DEF Hand, Threads
  <2>3. Owed' = Owed
    BY <2>1 DEF Owed, Pending, Threads
  <2>4. Contents # <<>> /\ Head(Contents) = el[t] /\ Contents' = Tail(Contents)
    BY <1>8, CommitRemoves
  <2>5. unfinished' = unfinished /\ nels' = nels
    BY <1>8 DEF GetCommit
  <2>6. Abstract!Get(t)
    BY <2>2, <2>3, <2>4, <2>5 DEF Abstract!Get, Hand, Owed
  <2> QED
    BY <2>1, <2>6 DEF Abstract!Next
<1>9. CASE TaskDone(t)
  <2>1. t \in Consumers /\ t \notin Producers /\ t \notin Joiners /\ el[t] # NoElement
        /\ op[t] = "task_done" /\ op'[t] = "none" /\ calls' = calls
        /\ el'[t] = NoElement
        /\ \A u \in Threads \ {t} : op'[u] = op[u] /\ el'[u] = el[u]
    BY <1>9, <1>a DEF TaskDone, Return, TypeOK, CallsFit
  <2>2. Hand[t] # NoElement /\ Hand' = [Hand EXCEPT ![t] = NoElement]
    BY <2>1 DEF Hand, Threads
  <2>3. Owed' = Owed
    BY <2>1 DEF Owed, Pending, Threads
  <2>4. /\ unfinished > 0 /\ unfinished' = unfinished - 1
        /\ nels' = nels /\ Contents' = Contents
    BY <1>9, <1>a DEF TaskDone, TypeOK, Contents, Wrap
  <2>5. Abstract!Done(t)
    BY <2>2, <2>3, <2>4 DEF Abstract!Done, Hand, Owed
  <2> QED
    BY <2>1, <2>5 DEF Abstract!Next
<1>10. CASE JoinReturn(t)
  <2>1. t \in Joiners /\ t \notin Producers /\ t \notin Consumers
        /\ op[t] = "join" /\ op'[t] = "none" /\ calls' = calls /\ calls[t] \in Nat
        /\ el' = el /\ \A u \in Threads \ {t} : op'[u] = op[u]
    BY <1>10, <1>a DEF JoinReturn, Return, TypeOK, CallsFit
  <2>2. Owed[t] = calls[t] + 1 /\ Owed' = [Owed EXCEPT ![t] = Owed[t] - 1]
    <3>1. Owed[t] = calls[t] + 1 /\ Owed'[t] = calls[t]
      BY <2>1 DEF Owed, Pending
    <3>2. \A u \in (Producers \cup Joiners) \ {t} : Owed'[u] = Owed[u]
      BY <2>1 DEF Owed, Pending, Threads
    <3> DEFINE F == Owed
               G == Owed'
    <3>3. /\ F = [u \in Producers \cup Joiners |-> F[u]]
          /\ G = [u \in Producers \cup Joiners |-> G[u]]
      BY DEF Owed
    <3>4. F[t] - 1 = G[t] /\ \A u \in (Producers \cup Joiners) \ {t} : G[u] = F[u]
      BY <2>1, <3>1, <3>2
    <3> HIDE DEF F, G
    <3>5. G = [F EXCEPT ![t] = F[t] - 1]
      BY <2>1, <3>3, <3>4
    <3> QED
      BY <3>1, <3>5 DEF F, G
  <2>3. Hand' = Hand
    BY <2>1 DEF Hand, Threads
  <2>4. /\ unfinished = 0 /\ unfinished' = unfinished
        /\ nels' = nels /\ Contents' = Contents
    BY <1>10 DEF JoinReturn, Blocked, ring, Contents, Wrap
  <2>5. Abstract!Join(t)
    BY <2>1, <2>2, <2>3, <2>4 DEF Abstract!Join, Hand, Owed
  <2> QED
    BY <2>1, <2>5 DEF Abstract!Next
<1> QED
  BY <1>1, <1>2, <1>3, <1>4, <1>5, <1>6, <1>7, <1>8, <1>9, <1>10 DEF Step

(* For every number of threads, capacity and order of calls: tasks leave   *)
(* in the order of their puts, each once, at most nels wait, and a joiner  *)
(* returns only when every task put before is done.  (Safety only: that    *)
(* the calls return at all needs NoWakeupIsLost's condition.)              *)
THEOREM QueueRefinesWorkQueue == Spec => ImplementsWorkQueue
<1> USE QueueAssumption
<1>1. Init => Abstract!Init
  <2> SUFFICES ASSUME Init PROVE Abstract!Init
    OBVIOUS
  <2>1. Contents = <<>>
    BY DEF Init, Contents
  <2>2. Hand = [c \in Consumers |-> NoElement]
    BY DEF Init, Hand, Threads
  <2>3. Owed = [u \in Producers \cup Joiners |-> Calls[u]]
    BY DEF Init, Owed, Pending, Threads
  <2> QED
    BY <2>1, <2>2, <2>3 DEF Init, Abstract!Init, Hand, Owed
<1>2. QueueInv /\ [Next]_vars => [Abstract!Next]_(Abstract!vars)
  <2> SUFFICES ASSUME QueueInv, [Next]_vars PROVE [Abstract!Next]_(Abstract!vars)
    OBVIOUS
  <2>1. CASE Next
    BY <2>1, StepRefines DEF Next
  <2>2. CASE UNCHANGED vars
    BY <2>2 DEF vars, ring, Abstract!vars, Contents, Wrap, Pending
  <2> QED
    BY <2>1, <2>2
<1> QED
  BY <1>1, <1>2, QueueInvariant, PTL DEF Spec, ImplementsWorkQueue, Abstract!Spec
=============================================================================
