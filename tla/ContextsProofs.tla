--------------------------- MODULE ContextsProofs ---------------------------
(***************************************************************************)
(* For any number of threads, programs and callbacks: the argument of a    *)
(* new thread is there for as long as the thread needs it, no two threads  *)
(* run on one context, every callback runs its word, and, if programs join *)
(* the threads they create, the assertion of thread_entry holds.           *)
(*                                                                         *)
(* The inductive invariant has four parts besides the types: HandshakeInv  *)
(* about thread-create, FramesInv about who executes on what, SlotsInv     *)
(* about the thread-local records, RootsInv about the context a new thread *)
(* copies from.                                                            *)
(***************************************************************************)
EXTENDS Contexts, SequenceTheorems, TLAPS

Executing == {"running", "store", "wait"} \cup Refusals
Starting == {"born", "post", "size", "inherit"}
Started(w) == at[w] \in Executing \cup {"ended", "joined"}

HandshakeInv ==
  /\ ArgOutlivesUse
  /\ ArgPassed
  /\ \A w \in Workers : at[w] = "born" => entry[parent[w]].arg = passed[w]

(* Hosts execute on the programs they launched, created threads on their   *)
(* own contexts.                                                           *)
OwnFrames ==
  /\ \A h \in Hosts : \A i \in 1..Len(frames[h]) :
        frames[h][i] \in Programs /\ owner[frames[h][i]] = h
  /\ \A w \in Workers : \A i \in 1..Len(frames[w]) : frames[w][i] = w

Located ==
  /\ \A t \in Threads : at[t] \in {"running", "store", "wait", "launching"} =>
        Len(frames[t]) > 0
  /\ \A w \in Workers : at[w] \in Refusals => Len(frames[w]) > 0
  /\ \A w \in Workers : at[w] \notin {"c_code", "launching"}
  /\ \A h \in Hosts : at[h] \notin Starting \cup {"unborn", "aborted", "ended", "joined"}

FramesInv == OwnFrames /\ Located

(* The slots of a live program hold its context.                           *)
SlotsOf(p) ==
  \A k \in 0..(Callbacks[p] - 1) :
    /\ offset[p] + k + 1 \in 1..Len(global[owner[p]].ctxs)
    /\ global[owner[p]].ctxs[offset[p] + k + 1] = p

SlotsInv ==
  /\ \A h \in Hosts :
        /\ global[h] = NoGlobal \/ global[h].is_main
        /\ global[h].used = Len(global[h].ctxs)
        /\ \A i \in 1..Len(global[h].ctxs) :
              global[h].ctxs[i] \in Programs /\ owner[global[h].ctxs[i]] = h
        /\ at[h] = "launching" =>
              /\ Top(h) \notin live /\ offset[Top(h)] = global[h].used
              /\ Callbacks[Top(h)] <= MaxCallbacks - global[h].used
  /\ \A p \in live : owner[p] \in Hosts /\ SlotsOf(p)
  /\ \A w \in Workers : global[w] = IF Started(w) THEN ThreadRecord(w) ELSE NoGlobal
  /\ \A p \in Programs : prog[p] = p

(* The context a new thread copies from is a program's, or that of a       *)
(* thread that has started.                                                *)
Settled(c) ==
  \/ c \in Programs /\ owner[c] \in Hosts
  \/ c \in Workers /\ Started(c)
RootOK(c, w) == Settled(c) /\ (c \in Workers => c = parent[w])
SpaceOf(c) == thread_extra_stack_space_get(Engine[prog[c]], extra[c])

RootsOf(w) ==
  /\ at[w] = "born" => RootOK(entry[parent[w]].stack, w)
  /\ at[w] \in {"post", "size", "inherit"} => RootOK(local[w].root, w)
  /\ Disciplined /\ at[w] = "inherit" => local[w].memory_len = SpaceOf(local[w].root)

RootsInv ==
  /\ \A w \in Workers : RootsOf(w) /\ (Started(w) => prog[w] \in Programs)
  /\ Disciplined => \A w \in Workers :
        /\ at[w] \in Starting /\ parent[w] \in Workers => at[parent[w]] \in Executing
        /\ at[w] # "aborted"

CtxInv == TypeOK /\ HandshakeInv /\ FramesInv /\ SlotsInv /\ RootsInv

-----------------------------------------------------------------------------
LEMMA InitInv == Init => CtxInv
<1> SUFFICES ASSUME Init PROVE CtxInv
  OBVIOUS
<1> USE ContextsAssumption DEF Init
<1>1. TypeOK
  BY DEF TypeOK, NoGlobal, Threads, Ctxs, Locations, NoThreads, Refusals
<1>2. HandshakeInv
  BY DEF HandshakeInv, ArgOutlivesUse, ArgPassed, Threads
<1>3. FramesInv
  BY DEF FramesInv, OwnFrames, Located, Threads, Refusals, Starting
<1>4. SlotsInv
  BY DEF SlotsInv, NoGlobal, Threads, Ctxs, Started, Executing, Refusals
<1>5. RootsInv
  BY DEF RootsInv, RootsOf, Started, Executing, Refusals, Starting, Threads
<1> QED
  BY <1>1, <1>2, <1>3, <1>4, <1>5 DEF CtxInv

-----------------------------------------------------------------------------
(* A thread only moves at its own control location, and not one of         *)
(* thread-create's: entry_arg, the semaphore and what was passed stay.     *)
Calm ==
  /\ UNCHANGED createVars
  /\ \A u \in Threads :
       \/ at'[u] = at[u]
       \/ /\ at[u] \notin {"unborn", "store", "wait"} \cup Starting
          /\ at'[u] \notin {"unborn"} \cup Starting

LEMMA CalmHandshake == HandshakeInv /\ Calm => HandshakeInv'
  BY ContextsAssumption
  DEF Calm, HandshakeInv, ArgOutlivesUse, ArgPassed, createVars, Threads, Starting

LEMMA CalmSteps ==
  ASSUME TypeOK, NEW t \in Threads,
         \/ \E p \in Programs : Refuse(t, p) \/ Launch(t, p)
         \/ GoOn(t) \/ EnterRun(t) \/ Return(t) \/ Cleanup(t)
         \/ \E p \in Programs : \E k \in 0..(Callbacks[p] - 1) : Callback(t, p, k)
         \/ \E w \in Workers : Join(t, w)
  PROVE  Calm
<1> USE DEF Calm, InC, Refusals, Threads, Starting
<1>t. at \in [Threads -> Locations]
  BY DEF TypeOK
<1>1. ASSUME NEW p \in Programs, Refuse(t, p) PROVE Calm
  BY <1>t, <1>1 DEF Refuse
<1>2. ASSUME NEW p \in Programs, Launch(t, p) PROVE Calm
  BY <1>t, <1>2 DEF Launch
<1>3. CASE GoOn(t)
  BY <1>t, <1>3 DEF GoOn
<1>4. CASE EnterRun(t)
  BY <1>t, <1>4 DEF EnterRun
<1>5. CASE Return(t)
  BY <1>t, <1>5 DEF Return
<1>6. CASE Cleanup(t)
  BY <1>t, <1>6 DEF Cleanup
<1>7. ASSUME NEW p \in Programs, NEW k \in 0..(Callbacks[p] - 1), Callback(t, p, k) PROVE Calm
  BY <1>t, <1>7 DEF Callback
<1>8. ASSUME NEW w \in Workers, Join(t, w) PROVE Calm
  BY <1>t, <1>8 DEF Join
<1> QED
  BY <1>1, <1>2, <1>3, <1>4, <1>5, <1>6, <1>7, <1>8

LEMMA HandshakeStep == CtxInv /\ [Next]_vars => HandshakeInv'
<1> SUFFICES ASSUME CtxInv, [Next]_vars PROVE HandshakeInv'
  OBVIOUS
<1> USE ContextsAssumption
    DEF HandshakeInv, ArgOutlivesUse, ArgPassed, TypeOK, Threads
<1>i. TypeOK /\ HandshakeInv /\ FramesInv
  BY DEF CtxInv
<1>1. CASE UNCHANGED vars
  BY <1>1, <1>i DEF vars, createVars
<1>2. ASSUME NEW t \in Threads, Calm PROVE HandshakeInv'
  BY <1>2, <1>i, CalmHandshake
<1>3. ASSUME NEW t \in Threads, NEW w \in Workers, NEW a \in Args, Create(t, w, a)
      PROVE  HandshakeInv'
  <2>1. /\ at[t] = "running" /\ at[w] = "unborn" /\ t # w
        /\ at' = [at EXCEPT ![t] = "store", ![w] = "born"]
        /\ entry' = [entry EXCEPT ![t] = [stack |-> Top(t), arg |-> a]]
        /\ sem' = [sem EXCEPT ![t] = 0] /\ thread' = [thread EXCEPT ![t] = w]
        /\ parent' = [parent EXCEPT ![w] = t] /\ passed' = [passed EXCEPT ![w] = a]
        /\ local' = local
    BY <1>3 DEF Create
  <2>2. at \in [Threads -> Locations] /\ entry \in [Threads -> [stack : Ctxs \cup {Nobody},
                                                             arg : Args \cup {Nobody}]]
    BY <1>i
  <2>3. ASSUME NEW v \in Workers, v # w
        PROVE  /\ at'[v] \in {"born", "post"} =>
                    at[v] \in {"born", "post"} /\ at'[v] = at[v] /\ parent[v] \notin {t, w}
               /\ at'[v] \notin {"unborn", "born"} => at[v] \notin {"unborn", "born"}
    BY <2>1, <2>2, <2>3, <1>i
  <2>4. ArgOutlivesUse'
    <3>1. ASSUME NEW v \in Workers, at'[v] \in {"born", "post"}, v # w
          PROVE  /\ parent'[v] \in Threads /\ at'[parent'[v]] \in {"store", "wait"}
                 /\ thread'[parent'[v]] = v /\ sem'[parent'[v]] = 0
      <4>1. at[v] \in {"born", "post"} /\ parent[v] \notin {t, w} /\ parent'[v] = parent[v]
        BY <2>1, <2>3, <3>1, <1>i
      <4>2. /\ parent[v] \in Threads /\ at[parent[v]] \in {"store", "wait"}
            /\ thread[parent[v]] = v /\ sem[parent[v]] = 0
        BY <4>1, <1>i
      <4>3. /\ at'[parent[v]] = at[parent[v]] /\ thread'[parent[v]] = thread[parent[v]]
            /\ sem'[parent[v]] = sem[parent[v]]
        BY <2>1, <4>1, <4>2, <1>i
      <4> QED
        BY <4>1, <4>2, <4>3
    <3>2. /\ parent'[w] = t /\ at'[t] = "store" /\ thread'[t] = w /\ sem'[t] = 0
      BY <2>1, <2>2, <1>i
    <3> QED
      BY <3>1, <3>2
  <2>5. ArgPassed'
    BY <2>1, <2>2, <2>3, <1>i
  <2>6. ASSUME NEW v \in Workers, at'[v] = "born" PROVE entry'[parent'[v]].arg = passed'[v]
    <3>1. CASE v = w
      BY <2>1, <2>2, <3>1, <1>i
    <3>2. CASE v # w
      BY <2>1, <2>2, <2>3, <2>6, <3>2, <1>i
    <3> QED
      BY <3>1, <3>2
  <2> QED
    BY <2>4, <2>5, <2>6
<1>4. ASSUME NEW t \in Threads, StoreHandle(t) PROVE HandshakeInv'
  BY <1>4, <1>i DEF StoreHandle
<1>5. ASSUME NEW t \in Threads, Leave(t) PROVE HandshakeInv'
  <2>1. \A w \in Workers : at[w] \in {"born", "post"} => parent[w] # t
    BY <1>5, <1>i DEF Leave
  <2>2. \A w \in Workers : at'[w] \in {"born", "post"} => at[w] = at'[w]
    BY <1>5, <1>i DEF Leave
  <2>3. \A w \in Workers : at'[w] \notin {"unborn", "born"} => at[w] \notin {"unborn", "born"}
    BY <1>5, <1>i DEF Leave
  <2> QED
    BY <1>5, <2>1, <2>2, <2>3, <1>i DEF Leave
<1>6. ASSUME NEW w \in Workers, ReadArg(w) PROVE HandshakeInv'
  BY <1>6, <1>i DEF ReadArg
<1>7. ASSUME NEW w \in Workers, Post(w) PROVE HandshakeInv'
  BY <1>7, <1>i DEF Post
<1>8. ASSUME NEW w \in Workers, SizeSpace(w) PROVE HandshakeInv'
  BY <1>8, <1>i DEF SizeSpace
<1>9. ASSUME NEW w \in Workers, Inherit(w) PROVE HandshakeInv'
  <2>1. UNCHANGED createVars
    BY <1>9 DEF Inherit
  <2>2. at[w] = "inherit" /\ at'[w] \in {"running", "aborted"}
    BY <1>9, <1>i DEF Inherit
  <2>3. \A u \in Threads \ {w} : at'[u] = at[u]
    BY <1>9, <1>i DEF Inherit
  <2> QED
    BY <2>1, <2>2, <2>3, <1>i DEF createVars
<1> QED
  BY <1>i, <1>1, <1>2, <1>3, <1>4, <1>5, <1>6, <1>7, <1>8, <1>9, CalmSteps DEF Next, Handshake

-----------------------------------------------------------------------------
LEMMA TopOfFrames ==
  ASSUME TypeOK, FramesInv, NEW t \in Threads, Len(frames[t]) > 0
  PROVE  /\ Top(t) \in Ctxs
         /\ t \in Hosts => Top(t) \in Programs /\ owner[Top(t)] = t
         /\ t \in Workers => Top(t) = t
<1>1. frames[t] \in Seq(Ctxs) /\ Len(frames[t]) \in 1..Len(frames[t])
  BY DEF TypeOK
<1> QED
  BY <1>1, ContextsAssumption DEF FramesInv, OwnFrames, Top, Threads

(* A created thread has a record of its own, which allows no launch.       *)
LEMMA WorkersCannotLaunch ==
  ASSUME SlotsInv, Located, NEW w \in Workers, InC(w)
  PROVE  ~MayLaunch(w)
<1>1. at[w] = "running"
  BY DEF Located, InC
<1>2. global[w] = ThreadRecord(w)
  BY <1>1 DEF SlotsInv, Started, Executing
<1>3. ThreadRecord(w) # NoGlobal /\ ~ThreadRecord(w).is_main
  <2>1. ThreadRecord(w).ctxs = <<w>> /\ NoGlobal.ctxs = <<>>
    BY DEF ThreadRecord, NoGlobal
  <2>2. ThreadRecord(w) # NoGlobal
    BY <2>1
  <2> QED
    BY <2>2 DEF ThreadRecord
<1> QED
  BY <1>2, <1>3 DEF MayLaunch

(* m4_global_get_ctx finds the program's context for a host, the thread's  *)
(* own for a created thread.                                               *)
LEMMA CallbackContext ==
  ASSUME CtxInv, NEW t \in Threads, NEW p \in Programs, NEW k \in 0..(Callbacks[p] - 1),
         Callback(t, p, k)
  PROVE  /\ t \in Hosts => get_ctx(t, CallbackSlot(p, k)) = p /\ owner[p] = t
         /\ t \in Workers => get_ctx(t, CallbackSlot(p, k)) = t /\ prog[t] = p
<1> USE ContextsAssumption
<1>1. CASE t \in Hosts
  <2>1. p \in live /\ owner[p] = t
    BY <1>1 DEF Callback
  <2>2. /\ offset[p] + k + 1 \in 1..Len(global[t].ctxs)
        /\ global[t].ctxs[offset[p] + k + 1] = p
    BY <2>1 DEF CtxInv, SlotsInv, SlotsOf
  <2>3. global[t].is_main
    BY <1>1, <2>2 DEF CtxInv, SlotsInv, NoGlobal
  <2> QED
    BY <1>1, <2>1, <2>2, <2>3 DEF get_ctx, CallbackSlot
<1>2. CASE t \in Workers
  <2>1. t \notin Hosts /\ prog[t] = p /\ at[t] = "running"
    BY <1>2 DEF Callback
  <2>2. global[t] = ThreadRecord(t)
    BY <1>2, <2>1 DEF CtxInv, SlotsInv, Started, Executing
  <2> QED
    BY <1>2, <2>1, <2>2 DEF get_ctx, ThreadRecord
<1> QED
  BY <1>1, <1>2 DEF Threads

(* A frame more on top of a thread's.                                      *)
LEMMA PushFrame ==
  ASSUME OwnFrames, frames \in [Threads -> Seq(Ctxs)],
         NEW t \in Threads, NEW c \in Ctxs,
         frames' = [frames EXCEPT ![t] = Append(@, c)],
         t \in Hosts => c \in Programs /\ owner'[c] = t,
         t \in Workers => c = t,
         \A p \in Programs : owner[p] \in Hosts => owner'[p] = owner[p]
  PROVE  OwnFrames'
<1> USE ContextsAssumption DEF OwnFrames, Threads
<1>1. /\ Len(frames'[t]) = Len(frames[t]) + 1
      /\ \A i \in 1..Len(frames[t]) : frames'[t][i] = frames[t][i]
      /\ frames'[t][Len(frames[t]) + 1] = c
      /\ \A u \in Threads \ {t} : frames'[u] = frames[u]
      /\ Len(frames[t]) \in Nat
  OBVIOUS
<1>2. ASSUME NEW h \in Hosts, NEW i \in 1..Len(frames'[h])
      PROVE  frames'[h][i] \in Programs /\ owner'[frames'[h][i]] = h
  <2>1. CASE h # t
    <3>1. frames'[h] = frames[h]
      BY <1>1, <2>1
    <3>2. frames[h][i] \in Programs /\ owner[frames[h][i]] = h
      BY <3>1
    <3> QED
      BY <3>1, <3>2
  <2>2. CASE h = t /\ i = Len(frames[t]) + 1
    BY <1>1, <2>2
  <2>3. CASE h = t /\ i # Len(frames[t]) + 1
    <3>1. i \in 1..Len(frames[t]) /\ frames'[h][i] = frames[h][i]
      BY <1>1, <2>3
    <3>2. frames[h][i] \in Programs /\ owner[frames[h][i]] = h
      BY <3>1, <2>3
    <3> QED
      BY <3>1, <3>2
  <2> QED
    BY <2>1, <2>2, <2>3
<1>3. ASSUME NEW w \in Workers, NEW i \in 1..Len(frames'[w])
      PROVE  frames'[w][i] = w
  BY <1>1
<1> QED
  BY <1>2, <1>3

-----------------------------------------------------------------------------
LEMMA FramesStep == CtxInv /\ [Next]_vars => FramesInv'
<1> SUFFICES ASSUME CtxInv, [Next]_vars PROVE FramesInv'
  OBVIOUS
<1> USE ContextsAssumption
    DEF FramesInv, Located, Threads, Starting, Refusals, InC
<1>i. FramesInv /\ SlotsInv /\ TypeOK
  BY DEF CtxInv
<1>t. /\ at \in [Threads -> Locations] /\ frames \in [Threads -> Seq(Ctxs)]
      /\ owner \in [Programs -> Hosts \cup {Nobody}]
  BY <1>i DEF TypeOK
<1>c. Programs \subseteq Ctxs /\ Workers \subseteq Ctxs
  BY DEF Ctxs
<1>o. ASSUME UNCHANGED <<frames, owner>> PROVE OwnFrames'
  BY <1>o, <1>i DEF OwnFrames
<1>1. CASE UNCHANGED vars
  BY <1>1, <1>o, <1>i DEF vars, launchVars
<1>2. ASSUME NEW t \in Threads, NEW p \in Programs, Refuse(t, p) PROVE FramesInv'
  BY <1>2, <1>o, <1>i, <1>t DEF Refuse, launchVars
<1>3. ASSUME NEW t \in Threads, NEW p \in Programs, Launch(t, p) PROVE FramesInv'
  <2>1. t \in Hosts
    BY <1>3, <1>i, WorkersCannotLaunch DEF Launch
  <2>2. /\ frames' = [frames EXCEPT ![t] = Append(@, p)]
        /\ owner' = [owner EXCEPT ![p] = t] /\ owner[p] = Nobody
        /\ at' = [at EXCEPT ![t] = "launching"]
    BY <1>3 DEF Launch
  <2>3. OwnFrames'
    BY <2>1, <2>2, <1>i, <1>t, <1>c, PushFrame
  <2>4. Len(frames'[t]) > 0 /\ \A u \in Threads \ {t} : frames'[u] = frames[u]
    BY <2>2, <1>t, <1>c
  <2>5. Located'
    BY <2>1, <2>2, <2>4, <1>i, <1>t
  <2> QED
    BY <2>3, <2>5
<1>4. ASSUME NEW t \in Threads, GoOn(t) PROVE FramesInv'
  <2>1. t \in Workers => frames[t] # <<>>
    BY <1>4, <1>i DEF GoOn
  <2>2. frames[t] # <<>> => Len(frames[t]) > 0
    BY <1>t
  <2> QED
    BY <1>4, <2>1, <2>2, <1>o, <1>i, <1>t DEF GoOn, launchVars
<1>5. ASSUME NEW t \in Threads, EnterRun(t) PROVE FramesInv'
  BY <1>5, <1>o, <1>i, <1>t DEF EnterRun
<1>6. ASSUME NEW t \in Threads, Return(t) PROVE FramesInv'
  <2>1. /\ frames' = [frames EXCEPT ![t] = SubSeq(@, 1, Len(@) - 1)]
        /\ owner' = owner /\ Len(frames[t]) > 0
    BY <1>6, <1>i DEF Return, launchVars
  <2>2. /\ Len(frames'[t]) = Len(frames[t]) - 1
        /\ \A i \in 1..Len(frames'[t]) : frames'[t][i] = frames[t][i]
        /\ \A u \in Threads \ {t} : frames'[u] = frames[u]
        /\ Len(frames[t]) \in Nat
    BY <2>1, <1>t
  <2>3. OwnFrames'
    BY <2>1, <2>2, <1>i DEF OwnFrames
  <2>4. Located'
    BY <1>6, <2>2, <1>i, <1>t DEF Return
  <2> QED
    BY <2>3, <2>4
<1>7. ASSUME NEW t \in Threads, Cleanup(t) PROVE FramesInv'
  BY <1>7, <1>o, <1>i, <1>t DEF Cleanup
<1>8. ASSUME NEW t \in Threads, NEW p \in Programs, NEW k \in 0..(Callbacks[p] - 1),
             Callback(t, p, k)
      PROVE  FramesInv'
  <2> DEFINE c == get_ctx(t, CallbackSlot(p, k))
  <2>1. (t \in Hosts => c = p /\ owner[p] = t) /\ (t \in Workers => c = t)
    BY <1>8, CallbackContext
  <2>2. /\ frames' = [frames EXCEPT ![t] = Append(@, c)] /\ owner' = owner
        /\ at' = [at EXCEPT ![t] = "running"]
    BY <1>8 DEF Callback, launchVars
  <2>3. c \in Ctxs
    BY <2>1, <1>c
  <2> HIDE DEF c
  <2>4. OwnFrames'
    BY <2>1, <2>2, <2>3, <1>i, <1>t, PushFrame
  <2>5. Len(frames'[t]) > 0 /\ \A u \in Threads \ {t} : frames'[u] = frames[u]
    BY <2>2, <2>3, <1>t
  <2> QED
    BY <2>2, <2>4, <2>5, <1>8, <1>i, <1>t DEF Callback
<1>9. ASSUME NEW t \in Threads, NEW w \in Workers, Join(t, w) PROVE FramesInv'
  BY <1>9, <1>o, <1>i, <1>t DEF Join, launchVars
<1>10. ASSUME NEW t \in Threads, NEW w \in Workers, NEW a \in Args, Create(t, w, a)
       PROVE  FramesInv'
  BY <1>10, <1>o, <1>i, <1>t DEF Create, launchVars
<1>11. ASSUME NEW t \in Threads, StoreHandle(t) \/ Leave(t) PROVE FramesInv'
  BY <1>11, <1>o, <1>i, <1>t DEF StoreHandle, Leave, launchVars
<1>12. ASSUME NEW w \in Workers, ReadArg(w) \/ Post(w) \/ SizeSpace(w) PROVE FramesInv'
  BY <1>12, <1>o, <1>i, <1>t DEF ReadArg, Post, SizeSpace, launchVars
<1>13. ASSUME NEW w \in Workers, Inherit(w) PROVE FramesInv'
  <2>1. /\ at[w] = "inherit" /\ owner' = owner
        /\ \/ frames' = [frames EXCEPT ![w] = <<w>>] /\ at' = [at EXCEPT ![w] = "running"]
           \/ frames' = frames /\ at' = [at EXCEPT ![w] = "aborted"]
    BY <1>13 DEF Inherit, launchVars
  <2>2. w \in Threads /\ <<w>> \in Seq(Ctxs)
    BY <1>c
  <2>3. \A u \in Threads \ {w} : frames'[u] = frames[u] /\ at'[u] = at[u]
    BY <2>1, <1>t
  <2>4. CASE frames' = [frames EXCEPT ![w] = <<w>>] /\ at' = [at EXCEPT ![w] = "running"]
    <3>1. frames'[w] = <<w>> /\ at'[w] = "running"
      BY <2>2, <2>4, <1>t
    <3>2. Len(frames'[w]) = 1 /\ \A i \in 1..1 : frames'[w][i] = w
      BY <3>1
    <3>3. OwnFrames'
      BY <2>1, <2>3, <3>2, <1>i DEF OwnFrames
    <3>4. Located'
      BY <2>3, <3>1, <3>2, <1>i
    <3> QED
      BY <3>3, <3>4
  <2>5. CASE frames' = frames /\ at' = [at EXCEPT ![w] = "aborted"]
    <3>1. at'[w] = "aborted"
      BY <2>2, <2>5, <1>t
    <3> QED
      BY <2>1, <2>3, <2>5, <3>1, <1>o, <1>i
  <2> QED
    BY <2>1, <2>4, <2>5
<1> QED
  BY <1>1, <1>2, <1>3, <1>4, <1>5, <1>6, <1>7, <1>8, <1>9, <1>10, <1>11, <1>12, <1>13
  DEF Next, Handshake

-----------------------------------------------------------------------------
(* Steps that leave the records, the slots and who has started alone.      *)
Quiet ==
  /\ UNCHANGED <<global, owner, offset, live>>
  /\ \A p \in Programs : prog'[p] = prog[p]
  /\ \A h \in Hosts : at'[h] = "launching" => at[h] = "launching" /\ frames'[h] = frames[h]
  /\ \A w \in Workers : Started(w)' <=> Started(w)

LEMMA QuietSlots == SlotsInv /\ Quiet => SlotsInv'
  BY DEF Quiet, SlotsInv, SlotsOf, Top, ThreadRecord

LEMMA QuietSteps ==
  ASSUME TypeOK, Located, NEW t \in Threads,
         \/ \E p \in Programs : Refuse(t, p)
         \/ GoOn(t) \/ Return(t) \/ StoreHandle(t) \/ Leave(t)
         \/ \E p \in Programs : \E k \in 0..(Callbacks[p] - 1) : Callback(t, p, k)
         \/ \E w \in Workers : Join(t, w) \/ \E a \in Args : Create(t, w, a)
         \/ t \in Workers /\ (ReadArg(t) \/ Post(t) \/ SizeSpace(t))
  PROVE  Quiet
<1> USE ContextsAssumption
    DEF Quiet, Started, Executing, Refusals, InC, Threads, launchVars, ctxVars
<1>t. at \in [Threads -> Locations]
  BY DEF TypeOK
<1>1. ASSUME NEW p \in Programs, Refuse(t, p) PROVE Quiet
  BY <1>t, <1>1 DEF Refuse, Located
<1>2. CASE GoOn(t)
  BY <1>t, <1>2 DEF GoOn, Located
<1>3. CASE Return(t)
  BY <1>t, <1>3 DEF Return
<1>4. CASE StoreHandle(t)
  BY <1>t, <1>4 DEF StoreHandle
<1>5. CASE Leave(t)
  BY <1>t, <1>5 DEF Leave
<1>6. ASSUME NEW p \in Programs, NEW k \in 0..(Callbacks[p] - 1), Callback(t, p, k) PROVE Quiet
  BY <1>t, <1>6 DEF Callback, Located
<1>7. ASSUME NEW w \in Workers, Join(t, w) PROVE Quiet
  BY <1>t, <1>7 DEF Join
<1>8. ASSUME NEW w \in Workers, NEW a \in Args, Create(t, w, a) PROVE Quiet
  BY <1>t, <1>8 DEF Create
<1>9. CASE t \in Workers /\ ReadArg(t)
  BY <1>t, <1>9 DEF ReadArg
<1>10. CASE t \in Workers /\ Post(t)
  BY <1>t, <1>10 DEF Post
<1>11. CASE t \in Workers /\ SizeSpace(t)
  BY <1>t, <1>11 DEF SizeSpace
<1> QED
  BY <1>1, <1>2, <1>3, <1>4, <1>5, <1>6, <1>7, <1>8, <1>9, <1>10, <1>11

(* m4_global_main_callbacks_set_ctx appends n slots.                       *)
WithSlots(g, t, n, c) ==
  /\ g \in [is_main : BOOLEAN, used : Nat, ctxs : Seq(Ctxs)]
  /\ g = NoGlobal \/ g.is_main
  /\ g.used = global[t].used + n /\ g.used = Len(g.ctxs)
  /\ \A i \in 1..global[t].used : g.ctxs[i] = global[t].ctxs[i]
  /\ \A i \in 1..n : g.ctxs[global[t].used + i] = c

LEMMA SetCtxEffect ==
  ASSUME NEW t \in Threads,
         global[t] \in [is_main : BOOLEAN, used : Nat, ctxs : Seq(Ctxs)],
         global[t] = NoGlobal \/ global[t].is_main,
         global[t].used = Len(global[t].ctxs)
  PROVE  \A n \in Nat, c \in Ctxs : WithSlots(SetCtx(t, n, c), t, n, c)
<1> TAKE n \in Nat, c \in Ctxs
<1> USE DEF WithSlots
<1> DEFINE more == [k \in 1..n |-> c]
           s == global[t].ctxs
<1>1. more \in Seq(Ctxs) /\ Len(more) = n /\ s \in Seq(Ctxs)
  OBVIOUS
<1>2. /\ s \o more \in Seq(Ctxs) /\ Len(s \o more) = Len(s) + n
      /\ \A i \in 1..Len(s) : (s \o more)[i] = s[i]
      /\ \A i \in 1..n : (s \o more)[Len(s) + i] = c
  BY <1>1
<1>3. CASE n = 0 /\ global[t] = NoGlobal
  BY <1>3 DEF SetCtx
<1>4. CASE ~(n = 0 /\ global[t] = NoGlobal)
  <2>1. SetCtx(t, n, c) = [is_main |-> TRUE, used |-> global[t].used + n, ctxs |-> s \o more]
    BY <1>4 DEF SetCtx, callbacks_used
  <2> HIDE DEF more, s
  <2>2. s = global[t].ctxs
    BY DEF s
  <2> QED
    BY <1>2, <2>1, <2>2
<1> QED
  BY <1>3, <1>4

LEMMA SlotsStep == CtxInv /\ [Next]_vars => SlotsInv'
<1> SUFFICES ASSUME CtxInv, [Next]_vars PROVE SlotsInv'
  OBVIOUS
<1> USE ContextsAssumption DEF Threads, InC
<1>i. FramesInv /\ Located /\ SlotsInv /\ TypeOK
  BY DEF CtxInv, FramesInv
<1>t. /\ at \in [Threads -> Locations] /\ frames \in [Threads -> Seq(Ctxs)]
      /\ owner \in [Programs -> Hosts \cup {Nobody}] /\ offset \in [Programs -> Nat]
      /\ global \in [Threads -> [is_main : BOOLEAN, used : Nat, ctxs : Seq(Ctxs)]]
      /\ live \subseteq Programs /\ prog \in [Ctxs -> Programs \cup {Nobody}]
  BY <1>i DEF TypeOK
<1>c. Programs \subseteq Ctxs /\ Workers \subseteq Ctxs
  BY DEF Ctxs
<1>1. CASE UNCHANGED vars
  BY <1>1, <1>i, QuietSlots DEF vars, launchVars, ctxVars, Quiet, Started
<1>2. ASSUME NEW t \in Threads, Quiet PROVE SlotsInv'
  BY <1>2, <1>i, QuietSlots
<1>3. ASSUME NEW t \in Threads, NEW p \in Programs, Launch(t, p) PROVE SlotsInv'
  <2>1. t \in Hosts
    BY <1>3, <1>i, WorkersCannotLaunch DEF Launch
  <2>2. /\ frames' = [frames EXCEPT ![t] = Append(@, p)]
        /\ owner' = [owner EXCEPT ![p] = t] /\ owner[p] = Nobody
        /\ offset' = [offset EXCEPT ![p] = global[t].used]
        /\ at' = [at EXCEPT ![t] = "launching"]
        /\ Callbacks[p] <= MaxCallbacks - global[t].used
        /\ UNCHANGED <<global, live, prog>>
    BY <1>3 DEF Launch, Fits, callbacks_used
  <2>3. p \notin live
    BY <2>2, <1>i DEF SlotsInv
  <2>4. \A q \in Programs \ {p} : owner'[q] = owner[q] /\ offset'[q] = offset[q]
    BY <2>2, <1>t
  <2>5. Top(t)' = p
    BY <2>2, <1>t, <1>c DEF Top
  <2>6. ASSUME NEW h \in Hosts, h # t, at[h] = "launching"
        PROVE  Top(h)' = Top(h) /\ Top(h) \in Programs \ {p}
    <3>1. Len(frames[h]) > 0
      BY <2>6, <1>i DEF Located
    <3>2. Top(h) \in Programs /\ owner[Top(h)] = h
      BY <3>1, <1>i, TopOfFrames
    <3> QED
      BY <2>2, <2>6, <3>2, <1>t DEF Top
  <2>7. ASSUME NEW h \in Hosts
        PROVE  /\ \A i \in 1..Len(global[h].ctxs) : owner'[global[h].ctxs[i]] = h
               /\ at'[h] = "launching" =>
                    /\ Top(h)' \notin live /\ offset'[Top(h)'] = global[h].used
                    /\ Callbacks[Top(h)'] <= MaxCallbacks - global[h].used
    <3>1. ASSUME NEW i \in 1..Len(global[h].ctxs) PROVE owner'[global[h].ctxs[i]] = h
      <4>1. global[h].ctxs[i] \in Programs /\ owner[global[h].ctxs[i]] = h
        BY <1>i DEF SlotsInv
      <4>2. global[h].ctxs[i] # p
        BY <4>1, <2>2
      <4> QED
        BY <2>4, <4>1, <4>2
    <3>2. CASE h = t
      BY <2>2, <2>3, <2>5, <3>1, <3>2, <1>t
    <3>3. CASE h # t
      BY <2>2, <2>4, <2>6, <3>1, <3>3, <1>i, <1>t DEF SlotsInv
    <3> QED
      BY <3>2, <3>3
  <2>8. ASSUME NEW q \in live PROVE owner'[q] \in Hosts /\ SlotsOf(q)'
    BY <2>2, <2>3, <2>4, <1>i, <1>t DEF SlotsInv, SlotsOf
  <2>9. \A w \in Workers : Started(w)' <=> Started(w)
    BY <2>1, <2>2, <1>t DEF Started
  <2> QED
    BY <2>2, <2>7, <2>8, <2>9, <1>i DEF SlotsInv, ThreadRecord
<1>4. ASSUME NEW t \in Threads, EnterRun(t) PROVE SlotsInv'
  <2> DEFINE p == Top(t)
             g == SetCtx(t, Callbacks[p], p)
  <2>1. t \in Hosts /\ p \in Programs /\ owner[p] = t
    BY <1>4, <1>i, TopOfFrames DEF EnterRun, Located
  <2>2. /\ global' = [global EXCEPT ![t] = g] /\ live' = live \cup {p}
        /\ at' = [at EXCEPT ![t] = "running"] /\ UNCHANGED <<frames, owner, offset, prog>>
    BY <1>4 DEF EnterRun, ctxVars
  <2>3. /\ global[t] \in [is_main : BOOLEAN, used : Nat, ctxs : Seq(Ctxs)]
        /\ global[t] = NoGlobal \/ global[t].is_main
        /\ global[t].used = Len(global[t].ctxs)
        /\ p \notin live /\ offset[p] = global[t].used /\ Callbacks[p] \in Nat
    BY <1>4, <2>1, <1>i, <1>t DEF EnterRun, SlotsInv
  <2>n. /\ offset[p] = global[t].used /\ offset[p] \in Int /\ Callbacks[p] \in Int
        /\ p \in Ctxs
    BY <2>1, <2>3, <1>c
  <2> HIDE DEF p
  <2>4. /\ g \in [is_main : BOOLEAN, used : Nat, ctxs : Seq(Ctxs)]
        /\ g = NoGlobal \/ g.is_main
        /\ g.used = global[t].used + Callbacks[p] /\ g.used = Len(g.ctxs)
        /\ \A i \in 1..global[t].used : g.ctxs[i] = global[t].ctxs[i]
        /\ \A i \in 1..Callbacks[p] : g.ctxs[global[t].used + i] = p
    <3>1. WithSlots(g, t, Callbacks[p], p)
      BY <2>n, <2>3, SetCtxEffect
    <3> QED
      BY <3>1 DEF WithSlots
  <2> HIDE DEF g
  <2>5. global'[t] = g /\ \A u \in Threads \ {t} : global'[u] = global[u]
    BY <2>2, <1>t
  <2>6. ASSUME NEW i \in 1..Len(g.ctxs) PROVE g.ctxs[i] \in Programs /\ owner[g.ctxs[i]] = t
    <3>1. CASE i <= global[t].used
      BY <2>1, <2>3, <2>4, <3>1, <1>i DEF SlotsInv
    <3>2. CASE i > global[t].used
      <4>1. i - global[t].used \in 1..Callbacks[p] /\ i = global[t].used + (i - global[t].used)
        BY <2>3, <2>4, <3>2
      <4> QED
        BY <2>1, <2>4, <4>1
    <3> QED
      BY <2>3, <3>1, <3>2
  <2>7. ASSUME NEW h \in Hosts
        PROVE  /\ global'[h] = NoGlobal \/ global'[h].is_main
               /\ global'[h].used = Len(global'[h].ctxs)
               /\ \A i \in 1..Len(global'[h].ctxs) :
                    global'[h].ctxs[i] \in Programs /\ owner'[global'[h].ctxs[i]] = h
               /\ at'[h] = "launching" =>
                    /\ Top(h)' \notin live' /\ offset'[Top(h)'] = global'[h].used
                    /\ Callbacks[Top(h)'] <= MaxCallbacks - global'[h].used
    <3>1. CASE h = t
      BY <2>2, <2>4, <2>5, <2>6, <3>1, <1>t
    <3>2. CASE h # t
      <4>1. at[h] = "launching" => Top(h) # p
        BY <2>1, <3>2, <1>i, TopOfFrames DEF Located
      <4> QED
        BY <2>2, <2>5, <3>2, <4>1, <1>i, <1>t DEF SlotsInv, Top
    <3> QED
      BY <3>1, <3>2
  <2>8. ASSUME NEW q \in live' PROVE owner'[q] \in Hosts /\ SlotsOf(q)'
    <3>1. CASE q = p
      <4>1. ASSUME NEW k \in 0..(Callbacks[p] - 1)
            PROVE  /\ offset[p] + k + 1 \in 1..Len(g.ctxs)
                   /\ g.ctxs[offset[p] + k + 1] = p
        <5>1. k + 1 \in 1..Callbacks[p] /\ offset[p] + k + 1 = global[t].used + (k + 1)
          BY <2>n
        <5> QED
          BY <2>3, <2>4, <5>1
      <4> QED
        BY <2>1, <2>2, <2>5, <3>1, <4>1 DEF SlotsOf
    <3>2. CASE q # p /\ owner[q] = t
      <4>1. q \in live /\ SlotsOf(q)
        BY <2>2, <3>2, <1>i DEF SlotsInv
      <4> QED
        BY <2>1, <2>2, <2>3, <2>4, <2>5, <3>2, <4>1 DEF SlotsOf
    <3>3. CASE q # p /\ owner[q] # t
      <4>1. q \in live /\ SlotsOf(q) /\ owner[q] \in Hosts
        BY <2>2, <3>3, <1>i DEF SlotsInv
      <4> QED
        BY <2>2, <2>5, <3>3, <4>1 DEF SlotsOf
    <3> QED
      BY <3>1, <3>2, <3>3
  <2>9. \A w \in Workers : (Started(w)' <=> Started(w)) /\ global'[w] = global[w]
    BY <2>1, <2>2, <2>5, <1>t DEF Started
  <2> QED
    BY <2>2, <2>7, <2>8, <2>9, <1>i DEF SlotsInv, ThreadRecord
<1>5. ASSUME NEW t \in Threads, Cleanup(t) PROVE SlotsInv'
  <2>1. /\ t \in Hosts /\ at[t] = "c_code" /\ global' = [global EXCEPT ![t] = NoGlobal]
        /\ live' = live \ {p \in Programs : owner[p] = t}
        /\ UNCHANGED <<at, frames, owner, offset, prog>>
    BY <1>5 DEF Cleanup, ctxVars
  <2>2. global'[t] = NoGlobal /\ \A u \in Threads \ {t} : global'[u] = global[u]
    BY <2>1, <1>t
  <2>3. NoGlobal.used = Len(NoGlobal.ctxs) /\ Len(NoGlobal.ctxs) = 0
    BY DEF NoGlobal
  <2>4. ASSUME NEW h \in Hosts
        PROVE  /\ global'[h] = NoGlobal \/ global'[h].is_main
               /\ global'[h].used = Len(global'[h].ctxs)
               /\ \A i \in 1..Len(global'[h].ctxs) :
                    global'[h].ctxs[i] \in Programs /\ owner'[global'[h].ctxs[i]] = h
               /\ at'[h] = "launching" =>
                    /\ Top(h)' \notin live' /\ offset'[Top(h)'] = global'[h].used
                    /\ Callbacks[Top(h)'] <= MaxCallbacks - global'[h].used
    <3>1. CASE h = t
      BY <2>1, <2>2, <2>3, <3>1
    <3>2. CASE h # t
      BY <2>1, <2>2, <3>2, <1>i DEF SlotsInv, Top
    <3> QED
      BY <3>1, <3>2
  <2>5. ASSUME NEW q \in live' PROVE owner'[q] \in Hosts /\ SlotsOf(q)'
    <3>1. q \in live /\ owner[q] # t
      BY <2>1, <2>5, <1>t
    <3> QED
      BY <2>1, <2>2, <3>1, <1>i DEF SlotsInv, SlotsOf
  <2>6. \A w \in Workers : (Started(w)' <=> Started(w)) /\ global'[w] = global[w]
    BY <2>1, <2>2 DEF Started
  <2> QED
    BY <2>1, <2>4, <2>5, <2>6, <1>i DEF SlotsInv, ThreadRecord
<1>6. ASSUME NEW w \in Workers, Inherit(w) PROVE SlotsInv'
  <2>1. /\ at[w] = "inherit" /\ UNCHANGED <<live, owner, offset>>
        /\ \/ /\ global' = [global EXCEPT ![w] = ThreadRecord(w)]
              /\ at' = [at EXCEPT ![w] = "running"]
           \/ UNCHANGED global /\ at' = [at EXCEPT ![w] = "aborted"]
        /\ \A u \in Threads \ {w} : frames'[u] = frames[u]
        /\ \A c \in Ctxs \ {w} : prog'[c] = prog[c]
    BY <1>6, <1>t DEF Inherit, launchVars
  <2>2. \A u \in Threads \ {w} : at'[u] = at[u] /\ global'[u] = global[u]
    BY <2>1, <1>t
  <2>3. /\ ~Started(w)
        /\ \/ Started(w)' /\ global'[w] = ThreadRecord(w)
           \/ ~Started(w)' /\ global'[w] = global[w]
    BY <2>1, <1>t DEF Started, Executing, Refusals
  <2>4. \A v \in Workers \ {w} : Started(v)' <=> Started(v)
    BY <2>2 DEF Started
  <2>5. \A v \in Workers : global'[v] = IF Started(v)' THEN ThreadRecord(v)' ELSE NoGlobal
    <3>1. \A v \in Workers : global[v] = IF Started(v) THEN ThreadRecord(v) ELSE NoGlobal
      BY <1>i DEF SlotsInv
    <3>2. global'[w] = IF Started(w)' THEN ThreadRecord(w) ELSE NoGlobal
      BY <2>3, <3>1
    <3>3. ASSUME NEW v \in Workers, v # w
          PROVE  global'[v] = IF Started(v)' THEN ThreadRecord(v) ELSE NoGlobal
      BY <2>2, <2>4, <3>1, <3>3
    <3> QED
      BY <3>2, <3>3 DEF ThreadRecord
  <2>6. \A h \in Hosts : at'[h] = at[h] /\ global'[h] = global[h] /\ Top(h)' = Top(h)
    BY <2>1, <2>2 DEF Top
  <2>7. \A p \in live : SlotsOf(p)'
    BY <2>1, <2>6, <1>i DEF SlotsInv, SlotsOf
  <2>8. \A p \in Programs : prog'[p] = p
    BY <2>1, <1>i, <1>c DEF SlotsInv
  <2> QED
    BY <2>1, <2>5, <2>6, <2>7, <2>8, <1>i DEF SlotsInv
<1> QED
  BY <1>i, <1>1, <1>2, <1>3, <1>4, <1>5, <1>6, QuietSteps DEF Next, Handshake

-----------------------------------------------------------------------------
(* Once a program is launched and a thread has started, the tables and the *)
(* size of its memory stay.                                                *)
Kept ==
  \A c \in Ctxs : Settled(c) =>
     Settled(c)' /\ prog'[c] = prog[c] /\ extra'[c] = extra[c]

LEMMA KeptStep == CtxInv /\ [Next]_vars => Kept
<1> SUFFICES ASSUME CtxInv, [Next]_vars PROVE Kept
  OBVIOUS
<1> USE ContextsAssumption
    DEF Kept, Settled, Started, Executing, Refusals, Threads, InC, launchVars, ctxVars
<1>i. FramesInv /\ Located /\ SlotsInv /\ TypeOK
  BY DEF CtxInv, FramesInv
<1>t. /\ at \in [Threads -> Locations] /\ owner \in [Programs -> Hosts \cup {Nobody}]
      /\ prog \in [Ctxs -> Programs \cup {Nobody}] /\ extra \in [Ctxs -> Nat]
  BY <1>i DEF TypeOK
<1>1. CASE UNCHANGED vars
  BY <1>1 DEF vars
<1>2. ASSUME NEW t \in Threads,
             \E p \in Programs : Refuse(t, p)
             \/ \E k \in 0..(Callbacks[p] - 1) : Callback(t, p, k)
      PROVE  Kept
  BY <1>2, <1>t, <1>i DEF Refuse, Callback, Located
<1>3. ASSUME NEW t \in Threads, NEW p \in Programs, Launch(t, p) PROVE Kept
  <2>1. t \in Hosts
    BY <1>3, <1>i, WorkersCannotLaunch DEF Launch
  <2>2. /\ owner' = [owner EXCEPT ![p] = t] /\ owner[p] = Nobody /\ prog' = prog
        /\ at' = [at EXCEPT ![t] = "launching"]
        /\ \E room \in Rooms : extra' = [extra EXCEPT ![p] = room]
    BY <1>3 DEF Launch
  <2> QED
    BY <2>1, <2>2, <1>t
<1>4. ASSUME NEW t \in Threads, GoOn(t) PROVE Kept
  BY <1>4, <1>t, <1>i DEF GoOn, Located
<1>5. ASSUME NEW t \in Threads, EnterRun(t) PROVE Kept
  BY <1>5, <1>t DEF EnterRun
<1>6. ASSUME NEW t \in Threads, Return(t) PROVE Kept
  BY <1>6, <1>t DEF Return
<1>7. ASSUME NEW t \in Threads, Cleanup(t) PROVE Kept
  BY <1>7, <1>t DEF Cleanup
<1>8. ASSUME NEW t \in Threads, NEW w \in Workers,
             Join(t, w) \/ \E a \in Args : Create(t, w, a)
      PROVE  Kept
  BY <1>8, <1>t DEF Join, Create
<1>9. ASSUME NEW t \in Threads, StoreHandle(t) \/ Leave(t) PROVE Kept
  BY <1>9, <1>t DEF StoreHandle, Leave
<1>10. ASSUME NEW w \in Workers, ReadArg(w) \/ Post(w) \/ SizeSpace(w) PROVE Kept
  BY <1>10, <1>t DEF ReadArg, Post, SizeSpace
<1>11. ASSUME NEW w \in Workers, Inherit(w) PROVE Kept
  <2>1. /\ at[w] = "inherit" /\ owner' = owner
        /\ \A u \in Threads \ {w} : at'[u] = at[u]
        /\ \A c \in Ctxs \ {w} : prog'[c] = prog[c] /\ extra'[c] = extra[c]
    BY <1>11, <1>t DEF Inherit
  <2> QED
    BY <2>1, <1>t
<1> QED
  BY <1>1, <1>2, <1>3, <1>4, <1>5, <1>6, <1>7, <1>8, <1>9, <1>10, <1>11 DEF Next, Handshake

LEMMA RootKept ==
  ASSUME Kept, NEW w \in Workers, parent'[w] = parent[w], NEW c \in Ctxs, RootOK(c, w)
  PROVE  RootOK(c, w)'
  BY DEF Kept, RootOK

(* A program names itself, and a thread that has started names a program.  *)
LEMMA SettledProgram ==
  ASSUME CtxInv, NEW c \in Ctxs, Settled(c)
  PROVE  prog[c] \in Programs /\ extra[c] \in Nat
  BY DEF CtxInv, SlotsInv, RootsInv, Settled, TypeOK

(* The space is what thread_entry carves out and the root's memory.        *)
LEMMA SpaceFits ==
  ASSUME NEW e \in {"vm", "x86_32", "esp32s3"}, NEW room \in Nat
  PROVE  /\ thread_extra_stack_space_get(e, room) \in Nat
         /\ room = thread_extra_stack_space_get(e, room) - Carved(e)
  BY DEF thread_extra_stack_space_get, Carved, VmThreadSpace, X86ThreadSpace,
         EspThreadSpace, VmCarved, X86Carved, EspCarved, STACK_BYTES

(* A thread that is neither created nor moves keeps its root.              *)
RootedAt(w) ==
  at'[w] \in Starting =>
    /\ at'[w] = at[w] \/ (at[w] = "post" /\ at'[w] = "size")
    /\ parent'[w] = parent[w] /\ local'[w] = local[w]
    /\ at[w] = "born" => entry'[parent[w]] = entry[parent[w]]
Rooted == \A w \in Workers : RootedAt(w)

LEMMA RootedRoots ==
  ASSUME CtxInv, Kept, NEW w \in Workers, RootedAt(w)
  PROVE  RootsOf(w)'
<1>1. ASSUME at'[w] = "born" PROVE RootOK(entry[parent[w]].stack, w)'
  <2>1. /\ at[w] = "born" /\ parent'[w] = parent[w] /\ entry'[parent[w]] = entry[parent[w]]
    BY <1>1 DEF RootedAt, Starting
  <2>2. PICK c \in Ctxs : c = entry[parent[w]].stack /\ RootOK(c, w)
    BY <2>1 DEF CtxInv, RootsInv, RootsOf, RootOK, Settled, Ctxs
  <2>3. RootOK(c, w)'
    BY <2>1, <2>2, RootKept
  <2> QED
    BY <2>1, <2>2, <2>3 DEF RootOK, Settled, Started
<1>2. ASSUME at'[w] \in {"post", "size", "inherit"}
      PROVE  /\ RootOK(local[w].root, w)'
             /\ Disciplined /\ at'[w] = "inherit"
                   => local'[w].memory_len = SpaceOf(local[w].root)'
  <2>1. /\ at[w] = at'[w] \/ (at[w] = "post" /\ at'[w] = "size")
        /\ parent'[w] = parent[w] /\ local'[w] = local[w]
    BY <1>2 DEF RootedAt, Starting
  <2>2. PICK c \in Ctxs : c = local[w].root /\ RootOK(c, w)
    BY <1>2, <2>1 DEF CtxInv, RootsInv, RootsOf, RootOK, Settled, Ctxs
  <2>3. RootOK(c, w)'
    BY <2>1, <2>2, RootKept
  <2>4. prog'[c] = prog[c] /\ extra'[c] = extra[c]
    BY <2>2 DEF Kept, RootOK
  <2>5. Disciplined /\ at[w] = "inherit" => local[w].memory_len = SpaceOf(c)
    BY <2>2 DEF CtxInv, RootsInv, RootsOf
  <2> QED
    BY <2>1, <2>2, <2>3, <2>4, <2>5 DEF RootOK, Settled, Started, SpaceOf
<1> QED
  BY <1>1, <1>2 DEF RootsOf

LEMMA RootedSteps ==
  ASSUME CtxInv, NEW t \in Threads,
         \/ \E p \in Programs : Refuse(t, p) \/ Launch(t, p)
         \/ GoOn(t) \/ EnterRun(t) \/ Return(t) \/ Cleanup(t)
         \/ \E p \in Programs : \E k \in 0..(Callbacks[p] - 1) : Callback(t, p, k)
         \/ \E w \in Workers : Join(t, w)
         \/ StoreHandle(t) \/ Leave(t)
         \/ t \in Workers /\ (Post(t) \/ Inherit(t))
  PROVE  Rooted
<1> USE ContextsAssumption DEF Rooted, RootedAt, Starting, Refusals, Threads, InC, createVars
<1>t. /\ at \in [Threads -> Locations]
      /\ entry \in [Threads -> [stack : Ctxs \cup {Nobody}, arg : Args \cup {Nobody}]]
  BY DEF CtxInv, TypeOK
<1>1. CASE Calm
  BY <1>1 DEF Calm
<1>2. CASE StoreHandle(t)
  BY <1>t, <1>2 DEF StoreHandle
<1>3. CASE Leave(t)
  <2>1. \A w \in Workers : at[w] = "born" => parent[w] # t /\ parent[w] \in Threads
    BY <1>3 DEF Leave, CtxInv, HandshakeInv, ArgOutlivesUse
  <2> QED
    BY <1>t, <1>3, <2>1 DEF Leave
<1>4. CASE t \in Workers /\ Post(t)
  BY <1>t, <1>4 DEF Post
<1>5. CASE t \in Workers /\ Inherit(t)
  BY <1>t, <1>5 DEF Inherit
<1> QED
  BY <1>1, <1>2, <1>3, <1>4, <1>5, CalmSteps DEF CtxInv

(* A created thread starts when it has inherited its tables.               *)
LEMMA StartedStep ==
  ASSUME CtxInv, [Next]_vars, NEW w \in Workers, Started(w)', ~Started(w)
  PROVE  Inherit(w)
<1> USE ContextsAssumption DEF Started, Executing, Refusals, Threads
<1>t. at \in [Threads -> Locations] /\ Located
  BY DEF CtxInv, TypeOK, FramesInv
<1>1. CASE UNCHANGED vars
  BY <1>1 DEF vars
<1>2. ASSUME NEW t \in Threads, Quiet PROVE FALSE
  BY <1>2 DEF Quiet
<1>3. ASSUME NEW t \in Threads, NEW p \in Programs, Launch(t, p) PROVE FALSE
  BY <1>3, <1>t DEF Launch, InC
<1>4. ASSUME NEW t \in Threads, EnterRun(t) PROVE FALSE
  BY <1>4, <1>t DEF EnterRun, Located
<1>5. ASSUME NEW t \in Threads, Cleanup(t) PROVE FALSE
  BY <1>5 DEF Cleanup
<1>6. ASSUME NEW v \in Workers, Inherit(v) PROVE v = w
  BY <1>6, <1>t DEF Inherit
<1> QED
  BY <1>t, <1>1, <1>2, <1>3, <1>4, <1>5, <1>6, QuietSteps DEF Next, Handshake, CtxInv

(* What the root holds of tables, and, if its thread has not ended, that   *)
(* its space fits.                                                         *)
LEMMA InheritEffect ==
  ASSUME CtxInv, NEW w \in Workers, Inherit(w)
  PROVE  /\ at'[w] = "running" => prog'[w] \in Programs
         /\ Disciplined => at'[w] = "running"
<1> USE ContextsAssumption DEF Threads, Ctxs
<1>t. at \in [Threads -> Locations] /\ prog \in [Ctxs -> Programs \cup {Nobody}]
  BY DEF CtxInv, TypeOK
<1> DEFINE c == local[w].root
<1>1. at[w] = "inherit" /\ RootOK(c, w) /\ c \in Ctxs
  BY DEF Inherit, CtxInv, RootsInv, RootsOf, RootOK, Settled
<1>2. prog[c] \in Programs /\ extra[c] \in Nat
  BY <1>1, SettledProgram DEF RootOK
<1>3. ReadProg(c) \subseteq Programs
  BY <1>2 DEF ReadProg
<1>4. at'[w] = "running" => prog'[w] \in Programs
  BY <1>t, <1>3 DEF Inherit
<1>5. ASSUME Disciplined PROVE at'[w] = "running"
  <2>1. c \in Workers => at[c] \in Executing
    BY <1>1, <1>5 DEF CtxInv, RootsInv, RootOK, Starting
  <2>2. Readable(c)
    BY <1>1, <2>1 DEF Readable, Gone, Executing, Refusals
  <2>3. ReadProg(c) = {prog[c]} /\ ReadRoom(c) = {extra[c]}
    BY <2>2 DEF ReadProg, ReadRoom
  <2>4. local[w].memory_len = thread_extra_stack_space_get(Engine[prog[c]], extra[c])
    BY <1>1, <1>5 DEF CtxInv, RootsInv, RootsOf, SpaceOf
  <2>5. Engine[prog[c]] \in {"vm", "x86_32", "esp32s3"}
    BY <1>2
  <2>6. extra[c] = local[w].memory_len - Carved(Engine[prog[c]])
    BY <1>2, <2>4, <2>5, SpaceFits
  <2> QED
    BY <1>t, <2>3, <2>6 DEF Inherit
<1> QED
  BY <1>4, <1>5

LEMMA ExecutingStep ==
  ASSUME CtxInv, [Next]_vars, NEW q \in Workers, at[q] \in Executing
  PROVE  at'[q] \in Executing \/ (Return(q) /\ Len(frames[q]) = 1)
<1> USE ContextsAssumption DEF Executing, Refusals, Threads, InC
<1>t. /\ at \in [Threads -> Locations] /\ frames \in [Threads -> Seq(Ctxs)] /\ Located
  BY DEF CtxInv, TypeOK, FramesInv
<1>1. CASE UNCHANGED vars
  BY <1>1 DEF vars
<1>2. ASSUME NEW t \in Threads, NEW p \in Programs, Refuse(t, p) \/ Launch(t, p)
      PROVE  at'[q] \in Executing
  <2>1. CASE t \in Hosts
    BY <1>2, <1>t, <2>1 DEF Refuse, Launch
  <2>2. CASE Refuse(t, p)
    BY <1>t, <2>2 DEF Refuse
  <2>3. CASE t \in Workers /\ Launch(t, p)
    BY <1>t, <2>3, WorkersCannotLaunch DEF Launch, CtxInv
  <2> QED
    BY <1>2, <2>1, <2>2, <2>3
<1>3. ASSUME NEW t \in Threads, GoOn(t) \/ EnterRun(t) \/ Cleanup(t) PROVE at'[q] \in Executing
  BY <1>3, <1>t DEF GoOn, EnterRun, Cleanup, Located
<1>4. ASSUME NEW t \in Threads, Return(t)
      PROVE  at'[q] \in Executing \/ (Return(q) /\ Len(frames[q]) = 1)
  <2>1. CASE t = q
    <3>1. at[q] = "running" /\ Len(frames[q]) > 0 /\ Len(frames[q]) \in Nat
      BY <1>4, <1>t, <2>1 DEF Return, Located
    <3>2. CASE Len(frames[q]) > 1
      BY <1>4, <1>t, <2>1, <3>2 DEF Return
    <3>3. CASE ~(Len(frames[q]) > 1)
      <4>1. \A n \in Nat : n > 0 /\ ~(n > 1) => n = 1
        OBVIOUS
      <4>3. Len(frames[q]) = 1
        BY ONLY <3>1, <3>3, <4>1
      <4>2. Return(q)
        BY <1>4, <2>1, Zenon
      <4> QED
        BY <4>2, <4>3
    <3> QED
      BY <3>2, <3>3
  <2>2. CASE t # q
    BY <1>4, <1>t, <2>2 DEF Return
  <2> QED
    BY <2>1, <2>2
<1>5. ASSUME NEW t \in Threads, NEW p \in Programs, NEW k \in 0..(Callbacks[p] - 1),
             Callback(t, p, k)
      PROVE  at'[q] \in Executing
  BY <1>5, <1>t DEF Callback
<1>6. ASSUME NEW t \in Threads, NEW w \in Workers,
             Join(t, w) \/ \E a \in Args : Create(t, w, a)
      PROVE  at'[q] \in Executing
  BY <1>6, <1>t DEF Join, Create
<1>7. ASSUME NEW t \in Threads, StoreHandle(t) \/ Leave(t) PROVE at'[q] \in Executing
  BY <1>7, <1>t DEF StoreHandle, Leave
<1>8. ASSUME NEW w \in Workers, ReadArg(w) \/ Post(w) \/ SizeSpace(w) \/ Inherit(w)
      PROVE  at'[q] \in Executing
  BY <1>8, <1>t DEF ReadArg, Post, SizeSpace, Inherit
<1> QED
  BY <1>1, <1>2, <1>3, <1>4, <1>5, <1>6, <1>7, <1>8 DEF Next, Handshake

(* A thread that starts was there before, unless it is being created.      *)
LEMMA StartingStep ==
  ASSUME CtxInv, [Next]_vars, NEW w \in Workers, at'[w] \in Starting,
         ~ \E t \in Threads, a \in Args : Create(t, w, a)
  PROVE  at[w] \in Starting /\ parent'[w] = parent[w]
<1> USE ContextsAssumption DEF Starting, Threads, createVars
<1>t. at \in [Threads -> Locations] /\ parent \in [Workers -> Threads \cup {Nobody}]
  BY DEF CtxInv, TypeOK
<1>1. CASE UNCHANGED vars
  BY <1>1 DEF vars
<1>2. CASE Rooted
  BY <1>2 DEF Rooted, RootedAt
<1>3. ASSUME NEW t \in Threads, NEW v \in Workers, NEW a \in Args, Create(t, v, a)
      PROVE  at[w] \in Starting /\ parent'[w] = parent[w]
  BY <1>3, <1>t DEF Create
<1>4. ASSUME NEW v \in Workers, ReadArg(v) \/ SizeSpace(v)
      PROVE  at[w] \in Starting /\ parent'[w] = parent[w]
  BY <1>4, <1>t DEF ReadArg, SizeSpace
<1> QED
  BY <1>1, <1>2, <1>3, <1>4, RootedSteps DEF Next, Handshake

LEMMA ParentsStep ==
  ASSUME CtxInv, [Next]_vars, Disciplined, NEW w \in Workers, at'[w] \in Starting,
         parent'[w] \in Workers
  PROVE  at'[parent'[w]] \in Executing
<1> USE ContextsAssumption DEF Threads
<1>t. at \in [Threads -> Locations] /\ parent \in [Workers -> Threads \cup {Nobody}]
  BY DEF CtxInv, TypeOK
<1>1. ASSUME NEW t \in Threads, NEW a \in Args, Create(t, w, a)
      PROVE  at'[parent'[w]] \in Executing
  BY <1>1, <1>t DEF Create, Executing
<1>2. CASE ~ \E t \in Threads, a \in Args : Create(t, w, a)
  <2>1. at[w] \in Starting /\ parent'[w] = parent[w]
    BY <1>2, StartingStep
  <2>2. PICK q \in Workers : q = parent[w]
    BY <2>1
  <2>3. at[q] \in Executing
    BY <2>1, <2>2 DEF CtxInv, RootsInv
  <2>4. ~(Return(q) /\ Len(frames[q]) = 1)
    BY <2>1, <2>2 DEF Return, Starting
  <2> QED
    BY <2>1, <2>2, <2>3, <2>4, ExecutingStep
<1> QED
  BY <1>1, <1>2

LEMMA AbortedStep ==
  ASSUME CtxInv, [Next]_vars, NEW w \in Workers, at[w] # "aborted", ~Inherit(w)
  PROVE  at'[w] # "aborted"
<1> USE ContextsAssumption DEF Threads, Refusals
<1>t. at \in [Threads -> Locations]
  BY DEF CtxInv, TypeOK
<1>1. CASE UNCHANGED vars
  BY <1>1 DEF vars
<1>2. ASSUME NEW t \in Threads, NEW p \in Programs,
             \/ Refuse(t, p) \/ Launch(t, p)
             \/ \E k \in 0..(Callbacks[p] - 1) : Callback(t, p, k)
      PROVE  at'[w] # "aborted"
  BY <1>2, <1>t DEF Refuse, Launch, Callback
<1>3. ASSUME NEW t \in Threads, GoOn(t) \/ EnterRun(t) \/ Return(t) \/ Cleanup(t)
      PROVE  at'[w] # "aborted"
  BY <1>3, <1>t DEF GoOn, EnterRun, Return, Cleanup
<1>4. ASSUME NEW t \in Threads, NEW v \in Workers,
             Join(t, v) \/ \E a \in Args : Create(t, v, a)
      PROVE  at'[w] # "aborted"
  BY <1>4, <1>t DEF Join, Create
<1>5. ASSUME NEW t \in Threads, StoreHandle(t) \/ Leave(t) PROVE at'[w] # "aborted"
  BY <1>5, <1>t DEF StoreHandle, Leave
<1>6. ASSUME NEW v \in Workers, ReadArg(v) \/ Post(v) \/ SizeSpace(v)
      PROVE  at'[w] # "aborted"
  BY <1>6, <1>t DEF ReadArg, Post, SizeSpace
<1>7. ASSUME NEW v \in Workers, Inherit(v) PROVE at'[w] # "aborted"
  <2>1. v # w
    BY <1>7, Zenon
  <2> QED
    BY <1>7, <1>t, <2>1 DEF Inherit
<1> QED
  BY <1>1, <1>2, <1>3, <1>4, <1>5, <1>6, <1>7 DEF Next, Handshake

LEMMA RootsStep == CtxInv /\ [Next]_vars => RootsInv'
<1> SUFFICES ASSUME CtxInv, [Next]_vars PROVE RootsInv'
  OBVIOUS
<1> USE ContextsAssumption DEF Threads
<1>k. Kept
  BY KeptStep
<1>t. /\ at \in [Threads -> Locations] /\ parent \in [Workers -> Threads \cup {Nobody}]
      /\ entry \in [Threads -> [stack : Ctxs \cup {Nobody}, arg : Args \cup {Nobody}]]
      /\ frames \in [Threads -> Seq(Ctxs)]
      /\ local \in [Workers -> [root : Ctxs \cup {Nobody}, memory_len : Nat,
                                arg : Args \cup Workers \cup {Nobody}]]
  BY DEF CtxInv, TypeOK
<1>p. ASSUME NEW w \in Workers, Started(w)' PROVE prog'[w] \in Programs
  <2>1. CASE Started(w)
    <3>1. w \in Ctxs /\ Settled(w)
      BY <2>1 DEF Settled, Ctxs
    <3> QED
      BY <3>1, <1>k, SettledProgram DEF Kept
  <2>2. CASE ~Started(w)
    <3>1. Inherit(w)
      BY <1>p, <2>2, StartedStep
    <3>2. at'[w] = "running"
      BY <1>p, <3>1, <1>t DEF Inherit, Started, Executing, Refusals
    <3> QED
      BY <3>1, <3>2, InheritEffect
  <2> QED
    BY <2>1, <2>2
<1>a. ASSUME Disciplined, NEW w \in Workers PROVE at'[w] # "aborted"
  <2>1. at[w] # "aborted"
    BY <1>a DEF CtxInv, RootsInv
  <2>2. CASE Inherit(w)
    BY <1>a, <2>2, InheritEffect
  <2>3. CASE ~Inherit(w)
    BY <2>1, <2>3, AbortedStep
  <2> QED
    BY <2>2, <2>3
<1>1. CASE Rooted \/ UNCHANGED vars
  <2>1. Rooted
    BY <1>1 DEF Rooted, RootedAt, vars, createVars
  <2>2. \A w \in Workers : RootsOf(w)'
    BY <2>1, <1>k, RootedRoots DEF Rooted
  <2> QED
    BY <2>2, <1>p, <1>a, ParentsStep DEF RootsInv
<1>2. ASSUME NEW t \in Threads, NEW v \in Workers, NEW a \in Args, Create(t, v, a)
      PROVE  \A w \in Workers : RootsOf(w)'
  <2>1. /\ at[t] = "running" /\ at[v] = "unborn" /\ v # t
        /\ at' = [at EXCEPT ![t] = "store", ![v] = "born"]
        /\ entry' = [entry EXCEPT ![t] = [stack |-> Top(t), arg |-> a]]
        /\ parent' = [parent EXCEPT ![v] = t] /\ UNCHANGED <<local, owner>>
    BY <1>2 DEF Create, launchVars
  <2>2. RootsOf(v)'
    <3>1. Top(t) \in Ctxs /\ RootOK(Top(t), v)'
      <4>1. Len(frames[t]) > 0
        BY <2>1 DEF CtxInv, FramesInv, Located
      <4>2. /\ Top(t) \in Ctxs
            /\ t \in Hosts => Top(t) \in Programs /\ owner[Top(t)] = t
            /\ t \in Workers => Top(t) = t
        BY <4>1, TopOfFrames DEF CtxInv
      <4>3. parent'[v] = t /\ at'[t] = "store" /\ Top(t)' = Top(t)
        BY <1>2, <2>1, <1>t DEF Create, Top
      <4> QED
        BY <2>1, <4>2, <4>3 DEF RootOK, Settled, Started, Executing
    <3>2. at'[v] = "born" /\ entry'[parent'[v]].stack = Top(t) /\ Top(t)' = Top(t)
      BY <1>2, <2>1, <1>t DEF Create, Top
    <3> QED
      BY <3>1, <3>2 DEF RootsOf
  <2>3. ASSUME NEW w \in Workers, w # v PROVE RootedAt(w)
    <3>1. at[w] = "born" => parent[w] # t /\ parent[w] \in Threads
      BY <2>1 DEF CtxInv, HandshakeInv, ArgOutlivesUse
    <3> QED
      BY <2>1, <2>3, <3>1, <1>t DEF RootedAt, Starting
  <2> QED
    BY <2>2, <2>3, <1>k, RootedRoots
<1>3. ASSUME NEW v \in Workers, ReadArg(v) PROVE \A w \in Workers : RootsOf(w)'
  <2>1. /\ at[v] = "born" /\ at' = [at EXCEPT ![v] = "post"]
        /\ local' = [local EXCEPT ![v] = [root |-> entry[parent[v]].stack,
                                        arg |-> entry[parent[v]].arg, memory_len |-> 0]]
        /\ UNCHANGED <<parent, entry>>
    BY <1>3 DEF ReadArg
  <2>2. PICK c \in Ctxs : c = entry[parent[v]].stack /\ RootOK(c, v)
    BY <2>1 DEF CtxInv, RootsInv, RootsOf, RootOK, Settled, Ctxs
  <2>3. RootOK(c, v)' /\ local'[v].root = c /\ at'[v] = "post"
    BY <2>1, <2>2, <1>k, <1>t, RootKept
  <2>4. RootsOf(v)'
    BY <2>3 DEF RootsOf, RootOK, Settled, Started
  <2>5. ASSUME NEW w \in Workers, w # v PROVE RootedAt(w)
    BY <2>1, <2>5, <1>t DEF RootedAt
  <2> QED
    BY <2>4, <2>5, <1>k, RootedRoots
<1>4. ASSUME NEW v \in Workers, SizeSpace(v) PROVE \A w \in Workers : RootsOf(w)'
  <2>1. PICK c \in Ctxs : c = local[v].root /\ RootOK(c, v)
    BY <1>4 DEF SizeSpace, CtxInv, RootsInv, RootsOf, RootOK, Settled, Ctxs
  <2>2. /\ at[v] = "size" /\ at' = [at EXCEPT ![v] = "inherit"] /\ UNCHANGED <<parent, entry>>
        /\ \E p \in ReadProg(c), room \in ReadRoom(c) :
              local' = [local EXCEPT ![v].memory_len =
                          thread_extra_stack_space_get(Engine[p], room)]
    BY <1>4, <2>1 DEF SizeSpace
  <2>3. RootOK(c, v)' /\ at'[v] = "inherit" /\ local'[v].root = c
    BY <2>1, <2>2, <1>k, <1>t, RootKept
  <2>4. ASSUME Disciplined PROVE local'[v].memory_len = SpaceOf(c)
    <3>1. c \in Workers => at[c] \in Executing
      BY <2>1, <2>2, <2>4 DEF CtxInv, RootsInv, RootOK, Starting
    <3>2. ReadProg(c) = {prog[c]} /\ ReadRoom(c) = {extra[c]}
      BY <2>1, <3>1 DEF ReadProg, ReadRoom, Readable, Gone, Executing, Refusals, RootOK, Settled
    <3> QED
      BY <2>2, <3>2, <1>t DEF SpaceOf
  <2>5. prog'[c] = prog[c] /\ extra'[c] = extra[c]
    BY <2>1, <1>k DEF Kept, RootOK
  <2>6. RootsOf(v)'
    BY <2>3, <2>4, <2>5 DEF RootsOf, RootOK, Settled, Started, SpaceOf
  <2>7. ASSUME NEW w \in Workers, w # v PROVE RootedAt(w)
    BY <2>2, <2>7, <1>t DEF RootedAt
  <2> QED
    BY <2>6, <2>7, <1>k, RootedRoots
<1>5. (\A w \in Workers : RootsOf(w)') => RootsInv'
  BY <1>p, <1>a, ParentsStep DEF RootsInv
<1> QED
  BY <1>1, <1>2, <1>3, <1>4, <1>5, RootedSteps DEF Next, Handshake

-----------------------------------------------------------------------------
LEMMA TypeStep == CtxInv /\ [Next]_vars => TypeOK'
<1> SUFFICES ASSUME CtxInv, [Next]_vars PROVE TypeOK'
  OBVIOUS
<1> USE ContextsAssumption DEF TypeOK, Threads, Ctxs, Locations, NoThreads, Refusals, InC,
                               launchVars, ctxVars, createVars
<1>i. TypeOK /\ FramesInv /\ Located /\ SlotsInv
  BY DEF CtxInv, FramesInv
<1>1. CASE UNCHANGED vars
  BY <1>i, <1>1 DEF vars
<1>2. ASSUME NEW t \in Threads, NEW p \in Programs, Refuse(t, p) PROVE TypeOK'
  BY <1>i, <1>2 DEF Refuse
<1>3. ASSUME NEW t \in Threads, NEW p \in Programs, Launch(t, p) PROVE TypeOK'
  <2>1. t \in Hosts
    BY <1>i, <1>3, WorkersCannotLaunch DEF Launch
  <2>2. frames' \in [Threads -> Seq(Ctxs)]
    BY <1>i, <1>3 DEF Launch
  <2>3. /\ owner' \in [Programs -> Hosts \cup {Nobody}] /\ offset' \in [Programs -> Nat]
        /\ extra' \in [Ctxs -> Nat] /\ at' \in [Threads -> Locations]
    BY <1>i, <1>3, <2>1 DEF Launch, callbacks_used
  <2> QED
    BY <1>i, <1>3, <2>2, <2>3 DEF Launch
<1>4. ASSUME NEW t \in Threads, GoOn(t) PROVE TypeOK'
  BY <1>i, <1>4 DEF GoOn
<1>5. ASSUME NEW t \in Threads, EnterRun(t) PROVE TypeOK'
  <2>1. Top(t) \in Programs /\ Callbacks[Top(t)] \in Nat /\ Top(t) \in Ctxs /\ t \in Hosts
    BY <1>i, <1>5, TopOfFrames DEF EnterRun, Located
  <2>2. /\ global[t] \in [is_main : BOOLEAN, used : Nat, ctxs : Seq(Ctxs)]
        /\ global[t] = NoGlobal \/ global[t].is_main
        /\ global[t].used = Len(global[t].ctxs)
        /\ Callbacks[Top(t)] <= MaxCallbacks - global[t].used
    BY <1>i, <1>5, <2>1 DEF EnterRun, SlotsInv
  <2> DEFINE g == SetCtx(t, Callbacks[Top(t)], Top(t))
  <2>3. WithSlots(g, t, Callbacks[Top(t)], Top(t))
    BY <2>1, <2>2, SetCtxEffect
  <2> HIDE DEF g
  <2>4. /\ g \in [is_main : BOOLEAN, used : Nat, ctxs : Seq(Ctxs)]
        /\ g.used = global[t].used + Callbacks[Top(t)]
    BY <2>3 DEF WithSlots
  <2>5. g.used <= MaxCallbacks
    BY <2>1, <2>2, <2>4
  <2>6. global' = [global EXCEPT ![t] = g]
    BY <1>5 DEF EnterRun, g
  <2>7. /\ global' \in [Threads -> [is_main : BOOLEAN, used : Nat, ctxs : Seq(Ctxs)]]
        /\ \A u \in Threads : global'[u].used <= MaxCallbacks
    BY <1>i, <2>4, <2>5, <2>6
  <2> QED
    BY <1>i, <1>5, <2>1, <2>7 DEF EnterRun
<1>6. ASSUME NEW t \in Threads, Return(t) PROVE TypeOK'
  <2>1. SubSeq(frames[t], 1, Len(frames[t]) - 1) \in Seq(Ctxs)
    BY <1>i
  <2> QED
    BY <1>i, <1>6, <2>1 DEF Return
<1>7. ASSUME NEW t \in Threads, Cleanup(t) PROVE TypeOK'
  <2>1. NoGlobal \in [is_main : BOOLEAN, used : Nat, ctxs : Seq(Ctxs)] /\ NoGlobal.used = 0
    BY DEF NoGlobal
  <2> QED
    BY <1>i, <1>7, <2>1 DEF Cleanup
<1>8. ASSUME NEW t \in Threads, NEW p \in Programs, NEW k \in 0..(Callbacks[p] - 1),
             Callback(t, p, k)
      PROVE  TypeOK'
  <2>1. get_ctx(t, CallbackSlot(p, k)) \in Ctxs
    BY <1>8, CallbackContext
  <2>2. frames' \in [Threads -> Seq(Ctxs)]
    BY <1>i, <1>8, <2>1 DEF Callback
  <2> QED
    BY <1>i, <1>8, <2>2 DEF Callback
<1>9. ASSUME NEW t \in Threads, NEW w \in Workers, Join(t, w) PROVE TypeOK'
  BY <1>i, <1>9 DEF Join
<1>10. ASSUME NEW t \in Threads, NEW w \in Workers, NEW a \in Args, Create(t, w, a)
       PROVE  TypeOK'
  <2>1. Top(t) \in Ctxs
    BY <1>i, <1>10, TopOfFrames DEF Create, Located
  <2> QED
    BY <1>i, <1>10, <2>1 DEF Create
<1>11. ASSUME NEW t \in Threads, StoreHandle(t) PROVE TypeOK'
  BY <1>i, <1>11 DEF StoreHandle
<1>12. ASSUME NEW t \in Threads, Leave(t) PROVE TypeOK'
  BY <1>i, <1>12 DEF Leave
<1>13. ASSUME NEW w \in Workers, ReadArg(w) PROVE TypeOK'
  <2>1. parent[w] \in Threads
    BY <1>13 DEF ReadArg, CtxInv, HandshakeInv, ArgOutlivesUse
  <2> QED
    BY <1>i, <1>13, <2>1 DEF ReadArg
<1>14. ASSUME NEW w \in Workers, Post(w) PROVE TypeOK'
  BY <1>i, <1>14 DEF Post
<1>15. ASSUME NEW w \in Workers, SizeSpace(w) PROVE TypeOK'
  <2>1. PICK p \in ReadProg(local[w].root), room \in ReadRoom(local[w].root) :
           local' = [local EXCEPT ![w].memory_len = thread_extra_stack_space_get(Engine[p], room)]
    BY <1>15 DEF SizeSpace
  <2>2. Settled(local[w].root) /\ local[w].root \in Ctxs
    BY <1>15 DEF SizeSpace, CtxInv, RootsInv, RootsOf, RootOK, Settled
  <2>3. p \in Programs /\ room \in Nat
    BY <2>2, SettledProgram DEF ReadProg, ReadRoom
  <2>4. thread_extra_stack_space_get(Engine[p], room) \in Nat
    BY <2>3, SpaceFits
  <2>5. local' \in [Workers -> [root : Ctxs \cup {Nobody}, memory_len : Nat,
                               arg : Args \cup Workers \cup {Nobody}]]
    <3>1. PICK n \in Nat : local' = [local EXCEPT ![w].memory_len = n]
      BY <2>1, <2>4
    <3>2. local \in [Workers -> [root : Ctxs \cup {Nobody}, memory_len : Nat,
                                arg : Args \cup Workers \cup {Nobody}]]
      BY <1>i
    <3> QED
      BY ONLY <3>1, <3>2
  <2> QED
    BY <1>i, <1>15, <2>5 DEF SizeSpace
<1>16. ASSUME NEW w \in Workers, Inherit(w) PROVE TypeOK'
  <2>1. Settled(local[w].root) /\ local[w].root \in Ctxs
    BY <1>16 DEF Inherit, CtxInv, RootsInv, RootsOf, RootOK, Settled
  <2>2. ReadProg(local[w].root) \subseteq Programs /\ ReadRoom(local[w].root) \subseteq Nat
    BY <2>1, SettledProgram DEF ReadProg, ReadRoom
  <2>3. CASE at'[w] = "aborted"
    <3>1. at' = [at EXCEPT ![w] = "aborted"] /\ UNCHANGED <<prog, extra, global, frames>>
      BY <1>i, <1>16, <2>3 DEF Inherit
    <3> QED
      BY <1>i, <1>16, <3>1 DEF Inherit
  <2>4. CASE at'[w] # "aborted"
    <3>1. PICK p \in Programs, room \in Nat :
             /\ prog' = [prog EXCEPT ![w] = p] /\ extra' = [extra EXCEPT ![w] = room]
             /\ global' = [global EXCEPT ![w] = ThreadRecord(w)]
             /\ frames' = [frames EXCEPT ![w] = <<w>>]
             /\ at' = [at EXCEPT ![w] = "running"]
      BY <1>i, <1>16, <2>2, <2>4, ZenonT(30) DEF Inherit
    <3>2. <<w>> \in Seq(Ctxs)
      OBVIOUS
    <3>3. ThreadRecord(w) \in [is_main : BOOLEAN, used : Nat, ctxs : Seq(Ctxs)]
          /\ ThreadRecord(w).used = 0
      BY <3>2 DEF ThreadRecord
    <3>4. /\ global' \in [Threads -> [is_main : BOOLEAN, used : Nat, ctxs : Seq(Ctxs)]]
          /\ \A u \in Threads : global'[u].used <= MaxCallbacks
      BY <1>i, <3>1, <3>3
    <3>5. /\ prog' \in [Ctxs -> Programs \cup {Nobody}] /\ extra' \in [Ctxs -> Nat]
          /\ at' \in [Threads -> Locations] /\ frames' \in [Threads -> Seq(Ctxs)]
      BY <1>i, <3>1, <3>2
    <3> QED
      BY <1>i, <1>16, <3>4, <3>5 DEF Inherit
  <2> QED
    BY <2>3, <2>4
<1> QED
  BY <1>1, <1>2, <1>3, <1>4, <1>5, <1>6, <1>7, <1>8, <1>9, <1>10, <1>11, <1>12, <1>13,
     <1>14, <1>15, <1>16 DEF Next, Handshake

-----------------------------------------------------------------------------
(* The four parts and the types hold in every reachable state.             *)
THEOREM ContextsInvariant == Spec => []CtxInv
<1>1. CtxInv /\ [Next]_vars => CtxInv'
  BY TypeStep, HandshakeStep, FramesStep, SlotsStep, RootsStep DEF CtxInv
<1> QED
  BY InitInv, <1>1, PTL DEF Spec

(* The types, and the assertion of mcp_forth.c:105: a host never hands out *)
(* more than M4_MAX_CALLBACKS slots.                                       *)
THEOREM ContextTypes == Spec => []TypeOK
<1>1. CtxInv => TypeOK
  BY DEF CtxInv
<1> QED
  BY <1>1, ContextsInvariant, PTL

(* As long as a new thread may touch entry_arg, its creator is inside      *)
(* m4_engine_thread_create, whose stack frame holds entry_arg.             *)
THEOREM EntryArgOutlivesUse == Spec => []ArgOutlivesUse
<1>1. CtxInv => ArgOutlivesUse
  BY DEF CtxInv, HandshakeInv
<1> QED
  BY <1>1, ContextsInvariant, PTL

(* A thread starts with the argument its creator meant for it, although    *)
(* the creator overwrites the cell it came from.                           *)
THEOREM ThreadsGetTheirArgument == Spec => []ArgPassed
<1>1. CtxInv => ArgPassed
  BY DEF CtxInv, HandshakeInv
<1> QED
  BY <1>1, ContextsInvariant, PTL

(* However programs are launched, threads created and callbacks called, no *)
(* two threads execute on the same context.                                *)
THEOREM ContextsAreExclusive == Spec => []ContextExclusive
<1>1. ASSUME FramesInv PROVE ContextExclusive
  <2> SUFFICES ASSUME NEW t \in Threads, NEW u \in Threads, t # u,
                      NEW i \in 1..Len(frames[t]), NEW j \in 1..Len(frames[u]),
                      frames[t][i] = frames[u][j]
               PROVE  FALSE
    BY DEF ContextExclusive
  <2> USE ContextsAssumption DEF Threads
  <2>1. \A v \in Threads : \A n \in 1..Len(frames[v]) :
           /\ v \in Hosts => frames[v][n] \in Programs /\ owner[frames[v][n]] = v
           /\ v \in Workers => frames[v][n] = v
    BY <1>1 DEF FramesInv, OwnFrames
  <2>2. CASE t \in Hosts /\ u \in Hosts
    BY <2>1, <2>2
  <2>3. CASE t \in Workers \/ u \in Workers
    BY <2>1, <2>3
  <2> QED
    BY <2>2, <2>3
<1>2. CtxInv => ContextExclusive
  BY <1>1 DEF CtxInv
<1> QED
  BY <1>2, ContextsInvariant, PTL

(* C code may call a callback on the host thread or on any thread of the   *)
(* program, between other programs' launches and callbacks: it runs the    *)
(* word the callback was made from.                                        *)
THEOREM CallbacksRunTheirWords == Spec => CallbackRunsItsWord
<1>1. ASSUME CtxInv, NEW t \in Threads, NEW p \in Programs, NEW k \in 0..(Callbacks[p] - 1),
             Callback(t, p, k)
      PROVE  callback_word(frames'[t][Len(frames'[t])], CallbackSlot(p, k)) = <<p, k>>
  <2> USE ContextsAssumption
  <2> DEFINE c == get_ctx(t, CallbackSlot(p, k))
  <2>1. (t \in Hosts => c = p) /\ (t \in Workers => c = t /\ prog[t] = p)
    BY <1>1, CallbackContext
  <2>2. c \in Ctxs /\ prog[c] = p
    BY <1>1, <2>1 DEF Threads, Ctxs, CtxInv, SlotsInv
  <2>3. frames' = [frames EXCEPT ![t] = Append(@, c)] /\ frames[t] \in Seq(Ctxs)
        /\ frames \in [Threads -> Seq(Ctxs)]
    BY <1>1 DEF Callback, CtxInv, TypeOK
  <2> HIDE DEF c
  <2>4. frames'[t][Len(frames'[t])] = c
    BY <2>2, <2>3
  <2>5. offset[p] \in Nat /\ k \in Int
    BY <1>1 DEF CtxInv, TypeOK
  <2> QED
    BY <2>2, <2>4, <2>5 DEF callback_word, CallbackSlot
<1>2. CtxInv /\ [Next]_vars =>
        [\A t \in Threads, p \in Programs : \A k \in 0..(Callbacks[p] - 1) :
           Callback(t, p, k) =>
             callback_word(frames'[t][Len(frames'[t])], CallbackSlot(p, k))
               = <<p, k>>]_vars
  BY <1>1
<1> QED
  BY <1>2, ContextsInvariant, PTL DEF Spec, CallbackRunsItsWord

(* If programs join the threads they create before they end, the root      *)
(* context a new thread reads twice does not change in between.            *)
THEOREM EntryAssertionHolds == ASSUME Disciplined PROVE Spec => []EntryAssertHolds
<1>1. CtxInv => EntryAssertHolds
  BY Disciplined DEF CtxInv, RootsInv, EntryAssertHolds
<1> QED
  BY <1>1, ContextsInvariant, PTL

=============================================================================
