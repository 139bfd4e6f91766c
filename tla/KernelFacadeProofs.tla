-------------------------- MODULE KernelFacadeProofs --------------------------
(***************************************************************************)
(* Theorems about KernelFacade, for any threads, pool, heap and number of  *)
(* handles: FacadeInv is an invariant, and with it no engine ever reads a  *)
(* body of the other's kind, no block leaks or is freed twice, and no      *)
(* handle is ever bound again.  And about EngineToggles, for any threads   *)
(* and number of engines: TogglesInv is an invariant, and with it a switch *)
(* to the native engine that nobody disturbs keeps what the toggles report.*)
(***************************************************************************)
EXTENDS KernelFacade, EngineToggles, TLAPS

USE FacadeAssumption

(* Ownership and provenance survive a step that leaves every block as       *)
(* reachable as it was, whoever now holds it.                               *)
LEMMA ReachFrame ==
  ASSUME OwnedOrFree, ProvenanceExact, UNCHANGED <<heap, natives, raw>>,
         \A a \in Addrs : (Held(a) \/ Registered(a))' <=> Held(a) \/ Registered(a),
         \A i, j \in DOMAIN shapes' : shapes'[i] = shapes'[j] => i = j
  PROVE  OwnedOrFree' /\ ProvenanceExact'
<1>1. \A a \in Addrs : Worked(a)' <=> Worked(a)
  BY DEF Worked
<1>2. OwnedOrFree'
  BY <1>1 DEF OwnedOrFree
<1>3. ProvenanceExact'
  BY DEF ProvenanceExact
<1> QED
  BY <1>2, <1>3

(* An empty slot is filled: what it now holds is held, and nothing else is. *)
LEMMA FillSlot ==
  ASSUME FacadeTypeOK, NEW x \in Actors, NEW i \in Slots, NEW v \in Addrs \cup {Null},
         refs[x][i] = Null, refs' = [refs EXCEPT ![x][i] = v]
  PROVE  \A a \in Addrs : HeldIn(refs', a) <=> Held(a) \/ a = v
<1> SUFFICES ASSUME NEW a \in Addrs PROVE HeldIn(refs', a) <=> Held(a) \/ a = v
  OBVIOUS
<1>1. refs'[x][i] = v /\ \A y \in Actors, j \in Slots :
        (y # x \/ j # i) => refs'[y][j] = refs[y][j]
  BY DEF FacadeTypeOK
<1> QED
  BY <1>1 DEF HeldIn, Held

(* A slot is emptied: nothing but what it held can cease to be held.        *)
LEMMA EmptySlot ==
  ASSUME FacadeTypeOK, NEW x \in Actors, NEW i \in Slots,
         refs' = [refs EXCEPT ![x][i] = Null]
  PROVE  \A a \in Addrs : a # refs[x][i] => (HeldIn(refs', a) <=> Held(a))
<1> SUFFICES ASSUME NEW a \in Addrs, a # refs[x][i] PROVE HeldIn(refs', a) <=> Held(a)
  OBVIOUS
<1>1. refs'[x][i] = Null /\ \A y \in Actors, j \in Slots :
        (y # x \/ j # i) => refs'[y][j] = refs[y][j]
  BY DEF FacadeTypeOK
<1> QED
  BY <1>1 DEF HeldIn, Held

(* What shared references and provenance say survives a step that leaves    *)
(* heap, provenance, registry and references alone.                         *)
LEMMA HeapFrame ==
  ASSUME OwnedOrFree, ProvenanceExact, UNCHANGED <<heap, natives, shapes, refs, raw>>
  PROVE  OwnedOrFree' /\ ProvenanceExact'
BY DEF OwnedOrFree, ProvenanceExact, Held, HeldIn, Registered, EntryIn, Worked

(* The first process-wide state satisfies the invariant.                    *)
LEMMA InitInv == Init => FacadeInv
<1> SUFFICES ASSUME Init PROVE FacadeInv
  OBVIOUS
<1> USE DEF Init, Empty, Slots
<1>1. FacadeTypeOK
  BY DEF FacadeTypeOK
<1>2. \A a : a \in Addrs => ~Held(a) /\ ~Registered(a) /\ ~Worked(a)
  BY DEF Held, HeldIn, Registered, EntryIn, Worked
<1>3. OwnedOrFree
  BY <1>2 DEF OwnedOrFree
<1>4. ProvenanceExact
  BY <1>2 DEF ProvenanceExact
<1>5. PlaceInv /\ LifeInv /\ SlotInv
  BY DEF PlaceInv, LifeInv, SlotInv, Actors
<1>6. FreshInv /\ ClientInv /\ OperandInv
  BY DEF FreshInv, Fresh, ClientInv, OperandInv, Known, Captured, Actors
<1> QED
  BY <1>1, <1>3, <1>4, <1>5, <1>6 DEF FacadeInv

(* cc_set_engine changes what later calls snapshot, and no call under way.  *)
LEMMA SetEngineInv ==
  ASSUME FacadeInv, NEW t \in Threads, NEW e \in {"native", "default"}, SetEngine(t, e)
  PROVE  FacadeInv'
<1> USE DEF FacadeInv, SetEngine, heapVars, shapeVars, callVars
<1>1. FacadeTypeOK'
  BY DEF FacadeTypeOK
<1>2. OwnedOrFree' /\ ProvenanceExact'
  BY HeapFrame
<1>3. PlaceInv' /\ LifeInv' /\ SlotInv' /\ FreshInv' /\ ClientInv' /\ OperandInv'
  BY DEF PlaceInv, LifeInv, SlotInv, FreshInv, Fresh, Registered, EntryIn, ClientInv,
         OperandInv, Known, Captured, Is
<1> QED
  BY <1>1, <1>2, <1>3

(* A held block of a kind is of that kind after any step that leaves the    *)
(* held blocks alone.                                                       *)
LEMMA KindFrame ==
  ASSUME FacadeInv, \A a \in Addrs : Held(a) => heap'[a] = heap[a],
         NEW x \in Actors, NEW i \in Slots, NEW k \in {"native", "occt"}, Is(refs[x][i], k)
  PROVE  heap'[refs[x][i]] = k
BY DEF FacadeInv, FacadeTypeOK, Held, HeldIn, Is

(* So what a thread knows of its operands stays so when others move, ...    *)
LEMMA KnownFrame ==
  ASSUME FacadeInv, \A a \in Addrs : Held(a) => heap'[a] = heap[a],
         NEW u \in Threads,
         pc'[u] = pc[u] /\ op'[u] = op[u] /\ seen'[u] = seen[u] /\ refs'[u] = refs[u]
  PROVE  Known(u)'
<1>1. Known(u) /\ u \in Actors /\ seen[u] \subseteq Slots /\ 1..Arity(op[u]) \subseteq Slots
  BY DEF FacadeInv, OperandInv, Actors, FacadeTypeOK, Slots, Arity
<1> QED
  BY <1>1, KindFrame DEF Known, Is, Slots

(* ... and so does what a job relies on.                                    *)
LEMMA CapturedFrame ==
  ASSUME FacadeInv, \A a \in Addrs : Held(a) => heap'[a] = heap[a],
         NEW w \in Workers,
         pc'[w] = pc[w] /\ refs'[w] = refs[w] /\ client'[w] = client[w],
         pc[w] = "work" => op'[client[w]] = op[client[w]]
  PROVE  Captured(w)'
<1>1. Captured(w) /\ w \in Actors /\ 1..Arity(op[client[w]]) \subseteq Slots
  BY DEF FacadeInv, OperandInv, Actors, Slots, Arity
<1> QED
  BY <1>1, KindFrame DEF Captured, Is

(* What the other actors know of their operands stays so when one moves.    *)
LEMMA OthersKnow ==
  ASSUME FacadeInv, NEW x \in Actors,
         \A u \in Threads : u # x =>
            pc'[u] = pc[u] /\ op'[u] = op[u] /\ seen'[u] = seen[u] /\ refs'[u] = refs[u],
         \A w \in Workers : w # x =>
            /\ pc'[w] = pc[w] /\ refs'[w] = refs[w] /\ client'[w] = client[w]
            /\ pc[w] = "work" => op'[client[w]] = op[client[w]],
         \A a \in Addrs : Held(a) => heap'[a] = heap[a]
  PROVE  /\ \A u \in Threads : u # x => Known(u)'
         /\ \A w \in Workers : w # x => Captured(w)'
BY KnownFrame, CapturedFrame

(* A host thread moves within a call and changes no body: a call begins, or *)
(* the engine it is in classifies, routes, reads or refuses.                *)
LEMMA ThreadMoves ==
  ASSUME FacadeInv, NEW t \in Threads, NEW l,
         pc[t] \notin {"construct", "destroy", "free", "wait"},
         l \notin {"construct", "destroy", "free", "work", "publish", "wait"},
         l \in {"idle", "arg1"} => refs[t] = Empty,
         l = "arg2" => refs[t][2] = Null,
         refs[t][3] # Null => l = "drop",
         pc' = [pc EXCEPT ![t] = l],
         UNCHANGED <<heap, natives, shapes, refs, raw, client>>,
         \A u \in Threads \ {t} : op'[u] = op[u] /\ seen'[u] = seen[u],
         FacadeTypeOK', Known(t)'
  PROVE  FacadeInv'
<1> USE DEF FacadeInv, Actors
<1>1. OwnedOrFree' /\ ProvenanceExact'
  BY HeapFrame
<1>2. PlaceInv' /\ LifeInv'
  BY DEF PlaceInv, LifeInv, FacadeTypeOK
<1>3. SlotInv'
  BY DEF SlotInv, FacadeTypeOK
<1>4. FreshInv'
  BY DEF FreshInv, Fresh, Registered, EntryIn, FacadeTypeOK
<1>5. ClientInv'
  BY DEF ClientInv, FacadeTypeOK
<1>6. OperandInv'
  <2>1. \A u \in Threads \ {t} : pc'[u] = pc[u]
    BY DEF FacadeTypeOK
  <2>2. \A w \in Workers : pc'[w] = pc[w] /\ (pc[w] = "work" => op'[client[w]] = op[client[w]])
    BY DEF FacadeTypeOK, ClientInv
  <2> QED
    BY <2>1, <2>2, OthersKnow DEF OperandInv
<1> QED
  BY <1>1, <1>2, <1>3, <1>4, <1>5, <1>6

(* A call begins with no reference held and nothing known of its operands.  *)
LEMMA CallInv ==
  ASSUME FacadeInv, NEW t \in Threads, NEW o \in EngineOps, Call(t, o)
  PROVE  FacadeInv'
<1> USE DEF FacadeInv, Call, Goto, heapVars, shapeVars
<1> DEFINE l == IF Arity(o) = 0 THEN EngineEntry(slot, o) ELSE "arg1"
<1>1. /\ l \in {"arg1", "readOcct", "readNative"}
      /\ l # "arg1" => Arity(o) = 0
  BY DEF EngineEntry, NativeEntry, OcctEntry, Arity, EngineOps
<1>2. refs[t] = Empty /\ refs[t][3] = Null /\ seen[t] = {}
  BY DEF SlotInv, OperandInv, Known, Actors, Empty, Slots
<1> HIDE DEF l
<1>3. pc' = [pc EXCEPT ![t] = l]
  BY DEF l
<1>4. FacadeTypeOK'
  BY <1>1, <1>3 DEF FacadeTypeOK, Actors
<1>5. pc'[t] = l /\ op'[t] = o /\ \A u \in Threads \ {t} : op'[u] = op[u]
  BY <1>3 DEF FacadeTypeOK, Actors
<1>6. Known(t)'
  BY <1>1, <1>2, <1>5 DEF Known
<1> QED
  BY <1>1, <1>2, <1>3, <1>4, <1>5, <1>6, ThreadMoves

(* isNative marks an operand only when its address is registered, and the   *)
(* address of a held body is registered only if it is native.               *)
LEMMA IsNativeInv ==
  ASSUME FacadeInv, NEW t \in Threads, IsNative(t)
  PROVE  FacadeInv'
<1> DEFINE i == IF pc[t] = "check1" THEN 1 ELSE 2
           l == IF i < Arity(op[t]) THEN "check2" ELSE "route"
<1> USE DEF FacadeInv, Goto, heapVars, shapeVars
<1>1. /\ i \in {1, 2} /\ l \in {"check2", "route"} /\ pc[t] \in {"check1", "check2"}
      /\ pc' = [pc EXCEPT ![t] = l]
      /\ seen' = [seen EXCEPT ![t] = IF refs[t][i] \in natives THEN @ \cup {i} ELSE @]
      /\ UNCHANGED <<slot, heap, natives, shapes, nextId, refs, raw, op, eng, client>>
  BY DEF IsNative
<1> HIDE DEF i, l
<1>2. FacadeTypeOK'
  BY <1>1 DEF FacadeTypeOK, Actors
<1>3. refs[t][i] \in natives => Is(refs[t][i], "native")
  BY DEF ProvenanceExact, Is, FacadeTypeOK
<1>4. Known(t)'
  BY <1>1, <1>3 DEF OperandInv, Known, Is, FacadeTypeOK, Actors
<1>5. /\ refs[t][3] = Null
      /\ \A u \in Threads \ {t} : seen'[u] = seen[u]
  BY <1>1 DEF FacadeTypeOK, SlotInv, Actors
<1> QED
  BY <1>1, <1>2, <1>4, <1>5, ThreadMoves

(* Only a call whose operands were all seen native goes to the native       *)
(* kernel.                                                                  *)
LEMMA RouteInv ==
  ASSUME FacadeInv, NEW t \in Threads, Route(t)
  PROVE  FacadeInv'
<1> DEFINE l == IF seen[t] = 1..Arity(op[t]) THEN "readNative"
                ELSE IF seen[t] = {} \/ op[t] = "thread_apply" THEN OcctEntry(op[t])
                ELSE "drop"
<1> USE DEF FacadeInv, heapVars, shapeVars, callVars
<1>1. /\ l \in {"readNative", "readOcct", "unwrap1", "drop"} /\ pc[t] = "route"
      /\ l = "readNative" => seen[t] = 1..Arity(op[t])
      /\ l = "readOcct" => Arity(op[t]) = 0
      /\ pc' = [pc EXCEPT ![t] = l]
      /\ UNCHANGED <<slot, heap, natives, shapes, nextId, refs, raw, op, eng, seen, client>>
  BY DEF Route, OcctEntry, Goto
<1> HIDE DEF l
<1>2. FacadeTypeOK'
  BY <1>1 DEF FacadeTypeOK, Actors
<1>3. Known(t)'
  BY <1>1 DEF OperandInv, Known, Is, FacadeTypeOK, Actors
<1> QED
  BY <1>1, <1>2, <1>3, ThreadMoves DEF SlotInv, Actors

(* The native kernel answers, builds, declines or forwards.                 *)
LEMMA ReadNativeInv ==
  ASSUME FacadeInv, NEW t \in Threads, ReadNative(t)
  PROVE  FacadeInv'
<1> USE DEF FacadeInv, heapVars, shapeVars, callVars
<1>1. PICK l \in {"allocNative", "drop", "readOcct", "unwrap1"} :
        /\ pc' = [pc EXCEPT ![t] = l] /\ pc[t] = "readNative"
        /\ l = "readOcct" => Arity(op[t]) = 0
        /\ UNCHANGED <<slot, heap, natives, shapes, nextId, refs, raw, op, eng, seen, client>>
  BY DEF ReadNative, OcctEntry, Goto
<1>2. FacadeTypeOK'
  BY <1>1 DEF FacadeTypeOK, Actors
<1>3. Known(t)'
  BY <1>1 DEF OperandInv, Known, Is, FacadeTypeOK, Actors
<1> QED
  BY <1>1, <1>2, <1>3, ThreadMoves DEF SlotInv, Actors

(* unwrap lets an operand through only if it is a live OcctShape: a held    *)
(* block that is not registered as native is one.                           *)
LEMMA UnwrapInv ==
  ASSUME FacadeInv, NEW t \in Threads, Unwrap(t)
  PROVE  FacadeInv'
<1> DEFINE i == IF pc[t] = "unwrap1" THEN 1 ELSE 2
<1> USE DEF FacadeInv, heapVars, shapeVars, callVars
<1>1. PICK l \in {"drop", "unwrap2", "schedule", "readOcct"} :
        /\ pc' = [pc EXCEPT ![t] = l] /\ pc[t] \in {"unwrap1", "unwrap2"}
        /\ l # "drop" => ~Refuses(refs[t][i])
        /\ l = "unwrap2" => i = 1
        /\ l = "schedule" => i = Arity(op[t])
        /\ l = "readOcct" => op[t] = "modify"
        /\ UNCHANGED <<slot, heap, natives, shapes, nextId, refs, raw, op, eng, seen, client>>
  BY DEF Unwrap, Goto, Arity, FacadeTypeOK
<1>2. FacadeTypeOK'
  BY <1>1 DEF FacadeTypeOK, Actors
<1>3. ~Refuses(refs[t][i]) => Is(refs[t][i], "occt")
  <2>1. refs[t][i] \in Addrs => Held(refs[t][i])
    BY DEF Held, HeldIn, Actors, Slots
  <2> QED
    BY <2>1 DEF ProvenanceExact, OwnedOrFree, Is, FacadeTypeOK, Refuses, Actors, Slots
<1>4. pc[t] = "unwrap2" => Is(refs[t][1], "occt")
  BY DEF OperandInv, Known
<1>5. Known(t)'
  BY <1>1, <1>3, <1>4 DEF Known, Is, FacadeTypeOK, Actors, Arity
<1> QED
  BY <1>1, <1>2, <1>5, ThreadMoves DEF SlotInv, Actors

(* The inline kernel builds a body or not.                                  *)
LEMMA ReadOcctInv ==
  ASSUME FacadeInv, NEW t \in Threads, ReadOcct(t)
  PROVE  FacadeInv'
<1> USE DEF FacadeInv, heapVars, shapeVars, callVars
<1>1. PICK l \in {"allocOcct", "drop"} :
        /\ pc' = [pc EXCEPT ![t] = l] /\ pc[t] = "readOcct"
        /\ UNCHANGED <<slot, heap, natives, shapes, nextId, refs, raw, op, eng, seen, client>>
  BY DEF ReadOcct, Goto
<1>2. FacadeTypeOK'
  BY <1>1 DEF FacadeTypeOK, Actors
<1>3. Known(t)'
  BY <1>1 DEF Known, FacadeTypeOK, Actors
<1> QED
  BY <1>1, <1>2, <1>3, ThreadMoves DEF SlotInv, Actors

(* A worker moves within its job and changes no body.                       *)
LEMMA WorkerMoves ==
  ASSUME FacadeInv, NEW w \in Workers, NEW l,
         \/ pc[w] \in {"work", "allocOcct"} /\ l \in {"allocOcct", "publish"}
         \/ pc[w] = "drop" /\ refs[w] = Empty /\ l = "idle",
         pc' = [pc EXCEPT ![w] = l],
         UNCHANGED <<slot, heap, natives, shapes, nextId, refs, raw, op, eng, seen, client>>
  PROVE  FacadeInv'
<1> USE DEF FacadeInv, Actors
<1>1. FacadeTypeOK'
  BY DEF FacadeTypeOK
<1>2. OwnedOrFree' /\ ProvenanceExact'
  BY HeapFrame
<1>3. PlaceInv' /\ LifeInv'
  BY DEF PlaceInv, LifeInv, FacadeTypeOK
<1>4. SlotInv'
  <2>1. l = "idle" => refs[w][3] = Null
    BY DEF Empty, Slots
  <2> QED
    BY <2>1 DEF SlotInv, FacadeTypeOK
<1>5. refs[w][3] = Null \/ l # "publish"
  BY DEF SlotInv
<1>6. FreshInv'
  <2>1. \A x \in Actors : Fresh(x)' /\ refs[x][3] # Null => Fresh(x)
    BY <1>5 DEF Fresh, FacadeTypeOK
  <2>2. \A a : Registered(a)' <=> Registered(a)
    BY DEF Registered, EntryIn
  <2> QED
    BY <2>1, <2>2 DEF FreshInv
<1>7. ClientInv'
  BY DEF ClientInv, FacadeTypeOK
<1>8. OperandInv'
  <2>1. /\ \A t \in Threads : pc'[t] = pc[t]
        /\ \A v \in Workers \ {w} : pc'[v] = pc[v]
        /\ pc'[w] # "work"
    BY DEF FacadeTypeOK
  <2> QED
    BY <2>1, OthersKnow DEF OperandInv, Captured
<1> QED
  BY <1>1, <1>2, <1>3, <1>4, <1>6, <1>7, <1>8

(* bad_alloc: the call, or the job, goes on without a result.               *)
LEMMA OutOfMemoryInv ==
  ASSUME FacadeInv, NEW x \in Actors, OutOfMemory(x)
  PROVE  FacadeInv'
<1> USE DEF heapVars, shapeVars, callVars, OutOfMemory, Goto, AfterEngine
<1>1. CASE x \in Workers
  BY <1>1, WorkerMoves DEF FacadeInv, PlaceInv
<1>2. CASE x \in Threads
  <2> USE DEF FacadeInv
  <2>0. x \notin Workers
    BY <1>2
  <2>1. FacadeTypeOK'
    BY <1>2, <2>0 DEF FacadeTypeOK, Actors
  <2>2. Known(x)'
    BY <1>2, <2>0 DEF Known, FacadeTypeOK, Actors
  <2> QED
    BY <1>2, <2>0, <2>1, <2>2, ThreadMoves DEF SlotInv
<1> QED
  BY <1>1, <1>2 DEF Actors

(* resolve takes a reference to a registered body into an empty slot.       *)
LEMMA ResolveInv ==
  ASSUME FacadeInv, NEW t \in Threads, NEW id \in Nat, Resolve(t, id)
  PROVE  FacadeInv'
<1> DEFINE i == IF pc[t] = "arg1" THEN 1 ELSE 2
           v == IF id \in DOMAIN shapes THEN shapes[id] ELSE Null
           l == IF i < Arity(op[t]) THEN "arg2" ELSE EngineEntry(eng[t], op[t])
<1> USE DEF FacadeInv, heapVars, shapeVars, callVars
<1>1. /\ pc[t] \in {"arg1", "arg2"} /\ pc' = [pc EXCEPT ![t] = l]
      /\ refs' = [refs EXCEPT ![t][i] = v]
      /\ UNCHANGED <<slot, heap, natives, shapes, nextId, raw, op, eng, seen, client>>
  BY DEF Resolve, Goto
<1>2. /\ i \in Slots /\ i # 3 /\ (l = "arg2" => i = 1)
      /\ l \in {"arg2", "readNative", "check1", "readOcct", "unwrap1"}
      /\ l \in {"readNative", "readOcct"} => Arity(op[t]) = 0
  BY <1>1 DEF EngineEntry, NativeEntry, OcctEntry, Arity, Slots, FacadeTypeOK
<1>3. v \in Addrs \cup {Null} /\ (v # Null => Registered(v))
  BY DEF FacadeTypeOK, Registered, EntryIn
<1>4. t \in Actors /\ refs[t][i] = Null /\ (i = 1 => refs[t][2] = Null) /\ seen[t] = {}
  BY <1>1 DEF SlotInv, OperandInv, Known, Empty, Slots, Actors
<1> HIDE DEF i, v, l
<1>5. FacadeTypeOK'
  BY <1>1, <1>2, <1>3, <1>4 DEF FacadeTypeOK
<1>6. OwnedOrFree' /\ ProvenanceExact'
  <2>1. \A a \in Addrs : HeldIn(refs', a) <=> Held(a) \/ a = v
    BY <1>1, <1>2, <1>3, <1>4, FillSlot
  <2>2. \A a \in Addrs : (Held(a) \/ Registered(a))' <=> Held(a) \/ Registered(a)
    BY <1>1, <1>3, <2>1 DEF Held, Registered, EntryIn
  <2>3. \A j, k \in DOMAIN shapes' : shapes'[j] = shapes'[k] => j = k
    BY <1>1 DEF OwnedOrFree
  <2> QED
    BY <1>1, <2>2, <2>3, ReachFrame
<1>7. /\ pc'[t] = l /\ refs'[t][3] = refs[t][3] /\ refs'[t][2] = (IF i = 2 THEN v ELSE refs[t][2])
      /\ \A x \in Actors : x # t => pc'[x] = pc[x] /\ refs'[x] = refs[x]
      /\ \A x \in Actors : refs'[x][3] = refs[x][3]
  BY <1>1, <1>2, <1>4 DEF FacadeTypeOK, Slots
<1>8. PlaceInv' /\ LifeInv'
  BY <1>1, <1>2, <1>4, <1>7 DEF PlaceInv, LifeInv, Actors
<1>9. SlotInv'
  BY <1>1, <1>2, <1>4, <1>7 DEF SlotInv
<1>10. FreshInv'
  BY <1>1, <1>2, <1>4, <1>7 DEF FreshInv, Fresh, Registered, EntryIn
<1>11. ClientInv'
  BY <1>1, <1>2, <1>4, <1>7 DEF ClientInv, Actors, FacadeTypeOK
<1>12. Known(t)'
  BY <1>1, <1>2, <1>4, <1>7 DEF Known
<1>13. OperandInv'
  BY <1>1, <1>4, <1>7, <1>12, OthersKnow DEF OperandInv, Actors
<1> QED
  BY <1>5, <1>6, <1>8, <1>9, <1>10, <1>11, <1>13

(* The job captures the operands as the caller knows them.                  *)
LEMMA ScheduleInv ==
  ASSUME FacadeInv, NEW t \in Threads, NEW w \in Workers, Schedule(t, w)
  PROVE  FacadeInv'
<1> USE DEF FacadeInv, heapVars, shapeVars, Schedule
<1>1. t \in Actors /\ w \in Actors /\ t # w /\ w \notin Threads /\ t \notin Workers /\ t # Null
  BY DEF Actors
<1>2. refs[w] = Empty /\ refs[t][3] = Null /\ client[w] = Null
  BY <1>1 DEF SlotInv, ClientInv
<1>3. /\ pc'[t] = "wait" /\ pc'[w] = "work" /\ refs'[w] = refs[t] /\ client'[w] = t
      /\ \A x \in Actors : x # t /\ x # w => pc'[x] = pc[x]
      /\ \A x \in Actors : x # w => refs'[x] = refs[x]
      /\ \A v \in Workers : v # w => client'[v] = client[v]
  BY <1>1 DEF FacadeTypeOK
<1>4. FacadeTypeOK'
  BY <1>1 DEF FacadeTypeOK
<1>5. OwnedOrFree' /\ ProvenanceExact'
  <2>1. \A a \in Addrs : HeldIn(refs', a) <=> Held(a)
    BY <1>1, <1>2, <1>3 DEF HeldIn, Held, Empty
  <2>2. \A a \in Addrs : (Held(a) \/ Registered(a))' <=> Held(a) \/ Registered(a)
    BY <2>1 DEF Held, Registered, EntryIn
  <2>3. \A j, k \in DOMAIN shapes' : shapes'[j] = shapes'[k] => j = k
    BY DEF OwnedOrFree
  <2> QED
    BY <2>2, <2>3, ReachFrame
<1>6. PlaceInv' /\ LifeInv'
  BY <1>1, <1>3 DEF PlaceInv, LifeInv, Actors
<1> HIDE DEF Schedule
<1>7. SlotInv'
  <2>1. refs'[w][3] = Null /\ pc'[w] = "work" /\ pc'[t] = "wait" /\ refs'[t][3] = Null
    BY <1>1, <1>2, <1>3
  <2> QED
    BY <1>1, <1>3, <2>1 DEF SlotInv
<1>8. FreshInv'
  <2>1. \A x \in Actors : Fresh(x)' => Fresh(x) /\ x # w /\ refs'[x] = refs[x]
    BY <1>1, <1>3 DEF Fresh
  <2>2. \A a : Registered(a)' <=> Registered(a)
    BY DEF Registered, EntryIn, Schedule
  <2> QED
    BY <2>1, <2>2 DEF FreshInv
<1>9. ClientInv'
  <2>1. pc[t] = "schedule"
    BY DEF Schedule
  <2>2. \A v \in Workers : v # w =>
          /\ client'[v] = client[v] /\ client[v] # t /\ pc'[v] = pc[v]
          /\ client[v] # Null => pc'[client[v]] = pc[client[v]]
    BY <1>1, <1>3, <2>1 DEF ClientInv, FacadeTypeOK, Actors
  <2> QED
    BY <1>1, <1>3, <2>2 DEF ClientInv
<1>10. UNCHANGED <<heap, op, seen>> /\ pc[t] = "schedule"
  BY DEF Schedule
<1>11. Known(t)' /\ Captured(w)'
  BY <1>1, <1>3, <1>10 DEF OperandInv, Known, Captured, Is, PlaceInv, ClientInv
<1>12. OperandInv'
  <2>1. ASSUME NEW u \in Threads, u # t PROVE Known(u)'
    BY <1>1, <1>3, <1>10, <2>1, KnownFrame DEF Actors
  <2>2. ASSUME NEW v \in Workers, v # w PROVE Captured(v)'
    BY <1>1, <1>3, <1>10, <2>2, CapturedFrame DEF Actors, ClientInv
  <2> QED
    BY <1>11, <2>1, <2>2 DEF OperandInv
<1> QED
  BY <1>4, <1>5, <1>6, <1>7, <1>8, <1>9, <1>12

(* The client gets its copy of the result; the job keeps its own.           *)
LEMMA PublishInv ==
  ASSUME FacadeInv, NEW w \in Workers, Publish(w)
  PROVE  FacadeInv'
<1> USE DEF FacadeInv, heapVars, shapeVars
<1>1. PICK t \in Threads : client[w] = t /\ t # Null /\ pc[t] = "wait" /\ pc[w] = "publish"
  BY DEF ClientInv, FacadeTypeOK, Publish, PublishAndGo
<1>2. t \in Actors /\ w \in Actors /\ t # w /\ w \notin Threads /\ t \notin Workers
  BY <1>1 DEF Actors
<1>3. refs[t][3] = Null
  BY <1>1, <1>2 DEF SlotInv
<1>4. PICK v \in Addrs \cup {Null} : v = refs[w][3] /\ (v \in Addrs => Held(v))
  BY <1>2 DEF FacadeTypeOK, Held, HeldIn, Slots
<1>5. /\ refs' = [refs EXCEPT ![t][3] = v]
      /\ pc' = [pc EXCEPT ![t] = "drop", ![w] = "drop"]
      /\ client' = [client EXCEPT ![w] = Null]
      /\ UNCHANGED <<slot, heap, natives, shapes, nextId, raw, op, eng, seen>>
  BY <1>1, <1>4 DEF Publish, PublishAndGo
<1>6. FacadeTypeOK'
  BY <1>2, <1>4, <1>5 DEF FacadeTypeOK, Slots
<1>7. /\ pc'[t] = "drop" /\ pc'[w] = "drop" /\ refs'[t][3] = v /\ client'[w] = Null
      /\ \A x \in Actors : x # t /\ x # w => pc'[x] = pc[x]
      /\ \A x \in Actors : x # t => refs'[x] = refs[x]
      /\ \A x \in Workers : x # w => client'[x] = client[x]
  BY <1>2, <1>5 DEF FacadeTypeOK, Slots
<1>8. OwnedOrFree' /\ ProvenanceExact'
  <2>1. \A a \in Addrs : HeldIn(refs', a) <=> Held(a)
    <3>1. \A a \in Addrs : HeldIn(refs', a) <=> Held(a) \/ a = v
      <4>1. 3 \in Slots
        BY DEF Slots
      <4> QED
        BY <1>2, <1>3, <1>5, <4>1, FillSlot
    <3> QED
      BY <1>4, <3>1
  <2>2. \A a \in Addrs : (Held(a) \/ Registered(a))' <=> Held(a) \/ Registered(a)
    BY <1>5, <2>1 DEF Held, Registered, EntryIn
  <2>3. \A j, k \in DOMAIN shapes' : shapes'[j] = shapes'[k] => j = k
    BY <1>5 DEF OwnedOrFree
  <2> QED
    BY <1>5, <2>2, <2>3, ReachFrame
<1>9. PlaceInv' /\ LifeInv'
  BY <1>1, <1>2, <1>5, <1>7 DEF PlaceInv, LifeInv, Actors
<1>10. SlotInv'
  BY <1>2, <1>7 DEF SlotInv
<1>11. FreshInv'
  <2>1. Fresh(w) /\ v = refs[w][3]
    BY <1>1, <1>4 DEF Fresh
  <2>2. \A x \in Actors : Fresh(x)' /\ x # t => Fresh(x) /\ x # w /\ refs'[x][3] = refs[x][3]
    BY <1>2, <1>7 DEF Fresh
  <2>3. \A a : Registered(a)' <=> Registered(a)
    BY <1>5 DEF Registered, EntryIn
  <2> QED
    BY <1>2, <1>7, <2>1, <2>2, <2>3 DEF FreshInv
<1>12. ClientInv'
  <2>1. \A x \in Workers : x # w => client[x] # t
    BY <1>1 DEF ClientInv
  <2>2. \A x \in Workers : x # w =>
          /\ client'[x] = client[x] /\ pc'[x] = pc[x]
          /\ client[x] # Null => pc'[client[x]] = pc[client[x]]
    BY <1>2, <1>7, <2>1 DEF FacadeTypeOK, Actors
  <2> QED
    BY <1>7, <2>2 DEF ClientInv
<1>13. OperandInv'
  <2>1. Known(t)' /\ Captured(w)'
    BY <1>7 DEF Known, Captured
  <2>2. ASSUME NEW u \in Threads, u # t PROVE Known(u)'
    BY <1>2, <1>5, <1>7, <2>2, KnownFrame DEF Actors
  <2>3. ASSUME NEW x \in Workers, x # w PROVE Captured(x)'
    BY <1>2, <1>5, <1>7, <2>3, CapturedFrame DEF Actors
  <2> QED
    BY <2>1, <2>2, <2>3 DEF OperandInv
<1> QED
  BY <1>6, <1>8, <1>9, <1>10, <1>11, <1>12, <1>13

------------------------------------------------------------------------------
(* An actor goes from one stage of a body's life to the next.               *)
LEMMA BodyMoves ==
  ASSUME FacadeInv, NEW x \in Actors, NEW l,
         \/ /\ pc[x] \in {"allocNative", "allocOcct", "construct"}
            /\ l \in {"construct", AfterEngine(x)}
         \/ /\ pc[x] \in {"drop", "destroy", "free"}
            /\ l \in {"drop", "destroy", "free"},
         pc' = [pc EXCEPT ![x] = l], UNCHANGED client
  PROVE  /\ PlaceInv' /\ ClientInv'
         /\ pc'[x] = l /\ \A y \in Actors : y # x => pc'[y] = pc[y]
<1> USE DEF FacadeInv
<1>1. pc'[x] = l /\ \A y \in Actors : y # x => pc'[y] = pc[y]
  BY DEF FacadeTypeOK
<1>2. x \in Workers => x \notin Threads
  OBVIOUS
<1>3. PlaceInv'
  BY <1>1, <1>2 DEF PlaceInv, Actors, AfterEngine
<1>4. ClientInv'
  <2>1. \A w \in Workers : client[w] # Null => client[w] # x
    BY <1>2 DEF ClientInv
  <2>2. \A w \in Workers : client[w] # Null => pc'[client[w]] = "wait"
    BY <1>1, <2>1 DEF ClientInv, FacadeTypeOK, Actors
  <2>3. \A w \in Workers : client[w] # Null <=>
          pc'[w] \in {"work", "allocOcct", "construct", "publish"}
    BY <1>1, <1>2 DEF ClientInv, PlaceInv, AfterEngine, Actors
  <2> QED
    BY <2>2, <2>3 DEF ClientInv
<1> QED
  BY <1>1, <1>3, <1>4

(* The allocator hands out a block nobody can reach.                        *)
LEMMA AllocateInv ==
  ASSUME FacadeInv, NEW x \in Actors, NEW a \in Addrs, Allocate(x, a)
  PROVE  FacadeInv'
<1> USE DEF FacadeInv, heapVars, shapeVars, callVars, Allocate, Goto
<1>1. PlaceInv' /\ ClientInv' /\ pc'[x] = "construct" /\ \A y \in Actors : y # x => pc'[y] = pc[y]
  BY BodyMoves
<1>2. ~Held(a) /\ ~Registered(a) /\ ~Worked(a) /\ a # Null /\ raw[x] = Null /\ a \notin natives
  BY DEF OwnedOrFree, ProvenanceExact, LifeInv
<1>3. /\ heap'[a] \in {"native", "occt"} /\ raw'[x] = a
      /\ \A b \in Addrs : b # a => heap'[b] = heap[b]
      /\ \A y \in Actors : y # x => raw'[y] = raw[y]
      /\ UNCHANGED <<slot, natives, shapes, nextId, refs, op, eng, seen, client>>
  BY DEF FacadeTypeOK
<1>4. FacadeTypeOK'
  BY DEF FacadeTypeOK
<1> HIDE DEF Allocate
<1>5. \A b \in Addrs : /\ Held(b)' <=> Held(b)
                       /\ Registered(b)' <=> Registered(b)
                       /\ Worked(b)' <=> Worked(b) \/ b = a
  BY <1>2, <1>3 DEF Held, HeldIn, Registered, EntryIn, Worked
<1>6. OwnedOrFree'
  BY <1>2, <1>3, <1>5 DEF OwnedOrFree, Worked
<1>7. ProvenanceExact'
  BY <1>2, <1>3, <1>5 DEF ProvenanceExact
<1>8. LifeInv'
  BY <1>1, <1>2, <1>3 DEF LifeInv, Allocate
<1>9. SlotInv'
  BY <1>1, <1>3 DEF SlotInv, Allocate
<1>10. FreshInv'
  BY <1>1, <1>3 DEF FreshInv, Fresh, Registered, EntryIn, Allocate
<1>11. OperandInv'
  <2>1. (x \in Threads => Known(x)') /\ (x \in Workers => Captured(x)')
    BY <1>1 DEF Known, Captured
  <2>2. \A b \in Addrs : Held(b) => heap'[b] = heap[b]
    BY <1>2, <1>3
  <2> QED
    BY <1>1, <1>3, <2>1, <2>2, OthersKnow DEF OperandInv, Actors
<1> QED
  BY <1>1, <1>4, <1>6, <1>7, <1>8, <1>9, <1>10, <1>11

(* The constructor registers a native address before anyone can hold it.    *)
LEMMA ConstructInv ==
  ASSUME FacadeInv, NEW x \in Actors, Construct(x)
  PROVE  FacadeInv'
<1> USE DEF FacadeInv, heapVars, shapeVars, callVars
<1>1. PICK a \in Addrs : raw[x] = a /\ pc[x] = "construct"
  BY DEF Construct, LifeInv, FacadeTypeOK
<1>2. /\ pc' = [pc EXCEPT ![x] = AfterEngine(x)]
      /\ natives' = IF heap[a] = "native" THEN natives \cup {a} ELSE natives
      /\ refs' = [refs EXCEPT ![x][3] = a] /\ raw' = [raw EXCEPT ![x] = Null]
      /\ UNCHANGED <<slot, heap, shapes, nextId, op, eng, seen, client>>
  BY <1>1 DEF Construct, Goto
<1>3. PlaceInv' /\ ClientInv' /\ pc'[x] = AfterEngine(x) /\ \A y \in Actors : y # x => pc'[y] = pc[y]
  BY <1>1, <1>2, BodyMoves
<1>4. /\ ~Held(a) /\ ~Registered(a) /\ a \notin natives /\ a # Null /\ refs[x][3] = Null
      /\ \A y \in Actors : raw[y] = a => y = x
  BY <1>1 DEF OwnedOrFree, Worked, LifeInv, SlotInv
<1>5. 3 \in Slots /\ AfterEngine(x) \in {"publish", "drop"}
  BY DEF Slots, AfterEngine
<1>6. /\ raw'[x] = Null /\ refs'[x][3] = a
      /\ \A y \in Actors : y # x => raw'[y] = raw[y] /\ refs'[y] = refs[y]
  BY <1>2, <1>5 DEF FacadeTypeOK
<1>7. FacadeTypeOK'
  BY <1>2, <1>5 DEF FacadeTypeOK
<1>8. \A b \in Addrs : /\ Held(b)' <=> Held(b) \/ b = a
                       /\ Registered(b)' <=> Registered(b)
                       /\ Worked(b)' <=> Worked(b) /\ b # a
  <2>1. \A b \in Addrs : HeldIn(refs', b) <=> Held(b) \/ b = a
    BY <1>2, <1>4, <1>5, FillSlot
  <2>2. \A b \in Addrs : Registered(b)' <=> Registered(b)
    BY <1>2 DEF Registered, EntryIn
  <2>3. \A b \in Addrs : Worked(b)' <=> Worked(b) /\ b # a
    BY <1>1, <1>4, <1>6 DEF Worked
  <2> QED
    BY <2>1, <2>2, <2>3 DEF Held
<1>9. OwnedOrFree'
  <2>1. \A y, z \in Actors : raw'[y] = raw'[z] /\ raw'[y] # Null => y = z
    BY <1>6 DEF OwnedOrFree
  <2> QED
    BY <1>1, <1>2, <1>4, <1>8, <2>1 DEF OwnedOrFree, Worked
<1>10. ProvenanceExact'
  BY <1>2, <1>4, <1>8 DEF ProvenanceExact
<1>11. LifeInv'
  BY <1>2, <1>3, <1>4, <1>5, <1>6 DEF LifeInv
<1>12. SlotInv'
  BY <1>3, <1>5, <1>6 DEF SlotInv
<1>13. FreshInv'
  <2>1. \A y \in Actors : refs[y][3] # a
    BY <1>4, <1>5 DEF Held, HeldIn
  <2>2. \A y \in Actors : y # x /\ Fresh(y)' => Fresh(y) /\ refs'[y][3] = refs[y][3]
    BY <1>3, <1>6 DEF Fresh
  <2>3. \A b : Registered(b)' <=> Registered(b)
    BY <1>2 DEF Registered, EntryIn
  <2> QED
    BY <1>4, <1>6, <2>1, <2>2, <2>3 DEF FreshInv
<1>14. OperandInv'
  <2>1. (x \in Threads => Known(x)') /\ (x \in Workers => Captured(x)')
    BY <1>3, <1>5 DEF Known, Captured
  <2> QED
    BY <1>2, <1>3, <1>6, <2>1, OthersKnow DEF OperandInv, Actors
<1> QED
  BY <1>3, <1>7, <1>9, <1>10, <1>11, <1>12, <1>13, <1>14

(* The last reference to a block goes, and with it the block from what can  *)
(* be reached; the actor that dropped it is the only one to work on it.     *)
LEMMA LastReferenceGone ==
  ASSUME FacadeInv, NEW x \in Actors, NEW a \in Addrs, Held(a) \/ Registered(a),
         raw[x] = Null, raw' = [raw EXCEPT ![x] = a], UNCHANGED <<heap, natives>>,
         ~(Held(a) \/ Registered(a))',
         \A b \in Addrs : b # a =>
            ((Held(b) \/ Registered(b))' <=> Held(b) \/ Registered(b)),
         \A i, j \in DOMAIN shapes' : shapes'[i] = shapes'[j] => i = j
  PROVE  OwnedOrFree' /\ ProvenanceExact'
<1> USE DEF FacadeInv
<1>1. raw'[x] = a /\ \A y \in Actors : y # x => raw'[y] = raw[y]
  BY DEF FacadeTypeOK
<1>2. \A b \in Addrs : Worked(b)' <=> Worked(b) \/ b = a
  BY <1>1 DEF Worked
<1>3. ~Worked(a)
  BY DEF OwnedOrFree
<1>4. OwnedOrFree'
  <2>1. \A b \in Addrs :
          /\ heap'[b] = "free" <=> ~Held(b)' /\ ~Registered(b)' /\ ~Worked(b)'
          /\ Held(b)' \/ Registered(b)' => ~Worked(b)'
    BY <1>2, <1>3 DEF OwnedOrFree
  <2>2. \A y, z \in Actors : raw'[y] = raw'[z] /\ raw'[y] # Null => y = z
    BY <1>1, <1>3 DEF OwnedOrFree, Worked
  <2> QED
    BY <2>1, <2>2 DEF OwnedOrFree
<1>5. ProvenanceExact'
  BY DEF ProvenanceExact
<1> QED
  BY <1>4, <1>5

(* A shared_ptr goes out of scope, and its block with it if it was the last. *)
LEMMA DropInv ==
  ASSUME FacadeInv, NEW x \in Actors, NEW i \in Slots, Drop(x, i)
  PROVE  FacadeInv'
<1> USE DEF FacadeInv, heapVars, shapeVars, callVars
<1>1. PICK a \in Addrs : refs[x][i] = a /\ a # Null /\ pc[x] = "drop" /\ (i = 3 => x \in Workers)
  BY DEF Drop, FacadeTypeOK
<1>2. PICK l \in {"drop", "destroy"} :
        /\ pc' = [pc EXCEPT ![x] = l]
        /\ l = "destroy" <=> LastReference(refs', shapes, a)
        /\ l = "destroy" => raw' = [raw EXCEPT ![x] = a]
        /\ l = "drop" => raw' = raw
        /\ refs' = [refs EXCEPT ![x][i] = Null]
        /\ UNCHANGED <<slot, heap, natives, shapes, nextId, op, eng, seen, client>>
  <2>1. pc = [pc EXCEPT ![x] = "drop"]
    BY <1>1 DEF FacadeTypeOK
  <2> QED
    BY <1>1, <2>1 DEF Drop, Goto
<1>3. PlaceInv' /\ ClientInv' /\ pc'[x] = l /\ \A y \in Actors : y # x => pc'[y] = pc[y]
  BY <1>1, <1>2, BodyMoves
<1>4. /\ refs'[x][i] = Null /\ raw[x] = Null
      /\ \A j \in Slots : j # i => refs'[x][j] = refs[x][j]
      /\ \A y \in Actors : y # x => refs'[y] = refs[y]
  BY <1>1, <1>2 DEF FacadeTypeOK, LifeInv
<1>5. FacadeTypeOK'
  BY <1>2 DEF FacadeTypeOK
<1>6. /\ \A b \in Addrs : b # a => ((Held(b) \/ Registered(b))' <=> Held(b) \/ Registered(b))
      /\ (Held(a) \/ Registered(a))' <=> l = "drop"
      /\ Held(a)
      /\ \A j, k \in DOMAIN shapes' : shapes'[j] = shapes'[k] => j = k
  <2>1. \A b \in Addrs : b # a => (HeldIn(refs', b) <=> Held(b))
    BY <1>1, <1>2, EmptySlot
  <2>2. Held(a)
    BY <1>1 DEF Held, HeldIn
  <2>3. \A b : Registered(b)' <=> Registered(b)
    BY <1>2 DEF Registered, EntryIn
  <2>4. LastReference(refs', shapes, a) <=> ~Held(a)' /\ ~Registered(a)
    BY DEF LastReference, Held, Registered
  <2> QED
    BY <1>2, <2>1, <2>2, <2>3, <2>4 DEF Held, OwnedOrFree
<1>7. OwnedOrFree' /\ ProvenanceExact'
  <2>1. CASE l = "drop"
    BY <1>2, <1>6, <2>1, ReachFrame
  <2>2. CASE l = "destroy"
    BY <1>2, <1>4, <1>6, <2>2, LastReferenceGone
  <2> QED
    BY <2>1, <2>2
<1>8. LifeInv'
  <2>1. raw'[x] = (IF l = "destroy" THEN a ELSE Null) /\ \A y \in Actors : y # x => raw'[y] = raw[y]
    BY <1>2, <1>4 DEF FacadeTypeOK
  <2> QED
    BY <1>1, <1>2, <1>3, <2>1 DEF LifeInv
<1>9. SlotInv'
  BY <1>3, <1>4 DEF SlotInv
<1>10. FreshInv'
  <2>1. \A y \in Actors : Fresh(y)' => Fresh(y) /\ refs'[y][3] = refs[y][3]
    BY <1>1, <1>3, <1>4 DEF Fresh, Slots
  <2>2. \A b : Registered(b)' <=> Registered(b)
    BY <1>2 DEF Registered, EntryIn
  <2> QED
    BY <2>1, <2>2 DEF FreshInv
<1>11. OperandInv'
  <2>1. (x \in Threads => Known(x)') /\ (x \in Workers => Captured(x)')
    BY <1>3 DEF Known, Captured
  <2> QED
    BY <1>2, <1>3, <1>4, <2>1, OthersKnow DEF OperandInv, Actors
<1> QED
  BY <1>3, <1>5, <1>7, <1>8, <1>9, <1>10, <1>11

(* The destructor takes the address out of the set while it still owns the  *)
(* block.                                                                   *)
LEMMA UnregisterInv ==
  ASSUME FacadeInv, NEW x \in Actors, Unregister(x)
  PROVE  FacadeInv'
<1> USE DEF FacadeInv, heapVars, shapeVars, callVars
<1>1. PICK a \in Addrs : raw[x] = a /\ pc[x] = "destroy"
  BY DEF Unregister, LifeInv, FacadeTypeOK
<1>2. /\ pc' = [pc EXCEPT ![x] = "free"]
      /\ natives' = IF heap[a] = "native" THEN natives \ {a} ELSE natives
      /\ UNCHANGED <<slot, heap, shapes, nextId, refs, raw, op, eng, seen, client>>
  BY <1>1 DEF Unregister, Goto, Erase
<1>3. PlaceInv' /\ ClientInv' /\ pc'[x] = "free" /\ \A y \in Actors : y # x => pc'[y] = pc[y]
  BY <1>1, <1>2, BodyMoves
<1>4. a \notin natives' /\ \A b \in Addrs : b # a => (b \in natives' <=> b \in natives)
  BY <1>2 DEF ProvenanceExact
<1>5. \A b \in Addrs : /\ Held(b)' <=> Held(b)
                       /\ Registered(b)' <=> Registered(b)
                       /\ Worked(b)' <=> Worked(b)
  BY <1>2 DEF Held, HeldIn, Registered, EntryIn, Worked
<1>6. FacadeTypeOK'
  BY <1>2 DEF FacadeTypeOK
<1>7. OwnedOrFree'
  BY <1>2, <1>5 DEF OwnedOrFree
<1>8. ProvenanceExact'
  <2>1. ~Held(a) /\ ~Registered(a)
    BY <1>1 DEF OwnedOrFree, Worked
  <2> QED
    BY <1>2, <1>4, <1>5, <2>1 DEF ProvenanceExact
<1>9. LifeInv'
  BY <1>1, <1>2, <1>3, <1>4 DEF LifeInv, FacadeTypeOK
<1>10. SlotInv' /\ FreshInv'
  BY <1>1, <1>2, <1>3 DEF SlotInv, FreshInv, Fresh, Registered, EntryIn
<1>11. OperandInv'
  <2>1. (x \in Threads => Known(x)') /\ (x \in Workers => Captured(x)')
    BY <1>3 DEF Known, Captured
  <2> QED
    BY <1>2, <1>3, <2>1, OthersKnow DEF OperandInv, Actors
<1> QED
  BY <1>3, <1>6, <1>7, <1>8, <1>9, <1>10, <1>11

(* The block goes back to the allocator when no set names it any more.      *)
LEMMA FreeInv ==
  ASSUME FacadeInv, NEW x \in Actors, Free(x)
  PROVE  FacadeInv'
<1> USE DEF FacadeInv, heapVars, shapeVars, callVars
<1>1. PICK a \in Addrs : raw[x] = a /\ pc[x] = "free"
  BY DEF Free, LifeInv, FacadeTypeOK
<1>2. /\ pc' = [pc EXCEPT ![x] = "drop"]
      /\ heap' = [heap EXCEPT ![a] = "free"] /\ raw' = [raw EXCEPT ![x] = Null]
      /\ UNCHANGED <<slot, natives, shapes, nextId, refs, op, eng, seen, client>>
  BY <1>1 DEF Free, Goto
<1>3. PlaceInv' /\ ClientInv' /\ pc'[x] = "drop" /\ \A y \in Actors : y # x => pc'[y] = pc[y]
  BY <1>1, <1>2, BodyMoves
<1>4. /\ ~Held(a) /\ ~Registered(a) /\ a \notin natives
      /\ \A y \in Actors : raw[y] = a => y = x
  BY <1>1 DEF OwnedOrFree, Worked, LifeInv
<1>5. /\ heap'[a] = "free" /\ \A b \in Addrs : b # a => heap'[b] = heap[b]
      /\ raw'[x] = Null /\ \A y \in Actors : y # x => raw'[y] = raw[y]
  BY <1>2 DEF FacadeTypeOK
<1>6. \A b \in Addrs : /\ Held(b)' <=> Held(b)
                       /\ Registered(b)' <=> Registered(b)
                       /\ Worked(b)' <=> Worked(b) /\ b # a
  BY <1>1, <1>2, <1>4, <1>5 DEF Held, HeldIn, Registered, EntryIn, Worked
<1>7. FacadeTypeOK'
  BY <1>2 DEF FacadeTypeOK
<1>8. OwnedOrFree'
  <2>1. \A y, z \in Actors : raw'[y] = raw'[z] /\ raw'[y] # Null => y = z
    BY <1>5 DEF OwnedOrFree
  <2> QED
    BY <1>2, <1>4, <1>5, <1>6, <2>1 DEF OwnedOrFree
<1>9. ProvenanceExact'
  BY <1>2, <1>4, <1>5, <1>6 DEF ProvenanceExact
<1>10. LifeInv'
  BY <1>2, <1>3, <1>5 DEF LifeInv
<1>11. SlotInv' /\ FreshInv'
  BY <1>1, <1>2, <1>3 DEF SlotInv, FreshInv, Fresh, Registered, EntryIn
<1>12. OperandInv'
  <2>1. (x \in Threads => Known(x)') /\ (x \in Workers => Captured(x)')
    BY <1>3 DEF Known, Captured
  <2>2. \A b \in Addrs : Held(b) => heap'[b] = heap[b]
    BY <1>4, <1>5
  <2> QED
    BY <1>2, <1>3, <2>1, <2>2, OthersKnow DEF OperandInv, Actors
<1> QED
  BY <1>3, <1>7, <1>8, <1>9, <1>10, <1>11, <1>12

------------------------------------------------------------------------------
(* A call that made nothing ends with nothing held.                         *)
LEMMA FinishEmptyInv ==
  ASSUME FacadeInv, NEW t \in Threads, Finish(t), refs[t][3] = Null
  PROVE  FacadeInv'
<1> USE DEF FacadeInv, Finish, heapVars, shapeVars
<1>1. t \in Actors /\ refs[t] \in [Slots -> Addrs \cup {Null}]
  BY DEF FacadeTypeOK, Actors
<1>2. refs[t] = Empty
  BY <1>1 DEF Empty, Slots
<1>3. /\ pc' = [pc EXCEPT ![t] = "idle"] /\ pc[t] = "drop"
      /\ UNCHANGED <<slot, heap, natives, shapes, nextId, refs, raw, client>>
      /\ op' = [op EXCEPT ![t] = "none"] /\ eng' = [eng EXCEPT ![t] = "default"]
      /\ seen' = [seen EXCEPT ![t] = {}]
  BY DEF Goto
<1> HIDE DEF Finish
<1>4. FacadeTypeOK'
  BY <1>3 DEF FacadeTypeOK
<1>5. pc'[t] = "idle" /\ seen'[t] = {} /\ \A u \in Threads \ {t} : op'[u] = op[u] /\ seen'[u] = seen[u]
  BY <1>1, <1>3 DEF FacadeTypeOK
<1>6. Known(t)'
  BY <1>5 DEF Known
<1> QED
  BY <1>2, <1>3, <1>4, <1>5, <1>6, ThreadMoves

(* The result moves from the call to a fresh entry of the registry, which   *)
(* is then the only one to name it.                                         *)
LEMMA FinishAddInv ==
  ASSUME FacadeInv, NEW t \in Threads, Finish(t), refs[t][3] # Null
  PROVE  FacadeInv'
<1> USE DEF FacadeInv, heapVars, shapeVars
<1>1. t \in Actors /\ 3 \in Slots /\ refs[t] \in [Slots -> Addrs \cup {Null}]
  BY DEF FacadeTypeOK, Actors, Slots
<1>2. PICK a \in Addrs : refs[t][3] = a /\ a # Null
  BY <1>1
<1>3. /\ pc' = [pc EXCEPT ![t] = "idle"] /\ pc[t] = "drop"
      /\ refs[t][1] = Null /\ refs[t][2] = Null
      /\ shapes' = [i \in DOMAIN shapes \cup {nextId} |-> IF i = nextId THEN a ELSE shapes[i]]
      /\ nextId' = nextId + 1 /\ refs' = [refs EXCEPT ![t][3] = Null]
      /\ UNCHANGED <<slot, heap, natives, raw, client>>
      /\ op' = [op EXCEPT ![t] = "none"] /\ eng' = [eng EXCEPT ![t] = "default"]
      /\ seen' = [seen EXCEPT ![t] = {}]
  BY <1>2 DEF Finish, Add, AddAs, Goto
<1>4. /\ pc'[t] = "idle" /\ \A x \in Actors : x # t => pc'[x] = pc[x]
      /\ \A u \in Threads \ {t} : op'[u] = op[u] /\ seen'[u] = seen[u]
      /\ seen'[t] = {}
  BY <1>1, <1>3 DEF FacadeTypeOK
<1>5. /\ refs'[t][3] = Null /\ refs'[t][1] = Null /\ refs'[t][2] = Null
      /\ \A x \in Actors : x # t => refs'[x] = refs[x]
      /\ refs'[t] \in [Slots -> Addrs \cup {Null}]
  BY <1>1, <1>3 DEF FacadeTypeOK, Slots
<1>6. refs'[t] = Empty
  BY <1>5 DEF Empty, Slots
<1>7. nextId \in Nat \ {0} /\ DOMAIN shapes \subseteq 1..(nextId - 1) /\ nextId \notin DOMAIN shapes
  BY DEF FacadeTypeOK
<1>8. FacadeTypeOK'
  <2>1. DOMAIN shapes' \subseteq 1..(nextId' - 1) /\ nextId' \in Nat \ {0}
    BY <1>3, <1>7
  <2>2. shapes' \in [DOMAIN shapes' -> Addrs]
    BY <1>3, <1>7 DEF FacadeTypeOK
  <2> QED
    BY <1>1, <1>3, <2>1, <2>2 DEF FacadeTypeOK
<1>9. \A b : Registered(b)' <=> Registered(b) \/ b = a
  BY <1>3, <1>7 DEF Registered, EntryIn
<1>10. ~Registered(a)
  BY <1>1, <1>2 DEF FreshInv, Fresh
<1>11. OwnedOrFree' /\ ProvenanceExact'
  <2>1. \A b \in Addrs : b # a => (HeldIn(refs', b) <=> Held(b))
    BY <1>1, <1>2, <1>3, EmptySlot
  <2>2. Held(a)
    BY <1>1, <1>2 DEF Held, HeldIn
  <2>3. \A b \in Addrs : (Held(b) \/ Registered(b))' <=> Held(b) \/ Registered(b)
    BY <1>9, <2>1, <2>2 DEF Held
  <2>4. \A j, k \in DOMAIN shapes' : shapes'[j] = shapes'[k] => j = k
    <3>1. \A j \in DOMAIN shapes : shapes[j] # a
      BY <1>10 DEF Registered, EntryIn
    <3> QED
      BY <1>3, <1>7, <3>1 DEF OwnedOrFree
  <2> QED
    BY <1>3, <2>3, <2>4, ReachFrame
<1>12. PlaceInv' /\ LifeInv'
  BY <1>1, <1>3, <1>4 DEF PlaceInv, LifeInv, Actors
<1>13. SlotInv'
  BY <1>4, <1>5, <1>6 DEF SlotInv
<1>14. FreshInv'
  <2>1. \A x \in Actors : Fresh(x)' /\ x # t => Fresh(x) /\ refs'[x][3] = refs[x][3]
    BY <1>4, <1>5 DEF Fresh
  <2>2. Fresh(t)
    BY DEF Fresh
  <2>3. \A x \in Actors : Fresh(x)' /\ refs'[x][3] # Null => ~EntryIn(shapes', refs'[x][3])
    <3>1. \A b : EntryIn(shapes', b) <=> Registered(b) \/ b = a
      BY <1>9 DEF Registered
    <3> QED
      BY <1>1, <1>2, <1>5, <2>1, <2>2, <3>1 DEF FreshInv
  <2>4. \A x, y \in Actors : Fresh(x)' /\ Fresh(y)' =>
          (refs'[x][3] = refs'[y][3] /\ refs'[x][3] # Null => x = y)
    BY <1>5, <2>1 DEF FreshInv
  <2> QED
    BY <2>3, <2>4 DEF FreshInv, Registered
<1>15. ClientInv'
  <2>1. \A w \in Workers : w # t /\ client[w] # t
    BY <1>3 DEF ClientInv
  <2>2. \A w \in Workers : pc'[w] = pc[w] /\
                           (client[w] # Null => pc'[client[w]] = pc[client[w]])
    BY <1>4, <2>1 DEF FacadeTypeOK, Actors
  <2> QED
    BY <1>3, <2>2 DEF ClientInv
<1>16. OperandInv'
  <2>1. Known(t)'
    BY <1>4 DEF Known
  <2>2. \A w \in Workers : pc[w] = "work" => op'[client[w]] = op[client[w]]
    BY <1>3, <1>4 DEF ClientInv, FacadeTypeOK
  <2> QED
    BY <1>1, <1>3, <1>4, <1>5, <2>1, <2>2, OthersKnow DEF OperandInv, Actors
<1> QED
  BY <1>8, <1>11, <1>12, <1>13, <1>14, <1>15, <1>16

(* release takes the handle's reference away, and the body with it if no    *)
(* call or job holds another.                                               *)
LEMMA ReleaseInv ==
  ASSUME FacadeInv, NEW t \in Threads, NEW id \in DOMAIN shapes, Release(t, id)
  PROVE  FacadeInv'
<1> USE DEF FacadeInv, heapVars, shapeVars, callVars
<1>1. PICK a \in Addrs : shapes[id] = a /\ a # Null /\ Registered(a)
  BY DEF FacadeTypeOK, Registered, EntryIn
<1>2. PICK l \in {"drop", "destroy"} :
        /\ pc' = [pc EXCEPT ![t] = l] /\ pc[t] = "idle"
        /\ l = "destroy" <=> LastReference(refs, shapes', a)
        /\ l = "destroy" => raw' = [raw EXCEPT ![t] = a]
        /\ l = "drop" => raw' = raw
        /\ shapes' = [i \in DOMAIN shapes \ {id} |-> shapes[i]]
        /\ op' = [op EXCEPT ![t] = "release"]
        /\ UNCHANGED <<slot, heap, natives, nextId, refs, eng, seen, client>>
  BY <1>1 DEF Release, Goto
<1>3. t \in Actors /\ refs[t] = Empty /\ raw[t] = Null
  BY <1>2 DEF SlotInv, LifeInv, Actors
<1>4. /\ pc'[t] = l /\ \A x \in Actors : x # t => pc'[x] = pc[x]
      /\ \A u \in Threads \ {t} : op'[u] = op[u]
  BY <1>2, <1>3 DEF FacadeTypeOK
<1>5. FacadeTypeOK'
  BY <1>1, <1>2, <1>3 DEF FacadeTypeOK
<1>6. /\ \A b \in Addrs : Held(b)' <=> Held(b)
      /\ \A b \in Addrs : Registered(b)' <=> Registered(b) /\ b # a
      /\ \A j, k \in DOMAIN shapes' : shapes'[j] = shapes'[k] => j = k
      /\ l = "destroy" <=> ~Held(a)
  <2>1. \A b \in Addrs : Held(b)' <=> Held(b)
    BY <1>2 DEF Held, HeldIn
  <2>2. \A j \in DOMAIN shapes : j # id => shapes[j] # a
    BY <1>1 DEF OwnedOrFree
  <2>3. \A b \in Addrs : Registered(b)' <=> Registered(b) /\ b # a
    BY <1>1, <1>2, <2>2 DEF Registered, EntryIn
  <2>4. \A j, k \in DOMAIN shapes' : shapes'[j] = shapes'[k] => j = k
    BY <1>2 DEF OwnedOrFree
  <2>5. ~EntryIn(shapes', a)
    BY <1>2, <2>2 DEF EntryIn
  <2> QED
    BY <1>2, <2>1, <2>3, <2>4, <2>5 DEF LastReference, Held
<1>7. OwnedOrFree' /\ ProvenanceExact'
  <2>1. CASE l = "drop"
    BY <1>1, <1>2, <1>6, <2>1, ReachFrame
  <2>2. CASE l = "destroy"
    BY <1>1, <1>2, <1>3, <1>6, <2>2, LastReferenceGone
  <2> QED
    BY <2>1, <2>2
<1>8. PlaceInv'
  BY <1>4 DEF PlaceInv, Actors
<1>9. LifeInv'
  <2>1. raw'[t] = (IF l = "destroy" THEN a ELSE Null) /\ \A y \in Actors : y # t => raw'[y] = raw[y]
    BY <1>2, <1>3 DEF FacadeTypeOK
  <2> QED
    BY <1>1, <1>2, <1>4, <2>1 DEF LifeInv
<1>10. SlotInv'
  BY <1>2, <1>3, <1>4 DEF SlotInv
<1>11. FreshInv'
  <2>1. \A y \in Actors : Fresh(y)' <=> Fresh(y)
    BY <1>3, <1>4 DEF Fresh
  <2>2. \A b : Registered(b)' => Registered(b)
    BY <1>2 DEF Registered, EntryIn
  <2> QED
    BY <1>2, <2>1, <2>2 DEF FreshInv
<1>12. ClientInv'
  <2>1. \A w \in Workers : w # t /\ client[w] # t
    BY <1>2 DEF ClientInv
  <2>2. \A w \in Workers : pc'[w] = pc[w] /\
                           (client[w] # Null => pc'[client[w]] = pc[client[w]])
    BY <1>4, <2>1 DEF FacadeTypeOK, Actors
  <2> QED
    BY <1>2, <2>2 DEF ClientInv
<1>13. OperandInv'
  <2>1. Known(t)'
    BY <1>4 DEF Known
  <2>2. \A w \in Workers : pc[w] = "work" => op'[client[w]] = op[client[w]]
    BY <1>2, <1>4 DEF ClientInv, FacadeTypeOK
  <2> QED
    BY <1>2, <1>3, <1>4, <2>1, <2>2, OthersKnow DEF OperandInv, Actors
<1> QED
  BY <1>5, <1>7, <1>8, <1>9, <1>10, <1>11, <1>12, <1>13

------------------------------------------------------------------------------
(* A job that ends its reading goes on to build or to publish, and one that *)
(* has let go of everything leaves its worker idle.                         *)
LEMMA WorkInv ==
  ASSUME FacadeInv, NEW w \in Workers, Work(w) \/ JobDone(w)
  PROVE  FacadeInv'
<1>1. CASE Work(w)
  <2>1. PICK l \in {"allocOcct", "publish"} : pc' = [pc EXCEPT ![w] = l]
    BY <1>1 DEF Work, Goto
  <2> QED
    BY <1>1, <2>1, WorkerMoves DEF Work, heapVars, shapeVars, callVars
<1>2. CASE JobDone(w)
  BY <1>2, WorkerMoves DEF JobDone, Goto, heapVars, shapeVars, callVars
<1> QED
  BY <1>1, <1>2

(* Nothing moves: nothing changes.                                          *)
LEMMA StutterInv ==
  ASSUME FacadeInv, UNCHANGED vars
  PROVE  FacadeInv'
<1> USE DEF FacadeInv, vars, heapVars, shapeVars, callVars
<1>1. FacadeTypeOK'
  BY DEF FacadeTypeOK
<1>2. OwnedOrFree' /\ ProvenanceExact'
  BY HeapFrame
<1>3. PlaceInv' /\ LifeInv' /\ SlotInv' /\ FreshInv' /\ ClientInv' /\ OperandInv'
  BY DEF PlaceInv, LifeInv, SlotInv, FreshInv, Fresh, Registered, EntryIn, ClientInv,
         OperandInv, Known, Captured, Is
<1> QED
  BY <1>1, <1>2, <1>3

(* Every step of the facade keeps the invariant.                            *)
LEMMA NextInv == FacadeInv /\ [Next]_vars => FacadeInv'
<1> SUFFICES ASSUME FacadeInv, [Next]_vars PROVE FacadeInv'
  OBVIOUS
<1>1. ASSUME NEW x \in Actors, BodyStep(x) PROVE FacadeInv'
  BY <1>1, OutOfMemoryInv, ConstructInv, UnregisterInv, FreeInv, AllocateInv, DropInv
     DEF BodyStep
<1>2. ASSUME NEW t \in Threads, HostCall(t) PROVE FacadeInv'
  BY <1>2, CallInv, SetEngineInv, ReleaseInv DEF HostCall
<1>3. ASSUME NEW t \in Threads, ThreadStep(t) PROVE FacadeInv'
  <2>1. ASSUME NEW id \in 0..(nextId - 1), Resolve(t, id) PROVE FacadeInv'
    <3>1. id \in Nat
      BY DEF FacadeInv, FacadeTypeOK
    <3> QED
      BY <2>1, <3>1, ResolveInv
  <2>2. CASE Finish(t)
    BY <2>2, FinishEmptyInv, FinishAddInv
  <2>3. CASE BodyStep(t)
    BY <1>1, <2>3 DEF Actors
  <2>4. CASE IsNative(t) \/ Route(t) \/ ReadNative(t) \/ Unwrap(t) \/ ReadOcct(t)
    BY <2>4, IsNativeInv, RouteInv, ReadNativeInv, UnwrapInv, ReadOcctInv
  <2>5. CASE \E w \in Workers : Schedule(t, w)
    BY <2>5, ScheduleInv
  <2> QED
    BY <1>3, <2>1, <2>2, <2>3, <2>4, <2>5 DEF ThreadStep
<1>4. ASSUME NEW w \in Workers, WorkerStep(w) PROVE FacadeInv'
  BY <1>1, <1>4, WorkInv, PublishInv DEF WorkerStep, Actors
<1>5. CASE UNCHANGED vars
  BY <1>5, StutterInv
<1> QED
  BY <1>2, <1>3, <1>4, <1>5 DEF Next

(* The invariant behind every property below, in every reachable state.     *)
THEOREM FacadeInvariantTheorem == SafeSpec => []FacadeInv
BY InitInv, NextInv, PTL DEF SafeSpec

(* The state of the facade keeps its types, for any number of handles.      *)
THEOREM TypeTheorem == SafeSpec => []FacadeTypeOK
<1>1. FacadeInv => FacadeTypeOK
  BY DEF FacadeInv
<1> QED
  BY <1>1, FacadeInvariantTheorem, PTL

(* No engine reads a body of the other's kind, nor a freed or recycled one: *)
(* isNative, the dispatch and unwrap suffice under every interleaving.      *)
THEOREM OwnKindTheorem == SafeSpec => []ReadsItsOwnKind
<1>1. FacadeInv => ReadsItsOwnKind
  <2> SUFFICES ASSUME FacadeInv PROVE ReadsItsOwnKind
    OBVIOUS
  <2> USE DEF FacadeInv
  <2>1. ASSUME NEW t \in Threads, pc[t] = "readNative", NEW i \in 1..Arity(op[t])
        PROVE  Is(refs[t][i], "native")
    BY <2>1 DEF OperandInv, Known
  <2>2. ASSUME NEW t \in Threads, pc[t] = "readOcct", NEW i \in 1..Arity(op[t])
        PROVE  Is(refs[t][i], "occt")
    BY <2>2 DEF OperandInv, Known
  <2>3. ASSUME NEW w \in Workers, pc[w] = "work", NEW i \in 1..Arity(op[client[w]])
        PROVE  Is(refs[w][i], "occt") /\ refs[w][i] \notin natives
    <3>1. Is(refs[w][i], "occt")
      BY <2>3 DEF OperandInv, Captured
    <3> QED
      BY <3>1 DEF Is, ProvenanceExact, FacadeTypeOK
  <2> QED
    BY <2>1, <2>2, <2>3 DEF ReadsItsOwnKind, Operands, Is
<1> QED
  BY <1>1, FacadeInvariantTheorem, PTL

(* The set of bare addresses tells exactly which reachable bodies are       *)
(* native, although addresses are recycled.                                 *)
THEOREM ProvenanceTheorem == SafeSpec => []ProvenanceExact
<1>1. FacadeInv => ProvenanceExact
  BY DEF FacadeInv
<1> QED
  BY <1>1, FacadeInvariantTheorem, PTL

(* A block is in use exactly while it is referenced or being built or       *)
(* destroyed: no leak, no double free, no two handles to a body.            *)
THEOREM OwnershipTheorem == SafeSpec => []OwnedOrFree
<1>1. FacadeInv => OwnedOrFree
  BY DEF FacadeInv
<1> QED
  BY <1>1, FacadeInvariantTheorem, PTL

(* Only Finish adds to the registry, and only under an id never issued.     *)
LEMMA RegistryStep ==
  ASSUME FacadeInv, Next, NEW id \in 0..(nextId - 1), id \in DOMAIN shapes'
  PROVE  id \in DOMAIN shapes /\ shapes'[id] = shapes[id]
<1> USE DEF shapeVars
<1>1. id # nextId
  BY DEF FacadeInv, FacadeTypeOK
<1>2. CASE UNCHANGED shapes
  BY <1>2
<1>3. ASSUME NEW t \in Threads, Finish(t) PROVE id \in DOMAIN shapes /\ shapes'[id] = shapes[id]
  BY <1>1, <1>3 DEF Finish, Add, AddAs
<1>4. ASSUME NEW t \in Threads, NEW j \in DOMAIN shapes, Release(t, j)
      PROVE  id \in DOMAIN shapes /\ shapes'[id] = shapes[id]
  BY <1>4 DEF Release
<1>5. ASSUME NEW x, BodyStep(x) PROVE UNCHANGED shapes
  BY <1>5 DEF BodyStep, OutOfMemory, Construct, Unregister, Free, Allocate, Drop
<1>6. ASSUME NEW t \in Threads, HostCall(t)
      PROVE  id \in DOMAIN shapes /\ shapes'[id] = shapes[id]
  BY <1>2, <1>4, <1>6 DEF HostCall, Call, SetEngine
<1>7. ASSUME NEW t \in Threads, ThreadStep(t)
      PROVE  id \in DOMAIN shapes /\ shapes'[id] = shapes[id]
  BY <1>2, <1>3, <1>5, <1>7
     DEF ThreadStep, Resolve, IsNative, Route, ReadNative, Unwrap, ReadOcct, Schedule
<1>8. ASSUME NEW w \in Workers, WorkerStep(w) PROVE UNCHANGED shapes
  BY <1>5, <1>8 DEF WorkerStep, Work, Publish, PublishAndGo, JobDone
<1> QED
  BY <1>2, <1>6, <1>7, <1>8 DEF Next

(* A handle is never bound again, however often bodies come and go: a stale *)
(* CCShapeId resolves to nothing.                                           *)
THEOREM RebindTheorem == SafeSpec => HandleNeverRebinds
<1>1. FacadeInv /\ [Next]_vars =>
        [\A id \in 0..(nextId - 1) : id \in DOMAIN shapes' =>
            id \in DOMAIN shapes /\ shapes'[id] = shapes[id]]_vars
  BY RegistryStep
<1> QED
  BY <1>1, FacadeInvariantTheorem, PTL DEF SafeSpec, HandleNeverRebinds

------------------------------------------------------------------------------
(* EngineToggles.                                                           *)

USE TogglesAssumption

(* The default engine has the invariant.                                    *)
LEMMA TogglesInitially == TogglesInit => TogglesInv
<1> SUFFICES ASSUME TogglesInit PROVE TogglesInv
  OBVIOUS
<1>1. TogglesTypeOK
  <2>1. <<TRUE, FALSE>> \in BOOLEAN \X BOOLEAN
    OBVIOUS
  <2>2. before \in [Callers -> BOOLEAN \X BOOLEAN]
    BY <2>1, Zenon DEF TogglesInit
  <2>3. installed \in 1..made /\ made \in Engines /\ snap \in [Callers -> 1..made]
        /\ mine \in [Callers -> 1..made]
    BY DEF TogglesInit, Engines
  <2> QED
    BY <2>2, <2>3 DEF TogglesInit, TogglesTypeOK
<1>2. BuildInv /\ QuietInv
  BY DEF TogglesInit, BuildInv, QuietInv, Building
<1>3. GpuInv
  BY DEF TogglesInit, GpuInv
<1> QED
  BY <1>1, <1>2, <1>3 DEF TogglesInv

(* Types stay.                                                              *)
LEMMA TypeStep ==
  ASSUME TogglesTypeOK, [TogglesNext]_toggleVars
  PROVE  TogglesTypeOK'
<1> USE DEF TogglesTypeOK, Moves, Returns, Disturb, Engines, engVars, thrVars
<1>1. CASE UNCHANGED toggleVars
  BY <1>1 DEF toggleVars
<1>2. ASSUME NEW t \in Callers, NEW b \in BOOLEAN, SetParallel(t, b)
      PROVE  TogglesTypeOK'
  BY <1>2 DEF SetParallel
<1>3. ASSUME NEW t \in Callers, NEW b \in BOOLEAN, SnapGpu(t, b)
      PROVE  TogglesTypeOK'
  BY <1>3 DEF SnapGpu
<1>4. ASSUME NEW t \in Callers, SetGpu(t) PROVE TogglesTypeOK'
  BY <1>4 DEF SetGpu
<1>5. ASSUME NEW t \in Callers, SetDefault(t) PROVE TogglesTypeOK'
  BY <1>5 DEF SetDefault, Make
<1>6. ASSUME NEW t \in Callers, SetNative(t) PROVE TogglesTypeOK'
  BY <1>6 DEF SetNative, Make, Toggles
<1>7. ASSUME NEW t \in Callers, ReadParallel(t) PROVE TogglesTypeOK'
  BY <1>7 DEF ReadParallel
<1>8. ASSUME NEW t \in Callers, WriteParallel(t) PROVE TogglesTypeOK'
  BY <1>8 DEF WriteParallel
<1>9. ASSUME NEW t \in Callers, SnapForGpu(t) PROVE TogglesTypeOK'
  BY <1>9 DEF SnapForGpu
<1>10. ASSUME NEW t \in Callers, CopyGpu(t) PROVE TogglesTypeOK'
  BY <1>10 DEF CopyGpu, InheritedGpu
<1>11. ASSUME NEW t \in Callers, Install(t) PROVE TogglesTypeOK'
  BY <1>11 DEF Install
<1> QED
  BY <1>1, <1>2, <1>3, <1>4, <1>5, <1>6, <1>7, <1>8, <1>9, <1>10, <1>11 DEF TogglesNext

(* An engine that is made is nobody's yet: it is past every engine there is.*)
LEMMA PrivateStep ==
  ASSUME TogglesTypeOK, BuildInv, [TogglesNext]_toggleVars
  PROVE  BuildInv'
<1> USE DEF TogglesTypeOK, BuildInv, Building, Moves, Returns, Engines, engVars, thrVars
<1>1. CASE UNCHANGED toggleVars
  BY <1>1 DEF toggleVars
<1>2. ASSUME NEW t \in Callers, NEW b \in BOOLEAN, SetParallel(t, b) \/ SnapGpu(t, b)
      PROVE  BuildInv'
  BY <1>2 DEF SetParallel, SnapGpu
<1>3. ASSUME NEW t \in Callers, SetGpu(t) PROVE BuildInv'
  BY <1>3 DEF SetGpu
<1>4. ASSUME NEW t \in Callers, SetDefault(t) \/ SetNative(t) PROVE BuildInv'
  <2>1. /\ UNCHANGED <<installed, snap>>
        /\ \A u \in Callers \ {t} : spot'[u] = spot[u] /\ mine'[u] = mine[u]
        /\ mine'[t] = made + 1
    BY <1>4 DEF SetDefault, SetNative, Make
  <2>2. \A n \in 1..made : n # made + 1
    OBVIOUS
  <2>3. installed' \in 1..made /\ \A v \in Callers : snap'[v] \in 1..made /\ mine[v] \in 1..made
    BY <2>1
  <2> SUFFICES ASSUME NEW u \in Callers, spot'[u] \in Building
               PROVE  /\ mine'[u] # installed'
                      /\ \A v \in Callers : snap'[v] # mine'[u]
                      /\ \A v \in Callers \ {u} : spot'[v] \in Building => mine'[v] # mine'[u]
    BY DEF BuildInv, Building
  <2>4. CASE u = t
    BY <2>1, <2>2, <2>3, <2>4, Zenon
  <2>5. CASE u # t
    BY <2>1, <2>2, <2>3, <2>5, ZenonT(40)
  <2> QED
    BY <2>4, <2>5
<1>5. ASSUME NEW t \in Callers, ReadParallel(t) \/ WriteParallel(t) PROVE BuildInv'
  BY <1>5 DEF ReadParallel, WriteParallel
<1>6. ASSUME NEW t \in Callers, SnapForGpu(t) \/ CopyGpu(t) PROVE BuildInv'
  BY <1>6 DEF SnapForGpu, CopyGpu
<1>7. ASSUME NEW t \in Callers, Install(t) PROVE BuildInv'
  BY <1>7 DEF Install
<1> QED
  BY <1>1, <1>2, <1>3, <1>4, <1>5, <1>6, <1>7 DEF TogglesNext

(* Only an engine in a build with Metal is asked to use the gpu.            *)
LEMMA GpuStep ==
  ASSUME TogglesTypeOK, GpuInv, [TogglesNext]_toggleVars
  PROVE  GpuInv'
<1> USE DEF TogglesTypeOK, GpuInv
<1>1. ASSUME NEW t \in Callers, SetGpu(t) PROVE GpuInv'
  BY <1>1 DEF SetGpu
<1>2. ASSUME NEW t \in Callers, CopyGpu(t) PROVE GpuInv'
  BY <1>2 DEF CopyGpu
<1>3. CASE UNCHANGED gpu
  BY <1>3
<1> QED
  BY <1>1, <1>2, <1>3 DEF TogglesNext, toggleVars, engVars, SetParallel, SnapGpu, SetDefault,
     SetNative, ReadParallel, WriteParallel, SnapForGpu, Install

(* A step by t that changes a toggle or the engine leaves no other switch   *)
(* quiet; one that changes neither leaves a quiet switch as it was.         *)
LEMMA QuietStep ==
  ASSUME TogglesInv, TogglesTypeOK', [TogglesNext]_toggleVars
  PROVE  QuietInv'
<1> SUFFICES ASSUME NEW u \in Callers, quiet'[u], spot'[u] \in Building, native'[mine'[u]]
             PROVE  Unspoilt(u)'
  BY DEF QuietInv
<1> USE DEF TogglesTypeOK, Building, Moves, Engines, engVars, thrVars
<1>0. /\ TogglesTypeOK /\ BuildInv /\ GpuInv
      /\ quiet[u] /\ spot[u] \in Building /\ native[mine[u]] => Unspoilt(u)
  BY DEF TogglesInv, QuietInv
<1>1. CASE UNCHANGED toggleVars
  BY <1>0, <1>1 DEF toggleVars, Unspoilt, Toggles
<1>2. ASSUME NEW t \in Callers, NEW b \in BOOLEAN, SetParallel(t, b) PROVE Unspoilt(u)'
  BY <1>2 DEF SetParallel, Disturb
<1>3. ASSUME NEW t \in Callers, NEW b \in BOOLEAN, SnapGpu(t, b) PROVE Unspoilt(u)'
  BY <1>0, <1>3 DEF SnapGpu, Unspoilt, Toggles
<1>4. ASSUME NEW t \in Callers, SetGpu(t) PROVE Unspoilt(u)'
  BY <1>4 DEF SetGpu, Disturb, Returns
<1>5. ASSUME NEW t \in Callers, SetDefault(t) PROVE Unspoilt(u)'
  <2>1. /\ UNCHANGED <<installed, gpu, parallel, value, snap, before, quiet>>
        /\ mine' = [mine EXCEPT ![t] = made + 1] /\ spot' = [spot EXCEPT ![t] = "install"]
        /\ native' = [native EXCEPT ![made + 1] = FALSE] /\ made + 1 \in Engines
    BY <1>0, <1>5 DEF SetDefault, Make
  <2>2. u # t
    BY <1>0, <2>1
  <2>3. mine'[u] = mine[u] /\ spot'[u] = spot[u] /\ mine[u] \in Engines /\ mine[u] # made + 1
    BY <1>0, <2>1, <2>2
  <2>4. native'[mine[u]] = native[mine[u]]
    BY <1>0, <2>1, <2>3
  <2> QED
    BY <1>0, <2>1, <2>3, <2>4 DEF Unspoilt, Toggles
<1>6. ASSUME NEW t \in Callers, SetNative(t) PROVE Unspoilt(u)'
  <2>1. /\ UNCHANGED <<installed, gpu, parallel, value, snap>>
        /\ mine' = [mine EXCEPT ![t] = made + 1]
        /\ spot' = [spot EXCEPT ![t] = "read_parallel"]
        /\ before' = [before EXCEPT ![t] = Toggles] /\ quiet' = [quiet EXCEPT ![t] = TRUE]
        /\ native' = [native EXCEPT ![made + 1] = TRUE] /\ made + 1 \in Engines
    BY <1>0, <1>6 DEF SetNative, Make
  <2>2. CASE u = t
    BY <1>0, <2>1, <2>2 DEF Unspoilt, Toggles
  <2>3. CASE u # t
    <3>1. /\ mine'[u] = mine[u] /\ spot'[u] = spot[u] /\ quiet'[u] = quiet[u]
          /\ before'[u] = before[u] /\ mine[u] \in Engines /\ mine[u] # made + 1
      BY <1>0, <2>1, <2>3
    <3>2. native'[mine[u]] = native[mine[u]]
      BY <1>0, <2>1, <3>1
    <3> QED
      BY <1>0, <2>1, <3>1, <3>2 DEF Unspoilt, Toggles
  <2> QED
    BY <2>2, <2>3
<1>7. ASSUME NEW t \in Callers, ReadParallel(t) PROVE Unspoilt(u)'
  BY <1>0, <1>7 DEF ReadParallel, Unspoilt, Toggles
<1>8. ASSUME NEW t \in Callers, WriteParallel(t) PROVE Unspoilt(u)'
  BY <1>0, <1>8 DEF WriteParallel, Disturb, Unspoilt, Toggles
<1>9. ASSUME NEW t \in Callers, SnapForGpu(t) PROVE Unspoilt(u)'
  BY <1>0, <1>9 DEF SnapForGpu, Unspoilt, Toggles
<1>10. ASSUME NEW t \in Callers, CopyGpu(t) PROVE Unspoilt(u)'
  <2>1. /\ spot[t] = "copy_gpu" /\ spot' = [spot EXCEPT ![t] = "install"]
        /\ gpu' = [gpu EXCEPT ![mine[t]] = Metal /\ gpu[snap[t]]]
        /\ UNCHANGED <<installed, made, native, parallel, value, snap, mine, before, quiet>>
    BY <1>10 DEF CopyGpu, InheritedGpu
  <2>2. mine[t] # installed /\ installed \in Engines /\ mine[t] \in Engines /\ snap[t] \in Engines
    BY <1>0, <2>1 DEF BuildInv
  <2>3. gpu'[installed] = gpu[installed] /\ Unspoilt(u)
    BY <1>0, <2>1, <2>2
  <2>4. CASE u = t
    <3>1. snap[t] = installed
      BY <2>1, <2>3, <2>4 DEF Unspoilt
    <3>2. gpu'[mine[t]] = gpu[installed]
      BY <1>0, <2>1, <2>2, <3>1 DEF GpuInv
    <3> QED
      BY <1>0, <2>1, <2>3, <2>4, <3>2 DEF Unspoilt, Toggles
  <2>5. CASE u # t
    <3>1. spot'[u] = spot[u] /\ mine[u] # mine[t] /\ mine[u] \in Engines
      BY <1>0, <2>1, <2>5 DEF BuildInv
    <3>2. gpu'[mine[u]] = gpu[mine[u]]
      BY <1>0, <2>1, <3>1
    <3> QED
      BY <2>1, <2>3, <3>1, <3>2 DEF Unspoilt, Toggles
  <2> QED
    BY <2>4, <2>5
<1>11. ASSUME NEW t \in Callers, Install(t) PROVE Unspoilt(u)'
  BY <1>0, <1>11 DEF Install
<1> QED
  BY <1>1, <1>2, <1>3, <1>4, <1>5, <1>6, <1>7, <1>8, <1>9, <1>10, <1>11 DEF TogglesNext

(* So the invariant is inductive.                                           *)
LEMMA TogglesStep == TogglesInv /\ [TogglesNext]_toggleVars => TogglesInv'
BY TypeStep, PrivateStep, GpuStep, QuietStep DEF TogglesInv

(* Types, and the three facts about unfinished switches, hold throughout.   *)
THEOREM TogglesInvariantTheorem == TogglesSpec => []TogglesInv
<1> QED
  BY TogglesInitially, TogglesStep, PTL DEF TogglesSpec

(* cc_set_engine(1) that nobody disturbs keeps the parallel and the GPU     *)
(* toggle, whatever calls of other threads are in progress.                 *)
THEOREM QuietSwitchTheorem == TogglesSpec => QuietSwitchKeepsToggles
<1> DEFINE Kept == \A t \in Callers :
                     Install(t) /\ native[mine[t]] /\ quiet[t] => Toggles' = before[t]
<1>1. TogglesInv => Kept
  <2> SUFFICES ASSUME TogglesInv, NEW t \in Callers, Install(t), native[mine[t]], quiet[t]
               PROVE  Toggles' = before[t]
    OBVIOUS
  <2>1. Toggles = before[t] /\ gpu[mine[t]] = gpu[installed]
    BY DEF Install, TogglesInv, QuietInv, Building, Unspoilt
  <2> QED
    BY <2>1 DEF Install, Toggles
<1>2. TogglesInv => [Kept]_toggleVars
  BY <1>1
<1> QED
  BY TogglesInvariantTheorem, <1>2, PTL DEF QuietSwitchKeepsToggles
==============================================================================
