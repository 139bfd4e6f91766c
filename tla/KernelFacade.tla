----------------------------- MODULE KernelFacade -----------------------------
(***************************************************************************)
(* The cc_* facade over bodies: the handle registry (shape_registry), the  *)
(* set of native holders (shape_provenance), the active engine slot        *)
(* (engine_registry), the native engine's dispatch and its fallback to the *)
(* OCCT adapter, and the pool worker that runs the adapter's long          *)
(* operations.  Host threads call the facade concurrently.                 *)
(*                                                                         *)
(* A body is a heap block holding a NativeShape or an OcctShape behind a   *)
(* shared_ptr<void>: nothing in the pointer tells which, so both engines   *)
(* ask the provenance set whether the ADDRESS is native, and addresses are *)
(* recycled.  The count of a shared_ptr is not stored: a body's references *)
(* are the registry's entries and the slots of refs.                       *)
(*                                                                         *)
(* Grain: one action per critical section of registry, provenance set or   *)
(* engine slot, and one per read of a body, allocation and free.  Geometry *)
(* is abstract: an engine call makes a body, or does not.                  *)
(***************************************************************************)
EXTENDS FacadeConstants, FiniteSets

VARIABLES
  slot,            \* engine_slot(): "native" or "default" (the OCCT adapter)
  heap,            \* of each block: "free", or the kind of holder it is
  natives,         \* native_holders(): the addresses registered as native
  shapes, nextId,  \* ShapeRegistry::shapes_ (a partial map) and next_id_
  pc,              \* of each actor: where it is
  refs,            \* the shared_ptrs it holds: operands 1 and 2, result 3
  raw,             \* the block its constructor or destructor is working on
  op, eng,         \* of each host thread: its call and that call's engine
  seen,            \* isNative(operand), as the native engine found it
  client           \* of each worker: the thread that waits for its job

Actors    == Threads \cup Workers
Slots     == 1..3
callVars  == <<op, eng, seen, client>>
shapeVars == <<shapes, nextId>>
heapVars  == <<heap, natives>>
vars == <<slot, heapVars, shapeVars, pc, refs, raw, callVars>>

(* The facade's operations on bodies, by what they take and who serves them: *)
(* builders and importers; transforms, features and queries of one body;     *)
(* boolean_op and interference; thread_apply.                                *)
EngineOps == {"construct", "modify", "boolean_op", "thread_apply"}
Arity(o)  == CASE o = "construct" -> 0 [] o = "modify" -> 1 [] OTHER -> 2

Empty == [i \in Slots |-> Null]
HeldIn(r, a) == \E x \in Actors : \E i \in Slots : r[x][i] = a
EntryIn(s, a) == \E id \in DOMAIN s : s[id] = a
Held(a) == HeldIn(refs, a)
Registered(a) == EntryIn(shapes, a)
Goto(x, l) == pc' = [pc EXCEPT ![x] = l]

Init ==
  /\ slot = "default"
  /\ heap = [a \in Addrs |-> "free"] /\ natives = {}
  /\ shapes = [id \in {} |-> Null] /\ nextId = 1
  /\ pc = [x \in Actors |-> "idle"]
  /\ refs = [x \in Actors |-> Empty]
  /\ raw = [x \in Actors |-> Null]
  /\ op = [t \in Threads |-> "none"]
  /\ eng = [t \in Threads |-> "default"]
  /\ seen = [t \in Threads |-> {}]
  /\ client = [w \in Workers |-> Null]

------------------------------------------------------------------------------
(* Entering the facade.                                                     *)

(* cc_set_engine.                                                           *)
SetEngine(t, e) ==
  /\ pc[t] = "idle" /\ slot # e
  /\ slot' = e
  /\ UNCHANGED <<heapVars, shapeVars, pc, refs, raw, callVars>>

(* Where a call enters each engine: argument-free calls go straight to the  *)
(* kernel, the others through isNative or unwrap.                           *)
OcctEntry(o)   == IF Arity(o) = 0 THEN "readOcct" ELSE "unwrap1"
NativeEntry(o) == IF Arity(o) = 0 THEN "readNative" ELSE "check1"
EngineEntry(e, o) == IF e = "native" THEN NativeEntry(o) ELSE OcctEntry(o)

(* active_engine(): a snapshot of the slot, sequenced before the arguments. *)
Call(t, o) ==
  /\ pc[t] = "idle"
  /\ nextId + Cardinality({u \in Threads : pc[u] # "idle"}) <= MaxIds
  /\ op' = [op EXCEPT ![t] = o]
  /\ eng' = [eng EXCEPT ![t] = slot]
  /\ Goto(t, IF Arity(o) = 0 THEN EngineEntry(slot, o) ELSE "arg1")
  /\ UNCHANGED <<slot, heapVars, shapeVars, refs, raw, seen, client>>

(* The registry's mutex is held while release destroys the entry it erases. *)
RegistryFree ==
  \A t \in Threads : ~(op[t] = "release" /\ pc[t] \in {"destroy", "free"})

(* resolve(id) for the next argument: a strong reference, or nullptr for 0  *)
(* and for an unknown or released id.                                       *)
Resolve(t, id) ==
  LET i == IF pc[t] = "arg1" THEN 1 ELSE 2 IN
  /\ pc[t] \in {"arg1", "arg2"} /\ RegistryFree
  /\ refs' = [refs EXCEPT ![t][i] = IF id \in DOMAIN shapes THEN shapes[id] ELSE Null]
  /\ Goto(t, IF i < Arity(op[t]) THEN "arg2" ELSE EngineEntry(eng[t], op[t]))
  /\ UNCHANGED <<slot, heapVars, shapeVars, raw, callVars>>

------------------------------------------------------------------------------
(* NativeEngine.                                                            *)

(* isNative(operand), one lookup per operand.                               *)
IsNative(t) ==
  LET i == IF pc[t] = "check1" THEN 1 ELSE 2 IN
  /\ pc[t] \in {"check1", "check2"}
  /\ seen' = [seen EXCEPT ![t] = IF refs[t][i] \in natives THEN @ \cup {i} ELSE @]
  /\ Goto(t, IF i < Arity(op[t]) THEN "check2" ELSE "route")
  /\ UNCHANGED <<slot, heapVars, shapeVars, refs, raw, op, eng, client>>

(* All native: serve it.  None: forward to the fallback.  A mixed pair is   *)
(* an error for boolean_op, and forwarded by thread_apply.                  *)
Route(t) ==
  LET all == 1..Arity(op[t]) IN
  /\ pc[t] = "route"
  /\ Goto(t, IF seen[t] = all THEN "readNative"
             ELSE IF seen[t] = {} \/ op[t] = "thread_apply" THEN OcctEntry(op[t])
             ELSE "drop")
  /\ UNCHANGED <<slot, heapVars, shapeVars, refs, raw, callVars>>

(* The native algorithm reads its operands as NativeShapes, and then makes  *)
(* a verified body, answers or declines with an error, or (a builder, an    *)
(* importer, thread_apply) hands the same arguments to the fallback.        *)
ReadNative(t) ==
  /\ pc[t] = "readNative"
  /\ \/ Goto(t, "allocNative")
     \/ Goto(t, "drop")
     \/ op[t] \in {"construct", "thread_apply"} /\ Goto(t, OcctEntry(op[t]))
  /\ UNCHANGED <<slot, heapVars, shapeVars, refs, raw, callVars>>

------------------------------------------------------------------------------
(* The OCCT adapter: as the default engine, and as the native's fallback.   *)

RefuseNullOnly(a) == a = Null      \* mutant: an unwrap without the foreign check

Refuses(a) == a = Null \/ a \in natives

(* unwrap(operand) refuses nullptr and a foreign native body.  Two-operand  *)
(* calls go on to the pool; of the others some do, some run inline.         *)
Unwrap(t) ==
  LET i == IF pc[t] = "unwrap1" THEN 1 ELSE 2 IN
  /\ pc[t] \in {"unwrap1", "unwrap2"}
  /\ \/ Refuses(refs[t][i]) /\ Goto(t, "drop")
     \/ ~Refuses(refs[t][i]) /\ i < Arity(op[t]) /\ Goto(t, "unwrap2")
     \/ ~Refuses(refs[t][i]) /\ i = Arity(op[t]) /\ Goto(t, "schedule")
     \/ ~Refuses(refs[t][i]) /\ op[t] = "modify" /\ Goto(t, "readOcct")
  /\ UNCHANGED <<slot, heapVars, shapeVars, refs, raw, callVars>>

(* The inline kernel call: read the operands as OcctShapes.                 *)
ReadOcct(t) ==
  /\ pc[t] = "readOcct"
  /\ Goto(t, "allocOcct") \/ Goto(t, "drop")
  /\ UNCHANGED <<slot, heapVars, shapeVars, refs, raw, callVars>>

(* runScheduled: the job captures the operands by value and an idle worker  *)
(* takes it (Scheduler.tla has the queue); the caller waits.                *)
Schedule(t, w) ==
  /\ pc[t] = "schedule" /\ pc[w] = "idle"
  /\ refs' = [refs EXCEPT ![w] = refs[t]]
  /\ client' = [client EXCEPT ![w] = t]
  /\ pc' = [pc EXCEPT ![t] = "wait", ![w] = "work"]
  /\ UNCHANGED <<slot, heapVars, shapeVars, raw, op, eng, seen>>

(* The job unwraps the operands again, without a check, and reads them.     *)
Work(w) ==
  /\ pc[w] = "work"
  /\ Goto(w, "allocOcct") \/ Goto(w, "publish")
  /\ UNCHANGED <<slot, heapVars, shapeVars, refs, raw, callVars>>

(* The result is published and the caller returns with a copy of it; the    *)
(* worker goes on to l.                                                     *)
PublishAndGo(w, l) ==
  LET t == client[w] IN
  /\ pc[w] = "publish"
  /\ refs' = [refs EXCEPT ![t][3] = refs[w][3]]
  /\ pc' = [pc EXCEPT ![t] = "drop", ![w] = l]
  /\ client' = [client EXCEPT ![w] = Null]
  /\ UNCHANGED <<slot, heapVars, shapeVars, raw, op, eng, seen>>

(* mutant: the finished job is kept until the worker's next one             *)
PublishAndKeep(w) == PublishAndGo(w, "idle")

(* The job is destroyed at the end of the worker's loop iteration: until    *)
(* then it holds its captures and, in the OperationState, its own copy of   *)
(* the result.                                                              *)
Publish(w) == PublishAndGo(w, "drop")

------------------------------------------------------------------------------
(* The life of a body.                                                      *)

(* make_shared: a block for the new holder, or bad_alloc, which the facade's *)
(* guard (on a worker, run_operation) turns into a failed call.             *)
Allocate(x, a) ==
  /\ pc[x] \in {"allocNative", "allocOcct"} /\ heap[a] = "free"
  /\ heap' = [heap EXCEPT ![a] = IF pc[x] = "allocNative" THEN "native" ELSE "occt"]
  /\ raw' = [raw EXCEPT ![x] = a]
  /\ Goto(x, "construct")
  /\ UNCHANGED <<slot, natives, shapeVars, refs, callVars>>

AfterEngine(x) == IF x \in Workers THEN "publish" ELSE "drop"

OutOfMemory(x) ==
  /\ pc[x] \in {"allocNative", "allocOcct"}
  /\ Goto(x, AfterEngine(x))
  /\ UNCHANGED <<slot, heapVars, shapeVars, refs, raw, callVars>>

(* The holder's constructor: a NativeShape registers its own address.       *)
Construct(x) ==
  /\ pc[x] = "construct"
  /\ natives' = IF heap[raw[x]] = "native" THEN natives \cup {raw[x]} ELSE natives
  /\ refs' = [refs EXCEPT ![x][3] = raw[x]]
  /\ raw' = [raw EXCEPT ![x] = Null]
  /\ Goto(x, AfterEngine(x))
  /\ UNCHANGED <<slot, heap, shapeVars, callVars>>

(* mutant: only the registry's references count                             *)
LastInRegistry(r, s, a) == ~EntryIn(s, a)

(* The shared_ptr count falls to 0 when only r and s are left.              *)
LastReference(r, s, a) == ~HeldIn(r, a) /\ ~EntryIn(s, a)

(* A shared_ptr goes out of scope.  A thread's operands die at the end of   *)
(* the engine call, before finish_shape; a worker's captures and its copy   *)
(* of the result die with its job.  The last reference runs the destructor. *)
Drop(x, i) ==
  LET a == refs[x][i] IN
  /\ pc[x] = "drop" /\ a # Null /\ (i = 3 => x \in Workers)
  /\ refs' = [refs EXCEPT ![x][i] = Null]
  /\ IF LastReference(refs', shapes, a)
     THEN raw' = [raw EXCEPT ![x] = a] /\ Goto(x, "destroy")
     ELSE UNCHANGED <<raw, pc>>
  /\ UNCHANGED <<slot, heapVars, shapeVars, callVars>>

NoErase(a) == natives             \* mutant: the address stays registered

Erase(a) == natives \ {a}

(* ~NativeShape takes its address out of the provenance set ...             *)
Unregister(x) ==
  /\ pc[x] = "destroy"
  /\ natives' = IF heap[raw[x]] = "native" THEN Erase(raw[x]) ELSE natives
  /\ Goto(x, "free")
  /\ UNCHANGED <<slot, heap, shapeVars, refs, raw, callVars>>

(* ... and only then is the block the allocator's again.                    *)
Free(x) ==
  /\ pc[x] = "free"
  /\ heap' = [heap EXCEPT ![raw[x]] = "free"]
  /\ raw' = [raw EXCEPT ![x] = Null]
  /\ Goto(x, "drop")
  /\ UNCHANGED <<slot, natives, shapeVars, refs, callVars>>

(* ShapeRegistry::add under the handle id.                                  *)
AddAs(t, id) ==
  /\ RegistryFree
  /\ shapes' = [i \in DOMAIN shapes \cup {id} |-> IF i = id THEN refs[t][3] ELSE shapes[i]]
  /\ nextId' = nextId + 1
  /\ refs' = [refs EXCEPT ![t][3] = Null]

AddPreIncrement(t) == AddAs(t, nextId + 1)   \* mutant: ++next_id_

(* mutant: the smallest id not in use                                       *)
AddReusing(t) == AddAs(t, CHOOSE i \in 1..nextId : /\ i \notin DOMAIN shapes
                                                  /\ 1..(i - 1) \subseteq DOMAIN shapes)

Add(t) == AddAs(t, nextId)

(* finish_shape: a body goes into the registry under a fresh id.            *)
Finish(t) ==
  /\ pc[t] = "drop" /\ refs[t][1] = Null /\ refs[t][2] = Null
  /\ IF refs[t][3] = Null THEN UNCHANGED <<shapeVars, refs>> ELSE Add(t)
  /\ op' = [op EXCEPT ![t] = "none"]
  /\ eng' = [eng EXCEPT ![t] = "default"]
  /\ seen' = [seen EXCEPT ![t] = {}]
  /\ Goto(t, "idle")
  /\ UNCHANGED <<slot, heapVars, raw, client>>

JobDone(w) ==
  /\ pc[w] = "drop" /\ refs[w] = Empty
  /\ Goto(w, "idle")
  /\ UNCHANGED <<slot, heapVars, shapeVars, refs, raw, callVars>>

(* cc_shape_release: erase the entry and, under the registry's mutex, run   *)
(* the destructor if that was the last reference.                           *)
Release(t, id) ==
  /\ pc[t] = "idle" /\ RegistryFree /\ id \in DOMAIN shapes
  /\ shapes' = [i \in DOMAIN shapes \ {id} |-> shapes[i]]
  /\ op' = [op EXCEPT ![t] = "release"]
  /\ IF LastReference(refs, shapes', shapes[id])
     THEN Goto(t, "destroy") /\ raw' = [raw EXCEPT ![t] = shapes[id]]
     ELSE Goto(t, "drop") /\ UNCHANGED raw
  /\ UNCHANGED <<slot, heapVars, nextId, refs, eng, seen, client>>

------------------------------------------------------------------------------
BodyStep(x) ==
  \/ OutOfMemory(x) \/ Construct(x) \/ Unregister(x) \/ Free(x)
  \/ \E a \in Addrs : Allocate(x, a)
  \/ \E i \in Slots : Drop(x, i)

ThreadStep(t) ==
  \/ \E id \in 0..(nextId - 1) : Resolve(t, id)
  \/ IsNative(t) \/ Route(t) \/ ReadNative(t) \/ Unwrap(t) \/ ReadOcct(t)
  \/ \E w \in Workers : Schedule(t, w)
  \/ BodyStep(t) \/ Finish(t)

WorkerStep(w) == Work(w) \/ Publish(w) \/ BodyStep(w) \/ JobDone(w)

HostCall(t) ==
  \/ \E o \in EngineOps : Call(t, o)
  \/ \E e \in {"native", "default"} : SetEngine(t, e)
  \/ \E id \in DOMAIN shapes : Release(t, id)

Next == \/ \E t \in Threads : HostCall(t) \/ ThreadStep(t)
        \/ \E w \in Workers : WorkerStep(w)

SafeSpec == Init /\ [][Next]_vars

(* A thread inside a call runs on, and gets in turn a mutex or a worker it  *)
(* keeps asking for: the job queue is FIFO, and a job ends.                 *)
Fairness == /\ \A t \in Threads : SF_vars(ThreadStep(t))
            /\ \A w \in Workers : WF_vars(WorkerStep(w))

Spec == SafeSpec /\ Fairness

------------------------------------------------------------------------------
(* Properties.                                                              *)

(* The type invariant: every handle in the registry was issued, none is 0.  *)
FacadeTypeOK ==
  /\ slot \in {"native", "default"}
  /\ heap \in [Addrs -> {"free", "native", "occt"}]
  /\ natives \subseteq Addrs
  /\ nextId \in Nat \ {0}
  /\ DOMAIN shapes \subseteq 1..(nextId - 1)
  /\ shapes \in [DOMAIN shapes -> Addrs]
  /\ pc \in [Actors -> {"idle", "arg1", "arg2", "check1", "check2", "route",
                        "readNative", "unwrap1", "unwrap2", "readOcct", "schedule",
                        "wait", "work", "publish", "allocNative", "allocOcct",
                        "construct", "drop", "destroy", "free"}]
  /\ refs \in [Actors -> [Slots -> Addrs \cup {Null}]]
  /\ raw \in [Actors -> Addrs \cup {Null}]
  /\ op \in [Threads -> EngineOps \cup {"none", "release"}]
  /\ eng \in [Threads -> {"native", "default"}]
  /\ seen \in [Threads -> SUBSET {1, 2}]
  /\ client \in [Workers -> Threads \cup {Null}]

Operands(x, n) == {refs[x][i] : i \in 1..n}

(* No engine reads a body it did not make, nor a freed or recycled block:   *)
(* whatever engine switches, releases and reuse of addresses come between   *)
(* the classification of an operand and its use, the native kernel reads    *)
(* live NativeShapes and OCCT, inline or on the pool, live OcctShapes.      *)
ReadsItsOwnKind ==
  /\ \A t \in Threads :
       /\ pc[t] = "readNative" => \A a \in Operands(t, Arity(op[t])) :
                                     a # Null /\ heap[a] = "native"
       /\ pc[t] = "readOcct" => \A a \in Operands(t, Arity(op[t])) :
                                     a # Null /\ heap[a] = "occt"
  /\ \A w \in Workers :
       pc[w] = "work" => \A a \in Operands(w, Arity(op[client[w]])) :
                            a # Null /\ a \notin natives /\ heap[a] = "occt"

(* The provenance set is exact for every body anyone can reach, although it *)
(* holds bare addresses and the allocator recycles them.                    *)
ProvenanceExact ==
  \A a \in Addrs : /\ Held(a) \/ Registered(a) => (a \in natives <=> heap[a] = "native")
                   /\ a \in natives => heap[a] = "native"

Worked(a) == \E x \in Actors : raw[x] = a

(* A block is in use exactly while a reference to it exists or one actor    *)
(* constructs or destroys it, never both: nothing leaks, nothing is freed   *)
(* twice, and no two handles share a body.                                  *)
OwnedOrFree ==
  /\ \A a \in Addrs :
       /\ heap[a] = "free" <=> ~Held(a) /\ ~Registered(a) /\ ~Worked(a)
       /\ Held(a) \/ Registered(a) => ~Worked(a)
  /\ \A x, y \in Actors : raw[x] = raw[y] /\ raw[x] # Null => x = y
  /\ \A i, j \in DOMAIN shapes : shapes[i] = shapes[j] => i = j

(* A handle, once issued, names one body until it is released and nothing   *)
(* ever after: a stale CCShapeId in the host can only be refused.           *)
HandleNeverRebinds ==
  [][\A id \in 0..(nextId - 1) : id \in DOMAIN shapes' =>
        id \in DOMAIN shapes /\ shapes'[id] = shapes[id]]_vars

(* A body no handle names is reclaimed once the calls and jobs that use it  *)
(* end, even when the last reference is a pool job's.                       *)
ReleasedBodiesAreReclaimed ==
  \A a \in Addrs : heap[a] # "free" /\ ~Registered(a) ~> heap[a] = "free" \/ Registered(a)

(* The inductive invariant behind the theorems of KernelFacadeProofs.       *)

(* Threads and workers are each at a place of their own code.               *)
PlaceInv ==
  /\ \A t \in Threads : pc[t] \notin {"work", "publish"}
  /\ \A w \in Workers : pc[w] \in {"idle", "work", "allocOcct", "construct",
                                  "publish", "drop", "destroy", "free"}

(* A block between its allocation and its registration, or between its      *)
(* deregistration and its free, is in no provenance set.                    *)
LifeInv ==
  \A x \in Actors :
    /\ raw[x] # Null <=> pc[x] \in {"construct", "destroy", "free"}
    /\ pc[x] \in {"construct", "free"} => raw[x] \notin natives

(* The slots an actor has filled so far, and no others, hold a reference.   *)
SlotInv ==
  \A x \in Actors :
    /\ pc[x] \in {"idle", "arg1"} => refs[x] = Empty
    /\ pc[x] = "arg2" => refs[x][2] = Null
    /\ pc[x] \notin {"publish", "drop", "destroy", "free"} => refs[x][3] = Null

(* A result on its way to the registry is in no entry, and on one way only. *)
Fresh(x) == x \in Threads \/ pc[x] = "publish"
FreshInv ==
  /\ \A x \in Actors : Fresh(x) /\ refs[x][3] # Null => ~Registered(refs[x][3])
  /\ \A x, y \in Actors : Fresh(x) /\ Fresh(y) =>
       (refs[x][3] = refs[y][3] /\ refs[x][3] # Null => x = y)

(* A worker with a job has a client of its own, which waits.                *)
ClientInv ==
  /\ \A w \in Workers :
       /\ client[w] # Null <=> pc[w] \in {"work", "allocOcct", "construct", "publish"}
       /\ client[w] # Null => pc[client[w]] = "wait"
  /\ \A v, w \in Workers : client[v] = client[w] /\ client[v] # Null => v = w

(* What has been asked of an operand so far is so: nobody can free, nor the *)
(* allocator recycle, a block while a slot holds it.                        *)
Is(a, kind) == a # Null /\ heap[a] = kind
Known(t) ==
  /\ pc[t] \in {"idle", "arg1", "arg2"} => seen[t] = {}
  /\ pc[t] \in {"check1", "check2", "route", "readNative"} =>
       \A i \in seen[t] : Is(refs[t][i], "native")
  /\ pc[t] = "readNative" => seen[t] = 1..Arity(op[t])
  /\ pc[t] = "unwrap2" => Is(refs[t][1], "occt")
  /\ pc[t] \in {"schedule", "readOcct"} =>
       \A i \in 1..Arity(op[t]) : Is(refs[t][i], "occt")
Captured(w) ==
  pc[w] = "work" => \A i \in 1..Arity(op[client[w]]) : Is(refs[w][i], "occt")
OperandInv == /\ \A t \in Threads : Known(t)
              /\ \A w \in Workers : Captured(w)

FacadeInv ==
  /\ FacadeTypeOK /\ OwnedOrFree /\ ProvenanceExact /\ PlaceInv /\ LifeInv
  /\ SlotInv /\ FreshInv /\ ClientInv /\ OperandInv
=============================================================================
