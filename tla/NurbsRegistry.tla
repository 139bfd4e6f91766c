---------------------------- MODULE NurbsRegistry ----------------------------
(***************************************************************************)
(* The NURBS surface handles: NurbsRegistry, and the cc_surface_* and      *)
(* cc_nurbs_* calls that read surfaces back through it and register their  *)
(* results in it.  (Curve handles have a registry of their own, another    *)
(* instance of the same template.)                                         *)
(*                                                                         *)
(* Two things are not atomic here.  get hands out a pointer INTO the map   *)
(* and lets go of the mutex, and a call reads a surface by four accessors, *)
(* each with a get of its own.  And a call that makes several surfaces     *)
(* registers them one by one, with a rollback when one is refused.         *)
(*                                                                         *)
(* Grain: one action per critical section of the registry's mutex, and one *)
(* per copy out of a payload.  Geometry is abstract: a call declines, or   *)
(* makes some number of surfaces.                                          *)
(***************************************************************************)
EXTENDS Integers, Sequences, FiniteSets

CONSTANTS
  Hosts,       \* host threads
  Payloads,    \* BsplineSurfaceData, all of one shape
  Garbage,     \* what a copy through a dangling pointer may read
  Ops,         \* the calls the hosts make
  MaxPatches,  \* bound: the surfaces one call makes, the cells of a caller's array
  MaxHandles       \* bound: the handles issued

Calls == {"create", "offset", "join", "nsided_fill", "vertex_blend", "step_read"}

ASSUME NurbsAssumption ==
  /\ Garbage \notin Payloads
  /\ Ops \subseteq Calls
  /\ MaxPatches \in Nat /\ MaxPatches >= 2 /\ MaxHandles \in Nat

VARIABLES
  items, nextHandle,  \* NurbsRegistry::items_ (a partial map) and next_id_
  place,             \* of each host: where it is
  call,           \* the call it is in
  cells,          \* its handle arrays: the call's locals, and the array it passes
  owned,          \* history: the handles calls returned to it, not yet released
  lost            \* history: the handles of calls that left without returning them

regVars == <<items, nextHandle>>
nurbsVars == <<regVars, place, call, cells, owned, lost>>

Ids       == 0..MaxHandles      \* 0 is the invalid handle
Cells     == 1..MaxPatches
Accessors == 4              \* info, knots_u, knots_v, poles
Places    == {"register", "rollback", "finish"}

(* The surfaces a call reads back, and the most it registers.  nsided_fill  *)
(* reads curves only; one read of vertex_blend stands for its loop of them. *)
SurfacesIn(o) == CASE o \in {"offset", "vertex_blend"} -> 1 [] o = "join" -> 2 [] OTHER -> 0
Most(o)     == CASE o \in {"create", "offset"} -> 1 [] o = "join" -> 2 [] OTHER -> MaxPatches

NewCall(o, handles) ==
  [op |-> o, todo |-> handles, got |-> <<>>, count |-> 0, at |-> 0, undo |-> 0]
NoCall  == NewCall("none", <<>>)
NoCells == [k \in Cells |-> 0]

Live(id) == id \in DOMAIN items
GoesTo(t, l) == place' = [place EXCEPT ![t] = l]

(* Handles go straight into the caller's array, or into locals first.       *)
Array(o)   == IF o \in {"nsided_fill", "vertex_blend"} THEN "caller" ELSE "local"
Cell(t, k) == cells[t][Array(call[t].op)][k]

(* The handles a call has registered and neither returned nor rolled back.  *)
InHand(t) == {Cell(t, k) : k \in (call[t].undo + 1)..call[t].at}

(* The handles a host may pass: those returned to it and not released, and  *)
(* whatever its array holds, stale handles and the 0 handle included.       *)
KnownTo(t) == owned[t] \cup {cells[t].caller[k] : k \in Cells}

NurbsInit ==
  /\ items = [id \in {} |-> Garbage] /\ nextHandle = 1
  /\ place = [t \in Hosts |-> "idle"]
  /\ call = [t \in Hosts |-> NoCall]
  /\ cells = [t \in Hosts |-> [local |-> NoCells, caller |-> NoCells]]
  /\ owned = [t \in Hosts |-> {}] /\ lost = {}

------------------------------------------------------------------------------
(* The registry.                                                            *)

(* next_id_++.  Mutants: the id before it; the smallest free id.            *)
NewIdFromZero == nextHandle - 1
NewIdReused == CHOOSE i \in 1..nextHandle : ~Live(i) /\ \A j \in 1..(i - 1) : Live(j)
NewId == nextHandle

(* emplace: an id that is there already keeps its payload.                  *)
Emplaced(id, p) ==
  [i \in DOMAIN items \cup {id} |-> IF Live(i) THEN items[i] ELSE p]

(* items_.erase(id): a no-op for 0 and for an unknown or released id.       *)
Erased(id) == [i \in DOMAIN items \ {id} |-> items[i]]

(* cc_surface_release by a host, of any handle it knows.                    *)
ReleaseSurface(t, id) ==
  /\ place[t] = "idle"
  /\ items' = Erased(id)
  /\ owned' = [owned EXCEPT ![t] = @ \ {id}]
  /\ UNCHANGED <<nextHandle, place, call, cells, lost>>

------------------------------------------------------------------------------
(* A call, and the surfaces it reads.                                       *)

(* The call ends, and leaves b in the caller's array.                       *)
Return(t, b) ==
  /\ GoesTo(t, "idle")
  /\ call' = [call EXCEPT ![t] = NoCall]
  /\ cells' = [cells EXCEPT ![t] = [local |-> NoCells, caller |-> b]]

Begin(t, o, handles) ==
  /\ place[t] = "idle"
  /\ call' = [call EXCEPT ![t] = NewCall(o, handles)]
  /\ GoesTo(t, IF SurfacesIn(o) = 0 THEN "compute" ELSE "get")
  /\ UNCHANGED <<regVars, cells, owned, lost>>

(* An accessor's get: a pointer into the map, used after the mutex.         *)
Get(t) ==
  /\ place[t] = "get" /\ Live(Head(call[t].todo))
  /\ GoesTo(t, "copy")
  /\ UNCHANGED <<regVars, call, cells, owned, lost>>

(* get found nothing: the accessor fails, readSurface and the call decline. *)
GetFails(t) ==
  /\ place[t] = "get" /\ ~Live(Head(call[t].todo))
  /\ Return(t, cells[t].caller)
  /\ UNCHANGED <<regVars, owned, lost>>

(* The accessor copies its part of the payload through that pointer; after  *)
(* the last part, the next surface, or the geometry.                        *)
Copy(t) ==
  LET c     == call[t]
      h     == Head(c.todo)
      parts == IF Len(c.got) = Accessors THEN <<>> ELSE c.got
      last  == Len(parts) + 1 = Accessors IN
  /\ place[t] = "copy"
  /\ call' = [call EXCEPT
       ![t].got = Append(parts, IF Live(h) THEN items[h] ELSE Garbage),
       ![t].todo = IF last THEN Tail(@) ELSE @]
  /\ GoesTo(t, IF last /\ Len(c.todo) = 1 THEN "compute" ELSE "get")
  /\ UNCHANGED <<regVars, cells, owned, lost>>

(* Or fails: no memory, or the wrong size read through a dangling pointer.  *)
CopyFails(t) ==
  /\ place[t] = "copy"
  /\ Return(t, cells[t].caller)
  /\ UNCHANGED <<regVars, owned, lost>>

(* The geometry yields n surfaces to register.                              *)
Compute(t, n) ==
  /\ place[t] = "compute" /\ n <= Most(call[t].op)
  /\ nextHandle + n + MaxPatches * Cardinality({u \in Hosts : place[u] = "register"}) <= MaxHandles + 1
  /\ call' = [call EXCEPT ![t].count = n]
  /\ GoesTo(t, "register")
  /\ UNCHANGED <<regVars, cells, owned, lost>>

(* Or none: invalid arguments, a native decline, a throw, a short array.    *)
Decline(t) ==
  /\ place[t] = "compute"
  /\ Return(t, cells[t].caller)
  /\ UNCHANGED <<regVars, owned, lost>>

------------------------------------------------------------------------------
(* Registering the results.                                                 *)

(* registerSurface succeeds: cc_surface_create adds the payload.            *)
Register(t, p) ==
  LET k == call[t].at + 1 IN
  /\ place[t] = "register"
  /\ items' = Emplaced(NewId, p)
  /\ nextHandle' = nextHandle + 1
  /\ cells' = [cells EXCEPT ![t][Array(call[t].op)][k] = NewId]
  /\ call' = [call EXCEPT ![t].at = k]
  /\ GoesTo(t, IF k = call[t].count THEN "finish" ELSE "register")
  /\ UNCHANGED <<owned, lost>>

(* The exceptions that cc_surface_create's guard turns into a 0 handle may  *)
(* come from the emplace, after next_id_++.                                 *)
Refused == nextHandle' \in {nextHandle, nextHandle + 1} /\ UNCHANGED items

(* registerSurface returns 0: what was made is rolled back.                 *)
Refuse(t) ==
  /\ place[t] = "register" /\ call[t].op # "vertex_blend"
  /\ Refused
  /\ GoesTo(t, "rollback")
  /\ UNCHANGED <<call, cells, owned, lost>>

(* vertex_blend rolls nothing back.                                         *)
RefuseAndKeep(t) ==
  /\ place[t] = "register" /\ call[t].op = "vertex_blend"
  /\ Refused
  /\ lost' = lost \cup InHand(t)
  /\ Return(t, cells[t].caller)
  /\ UNCHANGED owned

(* The bound of the rollback's loop.  Mutants: one too many, one too few.   *)
RollbackPastEnd(t) == call[t].at + 1
RollbackShort(t) == call[t].at - 1
RollbackEnd(t) == call[t].at

Rollback(t) ==
  LET k == call[t].undo + 1 IN
  /\ place[t] = "rollback" /\ call[t].undo < RollbackEnd(t)
  /\ items' = Erased(Cell(t, k))
  /\ call' = [call EXCEPT ![t].undo = k]
  /\ UNCHANGED <<nextHandle, place, cells, owned, lost>>

RolledBack(t) ==
  /\ place[t] = "rollback" /\ call[t].undo >= RollbackEnd(t)
  /\ Return(t, cells[t].caller)
  /\ UNCHANGED <<regVars, owned, lost>>

(* registerSurface packs the poles in a vector before cc_surface_create and *)
(* its guard: an exception there goes to the guard of the call, past the    *)
(* rollback.                                                                *)
Throw(t) ==
  /\ place[t] = "register" /\ call[t].op # "create"
  /\ lost' = lost \cup InHand(t)
  /\ Return(t, cells[t].caller)
  /\ UNCHANGED <<regVars, owned>>

(* The call returns its handles, from its locals if they are not in the     *)
(* caller's array yet.                                                      *)
Complete(t) ==
  /\ place[t] = "finish"
  /\ owned' = [owned EXCEPT ![t] = @ \cup InHand(t)]
  /\ Return(t, [k \in Cells |-> IF k <= call[t].count THEN Cell(t, k) ELSE cells[t].caller[k]])
  /\ UNCHANGED <<regVars, lost>>

------------------------------------------------------------------------------
HostNext(t) ==
  \/ \E id \in KnownTo(t) : ReleaseSurface(t, id)
  \/ \E o \in Ops :
       \E handles \in [1..SurfacesIn(o) -> UNION {KnownTo(u) : u \in Hosts}] :
         Begin(t, o, handles)
  \/ Get(t) \/ GetFails(t) \/ Copy(t) \/ CopyFails(t)
  \/ \E n \in Cells : Compute(t, n)
  \/ Decline(t)
  \/ \E p \in Payloads : Register(t, p)
  \/ Refuse(t) \/ RefuseAndKeep(t) \/ Rollback(t) \/ RolledBack(t)
  \/ Throw(t) \/ Complete(t)

NurbsNext == \E t \in Hosts : HostNext(t)

NurbsSpec == NurbsInit /\ [][NurbsNext]_nurbsVars

------------------------------------------------------------------------------
(* Properties.                                                              *)

CallStates ==
  [op : Calls \cup {"none"}, todo : Seq(Nat), got : Seq(Payloads \cup {Garbage}),
   count : 0..MaxPatches, at : 0..MaxPatches, undo : 0..MaxPatches]

(* Types; a live handle is never 0 and was issued before the next one.      *)
TypeOK ==
  /\ nextHandle \in Nat \ {0} /\ DOMAIN items \subseteq 1..(nextHandle - 1)
  /\ \A id \in DOMAIN items : items[id] \in Payloads
  /\ place \in [Hosts -> {"idle", "get", "copy", "compute"} \cup Places]
  /\ call \in [Hosts -> CallStates]
  /\ cells \in [Hosts -> [local : [Cells -> Nat], caller : [Cells -> Nat]]]
  /\ owned \in [Hosts -> SUBSET Nat] /\ lost \subseteq Nat

(* A handle that a call returned to a host, or still has in hand, names a   *)
(* live surface until that host releases it or the call rolls it back: no   *)
(* one else's double release, stale release or rollback takes it away.      *)
GivenHandlesStayValid == \A t \in Hosts : owned[t] \cup InHand(t) \subseteq DOMAIN items

(* The parts of a surface that one call reads by several accessors are      *)
(* parts of one payload, whatever is released and registered in between,    *)
(* save what was copied through a dangling pointer.                         *)
ReadBackIsOnePayload ==
  \A t \in Hosts :
    \A i, j \in 1..Len(call[t].got) :
      LET a == call[t].got[i]
          b == call[t].got[j] IN
      Garbage \in {a, b} \/ a = b

(* Every live surface is the business of exactly one party: a host it was   *)
(* returned to, a call in progress, or nobody, when an exception or the     *)
(* missing rollback of vertex_blend lost it.                                *)
Charge(t) == owned[t] \cup InHand(t)
LiveHandlesHaveOneOwner ==
  /\ DOMAIN items \subseteq lost \cup UNION {Charge(t) : t \in Hosts}
  /\ \A t \in Hosts :
       /\ owned[t] \cap InHand(t) = {} /\ Charge(t) \cap lost = {}
       /\ \A u \in Hosts \ {t} : Charge(t) \cap Charge(u) = {}

(* What a comment promises of the mutex (refuted, see README): a payload is *)
(* not released while an accessor copies it.                                *)
PointersLive == \A t \in Hosts : place[t] = "copy" => Live(Head(call[t].todo))

------------------------------------------------------------------------------
(* The inductive invariant.                                                 *)

(* Where a host is in a call fixes what the call has registered: a prefix   *)
(* of the array, all of it at the end, and what the rollback has not undone.*)
Progress(t) ==
  LET c == call[t] IN
  /\ Len(c.got) <= Accessors
  /\ place[t] \in {"get", "copy"} => c.todo # <<>>
  /\ place[t] \notin Places => c.at = 0 /\ c.undo = 0
  /\ place[t] = "register" => c.at < c.count /\ c.undo = 0
  /\ place[t] = "rollback" => c.undo <= c.at
  /\ place[t] = "finish" => c.at = c.count /\ c.undo = 0
  /\ \A j, k \in (c.undo + 1)..c.at : j # k => Cell(t, j) # Cell(t, k)
CallInv == \A t \in Hosts : Progress(t)

(* The handles in a host's arrays, and every handle it has anywhere.        *)
Arrays(t) == {cells[t].local[k] : k \in Cells} \cup {cells[t].caller[k] : k \in Cells}
Touched(t) == owned[t] \cup Arrays(t) \cup {call[t].todo[i] : i \in 1..Len(call[t].todo)}

(* Every handle that is anywhere has been issued.                           *)
IssuedInv ==
  /\ lost \subseteq 0..(nextHandle - 1)
  /\ \A t \in Hosts : Touched(t) \subseteq 0..(nextHandle - 1)

(* No array holds a handle in another host's charge, so that not even a     *)
(* stale handle passed to release can take another's surface away.          *)
PrivateInv == \A t, u \in Hosts : t # u => Arrays(t) \cap Charge(u) = {}

(* The parts copied so far are of the surface being read, if it still lives.*)
ReadInv ==
  \A t \in Hosts :
    LET c == call[t] IN
    place[t] \in {"get", "copy"} /\ Len(c.got) < Accessors /\ Live(Head(c.todo)) =>
      \A i \in 1..Len(c.got) : c.got[i] \in {Garbage, items[Head(c.todo)]}

NurbsInv ==
  /\ TypeOK /\ CallInv /\ IssuedInv /\ PrivateInv /\ ReadInv
  /\ GivenHandlesStayValid /\ LiveHandlesHaveOneOwner /\ ReadBackIsOnePayload
====
