------------------------- MODULE NurbsRegistryProofs -------------------------
(***************************************************************************)
(* Theorems about NurbsRegistry, for any hosts, payloads, calls and bounds *)
(* on surfaces and handles.                                                *)
(***************************************************************************)
EXTENDS NurbsRegistry, TLAPS

USE NurbsAssumption

------------------------------------------------------------------------------
(* Types.                                                                   *)

(* Ending a call keeps the types of what it resets.                         *)
LEMMA ReturnType ==
  ASSUME TypeOK, NEW t \in Hosts, NEW b \in [Cells -> Nat], Return(t, b)
  PROVE  /\ place' \in [Hosts -> {"idle", "get", "copy", "compute"} \cup Places]
         /\ call' \in [Hosts -> CallStates]
         /\ cells' \in [Hosts -> [local : [Cells -> Nat], caller : [Cells -> Nat]]]
<1>1. NoCall \in CallStates
  BY DEF NoCall, NewCall, CallStates, Calls
<1>2. [local |-> NoCells, caller |-> b] \in [local : [Cells -> Nat], caller : [Cells -> Nat]]
  BY DEF NoCells
<1> QED
  BY <1>1, <1>2 DEF Return, TypeOK, GoesTo

(* What a cell holds, and the array it is in.                               *)
LEMMA CellType ==
  ASSUME TypeOK, NEW t \in Hosts
  PROVE  /\ \A k \in Cells : Cell(t, k) \in Nat
         /\ Array(call[t].op) \in {"local", "caller"}
         /\ call[t].at \in 0..MaxPatches /\ call[t].undo \in 0..MaxPatches
         /\ call[t].count \in 0..MaxPatches
         /\ cells[t].caller \in [Cells -> Nat]
BY DEF TypeOK, Cell, Array, CallStates

(* What a call has in hand is in cells, so handles.                         *)
LEMMA InHandCells ==
  ASSUME TypeOK, NEW t \in Hosts
  PROVE  InHand(t) \subseteq {Cell(t, k) : k \in Cells} /\ InHand(t) \subseteq Nat
<1>1. (call[t].undo + 1)..call[t].at \subseteq Cells
  BY CellType DEF Cells
<1> QED
  BY <1>1, CellType DEF InHand

(* The handles a host may pass are numbers.                                 *)
LEMMA KnownType ==
  ASSUME TypeOK
  PROVE  \A t \in Hosts : KnownTo(t) \subseteq Nat
BY DEF TypeOK, KnownTo

(* Types stay.                                                              *)
LEMMA TypeStep ==
  ASSUME TypeOK, CallInv, [NurbsNext]_nurbsVars
  PROVE  TypeOK'
<1>0. CASE UNCHANGED nurbsVars
  BY <1>0 DEF TypeOK, nurbsVars, regVars
<1>1. SUFFICES ASSUME NEW t \in Hosts, HostNext(t) PROVE TypeOK'
  BY <1>0 DEF NurbsNext
<1>2. cells[t].caller \in [Cells -> Nat]
  BY CellType
<1>3. CASE \E id \in KnownTo(t) : ReleaseSurface(t, id)
  BY <1>3 DEF ReleaseSurface, Erased, TypeOK
<1>4. ASSUME NEW o \in Ops, NEW h \in [1..SurfacesIn(o) -> UNION {KnownTo(u) : u \in Hosts}],
             Begin(t, o, h)
      PROVE  TypeOK'
  <2>1. h \in Seq(Nat)
    <3>1. SurfacesIn(o) \in Nat
      BY DEF SurfacesIn
    <3>2. h \in [1..SurfacesIn(o) -> Nat]
      BY KnownType
    <3> QED
      BY <3>1, <3>2
  <2>2. o \in Calls /\ 0 \in 0..MaxPatches /\ <<>> \in Seq(Payloads \cup {Garbage})
    OBVIOUS
  <2>3. NewCall(o, h) \in CallStates
    BY <2>1, <2>2 DEF NewCall, CallStates
  <2> QED
    BY <1>4, <2>3 DEF Begin, TypeOK, GoesTo, regVars
<1>5. CASE Get(t)
  BY <1>5 DEF Get, TypeOK, GoesTo, regVars
<1>6. CASE GetFails(t)
  BY <1>6, <1>2, ReturnType DEF GetFails, TypeOK, regVars
<1>7. CASE Copy(t)
  <2> DEFINE c     == call[t]
             parts == IF Len(c.got) = Accessors THEN <<>> ELSE c.got
             part  == IF Live(Head(c.todo)) THEN items[Head(c.todo)] ELSE Garbage
             todo  == IF Len(parts) + 1 = Accessors THEN Tail(c.todo) ELSE c.todo
  <2>1. c \in CallStates /\ c.todo # <<>>
    BY <1>7 DEF TypeOK, CallInv, Progress, Copy
  <2>2. part \in Payloads \cup {Garbage}
    BY DEF TypeOK, Live
  <2>3. parts \in Seq(Payloads \cup {Garbage})
    BY <2>1 DEF CallStates
  <2>4. Append(parts, part) \in Seq(Payloads \cup {Garbage}) /\ todo \in Seq(Nat)
    BY <2>1, <2>2, <2>3 DEF CallStates
  <2>5. [c EXCEPT !.got = Append(parts, part), !.todo = todo] \in CallStates
    BY <2>1, <2>4 DEF CallStates
  <2>6. call' = [call EXCEPT ![t] = [c EXCEPT !.got = Append(parts, part), !.todo = todo]]
    BY <1>7 DEF Copy, TypeOK
  <2>7. call' \in [Hosts -> CallStates]
    BY <2>5, <2>6 DEF TypeOK
  <2> QED
    BY <1>7, <2>7 DEF Copy, TypeOK, GoesTo, regVars
<1>8. CASE CopyFails(t)
  BY <1>8, <1>2, ReturnType DEF CopyFails, TypeOK, regVars
<1>9. ASSUME NEW n \in Cells, Compute(t, n) PROVE TypeOK'
  <2>1. call[t] \in CallStates /\ n \in 0..MaxPatches
    BY DEF TypeOK, Cells
  <2>2. [call[t] EXCEPT !.count = n] \in CallStates
    BY <2>1 DEF CallStates
  <2>3. call' \in [Hosts -> CallStates]
    BY <1>9, <2>2 DEF Compute, TypeOK
  <2> QED
    BY <1>9, <2>3 DEF Compute, TypeOK, GoesTo, regVars, Places
<1>10. CASE Decline(t)
  BY <1>10, <1>2, ReturnType DEF Decline, TypeOK, regVars
<1>11. ASSUME NEW p \in Payloads, Register(t, p) PROVE TypeOK'
  <2>0. place[t] = "register" /\ nextHandle \in Nat \ {0}
    BY <1>11 DEF Register, TypeOK
  <2>1. call[t].at + 1 \in Cells /\ NewId \in Nat /\ Array(call[t].op) \in {"local", "caller"}
    <3>1. call[t].at < call[t].count
      BY <2>0 DEF CallInv, Progress
    <3> QED
      BY <3>1, <2>0, CellType DEF Cells, NewId
  <2>6. call[t] \in CallStates /\ call[t].at + 1 \in 0..MaxPatches
    BY <2>1 DEF TypeOK, Cells
  <2>7. [call[t] EXCEPT !.at = call[t].at + 1] \in CallStates
    BY <2>6 DEF CallStates
  <2>2. call' \in [Hosts -> CallStates]
    BY <1>11, <2>7 DEF Register, TypeOK
  <2>3. cells' \in [Hosts -> [local : [Cells -> Nat], caller : [Cells -> Nat]]]
    BY <1>11, <2>1 DEF Register, TypeOK
  <2>8. DOMAIN items' = DOMAIN items \cup {nextHandle} /\ nextHandle' = nextHandle + 1
    BY <1>11 DEF Register, Emplaced, NewId
  <2>4. DOMAIN items' \subseteq 1..(nextHandle' - 1) /\ nextHandle' \in Nat \ {0}
    BY <2>0, <2>8 DEF TypeOK
  <2>5. \A id \in DOMAIN items' : items'[id] \in Payloads
    BY <1>11 DEF Register, Emplaced, Live, TypeOK
  <2> QED
    BY <1>11, <2>2, <2>3, <2>4, <2>5 DEF Register, TypeOK, GoesTo, Places
<1>18. \A n \in Nat : 1..(n - 1) \subseteq 1..((n + 1) - 1)
  OBVIOUS
<1>12. CASE Refuse(t)
  <2>1. DOMAIN items' \subseteq 1..(nextHandle' - 1) /\ nextHandle' \in Nat \ {0}
    <3>1. nextHandle' \in {nextHandle, nextHandle + 1} /\ items' = items /\ nextHandle \in Nat \ {0}
      BY <1>12 DEF Refuse, Refused, TypeOK
    <3>2. DOMAIN items \subseteq 1..(nextHandle - 1)
      BY DEF TypeOK
    <3> QED
      BY <1>18, <3>1, <3>2
  <2> QED
    BY <1>12, <2>1 DEF Refuse, Refused, TypeOK, GoesTo, Places
<1>13. CASE RefuseAndKeep(t)
  <2>1. DOMAIN items' \subseteq 1..(nextHandle' - 1) /\ nextHandle' \in Nat \ {0}
    <3>1. nextHandle' \in {nextHandle, nextHandle + 1} /\ items' = items /\ nextHandle \in Nat \ {0}
      BY <1>13 DEF RefuseAndKeep, Refused, TypeOK
    <3>2. DOMAIN items \subseteq 1..(nextHandle - 1)
      BY DEF TypeOK
    <3> QED
      BY <1>18, <3>1, <3>2
  <2> QED
    BY <1>13, <1>2, <2>1, ReturnType, InHandCells DEF RefuseAndKeep, Refused, TypeOK
<1>14. CASE Rollback(t)
  <2>1. call[t] \in CallStates /\ call[t].undo + 1 \in 0..MaxPatches
    BY <1>14, CellType DEF Rollback, RollbackEnd, TypeOK
  <2>2. [call[t] EXCEPT !.undo = call[t].undo + 1] \in CallStates
    BY <2>1 DEF CallStates
  <2>3. call' \in [Hosts -> CallStates]
    BY <1>14, <2>2 DEF Rollback, TypeOK
  <2> QED
    BY <1>14, <2>3 DEF Rollback, Erased, TypeOK
<1>15. CASE RolledBack(t)
  BY <1>15, <1>2, ReturnType DEF RolledBack, TypeOK, regVars
<1>16. CASE Throw(t)
  BY <1>16, <1>2, ReturnType, InHandCells DEF Throw, TypeOK, regVars
<1>17. CASE Complete(t)
  <2>1. [k \in Cells |-> IF k <= call[t].count THEN Cell(t, k) ELSE cells[t].caller[k]]
          \in [Cells -> Nat]
    BY <1>2, CellType
  <2> QED
    BY <1>17, <2>1, ReturnType, InHandCells DEF Complete, TypeOK, regVars
<1> QED
  BY <1>1, <1>3, <1>4, <1>5, <1>6, <1>7, <1>8, <1>9, <1>10, <1>11, <1>12, <1>13, <1>14,
     <1>15, <1>16, <1>17 DEF HostNext

------------------------------------------------------------------------------
(* A step of one host.                                                      *)

(* It leaves the others' calls, arrays and handles alone.                   *)
LEMMA OneHost ==
  ASSUME TypeOK, NEW t \in Hosts, HostNext(t), NEW u \in Hosts \ {t}
  PROVE  /\ place'[u] = place[u] /\ call'[u] = call[u] /\ cells'[u] = cells[u]
         /\ owned'[u] = owned[u] /\ InHand(u)' = InHand(u) /\ Charge(u)' = Charge(u)
         /\ Arrays(u)' = Arrays(u) /\ Touched(u)' = Touched(u)
         /\ \A k \in Cells : Cell(u, k)' = Cell(u, k)
<1>1. place'[u] = place[u] /\ call'[u] = call[u] /\ cells'[u] = cells[u] /\ owned'[u] = owned[u]
  BY DEF HostNext, ReleaseSurface, Begin, Get, GetFails, Copy, CopyFails, Compute, Decline, Register,
     Refuse, RefuseAndKeep, Rollback, RolledBack, Throw, Complete, Return, GoesTo, TypeOK, regVars
<1> QED
  BY <1>1 DEF InHand, Charge, Arrays, Touched, Cell

(* A call that returns has nothing in hand, and only the caller's array.    *)
LEMMA Returned ==
  ASSUME TypeOK, NEW t \in Hosts, NEW b, Return(t, b)
  PROVE  /\ place'[t] = "idle" /\ call'[t] = NoCall
         /\ InHand(t)' = {} /\ Progress(t)'
         /\ Arrays(t)' = {0} \cup {b[k] : k \in Cells}
         /\ Touched(t)' = owned'[t] \cup Arrays(t)'
<1>1. place'[t] = "idle" /\ call'[t] = NoCall
  BY DEF Return, GoesTo, TypeOK
<1>2. cells'[t] = [local |-> NoCells, caller |-> b]
  BY DEF Return, TypeOK
<1>3. call'[t].at = 0 /\ call'[t].undo = 0 /\ call'[t].todo = <<>> /\ call'[t].got = <<>>
  BY <1>1 DEF NoCall, NewCall
<1>4. InHand(t)' = {}
  BY <1>3 DEF InHand
<1>5. Progress(t)'
  BY <1>1, <1>3 DEF Progress, Places, Accessors
<1>6. 1 \in Cells
  BY DEF Cells
<1>7. Arrays(t)' = {0} \cup {b[k] : k \in Cells}
  BY <1>2, <1>6 DEF Arrays, NoCells
<1>8. Touched(t)' = owned'[t] \cup Arrays(t)'
  BY <1>3 DEF Touched
<1> QED
  BY <1>1, <1>4, <1>5, <1>7, <1>8

(* Outside the registering part of a call nothing is in hand.               *)
LEMMA EmptyHand ==
  ASSUME TypeOK, CallInv, NEW t \in Hosts, place[t] \notin Places
  PROVE  InHand(t) = {} /\ Charge(t) = owned[t]
<1>1. call[t].at = 0 /\ call[t].undo = 0
  BY DEF CallInv, Progress
<1> QED
  BY <1>1 DEF InHand, Charge

(* What a call has in hand is in an array that its host can reach.          *)
LEMMA InHandInArrays ==
  ASSUME TypeOK, NEW t \in Hosts
  PROVE  /\ \A k \in Cells : Cell(t, k) \in Arrays(t)
         /\ InHand(t) \subseteq Arrays(t)
<1>1. \A k \in Cells : Cell(t, k) \in Arrays(t)
  BY DEF Cell, Array, Arrays, TypeOK
<1> QED
  BY <1>1, InHandCells

------------------------------------------------------------------------------
(* Where a host is in its call.                                             *)

(* A call stays where its counters say it is.                               *)
LEMMA CallStep ==
  ASSUME TypeOK, CallInv, IssuedInv, [NurbsNext]_nurbsVars
  PROVE  CallInv'
<1>0. CASE UNCHANGED nurbsVars
  BY <1>0 DEF CallInv, Progress, Cell, nurbsVars
<1>1. SUFFICES ASSUME NEW t \in Hosts, HostNext(t) PROVE CallInv'
  BY <1>0 DEF NurbsNext
<1> USE DEF Places
<1>2. Progress(t) /\ call[t] \in CallStates
  BY DEF CallInv, TypeOK
<1>3. \A u \in Hosts \ {t} : Progress(u)'
  <2> SUFFICES ASSUME NEW u \in Hosts \ {t} PROVE Progress(u)'
    OBVIOUS
  <2>1. (call[u].undo + 1)..call[u].at \subseteq Cells
    BY CellType DEF Cells
  <2>5. place'[u] = place[u] /\ call'[u] = call[u] /\ cells'[u] = cells[u]
    BY <1>1, OneHost
  <2>2. /\ place'[u] = place[u] /\ call'[u] = call[u]
        /\ \A k \in Cells : Cell(u, k)' = Cell(u, k)
    BY <2>5 DEF Cell
  <2>3. Progress(u)
    BY DEF CallInv
  <2>4. \A j, k \in (call'[u].undo + 1)..call'[u].at : j # k => Cell(u, j)' # Cell(u, k)'
    BY <2>1, <2>2, <2>3 DEF Progress
  <2> QED
    BY <2>2, <2>3, <2>4 DEF Progress
<1>4. SUFFICES Progress(t)'
  BY <1>3 DEF CallInv
<1>5. ASSUME NEW b, Return(t, b) PROVE Progress(t)'
  BY <1>5, Returned
<1>6. CASE \E id \in KnownTo(t) : ReleaseSurface(t, id)
  BY <1>2, <1>6 DEF ReleaseSurface, Progress, Cell
<1>7. ASSUME NEW o \in Ops, NEW h \in [1..SurfacesIn(o) -> UNION {KnownTo(u) : u \in Hosts}],
             Begin(t, o, h)
      PROVE  Progress(t)'
  <2>1. call'[t] = NewCall(o, h) /\ place'[t] = IF SurfacesIn(o) = 0 THEN "compute" ELSE "get"
    BY <1>7 DEF Begin, GoesTo, TypeOK
  <2>2. SurfacesIn(o) # 0 => h # <<>>
    BY DEF SurfacesIn
  <2> QED
    BY <2>1, <2>2 DEF NewCall, Progress, Accessors
<1>8. CASE Get(t)
  BY <1>2, <1>8 DEF Get, GoesTo, Progress, Cell, TypeOK
<1>9. CASE Copy(t)
  <2> DEFINE c     == call[t]
             parts == IF Len(c.got) = Accessors THEN <<>> ELSE c.got
             part  == IF Live(Head(c.todo)) THEN items[Head(c.todo)] ELSE Garbage
  <2>1. place[t] = "copy" /\ c.todo # <<>> /\ c.todo \in Seq(Nat) /\ c.got \in Seq(Payloads \cup {Garbage})
    BY <1>2, <1>9 DEF Copy, Progress, CallStates
  <2>2. /\ call'[t].got = Append(parts, part)
        /\ call'[t].todo = IF Len(parts) + 1 = Accessors THEN Tail(c.todo) ELSE c.todo
        /\ call'[t].at = c.at /\ call'[t].undo = c.undo
        /\ place'[t] = IF Len(parts) + 1 = Accessors /\ Len(c.todo) = 1 THEN "compute" ELSE "get"
    BY <1>2, <1>9 DEF Copy, GoesTo, TypeOK, CallStates
  <2>3. parts \in Seq(Payloads \cup {Garbage}) /\ Len(parts) < Accessors
    <3>1. Len(c.got) \in Nat /\ Len(c.got) <= Accessors
      BY <1>2, <2>1 DEF Progress
    <3>2. CASE Len(c.got) = Accessors
      BY <3>2 DEF Accessors
    <3>3. CASE Len(c.got) # Accessors
      <4>1. parts = c.got
        BY <3>3
      <4>2. Len(c.got) < Accessors
        <5>1. \A n \in Nat : n <= 4 /\ n # 4 => n < 4
          OBVIOUS
        <5> QED
          BY <3>1, <3>3, <5>1 DEF Accessors
      <4> QED
        BY <2>1, <4>1, <4>2
    <3> QED
      BY <3>2, <3>3
  <2>4. part \in Payloads \cup {Garbage}
    BY DEF TypeOK, Live
  <2>5. Len(call'[t].got) <= Accessors
    BY <2>2, <2>3, <2>4 DEF Accessors
  <2>6. place'[t] = "get" => call'[t].todo # <<>>
    <3>1. Len(c.todo) \in Nat \ {0}
      BY <2>1
    <3>2. Len(c.todo) # 1 => Len(Tail(c.todo)) # 0
      BY <2>1, <3>1
    <3>3. Len(c.todo) # 1 => Tail(c.todo) # <<>>
      BY <3>2
    <3> QED
      BY <2>1, <2>2, <3>3
  <2>7. c.at = 0 /\ c.undo = 0
    BY <1>2, <2>1 DEF Progress
  <2> QED
    BY <2>2, <2>5, <2>6, <2>7 DEF Progress
<1>10. ASSUME NEW n \in Cells, Compute(t, n) PROVE Progress(t)'
  <2>1. /\ place[t] = "compute" /\ place'[t] = "register"
        /\ call'[t].count = n /\ call'[t].at = call[t].at /\ call'[t].undo = call[t].undo
        /\ call'[t].got = call[t].got
    BY <1>10, <1>2 DEF Compute, GoesTo, TypeOK, CallStates
  <2>2. call[t].at = 0 /\ call[t].undo = 0 /\ n > 0
    BY <1>2, <2>1 DEF Progress, Cells
  <2> QED
    BY <1>2, <2>1, <2>2 DEF Progress
<1>11. ASSUME NEW p \in Payloads, Register(t, p) PROVE Progress(t)'
  <2>0. PICK k \in Nat : k = call[t].at + 1
    BY CellType
  <2>1. /\ place[t] = "register"
        /\ call'[t].count = call[t].count /\ call'[t].at = k /\ call'[t].undo = call[t].undo
        /\ call'[t].got = call[t].got /\ call'[t].op = call[t].op
        /\ place'[t] = IF k = call[t].count THEN "finish" ELSE "register"
    BY <1>11, <1>2, <2>0 DEF Register, GoesTo, TypeOK, CallStates
  <2>2. call[t].at < call[t].count /\ call[t].undo = 0 /\ k \in Cells /\ call[t].at \in Nat
    BY <1>2, <2>0, <2>1, CellType DEF Progress, Cells
  <2>10. PICK a \in {"local", "caller"} :
           /\ a = Array(call[t].op) /\ a = Array(call'[t].op)
           /\ cells' = [cells EXCEPT ![t][a][k] = nextHandle]
    BY <1>11, <2>0, <2>1, CellType DEF Register, NewId, Array
  <2>11. /\ cells'[t][a][k] = nextHandle
         /\ \A j \in Cells \ {k} : cells'[t][a][j] = cells[t][a][j]
    BY <2>2, <2>10 DEF TypeOK
  <2>3. Cell(t, k)' = nextHandle
    <3>1. Cell(t, k)' = cells'[t][Array(call'[t].op)][k]
      BY DEF Cell
    <3> QED
      BY <2>10, <2>11, <3>1
  <2>4. \A j \in 1..call[t].at : Cell(t, j)' = Cell(t, j) /\ Cell(t, j) # nextHandle
    <3> SUFFICES ASSUME NEW j \in 1..call[t].at
                 PROVE  Cell(t, j)' = Cell(t, j) /\ Cell(t, j) # nextHandle
      OBVIOUS
    <3>1. j \in Cells /\ j # k
      BY <2>0, <2>2 DEF Cells
    <3>2. Cell(t, j)' = Cell(t, j)
      BY <2>10, <2>11, <3>1 DEF Cell
    <3>3. Cell(t, j) \in 0..(nextHandle - 1)
      BY <3>1, InHandInArrays DEF IssuedInv, Touched
    <3> QED
      BY <3>2, <3>3 DEF TypeOK
  <2>5. \A i, j \in 1..k : i # j => Cell(t, i)' # Cell(t, j)'
    <3>1. \A i, j \in 1..call[t].at : i # j => Cell(t, i) # Cell(t, j)
      BY <1>2, <2>2 DEF Progress
    <3> SUFFICES ASSUME NEW i \in 1..k, NEW j \in 1..k, i # j
                 PROVE  Cell(t, i)' # Cell(t, j)'
      OBVIOUS
    <3>2. \A n \in 1..k : n = k \/ n \in 1..call[t].at
      BY <2>0, <2>2
    <3>3. CASE i = k
      BY <2>3, <2>4, <3>2, <3>3
    <3>4. CASE j = k
      BY <2>3, <2>4, <3>2, <3>4
    <3>5. CASE i # k /\ j # k
      BY <2>4, <3>1, <3>2, <3>5
    <3> QED
      BY <3>3, <3>4, <3>5
  <2>6. call'[t].undo = 0 /\ call'[t].at = k
    BY <2>1, <2>2
  <2>7. \A i, j \in (call'[t].undo + 1)..call'[t].at : i # j => Cell(t, i)' # Cell(t, j)'
    BY <2>5, <2>6
  <2>8. Len(call'[t].got) <= Accessors
    BY <1>2, <2>1 DEF Progress
  <2>9. /\ place'[t] = "register" => k < call'[t].count
        /\ place'[t] = "finish" => k = call'[t].count
        /\ place'[t] \in {"register", "finish"}
    BY <2>0, <2>1, <2>2, CellType
  <2> QED
    BY <2>6, <2>7, <2>8, <2>9 DEF Progress
<1>12. CASE Refuse(t)
  BY <1>2, <1>12, CellType DEF Refuse, GoesTo, Progress, Cell, TypeOK
<1>13. CASE Rollback(t)
  <2>1. /\ place[t] = "rollback" /\ place'[t] = "rollback" /\ call[t].undo < call[t].at
        /\ call'[t].at = call[t].at /\ call'[t].undo = call[t].undo + 1
        /\ call'[t].got = call[t].got /\ call'[t].op = call[t].op /\ cells' = cells
    BY <1>13, <1>2 DEF Rollback, RollbackEnd, TypeOK, CallStates
  <2>2. \A j \in Cells : Cell(t, j)' = Cell(t, j)
    BY <2>1 DEF Cell
  <2>3. (call'[t].undo + 1)..call'[t].at \subseteq ((call[t].undo + 1)..call[t].at) \cap Cells
    BY <2>1, CellType DEF Cells
  <2>4. \A j, k \in (call'[t].undo + 1)..call'[t].at : j # k => Cell(t, j)' # Cell(t, k)'
    BY <1>2, <2>2, <2>3 DEF Progress
  <2> QED
    BY <1>2, <2>1, <2>4, CellType DEF Progress
<1> QED
  BY <1>1, <1>5, <1>6, <1>7, <1>8, <1>9, <1>10, <1>11, <1>12, <1>13
     DEF HostNext, GetFails, CopyFails, Decline, RefuseAndKeep, RolledBack, Throw, Complete

------------------------------------------------------------------------------
(* Every handle has been issued.                                            *)

(* A host has touched every handle that it knows.                           *)
LEMMA KnownTouched ==
  \A u \in Hosts : KnownTo(u) \subseteq Touched(u)
BY DEF KnownTo, Touched, Arrays

(* A call that returns touches no handle it did not have.                   *)
LEMMA ReturnTouched ==
  ASSUME TypeOK, NEW t \in Hosts, NEW b, Return(t, b), \A k \in Cells : b[k] \in Arrays(t),
         owned'[t] \subseteq owned[t] \cup InHand(t)
  PROVE  Touched(t)' \subseteq Touched(t) \cup {0}
<1>1. owned'[t] \subseteq Touched(t)
  BY InHandInArrays DEF Touched
<1>2. Arrays(t)' \subseteq Touched(t) \cup {0}
  BY Returned DEF Touched
<1> QED
  BY <1>1, <1>2, Returned

(* The array a call leaves behind holds what its arrays held.               *)
LEMMA LeftCells ==
  ASSUME TypeOK, NEW t \in Hosts
  PROVE  /\ \A k \in Cells : cells[t].caller[k] \in Arrays(t)
         /\ \A k \in Cells :
              [j \in Cells |-> IF j <= call[t].count THEN Cell(t, j) ELSE cells[t].caller[j]][k]
                \in Arrays(t)
<1>1. \A k \in Cells : cells[t].caller[k] \in Arrays(t)
  BY DEF Arrays
<1> QED
  BY <1>1, InHandInArrays

(* A handle that anyone has touched was issued.                             *)
LEMMA IssuedStep ==
  ASSUME TypeOK, CallInv, IssuedInv, [NurbsNext]_nurbsVars
  PROVE  IssuedInv'
<1>0. CASE UNCHANGED nurbsVars
  BY <1>0 DEF IssuedInv, Touched, Arrays, nurbsVars, regVars
<1> SUFFICES ASSUME NEW t \in Hosts, HostNext(t) PROVE IssuedInv'
  BY <1>0 DEF NurbsNext
<1>1. nextHandle \in Nat \ {0} /\ (nextHandle' = nextHandle \/ nextHandle' = nextHandle + 1)
  BY DEF HostNext, ReleaseSurface, Begin, Get, GetFails, Copy, CopyFails, Compute, Decline, Register,
     Refuse, RefuseAndKeep, Refused, Rollback, RolledBack, Throw, Complete, TypeOK, regVars
<1>2. 0..(nextHandle - 1) \subseteq 0..(nextHandle' - 1) /\ 0 \in 0..(nextHandle' - 1)
  BY <1>1
<1>3. InHand(t) \subseteq 0..(nextHandle - 1) /\ Touched(t) \subseteq 0..(nextHandle - 1)
  BY InHandInArrays DEF IssuedInv, Touched
<1>4. lost' \subseteq lost \cup InHand(t)
  BY DEF HostNext, ReleaseSurface, Begin, Get, GetFails, Copy, CopyFails, Compute, Decline, Register,
     Refuse, RefuseAndKeep, Rollback, RolledBack, Throw, Complete
<1>5. lost' \subseteq 0..(nextHandle' - 1)
  BY <1>2, <1>3, <1>4 DEF IssuedInv
<1>6. \A u \in Hosts \ {t} : Touched(u)' \subseteq 0..(nextHandle' - 1)
  BY <1>2, OneHost DEF IssuedInv
<1>7. SUFFICES Touched(t)' \subseteq 0..(nextHandle' - 1)
  BY <1>5, <1>6 DEF IssuedInv
<1>8. ASSUME Touched(t)' \subseteq Touched(t) \cup {0} PROVE Touched(t)' \subseteq 0..(nextHandle' - 1)
  BY <1>2, <1>3, <1>8
<1>9. ASSUME Return(t, cells[t].caller), owned'[t] = owned[t]
      PROVE  Touched(t)' \subseteq Touched(t) \cup {0}
  BY <1>9, ReturnTouched, LeftCells
<1>10. ASSUME call'[t].todo = call[t].todo, cells' = cells, owned' = owned
       PROVE  Touched(t)' \subseteq Touched(t) \cup {0}
  BY <1>10 DEF Touched, Arrays
<1>11. CASE \E id \in KnownTo(t) : ReleaseSurface(t, id)
  <2>1. owned'[t] \subseteq owned[t] /\ call' = call /\ cells' = cells
    BY <1>11 DEF ReleaseSurface, TypeOK
  <2> QED
    BY <1>8, <2>1 DEF Touched, Arrays
<1>12. ASSUME NEW o \in Ops, NEW h \in [1..SurfacesIn(o) -> UNION {KnownTo(u) : u \in Hosts}],
              Begin(t, o, h)
       PROVE  Touched(t)' \subseteq 0..(nextHandle' - 1)
  <2>1. call'[t].todo = h /\ cells' = cells /\ owned' = owned
    BY <1>12 DEF Begin, NewCall, TypeOK
  <2>2. UNION {KnownTo(u) : u \in Hosts} \subseteq 0..(nextHandle - 1)
    BY KnownTouched DEF IssuedInv
  <2>3. \A i \in 1..Len(h) : h[i] \in 0..(nextHandle - 1)
    <3>1. Len(h) = SurfacesIn(o)
      BY DEF SurfacesIn
    <3> QED
      BY <2>2, <3>1
  <2>4. Touched(t)' = owned[t] \cup Arrays(t) \cup {h[i] : i \in 1..Len(h)}
    BY <2>1 DEF Touched, Arrays
  <2> QED
    BY <1>2, <1>3, <2>3, <2>4 DEF Touched
<1>13. CASE Get(t)
  BY <1>8, <1>10, <1>13 DEF Get
<1>14. CASE Copy(t)
  <2>1. call[t].todo \in Seq(Nat) /\ call[t].todo # <<>>
    BY <1>14 DEF Copy, CallInv, Progress, TypeOK, CallStates
  <2>2. call'[t].todo \in {call[t].todo, Tail(call[t].todo)} /\ cells' = cells /\ owned' = owned
    BY <1>14 DEF Copy, TypeOK, CallStates
  <2>3. CASE call'[t].todo = call[t].todo
    BY <1>8, <1>10, <2>2, <2>3
  <2>4. CASE call'[t].todo = Tail(call[t].todo)
    <3>1. \A i \in 1..Len(Tail(call[t].todo)) :
            i + 1 \in 1..Len(call[t].todo) /\ Tail(call[t].todo)[i] = call[t].todo[i + 1]
      BY <2>1
    <3> QED
      BY <1>8, <2>2, <2>4, <3>1 DEF Touched, Arrays
  <2> QED
    BY <2>2, <2>3, <2>4
<1>15. ASSUME NEW n \in Cells, Compute(t, n) PROVE Touched(t)' \subseteq 0..(nextHandle' - 1)
  <2>1. call'[t].todo = call[t].todo /\ cells' = cells /\ owned' = owned
    BY <1>15 DEF Compute, TypeOK, CallStates
  <2> QED
    BY <1>8, <1>10, <2>1
<1>16. ASSUME NEW p \in Payloads, Register(t, p) PROVE Touched(t)' \subseteq 0..(nextHandle' - 1)
  <2>1. call'[t].todo = call[t].todo /\ owned' = owned /\ nextHandle' = nextHandle + 1
    BY <1>16 DEF Register, TypeOK, CallStates
  <2>5. PICK k \in Nat : k = call[t].at + 1
    BY CellType
  <2>6. PICK a \in {"local", "caller"} : a = Array(call[t].op)
    BY CellType
  <2>2. cells' = [cells EXCEPT ![t][a][k] = nextHandle]
    BY <1>16, <2>5, <2>6 DEF Register, NewId
  <2>3. Arrays(t)' \subseteq Arrays(t) \cup {nextHandle}
    BY <2>2 DEF Arrays, TypeOK
  <2>4. nextHandle \in 0..(nextHandle' - 1)
    BY <1>1, <2>1
  <2> QED
    BY <1>2, <1>3, <2>1, <2>3, <2>4 DEF Touched
<1>17. CASE Refuse(t)
  BY <1>8, <1>10, <1>17 DEF Refuse
<1>18. CASE Rollback(t)
  <2>1. call'[t].todo = call[t].todo /\ cells' = cells /\ owned' = owned
    BY <1>18 DEF Rollback, TypeOK, CallStates
  <2> QED
    BY <1>8, <1>10, <2>1
<1>19. CASE Complete(t)
  <2>1. owned'[t] = owned[t] \cup InHand(t)
    BY <1>19 DEF Complete, TypeOK
  <2> QED
    BY <1>8, <1>19, <2>1, ReturnTouched, LeftCells DEF Complete
<1>20. CASE GetFails(t) \/ CopyFails(t) \/ Decline(t) \/ RefuseAndKeep(t) \/ RolledBack(t) \/ Throw(t)
  BY <1>8, <1>9, <1>20 DEF GetFails, CopyFails, Decline, RefuseAndKeep, RolledBack, Throw
<1> QED
  BY <1>11, <1>12, <1>13, <1>14, <1>15, <1>16, <1>17, <1>18, <1>19, <1>20 DEF HostNext

------------------------------------------------------------------------------
(* Who is in charge of a handle.                                            *)

(* A step that keeps the registry and what each party is in charge of.      *)
LEMMA ChargeFrame ==
  ASSUME TypeOK, GivenHandlesStayValid, LiveHandlesHaveOneOwner, items' = items, lost' = lost,
         \A u \in Hosts : Charge(u)' = Charge(u) /\ owned'[u] \cap InHand(u)' = {}
  PROVE  GivenHandlesStayValid' /\ LiveHandlesHaveOneOwner'
<1>1. GivenHandlesStayValid'
  BY DEF GivenHandlesStayValid, Charge
<1> QED
  BY <1>1 DEF LiveHandlesHaveOneOwner

(* A step that keeps the arrays, or copies in them or clears them, and adds *)
(* to no one's charge.                                                      *)
LEMMA PrivateFrame ==
  ASSUME TypeOK, GivenHandlesStayValid, PrivateInv,
         \A u \in Hosts : Charge(u)' \subseteq Charge(u) /\ Arrays(u)' \subseteq Arrays(u) \cup {0}
  PROVE  PrivateInv'
<1>1. \A u \in Hosts : 0 \notin Charge(u)
  BY DEF GivenHandlesStayValid, Charge, TypeOK
<1> QED
  BY <1>1 DEF PrivateInv

(* What is in hand is in charge, and what is in charge is live.             *)
LEMMA ChargeLive ==
  ASSUME TypeOK, GivenHandlesStayValid, NEW u \in Hosts
  PROVE  /\ InHand(u) \subseteq Charge(u) /\ owned[u] \subseteq Charge(u)
         /\ Charge(u) \subseteq DOMAIN items
         /\ 0 \notin Charge(u) /\ nextHandle \notin Charge(u)
BY DEF GivenHandlesStayValid, Charge, TypeOK

(* The arrays of a call that returns hold nothing new.                      *)
LEMMA ReturnArrays ==
  ASSUME TypeOK, NEW t \in Hosts, NEW b, Return(t, b), \A k \in Cells : b[k] \in Arrays(t)
  PROVE  Arrays(t)' \subseteq Arrays(t) \cup {0}
BY Returned

(* What hosts own and what calls have in hand stay apart, and live.         *)
LEMMA ChargeStep ==
  ASSUME TypeOK, CallInv, IssuedInv, PrivateInv, GivenHandlesStayValid,
         LiveHandlesHaveOneOwner, [NurbsNext]_nurbsVars
  PROVE  PrivateInv' /\ GivenHandlesStayValid' /\ LiveHandlesHaveOneOwner'
<1> DEFINE Goal == PrivateInv' /\ GivenHandlesStayValid' /\ LiveHandlesHaveOneOwner'
<1>0. CASE UNCHANGED nurbsVars
  <2>1. \A u \in Hosts : /\ InHand(u)' = InHand(u) /\ Charge(u)' = Charge(u)
                         /\ Arrays(u)' = Arrays(u) /\ owned'[u] = owned[u]
    BY <1>0 DEF Arrays, Charge, InHand, Cell, nurbsVars
  <2>2. \A u \in Hosts : owned'[u] \cap InHand(u)' = {}
    BY <2>1 DEF LiveHandlesHaveOneOwner
  <2> QED
    BY <1>0, <2>1, <2>2, ChargeFrame, PrivateFrame DEF nurbsVars, regVars
<1> SUFFICES ASSUME NEW t \in Hosts, HostNext(t) PROVE Goal
  BY <1>0 DEF NurbsNext
<1>1. \A u \in Hosts \ {t} :
        /\ owned'[u] = owned[u] /\ InHand(u)' = InHand(u)
        /\ Charge(u)' = Charge(u) /\ Arrays(u)' = Arrays(u)
  BY OneHost
<1>2. Progress(t) /\ call[t] \in CallStates
  BY DEF CallInv, TypeOK
<1>3. \A u \in Hosts : owned[u] \cap InHand(u) = {}
  BY DEF LiveHandlesHaveOneOwner
<1>4. ASSUME items' = items, lost' = lost, Charge(t)' = Charge(t), owned'[t] \cap InHand(t)' = {},
             Arrays(t)' \subseteq Arrays(t) \cup {0}
      PROVE  Goal
  <2>1. \A u \in Hosts : /\ Charge(u)' = Charge(u) /\ owned'[u] \cap InHand(u)' = {}
                         /\ Arrays(u)' \subseteq Arrays(u) \cup {0}
    BY <1>1, <1>3, <1>4
  <2> QED
    BY <1>4, <2>1, ChargeFrame, PrivateFrame
<1>5. ASSUME NEW b, Return(t, b), \A k \in Cells : b[k] \in Arrays(t),
             items' = items, lost' = lost, owned'[t] = owned[t] \cup InHand(t)
      PROVE  Goal
  <2>1. InHand(t)' = {} /\ Arrays(t)' \subseteq Arrays(t) \cup {0}
    BY <1>5, Returned, ReturnArrays
  <2>2. Charge(t)' = Charge(t)
    BY <1>5, <2>1 DEF Charge
  <2> QED
    BY <1>4, <1>5, <2>1, <2>2
<1>6. ASSUME Return(t, cells[t].caller), items' = items, owned' = owned,
             lost' = lost \cup InHand(t)
      PROVE  Goal
  <2>1. InHand(t)' = {} /\ Arrays(t)' \subseteq Arrays(t) \cup {0}
    BY <1>6, LeftCells, Returned, ReturnArrays
  <2>2. Charge(t)' = owned[t] /\ Charge(t) = owned[t] \cup InHand(t)
    BY <1>6, <2>1 DEF Charge
  <2>3. \A u \in Hosts : Charge(u)' \subseteq Charge(u) /\ Arrays(u)' \subseteq Arrays(u) \cup {0}
    BY <1>1, <2>1, <2>2
  <2>4. PrivateInv'
    BY <2>3, PrivateFrame
  <2>5. GivenHandlesStayValid'
    BY <1>6, <2>3 DEF GivenHandlesStayValid, Charge
  <2>6. \A u \in Hosts : owned'[u] \cap InHand(u)' = {}
    BY <1>1, <1>3, <2>1
  <2>7. \A u \in Hosts : Charge(u)' \cap lost' = {}
    <3>1. Charge(t)' \cap lost' = {}
      BY <1>3, <1>6, <2>2 DEF LiveHandlesHaveOneOwner
    <3>2. \A u \in Hosts \ {t} : Charge(u) \cap InHand(t) = {}
      BY <2>2 DEF LiveHandlesHaveOneOwner
    <3> QED
      BY <1>1, <1>6, <3>1, <3>2 DEF LiveHandlesHaveOneOwner
  <2>8. DOMAIN items' \subseteq lost' \cup UNION {Charge(u)' : u \in Hosts}
    <3> SUFFICES ASSUME NEW id \in DOMAIN items, id \notin lost'
                 PROVE  \E u \in Hosts : id \in Charge(u)'
      BY <1>6
    <3>1. PICK u \in Hosts : id \in Charge(u)
      BY <1>6 DEF LiveHandlesHaveOneOwner
    <3> QED
      BY <1>1, <1>6, <2>2, <3>1
  <2>9. \A u \in Hosts : \A v \in Hosts \ {u} : Charge(u)' \cap Charge(v)' = {}
    BY <2>3 DEF LiveHandlesHaveOneOwner
  <2> QED
    BY <2>4, <2>5, <2>6, <2>7, <2>8, <2>9 DEF LiveHandlesHaveOneOwner
<1>7. ASSUME NEW id, items' = Erased(id), lost' = lost, Charge(t)' = Charge(t) \ {id},
             owned'[t] \cap InHand(t)' = {}, Arrays(t)' = Arrays(t),
             \A u \in Hosts \ {t} : id \notin Charge(u)
      PROVE  Goal
  <2>1. DOMAIN items' = DOMAIN items \ {id}
    BY <1>7 DEF Erased
  <2>2. \A u \in Hosts : Charge(u)' = Charge(u) \ {id} /\ Arrays(u)' = Arrays(u)
    BY <1>1, <1>7
  <2>3. PrivateInv'
    BY <2>2, PrivateFrame
  <2>4. GivenHandlesStayValid'
    BY <2>1, <2>2 DEF GivenHandlesStayValid, Charge
  <2>5. DOMAIN items' \subseteq lost' \cup UNION {Charge(u)' : u \in Hosts}
    <3> SUFFICES ASSUME NEW i \in DOMAIN items, i # id, i \notin lost
                 PROVE  \E u \in Hosts : i \in Charge(u)'
      BY <1>7, <2>1
    <3> QED
      BY <2>2 DEF LiveHandlesHaveOneOwner
  <2>6. \A u \in Hosts : owned'[u] \cap InHand(u)' = {}
    BY <1>1, <1>3, <1>7
  <2> QED
    BY <1>7, <2>2, <2>3, <2>4, <2>5, <2>6 DEF LiveHandlesHaveOneOwner
<1>8. ASSUME NEW id \in KnownTo(t), ReleaseSurface(t, id) PROVE Goal
  <2>1. InHand(t) = {} /\ Charge(t) = owned[t]
    BY <1>8, EmptyHand DEF ReleaseSurface, Places
  <2>2. /\ items' = Erased(id) /\ lost' = lost /\ call' = call /\ cells' = cells
        /\ owned'[t] = owned[t] \ {id}
    BY <1>8 DEF ReleaseSurface, TypeOK
  <2>3. InHand(t)' = {} /\ Arrays(t)' = Arrays(t)
    BY <2>1, <2>2 DEF InHand, Cell, Arrays
  <2>4. Charge(t)' = Charge(t) \ {id}
    BY <2>1, <2>2, <2>3 DEF Charge
  <2>5. \A u \in Hosts \ {t} : id \notin Charge(u)
    <3>1. id \in owned[t] \/ id \in Arrays(t)
      BY DEF KnownTo, Arrays
    <3>2. \A u \in Hosts \ {t} : Charge(t) \cap Charge(u) = {} /\ Arrays(t) \cap Charge(u) = {}
      BY DEF LiveHandlesHaveOneOwner, PrivateInv
    <3> QED
      BY <2>1, <3>1, <3>2
  <2> QED
    BY <1>7, <2>2, <2>3, <2>4, <2>5
<1>9. CASE Rollback(t)
  <2>0. PICK k \in Nat : k = call[t].undo + 1
    BY CellType
  <2>1. /\ place[t] = "rollback" /\ call[t].undo < call[t].at
        /\ call'[t].at = call[t].at /\ call'[t].undo = k /\ call'[t].op = call[t].op
        /\ cells' = cells /\ owned' = owned /\ lost' = lost
        /\ items' = Erased(Cell(t, k))
    BY <1>2, <1>9, <2>0 DEF Rollback, RollbackEnd, TypeOK, CallStates
  <2>2. \A j \in Cells : Cell(t, j)' = Cell(t, j)
    BY <2>1 DEF Cell
  <2>3. \A j \in Nat : j \in (call[t].undo + 1)..call[t].at <=> j = k \/ j \in (k + 1)..call[t].at
    BY <2>0, <2>1, CellType
  <2>4. k \in Cells /\ (k + 1)..call[t].at \subseteq Cells
    BY <2>0, <2>1, CellType DEF Cells
  <2>5. \A j \in (k + 1)..call[t].at : Cell(t, j) # Cell(t, k)
    <3> SUFFICES ASSUME NEW j \in (k + 1)..call[t].at PROVE Cell(t, j) # Cell(t, k)
      OBVIOUS
    <3>1. j # k /\ {j, k} \subseteq (call[t].undo + 1)..call[t].at
      BY <2>0, <2>3, CellType
    <3> QED
      BY <1>2, <3>1 DEF Progress
  <2>6. InHand(t)' = {Cell(t, j) : j \in (k + 1)..call[t].at}
    BY <2>1, <2>2, <2>4 DEF InHand
  <2>7. InHand(t) = InHand(t)' \cup {Cell(t, k)}
    <3>1. (call[t].undo + 1)..call[t].at = {k} \cup ((k + 1)..call[t].at)
      BY <2>0, <2>1, CellType
    <3> QED
      BY <2>6, <3>1 DEF InHand
  <2>8. InHand(t)' = InHand(t) \ {Cell(t, k)}
    BY <2>5, <2>6, <2>7
  <2>9. owned'[t] \cap InHand(t)' = {} /\ Arrays(t)' = Arrays(t)
    BY <1>3, <2>1, <2>8 DEF Arrays
  <2>10. Charge(t)' = Charge(t) \ {Cell(t, k)}
    BY <1>3, <2>1, <2>7, <2>8 DEF Charge
  <2>11. \A u \in Hosts \ {t} : Cell(t, k) \notin Charge(u)
    BY <2>7, ChargeLive DEF LiveHandlesHaveOneOwner
  <2> QED
    BY <1>7, <2>1, <2>9, <2>10, <2>11
<1>10. ASSUME NEW p \in Payloads, Register(t, p) PROVE Goal
  <2>0. PICK k \in Nat : k = call[t].at + 1
    BY CellType
  <2>1. /\ place[t] = "register" /\ nextHandle' = nextHandle + 1 /\ owned' = owned /\ lost' = lost
        /\ call'[t].at = k /\ call'[t].undo = call[t].undo /\ call'[t].op = call[t].op
        /\ DOMAIN items' = DOMAIN items \cup {nextHandle}
    BY <1>2, <1>10, <2>0 DEF Register, Emplaced, NewId, TypeOK, CallStates
  <2>2. call[t].undo = 0 /\ k \in Cells /\ 1..call[t].at \subseteq Cells
    BY <1>2, <2>0, <2>1, CellType DEF Progress, Cells
  <2>3. PICK a \in {"local", "caller"} : a = Array(call[t].op)
    BY CellType
  <2>4. cells' = [cells EXCEPT ![t][a][k] = nextHandle]
    BY <1>10, <2>0, <2>3 DEF Register, NewId
  <2>5. /\ cells'[t][a][k] = nextHandle
        /\ \A j \in Cells \ {k} : cells'[t][a][j] = cells[t][a][j]
    BY <2>2, <2>4 DEF TypeOK
  <2>6. Cell(t, k)' = nextHandle /\ \A j \in Cells \ {k} : Cell(t, j)' = Cell(t, j)
    BY <2>1, <2>3, <2>5 DEF Cell
  <2>7. \A j \in Nat : j \in 1..k <=> j = k \/ j \in 1..call[t].at
    BY <2>0, CellType
  <2>8. \A j \in 1..call[t].at : j \in Cells \ {k}
    BY <2>0, <2>2, CellType
  <2>9. InHand(t) = {Cell(t, j) : j \in 1..call[t].at}
    BY <2>2 DEF InHand
  <2>10. InHand(t)' = {Cell(t, j)' : j \in 1..k}
    BY <2>1, <2>2 DEF InHand
  <2>11. InHand(t)' = InHand(t) \cup {nextHandle}
    BY <2>0, <2>6, <2>7, <2>8, <2>9, <2>10
  <2>12. Arrays(t)' \subseteq Arrays(t) \cup {nextHandle}
    BY <2>4 DEF Arrays, TypeOK
  <2>13. Charge(t)' = Charge(t) \cup {nextHandle}
    BY <2>1, <2>11 DEF Charge
  <2>14. \A u \in Hosts : nextHandle \notin Touched(u) /\ nextHandle \notin Charge(u) /\ nextHandle \notin lost
    BY ChargeLive DEF IssuedInv, TypeOK
  <2>15. \A u \in Hosts : nextHandle \notin Arrays(u) /\ nextHandle \notin owned[u]
    BY <2>14 DEF Touched
  <2>16. PrivateInv'
    BY <1>1, <2>12, <2>13, <2>14, <2>15 DEF PrivateInv
  <2>17. GivenHandlesStayValid'
    BY <1>1, <2>1, <2>13 DEF GivenHandlesStayValid, Charge
  <2>18. \A u \in Hosts : owned'[u] \cap InHand(u)' = {} /\ Charge(u)' \cap lost' = {}
    BY <1>1, <1>3, <2>1, <2>11, <2>13, <2>14, <2>15 DEF LiveHandlesHaveOneOwner
  <2>19. DOMAIN items' \subseteq lost' \cup UNION {Charge(u)' : u \in Hosts}
    <3> SUFFICES ASSUME NEW i \in DOMAIN items \cup {nextHandle}, i \notin lost
                 PROVE  \E u \in Hosts : i \in Charge(u)'
      BY <2>1
    <3>1. CASE i = nextHandle
      BY <2>13, <3>1
    <3>2. CASE i # nextHandle
      <4>1. PICK u \in Hosts : i \in Charge(u)
        BY <3>2 DEF LiveHandlesHaveOneOwner
      <4> QED
        BY <1>1, <2>13, <4>1
    <3> QED
      BY <3>1, <3>2
  <2>20. \A u \in Hosts : \A v \in Hosts \ {u} : Charge(u)' \cap Charge(v)' = {}
    BY <1>1, <2>13, <2>14 DEF LiveHandlesHaveOneOwner
  <2> QED
    BY <2>16, <2>17, <2>18, <2>19, <2>20 DEF LiveHandlesHaveOneOwner
<1>11. ASSUME place[t] \notin Places, items' = items, lost' = lost, owned' = owned,
              cells' = cells, call'[t].at = 0, call'[t].undo = 0
       PROVE  Goal
  <2>1. InHand(t) = {} /\ Charge(t) = owned[t]
    BY <1>11, EmptyHand
  <2>2. InHand(t)' = {} /\ Arrays(t)' = Arrays(t)
    BY <1>11 DEF InHand, Arrays
  <2>3. Charge(t)' = Charge(t)
    BY <1>11, <2>1, <2>2 DEF Charge
  <2> QED
    BY <1>4, <1>11, <2>2, <2>3
<1>12. place[t] \notin Places => call[t].at = 0 /\ call[t].undo = 0
  BY <1>2 DEF Progress
<1>13. ASSUME NEW o \in Ops, NEW h \in [1..SurfacesIn(o) -> UNION {KnownTo(u) : u \in Hosts}],
              Begin(t, o, h)
       PROVE  Goal
  <2>1. call'[t].at = 0 /\ call'[t].undo = 0
    BY <1>13 DEF Begin, NewCall, TypeOK
  <2> QED
    BY <1>11, <1>13, <2>1 DEF Begin, Places, regVars
<1>14. CASE Get(t)
  BY <1>11, <1>12, <1>14 DEF Get, Places, regVars
<1>15. CASE Copy(t)
  <2>1. call'[t].at = call[t].at /\ call'[t].undo = call[t].undo
    BY <1>2, <1>15 DEF Copy, TypeOK, CallStates
  <2> QED
    BY <1>11, <1>12, <1>15, <2>1 DEF Copy, Places, regVars
<1>16. ASSUME NEW n \in Cells, Compute(t, n) PROVE Goal
  <2>1. call'[t].at = call[t].at /\ call'[t].undo = call[t].undo
    BY <1>2, <1>16 DEF Compute, TypeOK, CallStates
  <2> QED
    BY <1>11, <1>12, <1>16, <2>1 DEF Compute, Places, regVars
<1>17. CASE Refuse(t)
  <2>1. items' = items /\ call' = call /\ cells' = cells /\ owned' = owned /\ lost' = lost
    BY <1>17 DEF Refuse, Refused
  <2>2. InHand(t)' = InHand(t) /\ Charge(t)' = Charge(t) /\ Arrays(t)' = Arrays(t)
    BY <2>1 DEF InHand, Charge, Arrays, Cell
  <2> QED
    BY <1>3, <1>4, <2>1, <2>2
<1>18. ASSUME Return(t, cells[t].caller), InHand(t) = {}, items' = items, lost' = lost,
              owned' = owned
       PROVE  Goal
  BY <1>6, <1>18
<1>19. CASE GetFails(t) \/ CopyFails(t) \/ Decline(t)
  <2>1. InHand(t) = {}
    BY <1>19, EmptyHand DEF GetFails, CopyFails, Decline, Places
  <2> QED
    BY <1>18, <1>19, <2>1 DEF GetFails, CopyFails, Decline, regVars
<1>20. CASE RolledBack(t)
  <2>1. call[t].undo >= call[t].at
    BY <1>20 DEF RolledBack, RollbackEnd
  <2>2. (call[t].undo + 1)..call[t].at = {}
    BY <2>1, CellType
  <2>3. InHand(t) = {}
    BY <2>2 DEF InHand
  <2> QED
    BY <1>18, <1>20, <2>3 DEF RolledBack, regVars
<1>21. CASE RefuseAndKeep(t) \/ Throw(t)
  BY <1>6, <1>21 DEF RefuseAndKeep, Refused, Throw, regVars
<1>22. CASE Complete(t)
  <2> DEFINE b == [k \in Cells |-> IF k <= call[t].count THEN Cell(t, k) ELSE cells[t].caller[k]]
  <2>1. /\ Return(t, b) /\ items' = items /\ lost' = lost
        /\ owned'[t] = owned[t] \cup InHand(t)
    BY <1>22 DEF Complete, TypeOK, regVars
  <2>2. \A k \in Cells : b[k] \in Arrays(t)
    BY LeftCells
  <2> HIDE DEF b
  <2> QED
    BY <1>5, <2>1, <2>2
<1> QED
  BY <1>8, <1>9, <1>10, <1>13, <1>14, <1>15, <1>16, <1>17, <1>19, <1>20, <1>21, <1>22
     DEF HostNext

------------------------------------------------------------------------------
(* What a call has read.                                                    *)

(* A call that reads back reads what one store put there.                   *)
LEMMA ReadStep ==
  ASSUME TypeOK, CallInv, IssuedInv, ReadInv, ReadBackIsOnePayload, [NurbsNext]_nurbsVars
  PROVE  ReadInv' /\ ReadBackIsOnePayload'
<1> DEFINE Same(u) == place'[u] = place[u] /\ call'[u] = call[u]
           ReadAt(u) == LET c == call[u] IN
             place[u] \in {"get", "copy"} /\ Len(c.got) < Accessors /\ Live(Head(c.todo)) =>
               \A i \in 1..Len(c.got) : c.got[i] \in {Garbage, items[Head(c.todo)]}
           OneAt(u) == \A i, j \in 1..Len(call[u].got) :
             LET a == call[u].got[i]
                 b == call[u].got[j] IN
             Garbage \in {a, b} \/ a = b
<1>0. CASE UNCHANGED nurbsVars
  BY <1>0 DEF ReadInv, ReadBackIsOnePayload, Live, nurbsVars, regVars
<1> SUFFICES ASSUME NEW t \in Hosts, HostNext(t)
             PROVE  ReadInv' /\ ReadBackIsOnePayload'
  BY <1>0 DEF NurbsNext
<1>1. \A u \in Hosts \ {t} : Same(u)
  BY OneHost
<1>2. \A u \in Hosts : place[u] \in {"get", "copy"} =>
        /\ call[u].todo \in Seq(Nat) /\ Len(call[u].todo) \in Nat \ {0}
        /\ Head(call[u].todo) \in 0..(nextHandle - 1)
  <2> SUFFICES ASSUME NEW u \in Hosts, place[u] \in {"get", "copy"}
               PROVE  /\ call[u].todo \in Seq(Nat) /\ Len(call[u].todo) \in Nat \ {0}
                      /\ Head(call[u].todo) \in 0..(nextHandle - 1)
    OBVIOUS
  <2>1. call[u].todo \in Seq(Nat) /\ call[u].todo # <<>>
    BY DEF CallInv, Progress, TypeOK, CallStates
  <2>2. Len(call[u].todo) \in Nat \ {0}
    BY <2>1
  <2>3. Head(call[u].todo) = call[u].todo[1] /\ 1 \in 1..Len(call[u].todo)
    BY <2>1, <2>2
  <2> QED
    BY <2>1, <2>2, <2>3 DEF IssuedInv, Touched
(* An issued handle that lives after the step lived before, with the same   *)
(* payload.                                                                 *)
<1>3. \A id \in 0..(nextHandle - 1) : id \in DOMAIN items' =>
        id \in DOMAIN items /\ items'[id] = items[id]
  <2> SUFFICES ASSUME NEW id \in 0..(nextHandle - 1), id \in DOMAIN items'
               PROVE  id \in DOMAIN items /\ items'[id] = items[id]
    OBVIOUS
  <2>0. id # nextHandle
    BY DEF TypeOK
  <2>1. CASE \E i \in KnownTo(t) : ReleaseSurface(t, i)
    BY <2>1 DEF ReleaseSurface, Erased
  <2>2. CASE Rollback(t)
    BY <2>2 DEF Rollback, Erased
  <2>3. CASE \E p \in Payloads : Register(t, p)
    BY <2>0, <2>3 DEF Register, Emplaced, NewId, Live
  <2>4. CASE items' = items
    BY <2>4
  <2>5. \/ \E i \in KnownTo(t) : ReleaseSurface(t, i)
        \/ Rollback(t)
        \/ \E p \in Payloads : Register(t, p)
        \/ items' = items
    BY DEF HostNext, Begin, Get, GetFails, Copy, CopyFails, Compute,
       Decline, Refuse, RefuseAndKeep, Refused, RolledBack, Throw, Complete, regVars
  <2> QED
    BY <2>1, <2>2, <2>3, <2>4, <2>5
<1>4. \A u \in Hosts : Same(u) => ReadAt(u)' /\ OneAt(u)'
  <2> SUFFICES ASSUME NEW u \in Hosts, Same(u) PROVE ReadAt(u)' /\ OneAt(u)'
    OBVIOUS
  <2>1. OneAt(u)'
    BY DEF ReadBackIsOnePayload
  <2>2. ReadAt(u)'
    BY <1>2, <1>3 DEF ReadInv, Live
  <2> QED
    BY <2>1, <2>2
<1>5. SUFFICES ReadAt(t)' /\ OneAt(t)'
  BY <1>1, <1>4 DEF ReadInv, ReadBackIsOnePayload
<1>6. ASSUME call'[t].got = <<>> PROVE ReadAt(t)' /\ OneAt(t)'
  BY <1>6
<1>7. ASSUME call'[t].got = call[t].got, call'[t].todo = call[t].todo,
             place'[t] \in {"get", "copy"} => place[t] \in {"get", "copy"}
      PROVE  ReadAt(t)' /\ OneAt(t)'
  <2>1. OneAt(t)'
    BY <1>7 DEF ReadBackIsOnePayload
  <2>2. ReadAt(t)'
    BY <1>2, <1>3, <1>7 DEF ReadInv, Live
  <2> QED
    BY <2>1, <2>2
<1>8. ASSUME NEW b, Return(t, b) PROVE ReadAt(t)' /\ OneAt(t)'
  <2>1. call'[t].got = <<>>
    BY <1>8, Returned DEF NoCall, NewCall
  <2> QED
    BY <1>6, <2>1
<1>9. CASE \E id \in KnownTo(t) : ReleaseSurface(t, id)
  BY <1>7, <1>9 DEF ReleaseSurface
<1>10. ASSUME NEW o \in Ops, NEW h \in [1..SurfacesIn(o) -> UNION {KnownTo(u) : u \in Hosts}],
              Begin(t, o, h)
       PROVE  ReadAt(t)' /\ OneAt(t)'
  <2>1. call'[t].got = <<>>
    BY <1>10 DEF Begin, NewCall, TypeOK
  <2> QED
    BY <1>6, <2>1
<1>11. CASE Get(t)
  BY <1>7, <1>11 DEF Get
<1>12. CASE Copy(t)
  <2> DEFINE c == call[t]
  <2>0. PICK h : h = Head(c.todo)
    OBVIOUS
  <2>1. PICK parts : parts = IF Len(c.got) = Accessors THEN <<>> ELSE c.got
    OBVIOUS
  <2>2. PICK part : part = IF Live(h) THEN items[h] ELSE Garbage
    OBVIOUS
  <2>3. place[t] = "copy" /\ c.got \in Seq(Payloads \cup {Garbage}) /\ items' = items
    BY <1>12 DEF Copy, TypeOK, CallStates, regVars
  <2>4. parts \in Seq(Payloads \cup {Garbage}) /\ part \in Payloads \cup {Garbage}
    BY <2>1, <2>2, <2>3 DEF TypeOK, Live
  <2>5. /\ call'[t].got = Append(parts, part)
        /\ call'[t].todo = IF Len(parts) + 1 = Accessors THEN Tail(c.todo) ELSE c.todo
    BY <1>12, <2>0, <2>1, <2>2, SMTT(20) DEF Copy, TypeOK, CallStates
  <2>6. \A i \in 1..Len(parts) : parts[i] \in {Garbage} \cup IF Live(h) THEN {items[h]} ELSE {parts[i]}
    <3>1. CASE Len(c.got) = Accessors
      BY <2>1, <3>1
    <3>2. CASE Len(c.got) # Accessors
      <4>1. Len(c.got) \in Nat /\ Len(c.got) <= Accessors
        BY <2>3 DEF CallInv, Progress
      <4>2. Len(c.got) < Accessors
        <5>1. \A n \in Nat : n <= 4 /\ n # 4 => n < 4
          OBVIOUS
        <5> QED
          BY <3>2, <4>1, <5>1 DEF Accessors
      <4> QED
        BY <2>0, <2>1, <2>3, <3>2, <4>2 DEF ReadInv
    <3> QED
      BY <3>1, <3>2
  <2>7. \A i, j \in 1..Len(parts) : Garbage \in {parts[i], parts[j]} \/ parts[i] = parts[j]
    BY <2>1 DEF ReadBackIsOnePayload
  <2>8. PICK n \in Nat : n = Len(parts)
    BY <2>4
  <2>9. /\ Len(Append(parts, part)) = n + 1 /\ Append(parts, part)[n + 1] = part
        /\ \A i \in 1..n : Append(parts, part)[i] = parts[i]
    BY <2>4, <2>8
  <2>10. \A i \in 1..(n + 1) : i = n + 1 \/ i \in 1..n
    OBVIOUS
  <2>11. OneAt(t)'
    <3> SUFFICES ASSUME NEW i \in 1..(n + 1), NEW j \in 1..(n + 1)
                 PROVE  Garbage \in {Append(parts, part)[i], Append(parts, part)[j]}
                        \/ Append(parts, part)[i] = Append(parts, part)[j]
      BY <2>5, <2>9
    <3>1. CASE i = n + 1 /\ j = n + 1
      BY <3>1
    <3>2. CASE i = n + 1 /\ j \in 1..n
      BY <2>2, <2>6, <2>8, <2>9, <3>2
    <3>3. CASE i \in 1..n /\ j = n + 1
      BY <2>2, <2>6, <2>8, <2>9, <3>3
    <3>4. CASE i \in 1..n /\ j \in 1..n
      BY <2>7, <2>8, <2>9, <3>4
    <3> QED
      BY <2>10, <3>1, <3>2, <3>3, <3>4
  <2>12. ReadAt(t)'
    <3>1. CASE n + 1 = Accessors
      BY <2>5, <2>9, <3>1 DEF Accessors
    <3>2. CASE n + 1 # Accessors
      <4>1. Head(call'[t].todo) = h
        BY <2>0, <2>5, <2>8, <3>2
      <4>2. ASSUME Live(h), NEW i \in 1..(n + 1) PROVE Append(parts, part)[i] \in {Garbage, items[h]}
        BY <2>2, <2>6, <2>8, <2>9, <2>10, <4>2
      <4> QED
        BY <2>3, <2>5, <2>9, <4>1, <4>2 DEF Live
    <3> QED
      BY <3>1, <3>2
  <2> QED
    BY <2>11, <2>12
<1>13. ASSUME NEW n \in Cells, Compute(t, n) PROVE ReadAt(t)' /\ OneAt(t)'
  <2>1. call'[t].got = call[t].got /\ call'[t].todo = call[t].todo /\ place'[t] = "register"
    BY <1>13 DEF Compute, GoesTo, TypeOK, CallStates
  <2> QED
    BY <1>7, <2>1
<1>14. ASSUME NEW p \in Payloads, Register(t, p) PROVE ReadAt(t)' /\ OneAt(t)'
  <2>1. /\ call'[t].got = call[t].got /\ call'[t].todo = call[t].todo
        /\ place'[t] \in {"finish", "register"}
    BY <1>14 DEF Register, GoesTo, TypeOK, CallStates
  <2> QED
    BY <1>7, <2>1
<1>15. CASE Refuse(t)
  <2>1. call' = call /\ place'[t] = "rollback"
    BY <1>15 DEF Refuse, GoesTo, TypeOK
  <2> QED
    BY <1>7, <2>1
<1>16. CASE Rollback(t)
  <2>1. call'[t].got = call[t].got /\ call'[t].todo = call[t].todo /\ place' = place
    BY <1>16 DEF Rollback, TypeOK, CallStates
  <2> QED
    BY <1>7, <2>1
<1> QED
  BY <1>8, <1>9, <1>10, <1>11, <1>12, <1>13, <1>14, <1>15, <1>16
     DEF HostNext, GetFails, CopyFails, Decline, RefuseAndKeep, RolledBack, Throw, Complete

------------------------------------------------------------------------------
(* Theorems.                                                                *)

(* An empty registry without calls has the invariant.                       *)
LEMMA InitEstablishes == NurbsInit => NurbsInv
<1> SUFFICES ASSUME NurbsInit PROVE NurbsInv
  OBVIOUS
<1>1. NoCall \in CallStates /\ NoCells \in [Cells -> Nat]
  BY DEF NoCall, NewCall, CallStates, NoCells
<1>2. TypeOK
  BY <1>1 DEF NurbsInit, TypeOK
<1>3. \A t \in Hosts : /\ call[t].at = 0 /\ call[t].undo = 0 /\ call[t].todo = <<>>
                       /\ call[t].got = <<>> /\ place[t] = "idle" /\ owned[t] = {}
  BY DEF NurbsInit, NoCall, NewCall
<1>4. \A t \in Hosts : InHand(t) = {} /\ Charge(t) = {}
  BY <1>3 DEF InHand, Charge
<1>5. \A t \in Hosts : Arrays(t) \subseteq {0} /\ Touched(t) \subseteq {0}
  BY <1>3 DEF NurbsInit, Arrays, Touched, NoCells
<1>6. CallInv
  BY <1>3 DEF CallInv, Progress, Places, Accessors
<1>7. IssuedInv
  BY <1>5 DEF IssuedInv, NurbsInit
<1>8. PrivateInv /\ GivenHandlesStayValid /\ LiveHandlesHaveOneOwner
  BY <1>3, <1>4 DEF PrivateInv, GivenHandlesStayValid, LiveHandlesHaveOneOwner, Charge, NurbsInit
<1>9. ReadInv /\ ReadBackIsOnePayload
  BY <1>3 DEF ReadInv, ReadBackIsOnePayload
<1> QED
  BY <1>2, <1>6, <1>7, <1>8, <1>9 DEF NurbsInv

(* So the invariant is inductive.                                           *)
LEMMA StepPreserves == NurbsInv /\ [NurbsNext]_nurbsVars => NurbsInv'
BY TypeStep, CallStep, IssuedStep, ChargeStep, ReadStep DEF NurbsInv

(* The registry and the calls on it keep their invariant, for any hosts,    *)
(* payloads and bounds: handles are issued once, and arrays are private.    *)
THEOREM NurbsInvariantTheorem == NurbsSpec => []NurbsInv
BY InitEstablishes, StepPreserves, PTL DEF NurbsSpec

(* Handles and payloads keep their types; 0 is never a live handle.         *)
THEOREM NurbsTypeTheorem == NurbsSpec => []TypeOK
<1>1. NurbsInv => TypeOK
  BY DEF NurbsInv
<1> QED
  BY <1>1, NurbsInvariantTheorem, PTL

(* No double release, stale release or rollback, by anyone, takes away a    *)
(* surface whose handle was returned to a host that has not released it.    *)
THEOREM GivenTheorem == NurbsSpec => []GivenHandlesStayValid
<1>1. NurbsInv => GivenHandlesStayValid
  BY DEF NurbsInv
<1> QED
  BY <1>1, NurbsInvariantTheorem, PTL

(* Every live surface is one host's, one call's, or among those that an     *)
(* exception or vertex_blend lost: a rollback leaves none behind.           *)
THEOREM OwnerTheorem == NurbsSpec => []LiveHandlesHaveOneOwner
<1>1. NurbsInv => LiveHandlesHaveOneOwner
  BY DEF NurbsInv
<1> QED
  BY <1>1, NurbsInvariantTheorem, PTL

(* The parts of a surface read by several accessors are of one payload,     *)
(* though the mutex is released between them.                               *)
THEOREM ReadBackTheorem == NurbsSpec => []ReadBackIsOnePayload
<1>1. NurbsInv => ReadBackIsOnePayload
  BY DEF NurbsInv
<1> QED
  BY <1>1, NurbsInvariantTheorem, PTL
====
