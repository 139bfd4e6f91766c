------------------------- MODULE ComputeBackendProofs -------------------------
(***************************************************************************)
(* Theorems about ComputeBackend, for any backends, hosts, number of       *)
(* threads and length of range: exact work runs on an exact backend, and   *)
(* the chunks and the loops that walk them visit every index once.         *)
(***************************************************************************)
EXTENDS ComputeBackend, TLAPS

USE ComputeAssumption

(* Arithmetic.                                                              *)

(* Products by one factor are ordered as what is multiplied.                *)
LEMMA Monotone ==
  ASSUME NEW a \in Nat, NEW b \in Nat, NEW c \in Nat, a <= b
  PROVE  a * c <= b * c
<1>1. PICK d \in Nat : b = a + d
  BY b - a \in Nat
<1>2. b * c = a * c + d * c
  BY <1>1
<1>3. d * c \in Nat
  OBVIOUS
<1> QED
  BY <1>2, <1>3

(* A quotient, rounded down.                                                *)
LEMMA DivBound ==
  ASSUME NEW m \in Nat, NEW k \in Nat \ {0}
  PROVE  /\ m \div k \in Nat
         /\ k * (m \div k) <= m /\ m < k * (m \div k) + k
OBVIOUS

(* Some threads, some length, and long enough together for the range.       *)
LEMMA ChunkFacts ==
  ASSUME NEW n \in Nat, n > 0
  PROVE  /\ WorkerCount(n) \in Nat \ {0} /\ WorkerCount(n) <= Threads /\ WorkerCount(n) <= n
         /\ Chunk(n) \in Nat \ {0}
         /\ n <= WorkerCount(n) * Chunk(n)
<1>1. WorkerCount(n) \in Nat \ {0} /\ WorkerCount(n) <= Threads /\ WorkerCount(n) <= n
  BY DEF WorkerCount, Least
<1>2. n + WorkerCount(n) - 1 \in Nat
  BY <1>1
<1>3. /\ Chunk(n) \in Nat
      /\ n + WorkerCount(n) - 1 < WorkerCount(n) * Chunk(n) + WorkerCount(n)
  BY <1>1, <1>2, DivBound DEF Chunk
<1>4. WorkerCount(n) * Chunk(n) \in Nat
  BY <1>1, <1>3
<1>5. n <= WorkerCount(n) * Chunk(n)
  BY <1>1, <1>3, <1>4
<1>6. Chunk(n) # 0
  BY <1>1, <1>5
<1> QED
  BY <1>1, <1>3, <1>5, <1>6

(* A chunk ends where a later one begins, or before.                        *)
LEMMA Disjoint ==
  ASSUME NEW n \in Nat, n > 0, NEW v \in Loops, NEW w \in Loops, v < w
  PROVE  BeginOf(v, n) + Chunk(n) <= BeginOf(w, n)
<1>1. v \in Nat /\ w \in Nat /\ v + 1 \in Nat /\ Chunk(n) \in Nat /\ v + 1 <= w
  BY ChunkFacts DEF Loops
<1>2. (v + 1) * Chunk(n) <= w * Chunk(n)
  BY <1>1, Monotone
<1>3. (v + 1) * Chunk(n) = v * Chunk(n) + Chunk(n)
  BY <1>1
<1> QED
  BY <1>2, <1>3 DEF BeginOf

(* The chunks up to the one that the loop breaks at cover the range.        *)
LEMMA Cover ==
  ASSUME NEW n \in Nat, n > 0, NEW k \in Nat, k <= WorkerCount(n),
         k < WorkerCount(n) => BeginOf(k, n) >= n, NEW i \in 0..(n - 1)
  PROVE  \E w \in Loops : w < k /\ BeginOf(w, n) <= i /\ i < EndOf(w, n)
<1> DEFINE c == Chunk(n)
           w == i \div c
<1>1. c \in Nat \ {0} /\ n <= WorkerCount(n) * c /\ WorkerCount(n) \in Nat /\ WorkerCount(n) <= Threads
  BY ChunkFacts
<1> HIDE DEF c
<1>2. n <= k * c
  BY <1>1 DEF BeginOf, c
<1>3. w \in Nat /\ c * w <= i /\ i < c * w + c
  BY <1>1, DivBound
<1> HIDE DEF w
<1>4. w < k
  <2> SUFFICES ASSUME k <= w PROVE FALSE
    BY <1>3
  <2>1. k * c <= w * c
    BY <1>1, <1>3, Monotone
  <2>2. w * c = c * w
    BY <1>1, <1>3
  <2> QED
    BY <1>1, <1>2, <1>3, <2>1, <2>2
<1>5. w * c = c * w
  BY <1>1, <1>3
<1>6. w \in Loops
  BY <1>1, <1>3, <1>4 DEF Loops
<1>7. BeginOf(w, n) <= i /\ i < EndOf(w, n)
  BY <1>1, <1>3, <1>5 DEF BeginOf, EndOf, Least, c
<1> QED
  BY <1>4, <1>6, <1>7
(* A chunk begins and ends at an index, or at the count.                    *)
LEMMA ChunkTypes ==
  ASSUME NEW n \in Nat, n > 0, NEW w \in Loops
  PROVE  BeginOf(w, n) \in Nat /\ EndOf(w, n) \in Nat /\ EndOf(w, n) <= n
<1>1. w \in Nat /\ Chunk(n) \in Nat
  BY ChunkFacts DEF Loops
<1> QED
  BY <1>1 DEF BeginOf, EndOf, Least

(* An index of one chunk is in no other.                                    *)
LEMMA OneOwner ==
  ASSUME NEW n \in Nat, n > 0, NEW v \in Loops, NEW w \in Loops, NEW i \in Nat,
         BeginOf(v, n) <= i, i < EndOf(v, n), BeginOf(w, n) <= i, i < EndOf(w, n)
  PROVE  v = w
<1>1. v \in Nat /\ w \in Nat /\ Chunk(n) \in Nat
  BY ChunkFacts DEF Loops
<1>2. BeginOf(v, n) \in Nat /\ BeginOf(w, n) \in Nat
  BY <1>1 DEF BeginOf
<1>3. i < BeginOf(v, n) + Chunk(n) /\ i < BeginOf(w, n) + Chunk(n)
  BY <1>1, <1>2 DEF EndOf, Least
<1>4. ~(v < w) /\ ~(w < v)
  BY <1>1, <1>2, <1>3, Disjoint
<1> QED
  BY <1>1, <1>4

(* Nothing registered, nothing running.                                     *)
LEMMA ComputeInitially == Init => ComputeInv
<1> SUFFICES ASSUME Init PROVE ComputeInv
  OBVIOUS
<1>1. TypeOK
  BY DEF Init, TypeOK, Names, Jobs, NoJob, Ended, Loops, Indices
<1>2. ExactWorkStaysExact
  BY DEF Init, ExactWorkStaysExact
<1>3. LoopInv
  BY DEF Init, LoopInv, HostInv, SerialInv, Marks, NoJob, Loops, Indices
<1> QED
  BY <1>1, <1>2, <1>3 DEF ComputeInv

(* The chunk that the next thread is to walk.                               *)
LEMMA NextChunk ==
  ASSUME TypeOK, LoopInv, NEW h \in Hosts, pc[h] = "spawn", MoreToSpawn(h)
  PROVE  /\ spawned[h] \in Loops /\ spawned[h] + 1 \in 0..Threads
         /\ spawned[h] + 1 <= WorkerCount(job[h].count)
         /\ job[h].count \in Nat \ {0} /\ job[h].count <= MaxCount
         /\ BeginOf(spawned[h], job[h].count) \in 0..MaxCount
         /\ BeginOf(spawned[h], job[h].count) < EndOf(spawned[h], job[h].count)
<1>1. job[h].count \in 0..MaxCount /\ spawned[h] \in 0..Threads
  BY DEF TypeOK, Jobs
<1>2. job[h].count > 0
  BY DEF LoopInv, HostInv, PoolInv
<1>3. /\ WorkerCount(job[h].count) \in Nat \ {0} /\ WorkerCount(job[h].count) <= Threads
      /\ Chunk(job[h].count) \in Nat \ {0}
  BY <1>1, <1>2, ChunkFacts
<1>4. spawned[h] < WorkerCount(job[h].count) /\ BeginOf(spawned[h], job[h].count) < job[h].count
  BY DEF MoreToSpawn
<1>5. BeginOf(spawned[h], job[h].count) \in Nat
  BY <1>1, <1>3 DEF BeginOf
<1> QED
  BY <1>1, <1>2, <1>3, <1>4, <1>5 DEF Loops, EndOf, Least

(* One visit, one step of a loop.                                           *)
LEMMA VisitLemma ==
  ASSUME visits \in [Hosts -> [Indices -> Nat]], NEW h \in Hosts, NEW i \in Indices,
         Visit(h, i)
  PROVE  /\ visits' \in [Hosts -> [Indices -> Nat]]
         /\ visits'[h][i] = visits[h][i] + 1
         /\ \A g \in Hosts, j \in Indices : (g # h \/ j # i) => visits'[g][j] = visits[g][j]
<1>1. [visits[h] EXCEPT ![i] = @ + 1] \in [Indices -> Nat]
  OBVIOUS
<1>2. visits' = [visits EXCEPT ![h] = [visits[h] EXCEPT ![i] = @ + 1]]
  BY DEF Visit
<1> QED
  BY <1>1, <1>2

(* One loop goes to an index.                                               *)
LEMMA LoopLemma ==
  ASSUME at \in [Hosts -> [Loops -> 0..MaxCount]], NEW h \in Hosts, NEW w \in Loops,
         NEW p \in 0..MaxCount, at' = [at EXCEPT ![h][w] = p]
  PROVE  /\ at' \in [Hosts -> [Loops -> 0..MaxCount]]
         /\ at'[h][w] = p
         /\ \A g \in Hosts, v \in Loops : (g # h \/ v # w) => at'[g][v] = at[g][v]
<1>1. [at[h] EXCEPT ![w] = p] \in [Loops -> 0..MaxCount]
  OBVIOUS
<1>2. at' = [at EXCEPT ![h] = [at[h] EXCEPT ![w] = p]]
  OBVIOUS
<1> QED
  BY <1>1, <1>2

(* Types stay.                                                              *)
LEMMA TypeStep ==
  ASSUME ComputeInv, [Next]_vars
  PROVE  TypeOK'
<1> USE DEF ComputeInv, TypeOK, Jobs, Loops, Indices, Ended, regVars, runVars
<1>1. CASE UNCHANGED vars
  BY <1>1 DEF vars
<1>2. ASSUME NEW b \in Backends, Register(b) PROVE TypeOK'
  BY <1>2 DEF Register, Names
<1>3. ASSUME NEW n \in Names, SetActive(n) PROVE TypeOK'
  BY <1>3 DEF SetActive
<1>4. ASSUME NEW h \in Hosts, NEW prec \in {"fp32", "fp64"}, NEW n \in 0..MaxCount,
             NEW bad \in SUBSET (0..(n - 1)), Dispatch(h, prec, n, bad)
      PROVE  TypeOK'
  <2>1. bad \subseteq 0..(MaxCount - 1)
    OBVIOUS
  <2>2. BackendFor(prec) \in Backends
    BY DEF BackendFor
  <2> QED
    <3>1. [prec |-> prec, count |-> n, bad |-> bad] \in Jobs
      BY <2>1
    <3>2. job' \in [Hosts -> Jobs]
      BY <1>4, <3>1 DEF Dispatch
    <3>3. at' \in [Hosts -> [Loops -> 0..MaxCount]]
      BY <1>4 DEF Dispatch
    <3>4. visits' \in [Hosts -> [Indices -> Nat]]
      BY <1>4 DEF Dispatch
    <3> QED
      BY <1>4, <2>2, <3>2, <3>3, <3>4, SMTT(20) DEF Dispatch
<1>5. ASSUME NEW h \in Hosts, Start(h) PROVE TypeOK'
  BY <1>5 DEF Start
<1>6. ASSUME NEW h \in Hosts, SerialStep(h) PROVE TypeOK'
  <2>1. at[h][0] \in Nat /\ at[h][0] <= job[h].count /\ job[h].count \in 0..MaxCount
    BY <1>6 DEF SerialStep, LoopInv, HostInv, SerialInv
  <2>2. CASE at[h][0] = job[h].count
    BY <1>6, <2>2 DEF SerialStep
  <2>3. CASE at[h][0] # job[h].count
    <3>1. at[h][0] \in Indices /\ at[h][0] + 1 \in 0..MaxCount /\ 0 \in Loops
      BY <2>1, <2>3
    <3>2. visits' \in [Hosts -> [Indices -> Nat]]
      BY <1>6, <2>3, <3>1, VisitLemma DEF SerialStep
    <3>3. at' \in [Hosts -> [Loops -> 0..MaxCount]]
      BY <1>6, <2>3, <3>1, LoopLemma DEF SerialStep
    <3> QED
      BY <1>6, <2>3, <3>2, <3>3 DEF SerialStep
  <2> QED
    BY <2>2, <2>3
<1>7. ASSUME NEW h \in Hosts, Spawn(h) PROVE TypeOK'
  <2>1. CASE MoreToSpawn(h)
    <3> DEFINE b == BeginOf(spawned[h], job[h].count)
    <3>1. spawned[h] \in Loops /\ spawned[h] + 1 \in 0..Threads /\ b \in 0..MaxCount
      <4> USE <2>1
      <4>1. pc[h] = "spawn"
        BY <1>7 DEF Spawn
      <4> HIDE DEF TypeOK
      <4> QED
        BY <4>1, NextChunk
    <3>2. at' = [at EXCEPT ![h][spawned[h]] = b]
      BY <1>7, <2>1 DEF Spawn
    <3> HIDE DEF b
    <3>3. at' \in [Hosts -> [Loops -> 0..MaxCount]]
      BY <3>1, <3>2, LoopLemma
    <3>4. spawned' \in [Hosts -> 0..Threads]
      BY <1>7, <2>1, <3>1 DEF Spawn
    <3>5. UNCHANGED <<backends, active, pc, job, back, visits, aborted>>
      BY <1>7, <2>1 DEF Spawn
    <3> QED
      BY <3>3, <3>4, <3>5
  <2> QED
    BY <1>7, <2>1 DEF Spawn
<1>8. ASSUME NEW h \in Hosts, SpawnFails(h) PROVE TypeOK'
  BY <1>8 DEF SpawnFails
<1>9. ASSUME NEW h \in Hosts, NEW w \in Loops, WorkerStep(h, w) PROVE TypeOK'
  <2>1. job[h].count \in Nat /\ job[h].count > 0 /\ job[h].count <= MaxCount
    BY <1>9 DEF WorkerStep, Unfinished, LoopInv, HostInv, PoolInv
  <2> DEFINE n == job[h].count
  <2>2. EndOf(w, n) \in Nat /\ EndOf(w, n) <= MaxCount
    <3>1. n \in Nat /\ n > 0 /\ n <= MaxCount
      BY <2>1
    <3> HIDE DEF n, Loops, TypeOK
    <3>2. EndOf(w, n) \in Nat /\ EndOf(w, n) <= n
      BY <3>1, ChunkTypes
    <3> QED
      BY <3>1, <3>2
  <2>3. at[h][w] \in Indices /\ at[h][w] + 1 \in 0..MaxCount
    <3>1. at[h][w] \in 0..MaxCount /\ at[h][w] < EndOf(w, n)
      BY <1>9 DEF WorkerStep, Unfinished
    <3> QED
      BY <2>2, <3>1, SMTT(20)
  <2>4. visits' \in [Hosts -> [Indices -> Nat]]
    BY <1>9, <2>3, VisitLemma DEF WorkerStep
  <2>5. at' = [at EXCEPT ![h][w] = at[h][w] + 1]
    BY <1>9 DEF WorkerStep
  <2>6. at' \in [Hosts -> [Loops -> 0..MaxCount]]
    BY <2>3, <2>5, LoopLemma
  <2> QED
    BY <1>9, <2>4, <2>6 DEF WorkerStep
<1>10. ASSUME NEW h \in Hosts, Join(h) PROVE TypeOK'
  BY <1>10 DEF Join
<1> QED
  BY <1>1, <1>2, <1>3, <1>4, <1>5, <1>6, <1>7, <1>8, <1>9, <1>10
  DEF Next, JobStep, Terminated

(* Exact work stays on an exact backend.                                    *)
LEMMA ExactStep ==
  ASSUME ComputeInv, [Next]_vars
  PROVE  ExactWorkStaysExact'
<1> USE DEF ComputeInv, ExactWorkStaysExact, TypeOK
<1>1. CASE \E h \in Hosts, prec \in {"fp32", "fp64"}, n \in 0..MaxCount :
             \E bad \in SUBSET (0..(n - 1)) : Dispatch(h, prec, n, bad)
  <2>1. PICK h \in Hosts, prec \in {"fp32", "fp64"}, n \in 0..MaxCount :
          \E bad \in SUBSET (0..(n - 1)) : Dispatch(h, prec, n, bad)
    BY <1>1
  <2>2. PICK bad \in SUBSET (0..(n - 1)) : Dispatch(h, prec, n, bad)
    BY <2>1
  <2>3. prec = "fp64" => BackendFor(prec) \in Exact
    BY DEF BackendFor
  <2> QED
    BY <2>2, <2>3 DEF Dispatch
<1>2. CASE UNCHANGED <<job, back>> /\ \A h \in Hosts : pc'[h] # "idle" => pc[h] # "idle"
  BY <1>2
<1> QED
  BY <1>1, <1>2 DEF Next, JobStep, Register, SetActive, Start, SerialStep, Spawn, SpawnFails,
     WorkerStep, Join, Terminated, vars, regVars, runVars

(* A host of whose job nothing changes.                                     *)
LEMMA HostFrame ==
  ASSUME NEW h \in Hosts, HostInv(h), pc'[h] = pc[h], job'[h] = job[h], at'[h] = at[h],
         spawned'[h] = spawned[h], visits'[h] = visits[h]
  PROVE  HostInv(h)'
BY DEF HostInv, SerialInv, PoolInv, ThrewInv, Marks, Behind, MoreToSpawn

(* A job begins as the serial loop or as the pool.                          *)
LEMMA StartStep ==
  ASSUME TypeOK, NEW h \in Hosts, HostInv(h), Start(h)
  PROVE  HostInv(h)'
<1>1. /\ UNCHANGED <<job, at, spawned, visits>>
      /\ pc[h] = "start"
      /\ pc'[h] \in {"returned", "spawn", "serial"}
      /\ pc'[h] = "returned" => job[h].count = 0
      /\ pc'[h] = "spawn" => job[h].count # 0
  BY DEF Start, TypeOK, Pooled, runVars
<1>2. SerialInv(h) /\ at[h][0] = 0 /\ job[h].count \in Nat
  BY <1>1 DEF HostInv, TypeOK, Jobs
<1>3. \A i \in Indices : Marks(h, i, FALSE)
  BY <1>2 DEF SerialInv, Marks, Indices
<1>4. CASE pc'[h] = "returned"
  <2>1. \A i \in Indices : Marks(h, i, i < job[h].count)
    BY <1>1, <1>3, <1>4 DEF Marks, Indices
  <2> QED
    BY <1>1, <1>4, <2>1 DEF HostInv, Marks
<1>5. CASE pc'[h] = "spawn"
  <2>1. WorkerCount(job[h].count) \in Nat
    BY <1>1, <1>2, <1>5, ChunkFacts
  <2>2. PoolInv(h)
    BY <1>1, <1>2, <1>3, <1>5, <2>1 DEF PoolInv, SerialInv, Marks, Behind, Loops
  <2>3. PoolInv(h)'
    BY <1>1, <2>2 DEF PoolInv, Marks, Behind
  <2> QED
    BY <1>1, <1>5, <2>3 DEF HostInv
<1>6. CASE pc'[h] = "serial"
  BY <1>1, <1>2, <1>6 DEF HostInv, SerialInv, Marks
<1> QED
  BY <1>1, <1>4, <1>5, <1>6

(* The serial loop visits its next index, throws or ends.                   *)
LEMMA SerialLemma ==
  ASSUME TypeOK, TypeOK', NEW h \in Hosts, HostInv(h), SerialStep(h)
  PROVE  HostInv(h)'
<1>1. /\ pc[h] = "serial" /\ UNCHANGED <<job, spawned>>
      /\ job[h].count \in 0..MaxCount /\ job[h].bad \subseteq 0..(job[h].count - 1)
      /\ at[h][0] \in Nat /\ SerialInv(h) /\ 0 \in Loops
  <2>1. pc[h] = "serial" /\ UNCHANGED <<job, spawned>>
    BY DEF SerialStep, runVars
  <2>2. job[h].count \in 0..MaxCount /\ 0 \in Loops /\ at[h][0] \in Nat
    BY DEF TypeOK, Jobs, Loops
  <2> QED
    BY <2>1, <2>2 DEF HostInv
<1>2. CASE at[h][0] = job[h].count
  <2>1. pc'[h] = "returned" /\ UNCHANGED visits
    BY <1>2 DEF SerialStep, TypeOK, runVars
  <2> QED
    BY <1>1, <1>2, <2>1 DEF HostInv, SerialInv, Marks
<1>3. CASE at[h][0] # job[h].count
  <2> DEFINE i == at[h][0]
  <2>1. /\ i \in Indices /\ i + 1 \in 0..MaxCount /\ i < job[h].count
        /\ Visit(h, i) /\ at' = [at EXCEPT ![h][0] = i + 1]
        /\ pc'[h] = IF i \in job[h].bad THEN "threw" ELSE "serial"
    BY <1>1, <1>3, SMTT(20) DEF SerialStep, SerialInv, Indices, TypeOK
  <2>2. at'[h][0] = i + 1
    BY <1>1, <2>1, LoopLemma DEF TypeOK
  <2>3. /\ visits'[h][i] = visits[h][i] + 1
        /\ \A j \in Indices : j # i => visits'[h][j] = visits[h][j]
    BY <2>1, VisitLemma DEF TypeOK
  <2>4. \A j \in Indices : visits'[h][j] = IF j < i + 1 THEN 1 ELSE 0
    BY <1>1, <2>1, <2>3 DEF SerialInv, Marks, Indices
  <2>5. CASE i \in job[h].bad
    <3>1. \A j \in Indices : j < i => j \notin job[h].bad
      BY <1>1 DEF SerialInv
    <3>2. \A j \in Indices : visits'[h][j] = IF j <= i THEN 1 ELSE 0
      BY <2>1, <2>4 DEF Indices
    <3> HIDE DEF i
    <3>3. ThrewInv(h)'
      BY <1>1, <2>5, <3>1, <3>2 DEF ThrewInv, Marks
    <3> QED
      BY <1>1, <2>1, <2>5, <3>3 DEF HostInv
  <2>6. CASE i \notin job[h].bad
    <3>1. SerialInv(h)'
      BY <1>1, <2>1, <2>2, <2>4, <2>6 DEF SerialInv, Marks, Indices
    <3> QED
      BY <1>1, <2>1, <2>6, <3>1 DEF HostInv
  <2> QED
    BY <2>5, <2>6
<1> QED
  BY <1>2, <1>3

(* A new job has visited nothing.                                           *)
LEMMA DispatchLemma ==
  ASSUME TypeOK, NEW h \in Hosts, NEW prec \in {"fp32", "fp64"}, NEW n \in 0..MaxCount,
         NEW bad \in SUBSET (0..(n - 1)), Dispatch(h, prec, n, bad)
  PROVE  HostInv(h)'
<1>1. /\ pc'[h] = "start" /\ job'[h].count = n /\ job'[h].bad = bad
      /\ at'[h] = [w \in Loops |-> 0] /\ spawned'[h] = 0
      /\ visits'[h] = [i \in Indices |-> 0]
  BY DEF Dispatch, TypeOK
<1>2. at'[h][0] = 0
  BY <1>1 DEF Loops
<1>3. SerialInv(h)'
  BY <1>1, <1>2 DEF SerialInv, Marks, Indices
<1> QED
  BY <1>1, <1>2, <1>3 DEF HostInv

(* One more thread, with its own chunk.                                     *)
LEMMA SpawnLemma ==
  ASSUME TypeOK, LoopInv, NEW h \in Hosts, Spawn(h)
  PROVE  HostInv(h)'
<1> DEFINE n == job[h].count
           k == spawned[h]
<1>1. /\ pc[h] = "spawn" /\ UNCHANGED <<job, visits>> /\ PoolInv(h)
      /\ n \in Nat /\ n > 0 /\ k \in Nat
      /\ job[h].bad \subseteq 0..(n - 1)
  BY DEF Spawn, LoopInv, HostInv, TypeOK, Jobs, PoolInv
<1>2. CASE MoreToSpawn(h)
  <2>1. /\ k \in Loops /\ k + 1 <= WorkerCount(n) /\ BeginOf(k, n) \in 0..MaxCount
        /\ BeginOf(k, n) <= EndOf(k, n) /\ BeginOf(k, n) < n
    <3>1. /\ k \in Loops /\ k + 1 <= WorkerCount(n) /\ BeginOf(k, n) \in 0..MaxCount
          /\ BeginOf(k, n) < EndOf(k, n)
      BY <1>1, <1>2, NextChunk
    <3>2. EndOf(k, n) \in Nat
      BY <1>1, <3>1, ChunkTypes
    <3> QED
      BY <1>2, <3>1, <3>2 DEF MoreToSpawn
  <2>2. /\ pc'[h] = "spawn" /\ spawned'[h] = k + 1
        /\ at' = [at EXCEPT ![h][k] = BeginOf(k, n)]
    BY <1>1, <1>2 DEF Spawn, TypeOK
  <2>3. /\ at'[h][k] = BeginOf(k, n)
        /\ \A v \in Loops : v # k => at'[h][v] = at[h][v]
    BY <2>1, <2>2, LoopLemma DEF TypeOK
  <2>4. \A w \in Loops : w < k + 1 =>
          BeginOf(w, n) < n /\ BeginOf(w, n) <= at'[h][w] /\ at'[h][w] <= EndOf(w, n)
    <3> SUFFICES ASSUME NEW w \in Loops, w < k + 1
                 PROVE  BeginOf(w, n) < n /\ BeginOf(w, n) <= at'[h][w] /\ at'[h][w] <= EndOf(w, n)
      OBVIOUS
    <3>1. CASE w = k
      <4>1. BeginOf(k, n) <= BeginOf(k, n)
        BY <2>1
      <4> QED
        BY <2>1, <2>3, <3>1, <4>1
    <3>2. CASE w < k
      BY <1>1, <2>3, <3>2 DEF PoolInv
    <3> QED
      BY <1>1, <3>1, <3>2 DEF Loops
  <2>5. \A i \in Indices : Behind(h, i)' <=> Behind(h, i)
    <3> SUFFICES ASSUME NEW i \in Indices PROVE Behind(h, i)' <=> Behind(h, i)
      OBVIOUS
    <3> HIDE DEF k
    <3>1. ASSUME NEW w \in Loops
          PROVE  (w < k + 1 /\ BeginOf(w, n) <= i /\ i < at'[h][w])
                   <=> (w < k /\ BeginOf(w, n) <= i /\ i < at[h][w])
      <4>1. CASE w = k
        BY <1>1, <2>1, <2>3, <4>1 DEF Indices
      <4>2. CASE w # k
        BY <1>1, <2>3, <4>2 DEF Loops
      <4> QED
        BY <4>1, <4>2
    <3> QED
      BY <1>1, <2>2, <3>1 DEF Behind, k
  <2>6. PoolInv(h)'
    BY <1>1, <2>1, <2>2, <2>4, <2>5 DEF PoolInv, Marks
  <2> QED
    BY <1>1, <2>2, <2>6 DEF HostInv
<1>3. CASE ~MoreToSpawn(h)
  <2>1. pc'[h] = "join" /\ UNCHANGED <<at, spawned>>
    BY <1>3 DEF Spawn, TypeOK
  <2> QED
    BY <1>1, <1>3, <2>1 DEF HostInv, PoolInv, MoreToSpawn, Marks, Behind
<1> QED
  BY <1>2, <1>3

(* A thread that cannot be started.                                         *)
LEMMA SpawnFailsLemma ==
  ASSUME TypeOK, NEW h \in Hosts, HostInv(h), SpawnFails(h)
  PROVE  HostInv(h)'
<1>1. /\ pc[h] = "spawn" /\ UNCHANGED <<job, at, spawned, visits>> /\ PoolInv(h)
      /\ pc'[h] = IF spawned[h] = 0 THEN "threw" ELSE "spawn"
  BY DEF SpawnFails, HostInv, TypeOK, runVars
<1>2. CASE spawned[h] = 0
  <2>1. \A i \in Indices : Marks(h, i, FALSE)
    BY <1>1, <1>2 DEF PoolInv, Marks, Behind, Loops
  <2>2. ThrewInv(h)'
    BY <1>1, <2>1 DEF ThrewInv, Marks, Indices
  <2> QED
    BY <1>1, <1>2, <2>2 DEF HostInv
<1>3. CASE spawned[h] # 0
  BY <1>1, <1>3 DEF HostInv, PoolInv, Marks, Behind
<1> QED
  BY <1>2, <1>3

(* The index that a loop visits is in its chunk, and so in no other's.      *)
LEMMA WorkerLemma ==
  ASSUME TypeOK, NEW h \in Hosts, HostInv(h), NEW w \in Loops, WorkerStep(h, w)
  PROVE  HostInv(h)'
<1> DEFINE n == job[h].count
           i == at[h][w]
<1>1. /\ pc[h] \in {"spawn", "join"} /\ UNCHANGED <<pc, job, spawned>> /\ PoolInv(h)
      /\ n \in Nat /\ n > 0 /\ n <= MaxCount /\ w < spawned[h] /\ i < EndOf(w, n)
      /\ i \in Nat /\ BeginOf(w, n) <= i /\ BeginOf(w, n) < n
      /\ Visit(h, i) /\ at' = [at EXCEPT ![h][w] = i + 1]
  BY DEF WorkerStep, Unfinished, HostInv, TypeOK, Jobs, PoolInv
<1>2. \A v \in Loops : BeginOf(v, n) \in Nat /\ EndOf(v, n) \in Nat /\ EndOf(v, n) <= n
  BY <1>1, ChunkTypes
<1>3. i \in Indices /\ i + 1 \in 0..MaxCount
  BY <1>1, <1>2 DEF Indices
<1>4. /\ at'[h][w] = i + 1
      /\ \A v \in Loops : v # w => at'[h][v] = at[h][v]
  BY <1>1, <1>3, LoopLemma DEF TypeOK
<1>5. /\ visits'[h][i] = visits[h][i] + 1
      /\ \A j \in Indices : j # i => visits'[h][j] = visits[h][j]
  BY <1>1, <1>3, VisitLemma DEF TypeOK
<1>6. ~Behind(h, i)
  <2> SUFFICES ASSUME NEW v \in Loops, v < spawned[h], BeginOf(v, n) <= i, i < at[h][v]
               PROVE  FALSE
    BY DEF Behind
  <2>1. i < EndOf(v, n)
    BY <1>1, <1>2 DEF PoolInv, TypeOK
  <2>2. v = w
    BY <1>1, <2>1, OneOwner
  <2> QED
    BY <1>1, <2>2
<1>7. \A j \in Indices : Behind(h, j)' <=> (Behind(h, j) \/ j = i)
  <2> SUFFICES ASSUME NEW j \in Indices PROVE Behind(h, j)' <=> (Behind(h, j) \/ j = i)
    OBVIOUS
  <2>1. j < i + 1 <=> (j < i \/ j = i)
    BY <1>1 DEF Indices
  <2> QED
    BY <1>1, <1>4, <2>1 DEF Behind
<1>8. \A v \in Loops : v < spawned[h] =>
        BeginOf(v, n) < n /\ BeginOf(v, n) <= at'[h][v] /\ at'[h][v] <= EndOf(v, n)
  BY <1>1, <1>2, <1>4 DEF PoolInv
<1>9. PoolInv(h)'
  BY <1>1, <1>3, <1>5, <1>6, <1>7, <1>8 DEF PoolInv, Marks
<1> QED
  BY <1>1, <1>9 DEF HostInv, MoreToSpawn

(* All the chunks that were made are walked, and they cover the range.      *)
LEMMA JoinLemma ==
  ASSUME TypeOK, NEW h \in Hosts, HostInv(h), Join(h)
  PROVE  HostInv(h)'
<1> DEFINE n == job[h].count
<1>1. /\ pc[h] = "join" /\ pc'[h] = "returned" /\ UNCHANGED <<job, at, spawned, visits>>
      /\ AllJoined(h) /\ PoolInv(h) /\ ~MoreToSpawn(h)
      /\ n \in Nat /\ n > 0 /\ spawned[h] \in Nat
  BY DEF Join, HostInv, TypeOK, Jobs, PoolInv, runVars
<1>2. \A w \in Loops : BeginOf(w, n) \in Nat /\ EndOf(w, n) \in Nat /\ EndOf(w, n) <= n
  BY <1>1, ChunkTypes
<1>3. \A w \in Loops : w < spawned[h] => at[h][w] = EndOf(w, n)
  <2> SUFFICES ASSUME NEW w \in Loops, w < spawned[h] PROVE at[h][w] = EndOf(w, n)
    OBVIOUS
  <2>1. at[h][w] <= EndOf(w, n) /\ ~(at[h][w] < EndOf(w, n))
    BY <1>1 DEF AllJoined, Unfinished, PoolInv
  <2>2. at[h][w] \in Nat
    BY DEF TypeOK
  <2> QED
    BY <1>2, <2>1, <2>2
<1>4. \A i \in Indices : Behind(h, i) <=> i < n
  <2> TAKE i \in Indices
  <2>1. ASSUME Behind(h, i) PROVE i < n
    <3>1. PICK w \in Loops : i < EndOf(w, n)
      BY <1>3, <2>1 DEF Behind
    <3>2. EndOf(w, n) \in Nat /\ EndOf(w, n) <= n
      BY <1>2
    <3> QED
      BY <1>1, <3>1, <3>2 DEF Indices
  <2>2. ASSUME i < n PROVE Behind(h, i)
    <3>1. i \in 0..(n - 1)
      BY <1>1, <2>2 DEF Indices
    <3>2. spawned[h] < WorkerCount(n) => BeginOf(spawned[h], n) >= n
      <4>1. CASE spawned[h] < WorkerCount(n)
        <5>1. spawned[h] \in Loops
          BY <1>1, <4>1, ChunkFacts DEF Loops
        <5> QED
          BY <1>1, <1>2, <4>1, <5>1 DEF MoreToSpawn
      <4> QED
        BY <4>1
    <3>3. PICK w \in Loops : w < spawned[h] /\ BeginOf(w, n) <= i /\ i < EndOf(w, n)
      BY <1>1, <3>1, <3>2, Cover DEF PoolInv
    <3> QED
      BY <1>3, <3>3 DEF Behind
  <2> QED
    BY <2>1, <2>2
<1>5. \A i \in Indices : Marks(h, i, i < n)
  BY <1>1, <1>4 DEF PoolInv, Marks
<1> QED
  BY <1>1, <1>5 DEF HostInv, Marks

(* A step of h leaves the jobs of the others alone.                         *)
LEMMA OthersFrame ==
  ASSUME TypeOK, LoopInv, NEW h \in Hosts,
         \/ \E prec \in {"fp32", "fp64"}, n \in 0..MaxCount :
              \E bad \in SUBSET (0..(n - 1)) : Dispatch(h, prec, n, bad)
         \/ JobStep(h) \/ SpawnFails(h)
  PROVE  \A g \in Hosts \ {h} : HostInv(g)'
<1> SUFFICES ASSUME NEW g \in Hosts \ {h} PROVE HostInv(g)'
  OBVIOUS
<1>1. /\ pc'[g] = pc[g] /\ job'[g] = job[g] /\ at'[g] = at[g]
      /\ spawned'[g] = spawned[g] /\ visits'[g] = visits[g]
  BY DEF Dispatch, JobStep, Start, SerialStep, Spawn, SpawnFails, WorkerStep, Join, Visit,
     TypeOK, runVars
<1> QED
  BY <1>1, HostFrame DEF LoopInv

(* Every step keeps what is known of every loop.                            *)
LEMMA LoopStep ==
  ASSUME ComputeInv, TypeOK', [Next]_vars
  PROVE  LoopInv'
<1>1. TypeOK /\ LoopInv
  BY DEF ComputeInv
<1>2. CASE UNCHANGED <<pc, job, at, spawned, visits>>
  BY <1>1, <1>2, HostFrame DEF LoopInv
<1>3. ASSUME NEW h \in Hosts,
             \/ \E prec \in {"fp32", "fp64"}, n \in 0..MaxCount :
                  \E bad \in SUBSET (0..(n - 1)) : Dispatch(h, prec, n, bad)
             \/ JobStep(h) \/ SpawnFails(h)
      PROVE  LoopInv'
  <2>1. \A g \in Hosts \ {h} : HostInv(g)'
    BY <1>1, <1>3, OthersFrame
  <2>2. HostInv(h)
    BY <1>1 DEF LoopInv
  <2>3. HostInv(h)'
    BY <1>1, <1>3, <2>2, DispatchLemma, StartStep, SerialLemma, SpawnLemma, SpawnFailsLemma,
       WorkerLemma, JoinLemma DEF JobStep
  <2> QED
    BY <2>1, <2>3 DEF LoopInv
<1> QED
  BY <1>2, <1>3 DEF Next, Register, SetActive, Terminated, vars, runVars

(* So the invariant is inductive.                                           *)
LEMMA ComputeStep == ComputeInv /\ [Next]_vars => ComputeInv'
BY TypeStep, ExactStep, LoopStep DEF ComputeInv

(* Types, precision and loops together are an invariant.                    *)
THEOREM ComputeInvariantTheorem == SafeSpec => []ComputeInv
<1> QED
  BY ComputeInitially, ComputeStep, PTL DEF SafeSpec

(* The state keeps its types: no loop runs past the end of the range.       *)
THEOREM ComputeTypeTheorem == SafeSpec => []TypeOK
<1>1. ComputeInv => TypeOK
  BY DEF ComputeInv
<1> QED
  BY ComputeInvariantTheorem, <1>1, PTL

(* Exact work runs on an exact backend, whatever is registered or made      *)
(* active between the choice and the run.                                   *)
THEOREM ExactTheorem == SafeSpec => []ExactWorkStaysExact
<1>1. ComputeInv => ExactWorkStaysExact
  BY DEF ComputeInv
<1> QED
  BY ComputeInvariantTheorem, <1>1, PTL

(* Every index is visited once, for every number of threads and length of   *)
(* range, and every interleaving of the loops.                              *)
THEOREM EachIndexTheorem == SafeSpec => []EachIndexOnce
<1>1. ComputeInv => EachIndexOnce
  <2> SUFFICES ASSUME ComputeInv, NEW h \in Hosts PROVE VisitsOnce(h)
    BY DEF EachIndexOnce
  <2>1. /\ TypeOK /\ HostInv(h)
        /\ job[h].count \in Nat /\ job[h].count <= MaxCount
        /\ job[h].bad \subseteq 0..(job[h].count - 1)
    <3>1. TypeOK /\ HostInv(h)
      BY DEF ComputeInv, LoopInv
    <3>2. job[h].count \in Nat /\ job[h].count <= MaxCount
      BY <3>1 DEF TypeOK, Jobs
    <3> QED
      BY <3>1, <3>2 DEF HostInv
  <2>2. CASE pc[h] \in {"idle", "start", "serial"}
    <3>1. at[h][0] \in Nat
      BY <2>1 DEF TypeOK, Loops
    <3> QED
      BY <2>1, <2>2, <3>1 DEF HostInv, SerialInv, Marks, Indices, VisitsOnce
  <2>3. CASE pc[h] \in {"spawn", "join"}
    <3>1. \A i \in Indices : Behind(h, i) => i < job[h].count
      <4> SUFFICES ASSUME NEW i \in Indices, NEW w \in Loops, w < spawned[h], i < at[h][w]
                   PROVE  i < job[h].count
        BY DEF Behind
      <4>1. at[h][w] <= EndOf(w, job[h].count) /\ job[h].count > 0
        BY <2>1, <2>3 DEF HostInv, PoolInv
      <4>2. EndOf(w, job[h].count) \in Nat /\ EndOf(w, job[h].count) <= job[h].count
        BY <2>1, <4>1, ChunkTypes
      <4>3. at[h][w] \in Nat
        BY <2>1 DEF TypeOK
      <4> QED
        BY <2>1, <4>1, <4>2, <4>3 DEF Indices
    <3> QED
      BY <2>1, <2>3, <3>1 DEF HostInv, PoolInv, Marks, VisitsOnce
  <2>4. CASE pc[h] = "returned"
    <3>1. \A i \in Indices : visits[h][i] = IF i < job[h].count THEN 1 ELSE 0
      BY <2>1, <2>4 DEF HostInv, Marks
    <3>2. \A i \in 0..(job[h].count - 1) : i \in Indices /\ i < job[h].count
      BY <2>1 DEF Indices
    <3> QED
      BY <2>4, <3>1, <3>2 DEF VisitsOnce
  <2>5. CASE pc[h] = "threw"
    <3>1. PICK k \in {-1} \cup job[h].bad :
            \A i \in Indices : Marks(h, i, i <= k) /\ (i < k => i \notin job[h].bad)
      BY <2>1, <2>5 DEF HostInv, ThrewInv
    <3>2. k \in Int /\ k < job[h].count
      BY <2>1, <3>1
    <3>3. \A i \in Indices :
            /\ visits[h][i] <= 1 /\ (visits[h][i] = 1 => i < job[h].count)
            /\ (visits[h][i] = 1 <=> i <= k) /\ (i < k => i \notin job[h].bad)
      BY <2>1, <3>1, <3>2 DEF Marks, Indices
    <3>4. \E l \in {-1} \cup job[h].bad :
            \A i \in Indices : (visits[h][i] = 1 <=> i <= l) /\ (i < l => i \notin job[h].bad)
      BY <3>1, <3>3, Zenon
    <3>5. \A i \in Indices : visits[h][i] <= 1 /\ (visits[h][i] = 1 => i < job[h].count)
      BY <3>3
    <3> QED
      BY <2>5, <3>4, <3>5, Zenon DEF VisitsOnce
  <2> QED
    BY <2>1, <2>2, <2>3, <2>4, <2>5 DEF TypeOK, Ended
<1> QED
  BY ComputeInvariantTheorem, <1>1, PTL
==============================================================================
