---------------------------- MODULE ComputeBackend ----------------------------
(***************************************************************************)
(* Compute backends: ComputeRegistry, which picks the backend of a job by  *)
(* its precision, and the parallel_for of the backend it picked.           *)
(*                                                                         *)
(* A host snapshots a backend under the registry's mutex and runs its job  *)
(* on it afterwards, while others register backends and change the active  *)
(* one.  CpuComputeBackend cuts the range in chunks, one bare std::thread  *)
(* each; every other backend (Metal) runs the loop on the caller.          *)
(***************************************************************************)
EXTENDS Integers, FiniteSets

CONSTANTS
  Hosts,      \* threads that run jobs
  Backends,   \* instances of IComputeBackend
  Cpu,        \* the one that the registry's constructor makes
  NameOf,     \* their name(); two may share one
  None,       \* no instance
  Exact,      \* those for which supports_fp64()
  Threads,    \* threads_ of the CPU backend
  MaxCount    \* bound: the count of a job

ASSUME ComputeAssumption ==
  /\ Cpu \in Exact /\ Exact \subseteq Backends /\ None \notin Backends
  /\ Threads \in Nat \ {0} /\ MaxCount \in Nat

Names == {NameOf[b] : b \in Backends}
Indices == 0..(MaxCount - 1)

VARIABLES
  backends,  \* backends_: the instance under each name, or None
  active,    \* active_
  pc,        \* of each host: where it is
  job,       \* its job: precision, count, the indices at which the body throws
  back,      \* the backend it holds
  at,        \* the next index of each of its loops; loop 0 is also the serial one
  spawned,   \* how many threads it has made
  visits,    \* how often the body has run on each index
  aborted    \* why std::terminate ended the process, or "no"

regVars == <<backends, active>>
runVars == <<at, spawned, visits>>
vars == <<regVars, pc, job, back, runVars, aborted>>

Loops == 0..(Threads - 1)
NoJob == [prec |-> "fp32", count |-> 0, bad |-> {}]

Init ==
  /\ backends = [n \in Names |-> IF n = NameOf[Cpu] THEN Cpu ELSE None]
  /\ active = Cpu
  /\ pc = [h \in Hosts |-> "idle"]
  /\ job = [h \in Hosts |-> NoJob]
  /\ back = [h \in Hosts |-> Cpu]
  /\ at = [h \in Hosts |-> [w \in Loops |-> 0]]
  /\ spawned = [h \in Hosts |-> 0]
  /\ visits = [h \in Hosts |-> [i \in Indices |-> 0]]
  /\ aborted = "no"

------------------------------------------------------------------------------
(* The registry.  Any thread may register a backend or change the active    *)
(* one at any time: startup code and the embedding application do.          *)

Register(b) ==
  /\ aborted = "no"
  /\ backends' = [backends EXCEPT ![NameOf[b]] = b]
  /\ UNCHANGED <<active, pc, job, back, runVars, aborted>>

(* An unknown name is an error and changes nothing.                         *)
SetActive(n) ==
  /\ aborted = "no"
  /\ backends[n] # None
  /\ active' = backends[n]
  /\ UNCHANGED <<backends, pc, job, back, runVars, aborted>>

(* backend_for.  The CPU backend is exact, so the error is never returned;  *)
(* the fallback is cpu_ itself, whatever is registered under its name.      *)
(* Mutant: the fallback is looked up in the table, by that name.            *)
ByName(prec) ==
  IF prec = "fp32" \/ active \in Exact THEN active ELSE backends[NameOf[Cpu]]
BackendFor(prec) == IF prec = "fp32" \/ active \in Exact THEN active ELSE Cpu

Ended == {"idle", "returned", "threw"}

Dispatch(h, prec, n, bad) ==
  /\ pc[h] \in Ended /\ aborted = "no"
  /\ pc' = [pc EXCEPT ![h] = "start"]
  /\ job' = [job EXCEPT ![h] = [prec |-> prec, count |-> n, bad |-> bad]]
  /\ back' = [back EXCEPT ![h] = BackendFor(prec)]
  /\ at' = [at EXCEPT ![h] = [w \in Loops |-> 0]]
  /\ spawned' = [spawned EXCEPT ![h] = 0]
  /\ visits' = [visits EXCEPT ![h] = [i \in Indices |-> 0]]
  /\ UNCHANGED <<regVars, aborted>>

------------------------------------------------------------------------------
(* parallel_for.                                                            *)

Least(a, b) == IF a <= b THEN a ELSE b

(* How many threads a range of n deserves, the length of a chunk, and the   *)
(* chunk of thread w, empty from the first one that begins past the end.    *)
WorkerCount(n) == Least(Threads, n)
ChunkRoundedDown(n) == n \div WorkerCount(n)
Chunk(n)   == (n + WorkerCount(n) - 1) \div WorkerCount(n)
BeginOf(w, n) == w * Chunk(n)
EndUnclipped(w, n) == BeginOf(w, n) + Chunk(n)
EndOf(w, n) == Least(BeginOf(w, n) + Chunk(n), n)

Pooled(h) == back[h] = Cpu /\ WorkerCount(job[h].count) > 1

Start(h) ==
  /\ pc[h] = "start" /\ aborted = "no"
  /\ pc' = [pc EXCEPT ![h] =
       IF job[h].count = 0 THEN "returned" ELSE IF Pooled(h) THEN "spawn" ELSE "serial"]
  /\ UNCHANGED <<regVars, job, back, runVars, aborted>>

Visit(h, i) == visits' = [visits EXCEPT ![h][i] = @ + 1]

(* One iteration on the caller; a throw leaves through parallel_for.        *)
SerialStep(h) ==
  LET i == at[h][0] IN
  /\ pc[h] = "serial" /\ aborted = "no"
  /\ IF i = job[h].count
     THEN /\ pc' = [pc EXCEPT ![h] = "returned"]
          /\ UNCHANGED runVars
     ELSE /\ Visit(h, i)
          /\ at' = [at EXCEPT ![h][0] = i + 1]
          /\ pc' = [pc EXCEPT ![h] = IF i \in job[h].bad THEN "threw" ELSE "serial"]
          /\ UNCHANGED spawned
  /\ UNCHANGED <<regVars, job, back, aborted>>

(* The loop that makes the threads, and breaks at the first empty chunk.    *)
MoreToSpawn(h) ==
  /\ spawned[h] < WorkerCount(job[h].count)
  /\ BeginOf(spawned[h], job[h].count) < job[h].count

Spawn(h) ==
  /\ pc[h] = "spawn" /\ aborted = "no"
  /\ IF MoreToSpawn(h)
     THEN /\ spawned' = [spawned EXCEPT ![h] = @ + 1]
          /\ at' = [at EXCEPT ![h][spawned[h]] = BeginOf(spawned[h], job[h].count)]
          /\ UNCHANGED pc
     ELSE /\ pc' = [pc EXCEPT ![h] = "join"]
          /\ UNCHANGED <<at, spawned>>
  /\ UNCHANGED <<regVars, job, back, visits, aborted>>

(* std::thread cannot be made: the vector of joinable threads is destroyed. *)
SpawnFails(h) ==
  /\ pc[h] = "spawn" /\ aborted = "no" /\ MoreToSpawn(h)
  /\ aborted' = IF spawned[h] = 0 THEN "no" ELSE "spawn"
  /\ pc' = [pc EXCEPT ![h] = IF spawned[h] = 0 THEN "threw" ELSE @]
  /\ UNCHANGED <<regVars, job, back, runVars>>

Unfinished(h, w) ==
  /\ pc[h] \in {"spawn", "join"}
  /\ w < spawned[h] /\ at[h][w] < EndOf(w, job[h].count)

(* One iteration on a thread; nobody catches what it throws.                *)
WorkerStep(h, w) ==
  /\ Unfinished(h, w) /\ aborted = "no"
  /\ Visit(h, at[h][w])
  /\ at' = [at EXCEPT ![h][w] = @ + 1]
  /\ aborted' = IF at[h][w] \in job[h].bad THEN "body" ELSE "no"
  /\ UNCHANGED <<regVars, pc, job, back, spawned>>

(* Mutants: only the first thread is joined; one that was never made too.   *)
JoinsFirst(h) == ~Unfinished(h, 0)
JoinsUnmade(h) ==
  \A w \in 0..(WorkerCount(job[h].count) - 1) : w < spawned[h] /\ ~Unfinished(h, w)
AllJoined(h) == \A w \in Loops : ~Unfinished(h, w)

Join(h) ==
  /\ pc[h] = "join" /\ aborted = "no" /\ AllJoined(h)
  /\ pc' = [pc EXCEPT ![h] = "returned"]
  /\ UNCHANGED <<regVars, job, back, runVars, aborted>>

(* The process is gone.                                                     *)
Terminated == aborted # "no" /\ UNCHANGED vars

JobStep(h) ==
  \/ Start(h) \/ SerialStep(h) \/ Spawn(h) \/ Join(h)
  \/ \E w \in Loops : WorkerStep(h, w)

Next ==
  \/ \E b \in Backends : Register(b)
  \/ \E n \in Names : SetActive(n)
  \/ \E h \in Hosts :
       \/ \E prec \in {"fp32", "fp64"}, n \in 0..MaxCount :
            \E bad \in SUBSET (0..(n - 1)) : Dispatch(h, prec, n, bad)
       \/ JobStep(h) \/ SpawnFails(h)
  \/ Terminated

SafeSpec == Init /\ [][Next]_vars

(* Threads run; a body returns or throws.  Nobody is obliged to call.       *)
Spec == SafeSpec /\ \A h \in Hosts : WF_vars(JobStep(h))

------------------------------------------------------------------------------
(* Properties.                                                              *)

Jobs == [prec : {"fp32", "fp64"}, count : 0..MaxCount, bad : SUBSET Indices]

TypeOK ==
  /\ backends \in [Names -> Backends \cup {None}]
  /\ active \in Backends
  /\ pc \in [Hosts -> Ended \cup {"start", "serial", "spawn", "join"}]
  /\ job \in [Hosts -> Jobs]
  /\ back \in [Hosts -> Backends]
  /\ at \in [Hosts -> [Loops -> 0..MaxCount]]
  /\ spawned \in [Hosts -> 0..Threads]
  /\ visits \in [Hosts -> [Indices -> Nat]]
  /\ aborted \in {"no", "body", "spawn"}

(* The precision guard: exact work runs on a backend that can represent it, *)
(* though the active backend is changed between the choice and the run.     *)
ExactWorkStaysExact ==
  \A h \in Hosts : pc[h] # "idle" /\ job[h].prec = "fp64" => back[h] \in Exact

(* No index is visited twice, whatever the chunks and the threads' speeds;  *)
(* a job that returned has visited them all, and one that threw the prefix  *)
(* of a serial run up to an index that throws, or nothing.                  *)
VisitsOnce(h) ==
  /\ \A i \in Indices : visits[h][i] <= 1 /\ (visits[h][i] = 1 => i < job[h].count)
  /\ pc[h] = "returned" => \A i \in 0..(job[h].count - 1) : visits[h][i] = 1
  /\ pc[h] = "threw" =>
       \E k \in {-1} \cup job[h].bad :
         \A i \in Indices : (visits[h][i] = 1 <=> i <= k) /\ (i < k => i \notin job[h].bad)
EachIndexOnce == \A h \in Hosts : VisitsOnce(h)

(* Every job ends: it returns, throws, or takes the process with it.        *)
JobsEnd == \A h \in Hosts : pc[h] = "start" ~> (pc[h] \in Ended \/ aborted # "no")

------------------------------------------------------------------------------
(* The inductive invariant.                                                 *)

(* The indices that the loops of h have been at.                            *)
Behind(h, i) ==
  \E w \in Loops : /\ w < spawned[h]
                   /\ BeginOf(w, job[h].count) <= i /\ i < at[h][w]
Marks(h, i, seen) == visits[h][i] = IF seen THEN 1 ELSE 0

(* What an index has seen follows from where its loop is.                   *)
SerialInv(h) ==
  /\ spawned[h] = 0 /\ at[h][0] <= job[h].count
  /\ \A i \in Indices : Marks(h, i, i < at[h][0]) /\ (i < at[h][0] => i \notin job[h].bad)

PoolInv(h) ==
  LET n == job[h].count IN
  /\ n > 0
  /\ spawned[h] <= WorkerCount(n)
  /\ \A w \in Loops : w < spawned[h] =>
       /\ BeginOf(w, n) < n
       /\ BeginOf(w, n) <= at[h][w] /\ at[h][w] <= EndOf(w, n)
  /\ \A i \in Indices : Marks(h, i, Behind(h, i))

ThrewInv(h) ==
  \E k \in {-1} \cup job[h].bad :
    \A i \in Indices : Marks(h, i, i <= k) /\ (i < k => i \notin job[h].bad)

HostInv(h) ==
  /\ job[h].bad \subseteq 0..(job[h].count - 1)
  /\ pc[h] \in {"idle", "start", "serial"} => SerialInv(h)
  /\ pc[h] \in {"idle", "start"} => at[h][0] = 0
  /\ pc[h] \in {"spawn", "join"} => PoolInv(h)
  /\ pc[h] = "join" => ~MoreToSpawn(h)
  /\ pc[h] = "returned" => \A i \in Indices : Marks(h, i, i < job[h].count)
  /\ pc[h] = "threw" => ThrewInv(h)
LoopInv == \A h \in Hosts : HostInv(h)

ComputeInv == TypeOK /\ ExactWorkStaysExact /\ LoopInv
=============================================================================
