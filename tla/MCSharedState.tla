---------------------------- MODULE MCSharedState ----------------------------
(***************************************************************************)
(* Instances, for TLC, of the machines whose runs check liveness: the      *)
(* compute backends and, without symmetry, the facade over bodies and the  *)
(* pool of the scheduler.  They share nothing, so each behaviour is one    *)
(* machine's, and the others stay as they began.                           *)
(***************************************************************************)
EXTENDS ComputeBackend

CONSTANTS
  cpu, metal, metal2,   \* backends
  HostThreads, PoolWorkers, Blocks, Null, MaxIds   \* the facade's

VARIABLES
  machine,
  slot, heap, natives, shapes, nextId, facadePc,
  refs, raw, op, eng, seen, client,
  jobs, dtor, wpc, held, verdict, status, result, error,
  fraction, reports, stop, hpc, target, asked

(* A backend that calls itself "cpu" as well: registered, it takes the CPU  *)
(* backend's place in the table, and without doubles it must not take its   *)
(* place as the fallback of exact work.                                     *)
MCNameOf == [b \in Backends |-> IF b = metal THEN "metal" ELSE "cpu"]

Facade ==
  INSTANCE KernelFacade WITH Threads <- HostThreads, Workers <- PoolWorkers,
    Addrs <- Blocks, pc <- facadePc

facadeVars ==
  <<slot, heap, natives, shapes, nextId, facadePc, refs, raw, op, eng, seen, client>>

(* Two workers and two operations; one host submits both, and two wait for  *)
(* one of them, which alone is cancelled.                                   *)
PoolHosts == {"h1", "h2"}
Crew == {"w1", "w2"}
Pool ==
  INSTANCE Scheduler WITH Workers <- Crew, Hosts <- PoolHosts, Ops <- {"o1", "o2"},
    Nobody <- "nobody", Fractions <- {1}, Full <- 1, MaxReports <- 0,
    job <- held, value <- result
poolVars ==
  <<jobs, dtor, wpc, held, verdict, status, result, error,
    fraction, reports, stop, hpc, target, asked>>
FewerCalls ==
  /\ ~stop'["o2"]
  /\ \A h \in PoolHosts :
       /\ hpc'[h] = "pushed" => h = "h1"
       /\ hpc'[h] \in {"waiting", "asleep"} => target'[h] = "o1"

MCInit ==
  /\ Init /\ Facade!Init /\ Pool!Init
  /\ machine \in {"compute", "facade", "pool"}

(* At most one index of a job throws: the first that does ends the job, or  *)
(* the process.                                                             *)
ComputeNext ==
  /\ machine = "compute" /\ Next /\ \A h \in Hosts : Cardinality(job'[h].bad) <= 1
  /\ UNCHANGED <<machine, facadeVars, poolVars>>
FacadeNext == machine = "facade" /\ Facade!Next /\ UNCHANGED <<machine, vars, poolVars>>
PoolNext ==
  machine = "pool" /\ Pool!Next /\ FewerCalls /\ UNCHANGED <<machine, vars, facadeVars>>

(* The fairness of each module, owed to the machine that runs.              *)
MCFairness ==
  /\ \A h \in Hosts : WF_vars(machine = "compute" /\ JobStep(h))
  /\ \A t \in HostThreads : SF_facadeVars(machine = "facade" /\ Facade!ThreadStep(t))
  /\ \A w \in PoolWorkers : WF_facadeVars(machine = "facade" /\ Facade!WorkerStep(w))
  /\ \A w \in Crew : WF_poolVars(machine = "pool" /\ Pool!WorkerStep(w))
  /\ \A h \in PoolHosts : WF_poolVars(machine = "pool" /\ Pool!HostStep(h))
  /\ WF_poolVars(machine = "pool" /\ Pool!DtorStep)
MCSpec ==
  /\ MCInit
  /\ [][ComputeNext \/ FacadeNext \/ PoolNext]_<<machine, vars, facadeVars, poolVars>>
  /\ MCFairness

(* A body no handle names is reclaimed in the end (KernelFacade).           *)
ReleasedBodiesAreReclaimed == Facade!ReleasedBodiesAreReclaimed

(* Every submitted operation settles (Scheduler).                           *)
EveryOperationSettles == Pool!EveryOperationSettles

(* Every wait() returns (Scheduler).                                        *)
EveryWaitReturns == Pool!EveryWaitReturns

(* The pool's destructor returns (Scheduler).                               *)
ShutdownReturns == Pool!ShutdownReturns

(* The pool keeps the contract of an operation (Scheduler).                 *)
KeepsTheContract == Pool!KeepsTheContract
=============================================================================
