------------------------------ MODULE Scheduler ------------------------------
(***************************************************************************)
(* The operation scheduler of src/core/scheduler.{h,cpp}: a pool of worker *)
(* threads over one job queue, the shared state behind every Operation<T>  *)
(* handle, cooperative cancellation, and the destructor that stops the     *)
(* pool.                                                                   *)
(*                                                                         *)
(* Grain.  A critical section under one mutex is one action; whatever the  *)
(* code does outside it (notify_one after the push, the stop check between *)
(* the body's return and the publication, notify_all after it) is an       *)
(* action of its own, so a thread can be preempted exactly where the code  *)
(* lets it be.  A condition variable is the set of threads asleep on it:   *)
(* a notification, or a spurious wakeup, sends a sleeper back to take the  *)
(* mutex and test its predicate again.                                     *)
(*                                                                         *)
(* The body of an operation is any sequence of at most MaxReports          *)
(* checkpoints, polls of the stop flag, and then a return or a throw; a    *)
(* non-interruptible engine call is the body that only returns.            *)
(***************************************************************************)
EXTENDS Integers, Sequences, FiniteSets

CONSTANTS
  Workers,     \* the pool's threads
  Hosts,       \* the threads that submit, cancel and wait
  Ops,         \* the operations the hosts may submit, each at most once
  Nobody,      \* stands for "no operation" in job and target
  Fractions,   \* the progress fractions a body may report, in or out of range
  Full,        \* the fraction 1.0
  MaxReports   \* bound: the checkpoints of one body

ASSUME SchedulerAssumption ==
  /\ Workers # {} /\ IsFiniteSet(Workers)
  /\ Nobody \notin Ops
  /\ Fractions \subseteq Int
  /\ Full \in Nat
  /\ MaxReports \in Nat

VARIABLES
  jobs,      \* jobs_: the queue
  dtor,      \* ~Scheduler: "live", then "stopping" (stopping_ set), "joining", "joined"
  wpc, job, verdict,         \* of each worker: where it is, its operation, final_status
  status, value, error,      \* OperationState<T>, per operation
  fraction, reports,         \* ProgressSink::fraction_, and checkpoints left to the body
  stop,                      \* StopSource's flag
  hpc, target,               \* of each host: where it is in submit() or wait(), and on what
  asked      \* history: when request_cancel first came: "never", "in_time" (the body
             \* had not returned past the stop check), "late" (it had, but the
             \* outcome was not published), "after" (the operation had settled)

workerVars == <<wpc, job, verdict>>
stateVars  == <<status, value, error>>
bodyVars   == <<fraction, reports>>
cancelVars == <<stop, asked>>
hostVars   == <<hpc, target>>
vars == <<jobs, dtor, workerVars, stateVars, bodyVars, cancelVars, hostVars>>

Terminal == {"Completed", "Cancelled", "Failed"}
Statuses == {"Unsubmitted", "Pending", "Running"} \cup Terminal
Stopping == dtor # "live"

Init ==
  /\ jobs = <<>> /\ dtor = "live"
  /\ wpc = [w \in Workers |-> "loop"]
  /\ job = [w \in Workers |-> Nobody]
  /\ verdict = [w \in Workers |-> "none"]
  /\ status = [o \in Ops |-> "Unsubmitted"]
  /\ value = [o \in Ops |-> FALSE]
  /\ error = [o \in Ops |-> FALSE]
  /\ fraction = [o \in Ops |-> 0]
  /\ reports = [o \in Ops |-> MaxReports]
  /\ stop = [o \in Ops |-> FALSE]
  /\ asked = [o \in Ops |-> "never"]
  /\ hpc = [h \in Hosts |-> "idle"]
  /\ target = [h \in Hosts |-> Nobody]

------------------------------------------------------------------------------
(* The hosts.                                                               *)

(* A handle exists, and may be copied to any thread, once submit returned.  *)
Handed(o) == /\ status[o] # "Unsubmitted"
             /\ \A h \in Hosts : hpc[h] = "pushed" => target[h] # o

(* submit: the operation's state is born Pending, its job goes on the queue *)
(* under mutex_.  Submitting to a scheduler being destroyed is undefined in *)
(* C++; the hosts do not.                                                   *)
Submit(h, o) ==
  /\ hpc[h] = "idle" /\ ~Stopping /\ status[o] = "Unsubmitted"
  /\ status' = [status EXCEPT ![o] = "Pending"]
  /\ jobs' = Append(jobs, o)
  /\ hpc' = [hpc EXCEPT ![h] = "pushed"]
  /\ target' = [target EXCEPT ![h] = o]
  /\ UNCHANGED <<dtor, workerVars, value, error, bodyVars, cancelVars>>

NotifyNobody == UNCHANGED wpc      \* mutant: the push without the notification

(* cv_.notify_one: any one sleeper, if there is one, goes to retake mutex_. *)
NotifyOne == IF \E w \in Workers : wpc[w] = "asleep"
             THEN \E w \in Workers : /\ wpc[w] = "asleep"
                                     /\ wpc' = [wpc EXCEPT ![w] = "loop"]
             ELSE UNCHANGED wpc

NotifyAll == wpc' = [w \in Workers |-> IF wpc[w] = "asleep" THEN "loop" ELSE wpc[w]]

(* ... then, with mutex_ released, one worker is notified.                  *)
SubmitNotify(h) ==
  /\ hpc[h] = "pushed"
  /\ NotifyOne
  /\ hpc' = [hpc EXCEPT ![h] = "idle"]
  /\ target' = [target EXCEPT ![h] = Nobody]
  /\ UNCHANGED <<jobs, dtor, job, verdict, stateVars, bodyVars, cancelVars>>

(* The worker that runs o is past `if (token.stop_requested())`.            *)
Decided(o) == \E w \in Workers : job[w] = o /\ verdict[w] # "none"

(* request_cancel: one atomic exchange; repeating it changes nothing.       *)
RequestCancel(h, o) ==
  /\ hpc[h] = "idle" /\ Handed(o) /\ ~stop[o]
  /\ stop' = [stop EXCEPT ![o] = TRUE]
  /\ asked' = [asked EXCEPT ![o] = IF status[o] \in Terminal THEN "after"
                                   ELSE IF Decided(o) THEN "late" ELSE "in_time"]
  /\ UNCHANGED <<jobs, dtor, workerVars, stateVars, bodyVars, hostVars>>

(* wait: the handle outlives the scheduler, so also while it is destroyed.  *)
Wait(h, o) ==
  /\ hpc[h] = "idle" /\ Handed(o)
  /\ hpc' = [hpc EXCEPT ![h] = "waiting"]
  /\ target' = [target EXCEPT ![h] = o]
  /\ UNCHANGED <<jobs, dtor, workerVars, stateVars, bodyVars, cancelVars>>

(* Under the state's mutex: return if the operation settled, else sleep.    *)
WaitTest(h) ==
  /\ hpc[h] = "waiting"
  /\ IF status[target[h]] \in Terminal
     THEN /\ hpc' = [hpc EXCEPT ![h] = "idle"]
          /\ target' = [target EXCEPT ![h] = Nobody]
     ELSE /\ hpc' = [hpc EXCEPT ![h] = "asleep"]
          /\ UNCHANGED target
  /\ UNCHANGED <<jobs, dtor, workerVars, stateVars, bodyVars, cancelVars>>

SpuriousHostWakeup(h) ==
  /\ hpc[h] = "asleep"
  /\ hpc' = [hpc EXCEPT ![h] = "waiting"]
  /\ UNCHANGED <<jobs, dtor, workerVars, stateVars, bodyVars, cancelVars, target>>

------------------------------------------------------------------------------
(* The workers: worker_loop around run_operation.                           *)

(* Under mutex_: sleep while there is neither a job nor a stop, ...         *)
FallAsleep(w) ==
  /\ wpc[w] = "loop" /\ jobs = <<>> /\ ~Stopping
  /\ wpc' = [wpc EXCEPT ![w] = "asleep"]
  /\ UNCHANGED <<jobs, job>>

(* mutant: return on stop with jobs still queued                            *)
ExitAtOnce(w) ==
  /\ wpc[w] = "loop" /\ Stopping
  /\ wpc' = [wpc EXCEPT ![w] = "exited"]
  /\ UNCHANGED <<jobs, job>>

(* ... return on stop once the queue is empty, ...                          *)
Exit(w) ==
  /\ wpc[w] = "loop" /\ jobs = <<>> /\ Stopping
  /\ wpc' = [wpc EXCEPT ![w] = "exited"]
  /\ UNCHANGED <<jobs, job>>

(* mutant: front without pop                                                *)
ClaimWithoutPop(w) ==
  /\ wpc[w] = "loop" /\ jobs # <<>>
  /\ wpc' = [wpc EXCEPT ![w] = "claimed"]
  /\ job' = [job EXCEPT ![w] = Head(jobs)]
  /\ UNCHANGED jobs

(* ... else take the front job.                                             *)
Claim(w) ==
  /\ wpc[w] = "loop" /\ jobs # <<>>
  /\ wpc' = [wpc EXCEPT ![w] = "claimed"]
  /\ job' = [job EXCEPT ![w] = Head(jobs)]
  /\ jobs' = Tail(jobs)

WorkerLoop(w) ==
  /\ FallAsleep(w) \/ Exit(w) \/ Claim(w)
  /\ UNCHANGED <<dtor, verdict, stateVars, bodyVars, cancelVars, hostVars>>

SpuriousWorkerWakeup(w) ==
  /\ wpc[w] = "asleep"
  /\ wpc' = [wpc EXCEPT ![w] = "loop"]
  /\ UNCHANGED <<jobs, dtor, job, verdict, stateVars, bodyVars, cancelVars, hostVars>>

(* run_operation, first critical section.                                   *)
Begin(w) ==
  /\ wpc[w] = "claimed"
  /\ status' = [status EXCEPT ![job[w]] = "Running"]
  /\ wpc' = [wpc EXCEPT ![w] = "produce"]
  /\ UNCHANGED <<jobs, dtor, job, verdict, value, error, bodyVars, cancelVars, hostVars>>

Decide(w, outcome) ==
  /\ verdict' = [verdict EXCEPT ![w] = outcome]
  /\ wpc' = [wpc EXCEPT ![w] = "publish"]

Unclamped(f) == f      \* mutant: report stores what it is given

Clamped(f) == IF f < 0 THEN 0 ELSE IF f > Full THEN Full ELSE f

(* checkpoint(f): report the clamped fraction, then throw if asked to stop. *)
Checkpoint(w, f) ==
  LET o == job[w] IN
  /\ wpc[w] = "produce" /\ reports[o] > 0
  /\ reports' = [reports EXCEPT ![o] = @ - 1]
  /\ fraction' = [fraction EXCEPT ![o] = Clamped(f)]
  /\ IF stop[o] THEN Decide(w, "Cancelled") ELSE UNCHANGED <<wpc, verdict>>
  /\ UNCHANGED <<jobs, dtor, job, stateVars, cancelVars, hostVars>>

(* throw_if_cancelled with the stop flag up; with it down it does nothing.  *)
Poll(w) ==
  /\ wpc[w] = "produce" /\ stop[job[w]]
  /\ Decide(w, "Cancelled")
  /\ UNCHANGED <<jobs, dtor, job, stateVars, bodyVars, cancelVars, hostVars>>

(* The body throws (an OperationCancelled comes only from the two above).   *)
Throw(w) ==
  /\ wpc[w] = "produce"
  /\ Decide(w, "Failed")
  /\ UNCHANGED <<jobs, dtor, job, stateVars, bodyVars, cancelVars, hostVars>>

Return(w) ==
  /\ wpc[w] = "produce"
  /\ wpc' = [wpc EXCEPT ![w] = "returned"]
  /\ UNCHANGED <<jobs, dtor, job, verdict, stateVars, bodyVars, cancelVars, hostVars>>

(* mutant: keep whatever the body returned                                  *)
BoundaryUnchecked(w) ==
  /\ wpc[w] = "returned"
  /\ Decide(w, "Completed")
  /\ UNCHANGED <<jobs, dtor, job, stateVars, bodyVars, cancelVars, hostVars>>

(* The cancellation-safe boundary: discard the value if a stop was asked.   *)
Boundary(w) ==
  /\ wpc[w] = "returned"
  /\ Decide(w, IF stop[job[w]] THEN "Cancelled" ELSE "Completed")
  /\ UNCHANGED <<jobs, dtor, job, stateVars, bodyVars, cancelVars, hostVars>>

(* run_operation, second critical section.                                  *)
Publish(w) ==
  LET o == job[w] IN
  /\ wpc[w] = "publish"
  /\ status' = [status EXCEPT ![o] = verdict[w]]
  /\ value' = [value EXCEPT ![o] = verdict[w] = "Completed"]
  /\ error' = [error EXCEPT ![o] = verdict[w] = "Failed"]
  /\ wpc' = [wpc EXCEPT ![w] = "notify"]
  /\ UNCHANGED <<jobs, dtor, job, verdict, bodyVars, cancelVars, hostVars>>

(* mutant: state->cv.notify_one                                             *)
OneWaiter(o) == {h \in Hosts : /\ hpc[h] = "asleep" /\ target[h] = o
                               /\ h = CHOOSE g \in Hosts : hpc[g] = "asleep" /\ target[g] = o}

Waiters(o) == {h \in Hosts : hpc[h] = "asleep" /\ target[h] = o}

(* state->cv.notify_all, and back to the loop.                              *)
NotifyWaiters(w) ==
  /\ wpc[w] = "notify"
  /\ hpc' = [h \in Hosts |-> IF h \in Waiters(job[w]) THEN "waiting" ELSE hpc[h]]
  /\ wpc' = [wpc EXCEPT ![w] = "loop"]
  /\ job' = [job EXCEPT ![w] = Nobody]
  /\ verdict' = [verdict EXCEPT ![w] = "none"]
  /\ UNCHANGED <<jobs, dtor, stateVars, bodyVars, cancelVars, target>>

------------------------------------------------------------------------------
(* ~Scheduler.  Its owner destroys the pool only when no thread is inside   *)
(* submit, as C++ demands of any object.                                    *)

SetStopping ==
  /\ dtor = "live" /\ \A h \in Hosts : hpc[h] # "pushed"
  /\ dtor' = "stopping"
  /\ UNCHANGED <<jobs, workerVars, stateVars, bodyVars, cancelVars, hostVars>>

NotifyStop ==
  /\ dtor = "stopping"
  /\ dtor' = "joining"
  /\ NotifyAll
  /\ UNCHANGED <<jobs, job, verdict, stateVars, bodyVars, cancelVars, hostVars>>

JoinAll ==
  /\ dtor = "joining" /\ \A w \in Workers : wpc[w] = "exited"
  /\ dtor' = "joined"
  /\ UNCHANGED <<jobs, workerVars, stateVars, bodyVars, cancelVars, hostVars>>

(* The pool is gone and no host is in a call: nothing is left to happen.    *)
Quiescent ==
  /\ dtor = "joined" /\ \A h \in Hosts : hpc[h] = "idle"
  /\ UNCHANGED vars

------------------------------------------------------------------------------
WorkerStep(w) ==
  \/ WorkerLoop(w) \/ Begin(w)
  \/ \E f \in Fractions : Checkpoint(w, f)
  \/ Poll(w) \/ Throw(w) \/ Return(w)
  \/ Boundary(w) \/ Publish(w) \/ NotifyWaiters(w)

HostCall(h) == \E o \in Ops : Submit(h, o) \/ RequestCancel(h, o) \/ Wait(h, o)
HostStep(h) == SubmitNotify(h) \/ WaitTest(h)
DtorStep    == NotifyStop \/ JoinAll

Next ==
  \/ \E w \in Workers : WorkerStep(w) \/ SpuriousWorkerWakeup(w)
  \/ \E h \in Hosts : HostCall(h) \/ HostStep(h) \/ SpuriousHostWakeup(h)
  \/ SetStopping \/ DtorStep \/ Quiescent

SafeSpec == Init /\ [][Next]_vars

(* A thread that is not asleep keeps running, and gets a mutex it asks for  *)
(* (every critical section is finite).  So a body terminates.  Nothing      *)
(* obliges a host to call anything, the owner to destroy the pool, or a     *)
(* condition variable to wake anybody spuriously.                           *)
Fairness ==
  /\ \A w \in Workers : WF_vars(WorkerStep(w))
  /\ \A h \in Hosts : WF_vars(HostStep(h))
  /\ WF_vars(DtorStep)

Spec == SafeSpec /\ Fairness

------------------------------------------------------------------------------
(* Properties.                                                              *)

(* The type invariant; a stored fraction is within [0, 1.0] whatever a body *)
(* reports (ProgressSink::report clamps).                                   *)
TypeOK ==
  /\ jobs \in Seq(Ops)
  /\ dtor \in {"live", "stopping", "joining", "joined"}
  /\ wpc \in [Workers -> {"loop", "asleep", "claimed", "produce", "returned",
                          "publish", "notify", "exited"}]
  /\ job \in [Workers -> Ops \cup {Nobody}]
  /\ verdict \in [Workers -> Terminal \cup {"none"}]
  /\ status \in [Ops -> Statuses]
  /\ value \in [Ops -> BOOLEAN]
  /\ error \in [Ops -> BOOLEAN]
  /\ fraction \in [Ops -> 0..Full]
  /\ reports \in [Ops -> 0..MaxReports]
  /\ stop \in [Ops -> BOOLEAN]
  /\ asked \in [Ops -> {"never", "in_time", "late", "after"}]
  /\ hpc \in [Hosts -> {"idle", "pushed", "waiting", "asleep"}]
  /\ target \in [Hosts -> Ops \cup {Nobody}]

(* A cancellation requested before the body's result reached the boundary   *)
(* discards it: whatever the interleaving, the operation never Completes    *)
(* and its value never becomes visible (run_operation's stop check).        *)
CancelInTimeDiscards ==
  \A o \in Ops : asked[o] = "in_time" => status[o] # "Completed" /\ ~value[o]

Queued(o) == \E i \in DOMAIN jobs : jobs[i] = o
Held(o)   == \E w \in Workers : job[w] = o

(* No operation is lost or run twice: one that is Pending is on the queue   *)
(* once, or in the hands of one worker; one that is Running is in the hands *)
(* of one worker and no longer queued; a settled one is never queued again  *)
(* (enqueue's push against worker_loop's front and pop).                    *)
HeldExactlyOnce ==
  /\ \A i, j \in DOMAIN jobs : jobs[i] = jobs[j] => i = j
  /\ \A u, w \in Workers : job[u] = job[w] /\ job[u] # Nobody => u = w
  /\ \A o \in Ops : /\ Queued(o) => status[o] = "Pending" /\ ~Held(o)
                    /\ status[o] = "Pending" => Queued(o) \/ Held(o)
                    /\ status[o] = "Running" => Held(o)

(* When the destructor returns the pool has dropped nothing: the queue is   *)
(* empty and every operation ever submitted has settled (workers drain the  *)
(* queue before they honour stopping_).                                     *)
JoinedMeansDrained ==
  dtor = "joined" => /\ jobs = <<>>
                     /\ \A o \in Ops : status[o] \in Terminal \cup {"Unsubmitted"}

(* What a caller has once been told stays so: no later step changes the     *)
(* status, value, error or progress of a settled operation, so wait()       *)
(* followed by result() cannot disagree.                                    *)
SettledIsFinal ==
  [][\A o \in Ops : status[o] \in Terminal =>
       /\ status'[o] = status[o] /\ value'[o] = value[o]
       /\ error'[o] = error[o] /\ fraction'[o] = fraction[o]]_vars

(* What scheduler.h says of cancellation: "the caller never sees a result   *)
(* it cancelled".  Read with a caller who asks while status() still says    *)
(* Pending or Running, the code does not keep it: see the findings.         *)
CallerNeverSeesCancelledResult ==
  \A o \in Ops : asked[o] \in {"in_time", "late"} => ~value[o]

(* Every submitted operation settles: no wakeup is lost between the push    *)
(* and the notification, however the workers and the destructor interleave. *)
EveryOperationSettles ==
  \A o \in Ops : status[o] = "Pending" ~> status[o] \in Terminal

(* Every wait() returns: a waiter cannot miss the one notify_all of the     *)
(* operation it waits for.                                                  *)
EveryWaitReturns ==
  \A h \in Hosts : hpc[h] \in {"waiting", "asleep"} ~> hpc[h] = "idle"

(* The destructor returns: it leaves no worker asleep at the join.          *)
ShutdownReturns == dtor = "stopping" ~> dtor = "joined"

(* The inductive invariant behind the theorems of SchedulerProofs.          *)

(* Where a worker is says what it holds and how far its operation got.      *)
WorkerInv ==
  \A w \in Workers :
    /\ job[w] = Nobody <=> wpc[w] \in {"loop", "asleep", "exited"}
    /\ wpc[w] = "claimed" => status[job[w]] = "Pending"
    /\ wpc[w] \in {"produce", "returned", "publish"} => status[job[w]] = "Running"
    /\ wpc[w] = "notify" => status[job[w]] = verdict[w]
    /\ verdict[w] # "none" <=> wpc[w] \in {"publish", "notify"}
    /\ verdict[w] = "Cancelled" => stop[job[w]]

(* An operation that has not settled is queued or with a worker that will   *)
(* run it, or is running it.                                                *)
RunningInv ==
  \A o \in Ops :
    /\ status[o] = "Pending" =>
         Queued(o) \/ \E w \in Workers : job[w] = o /\ wpc[w] = "claimed"
    /\ status[o] = "Running" =>
         \E w \in Workers : job[w] = o /\ wpc[w] \in {"produce", "returned", "publish"}

OutcomeInv ==
  \A o \in Ops : /\ value[o] <=> status[o] = "Completed"
                 /\ error[o] <=> status[o] = "Failed"

(* In time means: before any worker decided, so no worker decides Completed. *)
CancelInv ==
  \A o \in Ops :
    /\ stop[o] <=> asked[o] # "never"
    /\ stop[o] => status[o] # "Unsubmitted"
    /\ asked[o] = "in_time" => /\ status[o] # "Completed"
                               /\ \A w \in Workers : job[w] = o => verdict[w] # "Completed"

ShutdownInv ==
  /\ \A w \in Workers : wpc[w] = "exited" => Stopping /\ jobs = <<>>
  /\ Stopping => \A h \in Hosts : hpc[h] # "pushed"
  /\ dtor = "joined" => \A w \in Workers : wpc[w] = "exited"

HostInv ==
  \A h \in Hosts : hpc[h] # "idle" => target[h] \in Ops /\ status[target[h]] # "Unsubmitted"

SchedulerInv ==
  /\ TypeOK /\ HeldExactlyOnce /\ WorkerInv /\ RunningInv
  /\ OutcomeInv /\ CancelInv /\ ShutdownInv /\ HostInv

------------------------------------------------------------------------------
(* The scheduler implements the contract of OperationContract.tla.          *)
Op == INSTANCE OperationContract WITH
        outcome   <- [o \in Ops |-> [status |-> status[o], value |-> value[o],
                                     error |-> error[o]]],
        requested <- {o \in Ops : asked[o] # "never"},
        doomed    <- {o \in Ops : asked[o] = "in_time"}

KeepsTheContract == Op!Contract
=============================================================================
