--------------------------- MODULE SchedulerProofs ---------------------------
(***************************************************************************)
(* Theorems about Scheduler.tla, for every set of workers, hosts and       *)
(* operations.  Everything rests on SchedulerInv, the inductive invariant  *)
(* stated at the end of that module.                                       *)
(***************************************************************************)
EXTENDS Scheduler, SequenceTheorems, TLAPS

(* What taking the front of the queue leaves: the rest, shifted by one.     *)
LEMMA ClaimLemma ==
  ASSUME TypeOK, jobs # <<>>
  PROVE  /\ Head(jobs) \in Ops /\ Head(jobs) = jobs[1] /\ 1 \in DOMAIN jobs
         /\ Tail(jobs) \in Seq(Ops)
         /\ \A i \in DOMAIN Tail(jobs) : i + 1 \in DOMAIN jobs /\ Tail(jobs)[i] = jobs[i + 1]
         /\ \A i \in DOMAIN jobs : i # 1 => i - 1 \in DOMAIN Tail(jobs)
         /\ DOMAIN jobs \subseteq Int /\ DOMAIN Tail(jobs) \subseteq Int
         /\ \A i \in DOMAIN Tail(jobs) : i + 1 # 1
<1>1. jobs \in Seq(Ops)
  BY DEF TypeOK
<1>2. /\ Head(jobs) \in Ops /\ Tail(jobs) \in Seq(Ops)
      /\ Len(Tail(jobs)) = Len(jobs) - 1
      /\ \A i \in 1 .. Len(Tail(jobs)) : Tail(jobs)[i] = jobs[i + 1]
  BY <1>1, HeadTailProperties
<1>3. /\ DOMAIN jobs = 1 .. Len(jobs) /\ DOMAIN Tail(jobs) = 1 .. Len(Tail(jobs))
      /\ Len(jobs) \in Nat /\ Len(jobs) # 0 /\ Head(jobs) = jobs[1]
  BY <1>1, <1>2
<1>4. DOMAIN Tail(jobs) = 1 .. (Len(jobs) - 1)
  BY <1>2, <1>3
<1>5. \A i \in DOMAIN Tail(jobs) :
         i \in Int /\ i + 1 # 1 /\ i + 1 \in DOMAIN jobs /\ Tail(jobs)[i] = jobs[i + 1]
  <2> SUFFICES ASSUME NEW i \in 1 .. (Len(jobs) - 1)
               PROVE  /\ i \in Int /\ i + 1 # 1 /\ i + 1 \in 1 .. Len(jobs)
                      /\ Tail(jobs)[i] = jobs[i + 1]
    BY <1>3, <1>4
  <2> QED
    BY <1>2, <1>3
<1>6. \A i \in DOMAIN jobs : i \in Int /\ (i # 1 => i - 1 \in DOMAIN Tail(jobs))
  BY <1>3, <1>4
<1>7. 1 \in DOMAIN jobs
  BY <1>3
<1> QED
  BY <1>2, <1>3, <1>5, <1>6, <1>7

(* What a push leaves: the queue, and the new operation behind it.          *)
LEMMA PushLemma ==
  ASSUME TypeOK, NEW o \in Ops
  PROVE  /\ Append(jobs, o) \in Seq(Ops) /\ Append(jobs, o) # <<>>
         /\ DOMAIN Append(jobs, o) = DOMAIN jobs \cup {Len(jobs) + 1}
         /\ Len(jobs) + 1 \notin DOMAIN jobs
         /\ \A i \in DOMAIN jobs : Append(jobs, o)[i] = jobs[i]
         /\ Append(jobs, o)[Len(jobs) + 1] = o
<1>1. jobs \in Seq(Ops)
  BY DEF TypeOK
<1>2. /\ Append(jobs, o) \in Seq(Ops) /\ Append(jobs, o) # <<>>
      /\ Len(Append(jobs, o)) = Len(jobs) + 1
      /\ \A i \in 1 .. Len(jobs) : Append(jobs, o)[i] = jobs[i]
      /\ Append(jobs, o)[Len(jobs) + 1] = o
  BY <1>1, AppendProperties
<1>3. /\ DOMAIN jobs = 1 .. Len(jobs) /\ Len(jobs) \in Nat
      /\ DOMAIN Append(jobs, o) = 1 .. Len(Append(jobs, o))
  BY <1>1, <1>2
<1> QED
  BY <1>2, <1>3

USE SchedulerAssumption

(* The pool that has just been constructed satisfies the invariant.         *)
LEMMA InitInv == Init => SchedulerInv
<1> SUFFICES ASSUME Init PROVE SchedulerInv
  OBVIOUS
<1>1. TypeOK
  BY DEF Init, TypeOK, Statuses, Terminal
<1>2. HeldExactlyOnce
  BY DEF Init, HeldExactlyOnce, Queued, Held
<1> QED
  BY <1>1, <1>2 DEF Init, SchedulerInv, WorkerInv, RunningInv, OutcomeInv, CancelInv,
                    ShutdownInv, HostInv, Stopping

Running == {"produce", "returned", "publish"}

(* RunningInv outlives a step that leaves the queue, the holders and the    *)
(* statuses alone and takes no worker out of the run of its operation.      *)
LEMMA RunningFrame ==
  ASSUME RunningInv, UNCHANGED <<jobs, job, status>>,
         \A w \in Workers : /\ wpc[w] = "claimed" => wpc'[w] = "claimed"
                            /\ wpc[w] \in Running => wpc'[w] \in Running
  PROVE  RunningInv'
<1>1. \A o : Queued(o)' <=> Queued(o)
  BY DEF Queued
<1>2. \A o \in Ops : status[o] = "Running" =>
         \E w \in Workers : job[w] = o /\ wpc[w] \in Running
  BY DEF RunningInv, Running
<1>3. \A o \in Ops : status[o] = "Pending" =>
         Queued(o) \/ \E w \in Workers : job[w] = o /\ wpc[w] = "claimed"
  BY DEF RunningInv
<1>4. \A o \in Ops : status'[o] = "Running" =>
         \E w \in Workers : job'[w] = o /\ wpc'[w] \in Running
  BY <1>2
<1>5. \A o \in Ops : status'[o] = "Pending" =>
         Queued(o)' \/ \E w \in Workers : job'[w] = o /\ wpc'[w] = "claimed"
  BY <1>1, <1>3
<1> QED
  BY <1>4, <1>5 DEF RunningInv, Running

(* A worker that holds an operation holds one of Ops, alone, and is         *)
(* somewhere between taking it and notifying its waiters.                   *)
LEMMA HolderFacts ==
  ASSUME SchedulerInv, NEW w \in Workers
  PROVE  /\ wpc[w] \in {"claimed", "publish", "notify"} \cup Running =>
              /\ job[w] \in Ops
              /\ \A u \in Workers : u # w => job[u] # job[w]
         /\ wpc[w] \in {"publish", "notify"} => verdict[w] \in Terminal
         /\ job[w] # Nobody => status[job[w]] # "Unsubmitted"
<1>1. wpc[w] \in {"loop", "asleep", "exited", "claimed", "notify"} \cup Running
  BY DEF SchedulerInv, TypeOK, Running
<1>2. wpc[w] \in {"publish", "notify"} => verdict[w] \in Terminal
  BY DEF SchedulerInv, TypeOK, WorkerInv
<1>3. wpc[w] \in {"claimed", "publish", "notify"} \cup Running =>
        job[w] \in Ops /\ job[w] # Nobody
  <2>1. wpc[w] \in {"claimed", "publish", "notify"} \cup Running =>
          wpc[w] \notin {"loop", "asleep", "exited"}
    BY DEF Running
  <2>2. job[w] = Nobody <=> wpc[w] \in {"loop", "asleep", "exited"}
    BY DEF SchedulerInv, WorkerInv
  <2>3. job[w] \in Ops \cup {Nobody}
    BY DEF SchedulerInv, TypeOK
  <2> QED
    BY <2>1, <2>2, <2>3
<1>4. job[w] # Nobody => \A u \in Workers : u # w => job[u] # job[w]
  BY DEF SchedulerInv, HeldExactlyOnce
<1>5. job[w] # Nobody => status[job[w]] # "Unsubmitted"
  <2>1. CASE wpc[w] = "claimed"
    BY <2>1 DEF SchedulerInv, WorkerInv
  <2>2. CASE wpc[w] \in Running
    BY <2>2 DEF SchedulerInv, WorkerInv, Running
  <2>3. CASE wpc[w] = "notify"
    BY <2>3, <1>2 DEF SchedulerInv, WorkerInv, Terminal
  <2>4. CASE wpc[w] \in {"loop", "asleep", "exited"}
    BY <2>4 DEF SchedulerInv, WorkerInv
  <2> QED
    BY <1>1, <2>1, <2>2, <2>3, <2>4
<1> QED
  BY <1>2, <1>3, <1>4, <1>5

(* submit: the new operation was on no queue and in no worker's hands.      *)
LEMMA SubmitInv ==
  ASSUME SchedulerInv, NEW h \in Hosts, NEW o \in Ops, Submit(h, o)
  PROVE  SchedulerInv'
<1> USE DEF SchedulerInv, workerVars, stateVars, bodyVars, cancelVars, hostVars, Submit
<1>1. TypeOK'
  BY PushLemma DEF TypeOK, Terminal, Statuses, WorkerInv
<1>2. HeldExactlyOnce'
  <2>1. ~Queued(o) /\ ~Held(o)
    BY HolderFacts DEF HeldExactlyOnce, Held
  <2>2. \A p \in Ops :
          /\ Held(p)' <=> Held(p)
          /\ Queued(p)' <=> Queued(p) \/ p = o
    BY PushLemma DEF Queued, Held
  <2>3. \A i, j \in DOMAIN jobs' : jobs'[i] = jobs'[j] => i = j
    BY <2>1, PushLemma DEF HeldExactlyOnce, Queued
  <2> QED
    BY <2>1, <2>2, <2>3 DEF HeldExactlyOnce, TypeOK
<1>3. WorkerInv'
  <2>1. \A w \in Workers : job[w] # o
    BY HolderFacts
  <2> QED
    BY <2>1 DEF WorkerInv, TypeOK
<1>4. RunningInv'
  <2>1. \A p \in Ops : Queued(p)' <=> Queued(p) \/ p = o
    BY PushLemma DEF Queued
  <2> QED
    BY <2>1 DEF RunningInv, TypeOK
<1>5. OutcomeInv'
  BY PushLemma DEF OutcomeInv, TypeOK, WorkerInv, CancelInv, Terminal
<1>6. CancelInv'
  BY PushLemma DEF CancelInv, TypeOK, WorkerInv, OutcomeInv, Terminal
<1>7. ShutdownInv'
  BY PushLemma DEF ShutdownInv, Stopping, TypeOK, WorkerInv
<1>8. HostInv'
  BY PushLemma DEF HostInv, TypeOK, WorkerInv
<1> QED
  BY <1>1, <1>2, <1>3, <1>4, <1>5, <1>6, <1>7, <1>8

(* notify_one moves at most one sleeper back to the loop.                   *)
LEMMA SubmitNotifyInv ==
  ASSUME SchedulerInv, NEW h \in Hosts, SubmitNotify(h)
  PROVE  SchedulerInv'
<1> USE DEF SchedulerInv, workerVars, stateVars, bodyVars, cancelVars, hostVars, SubmitNotify, NotifyOne
<1>1. TypeOK'
  BY DEF TypeOK, Terminal, Statuses, WorkerInv
<1>2. WorkerInv'
  BY DEF WorkerInv, TypeOK
<1>3. RunningInv'
  BY RunningFrame DEF Running, TypeOK
<1>4. ShutdownInv'
  BY DEF ShutdownInv, Stopping, TypeOK, WorkerInv
<1>5. HostInv'
  BY DEF HostInv, TypeOK, WorkerInv
<1>6. HeldExactlyOnce' /\ OutcomeInv' /\ CancelInv'
  BY DEF HeldExactlyOnce, Queued, Held, OutcomeInv, CancelInv
<1> QED
  BY <1>1, <1>2, <1>3, <1>4, <1>5, <1>6

(* request_cancel: a request is "in_time" only if no worker has decided.    *)
LEMMA RequestCancelInv ==
  ASSUME SchedulerInv, NEW h \in Hosts, NEW o \in Ops, RequestCancel(h, o)
  PROVE  SchedulerInv'
<1> USE DEF SchedulerInv, workerVars, stateVars, bodyVars, cancelVars, hostVars, RequestCancel, Decided, Handed
<1>1. TypeOK'
  BY DEF TypeOK, Terminal, Statuses, WorkerInv
<1>2. WorkerInv'
  BY DEF WorkerInv, TypeOK
<1>3. CancelInv'
  BY DEF CancelInv, TypeOK, WorkerInv, OutcomeInv, Terminal
<1>4. HeldExactlyOnce' /\ RunningInv' /\ OutcomeInv' /\ ShutdownInv' /\ HostInv'
  BY DEF HeldExactlyOnce, Queued, Held, RunningInv, OutcomeInv, ShutdownInv, Stopping, HostInv
<1> QED
  BY <1>1, <1>2, <1>3, <1>4

(* wait: the handle it is called on names a submitted operation.            *)
LEMMA WaitInv ==
  ASSUME SchedulerInv, NEW h \in Hosts, NEW o \in Ops, Wait(h, o)
  PROVE  SchedulerInv'
<1> USE DEF SchedulerInv, workerVars, stateVars, bodyVars, cancelVars, hostVars, Wait, Handed
<1>1. TypeOK'
  BY DEF TypeOK, Terminal, Statuses
<1>2. ShutdownInv'
  BY DEF ShutdownInv, Stopping, TypeOK
<1>3. HostInv'
  BY DEF HostInv, TypeOK
<1>4. HeldExactlyOnce' /\ WorkerInv' /\ RunningInv' /\ OutcomeInv' /\ CancelInv'
  BY DEF HeldExactlyOnce, Queued, Held, WorkerInv, RunningInv, OutcomeInv, CancelInv
<1> QED
  BY <1>1, <1>2, <1>3, <1>4

(* The predicate of wait reads the state and changes the host alone.        *)
LEMMA WaitTestInv ==
  ASSUME SchedulerInv, NEW h \in Hosts, WaitTest(h)
  PROVE  SchedulerInv'
<1> USE DEF SchedulerInv, workerVars, stateVars, bodyVars, cancelVars, hostVars, WaitTest
<1>1. TypeOK'
  BY DEF TypeOK, Terminal, Statuses
<1>2. ShutdownInv'
  BY DEF ShutdownInv, Stopping, TypeOK
<1>3. HostInv'
  BY DEF HostInv, TypeOK
<1>4. HeldExactlyOnce' /\ WorkerInv' /\ RunningInv' /\ OutcomeInv' /\ CancelInv'
  BY DEF HeldExactlyOnce, Queued, Held, WorkerInv, RunningInv, OutcomeInv, CancelInv
<1> QED
  BY <1>1, <1>2, <1>3, <1>4

(* A spurious wakeup of a waiter changes the waiter alone.                  *)
LEMMA SpuriousHostWakeupInv ==
  ASSUME SchedulerInv, NEW h \in Hosts, SpuriousHostWakeup(h)
  PROVE  SchedulerInv'
<1> USE DEF SchedulerInv, workerVars, stateVars, bodyVars, cancelVars, hostVars, SpuriousHostWakeup
<1>1. TypeOK'
  BY DEF TypeOK, Terminal, Statuses
<1>2. ShutdownInv'
  BY DEF ShutdownInv, Stopping, TypeOK
<1>3. HostInv'
  BY DEF HostInv, TypeOK
<1>4. HeldExactlyOnce' /\ WorkerInv' /\ RunningInv' /\ OutcomeInv' /\ CancelInv'
  BY DEF HeldExactlyOnce, Queued, Held, WorkerInv, RunningInv, OutcomeInv, CancelInv
<1> QED
  BY <1>1, <1>2, <1>3, <1>4

(* worker_loop: the job popped leaves the queue as it enters one hand.      *)
LEMMA WorkerLoopInv ==
  ASSUME SchedulerInv, NEW w \in Workers, WorkerLoop(w)
  PROVE  SchedulerInv'
<1> USE DEF SchedulerInv, workerVars, stateVars, bodyVars, cancelVars, hostVars
<1>1. CASE FallAsleep(w)
  <2> USE <1>1 DEF WorkerLoop, FallAsleep
  <2>1. TypeOK'
    BY DEF TypeOK
  <2>2. WorkerInv'
    BY DEF WorkerInv, TypeOK
  <2>3. RunningInv'
    BY RunningFrame DEF Running, TypeOK
  <2>4. ShutdownInv'
    BY DEF ShutdownInv, Stopping, TypeOK
  <2>5. HeldExactlyOnce' /\ OutcomeInv' /\ CancelInv' /\ HostInv'
    BY DEF HeldExactlyOnce, Queued, Held, OutcomeInv, CancelInv, HostInv
  <2> QED
    BY <2>1, <2>2, <2>3, <2>4, <2>5
<1>2. CASE Exit(w)
  <2> USE <1>2 DEF WorkerLoop, Exit
  <2>1. TypeOK'
    BY DEF TypeOK
  <2>2. WorkerInv'
    BY DEF WorkerInv, TypeOK
  <2>3. RunningInv'
    BY RunningFrame DEF Running, TypeOK
  <2>4. ShutdownInv'
    BY DEF ShutdownInv, Stopping, TypeOK
  <2>5. HeldExactlyOnce' /\ OutcomeInv' /\ CancelInv' /\ HostInv'
    BY DEF HeldExactlyOnce, Queued, Held, OutcomeInv, CancelInv, HostInv
  <2> QED
    BY <2>1, <2>2, <2>3, <2>4, <2>5
<1>3. CASE Claim(w)
  <2> DEFINE o == Head(jobs)
  <2> USE <1>3 DEF WorkerLoop, Claim
  <2>0. /\ o \in Ops /\ o # Nobody /\ status[o] = "Pending" /\ Queued(o) /\ ~Held(o)
        /\ job[w] = Nobody /\ verdict[w] = "none"
    <3>1. o \in Ops /\ Queued(o)
      BY ClaimLemma DEF Queued
    <3>2. status[o] = "Pending" /\ ~Held(o)
      BY <3>1 DEF HeldExactlyOnce
    <3>3. job[w] = Nobody /\ verdict[w] = "none"
      BY DEF WorkerInv
    <3> QED
      BY <3>1, <3>2, <3>3
  <2>1. TypeOK'
    BY ClaimLemma DEF TypeOK
  <2>2. \A p \in Ops : Queued(p)' <=> Queued(p) /\ p # o
    <3> SUFFICES ASSUME NEW p \in Ops
                 PROVE  Queued(p)' <=> Queued(p) /\ p # o
      OBVIOUS
    <3>1. ASSUME NEW i \in DOMAIN jobs', jobs'[i] = p PROVE Queued(p) /\ p # o
      BY <3>1, ClaimLemma, SMTT(20) DEF Queued, HeldExactlyOnce
    <3>2. ASSUME NEW i \in DOMAIN jobs, jobs[i] = p, p # o PROVE Queued(p)'
      <4>1. i \in Int /\ i - 1 \in DOMAIN Tail(jobs)
        BY <3>2, ClaimLemma
      <4>2. Tail(jobs)[i - 1] = jobs[(i - 1) + 1]
        BY <4>1, ClaimLemma
      <4> QED
        BY <3>2, <4>1, <4>2 DEF Queued
    <3> QED
      BY <3>1, <3>2 DEF Queued
  <2>3. \A p \in Ops : Held(p)' <=> Held(p) \/ p = o
    BY <2>0 DEF Held, TypeOK
  <2>4. HeldExactlyOnce'
    <3>1. ASSUME NEW i \in DOMAIN jobs', NEW j \in DOMAIN jobs', jobs'[i] = jobs'[j]
          PROVE  i = j
      <4>1. /\ i \in Int /\ j \in Int
            /\ i + 1 \in DOMAIN jobs /\ j + 1 \in DOMAIN jobs /\ jobs[i + 1] = jobs[j + 1]
        BY <3>1, ClaimLemma
      <4>2. i + 1 = j + 1
        BY <4>1 DEF HeldExactlyOnce
      <4> QED
        BY <4>1, <4>2
    <3>2. \A u, v \in Workers : job'[u] = job'[v] /\ job'[u] # Nobody => u = v
      BY <2>0 DEF HeldExactlyOnce, Held, TypeOK
    <3>3. \A p \in Ops :
            /\ Queued(p)' => status'[p] = "Pending" /\ ~Held(p)'
            /\ status'[p] = "Pending" => Queued(p)' \/ Held(p)'
            /\ status'[p] = "Running" => Held(p)'
      BY <2>2, <2>3 DEF HeldExactlyOnce
    <3> QED
      BY <3>1, <3>2, <3>3 DEF HeldExactlyOnce
  <2>5. WorkerInv'
    BY <2>0 DEF WorkerInv, TypeOK
  <2>6. RunningInv'
    <3>1. \A p \in Ops : status'[p] = "Pending" =>
             Queued(p)' \/ \E v \in Workers : job'[v] = p /\ wpc'[v] = "claimed"
      <4> SUFFICES ASSUME NEW p \in Ops, status[p] = "Pending", p # o, ~Queued(p)
                   PROVE  \E v \in Workers : job'[v] = p /\ wpc'[v] = "claimed"
        BY <2>2 DEF TypeOK
      <4>1. PICK v \in Workers : job[v] = p /\ wpc[v] = "claimed"
        BY DEF RunningInv
      <4> QED
        BY <4>1 DEF TypeOK
    <3>2. \A p \in Ops : status'[p] = "Running" =>
             \E v \in Workers : job'[v] = p /\ wpc'[v] \in {"produce", "returned", "publish"}
      <4> SUFFICES ASSUME NEW p \in Ops, status[p] = "Running"
                   PROVE  \E v \in Workers :
                            job'[v] = p /\ wpc'[v] \in {"produce", "returned", "publish"}
        OBVIOUS
      <4>1. PICK v \in Workers : job[v] = p /\ wpc[v] \in {"produce", "returned", "publish"}
        BY DEF RunningInv
      <4> QED
        BY <4>1 DEF TypeOK
    <3> QED
      BY <3>1, <3>2 DEF RunningInv
  <2>7. CancelInv'
    BY <2>0 DEF CancelInv, TypeOK
  <2>8. ShutdownInv'
    BY DEF ShutdownInv, Stopping, TypeOK
  <2>9. OutcomeInv' /\ HostInv'
    BY DEF OutcomeInv, HostInv
  <2> QED
    BY <2>1, <2>4, <2>5, <2>6, <2>7, <2>8, <2>9
<1> QED
  BY <1>1, <1>2, <1>3 DEF WorkerLoop

(* A spurious wakeup of a worker sends it back to its predicate.            *)
LEMMA SpuriousWorkerWakeupInv ==
  ASSUME SchedulerInv, NEW w \in Workers, SpuriousWorkerWakeup(w)
  PROVE  SchedulerInv'
<1> USE DEF SchedulerInv, workerVars, stateVars, bodyVars, cancelVars, hostVars, SpuriousWorkerWakeup
<1>1. TypeOK'
  BY DEF TypeOK, Terminal, Statuses, WorkerInv
<1>2. WorkerInv'
  BY DEF WorkerInv, TypeOK
<1>3. RunningInv'
  BY RunningFrame DEF Running, TypeOK
<1>4. ShutdownInv'
  BY DEF ShutdownInv, Stopping, TypeOK, WorkerInv
<1>5. HeldExactlyOnce' /\ OutcomeInv' /\ CancelInv' /\ HostInv'
  BY DEF HeldExactlyOnce, Queued, Held, OutcomeInv, CancelInv, HostInv
<1> QED
  BY <1>1, <1>2, <1>3, <1>4, <1>5

(* Pending becomes Running in the hands of the worker that claimed it.      *)
LEMMA BeginInv ==
  ASSUME SchedulerInv, NEW w \in Workers, Begin(w)
  PROVE  SchedulerInv'
<1> USE DEF SchedulerInv, workerVars, stateVars, bodyVars, cancelVars, hostVars, Begin
<1>1. TypeOK'
  BY DEF TypeOK, Terminal, Statuses, WorkerInv
<1>2. HeldExactlyOnce'
  BY DEF HeldExactlyOnce, Queued, Held, TypeOK, WorkerInv, Terminal
<1>3. WorkerInv'
  BY DEF WorkerInv, TypeOK, HeldExactlyOnce, Queued, Held, Terminal
<1>4. RunningInv'
  BY DEF RunningInv, Queued, TypeOK, WorkerInv, HeldExactlyOnce, Held, Terminal
<1>5. OutcomeInv'
  BY DEF OutcomeInv, TypeOK, WorkerInv, CancelInv, Terminal
<1>6. CancelInv'
  BY DEF CancelInv, TypeOK, WorkerInv, OutcomeInv, Terminal
<1>7. ShutdownInv'
  BY DEF ShutdownInv, Stopping, TypeOK, WorkerInv
<1>8. HostInv'
  BY DEF HostInv, TypeOK, WorkerInv
<1> QED
  BY <1>1, <1>2, <1>3, <1>4, <1>5, <1>6, <1>7, <1>8

(* A checkpoint decides Cancelled only when the stop flag is up.            *)
LEMMA CheckpointInv ==
  ASSUME SchedulerInv, NEW w \in Workers, NEW f \in Fractions, Checkpoint(w, f)
  PROVE  SchedulerInv'
<1> USE DEF SchedulerInv, workerVars, stateVars, bodyVars, cancelVars, hostVars, Checkpoint, Decide
<1>1. TypeOK'
  <2>1. job[w] \in Ops
    BY HolderFacts DEF Running
  <2>2. fraction' \in [Ops -> 0 .. Full] /\ reports' \in [Ops -> 0 .. MaxReports]
    <3>1. fraction \in [Ops -> 0 .. Full] /\ reports \in [Ops -> 0 .. MaxReports]
      BY DEF TypeOK
    <3>2. Clamped(f) \in 0 .. Full
      BY DEF Clamped
    <3>3. reports[job[w]] - 1 \in 0 .. MaxReports
      BY <2>1, <3>1
    <3> QED
      BY <2>1, <3>1, <3>2, <3>3
  <2>3. verdict' \in [Workers -> Terminal \cup {"none"}]
    BY DEF TypeOK, Terminal
  <2>4. wpc' \in [Workers -> {"loop", "asleep", "claimed", "produce", "returned",
                              "publish", "notify", "exited"}]
    <3>1. wpc' = wpc \/ wpc' = [wpc EXCEPT ![w] = "publish"]
      OBVIOUS
    <3>2. wpc \in [Workers -> {"loop", "asleep", "claimed", "produce", "returned",
                               "publish", "notify", "exited"}]
      BY DEF TypeOK
    <3> HIDE DEF Checkpoint, SchedulerInv
    <3> QED
      BY <3>1, <3>2, Zenon
  <2> QED
    BY <2>1, <2>2, <2>3, <2>4 DEF TypeOK
<1>2. WorkerInv'
  <2>1. CASE stop[job[w]]
    BY <2>1 DEF WorkerInv, TypeOK
  <2>2. CASE ~stop[job[w]]
    BY <2>2 DEF WorkerInv
  <2> QED
    BY <2>1, <2>2
<1>3. RunningInv'
  BY RunningFrame DEF Running, TypeOK
<1>4. CancelInv'
  BY DEF CancelInv, TypeOK, WorkerInv
<1>5. ShutdownInv'
  BY DEF ShutdownInv, Stopping, TypeOK, WorkerInv
<1>6. HeldExactlyOnce' /\ OutcomeInv' /\ HostInv'
  BY DEF HeldExactlyOnce, Queued, Held, OutcomeInv, HostInv
<1> QED
  BY <1>1, <1>2, <1>3, <1>4, <1>5, <1>6

(* So does a poll of the stop flag.                                         *)
LEMMA PollInv ==
  ASSUME SchedulerInv, NEW w \in Workers, Poll(w)
  PROVE  SchedulerInv'
<1> USE DEF SchedulerInv, workerVars, stateVars, bodyVars, cancelVars, hostVars, Poll, Decide
<1>1. TypeOK'
  BY DEF TypeOK, Terminal, Statuses, WorkerInv
<1>2. WorkerInv'
  BY DEF WorkerInv, TypeOK
<1>3. RunningInv'
  BY RunningFrame DEF Running, TypeOK
<1>4. CancelInv'
  BY DEF CancelInv, TypeOK, WorkerInv
<1>5. ShutdownInv'
  BY DEF ShutdownInv, Stopping, TypeOK, WorkerInv
<1>6. HeldExactlyOnce' /\ OutcomeInv' /\ HostInv'
  BY DEF HeldExactlyOnce, Queued, Held, OutcomeInv, HostInv
<1> QED
  BY <1>1, <1>2, <1>3, <1>4, <1>5, <1>6

(* A throw decides Failed, whatever was asked.                              *)
LEMMA ThrowInv ==
  ASSUME SchedulerInv, NEW w \in Workers, Throw(w)
  PROVE  SchedulerInv'
<1> USE DEF SchedulerInv, workerVars, stateVars, bodyVars, cancelVars, hostVars, Throw, Decide
<1>1. TypeOK'
  BY DEF TypeOK, Terminal, Statuses, WorkerInv
<1>2. WorkerInv'
  BY DEF WorkerInv, TypeOK
<1>3. RunningInv'
  BY RunningFrame DEF Running, TypeOK
<1>4. CancelInv'
  BY DEF CancelInv, TypeOK, WorkerInv
<1>5. ShutdownInv'
  BY DEF ShutdownInv, Stopping, TypeOK, WorkerInv
<1>6. HeldExactlyOnce' /\ OutcomeInv' /\ HostInv'
  BY DEF HeldExactlyOnce, Queued, Held, OutcomeInv, HostInv
<1> QED
  BY <1>1, <1>2, <1>3, <1>4, <1>5, <1>6

(* A return decides nothing yet.                                            *)
LEMMA ReturnInv ==
  ASSUME SchedulerInv, NEW w \in Workers, Return(w)
  PROVE  SchedulerInv'
<1> USE DEF SchedulerInv, workerVars, stateVars, bodyVars, cancelVars, hostVars, Return
<1>1. TypeOK'
  BY DEF TypeOK, Terminal, Statuses, WorkerInv
<1>2. WorkerInv'
  BY DEF WorkerInv, TypeOK
<1>3. RunningInv'
  BY RunningFrame DEF Running, TypeOK
<1>4. ShutdownInv'
  BY DEF ShutdownInv, Stopping, TypeOK, WorkerInv
<1>5. HeldExactlyOnce' /\ OutcomeInv' /\ CancelInv' /\ HostInv'
  BY DEF HeldExactlyOnce, Queued, Held, OutcomeInv, CancelInv, HostInv
<1> QED
  BY <1>1, <1>2, <1>3, <1>4, <1>5

(* The stop check: an operation doomed in time is not decided Completed.    *)
LEMMA BoundaryInv ==
  ASSUME SchedulerInv, NEW w \in Workers, Boundary(w)
  PROVE  SchedulerInv'
<1> USE DEF SchedulerInv, workerVars, stateVars, bodyVars, cancelVars, hostVars, Boundary, Decide
<1>1. TypeOK'
  BY DEF TypeOK, Terminal, Statuses, WorkerInv
<1>2. WorkerInv'
  BY DEF WorkerInv, TypeOK
<1>3. RunningInv'
  BY RunningFrame DEF Running, TypeOK
<1>4. CancelInv'
  BY DEF CancelInv, TypeOK, WorkerInv, OutcomeInv, Terminal
<1>5. ShutdownInv'
  BY DEF ShutdownInv, Stopping, TypeOK, WorkerInv
<1>6. HeldExactlyOnce' /\ OutcomeInv' /\ HostInv'
  BY DEF HeldExactlyOnce, Queued, Held, OutcomeInv, HostInv
<1> QED
  BY <1>1, <1>2, <1>3, <1>4, <1>5, <1>6

(* Publication turns Running into the verdict, with its value or error.     *)
LEMMA PublishInv ==
  ASSUME SchedulerInv, NEW w \in Workers, Publish(w)
  PROVE  SchedulerInv'
<1> USE DEF SchedulerInv, workerVars, stateVars, bodyVars, cancelVars, hostVars, Publish
<1>0. /\ job[w] \in Ops /\ verdict[w] \in Terminal
      /\ status[job[w]] = "Running"
      /\ \A u \in Workers : u # w => job[u] # job[w]
  BY HolderFacts DEF WorkerInv
<1>1. TypeOK'
  BY <1>0 DEF TypeOK, Statuses
<1>2. HeldExactlyOnce'
  BY DEF HeldExactlyOnce, Queued, Held, TypeOK, WorkerInv, Terminal
<1>3. WorkerInv'
  BY DEF WorkerInv, TypeOK, HeldExactlyOnce, Queued, Held, Terminal
<1>4. RunningInv'
  <2>1. /\ \A p : Queued(p)' <=> Queued(p)
        /\ \A p \in Ops : p # job[w] => status'[p] = status[p]
        /\ status'[job[w]] \in Terminal
        /\ \A u \in Workers : u # w => wpc'[u] = wpc[u]
    BY <1>0 DEF Queued, TypeOK
  <2>2. \A p \in Ops : status'[p] \in {"Pending", "Running"} => p # job[w] /\ status[p] = status'[p]
    BY <2>1 DEF Terminal
  <2> QED
    BY <2>1, <2>2 DEF RunningInv
<1>5. OutcomeInv'
  <2> SUFFICES ASSUME NEW o \in Ops
               PROVE  /\ value'[o] <=> status'[o] = "Completed"
                      /\ error'[o] <=> status'[o] = "Failed"
    BY DEF OutcomeInv
  <2>1. CASE o = job[w]
    BY <1>0, <2>1 DEF TypeOK
  <2>2. CASE o # job[w]
    BY <2>2 DEF OutcomeInv, TypeOK
  <2> QED
    BY <2>1, <2>2
<1>6. CancelInv'
  BY DEF CancelInv, TypeOK, WorkerInv, OutcomeInv, Terminal
<1>7. ShutdownInv'
  BY DEF ShutdownInv, Stopping, TypeOK, WorkerInv
<1>8. HostInv'
  <2>1. \A o \in Ops : status[o] # "Unsubmitted" => status'[o] # "Unsubmitted"
    BY <1>0 DEF TypeOK, Terminal
  <2> QED
    BY <2>1 DEF HostInv
<1> QED
  BY <1>1, <1>2, <1>3, <1>4, <1>5, <1>6, <1>7, <1>8

(* notify_all, and the worker lets go of an operation that has settled.     *)
LEMMA NotifyWaitersInv ==
  ASSUME SchedulerInv, NEW w \in Workers, NotifyWaiters(w)
  PROVE  SchedulerInv'
<1> USE DEF SchedulerInv, workerVars, stateVars, bodyVars, cancelVars, hostVars, NotifyWaiters, Waiters
<1>0. /\ job[w] \in Ops /\ verdict[w] \in Terminal
      /\ status[job[w]] = verdict[w]
      /\ \A u \in Workers : u # w => job[u] # job[w]
  BY HolderFacts DEF WorkerInv
<1>1. TypeOK'
  BY DEF TypeOK, Terminal, Statuses, WorkerInv
<1>2. HeldExactlyOnce'
  <2>1. \A p \in Ops :
          /\ Queued(p)' <=> Queued(p)
          /\ Held(p)' <=> Held(p) /\ p # job[w]
    BY <1>0 DEF Queued, Held, TypeOK
  <2>2. \A u, v \in Workers : job'[u] = job'[v] /\ job'[u] # Nobody => u = v
    BY DEF HeldExactlyOnce, TypeOK
  <2>3. \A i, j \in DOMAIN jobs' : jobs'[i] = jobs'[j] => i = j
    BY DEF HeldExactlyOnce
  <2> QED
    BY <1>0, <2>1, <2>2, <2>3 DEF HeldExactlyOnce, Terminal
<1>3. WorkerInv'
  BY DEF WorkerInv, TypeOK, HeldExactlyOnce, Queued, Held, Terminal
<1>4. RunningInv'
  <2>1. /\ \A p : Queued(p)' <=> Queued(p)
        /\ \A u \in Workers : u # w => wpc'[u] = wpc[u] /\ job'[u] = job[u]
        /\ \A p \in Ops : status'[p] \in {"Pending", "Running"} => p # job[w]
    BY <1>0 DEF Queued, TypeOK, Terminal
  <2> QED
    BY <2>1 DEF RunningInv
<1>5. CancelInv'
  BY DEF CancelInv, TypeOK, WorkerInv, OutcomeInv, Terminal
<1>6. ShutdownInv'
  BY DEF ShutdownInv, Stopping, TypeOK, WorkerInv
<1>7. HostInv'
  BY DEF HostInv, TypeOK, WorkerInv
<1>8. OutcomeInv'
  BY DEF OutcomeInv
<1> QED
  BY <1>1, <1>2, <1>3, <1>4, <1>5, <1>6, <1>7, <1>8

(* stopping_ is set with no submission in progress.                         *)
LEMMA SetStoppingInv ==
  ASSUME SchedulerInv, SetStopping
  PROVE  SchedulerInv'
<1> USE DEF SchedulerInv, workerVars, stateVars, bodyVars, cancelVars, hostVars, SetStopping
<1>1. TypeOK'
  BY DEF TypeOK, Terminal, Statuses
<1>2. ShutdownInv'
  BY DEF ShutdownInv, Stopping, TypeOK
<1>3. HeldExactlyOnce' /\ WorkerInv' /\ RunningInv' /\ OutcomeInv' /\ CancelInv' /\ HostInv'
  BY DEF HeldExactlyOnce, Queued, Held, WorkerInv, RunningInv, OutcomeInv, CancelInv, HostInv
<1> QED
  BY <1>1, <1>2, <1>3

(* The destructor's notify_all wakes workers and nothing else.              *)
LEMMA NotifyStopInv ==
  ASSUME SchedulerInv, NotifyStop
  PROVE  SchedulerInv'
<1> USE DEF SchedulerInv, workerVars, stateVars, bodyVars, cancelVars, hostVars, NotifyStop, NotifyAll
<1>1. TypeOK'
  BY DEF TypeOK, Terminal, Statuses, WorkerInv
<1>2. WorkerInv'
  BY DEF WorkerInv, TypeOK
<1>3. RunningInv'
  BY RunningFrame DEF Running, TypeOK
<1>4. ShutdownInv'
  BY DEF ShutdownInv, Stopping, TypeOK, WorkerInv
<1>5. HeldExactlyOnce' /\ OutcomeInv' /\ CancelInv' /\ HostInv'
  BY DEF HeldExactlyOnce, Queued, Held, OutcomeInv, CancelInv, HostInv
<1> QED
  BY <1>1, <1>2, <1>3, <1>4, <1>5

(* The join returns only when every worker has returned.                    *)
LEMMA JoinAllInv ==
  ASSUME SchedulerInv, JoinAll
  PROVE  SchedulerInv'
<1> USE DEF SchedulerInv, workerVars, stateVars, bodyVars, cancelVars, hostVars, JoinAll
<1>1. TypeOK'
  BY DEF TypeOK, Terminal, Statuses
<1>2. ShutdownInv'
  BY DEF ShutdownInv, Stopping, TypeOK
<1>3. HeldExactlyOnce' /\ WorkerInv' /\ RunningInv' /\ OutcomeInv' /\ CancelInv' /\ HostInv'
  BY DEF HeldExactlyOnce, Queued, Held, WorkerInv, RunningInv, OutcomeInv, CancelInv, HostInv
<1> QED
  BY <1>1, <1>2, <1>3

------------------------------------------------------------------------------
(* Every step of hosts, workers and destructor keeps the invariant.         *)
LEMMA NextInv == SchedulerInv /\ [Next]_vars => SchedulerInv'
<1> SUFFICES ASSUME SchedulerInv, [Next]_vars PROVE SchedulerInv'
  OBVIOUS
<1>1. CASE \E w \in Workers : WorkerStep(w) \/ SpuriousWorkerWakeup(w)
  BY <1>1, WorkerLoopInv, BeginInv, CheckpointInv, PollInv, ThrowInv, ReturnInv,
     BoundaryInv, PublishInv, NotifyWaitersInv, SpuriousWorkerWakeupInv DEF WorkerStep
<1>2. CASE \E h \in Hosts : HostCall(h) \/ HostStep(h) \/ SpuriousHostWakeup(h)
  BY <1>2, SubmitInv, RequestCancelInv, WaitInv, SubmitNotifyInv, WaitTestInv,
     SpuriousHostWakeupInv DEF HostCall, HostStep
<1>3. CASE SetStopping \/ DtorStep
  BY <1>3, SetStoppingInv, NotifyStopInv, JoinAllInv DEF DtorStep
<1>4. CASE Quiescent \/ UNCHANGED vars
  <2>1. UNCHANGED vars
    BY <1>4 DEF Quiescent
  <2> USE <2>1 DEF SchedulerInv, vars, workerVars, stateVars, bodyVars, cancelVars, hostVars
  <2>2. TypeOK'
    BY DEF TypeOK
  <2>3. HeldExactlyOnce' /\ WorkerInv' /\ RunningInv'
    BY DEF HeldExactlyOnce, Queued, Held, WorkerInv, RunningInv
  <2>4. OutcomeInv' /\ CancelInv' /\ ShutdownInv' /\ HostInv'
    BY DEF OutcomeInv, CancelInv, ShutdownInv, Stopping, HostInv
  <2> QED
    BY <2>2, <2>3, <2>4
<1> QED
  BY <1>1, <1>2, <1>3, <1>4 DEF Next

(* SchedulerInv is an invariant for any pool, hosts and operations.         *)
THEOREM InvariantTheorem == SafeSpec => []SchedulerInv
<1>1. Init => SchedulerInv
  BY InitInv
<1>2. SchedulerInv /\ [Next]_vars => SchedulerInv'
  BY NextInv
<1> QED
  BY <1>1, <1>2, PTL DEF SafeSpec

(* The scheduler's variables keep their types, and a stored progress        *)
(* fraction stays within [0, 1.0] whatever the bodies report.               *)
THEOREM TypeTheorem == SafeSpec => []TypeOK
<1>1. SchedulerInv => TypeOK
  BY DEF SchedulerInv
<1> QED
  BY <1>1, InvariantTheorem, PTL

(* No operation is lost between submit and a worker, and none runs twice.   *)
THEOREM HeldExactlyOnceTheorem == SafeSpec => []HeldExactlyOnce
<1>1. SchedulerInv => HeldExactlyOnce
  BY DEF SchedulerInv
<1> QED
  BY <1>1, InvariantTheorem, PTL

(* A cancellation requested before the body returned discards the value.    *)
THEOREM CancelTheorem == SafeSpec => []CancelInTimeDiscards
<1>1. SchedulerInv => CancelInTimeDiscards
  BY DEF SchedulerInv, CancelInv, OutcomeInv, CancelInTimeDiscards
<1> QED
  BY <1>1, InvariantTheorem, PTL

(* When ~Scheduler returns, every operation ever submitted has settled.     *)
THEOREM DrainTheorem == SafeSpec => []JoinedMeansDrained
<1>1. SchedulerInv => JoinedMeansDrained
  <2> SUFFICES ASSUME SchedulerInv, dtor = "joined"
               PROVE  /\ jobs = <<>>
                      /\ \A o \in Ops : status[o] \in Terminal \cup {"Unsubmitted"}
    BY DEF JoinedMeansDrained
  <2>1. \A w \in Workers : wpc[w] = "exited" /\ jobs = <<>>
    BY DEF SchedulerInv, ShutdownInv
  <2>2. jobs = <<>>
    BY <2>1
  <2>3. \A o \in Ops : ~Queued(o)
    BY <2>2 DEF Queued
  <2>4. \A o \in Ops : status[o] # "Pending" /\ status[o] # "Running"
    BY <2>1, <2>3 DEF SchedulerInv, RunningInv
  <2> QED
    BY <2>2, <2>4 DEF SchedulerInv, TypeOK, Statuses
<1> QED
  BY <1>1, InvariantTheorem, PTL

(* No step changes what a settled operation reports.                        *)
LEMMA SettledStep ==
  ASSUME SchedulerInv, [Next]_vars, NEW o \in Ops, status[o] \in Terminal
  PROVE  /\ status'[o] = status[o] /\ value'[o] = value[o]
         /\ error'[o] = error[o] /\ fraction'[o] = fraction[o]
<1> DEFINE Kept == /\ status'[o] = status[o] /\ value'[o] = value[o]
                   /\ error'[o] = error[o] /\ fraction'[o] = fraction[o]
<1> USE DEF stateVars, bodyVars
<1>1. ASSUME NEW h \in Hosts, NEW p \in Ops, Submit(h, p) PROVE Kept
  BY <1>1 DEF Submit, Terminal, SchedulerInv, TypeOK
<1>2. ASSUME NEW w \in Workers, Begin(w) PROVE Kept
  BY <1>2 DEF Begin, Terminal, SchedulerInv, TypeOK, WorkerInv
<1>3. ASSUME NEW w \in Workers, NEW f \in Fractions, Checkpoint(w, f) PROVE Kept
  BY <1>3 DEF Checkpoint, Terminal, SchedulerInv, TypeOK, WorkerInv
<1>4. ASSUME NEW w \in Workers, Publish(w) PROVE Kept
  BY <1>4 DEF Publish, Terminal, SchedulerInv, TypeOK, WorkerInv
<1>5. ASSUME UNCHANGED <<status, value, error, fraction>> PROVE Kept
  BY <1>5
<1>6. CASE \E w \in Workers : WorkerStep(w) \/ SpuriousWorkerWakeup(w)
  BY <1>6, <1>2, <1>3, <1>4, <1>5 DEF WorkerStep, WorkerLoop, FallAsleep, Exit, Claim, Poll, Throw, Return,
     Boundary, NotifyWaiters, SpuriousWorkerWakeup
<1>7. CASE \E h \in Hosts : HostCall(h) \/ HostStep(h) \/ SpuriousHostWakeup(h)
  BY <1>7, <1>1, <1>5 DEF HostCall, HostStep, RequestCancel, Wait, SubmitNotify,
     WaitTest, SpuriousHostWakeup
<1>8. CASE SetStopping \/ DtorStep \/ Quiescent \/ UNCHANGED vars
  BY <1>8, <1>5 DEF SetStopping, DtorStep, NotifyStop, JoinAll, Quiescent, vars
<1> QED
  BY <1>6, <1>7, <1>8 DEF Next

(* The outcome a caller has read is final: status, value, error and        *)
(* progress of a settled operation never change (SettledIsFinal).           *)
THEOREM SettledTheorem == SafeSpec => SettledIsFinal
<1>1. SchedulerInv /\ [Next]_vars =>
        \A o \in Ops : status[o] \in Terminal =>
          /\ status'[o] = status[o] /\ value'[o] = value[o]
          /\ error'[o] = error[o] /\ fraction'[o] = fraction[o]
  BY SettledStep
<1> QED
  BY <1>1, InvariantTheorem, PTL DEF SafeSpec, SettledIsFinal

------------------------------------------------------------------------------
(* Refinement: the steps of the pool are steps of the contract or stutter.  *)

(* The contract's view of one operation, from the scheduler's state.        *)
Seen == [o \in Ops |-> [status |-> status[o], value |-> value[o], error |-> error[o]]]
Requested == {o \in Ops : asked[o] # "never"}
Doomed == {o \in Ops : asked[o] = "in_time"}

(* While the invariant holds, an operation is seen as its status reports.   *)
LEMMA SeenReport ==
  ASSUME SchedulerInv
  PROVE  Seen = [o \in Ops |-> Op!Report(status[o])]
<1> SUFFICES ASSUME NEW o \in Ops
             PROVE  [status |-> status[o], value |-> value[o], error |-> error[o]]
                      = Op!Report(status[o])
  BY DEF Seen
<1>1. value[o] \in BOOLEAN /\ error[o] \in BOOLEAN
  BY DEF SchedulerInv, TypeOK
<1>2. value[o] = (status[o] = "Completed") /\ error[o] = (status[o] = "Failed")
  BY <1>1 DEF SchedulerInv, OutcomeInv
<1> QED
  BY <1>2 DEF Op!Report

(* A step that changes the status of one operation only is a Becomes.       *)
LEMMA SeenBecomes ==
  ASSUME SchedulerInv, SchedulerInv', NEW o \in Ops, NEW s \in Statuses,
         status' = [status EXCEPT ![o] = s]
  PROVE  Op!Becomes(o, s)
<1>1. Seen = [p \in Ops |-> Op!Report(status[p])]
  BY SeenReport
<1>2. Seen' = [p \in Ops |-> Op!Report(status'[p])]
  <2>1. ASSUME NEW p \in Ops
        PROVE  [status |-> status'[p], value |-> value'[p], error |-> error'[p]]
                 = Op!Report(status'[p])
    <3>1. value'[p] \in BOOLEAN /\ error'[p] \in BOOLEAN
      BY DEF SchedulerInv, TypeOK
    <3>2. value'[p] = (status'[p] = "Completed") /\ error'[p] = (status'[p] = "Failed")
      BY <3>1 DEF SchedulerInv, OutcomeInv
    <3> QED
      BY <3>2 DEF Op!Report
  <2> QED
    BY <2>1 DEF Seen
<1>3. status'[o] = s /\ \A p \in Ops : p # o => status'[p] = status[p]
  BY DEF SchedulerInv, TypeOK
<1>4. Seen' = [Seen EXCEPT ![o] = Op!Report(s)]
  BY <1>1, <1>2, <1>3
<1> QED
  BY <1>4 DEF Op!Becomes, Seen

(* Every step of the scheduler is a contract step or a stutter.             *)
LEMMA ContractStep ==
  ASSUME SchedulerInv, SchedulerInv', [Next]_vars
  PROVE  Op!ContractNext \/ UNCHANGED <<Seen, Requested, Doomed>>
<1> DEFINE Goal == Op!ContractNext \/ UNCHANGED <<Seen, Requested, Doomed>>
<1> USE DEF stateVars, cancelVars, Seen, Requested, Doomed
<1>1. ASSUME NEW h \in Hosts, NEW o \in Ops, Submit(h, o) PROVE Goal
  <2>1. Op!Becomes(o, "Pending")
    BY <1>1, SeenBecomes DEF Submit, Statuses
  <2>2. Seen[o].status = "Unsubmitted" /\ UNCHANGED <<Requested, Doomed>>
    BY <1>1 DEF Submit
  <2> QED
    BY <2>1, <2>2 DEF Op!Submitted, Op!ContractNext
<1>2. ASSUME NEW w \in Workers, Begin(w) PROVE Goal
  <2>1. job[w] \in Ops /\ status[job[w]] = "Pending"
    BY <1>2, HolderFacts DEF Begin, SchedulerInv, WorkerInv
  <2>2. Op!Becomes(job[w], "Running")
    BY <1>2, <2>1, SeenBecomes DEF Begin, Statuses
  <2>3. Seen[job[w]].status = "Pending" /\ UNCHANGED <<Requested, Doomed>>
    BY <1>2, <2>1 DEF Begin
  <2> QED
    BY <2>1, <2>2, <2>3 DEF Op!Started, Op!ContractNext
<1>3. ASSUME NEW h \in Hosts, NEW o \in Ops, RequestCancel(h, o) PROVE Goal
  <2>1. Seen[o].status # "Unsubmitted" /\ UNCHANGED Seen
    BY <1>3 DEF RequestCancel, Handed
  <2>2. asked[o] = "never" /\ asked'[o] # "never" /\ \A p \in Ops : p # o => asked'[p] = asked[p]
    BY <1>3 DEF RequestCancel, SchedulerInv, CancelInv, TypeOK
  <2>3. Requested' = Requested \cup {o}
    BY <2>2
  <2>4. \/ UNCHANGED Doomed
        \/ status[o] \notin Terminal /\ Doomed' = Doomed \cup {o}
    <3>1. CASE asked'[o] = "in_time"
      <4>1. status[o] \notin Terminal
        BY <1>3, <3>1 DEF RequestCancel, SchedulerInv, TypeOK
      <4>2. Doomed' = Doomed \cup {o}
        BY <2>2, <3>1
      <4> QED
        BY <4>1, <4>2
    <3>2. CASE asked'[o] # "in_time"
      BY <2>2, <3>2
    <3> QED
      BY <3>1, <3>2
  <2>5. status[o] = Seen[o].status
    OBVIOUS
  <2> QED
    BY <2>1, <2>3, <2>4, <2>5 DEF Op!CancelAsked, Op!ContractNext, Op!Settled, Terminal
<1>4. ASSUME NEW w \in Workers, Publish(w) PROVE Goal
  <2>1. job[w] \in Ops /\ status[job[w]] = "Running" /\ verdict[w] \in Terminal
    BY <1>4, HolderFacts DEF Publish, SchedulerInv, WorkerInv
  <2>2. PICK o \in Ops : o = job[w]
    BY <2>1
  <2>3. PICK s \in Terminal : s = verdict[w]
    BY <2>1
  <2>4. Op!Becomes(o, s)
    <3>1. status' = [status EXCEPT ![o] = s]
      BY <1>4, <2>2, <2>3 DEF Publish
    <3> QED
      BY <3>1, SeenBecomes DEF Statuses
  <2>5. Op!MaySettleOn(o, s)
    <3>1. /\ s = "Completed" => o \notin Doomed
          /\ s = "Cancelled" => o \in Requested
      BY <2>2, <2>3 DEF SchedulerInv, CancelInv, WorkerInv
    <3> QED
      BY <3>1 DEF Op!MaySettleOn, Terminal
  <2>6. Seen[o].status = "Running" /\ UNCHANGED <<Requested, Doomed>>
    BY <1>4, <2>1, <2>2 DEF Publish
  <2>7. \E r \in {"Completed", "Cancelled", "Failed"} :
           Op!MaySettleOn(o, r) /\ Op!Becomes(o, r)
    BY <2>4, <2>5 DEF Terminal
  <2> QED
    BY <2>6, <2>7 DEF Op!Settles, Op!ContractNext
<1>5. ASSUME UNCHANGED <<status, value, error, asked>> PROVE Goal
  BY <1>5
<1>6. CASE \E w \in Workers : WorkerStep(w) \/ SpuriousWorkerWakeup(w)
  BY <1>6, <1>2, <1>4, <1>5 DEF WorkerStep, WorkerLoop, FallAsleep, Exit, Claim, Checkpoint, Poll, Throw, Return,
     Boundary, NotifyWaiters, SpuriousWorkerWakeup
<1>7. CASE \E h \in Hosts : HostCall(h) \/ HostStep(h) \/ SpuriousHostWakeup(h)
  BY <1>7, <1>1, <1>3, <1>5 DEF HostCall, HostStep, Wait, SubmitNotify, WaitTest,
     SpuriousHostWakeup
<1>8. CASE SetStopping \/ DtorStep \/ Quiescent \/ UNCHANGED vars
  BY <1>8, <1>5 DEF SetStopping, DtorStep, NotifyStop, JoinAll, Quiescent, vars
<1> QED
  BY <1>6, <1>7, <1>8 DEF Next

(* The scheduler implements the safety part of the contract: its initial    *)
(* states are the contract's, and every step is a contract step or stutters. *)
THEOREM ContractTheorem == SafeSpec => Op!ContractSafety
<1>1. Init => Op!ContractInit
  <2> SUFFICES ASSUME Init PROVE Op!ContractInit
    OBVIOUS
  <2>1. SchedulerInv
    BY InitInv
  <2>2. Seen = [o \in Ops |-> Op!Report(status[o])]
    BY <2>1, SeenReport
  <2>3. Seen = [o \in Ops |-> Op!Report("Unsubmitted")]
    BY <2>2 DEF Init
  <2>4. Requested = {} /\ Doomed = {}
    BY DEF Init, Requested, Doomed
  <2> QED
    BY <2>3, <2>4 DEF Op!ContractInit, Seen, Requested, Doomed
<1>2. SchedulerInv /\ SchedulerInv' /\ [Next]_vars => [Op!ContractNext]_(Op!contractVars)
  BY ContractStep DEF Op!contractVars, Seen, Requested, Doomed
<1> QED
  BY <1>1, <1>2, InvariantTheorem, PTL DEF SafeSpec, Op!ContractSafety
=============================================================================
