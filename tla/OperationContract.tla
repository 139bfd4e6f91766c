-------------------------- MODULE OperationContract --------------------------
(***************************************************************************)
(* What the operation scheduler promises the holder of an Operation<T>     *)
(* handle, with no worker, queue, lock or condition variable in sight:     *)
(*                                                                         *)
(*   - a submitted operation runs once and settles once, and what it       *)
(*     settled on never changes;                                           *)
(*   - it carries a value exactly when it Completed, an error exactly when *)
(*     it Failed;                                                          *)
(*   - it ends Cancelled only if somebody asked for that, and it never     *)
(*     ends Completed if somebody asked before its body returned;          *)
(*   - it does settle.                                                     *)
(*                                                                         *)
(* Scheduler.tla implements this specification.                            *)
(***************************************************************************)
CONSTANT Ops

VARIABLES
  outcome,    \* what status(), result() and error() report of each operation
  requested,  \* the operations somebody asked to cancel
  doomed      \* those of them whose body had not returned by then

contractVars == <<outcome, requested, doomed>>

Settled(status) == status \in {"Completed", "Cancelled", "Failed"}

Report(status) == [status |-> status,
                   value  |-> status = "Completed",
                   error  |-> status = "Failed"]

Becomes(o, status) == outcome' = [outcome EXCEPT ![o] = Report(status)]

ContractInit ==
  /\ outcome = [o \in Ops |-> Report("Unsubmitted")]
  /\ requested = {}
  /\ doomed = {}

Submitted(o) ==
  /\ outcome[o].status = "Unsubmitted"
  /\ Becomes(o, "Pending")
  /\ UNCHANGED <<requested, doomed>>

Started(o) ==
  /\ outcome[o].status = "Pending"
  /\ Becomes(o, "Running")
  /\ UNCHANGED <<requested, doomed>>

(* A request always counts as one; whether it came in time to doom the      *)
(* operation is not something its sender can tell.                          *)
CancelAsked(o) ==
  /\ outcome[o].status # "Unsubmitted"
  /\ requested' = requested \cup {o}
  /\ \/ UNCHANGED doomed
     \/ ~Settled(outcome[o].status) /\ doomed' = doomed \cup {o}
  /\ UNCHANGED outcome

MaySettleOn(o, status) ==
  \/ status = "Completed" /\ o \notin doomed
  \/ status = "Cancelled" /\ o \in requested
  \/ status = "Failed"

Settles(o) ==
  /\ outcome[o].status = "Running"
  /\ \E status \in {"Completed", "Cancelled", "Failed"} :
        MaySettleOn(o, status) /\ Becomes(o, status)
  /\ UNCHANGED <<requested, doomed>>

ContractNext == \E o \in Ops :
                  Submitted(o) \/ Started(o) \/ CancelAsked(o) \/ Settles(o)

ContractSafety == ContractInit /\ [][ContractNext]_contractVars

(* The host need not submit or cancel anything; what is submitted starts,   *)
(* and what starts settles.                                                 *)
Contract == /\ ContractSafety
            /\ \A o \in Ops : /\ WF_contractVars(Started(o))
                              /\ WF_contractVars(Settles(o))
=============================================================================
