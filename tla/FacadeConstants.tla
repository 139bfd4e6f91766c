--------------------------- MODULE FacadeConstants ---------------------------
(***************************************************************************)
(* The parameters of KernelFacade and what is assumed of them.             *)
(***************************************************************************)
EXTENDS Integers

CONSTANTS
  Threads,   \* host threads
  Workers,   \* threads of the adapter's shared Scheduler
  Addrs,     \* heap blocks
  Null,      \* nullptr
  MaxIds     \* bound: the handles issued, counting one for each call in progress

ASSUME FacadeAssumption ==
  /\ Threads \cap Workers = {}
  /\ Null \notin Addrs \cup Threads
  /\ MaxIds \in Nat
=============================================================================
