----------------------------- MODULE MCScheduler -----------------------------
(* Instances of Scheduler for TLC.                                          *)
EXTENDS Scheduler, TLC

(* Below the range, above it, and inside it: both branches of the clamp.    *)
MCFractions == {-1, 1, 3}
MCOneFraction == {1}

(* Workers, hosts and operations are interchangeable: no action, invariant  *)
(* or action property singles one out.                                      *)
PoolSymmetry ==
  Permutations(Workers) \cup Permutations(Hosts) \cup Permutations(Ops)
=============================================================================
