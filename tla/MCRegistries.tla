----------------------------- MODULE MCRegistries -----------------------------
(***************************************************************************)
(* Instances, for TLC, of the process-wide state that the facade's callers *)
(* share and whose runs check safety alone: the NURBS surfaces, the facade *)
(* over bodies and the engine toggles.  They share nothing, so each        *)
(* behaviour is one machine's; Machines selects which of them runs.        *)
(***************************************************************************)
EXTENDS NurbsRegistry, KernelFacade, EngineToggles, TLC

CONSTANT Machines
VARIABLE machine

(* Threads, workers, blocks and payloads are interchangeable.  The hosts of *)
(* all three are the same model values.                                     *)
RegistrySymmetry ==
  Permutations(Hosts) \cup Permutations(Workers) \cup Permutations(Addrs) \cup Permutations(Payloads)

MCInit == machine \in Machines /\ NurbsInit /\ Init /\ TogglesInit

SurfacesNext == machine = "nurbs" /\ NurbsNext /\ UNCHANGED <<machine, vars, toggleVars>>
BodiesNext == machine = "facade" /\ Next /\ UNCHANGED <<machine, nurbsVars, toggleVars>>
SwitchNext == machine = "toggles" /\ TogglesNext /\ UNCHANGED <<machine, nurbsVars, vars>>

MCSpec ==
  MCInit /\ [][SurfacesNext \/ BodiesNext \/ SwitchNext]_<<machine, nurbsVars, vars, toggleVars>>
=============================================================================
