---------------------------- MODULE EngineToggles ----------------------------
(***************************************************************************)
(* The parallel and GPU toggles across cc_set_engine.                      *)
(*                                                                         *)
(* The parallel toggle is one atomic of ParallelPolicy, process-wide; the  *)
(* GPU toggle belongs to one OcctEngine instance, and a NativeEngine has a *)
(* fallback instance of its own, whose toggle is its toggle.               *)
(* cc_set_engine(1) reads each toggle through a snapshot of the active     *)
(* engine, writes it to the engine it builds, and installs that engine     *)
(* last: nothing keeps another thread's call out.                          *)
(***************************************************************************)
EXTENDS Integers

CONSTANTS
  Callers,    \* threads that call the facade
  Metal,      \* CYBERCAD_HAS_METAL
  MaxEngines  \* bound: the engine instances made

ASSUME TogglesAssumption == Metal \in BOOLEAN /\ MaxEngines \in Nat \ {0}

Engines == 1..MaxEngines

VARIABLES
  installed,     \* the active instance
  made,          \* how many instances were made
  native, gpu,   \* of each instance: name() = "native"; gpuTessellation_
  parallel,      \* ParallelPolicy::enabled_
  spot,          \* of each thread: where it is
  value, snap,   \* the toggle it has read; the engine it has a snapshot of
  mine,          \* the engine that its cc_set_engine is building
  before, quiet  \* history: the toggles when its cc_set_engine(1) found the
                 \* engine, and whether nobody else has changed anything since

engVars  == <<installed, made, native, gpu>>
thrVars  == <<spot, value, snap, mine, before>>
toggleVars == <<engVars, parallel, thrVars, quiet>>

Moves(t, l) == spot' = [spot EXCEPT ![t] = l]

(* What cc_parallel_enabled and cc_gpu_tessellation_enabled report.         *)
Toggles == <<parallel, gpu[installed]>>

(* What it has read is gone when a call returns.                            *)
Returns(t) == Moves(t, "idle") /\ value' = [value EXCEPT ![t] = FALSE]

(* A change that t makes ends the quiet of everybody else's switch.         *)
Disturb(t) == quiet' = [u \in Callers |-> quiet[u] /\ u = t]

TogglesInit ==
  /\ installed = 1 /\ made = 1
  /\ native = [e \in Engines |-> FALSE] /\ gpu = [e \in Engines |-> FALSE]
  /\ parallel = TRUE
  /\ spot = [t \in Callers |-> "idle"]
  /\ value = [t \in Callers |-> FALSE]
  /\ snap = [t \in Callers |-> 1] /\ mine = [t \in Callers |-> 1]
  /\ before = [t \in Callers |-> <<TRUE, FALSE>>]
  /\ quiet = [t \in Callers |-> FALSE]

------------------------------------------------------------------------------
(* The toggles.                                                             *)

(* Whatever the engine, the call ends in ParallelPolicy::setEnabled.        *)
SetParallel(t, b) ==
  /\ spot[t] = "idle"
  /\ parallel' = b
  /\ Disturb(t)
  /\ UNCHANGED <<engVars, thrVars>>

(* cc_set_gpu_tessellation: a snapshot of the engine, then its own toggle,  *)
(* which latches in a Metal build only.                                     *)
SnapGpu(t, b) ==
  /\ spot[t] = "idle"
  /\ snap' = [snap EXCEPT ![t] = installed] /\ value' = [value EXCEPT ![t] = b]
  /\ Moves(t, "set_gpu")
  /\ UNCHANGED <<engVars, parallel, mine, before, quiet>>

SetGpu(t) ==
  /\ spot[t] = "set_gpu"
  /\ gpu' = [gpu EXCEPT ![snap[t]] = Metal /\ value[t]]
  /\ Disturb(t)
  /\ Returns(t)
  /\ UNCHANGED <<installed, made, native, parallel, snap, mine, before>>

------------------------------------------------------------------------------
(* cc_set_engine.                                                           *)

Make(t, isNative) ==
  /\ made < MaxEngines
  /\ made' = made + 1
  /\ native' = [native EXCEPT ![made + 1] = isNative]
  /\ mine' = [mine EXCEPT ![t] = made + 1]

(* Restoring the default engine makes a new one, all toggles at their       *)
(* default, whatever the active one is.                                     *)
SetDefault(t) ==
  /\ spot[t] = "idle"
  /\ Make(t, FALSE)
  /\ Moves(t, "install")
  /\ UNCHANGED <<installed, gpu, parallel, value, snap, before, quiet>>

(* Opting in to the native engine: a no-op if it is active.                 *)
SetNative(t) ==
  /\ spot[t] = "idle" /\ ~native[installed]
  /\ Make(t, TRUE)
  /\ before' = [before EXCEPT ![t] = Toggles]
  /\ quiet' = [quiet EXCEPT ![t] = TRUE]
  /\ Moves(t, "read_parallel")
  /\ UNCHANGED <<installed, gpu, parallel, value, snap>>

ReadParallel(t) ==
  /\ spot[t] = "read_parallel"
  /\ value' = [value EXCEPT ![t] = parallel]
  /\ Moves(t, "write_parallel")
  /\ UNCHANGED <<engVars, parallel, snap, mine, before, quiet>>

(* Through the new engine's fallback, to the process-wide policy.           *)
WriteParallel(t) ==
  /\ spot[t] = "write_parallel"
  /\ parallel' = value[t]
  /\ Disturb(t)
  /\ Moves(t, "snap_gpu")
  /\ UNCHANGED <<engVars, value, snap, mine, before>>

(* Mutant: of the engine that it is building.                               *)
SnapOwnEngine(t) ==
  /\ spot[t] = "snap_gpu"
  /\ snap' = [snap EXCEPT ![t] = mine[t]]
  /\ Moves(t, "copy_gpu")
  /\ UNCHANGED <<engVars, parallel, value, mine, before, quiet>>
SnapForGpu(t) ==
  /\ spot[t] = "snap_gpu"
  /\ snap' = [snap EXCEPT ![t] = installed]
  /\ Moves(t, "copy_gpu")
  /\ UNCHANGED <<engVars, parallel, value, mine, before, quiet>>

(* Mutant: the new engine keeps its default.                                *)
DefaultGpu(t) == FALSE
InheritedGpu(t) == gpu[snap[t]]

CopyGpu(t) ==
  /\ spot[t] = "copy_gpu"
  /\ gpu' = [gpu EXCEPT ![mine[t]] = Metal /\ InheritedGpu(t)]
  /\ Moves(t, "install")
  /\ UNCHANGED <<installed, made, native, parallel, value, snap, mine, before, quiet>>

Install(t) ==
  /\ spot[t] = "install"
  /\ installed' = mine[t]
  /\ quiet' = [u \in Callers |-> FALSE]
  /\ before' = [before EXCEPT ![t] = <<TRUE, FALSE>>]
  /\ Returns(t)
  /\ UNCHANGED <<made, native, gpu, parallel, snap, mine>>

TogglesNext ==
  \E t \in Callers :
    \/ \E b \in BOOLEAN : SetParallel(t, b) \/ SnapGpu(t, b)
    \/ SetGpu(t) \/ SetDefault(t) \/ SetNative(t)
    \/ ReadParallel(t) \/ WriteParallel(t) \/ SnapForGpu(t) \/ CopyGpu(t)
    \/ Install(t)

TogglesSpec == TogglesInit /\ [][TogglesNext]_toggleVars

------------------------------------------------------------------------------
(* Properties.                                                              *)

TogglesTypeOK ==
  /\ installed \in 1..made /\ made \in Engines
  /\ native \in [Engines -> BOOLEAN] /\ gpu \in [Engines -> BOOLEAN]
  /\ parallel \in BOOLEAN
  /\ spot \in [Callers -> {"idle", "set_gpu", "read_parallel", "write_parallel",
                         "snap_gpu", "copy_gpu", "install"}]
  /\ value \in [Callers -> BOOLEAN]
  /\ snap \in [Callers -> 1..made] /\ mine \in [Callers -> 1..made]
  /\ before \in [Callers -> BOOLEAN \X BOOLEAN]
  /\ quiet \in [Callers -> BOOLEAN]

(* A cc_set_engine(1) during which no other thread changes a toggle or the  *)
(* engine leaves what the toggles report as it was, other threads' reads    *)
(* and half-done calls notwithstanding.                                     *)
QuietSwitchKeepsToggles ==
  [][\A t \in Callers :
       Install(t) /\ native[mine[t]] /\ quiet[t] => Toggles' = before[t]]_toggleVars

------------------------------------------------------------------------------
(* The inductive invariant.                                                 *)

(* The engine that a switch builds is nobody else's until it is installed,  *)
(* and only a Metal build has a GPU toggle that is on.                      *)
Building == {"read_parallel", "write_parallel", "snap_gpu", "copy_gpu", "install"}
BuildInv ==
  \A t \in Callers : spot[t] \in Building =>
    /\ mine[t] # installed
    /\ \A u \in Callers : snap[u] # mine[t]
    /\ \A u \in Callers \ {t} : spot[u] \in Building => mine[u] # mine[t]
GpuInv == \A e \in Engines : gpu[e] => Metal

(* A quiet switch has read, and not changed, what it found.                 *)
Unspoilt(t) ==
  /\ Toggles = before[t]
  /\ spot[t] = "write_parallel" => value[t] = parallel
  /\ spot[t] = "copy_gpu" => snap[t] = installed
  /\ spot[t] = "install" => gpu[mine[t]] = gpu[installed]
QuietInv ==
  \A t \in Callers :
    quiet[t] /\ spot[t] \in Building /\ native[mine[t]] => Unspoilt(t)

TogglesInv == TogglesTypeOK /\ BuildInv /\ GpuInv /\ QuietInv
=============================================================================
