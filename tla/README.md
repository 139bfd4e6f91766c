# CyberCadKernel: TLA+ models, checks and proofs

CyberCadKernel is a CAD kernel behind a C facade (`cc_*`).  Host threads call
the facade; it dispatches to an engine, either the OCCT adapter or the native
engine, which falls back to the adapter for what it does not implement.  This
development covers two kinds of code in it:

* the state that threads share: the scheduler that runs long operations on a
  pool, the lifetime of bodies and handles, the two engines that must never read
  each other's bodies, the toggles, and the compute backends;
* the algorithms whose correctness is combinatorial although their data are
  coordinates: the boolean of trimmed regions, the healing of a soup of faces,
  the placement of an assembly's solids, the boolean of planar solids, the
  triangulation of a trimmed face, and the exact operations on B-splines.

The rest of the repository, most of its lines, is floating-point geometry, which
TLC cannot evaluate (section 7).

## 1. Inventory

| Component | Source | State | Operations | Interacts through |
|---|---|---|---|---|
| Operation scheduler | `src/core/scheduler.{h,cpp}` | job queue, `stopping_`, per operation status/value/error, stop flag, progress | `submit`, `submit_task`, `worker_loop`, `run_operation`, `request_cancel`, `wait`, checkpoints, `~Scheduler` | two kinds of mutex and condition variable |
| Shape registry | `src/core/shape_registry.*` | id -> `shared_ptr<void>`, next id | `add`, `get`, `release` | facade, under its mutex |
| Provenance set | `src/core/shape_provenance.*` | addresses of live `NativeShape`s | register, unregister, `is_native` | holder constructors and destructors; both engines |
| Active engine | `src/engine/engine_registry.cpp` | one `shared_ptr<IEngine>` | `active_engine`, `set_active_engine` | every `cc_*` call snapshots it |
| Facade over bodies | `src/facade/cc_kernel.cpp`, `src/core/guard.*` | thread-local last error | resolve, dispatch, `finish_shape`, `cc_shape_release`, `cc_set_engine`, the parallel and GPU toggles | all of the above |
| Native engine | `src/engine/native/*` | the lazily made fallback | classify operands, serve, decline, forward, verify a boolean | provenance set; OCCT adapter; native geometry |
| OCCT adapter | `src/engine/occt/*` | `ParallelPolicy`, the GPU toggle of an instance, thread-local gate decision | `unwrap`, inline operations, `runScheduled`, the toggles | provenance set; shared `Scheduler` |
| NURBS facade | `src/facade/cc_kernel_nurbs.cpp`, `cc_nurbs_*.cpp` | two handle registries | create, read back, release, register several at once | the registries' mutexes |
| Compute backends | `src/core/compute_backend.*`, `src/compute/metal/*` | table of backends, the active one | `register_backend`, `set_active`, `backend_for`, `parallel_for` | a mutex; threads of a `parallel_for` |
| Trimmed regions | `src/native/topology/trim_boolean.*` | rings of nodes during one call | crossings, entry marks, walk, nesting | called for faces and profiles |
| Healing | `src/native/heal/*` | the working soup, shared vertex nodes | clean, unify, sew, bridge, cap, orient, verify | the STEP reader and the facade |
| Planar booleans | `src/native/boolean/{bsp,polygon,native_boolean}.h` | two BSP trees | build, clip, invert, merge, cancel walls | `NativeEngine::boolean_op` verifies the result |
| Data exchange | `src/native/exchange/*` | the entity table of one file | placement of solids along relationships or mapped items | healing of each solid |
| Meshing | `src/native/tessellate/*` | triangles with neighbour links | bridge, clip, flip, insert, refine, flood | shared edge samples of neighbouring faces |
| B-splines | `src/native/math/bspline*.cpp` | none shared | evaluate; insert, refine, remove knots; raise, lower the degree; split; match sections | fitting, skinning, simplification |
| Other native geometry | `src/native/*` | none shared | construction, SSI, blends, analysis, fitting | called by the native engine |
| Stub engine | `src/engine/stub` | none | declines everything | default engine without OCCT |
| Python binding | `python/cybercadkernel` | one id per `Shape` | release once | the facade |

What is hard in the first group is interleaving (the scheduler's wakeups,
cancellation against the end of a body, shutdown with work queued, toggles read
and written by separate calls), lifetime (a release while a call or a pool job
uses the body, addresses recycled by the allocator, handles that outlive their
bodies) and the choice of an engine or a backend (a switch between the snapshot
and the use, operands of the other engine, exact work on an inexact device).

What is hard in the second is configuration: loops that cross, touch or nest,
walls in one plane, corners on either side of a cell of a hash grid, a
relationship read before or after another, a hole whose cut runs through it,
knots at their full multiplicity.
Each algorithm promises to decline what it cannot decide; the question is whether
an answer is ever wrong, and whether it answers where it should.

`PROJECT.json` lists each such hazard at its line with the properties that cover
it.

## 2. The modules

    OperationContract          what the scheduler promises
          ^ refines
    Scheduler                  how it does it            SchedulerProofs
          ^ abstracted to "an idle worker"
    KernelFacade               bodies, handles, engines  KernelFacadeProofs
      (FacadeConstants)
    NurbsRegistry              NURBS surface handles     NurbsRegistryProofs
    EngineToggles              the toggles of an engine  (in KernelFacadeProofs)
    ComputeBackend             backends, parallel_for    ComputeBackendProofs

    UvTriangulate              meshes of faces           UvTriangulateProofs
    StepAssembly               placed solids             StepAssemblyProofs
    HealShell                  healed soups              HealShellProofs
    TrimBoolean  PlanarBoolean  BsplineOps
    Totals                     sums over loops           OrderLemmas

    MCScheduler                instances of Scheduler
    MCRegistries               of NurbsRegistry, KernelFacade and EngineToggles
    MCSharedState              of ComputeBackend, KernelFacade and Scheduler
    MCGeometry                 of the six algorithms: it EXTENDS UvTriangulate,
                               StepAssembly and HealShell, and has instances
                               of the others

The last three `MC` modules hold several machines that share nothing.  Each
behaviour is one machine's, chosen in the initial state, and the others rest: the
states are the sum of the machines' states, not the product.

### Scheduler

A critical section is one action; everything outside one is another, so a
thread is preempted where the code lets it be.  A condition variable is the set
of threads asleep on it.

| Action | Code |
|---|---|
| `Submit`, `SubmitNotify` | `submit`/`submit_task`, the push in `enqueue`, then `notify_one` with the mutex released |
| `RequestCancel` | `StopSource::request_stop`, one atomic exchange |
| `Wait`, `WaitTest` | `Operation::wait`: entering it, and one test of its predicate |
| `FallAsleep`, `Exit`, `Claim` | the three ways through the locked part of `worker_loop` |
| `Begin`; `Checkpoint`, `Poll`, `Throw`, `Return`; `Boundary`; `Publish`; `NotifyWaiters` | `run_operation`: status Running; the body; the stop check; the publication; `notify_all` |
| `SetStopping`, `NotifyStop`, `JoinAll` | `~Scheduler` |
| `SpuriousWorkerWakeup`, `SpuriousHostWakeup` | what a condition variable may do on its own |

The body of an operation is any sequence of at most `MaxReports` checkpoints and
polls followed by a return or a throw.  `value` and `error` say whether the
operation carries one.  `asked` is a history variable: when the first
cancellation request came, relative to the stop check and the publication.
Using a scheduler that is being destroyed, which C++ leaves undefined, is
outside the model: `Submit` needs a live pool and `SetStopping` waits for the
submits in progress.  Waiting, polling and cancelling go on during the
destruction, because a handle shares the operation's state.

`OperationContract` is the abstract specification: one state per operation, no
worker, queue or lock.  `Scheduler!Op` is the refinement mapping: `outcome`
collects status, value and error, `requested` the operations with a request,
`doomed` those whose request came before the boundary.

### KernelFacade

Actors are host threads and workers of the adapter's shared pool.  A body is a
heap block holding a `NativeShape` or an `OcctShape`; a pointer does not tell
which.  References are explicit: `refs[x]` has the two operands and the result
an actor holds, `shapes` the registry's; a `shared_ptr` count is not stored, it
is what these say.  Addresses come from `Addrs` and are reused.

| Action | Code |
|---|---|
| `SetEngine`, `Call` | `cc_set_engine`; a `cc_*` call taking its snapshot of the engine |
| `Resolve` | `registry().get`, one per operand |
| `IsNative`, `Route`, `ReadNative` | the native engine: one locked lookup per operand, the dispatch, the native algorithm |
| `Unwrap`, `ReadOcct` | the adapter's `unwrap` with its refusal; an inline OCCT call |
| `Schedule`, `Work`, `Publish`, `JobDone` | `runScheduled`: the capture, the job, the outcome, the destruction of the closure |
| `Allocate`, `OutOfMemory`, `Construct` | `make_shared` of a holder, which registers its own address when native |
| `Drop`, `Unregister`, `Free` | a `shared_ptr` going out of scope; the destructor; the block given back |
| `Finish`, `Release` | `finish_shape` with `add`; `cc_shape_release`, whose destructor runs under the registry's mutex |

The hundred or so operations of `IEngine` fall into four classes by their
control: `construct` (no operand), `modify` (one), `boolean_op` (two, mixed
operands refused; `interference` has the same shape) and `thread_apply` (two,
mixed operands forwarded, a decline forwarded).  What a geometric algorithm
computes is a choice: a body, or none.  Some one-operand OCCT operations are
scheduled (`tessellate`, `face_meshes`), most run inline; `Unwrap` allows both.

Abstractions, all on the side of more behaviours unless noted: the job queue is
an idle worker (`Scheduler` has the queue, and proves that a job runs once); an
OCCT result that `tagAsThread` wraps again is one body, not two; engine
instances are two, "native" and "default" (`EngineToggles` has the instances); the stub engine is left out (its build has no OCCT body).
`register_native_shape` is `noexcept`: if the set cannot grow the process ends,
which the model leaves out.  A call never nests in another, so a thread is in one call.

### NurbsRegistry

Independent of `KernelFacade`: the NURBS calls keep their surfaces in a registry
of their own, under a mutex of its own.  Actors are host threads; one action is
one critical section of that mutex, or one copy out of a payload.

| Action | Code |
|---|---|
| `Begin`, `Decline`, `Complete` | a `cc_surface_*` or `cc_nurbs_*` call taking its operand handles; declining; returning its handles |
| `Get`, `GetFails`, `Copy`, `CopyFails` | one accessor, of the four that `readSurface` calls: the locked `get` of a pointer, then the copy through it |
| `Compute` | the geometry: some number of surfaces to register |
| `Register`, `Refuse`, `RefuseAndKeep`, `Throw` | `registerSurface`: a handle; a 0 handle, in a call with and without a rollback; an exception before the guard of `cc_surface_create` |
| `Rollback`, `RolledBack` | the loop that releases what was made, one handle at a time |
| `ReleaseSurface` | `cc_surface_release` of any handle the host knows, stale or 0 |

The calls fall into six classes by their control: `create`, `offset` (one
surface in, one out), `join` (two in, one out), `nsided_fill` (several out, into
the caller's array), `vertex_blend` (the same, with no rollback) and `step_read`
(several out, into a local vector first).  The caller's array keeps the handles
of earlier calls, released or not, as a C array does.  `owned` (the handles a
call returned to a host) and `lost` (those of calls that left without returning
them) are history variables.  Abstractions: payloads have one shape, so a
surface is its payload's name; a dangling pointer reads `Garbage`, or the
accessor fails, and a crash is left out; the loop of reads in `vertex_blend` is
one read; the curves `nsided_fill` reads are in another registry.

### EngineToggles

What `KernelFacade` leaves out of `cc_set_engine`: the parallel toggle is one
atomic of `ParallelPolicy`, process-wide; the GPU toggle belongs to an
`OcctEngine` instance, and a `NativeEngine`'s is that of its own fallback.  A
switch to the native engine is five calls, between which other threads run.

| Action | Code |
|---|---|
| `SetParallel` | `cc_set_parallel`: whatever the engine, one store |
| `SnapGpu`, `SetGpu` | `cc_set_gpu_tessellation`: the snapshot, then the store, which latches in a Metal build only |
| `SetDefault`, `SetNative` | `cc_set_engine(0)` and `(1)` up to the new instance; the second is a no-op if native is active |
| `ReadParallel`, `WriteParallel`, `SnapForGpu`, `CopyGpu`, `Install` | the two toggles carried across, each through its own `active_engine()`, and `set_active_engine` |

`before` and `quiet` are history variables: what the toggles reported when the
switch began, and whether anybody else has changed one since.

### ComputeBackend

| Action | Code |
|---|---|
| `Register`, `SetActive` | `register_backend`, `set_active`, under the registry's mutex |
| `Dispatch` | `backend_for` and the call of the backend's `parallel_for` on what it returned |
| `Start`, `Spawn`, `SpawnFails`, `Join` | the CPU backend's `parallel_for` on the caller: serial or not, one thread per chunk, the joins; `std::thread` throws |
| `WorkerStep`, `SerialStep` | one iteration on a thread of the loop, and on the caller (Metal's loop too) |

A body that throws on a bare thread, or a `std::thread` that cannot be made while
others are joinable, ends the process: `aborted`.  A body that throws on the
caller leaves through `parallel_for`.

### TrimBoolean

`trimRegionBoolean` in its phases.  Corners are integer points on a lattice fine
enough that crossings, midpoints and grid samples of the inputs are integer too,
so arithmetic is exact and tolerances are zero.

| Action | Code |
|---|---|
| `FindsCrossings` | `findCrossings`, declining on a shared piece of boundary |
| `ResolvesNoCrossings` | `resolveNoCrossings`: nested or apart, by one sample of each region |
| `BuildsRings` | `buildRings`, `anyTransversal`, the entry marks of `selectAndTrace` |
| `StartsWalk`, `WalksArc`, `EndsWalk` | the Greiner-Hormann walk, one arc a step, with its guard |
| `Assembles` | `assembleLoops`: cleaning, nesting depth among the loops not yet moved into the result, orientation |

`WalkIsExact` asks two things of a region traced in general position: that its loops
bound the right points, and that each loop has the role and the winding that its
nesting gives it.  The second leaves out a loop that one traced earlier surrounds,
whose depth the code counts without it (section 5).

### HealShell

`healShell`, pass by pass.  A corner is `<<label, offset>>`: a true vertex, far
from the others, and the error with which one face carries it.

| Action | Code |
|---|---|
| `Clean` | `extractSoup`'s loops through `removeDegenerate` |
| `Sew` | `sew`: nodes for corners, sides shared, the residual gap |
| `BridgesGaps` | `bridgeGaps`, decided on the soup as it is, and the second `sew` |
| `Cap` | `capPlanarHole` or `capAllPlanarHoles`, the `sew` after it, and the honest answers for a shell still open |
| `MakeConsistent` | one visit of the flood of `makeConsistent`: any face on its stack, or the next seed |
| `Verify` | `verify`, the reversal of an inward shell, `verify` again |

Vertex unification keeps its hash cells, its scan of neighbouring cells and its
dependence on the order of the corners.  A face that a pass drops stays in its
place with an empty loop, so that a corner keeps its name from the first pass to
the last.  Planarity is a test of nodes: those of a hole of three corners are in one
plane, those without errors are if their vertices are, and with errors, of vertices in
one plane, either answer is possible (`Caps`).  Faces are triangles, so the sliver test never fires and the passes for
short edges and collinear corners (off by default) are left out; a hole is small
enough to be a simple polygon; and a quarter of the shortest side is one number,
`Feature`, for all corners.  The tolerance is positive, as the code makes it
(`SoupsAssumption`).

`TightSoupsHeal` says of the input alone when it must be healed (`Mendable`): the
copies of each vertex are within the tolerance of each other, and the soup without
its errors has four faces, no side of three, and no hole or holes that the options
cover, each a ring of corners in one plane, of three of them or of corners that no face
carries with an error.  What is left to chance is a shell of
no volume, which `verify` refuses.  `Tight` leaves out one case, two copies that
err by half the tolerance in opposite directions (`RoundedApart`; see section 5).
The parts of such a soup may be several, and wound in any way.

### StepAssembly

The STEP reader from the entity table to placed solids.

| Action | Code |
|---|---|
| `Disposes` | `assemblyDisposition`: flat, form A (relationships), form B (mapped items), or decline |
| `ImportsFlat` | the solids where they are |
| `ReadsEdge`, `EndsEdges` | `parentEdges`, over the records in any order (the code's is a hash table's) |
| `Places`, `EndsPlaces`, `Assembles` | `assembly`: `composeChain` for each relationship, the gate on what is left, the root |
| `MapsInstance`, `EndsInstances` | `mappedAssembly`, by ascending id |

A placement is the sequence of operators it composes; an operator is conformal, a
mirror, or unreadable.  `composeChain` is a set, the climbs from a representation
by edges up to one without an edge: a child has one edge, so that there is one
climb, or none on a cycle, where the code gives up.  The properties do not speak
of edges and climbs but of the file's own relationships: a solid's routes are the
ways along them, whichever order the reader met them in.  `PlacedAlongRoutes` is
said of files that list no solid both alone and among others (`ListedApart`): the
reader skips a representation of several solids, whatever its route.

### PlanarBoolean

`booleanPolygons` and the engine's check of its result.  Polygons are parallel to
the axes with integer corners, a plane among them cuts at integer points, and a
unit is more than the tolerance of near-coincidence.

| Action | Code |
|---|---|
| `Starts` | two trees built from the operands |
| `Clips`, `Inverts`, `Merges` | one step of the operation's script: `clipTo`, `invert`, `build` of the other's polygons |
| `Collects`, `Cancels` | `allPolygons`, `cancelNearCoincidentWalls` |
| `Verifies` | `booleanResultVerified`: watertight, and the volume that the operands and their common part let expect |

Watertightness is counted on sides of unit length, which is what inserting the
corners that lie on a side comes to; the triangulation of each polygon by
`assembleSolid` is left out, so solids whose pieces are not convex enough for it
(a U) are not among the inputs.

### UvTriangulate

The triangulation of a trimmed face in its parameter plane.

| Action | Code |
|---|---|
| `Bridge` | one hole joined to the polygon by `bridgeHole`, the rightmost first; ties in any order |
| `StartClip`, `Clip` | `earClip`: the first ear each time |
| `Build` | the last triangle; `build`'s neighbour links and its calls of `legalize` |
| `Legalize` | the next call of `legalize` that flips, with `relink` and the two calls it makes; those that return at once are dropped |
| `InsertGrid` | `insert` of a point of the interior grid: 1 to 3 split, links, three calls of `legalize` |
| `Split`, `NextPass` | `refine`: any triangles of a pass, in order, at their centroids |
| `Export` | `triangles`: the flood from the outer loop, and the folds it drops |

`work` is the call stack of the recursive `legalize`.  Which triangles deviate
too far from the surface is the surface's business, so `refine` may split any;
its limit of 20 passes is never reached within `MaxInner` points.  `proper`,
`sound` and `once` are history variables: whether the bridges were proper, whether
the ears made up the face, and whether they have three corners each and run no
edge twice the same way, as the map from edges to triangles in `build` takes for
granted.  Where bridges are not proper they may not.

### BsplineOps

The operations that `bspline_ops.h` calls exact, with both evaluators and the
derivatives of `bspline.cpp`, the bounded knot removal of `bspline_simplify.cpp`
and the common knots of `bspline_skin.cpp`.  A state is a shape, or two sections;
an action is one call, on every line of the shape as the surface versions do it.

| Action | Code |
|---|---|
| `Inserts`, `Refines`, `Removes` | `insertKnot*` (A5.1), `refineKnot*` (A5.4), `removeKnot*` (A5.8, the same count from every line) |
| `Raises`, `Lowers` | `elevateDegree*` (A5.9 with its merge of each span into those before), `reduceDegree*` (A5.11, knots removed while the line allows it, the comparison at sampled values) |
| `LowersOutside` | `reduceDegree*` at degree 1, when what `reduceBezier` reads outside its array is not a number |
| `Splits`, `Decomposes` | `split*`, `decomposeCurveToBezier` (A5.6); any one of the pieces goes on |
| `Simplifies` | `removeKnotsBounded`, `removeKnotsBoundedSurface` |
| `Matches` | `makeSectionsCompatible` |

Numbers are fractions, so tolerances are zero: a knot is removed, a degree
lowered, only where that is exact.  A pole has one coordinate, as every operation
treats them alike; a surface has one direction, as the other is a call with the
roles exchanged.  The dense samples of a comparison are the integers of the
domain.  `torn` says that lines with different knots were put together, `spoilt` that
poles were computed from what lies outside an array, `refused` that sections came out
incompatible; nothing follows any of them.  No line of the instance is constant, so no
degree reaches 0, where elevation and decomposition are not modelled.  Values are inside
the domain, and refinement stays within full multiplicity, which the code takes
for granted (section 5).  `Spline` and `SplineDeriv` are the reference, the
recursion of Cox and de Boor over all functions.
## 3. What is checked

| Run | Instance | States | Shows |
|---|---|---|---|
| `scheduler` | 2 workers, 2 hosts, 2 operations, 1 checkpoint, symmetric | 356,000 | `TypeOK`, `CancelInTimeDiscards`, `HeldExactlyOnce`, `JoinedMeansDrained` |
| `registries` | facade: 2 threads, 1 worker, 3 blocks, 3 handles; NURBS: 2 hosts, 2 payloads, 3 handles, 2 surfaces a call; toggles: 2 callers, 3 engines, a Metal build; symmetric | 683,000 | facade: `ReadsItsOwnKind`, `ProvenanceExact`, `OwnedOrFree`; NURBS: `TypeOK`, `GivenHandlesStayValid`, `LiveHandlesHaveOneOwner`, `ReadBackIsOnePayload`; toggles: `TogglesInv`, `QuietSwitchKeepsToggles` |
| `shared_state` | loops: 5 indices, 3 threads, 3 backends, two of them named `cpu`; facade: 2 threads, 1 worker, 2 blocks, 2 handles; pool: 2 workers, 2 hosts, 2 operations | 66,000 | loops: `TypeOK`, `ExactWorkStaysExact`, `EachIndexOnce`, `JobsEnd`; facade: `ReleasedBodiesAreReclaimed`; pool: `EveryOperationSettles`, `EveryWaitReturns`, `ShutdownReturns`, `KeepsTheContract` (refinement, with liveness) |
| `geometry` | 441 pairs of regions, 192 pairs of solids, each with 3 operations; soups of up to 8 triangles; assemblies; faces with up to 2 holes; 8 curves, surfaces and pairs of sections, 2 operations in a row | 200,000 | trims: `WalkIsExact`, `WalkComesHome`, `NestingIsExact`; healing: `HealedIsOriented`, `HealedStaysNear`, `TightSoupsHeal`; assemblies: `PlacedAlongRoutes`, `AcceptsForests`; solids: `TreesKnowTheirSolids`, `TreesLeaveTheBoundary`, `AcceptedIsExact`, `ProperPairsAreAnswered`; meshes: `TilesTheRegion`, `LinksAgree`, `LoopEdgesStay`; splines: `KeepsItsShape`, `AddedIsUndone`, `SectionsMatch` |
| `scheduler_late_cancel` | 1 worker, 1 host, 1 operation | | violates `CallerNeverSeesCancelledResult`: finding 1 |
| `nurbs_pointer` | as `registries`, the NURBS machine only | | violates `PointersLive`: finding 2 |
| `trim`, `heal`, `step`, `planar`, `mesh`, `spline` | as `geometry`, one machine each | | violate `AnswersAreExact`, `HealedIsOutward`, `NothingMisplaced`, `OnlyAirIsCancelled`, `MergedStaysSimple`, `LoweredWhole`: findings 3 to 8 |

`MCRegistries`, `MCSharedState` and `MCGeometry` put independent machines in one
run: the initial state chooses one of them, and the others stay in a fixed state
and take no step.  A property of one machine says nothing of the rest.

*Bounds.*  Scheduler: `MaxReports` bounds the checkpoints of one body; one is
enough, as a second reads the same flag again.  Two operations and two workers
give a lost wakeup, a double claim and a shutdown with one job queued and one
running; two hosts give two waiters, and a cancel against a wait.  In `shared_state` one of the hosts submits,
both wait, and only for one of the operations, which alone is cancelled; spurious
wakeups stay.

Facade: three blocks are two operands and a result, and with three handles a
block is freed and used again, by the other engine too.  `MaxIds` bounds the
handles ever issued and reserves one for each call in progress, so that no call
is cut off in the middle.  NURBS: `MaxPatches` is two, enough for a call that
has made some surfaces and not all, and for an array that holds live handles
beyond the prefix a call wrote; with three handles a surface is released and
another registered between two accessors of one read.  The calls `join` and
`offset` are not in the instance: their control is the reads of `vertex_blend`
followed by the registrations of the others.  The proofs cover all six classes.

Loops: at most one index of a job throws, as the first that does ends the job or
the process; five indices on three threads give chunks of 2, 2 and 1, on four fewer
chunks than threads, and empty ranges; one backend without doubles has the name of the
CPU backend, whose place in the table it takes while that is active and while it is the fallback.  Toggles: two callers and three engines give
a switch against a switch and against each setter.

Geometry: trims are squares, a diamond and a clamp, with and without holes, at
positions that make them apart, touching, crossing once or several times,
nested, equal, and sharing boundary.  Soups are a tetrahedron, two of them apart,
an octahedron and half of one, a bowl whose hole has four corners, with errors within and beyond the tolerance, faces reversed,
missing and degenerate; a caller opts for one hole or for all, since the code reads
`capPlanarHoles` only where `capMultiplePlanarHoles` is off.  Assemblies have up to four relationships: nested, repeated, cyclic,
without an operator, unreadable, mirrored.  Solids are boxes and Ls.  Faces are
convex and concave outer loops with none, one or two holes, at most two inserted
points (`MaxInner`).  Splines start at degrees 1 to 3 with simple and double
knots or none, and are raised to 4 at most; two operations (`MaxOps`) reach knots
inserted and removed again, a degree raised over a double knot and lowered, a
piece of a piece; `AddedIsUndone` adds a third and a fourth.  The lattices are fine enough that every sample,
crossing and centroid met has integer coordinates.

The theorems below hold without these bounds.  Deadlock is checked in every run:
a destroyed pool with idle hosts has the explicit step `Quiescent`, a finished
loop or geometric operation the step `Terminated` or `Done`, and a facade or
a NURBS registry at `MaxIds` can still release, switch engines or decline.

*Fairness.*  `Scheduler`: weak fairness of each worker's steps, of each host's
steps inside a call, and of the destructor's steps.  A critical section is
finite, so a runnable thread gets on; a body is assumed to end.  Nothing obliges
a host to submit, cancel or wait, the owner to destroy the pool, or a condition
variable to wake anyone spuriously.  `KernelFacade`: weak fairness of each
worker, strong fairness of each thread inside a call, which competes for the
registry's mutex and for a worker: the job queue is FIFO and each holder of the
mutex lets go of it.  No host is obliged to call or to release.
`ComputeBackend`: weak fairness of a job's steps (`JobStep`): its threads are
the operating system's, a body ends, and no step waits for a lock; nothing
obliges a host to register, to choose or to start a loop.  The other modules have safety
properties only and state no fairness.

Each property has a mutant: a change to one definition of the kind a bug would
make (a missing `notify_one`, an outcome published unchecked, an `unwrap` without
the foreign check, an address left registered, a handle used again, a rollback
one too short, chunks rounded down, a toggle read from the wrong engine, a hash
cell without its neighbours, operators composed in the wrong order, a tree
inverted in part, coplanar walls always in front, no `relink` after a flip, a
merge that starts over, knots counted by value),
under which TLC finds that property violated.

## 4. What is proved

TLAPS proves, for any sets of workers, hosts, operations, threads, blocks,
backends, engines, indices, faces, files and soups and any bound on the handles and the
points (assumptions:
`SchedulerAssumption`, that the pool is finite and not empty and the constants
are distinct; `FacadeAssumption` in `FacadeConstants`, that threads are not
workers and `Null` is neither a block nor a thread; `NurbsAssumption`, that
`Garbage` is not a payload, the calls are those of the six classes and a call
may make at least two surfaces; `ComputeAssumption`, which says that the bounds
are natural numbers and the marks for "none" are distinct; `TogglesAssumption`,
that `Metal` is a Boolean and the first engine is one; `RegionsAssumption`, that
corners are integer points, loops run through corners, and the outer loop has at
least three; `FilesAssumption`, that a file is finite; `SoupsAssumption`, that
soups are lists of loops of corners, corners are at integer points and the tolerance and
the features are positive):

*Scheduler.*  `SchedulerInv` is inductive.  `HeldExactlyOnce` is not inductive
by itself: that a Running operation is in one worker's hands needs `WorkerInv`,
where the worker is in `run_operation` says what it holds, its verdict and the
operation's status.  `CancelInv` says that no worker which still has an operation
cancelled in time has decided Completed.  `ShutdownInv` says that a worker has
exited only on an empty queue with `stopping_` set, and `RunningInv` that an
operation that has not settled is queued or with a worker that has not exited,
so the join finds every operation settled.  From these: `TypeTheorem`,
`HeldExactlyOnceTheorem`, `CancelTheorem`, `DrainTheorem`, `SettledTheorem`, and
`ContractTheorem`, that the scheduler implements `OperationContract!ContractSafety`.

*KernelFacade.*  `FacadeInv` is inductive.  `ReadsItsOwnKind` is about an operand
classified some steps ago: `OperandInv` says that what was asked of it is still
so, because a slot that holds a block keeps it from being freed (`OwnedOrFree`),
hence from being recycled; and the answer was right because the provenance set
is exact for every reachable block (`ProvenanceExact`), which needs `LifeInv`, a
block being built or freed is in no set.  `FreshInv` says that a result on its
way to the registry is in no entry and on one way only, so no two handles share
a body.  `ClientInv` ties a worker to the caller that waits for it.  From these:
`FacadeInvariantTheorem`, `TypeTheorem`, `OwnKindTheorem`, `ProvenanceTheorem`,
`OwnershipTheorem` and `RebindTheorem`.

*NurbsRegistry.*  `NurbsInv` is inductive.  That nobody's surface is taken away
by another's stale release (`GivenHandlesStayValid`) needs `PrivateInv`, that no
array of one host holds a handle in another's charge, which a new handle keeps
because every handle anywhere is older than `nextHandle` (`IssuedInv`).  That a
rollback leaves nothing behind and takes nothing else (`LiveHandlesHaveOneOwner`)
needs `CallInv`, where the place of a call fixes which prefix of its array it has
registered and which it has undone.  `ReadInv` says that the parts read so far
are of the surface being read while it lives; since a handle is never issued
again, a released surface cannot come back as another (`ReadBackIsOnePayload`).
From these: `NurbsInvariantTheorem`, `NurbsTypeTheorem`, `GivenTheorem`,
`OwnerTheorem` and `ReadBackTheorem`.

*ComputeBackend.*  `ComputeInv` is inductive: what each index has seen follows
from where the loop it belongs to is, serial or the thread of its chunk, and a
backend in a job was exact if the job asked for that.  From it:
`ComputeInvariantTheorem`, `ComputeTypeTheorem`, `ExactTheorem`
(`ExactWorkStaysExact`), `EachIndexTheorem` (`EachIndexOnce`).

*EngineToggles.*  `TogglesInv` is inductive: `BuildInv`, an engine being
switched to belongs to one switch, so nobody else's `set` reaches it; `GpuInv`, an engine's toggle is on in a
Metal build only; `QuietInv`, while nobody else has changed a toggle a
switch has in hand what was reported when it began.  From it:
`TogglesInvariantTheorem` and `QuietSwitchTheorem`.

*UvTriangulate.*  `MeshTypeOK` is inductive: triangles have corners among the
points and links among the triangles, and pending calls of `legalize` are on
triangles that exist.  The heart is that a flip or an insertion repairs the links around it
(`LinksAgree`).  `relink` finds the edge to change by its corners, and
tries one direction first, so it is right only where the four neighbours of a
quadrilateral run its sides the other way, are distinct from its two
triangles, and are not two triangles on one edge: `LinksInv` says that
every triangle has three corners and every link leads back, and from these
alone the lemmas derive what stands around a flip (`Surrounded`) and what each
link is afterwards (`Relinked`).  Nothing about coordinates is needed, so the
theorem holds of loops in any position, once the ears have run each edge at most
once each way (`once`).  `SidesKept` is that a flip takes away no edge but
its diagonal, which is never a side of a loop, and an insertion none
(`LoopEdgesStay`).  `KeepsTurning` is that a flip and an insertion make only
triangles that run anticlockwise, if the ones they replace did: a flip because the
new diagonal crosses the old one, an insertion because its point is strictly
inside.  From these: `MeshTypeCorrect`, `NeighboursAgree`, `BoundaryStays` and
`NothingTurnsOver`.

That the triangles make up the region is a sum that every phase keeps (`AreaInv`).
A polygon's signed area is what its sides sweep around the origin, added up
(`AreaIsSwept`), so it can be cut and joined like the list itself (`SweptJoins`,
`SweptSplits`) and does not depend on where the list begins (`SweptRound`).  While
bridging, the polygon's area is the region's and that of the holes not yet bridged:
a bridge is swept once each way, so it takes from the polygon just the area of its
hole (`AreaOfBridge`).  While clipping, the polygon's and the triangles' areas
make up the region: an ear takes what it covers (`AreaOfEar`), whether or not the
bridges were proper.  The last three corners are the last triangle (`AreaOfThree`).
A flip keeps the area because two triangles on either diagonal have the signed
area of their quadrilateral (`HalvesHaveTheArea`); an insertion because the three
around a point have that of their triangle, wherever it is (`ThirdsHaveTheArea`).  From these: `AreaIsKept`
(`MakesUpTheRegion`) and `NoAreaIsLost` (`AreaKept`).  The hypothesis
`Len(loop) = 3` says that ears were found to the last, which the code does not
promise where bridges cross; `RegionArea >= 0` that the loops' areas are
those of a region with holes, since a negative one would turn the bridged polygon
over.  By the same route over sets of sides, `SidesInv`: a side of a loop is a side
of the polygon or an edge of a triangle, which a bridge keeps because it only adds
sides (`SidesBridged`), an ear because the sides it takes are its triangle's
(`SidesWithoutEar`), and flips and insertions because they take away no edge of a
loop.  From it: `EverySideIsCovered` (`SidesCovered`).

Which way the triangles run is `UprightInv`.  An ear is convex or flat; the two triangles
of a flip turn the same way and have together the area of the two before, so if
those did not run clockwise neither do they (`FlipKeepsUpright`); an inserted point
is strictly inside its triangle.  Only the last three corners are taken without a
test, which is the hypothesis of `NothingIsTurnedOver` (`OnlyTheLastTurns`).  With
the area: `SoundMeshesStaySound` (`StaysSound`), that a mesh which was sound after
clipping is sound at the end.

`legalize` calls itself after each flip and no counter limits it.  Lift every point
to the paraboloid over the plane: the volume below the lifted mesh (`MeshRise`, six
times it, a whole number) falls with every flip by exactly the determinant of the
in-circle test, which the code has found positive (`RiseFalls`, `FlipLowersMesh`), whichever
way the triangles run.  So no mesh comes back; and where none is turned over the volume
is not negative, so at most `MeshRise` flips follow: `LegalizationEnds`
(`FlipsRunOut`).  This is about coordinates that are whole numbers, as the model has
them; with rounded ones the same determinant is compared with `eps_`.

*StepAssembly.*  `FormAInv` is inductive: the edges are those of the relationships
read so far, one for each child (`OneEach`), whatever the order in which they were
read; the solids placed are those of the relationships read since, each where the
climb from its child leads (`PlacedFor`); a file that was taken passed the gate
(`Taken`).  What remains is about graphs: where each child has one edge there is at
most one climb (`OneClimb`), it is as long as the relationships that give its
edges allow, and every way along the file's relationships composes to it
(`WaysCompose`); where there is no cycle a climb exists (`ClimbExists`, a longest
one is topped, since one that repeats an edge has a cycle in it).
From these: `PlacedWhereTheRelationshipsLead` (`PlacedAlongRoutes`), and, with
`AcceptsInv`, that a forest is never declined along the way, `ForestsAreTaken`
(`AcceptsForests`).

*HealShell.*  `HealTypeOK` says that every pass leaves lists of loops of corners,
which for a recursive function such as `KeptUpTo` or `Walk` is an induction over
its steps (`IterationExists`).  `StaysPut` is inductive: between the passes every
corner of the cleaned soup is still a corner, under the same name, within the
bound of a bridge of where it was given.  It holds because `bridgeGaps` decides
for each corner on the soup it was given, so that moves do not chain
(`SnappedIsNear`), and because a cap only appends faces.  The node of a corner is
within the tolerance of it (`UnifiedIsNear`): each representative is itself a corner,
and nothing joins a representative through a third corner.  Together:
`CornersStayNear` (`HealedStaysNear`).  For the flood, that the faces visited so far
agree is not inductive: a face closes a ring of neighbours with only one of them
compared.  `Oriented` says instead that some winding of the whole shell runs every
side both ways and agrees with every face visited so far (`SomeFits`).  A visit keeps it, since next to a face that agrees a
neighbour runs the shared side the other way in that winding and in no other
(`NeighbourIsSettled`, `VisitFits`); a new seed either agrees or the
winding is turned over for it and everything not yet visited, which touches no visited
face because no visited face has an unvisited neighbour (`SeedFits`).  With the count of
`verify`: `HealedIsWoundOneWay` (`HealedIsOriented`).  A shell that can be wound
one way by no choice is excluded in the property: `verify` does not tell it.

`TightSoupsHeal` compares the shell with the one that the soup would make without
errors.  In a tight soup the soonest copy of each vertex is the node of all of them
(`OneNodeEach`: two copies within the tolerance are in neighbouring cells,
`CellsMeet`), so `sew` drops only what is degenerate without errors too, and the
sides and their counts are the same (`SewnIsTrue`, `AlikeSides`); and bridging moves
nothing (`TightStays`).  Where there is a boundary, two sides meet in each of its
nodes.  A walk along it comes back to where it started (`WalkEnds`); the
rings are cycles, disjoint, and pass each side of the boundary once
(`RingIsCycle`, `RingsPartition`, `SidesOfRings`), and each goes around one hole
(`RingBoundsHole`).  A hole of three corners has three nodes and one of corners without
errors has nodes without errors (`TightBoundaryNodes`), so that both lie in one plane for
certain and `Caps` has nothing but a cap for each (`HolesAreCapped`), and with
them every side is used twice (`CapsClose`, `TightCloses`).  Turning
faces moves no side, and reversing them all negates the volume (`VolumeTurns`,
`TotalNegates`).  `Mending` says at each phase what of this has been reached; from
it: `TightSoupsAreHealed`.

*OrderLemmas* holds what these three lean on: sums and what adds to, negates,
swaps or splits them, lists put end to end, induction over a set of numbers, the
least and the greatest number of a set or of a list, and the steps of a function that is defined by
them, stated for sets and functions since the prover cannot
instantiate the library's induction over predicates.

*Only proved.*  `MeshTypeOK`, `KeepsTurning`, `MakesUpTheRegion`, `AreaKept`,
`SidesCovered`, `OnlyTheLastTurns`, `StaysSound`, `FlipsRunOut` and `HealTypeOK` are in
the proof modules.  `SettledIsFinal` (an outcome is final, also part of the contract
that `shared_state` checks), `FacadeTypeOK` and `HandleNeverRebinds` are stated by
`SettledTheorem`, `TypeTheorem` and `RebindTheorem` and no run checks them.

*Only model-checked.*  Liveness (`EveryOperationSettles`, `EveryWaitReturns`,
`ShutdownReturns`, `JobsEnd`, `ReleasedBodiesAreReclaimed`, the fairness part of
`KeepsTheContract`), which the prover does not reach.  What recursive definitions
compute for every input, which would need induction over data: the trees of
`PlanarBoolean`, the splines over fractions of `BsplineOps`, the walk and the
loops of `TrimBoolean`, which also rest on which side of a closed curve a point is.
Of `TilesTheRegion`, what `AreaIsKept`, `NothingIsTurnedOver` and
`EverySideIsCovered` leave: that ears are always found, which is the theorem that a
polygon has two ears; that no triangle is flat and no two overlap; that an edge without a neighbour has none beyond
it; and which triangles of a region with holes the flood exports.

## 5. Findings

1. *A late cancellation does not discard the result.*  `scheduler.h` says that
   the caller never sees a result it cancelled.  `run_operation` tests the flag
   before it takes the mutex under which it publishes; a request in between,
   with `status()` still Running, leaves the operation Completed with its value.
2. *A payload is freed under its reader.*  A comment says that the NURBS registry
   mirrors the shape registry's model exactly, but its `get` returns a pointer
   into the map and lets go of the mutex, where the shape registry's returns a
   `shared_ptr`: a release on another thread leaves an accessor with a dangling
   pointer.
3. *A trimmed boolean can answer Ok with the wrong region.*  Without crossings one
   sample of each region decides who is inside whom; loops that no crossing
   visits are dropped; a touch in one corner counts as a transversal crossing.
   The header promises a decline rather than a wrong region.
4. *Two healed shells can point opposite ways.*  The flood orients each part from
   a seed of its own, and one test of the total volume reverses all or none.
5. *An assembly can lose a solid, or leave it in the wrong place.*  With mapped
   items, solids that no item reaches are dropped; a relationship without an
   operator breaks the chain above it.
6. *The cancellation of air slabs takes walls that bound no air.*  Two solids
   fused over a part of a face lose a wall each, and `boolean_op` answers with an error.
7. *A bridge can cross its own hole.*  `bridgeHole` tests the cut against the
   polygon merged so far, not against the hole: the merged polygon crosses itself, and
   ear clipping loses most of the face.
8. *A surface lowered exactly can be another surface.*  Each line is lowered by
   itself and loses the knots that it can spare; the lines are put together under
   the knots and the length of the first.  Removal of a knot takes care to take the
   same count from every line; this does not.

Disagreements met while modelling that no run shows:

- `thread_apply` forwards native bodies to OCCT when the native engine declines
  (`native_engine.cpp` 2103 to 2115), where comments say it never does; the
  refusal in `unwrap` keeps it harmless and makes the documented fallback
  unreachable.
- `assembleLoops` (`trim_boolean.cpp` 424 and 433) moves each loop into the result
  before it counts how many loops surround the next, and an emptied polygon surrounds
  nothing: a hole traced after the loop around it is returned as a second outer loop,
  counterclockwise, and its area is added.  The comment above (405 and 406) gives the role
  to a loop "inside an odd number of others", and the header promises loops correctly
  nested and correctly oriented (`trim_boolean.h` 16).  `Depth` counts as the code does; `WalkIsExact`
  exempts these loops, and without the exemption it fails on the inputs of `geometry`.
- A comment in `cc_nurbs_step_read` says that no leaky handle set escapes; an
  exception while the next surface is packed passes the rollback
  (`cc_nurbs_boolean_ext.cpp` 674), and `cc_nurbs_vertex_blend` has none.  The model
  does both, and `LiveHandlesHaveOneOwner` permits them, as `lost`.
- A body that throws on a thread of the pool of `parallel_for` ends the process,
  where the serial path hands the exception to the caller, and `compute_backend.h` (51)
  asks that the result match a serial run.  The model does so too, and `EachIndexOnce` and
  `JobsEnd` permit it.
- `cc_set_engine` writes the parallel toggle it read earlier, which can undo
  another thread's `cc_set_parallel` in between.
- `UnhealedReason::NonManifold` and `HealSource::OcctFixed` are never produced.
- For a common, `booleanResultVerified` compares the result's volume with
  another run of the same common, so only watertightness counts.  A fin 0.0005
  thick on a box of 10 loses both walls to the cancellation.
- `vertex_unify.h` (98 to 101) calls its scan of neighbouring cells robust to a jitter
  that straddles a cell boundary.  Two copies exactly half the tolerance to either side
  of a vertex at a cell's middle are within the tolerance, but round to cells two apart,
  and stay two nodes: the shell is left open.
- `native_boolean.h` names simple concave prisms as supported, but a U-shaped cut
  declines.
- Surface intersection: the cap test of `routeArm` (`marching.cpp` 1854) never
  sees a cap of the forward half, and an exhausted budget is counted as a boundary
  end (1307).
- B-splines, with arguments that no run uses: `refineKnotCurve` does not clamp
  multiplicities although its header calls it equivalent to single insertions
  (bspline_ops.h 119 to 122); `removeKnotOnce` at an end knot reads before the
  first pole; `splitCurve` at an end of the domain returns a
  malformed piece; a decomposition with an interior multiplicity above the degree
  writes before the first pole of a segment.
- B-splines: `reduceBezier` at degree 1 reads `r[-1]` and `r[1]`, which `reduceDegreeCurve` and
  `reduceDegreeBounded` admit.  What is read is multiplied by 0, so that a number does no
  harm; anything else makes the pole and the error none, and the comparison with the
  tolerance lets it pass (`LowersOutside`).  `KeepsItsShape` and `AddedIsUndone` say
  nothing of such a shape (`spoilt`).
- Mesher: a bridge that ends in a corner already doubled takes the first copy,
  and large areas can go missing; a corner on the closing side of an ear does not
  block it, and the last triangle is pushed unchecked, so triangles may overlap;
  and one pass of `legalize` over each side, recursing into two of the four, does
  not reach the Delaunay triangulation its comment speaks of
  (the polygon (3,5) (5,4) (5,6) (4,6) (0,5)).

## 6. What would come next

1. The control of `marching.cpp`: the march from a seed, its ends (closed,
   boundary, tangent, budget), and the duplicate test between branches.
2. The `Task<T>` coroutine and its continuations, as a refinement of the body in
   `Scheduler`; the Python `Shape`.
3. A property of the mesher between a tiling and Delaunay, which its flips do keep.
4. A theorem about `TrimBoolean`: `WalkComesHome` rests on entry and exit alternating along every
   loop, hence on the Jordan curve theorem, and stays with TLC.
5. `BooleanPolicy`: the fine-thread gate and the one-shot fuzzy override with its
   early returns.

## 7. Not modelled

Most of the code is geometry over doubles: intersection, fitting, skinning, offsets,
fillets, blends, analysis, the calls into OCCT, the Metal kernels.  TLC has no
floating point.  Where the correctness of an algorithm is one of control and
topology, a module above keeps its control and runs it on integer inputs that it
treats exactly; where it is one of tolerances and convergence, no such inputs
exist, and `KernelFacade` keeps only whether an operation makes a body.

Also left out: the stub engine (no state); the Part-21 tokenizer, file formats, C buffers and their
`cc_*_free`, the thread-local last error, progress stage strings and callbacks
(data and wording that no property here tells apart); the NURBS curve registry,
a second instance of the template `NurbsRegistry` models; NaN as a progress
fraction, which the clamp of `ProgressSink::report` would let through; in
healing, flattening and the passes for short edges and collinear corners, which
are off by default, and the test that a hole is a simple polygon; in planar
booleans, the triangulation of the result by `assembleSolid`; in meshing, the
surface's evaluation, seams and collars, and the shared sampling of edges; in
B-splines, rational weights and their guard, `reparamCurve`,
`reduceDegreeBounded`, the two directions of a surface together, and the part of the merge of
spans that only a degree above 4 reaches.
