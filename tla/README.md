# GraphicsEngine: TLA+ models, checks and proofs

This directory is a verification project for the engine in `src/`. Its modules
model the parts of the engine that decide *when* things happen and *what still
exists* when they do: the task executor, the frame scheduler, the engine that
pipelines frames over both, the coordinator that orders accesses to the ECS, and
around them user jobs, the main thread, the world with its runs and its tree,
resources, the render graph, and what the GPU works on. TLC checks them on small
instances; TLAPS proves what matters most of the frame scheduler, the engine, the task
executor and its queues, the access coordinator, the resource manager, the frame loop,
the runs of systems and what the CPU hands to the GPU, for every size of them.
`PROJECT.json` lists the runs, the mutants (a plausible bug for each property,
which the property must notice), the source lines of every definition, the
hazards and the theorems.

    tlc -workers 2 -config Engine_frames.cfg MCEngine
    tlc -workers 2 -config MCGpu.cfg MCGpu
    tlapm FrameSchedulerProofs.tla
    tlapm --threads 2 EngineProofs.tla

## 1. Inventory

### The parts and how they interact

    Application ── FrameLoop ──────── Engine ── FrameScheduler      (slots, checkpoint)
        │            │                  │ ├──── EngineStateManager  (run, stop)
        │            │                  │ ├──── UpdateCompletion    (asynchronous updates)
        │      MainExecutor             │ ├──── UserJobScope        (user tasks, coroutines)
        │                               │ └──── TaskSystem          (tasks, groups, workers)
        │                               │            ▲
        └── PresentationRuntime ◄───────┤            │ submits operations
               │  (frame ─► GPU future) └──── World ── AccessCoordinator
               ▼
            Graphics ── submissions, frame contexts, uploads, swapchain

An application thread drives the frame loop: it asks the engine for a frame,
publishes the user update, requests the draw, and waits for progress with a time
limit. All frame work runs as tasks; a finished extraction admits the next frame, so
that the draw of one frame overlaps the update of the next. The draw registers a
GPU future with the slot of its frame; the slot is reused when the future is
ready. Anybody may stop the engine, from any thread.

| Part (under `src/`) | State | Operations | What is hard | What makes it correct |
|---|---|---|---|---|
| Task executor `lib/thread/task` | tasks, edges, group gates, registry, outstanding counter, ready queues, semaphore | Submit, CreateTaskGroup, Seal, Cancel, CancelGroup, Wait, WaitIdle, StopWorkers, the worker loop | completion against submission and cancellation; captures destroyed outside locks and calling back; rollback; permits and entries consumed by different workers | dependencies hold, bad ends propagate, the books balance, each node ends once, no wakeup is lost, the stop ends |
| User tasks `lib/thread/job*.h`, `engine/runtime/user_job_scope` | phase of each job, continuation, version | submit, suspend, resume, cancel, join | suspension against cancellation, failed resumption | resumed or destroyed once, join returns |
| Frame scheduler `engine/controller` | slots, handles, signals, GPU future, checkpoint, counters | TryAcquireFrame, the signals and stages, RegisterGpuCompletion, CompleteGpu, Recycle, AbortFrame | copies of handles that outlive their frame; aborts in the middle; the last index | stale handles stay stale, the checkpoint follows the newest frame, the GPU keeps its slot |
| Engine `engine` | frame records, admission, draw checkpoint, run, error, version | Start, TryBeginFrame, ScheduleUserUpdate, Draw, AbortFrame, reaping, WaitForProgress, Stop | tasks that call the scheduler without the mutex; Draw against the completion; concurrent stops; failure of each step | one frame at a time in the world, calls in order, nothing outlives its frame, stops end |
| Access coordinator `ecs/internal` | operations, held access, domains, seal | RegisterDomain, Schedule, Cancel, Seal, Stop, Run | captures that hold data after the end; failing submissions; seal against the last retirement | conflicting operations exclude each other, each access ends, a sealed coordinator drains |
| World `ecs` | entities, storages, commands, runs, dirty set | structural changes, queries, RunSystems | publication that fails half way, reservations given back, scoped batches | a run retires once and its outcome is true, an identity names one entity |
| Hierarchy `ecs` | links of nodes, epoch, leases | create, destroy, reparent, snapshot | nested writes, moves of subtrees, pinned snapshots | the links are a forest, a snapshot is stable, a move spares the rest |
| Scenes `scene` | entries, active handle | create, activate, unload, acquire | handles of unloaded scenes | stale handles stay stale |
| Main executor `application/runtime` | queue, burst, consumer thread | Post, Invoke, Drain, Stop | Stop against Drain and Post, starvation | each command ends once, order of frames |
| Frame loop, presentation runtime | reserved frame, queued and submitted frames | tick, Draw, Pump, Drain | exceptions in between, GPU drain limit | each promise is kept once |
| Window `window` | event queue, application thread | poll, dispatch, close | lease of the thread | events in order |
| Resources `resources` | entries, requests | acquire, load, publish, unload, forget; read, cancel, shutdown | late completions, cancellation against publication | no completion of an older operation is published |
| Renderer `renderer` | graph, snapshot, prepared objects | compile, validate, extract, record | order of passes; resources that change between the chunks of one frame | the order means what was declared, a draw shows what was leased |
| Graphics `graphics` | tables of objects, timeline, contexts, arenas, states, descriptor sets, swapchain | create, destroy, submit, acquire, upload, transition, present | reuse while the GPU reads, values the driver uses again, recreation of the swapchain | reuse only after completion, handles name what they were made for, a barrier for every race |
| Math, errors, vendored code, samples | none worth modelling | | | |

### Status

Modelled, every operation that changes state: task executor, frame scheduler,
engine, access coordinator, hierarchy, main executor, resource manager, resource
input, render graph. Partly: user tasks, world, frame loop and presentation runtime,
application, extraction, submissions and uploads, states and descriptors, swapchain,
graphics objects. `PROJECT.json` says for each what is left out; section 6 says what is
not modelled at all and why.

## 2. The modules

| Module | Models | Run |
|---|---|---|
| `TaskSystem` | the graph of tasks and groups, `task_system.cpp`; uses the contract of `ReadyPool` | `tasks_safety`, `tasks_liveness` |
| `ReadyPool` | what the ready queues promise (abstract) | |
| `ReadyScheduler` | `ReadyScheduler` and `WorkerLoop` of `task_system.cpp`; implements `ReadyPool` | `ready` |
| `UserJobs` | `job_control.h`, `job.h`, `user_job_scope.cpp`, the spawning in `engine.cpp` | `tasks_liveness` |
| `FramePipeline` | what the frame scheduler promises (abstract) | |
| `FrameScheduler` | `frame_scheduler.cpp`; implements `FramePipeline` | `frames` |
| `FrameSchedulerProofs` | theorems about `FrameScheduler` and `Hierarchy` | |
| `EngineProofs` | theorems about `Engine` | |
| `TaskSystemProofs` | theorems about `TaskSystem`, `UserJobs` | |
| `QueueProofs` | theorems about `ReadyScheduler`, `MainExecutor`, `ResourceIo` | |
| `AccessCoordinatorProofs` | theorems about `AccessCoordinator` | |
| `ResourcesProofs` | theorems about `Resources` | |
| `FrameServiceProofs` | theorems about `FrameLoop`, `SystemRuns` | |
| `GpuProofs` | theorems about `GraphicsObjects`, `Descriptors`, `PresentPath`, `ResourceStates`, `Uploads`, `RenderGraph`, `Extraction` and the parts together | |
| `Engine` | `engine.cpp`, `engine_state_manager.cpp`, `update_completion.cpp`; instance `FS` of `FrameScheduler`, the contract of `TaskSystem` | `engine_*` |
| `AccessCoordinator` | `access_coordinator.cpp`; the contract of `TaskSystem` | `access` |
| `MainExecutor` | `main_executor.cpp`, the loop of `application.cpp` that sleeps | `ready` |
| `FrameLoop` | `frame_loop.cpp`, `presentation_runtime.cpp`, the loop of `application.cpp` that draws; Engine by its contract | `frames` |
| `SystemRuns` | `SystemRunState` of `world.cpp`, `system_run.h` | `frames` |
| `Hierarchy` | `hierarchy.cpp` | `frames` |
| `WorldEntities` | entities and deferred commands of `world.cpp`, `world.h` | `gpu` |
| `LeaseStore` | what the resource manager promises to its readers (abstract) | |
| `Resources` | `resource_manager.cpp`; implements `LeaseStore` | `frames` |
| `ResourceIo` | `resource_io.cpp` | `ready` |
| `Extraction` | `extraction.cpp`, `renderer.cpp`, preparation and recording in `presentation.cpp`; built on `LeaseStore` | `gpu` |
| `RenderGraph` | `render_graph.cpp`, `execution_validation.cpp` | `gpu` |
| `GraphicsObjects` | `graphics.cpp` | `gpu` |
| `ResourceStates` | `resource_state.cpp` | `gpu` |
| `Uploads` | `upload_manager.cpp`, lifetime of memory in `memory.cpp` | `gpu` |
| `Descriptors` | `descriptor_manager.cpp` | `gpu` |
| `PresentPath` | `submission_manager.cpp`, `frame_context.cpp`, `swapchain.cpp`, `clear_present_path.cpp` | `gpu` |
| `MC...` | the instances TLC checks | |

Definitions named `Mutant...` are not part of a specification. Each stands before
the definition it is a wrong version of.

**How components are put together.** Where one component acts on the state of another, the
module composes them: `Engine` holds an instance of `FrameScheduler` and every call is
an action of that instance. Where a component needs only what another promises, it is
built on the promise, and the promise is checked against the other: `TaskSystem` on
`ReadyPool` (implemented by `ReadyScheduler`), `Extraction` on `LeaseStore`
(implemented by `Resources`), `FrameScheduler` as a `FramePipeline`. Components that
share no state are checked in one run *side by side*: the MC module extends them all, a
variable `part`, chosen once, names the component that runs, and the others rest in
their initial states. Such a run checks exactly the behaviours of each component;
nothing is claimed of their interleaving, since they have no step in common. Fairness is
restated for it as `WF(part = "..." /\ A)`, which is fairness of `A` in the behaviours of that
component and holds of the others because `A` is never enabled there.

**TaskSystem.** A node is a task or the gate of a group. One critical section of
`m_mutex` is one action: it takes a decision and moves the ended nodes into the
`batch` of the thread, as the code collects a `FinalizationBatch`. What runs
without the mutex has its own actions: the claim of a task by a worker (it takes
only the lock of the state), the callable, the first block of `CompleteState`, and
the destruction of captures, while other threads call the executor (`pc = "destroying"`).
Left out: a destructor that calls it on its own thread (`CanCall` lets a thread call between
its operations only), and an allocation that fails while edges are linked, with their undo
(`task_system.cpp:504`): `SubmitFails` is the throw of `PublishReadyTask`, whose task has no edge. Cancel is two actions, `CancelTest` and `Cancel`,
between which the mutex stays held and a worker may still claim. A submission
that throws is undone in the two sections the code uses (`RollbackPayload`,
`RollbackAccounting`). The variables map to the code so: `status`, `finalizing`,
`pending` to `Task`; `edges`, `remaining` to `Outgoing`/`Incoming` and the counter of
unfinished dependencies; `active`, `retired` to the registry; `outstanding` to
`OutstandingTasks`; `gSealed`, `gOutcome`, `gFirstFailure` to the group record.

**ReadyScheduler.** A worker looks into the gate list, its own queue, the injected
queue and the queues of the others, one lock and one action at a time, so that a
publication may land behind its back. The semaphore is the counter `permits`.
Vectors keep their consumed heads, and compaction moves the live part.

**UserJobs.** Every exchange on the atomic phase of a job is an action. Handles have holders:
a handle the game moved into the body of another job is dropped when that body is
released, which may abandon further jobs. `jobNews` is the version the dispatcher waits on,
cleared when it is read and set by `Wake`, so that a wakeup between scan and wait counts.

**FrameScheduler.** Each operation runs under the mutex and is one action; a
refused call changes nothing and is no step. `issued` remembers every handle given out,
so that any handle, fresh or stale, is tried in every state.

**Engine.** `task[f][k]` is the place of each task of each frame between two calls of
the scheduler; `completion[f]` is the `UpdateCompletion`; `record[s]` the
`FrameRuntimeRecord`. The metadata mutex is a predicate (`MutexFree`) over the
operations that hold it for several steps. A call of the frame scheduler is an
action of `FS` with its real guard, so that a call the scheduler would refuse
blocks the model; `FailuresAreContained` states that this never happens, for the tasks,
the completion, the reaping and the host. The frame runtime is the environment: the
constant `Environment` switches asynchronous updates, joined extraction, GPU
work, exceptions and failing allocations on.

**AccessCoordinator.** Threads have roles given by constants; a thread that calls from
the body of an operation is a worker that is also a producer, canceller or sealer.
`Schedule`, `Cancel`, `Seal` and the end of a body run into the same tail
(`progress`, `submit`, `release`, `retire`, `seal`), one action per critical section,
as `Progress`, `ReleaseTerminalFunctions` and `CompleteSeal` lock and unlock.
`Overlaps` is the code's case distinction over scopes; the properties judge it
against what scopes denote (`Denotes`), not against itself. Left out: calls that the
destructors of captures make, the destructor of the coordinator, exhausted owner
identifiers, and invalid arguments, which are rejected before any change.

**MainExecutor.** Each hold of `m_mutex` is an action; `stoppers[th]` are the commands a thread took
out of the queue in Stop and has not skipped yet. The main thread drains, runs a command
(which may post, drain and stop again) and sleeps; its sleep is taken as endless, so that
no command may depend on the timeout of 8 ms.

**FrameLoop.** `stage` is the part of the engine the loop sees, `promise` the GPU promise of a
frame, `queued` and `submitted` the two queues of the presentation runtime, `loopGpu` what the
GPU works on, over restarts too. A submission is refused for now, accepted, or fails before
or after it reached the GPU.

**SystemRuns, WorldEntities.** A system that declares nothing takes the whole World where a coordinator
is there to take it from, and constraints with a cycle are refused (`ScheduleAssumption`). `SystemRuns` is one record per run: the publication goes on system by
system while those published run and retire. With a coordinator an operation whose submission throws inside
`Progress` fails and nobody tells the run (`OperationFails`), those after it are cancelled
(`OperationCancelled`); only `Drained`, which collects their errors, makes the run fail. Tickets of producers and systems are one
counter, as in the code, and the last to retire commits or discards; both may throw. `WorldEntities` is sequential, as the World
is: each call is an action, its systems take turns; reservations of identities live in the
deferred queue, in the run, in buffers and in the plan of a structural phase, and
`Reservations` collects them.

**Hierarchy.** Links are those of `TopologyNode`. A transform is a translation on a ring of
`Ring` positions, enough to tell a composition from its inverse.

**Resources, LeaseStore.** Each call is an action under the manager's mutex. `operations` remembers what
loaders hold, `published` every version anybody may have leased: late completions and old
handles are tried in every state.

**ResourceIo.** Locked regions and calls out of the module are actions; Shutdown is three.

**Extraction.** The store moves (LeaseStore) between any two leases of the chunk tasks. What is prepared for
the GPU is named by the lease it was made from, so that a draw can be compared with what its
object referred to.

**RenderGraph.** Compile is an operator over what was declared, one action; its result is judged
against the definition of a graph that means what was declared (`CompiledMeansDeclared`,
`CompileIsExact`: the first of all orders that do).

**GraphicsObjects, ResourceStates, Uploads, Descriptors, PresentPath.** Beside the state of the code stands what the
device has (`objects`, `device`, `gpu`, `uses`, `wsi`), moved by external actions; the properties relate the
two. Render of the present path is cut at the calls that give the device time to move; `bad_alloc` after a
submission that succeeded (`clear_present_path.cpp:248`, `254-258`) is left out. The backend of `GraphicsObjects`
may answer any value, in use or not, except that of a destroyed object that still waits for the GPU.
`givenBack`, which no step reads, remembers the handles whose object a refused creation destroyed.

## 3. The runs

Bounds are the constants of each `.cfg`; the state space of each is finite without a
state constraint unless a constant says so (names beginning with `Max`, `InvalidIndex`,
`LastRun`, `LoopFrames`, `LoopRuns`, `PathFrames`; `MaxWork` in `MCGpu`).

| Run | Instance | Checks |
|---|---|---|
| `tasks_safety` | 3 tasks, 1 group, 2 workers, 1 host; symmetric | `TypeOK OutcomesFollowGraph BooksBalance EndsOnceDestroyed` |
| `tasks_liveness` | 2 tasks, 1 group, 2 workers, 1 host; 2 jobs, one endless and awaited by the other, 1 worker; fair | `EverythingEnds JobsAreSafe JobsEnd` |
| `ready` | 2 workers, 1 host, 4 entries, compaction from 2 on; 3 commands, 2 callers, 2 runs; 3 reads, 2 workers, limit 2; fair | `TypeOK PoolIsSafe ImplementsReadyPool PoolEnds MainIsSafe IoIsSafe CallersReturn` |
| `frames` | 2 slots, 6 frame indices; 2 loops of 4 frames; 2 runs of 3 systems; 3 nodes, 2 threads; 2 identities, 4 loads; fair | `TypeOK CheckpointAwaitsNewest ArenaIsOfFrame StaleStaysStale GpuKeepsSlot ImplementsPipeline LoopIsSafe RunsAreSafe TreeIsSafe ResourcesAreSafe ServesLeases ServicesEnd` |
| `engine_frames` | 2 slots, 3 frames, 1 run, aborts, waiting, asynchronous and joined work | `TypeOK FramesAreAccounted WorldIsExclusive AdmissionWakesWaiter` |
| `engine_failures` | 2 slots, 2 frames, 1 stopper, every failure, GPU | `FailuresAreContained` |
| `engine_stop` | 1 slot, 1 frame, 2 runs, 2 stoppers, 1 job, GPU; fair | `StopIsClean EngineProceeds` |
| `access` | 2 operations, 3 footprints, 2 generations, 1 worker, 1 host, 1 canceller; fair | `AccessIsSafe AccessesEnd` |
| `gpu` | 3 entities; 3 handles, 2 objects, 2 views; 3 passes; 2 owners of objects; 3 bytes, 2 subresources; 4 submissions of uploads; 5 requests of descriptors; 5 frames, 3 swapchains | `EntitiesAreSafe DrawsAreTrue GraphsAreSound ObjectsAreSafe GpuWorkIsSafe` |
| `tasks_cancel`, `engine_notification`, `access_seal` | see section 5 | expected violations |

Several properties are conjunctions of named parts, each with its own comment: for instance
`FramesAreAccounted` is that the records match the slots and that the checkpoints follow the newest
frame; `GpuWorkIsSafe` joins `StatesAreSafe`, `UploadsAreSafe`, `DescriptorsAreSafe` and `PathIsSafe`. Such a property has
several mutants, which break different parts of it.

Liveness is written `[]<>(everything accepted has ended)`: what is accepted is
accepted once and what has ended stays so, and the number of both is bounded, so the formula says
that each accepted thing ends, in one property TLC can afford.

Why the bounds suffice for the cases they are meant for:

* `tasks_safety`: three tasks make a chain and both shapes of a fork; with two workers one
  thread can end a task while another starts, submits after or cancels the next, and
  the host calls at the same time. One group has members, a gate that others
  depend on and, with a member that submits, descendants.
* `tasks_liveness`: two jobs are the least with an await; the worker, the dispatcher and the game are
  three threads that may each move the same job.
* `ready`: with two workers one can scan past an entry that the other's permit was for;
  four entries exceed the compaction threshold of two, so that a queue is compacted
  with live elements left and used again. Commands of two frames and of none meet a
  burst of one; a second run meets the leftovers of the first. Three reads exceed the limit.
* `frames`: six indices take each of two slots through three frames, so that a handle is
  stale by one and by two generations, and the last index is reached. Four frames of the
  loop use each slot twice; the second run meets a GPU that did not answer in the first.
  Two systems write batches of one component, disjoint where both are scoped, and one declares nothing
  and comes before the second of them: the two layouts are no coordinator, and both batches scoped.
  Three nodes have a cycle to refuse and a sibling to keep; further generations reuse a node and a slot
  of a resource.
* `engine_frames`: with three frames the first slot is reused while the second is in
  use. `engine_failures` has both frames in flight when one fails. `engine_stop` has a
  second run, so that a caller of Stop may be left over from the first.
* `access`: one pair of operations meets every case of conflict: the footprints are a
  written chunk, a read set of entities, and a written entity with an exclusive
  resource. The second generation replaces a domain in use.
* `gpu`: three entities and two waiting commands make a commit that is interrupted with a reservation
  left (with three entities issued only one command waits: `MaxWork`). A mesh is
  published twice between two chunks. Three passes have an order that is not the declared
  one, and a read that a write may overtake. Values of the backend are used again at once.
  Four submissions use an arena again and evict one; five frames wrap the ring of two contexts
  twice, with two recreations that may come in a row.

CHECK_DEADLOCK is off where the system really stops: the executor after its workers
left, the frame scheduler after its last index, the coordinator after its last
operation, the components of `gpu` at their bounds. The engine runs check deadlock; a
stopped engine can be polled.

### Fairness

* TaskSystem: a thread inside the executor goes on, callables return (the executor
  never interrupts one), a worker that can claim does, and groups are sealed in the
  end, as `task_groups.md` asks of callers. No fairness for new submissions, cancellation
  or the choice to stop.
* ReadyScheduler: each thread in a publication and each worker in its loop goes on
  (weak fairness: nothing else can disable their next step for good).
* UserJobs: the game ends the calls it is in; while a worker or the dispatcher can move, one
  does. Bodies return, those that wait for the stop once they have it.
* MainExecutor: the main thread goes round its loop, callers end the call they are in. Nobody
  has to stop the executor and no window event has to come.
* ResourceIo: threads run and the reader returns. Nobody need cancel or shut down.
* FrameLoop: the main thread and the workers run and bodies end. The GPU need not end its
  work; the deadline of the drain passes.
* SystemRuns: the owner starts or drops a run it prepared, workers go on, each buffer is submitted or
  destroyed.
* Engine: the host goes on with what it began; its sleeps have a time limit, so it
  polls. Strong fairness for worker steps, stop steps and polls, because they need the
  metadata mutex, which others take and release again and again: this is the
  assumption that the mutex starves nobody for ever. A simulation need not end
  unless it is cancelled; the GPU signals; user jobs end once asked.
* AccessCoordinator: each thread goes on inside a call or body; each idle worker
  takes submitted work.

Runs of invariants alone use no fairness. Liveness that is checked holds under these assumptions
only; in particular a callable that never returns stops the executor, as the code
says.

### Observations

Facts met while modelling that are neither defects nor contradict a document of the repository, and that a
reader of the models should know:

* After a barrier from a write to one kind of read, a second kind of read of a *buffer* is merged
  without a barrier of its own (`resource_state.cpp:75`). `ResourceStates` checks that every barrier names the
  earlier uses; the destination scope of that first barrier is not checked.
* A creation that the backend answers with a value in use is refused and the record stays. For pipelines
  the look comes first; for buffers, images, views and samplers (`graphics.cpp:292-303`) it comes with the
  insertion, when a guard already owns the value and destroys it at the backend: the earlier handle
  still resolves, to an object that is gone. `graphics_test.cpp:501-524` expects just this of a buffer.
  `CreateDuplicate` models it, and `HandlesAreFaithful` says that such a handle leads to nothing, never
  to another object.
* A commit that fails and gives back a reservation of an appended slot loses this slot. The World is
  closed then; `SlotsAreAccounted` allows it in this case only.
* `IsCancellationRequested` of an old operation becomes false again once the resource is loaded
  again; `CancellationIsSeen` is about the newest operation.

## 4. The proofs

`FrameSchedulerProofs` proves, for every `MaxActiveFrames` and `InvalidIndex` that are
positive (`FrameSchedulerAssumption`, the only assumption):

* `TypeCorrect`, `CheckpointCorrect`, `ArenaCorrect`: the invariants of the run `frames`;
* `WindowCorrect`: a frame in a slot is at most `MaxActiveFrames` behind the next one, so
  no slow frame is overtaken;
* `GenerationsSuffice`: the generation of a slot never passes the number of frames born, so the
  64-bit counter cannot wrap before the indices are exhausted;
* `StaleHandlesStayStale`, `GpuSlotIsKept`: action properties, over the same invariant;
* `PipelineImplemented`: `Spec => Pipeline!Spec`, that is, the ring of reused slots implements
  `FramePipeline`, under the mapping in `FrameScheduler` (the stage of a frame is the state
  of the slot that holds it; frames below the next index that no slot holds are gone).

The argument. None of these is inductive alone. The invariant `IInv` joins
`TypeOK` and `CheckpointAwaitsNewest` with: `FreeSlots` (a free slot has no frame, no draw
signal, no future and an empty arena); `OccupiedSlots` (an occupied slot holds a frame
whose index has this slot as remainder and lies in the window, and its arena holds
objects of that frame only); `UndrawnIsNewest` (only the newest frame may lack its draw
signal, which is why an abort of an older frame must leave the checkpoint alone);
`FinalizedIsDrawn` (a frame that is finalized has its draw signal); `PendingIsInFlight` (a
pending future means SUBMITTED or GPU_IN_FLIGHT, the stages that neither recycling nor
aborting accepts); and `HandlesArePast` (issued handles have indices below the next one,
and no slot has had more generations than frames were born). The window part of
`OccupiedSlots` is needed to show that a new frame finds its own slot free and that
frames in different slots differ, which takes the arithmetic of remainders (`DivMod`,
`RemainderUnique`, `ModShift`). There is one lemma per kind of step; `NextIInv` combines them.
The refinement follows the same cases: `HeldFrame` says which frame the mapping shows for
a slot, and each operation is one step of the pipeline or a stutter.

TLC checked `IInv` as an invariant of the instance of `frames` before it was proved, and `EngineInv` on the three
instances of the engine.

The same module proves `TreeSafe`, for every finite set of indices (`HierarchyAssumption`), any threads, generations
and snapshots: `TreeIsSafe`. The links alone are not inductive. `Forest` says that for each node there is a
list of its children, of which `first`, `last`, `previous` and `next` are the ends and the neighbours (`ListOf`), and a
depth in which parents are nearer to a root (`Falls`). `Detach` shortens one list (`ListLoses`); `Attach` extends one and deepens what is
below the child (`AttachSound`), which is possible just because `MayReparent` refuses a parent from
below; `Destroy` takes one child after the other until none is left (`ChildLeaves`). By the depth a walk meets no node
twice, so it ends within as many steps as there are indices (`UpEnds`), and where a node is depends on its local and
on where its parent is (`ResolveStep`): hence what is not below the one that moved stays (`RestStays`), and
`KEEP_WORLD` keeps the rest too (`WorldIsKept`, `AllStays`).

The other proof modules are laid out alike: the parts of the inductive invariant, each with what it says
of the code; lemmas about operators and numbers; one lemma per action, under it one step per part the
action can disturb; and the theorems, which follow from the invariant.

`EngineProofs`, for every number of slots, frames, runs, stoppers and jobs and every `Environment`
(`EngineAssumption`; `NoneIsNoKey`: the value for "no key" is no key): `EngineIsSound`, `TypesHold`, `BooksHold`,
`WorldIsNeverShared`, `WaiterIsWoken`, `FailuresStayContained` and `StopsAreClean`. That the slot of a frame
is in the state its next call needs is not inductive, since the tasks of a frame run
without the metadata mutex and fail anywhere. `FrameSound` says for each slot in use how the places of the six tasks,
the phase of the completion, the record and the state of the slot follow each other
(`UpdateSound`, `ChainsSound`, `StagesSound`, `DrawSound`, `GpuSound`); `DeadSound` that a frame without a slot has no task;
`CheckpointSound` and `AdmissionSound` that only the newest frame can lack its draw or have the admission closed, which
keeps two frames out of the world; `HostSound` that a sleeper which was refused will be told;
`StoppersSound` that what a stop awaited stays awaited. A step of a task of one frame is shown
to leave every other slot as it was, since frames and slots name each other (`LiveIs`).

`TaskSystemProofs`, for any finite sets of tasks, groups, workers and hosts (`TaskSystemAssumption`): `TaskTyped`,
`TaskOutcomes`, `TaskBooks`, `TaskEnds`. `TaskInv` adds to the properties who owns an ending node (`WorkersSound`,
`EndersSound`, `UndoSound`: one thread each, over batches, slots and rollbacks), which edges an accepted task still has
(`EdgesSound`, `CountsSound`, `DeclaredSound`: an edge, a completed dependency or a cancellation for everything
the task was submitted after), and what the books of a group count (`MembersSound`, `GroupsSound`, `VerdictsSound`).

The same module proves `JobsSafe` of the user jobs, for any jobs and workers and any bodies that await each other; that
names are told apart is all that is assumed (`UserJobsAssumption`). A phase alone protects nothing: the exchanges on it
are atomic, what follows them is not. `PhaseIsTrue` therefore says for each phase which threads may
be at the job, at which of their steps, and whether its body and its result exist; two owners would have to
hold one phase. `HandlesAreKept` says who may still ask for a result: the holder of a handle, or a body that
awaits the job; a job nobody submitted has neither. `ReportsAreMade` then follows through either order of the end
of a job and the end of its last consumer. `ScopeIsTrue` says that the list that Join waits for has every job that is not
over, and gets no more after the scope is left, between whose check and the list stands the whole submission.

`QueueProofs`: `PoolTyped`, `PoolSafe` and `PoolRefines` (`Spec => ReadyPool!Spec`) of the ready queues, for any number of
workers and entries and any compaction threshold; `MainSafe` of the commands for the main thread; `IoSafe` of the
reads. The pool needs that the live parts of the queues have no entry twice (`QueuesAreSound`, `EntriesAreApart`,
`EntriesArePublished`); that no wakeup is lost is then counted: permits and workers about to look
against live entries. The main executor needs that a command taken out by a stop is in no queue
(`QueueIsExact`) and that `overtaken` counts what passed the oldest frame command (`OvertakenCounts`); the reads
need where each read is (`QueuedReads`, `HeldReads`, `OtherReads`, `LateReads`).

`AccessCoordinatorProofs`, for any footprints whose scopes are well formed (`FootprintsAssumption`), any
disjoint hosts and workers (`RolesAssumption`) and any number of operations and generations (`BoundsAssumption`):
`AccessSafe`. Scopes that share an element overlap (`DenotedBothOverlap`). `AccessInv` says that
conflicting operations are dependencies of each other until the earlier one retires (`ConflictsAreDependencies`), that
the counters are the numbers of what they count (`CountersAreExact`), and that each body and each capture has
one owner (`BodiesAreOwned`, `CapturesAreOwned`).

`ResourcesProofs`, for every finite set of identities and any bounds (`ResourcesAssumption`): `ResourcesSafe` and
`LeasesServed` (the manager implements `LeaseStore`, whose readers `Extraction` is built on). `ResourcesInv` says that the
generation of a slot is the newest it ever had (`HandlesAreCurrent`), that the index and the entries name each other
(`IndexIsExact`), and that loads and versions are numbered without gaps.

`FrameServiceProofs`: `LoopSafe`, for any number of slots, frames and runs of the loop (`FrameLoopAssumption`), over `LoopInv`
(frames begin in order, a promise is pending exactly while one of the queues has its frame, submissions and GPU work
are in order); and `RunsSafe`, for any finite set of systems with constraints that can be ordered (`SystemRunsAssumption`,
`ScheduleAssumption`). `RunsInv` counts the participants of a run: publisher or coordinator, systems at work, buffers
(`ParticipantsCounted`), so that the last one to retire really is the last; `FailuresSound` says that operations
are cancelled only behind one that failed, and that a coordinator that drained over a failed one left its error to the run; `GuardSound` gives the World to one run;
`WritesSound` says that what is written is reported or will be.

`GpuProofs`, for any tables, rings, pools, ranges and budgets that the assumptions of the five modules allow:

* `ObjectsSafe`: `ObjectsInv` says that a record stands for the one object of its value that is in use (`RecordsMatch`),
  so that a handle whose generation matches names what it was made for, unless a refused creation destroyed
  that object (`givenBack`), and that the image a view was made from still resolves (`ViewsResolve`). A generation
  once given is not given again (`GenerationsPass`), so a handle in `givenBack` never comes to name a later object.
  Values in use are covered for every kind.
* `DescriptorsSafe`: sets are decided by their keys (`KeyDecidesSet`); a use that the GPU has not done
  is of a value not reported yet (`UsesAreReported`).
* `PathSafe`: `FramesCounted` numbers the values of the timeline by frames, `ContextsSound` ties a
  context to the last value it served, `PresentsInOrder` keeps the presents of older chains
  before those of newer ones, each with an image of its own, and `RetirementSound` says that when a new
  chain shows its first image nothing of an older one is left to present, which is when they are retired.
* `StatesSafe`: for each byte or level, what the tracker holds is what the device last did to it (`Kept`), for
  the saved copy as well, so that a rollback restores the truth.
* `UploadsSafe`: an arena that a copy reads is in use (`AllServed`), and the staging bytes are
  the sum of the arenas. Batches and evictions are folds; `PrefixInduction` turns the
  induction over them into one over the positions of a sequence, which `FoldRuns` and `TotalRuns` state
  once: a fold is its run of prefixes, a total is the sum of its parts.
* `GraphsSound`: the order Compile sorts is the greedy one (`IsGreedy`, `SortedIs`), hence the first
  that follows the edges (`GreedyIsFirst`), and when the sort is stuck no order follows them, since the passes left
  over would each wait for another (`StuckMeansNone`). Compile draws edges from the last
  writer and its readers only; `ConflictsFollow` shows by strong induction that the edges left out follow from those
  drawn. Contents are traced pass by pass in the compiled order (`ContentsAreTraced`) and meet those of the
  order declared, because users of a resource keep their order relative to its writers (`OrderIsKept`).
* `DrawsTrue`: a chunk holds the objects of its range that it has passed, in order, each with versions that
  were published (`ChunkSound`), so that what is merged is in the order of the world (`MergedInRange`). The order
  of commands is total (`NotLess`), so they can be sorted (`CanBeArranged`), and between two commands of a
  batch there are only commands of it (`KeyBetween`): a batch is a run and every run a batch (`BatchesPart`).
* `GpuWorkSafe`: side by side each part still runs by its own specification (`PartsRunAlone`), so
  `GpuWorkIsSafe` holds of the composition.

**What the proofs changed in the models.** The proof about `Engine` did not go through at first because `Refuse` gave the version
captured by the host by two overlapping cases, of which TLC takes the first; the two are now told apart as the
code does. That `ScheduleAssumption` is needed, and what a system without declarations excludes, also came from a proof.
`PresentPath` took its images from a bound of the run, `ResourceStates` did not say that "no state" is no state,
`Uploads` took its batches from any set, and views of `GraphicsObjects` could carry no image: the instances never
met these cases, the proofs did, and each is now stated where the code guarantees it. `UserJobs` did not say that
the names of threads differ from those of jobs, which the model compares when it asks who holds a handle.
`Hierarchy` summed the locals of a set of ancestors; it now walks from parent to parent as `TopologyState::Resolve` does.

Only model-checked: `EntitiesAreSafe` (no proof written: its invariant is that of the ECS
as a whole, and the model sorts and selects with operators the prover cannot expand), and all liveness. Out of reach of the provers used here, and left to
TLC for good: liveness under fairness and ENABLED. The library's induction theorems take operators as
parameters and cannot be cited; where a fold or a recursive function is proved about, its domain is finite and the
induction is over sets of positions (`PrefixInduction`, `RunExists`). No module uses a RECURSIVE operator.

## 5. Disagreements between code and documentation

Each is a run that is expected to find a violation.

* `tasks_cancel` (`task_system.cpp:551`): a Cancel that races the claim of the task returns
  normally and cancels nothing; `task_retirement.md` promises INVALID_STATE for a
  running task.
* `engine_notification` (`engine.cpp:663`): the last notification of a draw comes from inside its
  task, before the task is terminal. A host that captured the version in between is
  refused and sleeps until its time limit, although `engine.h` describes the version as the
  protection against lost notifications. The limit makes this a delay and no hang, which
  is why `AdmissionWakesWaiter`, which does not count on reaping, holds.
* `access_seal` (`access_coordinator.cpp:426`): Schedule does not look at the seal when it ends. If
  another thread seals meanwhile and the operation ends inside Schedule, OnDrained is
  never called. World schedules and seals on one thread and does not meet it.

## 6. Not modelled, and what is left

Not modelled, with the reason:

* Scenes: a registry of one thread whose handles and generations follow the discipline that
  `FrameScheduler`, `GraphicsObjects` and `Resources` already have.
* Window: calls of GLFW on one thread and a queue only this thread uses.
* Loaders: sequential parsers; what they parse is data no property tells apart.
* Math, transforms, cameras: floating point, which TLC cannot evaluate.
* Device selection, Vulkan pipelines, command recording, capability checks: sequences of driver
  calls that keep little state.
* Component storages and queries of the World: containers of one thread at a time, whose exclusion
  is what `SystemRuns` and `AccessCoordinator` check.
* Errors, wrappers, samples, benchmarks, vendored code.

What is left is proof: `EntitiesAreSafe`. Liveness stays with TLC.
