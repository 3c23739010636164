# TLA+ verification of the GPU checkpoint/restore system

Modules, TLC configurations and TLAPS proofs for the Kubernetes-native GPU
checkpoint system in `src/`. `PROJECT.json` ties every definition to the lines
it models and lists the runs, mutants, hazards, findings and theorems.

## 1. The system

A user creates a `WorkloadCheckpoint` (a Deployment, StatefulSet, ...) or a
`GPUCheckpoint` (one Pod). The **orchestrator** turns the first into one
`GPUCheckpoint` per Pod. A **node agent** runs on every GPU node; the one on the
Pod's node runs the **checkpoint pipeline**: ask the library in the Pod to move
the GPU data to a file (freeze), have the kubelet image the container, ask for
the data to be moved back (remap), store the artefacts. In the Pod, the
preloaded **data engine** serves `cudaMalloc` with memory it owns, watches the
control file, freezes and remaps, and holds kernel launches meanwhile.

| component | state | operations | talks to |
|---|---|---|---|
| data engine, `interceptor/preload.c` | `g_owned[]`, `g_owned_n`, `g_gate`, `data.blob` and its mapping, staging buffers | `watcher`, `checkpoint_freeze`, `restore_remap`, `blob_map`, `pipe_copy`, `gcr_vmm_alloc/free`, `gcr_gate_set/wait`, launch hooks | the control file; the CUDA driver; the application's threads |
| copy engine, inside `preload.c` | two pinned staging buffers, the blob | `pipe_copy`, `memcpy_mt`, the serial loops | the device's stream, copying threads |
| control channel, `interceptor.go` and `read_signal`/`write_signal` | one file with one word, per Pod UID; the library on the node | `Signal`, `WaitForAck`, `Install` | written without a lock by the agent and by the watcher of every process that loads the library |
| pipeline, `checkpoint.go` | the run's progress, its settings | `Checkpoint`, `store*` | control file, kubelet, storage |
| kubelet client, `kubelet.go` | none | `Checkpoint` | kubelet |
| agent controller, `reconciler.go`, `schedule.go` | `GPUCheckpoint.status` | `Reconcile`, `fail`, `NextRun` | API server through caches; the other agents through the object |
| orchestrator, `workloadcheckpoint_controller.go` | `WorkloadCheckpoint.status`, the children | `Reconcile`, `aggregate`, `finish`, `buildChild` | API server through caches; the agents through the children |
| storage backends, `checkpoint.go` | mounts, archives | `store`, `storeMount`, `storeToDir`, `ensureMounted`, `ensureRealMount` | file systems; `perPodStorage` of the orchestrator |

**What is hard here.** The watcher walks the table without a lock while the
application allocates, frees and launches. The control file is written in two
steps (empty, then the word) by both sides, and an empty file counts as an
answer. Every process of a Pod that loads the library watches the same file, and one
without GPU memory answers for the one that has it. Requests are repeated after time-outs and crashes, with nothing
remembered about a workload that is frozen. Controllers decide from caches of
different age, and one of several status updates may be refused. Calls of the
driver fail half way through a loop. Which field of a storage spec counts for which
type is decided in two programs, and an agent dies between a copy and a removal. A copy that
fails, a blob that is missing and a removal that fails are not told to the caller.

**What makes each component correct.**

* *Engine*: the application cannot tell that a checkpoint was taken; data comes back to the address it left; no launch on memory that is
  off the device; no launch held for ever; every request is answered.
* *Copies*: every unit comes back to its place; no buffer is used by two at once.
* *Pipeline*: what is stored is complete and consistent; the Pod is not imaged in
  the middle of a freeze; runs end; the workload resumes; a repeated request succeeds.
* *Storage*: a path that is reported holds what it says, in the backend that was asked
  for; no archive is lost, or left behind without a reason; replicas stay apart.
* *Agents*: one pipeline per Pod; the status does not claim more than was stored;
  recorded checkpoints keep the schedule; a failed request is tried again; all agents
  together change the status as its readers expect.
* *Orchestrator*: `Completed` is true; status follows the children; every Pod gets
  its child; `maxConcurrent` is kept.

## 2. Modules

How they fit together:

* `DataEngine` implements `GatedMemory`, what the engine promises the application
  (property `Transparent`, refinement mapping `Memory`). `CopyEngine` is the inside of
  one of its steps, the copy of a segment. `Checkpointer` uses the engine as what
  it promises: freeze, remap and a gate.
* `AgentReconciler` implements `ChildStatus`, what the status of a `GPUCheckpoint` promises its
  readers (`StatusAsPromised`). `Orchestrator` lets its children change by the actions of an
  instance of `ChildStatus`, one per Pod, so what it shows holds for any agents that
  implement it. That a child's run is recorded in the end, which `Orchestrator` assumes as
  fairness, is `Served` of AgentReconciler.
* `Checkpointer` is the pipeline AgentReconciler reduces to a good or a bad end, and `Storage`
  the inside of its last step.

### DataEngine (`interceptor/preload.c`)

One watcher (`pc`), any number of application threads (`tpc`). Each iteration of
a loop of the watcher is a step, because it takes no lock. `n` is the bound the
caller read, `cn` the one `pipe_copy` reads again. `gcr_vmm_free` is two steps
(`FreeBegin`: unmap, release, free the address; `FreeEnd`: clear `live`), a launch
is the unlocked look (`GateFast`), the wait under the lock (`GateSlow`) and the
launch itself. `Faults` names the calls that may fail at any time; `setup` is what
the process finds when it starts: staging buffers and streams (`async`: else the
serial copy is used), entry points (`symbols`). The refinement mapping takes the
application's data from the blob while a segment is frozen and from the device
otherwise, so that freezing and remapping are stutters.

Abstractions: segments have one size, so an offset counts segments; a segment's
contents is one value (`Vals`, `Blank`) and is copied in one step; a kernel
finishes when it is launched; `symbols` is one flag for the entry points of freeze
and of remap; a launch stands for any use of memory by a kernel (the
application's own `cudaMemcpy` is not held by the gate, and not modelled);
requests come at any time, so what is shown holds for every agent. `want` and
`overlap` are history variables: what the application last wrote at an address,
and whether an event of a kind in `Excused` has met a freeze or remap.

### CopyEngine (`pipe_copy`, `memcpy_mt`, the serial loops of `preload.c`)

One freeze and one remap of a fixed table. The copying thread (`pc`, `i`, `coff`), the
parts of a `memcpy_mt` (`work`, done in any order) and the device (`stream`, in order and
at its own pace) share the staging buffers `bufs`. A unit's contents is the place it
belongs to, so that a unit in a wrong place can be seen. A call may fail (`rc = -1`,
`fin`), and a copy may fail on the device after its call, which the code does not
look at; `LossContained` says that it costs its own chunk. An asynchronous copy takes
effect at one moment between its call and its event.

### Checkpointer (`checkpoint.go`, `interceptor.go`, `kubelet.go`, the watcher's side)

The agent's steps (`apc`) against those of the watchers (`wpc`, one per process) over the
control file `ctl`. `gcr_init` starts a watcher in every process that loads the library:
`Owner` is the process with the GPU memory, `Others` the rest, such as the shell of
`deploy/opt-1.3b-pod.yaml` that starts it; they have a watcher when the Pod is `shared`. Everybody's writes are two steps, open (which
empties) and write, each of which may fail. The pipeline is repeated from `idle`, as the
reconciler does after an error and at the schedule's times. `tar` is the image of the Pod
(was the data frozen, which version of it, what was the owner's watcher doing), `stored` what
the backend has.

The engine is reduced to what its calls do to the memory as a whole: whether it has
entries (`owned`), whether some are on the device (`fresh`) or off it (`frozen`), the gate and
the blob. A freeze with nothing owned, or without entry points, is only acknowledged
(`Freezes`); one that finds nothing on the device, or cannot map the blob (`BlobMapFail`),
leaves the gate up and is acknowledged; one whose copy fails gives the memory back all the
same (`CopyFail`); one that meets memory allocated since an earlier freeze writes over that
freeze's blob. `spoilt` is a history variable: the blob of the data that is frozen now was
torn in one of these ways. A container that dies in its freeze leaves a torn file behind.

`config`, chosen at the start, is the three settings of the agent, whether the library finds its
entry points, whether the Pod is `shared`, and the bound on faults that goes with it. A restarted agent runs `Install()` first, which empties and rewrites the library
(`lib`) that starting Pods load; a Pod started in between, or before the first `Install()`,
has no watcher (`wpc = "none"`). Copying archive and blob to the backend is one step; that
this loses nothing in a Pod with one watcher is the invariant `BlobNotTorn`. Faults (time-outs,
failed calls, crashes, restarts of the container) are counted against `maxFaults`; a time-out
that must come because nobody is left to answer (`Unanswered`) is not counted.

### Storage (`store` and what it calls in `checkpoint.go`, `copyFile`, `perPodStorage`)

One agent and a few requests, one run at a time from the archive the kubelet left to the
update of the status, repeated when it fails. `AgentMounts` is what `/proc/mounts` of the agent
has to begin with, volumes and the container's own file systems; `mounts` is what the agent has
mounted below `mountBase`. `best` is the longest mount on the way to a path, and
`ensureRealMount` refuses only an overlay at the root, as the code does. `files` is what was
written where; a destination is the file system the path leads to at that moment, the
directory, the name and the second. Opening a file empties it and the copy follows, each a
step. A crash is a new Pod of the agent: its mounts are gone, and so are the files on file
systems that do not outlast it. (A restart of the container alone would keep a little more.)
A mount source is a sequence of characters because `sanitizeMount` makes the mount
point from them; paths are sequences of components. A run that finds no blob goes on as if
it had one (`NoBlob`), and so does one that cannot remove the archive (`UnlinkFail`). History
variables: `overwritten`, runs whose files a later run of the same name and second reused;
`broken`, runs that failed; `kept`, runs whose archive could not be removed; `bare`, runs
without a blob.

### ChildStatus and AgentReconciler (`reconciler.go`, `schedule.go`)

One `GPUCheckpoint`, one agent per node, each with its own cache of the object and
of the Pod. A status update is refused when the copy it was made from is old;
resource versions are reduced to that (`behind`, `outdated`). Reading the caches
and the first write are one step: a change in between is a cache that is behind.
The pipeline is `Imaged` (needs the Pod on this node) then `Stored`, or
`RunFailed`. Delayed requeues are `timer`s; where the bounded clock stops, all of
them fire, so that the bound hides no retry. The event filter is in `SyncObject`:
only a change of the spec queues the item; Pods queue nothing. `scenario`, chosen at the
start, is the object and the bounds that go with it. `ChildStatus` keeps three things:
whether the schedule recurs, the phase, and whether a checkpoint is recorded.

### Orchestrator (`workloadcheckpoint_controller.go`)

One `WorkloadCheckpoint`. Resolving, each iteration of the fan-out loop, and the
roll-up are steps, over caches of Pods and children that lag. The list comes in
any order, as a list from a cache does. What agents do to a child are the actions of
`ChildStatus`. Workload kinds, selectors and the GPU filter are reduced to the set of
Pods they select. `scenario` is the request (action, schedule, `maxConcurrent`), the Pods
and nodes in play and the bounds that go with them. A Pod may come back on another
node, as a StatefulSet's does.

The `MC*` modules hold only constants for TLC. Each component's theorems and proofs are in
its `*Proofs` module (`DataEngineIntegrity` has those about DataEngine's data).

## 3. Runs

All of them under `Spec`; deadlock is checked everywhere (`Quiet` and `PollIdle` are
the system waiting for an event).

| run | checks | result |
|---|---|---|
| `engine` | `TypeOK`, `GateCoversFrozen`, `NoLostWakeup`, `Integrity`, `Transparent`, `WatcherReturns`, `RemapLowersGate`; every setup, every failure | holds |
| `engine_gate` | `NoLaunchFault` | **violated**: a launch that passed the look before the freeze |
| `engine_refreeze` | `Integrity` with `"refreeze"` not excused | **violated**: freeze, `cudaMalloc`, freeze overwrites the first freeze's data |
| `copy` | `TypeOK`, `RoundTrip`, `NeverMisplaced`, `NoRace`, `LossContained`; every table of up to three segments | holds |
| `pipeline` | `TypeOK`, `StoredComplete`, `DumpNotMidFreeze`, `BlobNotTorn`, `FrozenInBlob`, `AgentReturns`, `Retried`, `Resumed`; every setting, and a Pod with two watchers | holds, 650 thousand states |
| `pipeline_stuck` | `AlwaysResumed`, without faults | **violated**: the ACK of the freeze replaces the RESTORE |
| `storage` | `TypeOK`, `ReportedIntact`, `NothingLost`, `NoneLeft`, `ReplicasApart`, `Delivered`; pairs of requests on every kind of backend | holds, 89 thousand states |
| `storage_mounts` | `ReportedIntact` for two sources that differ in a separator | **violated**: the second is stored in the backend of the first |
| `agent` | `TypeOK`, `OnePipelinePerPod`, `CountNotOver`, `Spacing`, `StatusAsPromised`, `Served`; one-shot objects that are edited or whose Pod is replaced, and a recurring one | holds, 610 thousand states |
| `agent_again` | `TakenOnce`, without faults | **violated**: another agent's write makes a one-shot checkpoint run twice |
| `orchestrator` | `TypeOK`, `CompletedSound`, `StatusCurrent`, `Served`; one-shot, zero, recurring and restore requests | holds, 320 thousand states |
| `orchestrator_limit` | `InFlightBound`, without faults | **violated**: a child is created before the active ones are counted |

The six violations are disagreements between the code and what its own comments
and READMEs say; `PROJECT.json` quotes the lines. Each passing property has a mutant
of a mapped definition (in the modules, marked *Mutant*) under which TLC finds it
violated.

**What `Integrity` and `Transparent` leave out.** No data is lost in any sequence of requests
unless one of the following met a freeze or remap, and each of them does lose data
when it is not in `Excused`:

* `malloc`: memory allocated between the sizing loop (preload.c:521) and `pipe_copy`
  reading `g_owned_n` again (:455) is copied to offset 0, over the first segment;
* `launch`: a kernel launched after passing the gate writes behind the copy;
* `free`: `cudaFree` while a freeze or remap walks the table, or of a frozen segment;
* `refreeze`: the run `engine_refreeze`;
* `fault`: a failed copy (`pipe_copy` returning -1 is not looked at, :526 and :586), a
  failed `cuMemCreate`, a blob that cannot be mapped.

**Other things the models show that no run is spent on.**

* With `nodeInfo` empty and a Pod that is not scheduled yet, no agent is the target
  and none asks to be called again (reconciler.go:64), though README.md:59 calls the field
  "optional; resolved from the Pod if empty". `Served` of AgentReconciler is therefore
  stated, where no node is named, for a Pod that is scheduled from the start. Children
  of the orchestrator always name the node.
* Agents that are not the target write `Failed` over any status, also `Completed`, when
  their cache has no such Pod (reconciler.go:47-49). A one-shot object whose checkpoint is
  recorded then stays `Failed`, because nothing is due; `ChildStatus` says so.
* The agent can take the end of one phase for the end of another: an empty file
  during its own predecessor's write counts as the ACK of the freeze or the remap.
* A scheduled request whose workload has no Pods for a moment ends in `finish()`
  without a requeue (controller:78-79, 368). Pods that come later are found by another event
  or by the periodic resync of controller-runtime, hours later; hence `<>[]~wc.short` in
  `Served` of Orchestrator.
* A request whose backend is refused (`s3`, `pvc`, a part missing, a path on the overlay)
  is refused after the workload was frozen and imaged: each retry, every 30 seconds, holds
  the workload and leaves one more archive in the kubelet's directory
  (checkpoint.go:141-147). `NoneLeft` allows it: those runs failed.
* A failed `os.Remove` of the local archive is logged at level 2 and the run is a success
  (checkpoint.go:265-267): archives then pile up on the node, which `NoneLeft` also allows
  and nothing in the object's status shows.
* A blob that is missing, empty or cannot be looked at is a warning (checkpoint.go:258-260):
  the local archive is removed and the checkpoint counted, without the GPU data. The
  properties of Storage then speak of the archive alone.
* *Two watchers.* `deploy/opt-1.3b-pod.yaml:30-41` sets `LD_PRELOAD` and `GCR_POD_UID` for a
  `bash -lc` whose child python has the GPU, so both watch one control file (preload.c:241-245).
  bash owns nothing and answers a checkpoint at once (:220-223), also while python is copying its
  data out. Without `~config.shared` TLC violates `DumpNotMidFreeze` and `BlobNotTorn` with no fault
  at all, though interceptor.go:97-98 says that the ACK signals "that the requested phase
  finished". A RESTORE that bash takes for its own leaves the workload frozen, which `Resumed`
  excuses as `lost`. What holds with two watchers is `FrozenInBlob`, and that runs end.
* A failed copy is acknowledged like a good one (preload.c:526): a checkpoint without the data is
  stored and counted, though checkpoint.go:47-48 speaks of a checkpoint that is "COMPLETE and
  restorable". Without `~stored.spoilt` TLC violates `StoredComplete` with one fault.
* `ensureRealMount` refuses an overlay at the root and nothing else (checkpoint.go:348). A hostPath
  in `/dev/shm` of the agent's container is accepted and gone with its Pod, which the comments at
  :181-182 and :324-326 mean to rule out. Without `Firm` TLC violates `ReportedIntact`.
* A child keeps the node of its first Pod (controller:256, :104-110): a Pod of the same name on
  another node, as a StatefulSet's, is never checkpointed, though workloadcheckpoint_types.go:83-85
  and orchestrator/README.md:94-96 promise replaced replicas a child of their own. Without
  `OnItsNode` TLC violates `Served` of Orchestrator.
* Two runs under one name within a second overwrite each other (checkpoint.go:233), and
  the name `pod_namespace-container` is the same for namespace `a-b`, container `c` and
  namespace `a`, container `b-c`. The properties of Storage leave these runs out.
* A replica's `subPath` takes the place of the parent's `path` for type `mount`
  (`perPodStorage`, then `firstNonEmpty` at checkpoint.go:168-169), though
  gpucheckpoint_types.go:54 calls `path` the subdirectory. Replicas still stay apart.
* A copy that fails on the device is not noticed (preload.c:474, :482, :486): the freeze
  gives the memory back and the blob holds what was in the buffer before.
* `CompletionTime` stays unset for `PartiallyFailed` and for `Failed` by roll-up
  (controller:337-342).
* A scheduled request with `maxConcurrent` can starve a Pod: recurring children that
  become active again may fill the limit at every poll. `Served` says so by its hypothesis
  `Unlimited`, and the recurring requests of the run have no limit.

### Bounds

* *DataEngine*: 2 addresses, a table of 2, 1 thread, 1 value (2 for `engine_refreeze`; a
  value can be told from `Blank` always). Two segments are what a wrong offset or
  bound needs; a table of 2 is full after two allocations, so frees and a third
  allocation meet the full table. More threads add no kind of step: a thread in
  `cudaFree`, at the gate or launching is independent of the others, and the theorems
  hold for any number.
* *CopyEngine*: buffers of 3 units, pages of 2, threads from 2 units on, 2 threads;
  segments of 1, 3 and 7 units, i.e. shorter than a buffer, a buffer, and two buffers and a
  rest, and one that is not selected; up to 3 of them, so that both buffers are
  reused across segments. One failed call and one failed copy.
* *Checkpointer*: 2 stored runs, so that a second run meets what the first left; 1 change of
  the data, so that two versions differ; 2 faults under the default settings, e.g. a time-out
  and a crash in one behaviour, 1 under each other setting and with two watchers. Two watchers
  are what the shipped Pod has; a third without memory could do nothing the second cannot, and
  `FrozenSafe` holds for any number.
* *Storage*: 2 requests in the pairs of `ManyScenarios`: two replicas on each kind of backend,
  different backends, refused requests, the same name twice, options the server does
  not take, a hostPath into the other request's backend and one on a tmpfs, a dry run, blobs
  not kept; the container starts with an overlay root, a tmpfs and a volume; 2 seconds, 2 runs
  of each request, 1 fault.
* *AgentReconciler*: 2 nodes, 1 Pod, created, scheduled and deleted at any moment. One
  one-shot object is edited or meets a fault (1); another names no node and its Pod is
  replaced by a second one, on either node; their clock stands, all delays end. The
  recurring one has a period of 2 ticks on a clock of 2, so that a second checkpoint is due
  exactly at the bound and one tick earlier is too early. The count in the status and the one of
  what was stored both stop at `MaxTaken`.
* *Orchestrator*: 2 Pods with `maxConcurrent` 1 and one Pod event or one fault; 1 Pod on 2
  nodes with two Pod events, i.e. a replacement; the recurring requests without a limit.

Scenarios are chosen in the initial state, so each run covers all of its own. No symmetry
is used: the runs have liveness properties.

### Fairness

* *DataEngine*: the watcher (a detached thread in an endless loop) and a thread that
  is past a wait or inside `cudaFree`. Nothing is assumed of the application's
  calls or of requests.
* *Checkpointer*: the pipeline (one goroutine; a wait has a deadline; a crashed
  container is restarted) and each process's watcher (a detached thread). Nothing is assumed of the application, and
  faults are never required.
* *AgentReconciler*: each agent's work queue, its timers and its watches
  (controller-runtime delivers both in the end), and the clock.
* *Storage*: the agent goes on, and its work queue takes a failed request up again. The
  clock, crashes and failures are not required.
* *CopyEngine*: none; all its properties are invariants.
* *Orchestrator*: the controller, its timer, its watches, and for each child that the
  recorded end of a run that is possible comes (`AgentDone`), as `Served` of AgentReconciler
  shows of the agents.

`Served` of AgentReconciler assumes that the Pod stays (`<>[]Eligible`); `Served` of
Orchestrator that the Pod stays up, on the node its child names if it has one, that the
request is not left finished for want of Pods, and that a recurring one has no limit;
`Retried` that the Pod has its watcher.

## 4. Proofs

Each `*Proofs` module, and `DataEngineIntegrity`, proves its component's invariants for every value of the constants that
meets the assumption named in the component's module. A property is seldom inductive; the
module states the strengthening, part by part, with an initial lemma and a step lemma with one
step per action.

| module | assumed of the constants | theorems |
|---|---|---|
| `DataEngineProofs` | `EngineAssumption`: `MaxOwned > 0`, known setups and failures | `TypeCorrect`, `GateSafe`, `WakeupSafe` |
| `DataEngineIntegrity` | the same, and `Excused = Events` as a hypothesis of its theorems | `IntegritySafe`, `TransparentSafe` |
| `CopyEngineProofs` | `CopyAssumption`: sizes above 0, segments not empty | `TypeCorrect`, `RaceSafe`, `PlaceSafe`, `RoundTripSafe` |
| `CheckpointerProofs` | `CheckpointerAssumption`: known settings, bounds on numbers of runs and faults, `Owner` is not one of `Others` | `TypeCorrect`, `FrozenSafe`, `StoredSafe`, `DumpSafe`, `BlobSafe` |
| `StorageProofs` | `StorageAssumption`, `MountBaseAssumption`: scenarios and mounts have their types, something is mounted at the root and nothing below `mountBase`, `"none"` is no request | `TypeCorrect`, `LossSafe`, `LeftSafe`, `ReplicasSafe`, `IntactSafe` |
| `AgentReconcilerProofs` | `ReconcilerAssumption`: scenarios have their type, `Retry > 0`, `NoNode` is no node | `TypeCorrect`, `CountSafe`, `SpacingSafe`, `PipelineSafe`, `Refinement` |
| `OrchestratorProofs` | `OrchestratorAssumption`: finitely many `Pods`, some node | `TypeCorrect`, `CompletedCorrect`, `StatusSafe` |

**DataEngine.**

* `TypeCorrect`: offsets and sizes stay in the blob: `CountBound` (a set of naturals below m
  has at most m members) and `OffsetsBound` bound what the sizing loop and `restore_remap`
  compute.
* `GateSafe`: lowering the gate (`RemapOpen`) is safe because nothing is frozen then, which
  holds because phase C ran over all frozen entries, which holds because they lie below the
  bound `n` that was read, because they lie below `g_owned_n` when it is read. `GateInv` says
  this, state by state of the watcher, and that without entry points nothing is ever frozen.
* `WakeupSafe`: inductive with types.
* `IntegritySafe`: `Intact` is not inductive. `Good` adds what it rests on, and holds as long as
  `overlap` does not (`DataInv`): no two live entries have one address (`Table`); a frozen
  segment's data is at its offset and any other memory's on the device (`InBlob`, `OnDevice`); the
  offsets handed out differ (`OffsetsGrow`), and what the copy loop has passed is staged or in the
  blob (`FreezeInv`); which frozen entries have memory again and which their data (`RemapInv`).
  That the remap does not cut the file below a frozen segment is `NeedCovers`. The lemmas
  `GoodCopyFail`, `GoodCreateFail` and `GoodFillFail` show that without an excused event these
  failures cannot happen: the driver has no other reason to refuse. The hypothesis
  `Excused = Events` is that of the run `engine`; without `"refreeze"` the run `engine_refreeze`
  violates the property.
* `TransparentSafe`: under `Good`, blob and device together hold what the application last
  wrote (`DataWanted`), so a step of the watcher shows at most the gate (`WatcherSeen`), and a
  thread's step is the promised one (`AppSeen`).

**CopyEngine**, for any table, buffer and page size, and number of threads.

* The layout of the blob is computed by a recursive function. What the copies rely on
  (`Layout`: selected segments do not overlap and lie in the blob) is proved by induction over
  the table. The induction principle itself (`SetInduction`, for a set of numbers) is derived
  from the well-foundedness of `<`, so that no theorem with an operator parameter is needed.
  `PartsCover`: the shares of `memcpy_mt` are disjoint and cover the copy.
* `RaceSafe`: `Control` says for each `pc` which of the two chunks, `prev` and the one at hand,
  may be in the stream. Before a thread touches a buffer, the event of its chunk was waited for.
* `PlaceSafe` and `RoundTripSafe`: `DataInv` follows a unit from the device to its buffer
  (`FreezeBuffers`), to the blob (`Copied`, but for what is `Unflushed`), back to a buffer
  (`RemapBuffers`) and to the device. A failed copy of the device is what `FreezeBuffers` and
  `InPlace` exclude; a failed call only ends `Copied`.

**Checkpointer**, for any number of time-outs, retries, crashes and restarts.

* `FrozenSafe`, for any number of watchers: the gate goes up before the data leaves the device
  (`GateFirst`) and only the owner's remap, which leaves nothing frozen, lowers it; while it is up
  the application does not change the data, so the blob of the freeze stays that of the data.
  An agent without interception never touches it (`Untouched`).
* `StoredSafe`, `DumpSafe`, `BlobSafe`, for one watcher: from the ACK of its freeze to the end of
  the run, no freeze is under way or asked for (`NoFreeze`), because an ACK, also a late one of an
  earlier run, takes the request out of the file. So the kubelet does not meet a freeze, and the
  blob stays the one of the freeze the archive was made under (`TarInBlob`). With a second watcher
  the ACK may be anybody's, so the three properties say `~config.shared`.

**Storage.**

* `LossSafe`: `RunInv` says where a run may write (`Mounted`, `Placed`), that its archive is on the
  node until it is stored (`AtHand`), what was at the destination (`Before`) and what each state
  has written so far (`Progress`). What a crash takes away lies on file systems that do not last,
  and no run has been there if every hostPath is firm (`InPlace`, `Lasting`).
* `LeftSafe`: a run whose archive was not removed has failed, or failed to remove it (`LeftInv`).
* `ReplicasSafe`: `perPodStorage` and `store` agree, for every type, on the field that counts
  (`PerPod`); every file lies in the directory of its request (`DirInv`).
* `IntactSafe` has a hypothesis: `MountsApart`, that backends sharing a mount point are the same
  backend, which the code does not ensure. The run `storage_mounts` is the counterexample without
  it; the scenarios of the run `storage` meet it.

**AgentReconciler.**

* `CountSafe`, `SpacingSafe`, `Refinement`: an agent's copy has the object's record of checkpoints,
  unless it is `outdated` (`Tie`), and the update made from an outdated copy is refused. So an
  accepted update is one made from the object as it is: its run was due (`DueAtStart`) and its
  archive is stored (`StoredFirst`). `EffectStep` says what any step may do to the object, and the
  three follow from it; `Refinement` proves `StatusAsPromised`, that each step of any agent is one of
  `ChildStatus` or a stutter.
* `PipelineSafe`: a Pod keeps the node it was given and a uid is not used twice (`OneNode`), so a
  cache of Pods may be old but does not name another node; where the object names a node, only that
  node's agent runs (`NamedNode`).

**Orchestrator**, for any number of Pod changes and faults.

* `TypeCorrect`: `Counted` bounds the loop's counter: it grows only with a Pod that leaves `todo`.
* `CompletedCorrect`: the roll-up reads the children from a cache that may be old. `SoundInv`
  follows the phase from a child (`ChildSound`) to the cache (`CacheSound`) to the parent's status
  (`TargetsSound`), where each reader shows Completed only for what is recorded in the child now,
  because the actions of `ChildStatus` never take a record back. `AllCompleted` turns the count of
  `aggregate()` into a statement about every Pod, and `Listed` says the list is not empty.
* `StatusSafe`: while the item is not queued and no `Reconcile()` is under way, the status shows the
  children as the cache has them (`CurrentInv`): every change of the cache queues the item, and a
  roll-up that is refused queues it again.

**Only model-checked**: liveness (`WatcherReturns`, `RemapLowersGate`, `AgentReturns`,
`Retried`, `Resumed`, `Delivered`, and `Served` of agent and orchestrator), which with `ENABLED` is
beyond the prover, and the invariant `LossContained` of CopyEngine. Every other invariant and every
refinement a passing run checks is also a theorem.

## 5. Not modelled

* Cron expressions: the next time of one comes from a library, and the controllers use of
  it only that it lies later.
* TLS, JSON and the URL of the kubelet client; the parsing of Deployments, Jobs and their
  selectors, of which only the Pods they select matter.
* Observe-only hooks of the library, whose registries are only logged; `dlsym` and
  `cuGetProcAddress`, which decide only that a call reaches the hooks that are modelled.
* Names of children (cut to fit, controller:382): children are indexed by their Pod.
* Failures of `/proc/mounts` and of file systems that write back after `close`.
* Process wiring apart from `Install()` and the settings; generated code, CRDs, scripts.

`PROJECT.json` lists each with its reason.

## 6. Plan

Done: every component with state of its own is modelled, the two abstract specifications are
implemented, and every safety property that a passing run checks is proved, but for
`LossContained`. What is left:

1. DataEngine: for each kind of excused event, what still holds when only the others have not
   happened; for example which segments a failed driver call can cost.
2. CopyEngine: `LossContained`, from `FreezeBuffers` with the chunk whose copy failed as its only
   exception.
3. The pieces of the liveness arguments that are not temporal, such as the order in which the
   watcher's loops decrease what is left.
