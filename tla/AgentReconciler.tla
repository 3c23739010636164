-------------------------- MODULE AgentReconciler --------------------------
(***************************************************************************)
(* The node agents' Reconcile() for one GPUCheckpoint                      *)
(* (internal/agent/reconciler.go, schedule.go): one agent per node, all    *)
(* watching the same object through caches that lag behind the API server, *)
(* which refuses a status update made from an old copy.  A copy's resource *)
(* version is reduced to whether the object has changed since.             *)
(*                                                                         *)
(* Time is a clock.  The pipeline (see Checkpointer) is one step with a    *)
(* good or a bad end, with the clock and the other agents free to move     *)
(* while it runs; interception is on, so a run needs the Pod it was        *)
(* started for, on its own node, until the kubelet has imaged it.  The     *)
(* work queue and the delayed requeues are those of controller-runtime: an *)
(* agent handles one item at a time, an item delayed twice keeps the       *)
(* earlier time, a returned error requeues.  The object is not deleted.    *)
(***************************************************************************)
EXTENDS Integers

CONSTANTS
  Nodes,
  NoNode,     \* "": no node named, or a Pod not scheduled yet
  Scenarios,  \* objects and what may happen to them: a subset of Scenario
  Retry,      \* the 30 seconds of fail(), in ticks
  MaxTaken    \* the counts of checkpoints, recorded and stored, stop here

AllSpecs == {"ok", "badKind", "badSchedule"}

\* nodeInfo: spec.workloadRef.nodeInfo; period: the schedule in ticks, 0 for a
\* one-shot request; specs: what the spec may be or become; and the bounds on
\* the clock, on Pods created under the name, and on failed calls, crashes and edits.
Scenario == [nodeInfo : Nodes \cup {NoNode}, period : Nat, specs : SUBSET AllSpecs,
             maxTime : Nat, maxPods : Nat, maxFaults : Nat]

ASSUME ReconcilerAssumption ==
  /\ NoNode \notin Nodes /\ Scenarios \subseteq Scenario
  /\ Retry \in Nat \ {0} /\ MaxTaken \in Nat

VARIABLES
  scenario,  \* never changes
  now,       \* the clock
  cr,        \* the GPUCheckpoint in the API server
  pod,       \* the Pod of the name: uid 0 when there is none
  crCache,   \* the copy of cr each agent's client reads
  behind,    \* the agents whose crCache is not the current version
  outdated,  \* the agents whose local copy is not the current version
  podCache,  \* the copy of pod each agent's client reads
  queue,     \* the item is in the agent's work queue
  timer,     \* when a delayed requeue is due
  pc,        \* where the agent is in Reconcile()
  local,     \* the agent's copy of the object, with its changes
  job,       \* the run of the pipeline: uid of the Pod and start time
  pods, faults,   \* counters for the bounds
  taken      \* history: checkpoints stored

objVars == <<cr, crCache, behind, outdated>>
agentVars == <<queue, timer, pc, local, job>>
boundVars == <<pods, faults>>
vars == <<scenario, now, objVars, pod, podCache, agentVars, boundVars, taken>>

NodeInfo == scenario.nodeInfo
Period == scenario.period
Specs == scenario.specs
MaxTime == scenario.maxTime
MaxPods == scenario.maxPods
MaxFaults == scenario.maxFaults
Never == MaxTime + Period + Retry + 1
NoTime == -1
Phases == {"none", "Checkpointing", "Completed", "Failed"}
\* Status.Message and the condition Ready follow the phase.
Object == [spec : AllSpecs, phase : Phases, last : {NoTime} \cup 0..MaxTime, count : 0..MaxTaken]
Fresh(s) == [spec |-> s, phase |-> "none", last |-> NoTime, count |-> 0]
NoObject == Fresh("ok")
NoPod == [uid |-> 0, node |-> NoNode]
NoJob == [uid |-> 0, start |-> NoTime]
OneShot == Period = 0

TypeOK ==
  /\ scenario \in Scenarios
  /\ now \in 0..MaxTime /\ cr \in Object
  /\ pod \in [uid : 0..MaxPods, node : Nodes \cup {NoNode}]
  /\ crCache \in [Nodes -> Object] /\ behind \subseteq Nodes /\ outdated \subseteq Nodes
  /\ podCache \in [Nodes -> [uid : 0..MaxPods, node : Nodes \cup {NoNode}]]
  /\ queue \in [Nodes -> BOOLEAN] /\ timer \in [Nodes -> 0..Never]
  /\ pc \in [Nodes -> {"idle", "run", "store", "record", "failed"}]
  /\ local \in [Nodes -> Object]
  /\ job \in [Nodes -> [uid : 0..MaxPods, start : {NoTime} \cup 0..MaxTime]]
  /\ pods \in 0..MaxPods /\ faults \in 0..MaxFaults
  /\ taken \in 0..MaxTaken

\* The object has just been created, with or without a Pod of the name.
Init ==
  /\ scenario \in Scenarios
  /\ now = 0
  /\ cr \in {Fresh(s) : s \in Specs}
  /\ pod \in {NoPod} \cup [uid : {1} \cap 1..MaxPods, node : Nodes \cup {NoNode}]
  /\ pods = pod.uid
  /\ crCache = [x \in Nodes |-> cr] /\ behind = {} /\ outdated = {}
  /\ podCache = [x \in Nodes |-> pod]
  /\ queue = [x \in Nodes |-> TRUE] /\ timer = [x \in Nodes |-> Never]
  /\ pc = [x \in Nodes |-> "idle"]
  /\ local = [x \in Nodes |-> NoObject] /\ job = [x \in Nodes |-> NoJob]
  /\ faults = 0 /\ taken = 0

Fault == faults < MaxFaults /\ faults' = faults + 1

\* One more checkpoint, up to the bound.
CountUp(c) == IF c < MaxTaken THEN c + 1 ELSE c

-----------------------------------------------------------------------------
(* Helpers                                                                 *)

\* NextRun() for a recurring schedule.
NextRun(from) == from + Period

\* RequeueAfter: the earlier of two delayed requeues is kept.
After(x, t) == timer' = [timer EXCEPT ![x] = IF t < timer[x] THEN t ELSE timer[x]]

\* Mutant: the agents do not look at the node.
IsTargetAny(x, p) == TRUE

\* The node is the one the object names or else the Pod's.
IsTarget(x, p) == x = (IF NodeInfo # NoNode THEN NodeInfo ELSE p.node)

\* Mutant: the phase is taken for the record of the last checkpoint.
DueByPhase(c) == \/ c.phase # "Completed"
                 \/ ~OneShot /\ now >= NextRun(c.last)

\* Mutant: the schedule counts from the retry, not from the last checkpoint.
DueAlways(c) == TRUE

\* A checkpoint is due: none was taken, or the schedule's next time has come.
Due(c) == \/ c.last = NoTime
          \/ ~OneShot /\ now >= NextRun(c.last)

\* The copy the agent works from, the cache's and later its own, is current.
Current(x) == x \notin (IF pc[x] = "idle" THEN behind ELSE outdated)

\* r.Status().Update(): the status of the copy o becomes the object's, and the
\* other copies are old.  An update that changes nothing makes no new version.
StatusUpdate(x, o) ==
  /\ Current(x)
  /\ cr' = [o EXCEPT !.spec = cr.spec]
  /\ IF cr' = cr
     THEN behind' = behind /\ outdated' = outdated \ {x}
     ELSE behind' = Nodes /\ outdated' = {y \in Nodes \ {x} : pc[y] # "idle"}
  /\ UNCHANGED faults

\* It fails: an old copy, or an API server that does not answer.
StatusUpdateFails(x) ==
  /\ IF Current(x) THEN Fault ELSE UNCHANGED faults
  /\ outdated' = outdated \ {x}
  /\ UNCHANGED <<cr, behind>>

\* Reconcile() returns: its copy of the object and its run are gone.
Leave(x) ==
  /\ pc' = [pc EXCEPT ![x] = "idle"]
  /\ local' = [local EXCEPT ![x] = NoObject]
  /\ job' = [job EXCEPT ![x] = NoJob]

\* Mutant: fail() does not ask to be called again.
BackoffNone(x) == UNCHANGED timer

\* Failed checkpoints are tried again.
Backoff(x) == After(x, now + Retry)

\* fail(): the result of the update is not looked at, the item is delayed.
FailWith(x, o) ==
  LET failed == [o EXCEPT !.phase = "Failed"]
  IN
  /\ Leave(x) /\ Backoff(x)
  /\ StatusUpdate(x, failed) \/ StatusUpdateFails(x)

-----------------------------------------------------------------------------
(* Reconcile()                                                             *)
(*                                                                         *)
(* What it reads comes from caches that may be behind, so the reads and    *)
(* the first write are one step: a change in between is a cache behind.    *)
(* A read from such a cache fails only with NotFound.                      *)

\* Mutant: the checkpoint is counted when it starts.
MarkedCounted(o) == [o EXCEPT !.phase = "Checkpointing", !.count = @ + 1]

Marked(o) == [o EXCEPT !.phase = "Checkpointing"]

\* A checkpoint is due: mark in-progress (the result of the update is not
\* looked at) and start the pipeline.
StartRun(x, o, uid) ==
  LET marked == Marked(o)
  IN
  /\ pc' = [pc EXCEPT ![x] = "run"]
  /\ job' = [job EXCEPT ![x] = [uid |-> uid, start |-> now]]
  /\ local' = [local EXCEPT ![x] = marked]
  /\ \/ StatusUpdate(x, marked)
     \/ Current(x) /\ StatusUpdateFails(x)
     \/ ~Current(x) /\ outdated' = outdated \cup {x} /\ UNCHANGED <<cr, behind, faults>>
  /\ UNCHANGED timer

Reconcile(x) ==
  LET c == crCache[x]
      p == podCache[x]
  IN
  /\ pc[x] = "idle" /\ queue[x]
  /\ queue' = [queue EXCEPT ![x] = FALSE]
  /\ \/ c.spec = "badKind" /\ FailWith(x, c)
     \/ c.spec # "badKind" /\ p.uid = 0 /\ FailWith(x, c)
     \/ /\ c.spec # "badKind" /\ p.uid # 0
        /\ \/ /\ ~IsTarget(x, p)
              /\ UNCHANGED <<cr, behind, outdated, timer, pc, local, job, faults>>
           \/ IsTarget(x, p) /\ c.spec = "badSchedule" /\ FailWith(x, c)
           \/ /\ IsTarget(x, p) /\ c.spec = "ok" /\ ~Due(c)
              /\ IF OneShot THEN UNCHANGED timer ELSE After(x, NextRun(c.last))
              /\ UNCHANGED <<cr, behind, outdated, pc, local, job, faults>>
           \/ IsTarget(x, p) /\ c.spec = "ok" /\ Due(c) /\ StartRun(x, c, p.uid)
  /\ UNCHANGED <<scenario, now, pod, crCache, podCache, pods, taken>>

\* Checkpoint(): the Pod is frozen and imaged, if it is still there ...
Imaged(x) ==
  /\ pc[x] = "run" /\ pod = [uid |-> job[x].uid, node |-> x]
  /\ pc' = [pc EXCEPT ![x] = "store"]
  /\ UNCHANGED <<scenario, now, objVars, pod, podCache, queue, timer, local, job, boundVars, taken>>

\* ... and the archive is stored, whatever becomes of the Pod;
Stored(x) ==
  /\ pc[x] = "store" /\ pc' = [pc EXCEPT ![x] = "record"]
  /\ taken' = CountUp(taken)
  /\ UNCHANGED <<scenario, now, objVars, pod, podCache, queue, timer, local, job, boundVars>>

\* or it returns an error, always when the Pod is gone or on another node.
RunFailed(x) ==
  /\ pc[x] \in {"run", "store"} /\ pc' = [pc EXCEPT ![x] = "failed"]
  /\ IF pc[x] = "run" /\ pod # [uid |-> job[x].uid, node |-> x] THEN UNCHANGED faults ELSE Fault
  /\ UNCHANGED <<scenario, now, objVars, pod, podCache, queue, timer, local, job, pods, taken>>
Fail(x) ==
  /\ pc[x] = "failed" /\ FailWith(x, local[x])
  /\ UNCHANGED <<scenario, now, pod, crCache, podCache, queue, pods, taken>>

\* Record success; the time recorded is the start of the run.
Record(x) ==
  LET done == [local[x] EXCEPT !.phase = "Completed", !.last = job[x].start,
                               !.count = CountUp(@)]
  IN
  /\ pc[x] = "record" /\ Leave(x)
  /\ \/ /\ StatusUpdate(x, done)
        /\ IF OneShot THEN UNCHANGED timer ELSE After(x, NextRun(now))
        /\ UNCHANGED queue
     \/ /\ StatusUpdateFails(x)
        /\ queue' = [queue EXCEPT ![x] = TRUE]
        /\ UNCHANGED timer
  /\ UNCHANGED <<scenario, now, pod, crCache, podCache, pods, taken>>

\* The agent dies and is started again: its first list queues the object.
Crash(x) ==
  /\ Fault
  /\ Leave(x)
  /\ queue' = [queue EXCEPT ![x] = TRUE] /\ timer' = [timer EXCEPT ![x] = Never]
  /\ crCache' = [crCache EXCEPT ![x] = cr] /\ behind' = behind \ {x}
  /\ outdated' = outdated \ {x} /\ podCache' = [podCache EXCEPT ![x] = pod]
  /\ UNCHANGED <<scenario, now, cr, pod, pods, taken>>

Agent(x) == Reconcile(x) \/ Imaged(x) \/ Stored(x) \/ RunFailed(x) \/ Fail(x) \/ Record(x)

-----------------------------------------------------------------------------
(* Caches, timers and the rest of the cluster                              *)

\* A watch event.  Only a change of the spec (a new generation) queues the item.
SyncObject(x) ==
  /\ x \in behind /\ behind' = behind \ {x}
  /\ crCache' = [crCache EXCEPT ![x] = cr]
  /\ queue' = [queue EXCEPT ![x] = @ \/ crCache[x].spec # cr.spec]
  /\ UNCHANGED <<scenario, now, cr, outdated, pod, podCache, timer, pc, local, job, boundVars, taken>>

\* Pods are read through the cache but nothing is queued for them.
SyncPod(x) ==
  /\ podCache[x] # pod /\ podCache' = [podCache EXCEPT ![x] = pod]
  /\ UNCHANGED <<scenario, now, objVars, pod, agentVars, boundVars, taken>>

\* A delay is over.  Where the clock stops every delay ends, so that the bound
\* on the clock hides no retry.
TimerFires(x) ==
  /\ timer[x] <= now \/ (now = MaxTime /\ timer[x] # Never)
  /\ timer' = [timer EXCEPT ![x] = Never] /\ queue' = [queue EXCEPT ![x] = TRUE]
  /\ UNCHANGED <<scenario, now, objVars, pod, podCache, pc, local, job, boundVars, taken>>

Tick ==
  /\ now < MaxTime /\ now' = now + 1
  /\ UNCHANGED <<scenario, objVars, pod, podCache, agentVars, boundVars, taken>>

EditSpec(s) ==
  /\ Fault
  /\ s # cr.spec /\ cr' = [cr EXCEPT !.spec = s]
  /\ behind' = Nodes /\ outdated' = {y \in Nodes : pc[y] # "idle"}
  /\ UNCHANGED <<scenario, now, pod, crCache, podCache, agentVars, pods, taken>>

\* A Pod of the name is created, is given a node, is deleted.
PodCreated ==
  /\ pod = NoPod /\ pods < MaxPods /\ pods' = pods + 1
  /\ pod' = [uid |-> pods + 1, node |-> NoNode]
  /\ UNCHANGED <<scenario, now, objVars, podCache, agentVars, faults, taken>>
PodScheduled(x) ==
  /\ pod.uid # 0 /\ pod.node = NoNode
  /\ pod' = [pod EXCEPT !.node = x]
  /\ UNCHANGED <<scenario, now, objVars, podCache, agentVars, boundVars, taken>>
PodDeleted ==
  /\ pod.uid # 0 /\ pod' = NoPod
  /\ UNCHANGED <<scenario, now, objVars, podCache, agentVars, boundVars, taken>>

\* Nothing is left to do within the bounds.
Quiet ==
  /\ now = MaxTime
  /\ UNCHANGED vars

Next ==
  \/ \E x \in Nodes : \/ Agent(x) \/ Crash(x) \/ PodScheduled(x)
                      \/ SyncObject(x) \/ SyncPod(x) \/ TimerFires(x)
  \/ \E s \in Specs : EditSpec(s)
  \/ Tick \/ PodCreated \/ PodDeleted \/ Quiet

Fairness ==
  /\ \A x \in Nodes : /\ WF_vars(Agent(x)) /\ WF_vars(TimerFires(x))
                      /\ WF_vars(SyncObject(x)) /\ WF_vars(SyncPod(x))
  /\ WF_vars(Tick)

Spec == Init /\ [][Next]_vars /\ Fairness

-----------------------------------------------------------------------------
(* Properties                                                              *)

\* CheckpointCount never exceeds the checkpoints that were stored, whatever old
\* copies, conflicts and crashes the agents work with.
CountNotOver == cr.count <= taken

Working == {"run", "store"}

\* Two agents never run the pipeline on the same Pod, though each decides from
\* its own caches (the node check of Reconcile).
OnePipelinePerPod ==
  \A x, y \in Nodes :
    x # y /\ pc[x] \in Working /\ pc[y] \in Working => job[x].uid # job[y].uid

\* The times of recorded checkpoints are at least the schedule's period apart,
\* and a one-shot object records at most one.
Spacing ==
  [][cr'.last # cr.last /\ cr.last # NoTime => ~OneShot /\ cr'.last >= NextRun(cr.last)]_vars

\* The Pod of the name is on the node of the object: it gets its checkpoint, in
\* spite of failed runs, refused updates, crashes and a Pod that comes late (the
\* 30 seconds of fail(), the requeued error).  Where the object names no node this
\* holds only of a Pod that was there from the start: the agents skip one that is
\* not scheduled, and nobody looks again.
Eligible == cr.spec = "ok" /\ pod.node # NoNode /\ NodeInfo \in {NoNode, pod.node}
Served ==
  <>[]Eligible /\ [](NodeInfo = NoNode => Eligible) => <>(cr.count > 0)

\* The status changes only as ChildStatus says: all agents together, from
\* whatever caches, never show a one-shot object that has its checkpoint as in
\* progress, and never record a second one.
Status ==
  INSTANCE ChildStatus WITH
    recurring <- ~OneShot,
    phase <- IF cr.phase \in {"Completed", "Failed"} THEN cr.phase ELSE "active",
    recorded <- cr.last # NoTime
StatusAsPromised == Status!Spec

\* A one-shot object takes a single checkpoint.
TakenOnce == OneShot => taken <= 1

=============================================================================
