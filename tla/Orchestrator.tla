---------------------------- MODULE Orchestrator ----------------------------
(***************************************************************************)
(* The orchestrator's Reconcile() for one WorkloadCheckpoint               *)
(* (orchestrator/controllers/workloadcheckpoint_controller.go): it         *)
(* resolves the workload to its Pods, creates one child GPUCheckpoint per  *)
(* Pod and rolls the children's phases up into the parent's status.        *)
(*                                                                         *)
(* All its reads come from caches that lag behind the API server, and a    *)
(* list from a cache comes in any order.  A Pod here is one that passes    *)
(* the selectors and the GPU filter; it is up when it is Running and not   *)
(* being deleted.  A child carries its Pod's name (childName), so it is    *)
(* indexed by it.  The node agents change a child as ChildStatus says,     *)
(* which AgentReconciler implements.                                       *)
(***************************************************************************)
EXTENDS Integers, FiniteSets

CONSTANTS
  Pods,      \* names of the Pods the workload may have
  Nodes,
  Scenarios  \* requests and what may happen to them: a subset of Scenario

\* A zero schedule ("0s") is not empty but does not recur (NextRun of the agent);
\* maxConcurrent: 0 for no limit.
Request == [action : {"Checkpoint", "Restore"}, schedule : {"", "zero", "recurring"},
            maxConcurrent : Nat]

\* The spec of the WorkloadCheckpoint, the Pods and nodes in play, and the bounds
\* on Pods that start or stop and on failed calls, failed checkpoints and crashes.
Scenario == [spec : Request, pods : SUBSET Pods, nodes : SUBSET Nodes, maxEvents : Nat,
             maxFaults : Nat]

ASSUME OrchestratorAssumption ==
  /\ IsFiniteSet(Pods) /\ Nodes # {} /\ Scenarios \subseteq Scenario

VARIABLES
  scenario,    \* never changes
  pod,         \* the Pods of the workload
  podCache,    \* as the controller's client reads them
  child,       \* the children in the API server
  childCache,  \* as the controller's client reads them
  wc,          \* its status in the API server; short: finish() wrote it
  behind,      \* the controller's client reads an older version of it
  queue,       \* the item is in the work queue
  timer,       \* a delayed requeue is pending
  pc,          \* where Reconcile() is
  listed,      \* the Pods it resolved, with their nodes
  todo,        \* those the loop has not visited
  inFlight,    \* the loop's counter
  current,     \* its copy of the parent was current when it was read
  events, faults   \* counters for the bounds

podVars == <<pod, podCache, events>>
childVars == <<child, childCache>>
wcVars == <<scenario, wc, behind>>
loopVars == <<pc, listed, todo, inFlight, current>>
vars == <<podVars, childVars, wcVars, queue, timer, loopVars, faults>>

spec == scenario.spec
AnyNode == CHOOSE n \in Nodes : TRUE
NoChild == [phase |-> "absent", recorded |-> FALSE, node |-> AnyNode]
NoPod == [up |-> FALSE, node |-> AnyNode]
\* A child without a phase and one that is Checkpointing are both active:
\* nothing in this controller tells them apart.
ChildPhases == {"active", "Completed", "Failed"}
Child == [phase : ChildPhases \cup {"absent"}, recorded : BOOLEAN, node : Nodes]
Pod == [up : BOOLEAN, node : Nodes]
Phases == {"none", "InProgress", "Completed", "PartiallyFailed", "Failed"}
\* Status.Targets: the phase shown for each Pod listed.
Shows == ChildPhases \cup {"Pending"}
NoTargets == [p \in {} |-> "Pending"]

TypeOK ==
  /\ scenario \in Scenarios
  /\ pod \in [Pods -> Pod] /\ podCache \in [Pods -> Pod]
  /\ child \in [Pods -> Child] /\ childCache \in [Pods -> Child]
  /\ wc \in [phase : Phases, short : BOOLEAN, targets : UNION {[S -> Shows] : S \in SUBSET Pods}]
  /\ {behind, queue, timer, current} \subseteq BOOLEAN
  /\ pc \in {"idle", "loop"}
  /\ DOMAIN listed \subseteq Pods /\ listed \in [DOMAIN listed -> Nodes]
  /\ todo \subseteq DOMAIN listed
  /\ inFlight \in 0..Cardinality(Pods)
  /\ events \in 0..scenario.maxEvents /\ faults \in 0..scenario.maxFaults

NoList == [p \in {} |-> AnyNode]

\* The object has just been created for a workload with any Pods up.
Init ==
  /\ scenario \in Scenarios
  /\ pod \in [Pods -> {NoPod} \cup [up : {TRUE}, node : scenario.nodes]]
  /\ \A p \in Pods \ scenario.pods : ~pod[p].up
  /\ podCache = pod
  /\ child = [p \in Pods |-> NoChild] /\ childCache = child
  /\ wc = [phase |-> "none", short |-> FALSE, targets |-> NoTargets]
  /\ behind = FALSE
  /\ queue = TRUE /\ timer = FALSE
  /\ pc = "idle" /\ listed = NoList /\ todo = {} /\ inFlight = 0 /\ current = TRUE
  /\ events = 0 /\ faults = 0

Fault == faults < scenario.maxFaults /\ faults' = faults + 1

-----------------------------------------------------------------------------
(* Helpers                                                                 *)

\* Mutant: the workload is resolved once.
ResolvedOnce ==
  {p \in Pods : podCache[p].up /\ (wc.targets # NoTargets => p \in DOMAIN wc.targets)}

\* filterPods(): Running Pods that are not being deleted.
Resolved == {p \in Pods : podCache[p].up}

isTerminal(phase) == phase \in {"Completed", "Failed"}

Count(ts, S) == Cardinality({p \in DOMAIN ts : ts[p] \in S})

\* What aggregate() shows for a Pod, from the list of children.
Shown(p) == IF childCache[p].phase = "absent" THEN "Pending" ELSE childCache[p].phase

\* Mutant: a failed child counts as done.
AllDoneLoose(ts) == Count(ts, {"Completed", "Failed"}) = Cardinality(DOMAIN ts)

AllDone(ts) == Count(ts, {"Completed"}) = Cardinality(DOMAIN ts)

\* Mutant: the phase of step (1) is kept.
DefaultPhaseKept == "Resolving"

DefaultPhase == "InProgress"

\* The phase aggregate() gives the parent.
Rollup(ts) ==
  LET total == Cardinality(DOMAIN ts)
      done == Count(ts, {"Completed"})
      failed == Count(ts, {"Failed"})
  IN
  CASE AllDone(ts) -> "Completed"
    [] ~AllDone(ts) /\ done + failed = total /\ done > 0 -> "PartiallyFailed"
    [] ~AllDone(ts) /\ done + failed = total /\ done = 0 -> "Failed"
    [] OTHER -> DefaultPhase

\* r.Status().Update(): the version of the copy is checked; an update that
\* changes nothing makes no new version.  Only this controller writes the
\* status, so an update that is taken was made from wc itself.
StatusUpdate(isCurrent, s) ==
  /\ isCurrent
  /\ wc' = s /\ behind' = (behind \/ s # wc)
  /\ UNCHANGED scenario

\* It fails: Reconcile() returns the error and is called again.
StatusUpdateFails(isCurrent) ==
  /\ IF isCurrent THEN Fault ELSE UNCHANGED faults
  /\ queue' = TRUE
  /\ UNCHANGED wcVars

Leave ==
  /\ pc' = "idle" /\ listed' = NoList /\ todo' = {} /\ inFlight' = 0 /\ current' = TRUE

-----------------------------------------------------------------------------
(* Reconcile()                                                             *)

\* finish(): the status that ends the request, whatever targets it had ...
Short == [wc EXCEPT !.phase = "Failed", !.short = TRUE]

\* ... and no requeue, unless the update fails.
Finish ==
  \/ StatusUpdate(~behind, Short) /\ queue' = FALSE /\ UNCHANGED faults
  \/ StatusUpdateFails(~behind)

\* A restore, which is not implemented, or a workload without Pods.
Refuse ==
  /\ pc = "idle" /\ queue
  /\ spec.action = "Restore" \/ Resolved = {}
  /\ Finish
  /\ UNCHANGED <<podVars, childVars, timer, loopVars>>

\* The workload object cannot be read.
ResolveFails ==
  /\ pc = "idle" /\ queue /\ spec.action = "Checkpoint"
  /\ Fault
  /\ IF behind THEN queue' = TRUE /\ UNCHANGED wcVars
               ELSE queue' = FALSE /\ StatusUpdate(TRUE, Short)
  /\ UNCHANGED <<podVars, childVars, timer, loopVars>>

\* The workload is resolved to Pods.
Resolve ==
  /\ pc = "idle" /\ queue /\ spec.action = "Checkpoint" /\ Resolved # {}
  /\ queue' = FALSE /\ pc' = "loop"
  /\ listed' = [p \in Resolved |-> podCache[p].node] /\ todo' = Resolved
  /\ inFlight' = 0 /\ current' = ~behind
  /\ UNCHANGED <<podVars, childVars, wcVars, timer, faults>>

\* The loop meets a Pod that has its child.
Found(p) ==
  /\ pc = "loop" /\ p \in todo /\ childCache[p].phase # "absent"
  /\ todo' = todo \ {p}
  /\ inFlight' = IF isTerminal(childCache[p].phase) THEN inFlight ELSE inFlight + 1
  /\ UNCHANGED <<podVars, childVars, wcVars, queue, timer, pc, listed, current, faults>>

\* maxConcurrent is reached, as far as the loop has counted.
Full == spec.maxConcurrent > 0 /\ inFlight >= spec.maxConcurrent

\* Rate-limited: the loop ends.
Limited(p) ==
  /\ pc = "loop" /\ p \in todo /\ childCache[p].phase = "absent" /\ Full
  /\ todo' = {}
  /\ UNCHANGED <<podVars, childVars, wcVars, queue, timer, pc, listed, inFlight, current, faults>>

\* buildChild() and Create(): a child that exists already is not an error.
Create(p) ==
  /\ pc = "loop" /\ p \in todo /\ childCache[p].phase = "absent" /\ ~Full
  /\ child' = IF child[p].phase = "absent"
              THEN [child EXCEPT ![p] = [phase |-> "active", recorded |-> FALSE, node |-> listed[p]]]
              ELSE child
  /\ todo' = todo \ {p} /\ inFlight' = inFlight + 1
  /\ UNCHANGED <<podVars, childCache, wcVars, queue, timer, pc, listed, current, faults>>

CreateFails(p) ==
  /\ pc = "loop" /\ p \in todo /\ childCache[p].phase = "absent" /\ ~Full
  /\ Fault /\ queue' = TRUE /\ Leave
  /\ UNCHANGED <<podVars, childVars, wcVars, timer>>

\* A scheduled request is polled for ever, another one while children are active.
Polls(ts) == spec.schedule # "" \/ Count(ts, {"active", "Pending"}) > 0

\* aggregate() and the requeue.
Aggregate ==
  LET ts == [p \in DOMAIN listed |-> Shown(p)]
      new == [phase |-> Rollup(ts), short |-> FALSE, targets |-> ts]
  IN
  /\ pc = "loop" /\ todo = {} /\ Leave
  /\ \/ StatusUpdate(current, new) /\ timer' = (timer \/ Polls(ts)) /\ UNCHANGED <<queue, faults>>
     \/ StatusUpdateFails(current) /\ UNCHANGED timer
  /\ UNCHANGED <<podVars, childVars>>

\* The controller dies and is started again on fresh caches.
Crash ==
  /\ Fault /\ Leave
  /\ queue' = TRUE /\ timer' = FALSE
  /\ podCache' = pod /\ childCache' = child /\ behind' = FALSE
  /\ UNCHANGED <<pod, events, child, scenario, wc>>

Controller ==
  \/ Refuse \/ ResolveFails \/ Resolve \/ Aggregate
  \/ \E p \in Pods : Found(p) \/ Limited(p) \/ Create(p) \/ CreateFails(p)

-----------------------------------------------------------------------------
(* Watches, the node agents and the workload                               *)

\* A change of the parent or of a child queues the parent; one of a Pod does not.
\* The events of one kind of object arrive in order: a cache is a past state.
SyncWC ==
  /\ behind /\ behind' = FALSE /\ queue' = TRUE
  /\ UNCHANGED <<podVars, childVars, scenario, wc, timer, loopVars, faults>>

\* Mutant: the controller does not own the children.
OwnsNone == queue

\* Owns(&GPUCheckpoint{}): a change of a child queues its parent.
Owns == TRUE

SyncChildren ==
  /\ childCache # child /\ childCache' = child
  /\ queue' = Owns
  /\ UNCHANGED <<podVars, child, wcVars, timer, loopVars, faults>>
SyncPods ==
  /\ podCache # pod /\ podCache' = pod
  /\ UNCHANGED <<pod, events, childVars, wcVars, queue, timer, loopVars, faults>>

TimerFires ==
  /\ timer /\ timer' = FALSE /\ queue' = TRUE
  /\ UNCHANGED <<podVars, childVars, wcVars, loopVars, faults>>

\* What the agents do to the child of p; a schedule they take for one-shot does
\* not recur.
Status(p) ==
  INSTANCE ChildStatus WITH
    recurring <- spec.schedule = "recurring",
    phase <- child[p].phase,
    recorded <- child[p].recorded

\* The status of the child of p changes, and nothing else.
StatusOf(p) ==
  /\ child[p].phase # "absent"
  /\ \E ph \in ChildPhases, r \in BOOLEAN :
       child' = [child EXCEPT ![p].phase = ph, ![p].recorded = r]
  /\ UNCHANGED <<podVars, childCache, wcVars, queue, timer, loopVars>>

\* The Pod is where the child says it is.
Reachable(p) == pod[p] = [up |-> TRUE, node |-> child[p].node]

\* The agents start a run that is due or try again, record it, or fail, which
\* takes no fault when the Pod cannot be reached.
AgentStart(p) ==
  /\ StatusOf(p) /\ Status(p)!Start
  /\ UNCHANGED faults
AgentDone(p) ==
  /\ Reachable(p) /\ StatusOf(p) /\ Status(p)!Done
  /\ UNCHANGED faults
AgentFail(p) ==
  /\ StatusOf(p) /\ Status(p)!Fail
  /\ IF Reachable(p) THEN Fault ELSE UNCHANGED faults
Agents(p) == AgentStart(p) \/ AgentDone(p) \/ AgentFail(p)

\* A Pod of the name starts on some node, or stops.
PodUp(p, n) ==
  /\ p \in scenario.pods /\ ~pod[p].up /\ events < scenario.maxEvents /\ events' = events + 1
  /\ pod' = [pod EXCEPT ![p] = [up |-> TRUE, node |-> n]]
  /\ UNCHANGED <<podCache, childVars, wcVars, queue, timer, loopVars, faults>>
PodDown(p) ==
  /\ pod[p].up /\ events < scenario.maxEvents /\ events' = events + 1
  /\ pod' = [pod EXCEPT ![p] = NoPod]
  /\ UNCHANGED <<podCache, childVars, wcVars, queue, timer, loopVars, faults>>

\* The controller waits for an event.
Quiet == pc = "idle" /\ ~queue /\ UNCHANGED vars

Next ==
  \/ Controller \/ Crash \/ SyncWC \/ SyncChildren \/ SyncPods \/ TimerFires \/ Quiet
  \/ \E p \in Pods : Agents(p) \/ PodDown(p) \/ \E n \in scenario.nodes : PodUp(p, n)

Fairness ==
  /\ WF_vars(Controller) /\ WF_vars(TimerFires)
  /\ WF_vars(SyncWC) /\ WF_vars(SyncChildren) /\ WF_vars(SyncPods)
  /\ \A p \in Pods : WF_vars(AgentDone(p))

Spec == Init /\ [][Next]_vars /\ Fairness

-----------------------------------------------------------------------------
(* Properties                                                              *)

\* A parent that says Completed lists only Pods whose checkpoint is recorded,
\* whatever caches the roll-up was made from (aggregate).
CompletedSound ==
  wc.phase = "Completed" =>
    DOMAIN wc.targets # {} /\ \A p \in DOMAIN wc.targets : child[p].recorded

\* When nothing is left to do and no event is under way, the parent shows the
\* children as they are: no change of a child is slept through (Owns, requeue).
StatusCurrent ==
  /\ pc = "idle" /\ ~queue /\ ~behind /\ childCache = child /\ ~wc.short
  => \A p \in DOMAIN wc.targets : wc.targets[p] = Shown(p)

\* A Pod that stays up is checkpointed in the end, whatever became of the other
\* Pods and of earlier runs, and also when its child has to wait for maxConcurrent
\* (the loop, the requeue of step 5): for any schedule that is not empty, "0s" too,
\* and for a one-shot request if no Pod changes.  It is assumed that the request
\* is not left finished for want of Pods; that its child, if there is one, names
\* the Pod's node, that is, no Pod of that name ran on another node before (the loop
\* keeps the child that the first one was given); and that a recurring request has
\* no limit: its children become active again and may fill the limit at every poll.
StaysUp(p) == pod[p].up /\ (spec.schedule # "" \/ events = 0)
OnItsNode(p) == child[p].phase # "absent" => child[p].node = pod[p].node
Unlimited == spec.schedule = "recurring" => spec.maxConcurrent = 0
Served ==
  spec.action = "Checkpoint" /\ Unlimited =>
    \A p \in Pods :
      <>[](StaysUp(p) /\ OnItsNode(p)) /\ <>[]~wc.short => <>child[p].recorded

\* The number of children in progress stays within maxConcurrent.
InFlightBound ==
  spec.maxConcurrent > 0 =>
    Cardinality({p \in Pods : child[p].phase = "active"}) <= spec.maxConcurrent

=============================================================================
