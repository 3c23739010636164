----------------------- MODULE AgentReconcilerProofs -----------------------
(***************************************************************************)
(* Proofs about AgentReconciler, for any nodes, objects, schedules and     *)
(* bounds on time, Pods and faults.                                        *)
(*                                                                         *)
(* The agents decide from caches that may be old.  What saves them is that *)
(* the API server takes an update only from a current copy; the invariant  *)
(* says what a current copy still knows when it is written back (Tie), and *)
(* Effect what one step can then do to the object.  Spacing, the           *)
(* refinement of ChildStatus and CountNotOver all follow from Effect.      *)
(***************************************************************************)
EXTENDS AgentReconciler, TLAPS

-----------------------------------------------------------------------------
(* Types                                                                   *)

PodRecord == [uid : 0..MaxPods, node : Nodes \cup {NoNode}]
JobRecord == [uid : 0..MaxPods, start : {NoTime} \cup 0..MaxTime]
States == {"idle", "run", "store", "record", "failed"}

LEMMA Settings ==
  ASSUME TypeOK
  PROVE  /\ NodeInfo \in Nodes \cup {NoNode} /\ Specs \subseteq AllSpecs
         /\ Period \in Nat /\ MaxTime \in Nat /\ MaxPods \in Nat /\ MaxFaults \in Nat
         /\ Retry \in Nat /\ Never \in Nat /\ MaxTaken \in Nat
BY ReconcilerAssumption DEF TypeOK, Scenario, NodeInfo, Specs, Period, MaxTime, MaxPods, MaxFaults,
   Never

\* The scenario does not change, and with it nothing that is read from it.
LEMMA Same ==
  ASSUME UNCHANGED scenario
  PROVE  /\ NodeInfo' = NodeInfo /\ Specs' = Specs /\ Period' = Period /\ MaxTime' = MaxTime
         /\ MaxPods' = MaxPods /\ MaxFaults' = MaxFaults /\ Never' = Never /\ Object' = Object
         /\ OneShot' = OneShot /\ PodRecord' = PodRecord /\ JobRecord' = JobRecord
BY DEF NodeInfo, Specs, Period, MaxTime, MaxPods, MaxFaults, Never, Object, OneShot, PodRecord,
   JobRecord

LEMMA NextSame == ASSUME [Next]_vars PROVE UNCHANGED scenario
BY DEF Next, vars, Agent, Reconcile, Imaged, Stored, RunFailed, Fail, Record, Crash, SyncObject,
   SyncPod, TimerFires, Tick, EditSpec, PodCreated, PodScheduled, PodDeleted, Quiet

LEMMA ObjectTypes ==
  ASSUME TypeOK, NEW o \in Object
  PROVE  /\ \A s \in AllSpecs : [o EXCEPT !.spec = s] \in Object
         /\ \A ph \in Phases : [o EXCEPT !.phase = ph] \in Object
         /\ o.last \in {NoTime} \cup 0..MaxTime /\ o.count \in 0..MaxTaken /\ o.spec \in AllSpecs
BY DEF Object

LEMMA Empties ==
  ASSUME TypeOK
  PROVE  NoObject \in Object /\ NoPod \in PodRecord /\ NoJob \in JobRecord
BY Settings DEF NoObject, Fresh, Object, AllSpecs, Phases, NoPod, PodRecord, NoJob, JobRecord

LEMMA CountUpTypes ==
  ASSUME NEW c \in 0..MaxTaken
  PROVE  CountUp(c) \in 0..MaxTaken /\ c <= CountUp(c)
BY ReconcilerAssumption DEF CountUp

LEMMA FaultTypes ==
  ASSUME TypeOK, Fault \/ UNCHANGED faults
  PROVE  faults' \in 0..MaxFaults
BY Settings DEF TypeOK, Fault

LEMMA UpdateTypes ==
  ASSUME TypeOK, NEW x \in Nodes, NEW o \in Object,
         StatusUpdate(x, o) \/ StatusUpdateFails(x)
  PROVE  /\ cr' \in Object /\ behind' \subseteq Nodes /\ outdated' \subseteq Nodes
         /\ faults' \in 0..MaxFaults
<1>1. cr.spec \in AllSpecs /\ cr \in Object
  BY ObjectTypes DEF TypeOK
<1>2. [o EXCEPT !.spec = cr.spec] \in Object
  BY <1>1, ObjectTypes
<1>3. faults' \in 0..MaxFaults
  BY FaultTypes DEF StatusUpdate, StatusUpdateFails
<1> QED
  BY <1>1, <1>2, <1>3 DEF StatusUpdate, StatusUpdateFails, TypeOK

LEMMA AfterTypes ==
  ASSUME TypeOK, NEW x \in Nodes, NEW t \in 0..Never, After(x, t)
  PROVE  timer' \in [Nodes -> 0..Never]
BY DEF After, TypeOK

LEMMA LeaveTypes ==
  ASSUME TypeOK, NEW x \in Nodes, Leave(x)
  PROVE  pc' \in [Nodes -> States] /\ local' \in [Nodes -> Object] /\ job' \in [Nodes -> JobRecord]
BY Empties DEF Leave, TypeOK, States, JobRecord

LEMMA FailTypes ==
  ASSUME TypeOK, NEW x \in Nodes, NEW o \in Object, FailWith(x, o)
  PROVE  /\ cr' \in Object /\ behind' \subseteq Nodes /\ outdated' \subseteq Nodes
         /\ faults' \in 0..MaxFaults /\ timer' \in [Nodes -> 0..Never]
         /\ pc' \in [Nodes -> States] /\ local' \in [Nodes -> Object] /\ job' \in [Nodes -> JobRecord]
<1> DEFINE failed == [o EXCEPT !.phase = "Failed"]
<1>1. failed \in Object
  BY ObjectTypes DEF Phases
<1>2. /\ Leave(x) /\ After(x, now + Retry)
      /\ StatusUpdate(x, failed) \/ StatusUpdateFails(x)
  BY DEF FailWith, Backoff
<1>3. now + Retry \in 0..Never
  BY Settings DEF TypeOK, Never
<1> HIDE DEF failed
<1> QED
  BY <1>1, <1>2, <1>3, UpdateTypes, AfterTypes, LeaveTypes

LEMMA StartTypes ==
  ASSUME TypeOK, NEW x \in Nodes, NEW o \in Object, NEW u \in 0..MaxPods, StartRun(x, o, u)
  PROVE  /\ cr' \in Object /\ behind' \subseteq Nodes /\ outdated' \subseteq Nodes
         /\ faults' \in 0..MaxFaults /\ UNCHANGED timer
         /\ pc' \in [Nodes -> States] /\ local' \in [Nodes -> Object] /\ job' \in [Nodes -> JobRecord]
<1>1. Marked(o) \in Object
  BY ObjectTypes DEF Marked, Phases
<1>2. [uid |-> u, start |-> now] \in JobRecord
  BY DEF JobRecord, TypeOK
<1>3. pc' \in [Nodes -> States] /\ local' \in [Nodes -> Object] /\ job' \in [Nodes -> JobRecord]
  BY <1>1, <1>2 DEF StartRun, TypeOK, States, JobRecord
<1>4. CASE StatusUpdate(x, Marked(o)) \/ StatusUpdateFails(x)
  BY <1>1, <1>3, <1>4, UpdateTypes DEF StartRun
<1>5. CASE outdated' = outdated \cup {x} /\ UNCHANGED <<cr, behind, faults>>
  BY <1>3, <1>5 DEF StartRun, TypeOK
<1> QED
  BY <1>4, <1>5 DEF StartRun

\* What Record(x) writes, if its update is taken.
DoneOf(x) == [local[x] EXCEPT !.phase = "Completed", !.last = job[x].start, !.count = CountUp(@)]

LEMMA DoneTypes ==
  ASSUME TypeOK, NEW x \in Nodes
  PROVE  /\ DoneOf(x) \in Object
         /\ DoneOf(x).phase = "Completed" /\ DoneOf(x).last = job[x].start
         /\ DoneOf(x).count = CountUp(local[x].count)
<1>1. PICK s \in AllSpecs, ph \in Phases, l \in {NoTime} \cup 0..MaxTime, c \in 0..MaxTaken :
        local[x] = [spec |-> s, phase |-> ph, last |-> l, count |-> c]
  BY DEF TypeOK, Object
<1>2. job[x].start \in {NoTime} \cup 0..MaxTime
  BY DEF TypeOK
<1>3. CountUp(local[x].count) \in 0..MaxTaken
  BY <1>1, CountUpTypes
<1>4. DoneOf(x) = [spec |-> s, phase |-> "Completed", last |-> job[x].start,
                   count |-> CountUp(local[x].count)]
  <2> DEFINE t == job[x].start
             k == CountUp(local[x].count)
  <2>1. [local[x] EXCEPT !.phase = "Completed"]
          = [spec |-> s, phase |-> "Completed", last |-> l, count |-> c]
    BY <1>1
  <2>2. [[spec |-> s, phase |-> "Completed", last |-> l, count |-> c] EXCEPT !.last = t]
          = [spec |-> s, phase |-> "Completed", last |-> t, count |-> c]
    OBVIOUS
  <2>3. [[spec |-> s, phase |-> "Completed", last |-> t, count |-> c] EXCEPT !.count = k]
          = [spec |-> s, phase |-> "Completed", last |-> t, count |-> k]
    OBVIOUS
  <2>4. DoneOf(x) = [[spec |-> s, phase |-> "Completed", last |-> t, count |-> c] EXCEPT !.count = k]
    BY <1>1, <2>1, <2>2 DEF DoneOf
  <2> QED
    BY <2>3, <2>4
<1> QED
  BY <1>2, <1>3, <1>4 DEF Object, Phases

LEMMA TypeInit == Init => TypeOK
<1> SUFFICES ASSUME Init PROVE TypeOK
  OBVIOUS
<1>1. /\ scenario \in Scenario /\ Specs \subseteq AllSpecs
      /\ MaxTime \in Nat /\ MaxPods \in Nat /\ MaxFaults \in Nat /\ Never \in Nat
      /\ MaxTaken \in Nat
  BY ReconcilerAssumption DEF Init, Scenario, Specs, MaxTime, MaxPods, MaxFaults, Never, Period
<1>2. \A s \in AllSpecs : Fresh(s) \in Object
  BY <1>1 DEF Fresh, Object, Phases
<1>3. cr \in Object /\ NoObject \in Object
  BY <1>1, <1>2 DEF Init, NoObject, AllSpecs
<1>4. pod \in PodRecord /\ pods \in 0..MaxPods
  <2>1. CASE pod = NoPod
    BY <1>1, <2>1 DEF Init, NoPod, PodRecord
  <2>2. CASE pod \in [uid : {1} \cap 1..MaxPods, node : Nodes \cup {NoNode}]
    BY <1>1, <2>2 DEF Init, PodRecord
  <2> QED
    BY <2>1, <2>2 DEF Init
<1>5. NoJob \in JobRecord
  BY <1>1 DEF NoJob, JobRecord
<1>6. now \in 0..MaxTime /\ faults \in 0..MaxFaults /\ taken \in 0..MaxTaken
  BY <1>1 DEF Init
<1> QED
  BY <1>1, <1>3, <1>4, <1>5, <1>6 DEF Init, TypeOK, PodRecord, JobRecord

\* TypeOK in two halves: the cluster, and what the agents keep.
ClusterTypes ==
  /\ scenario \in Scenarios /\ now \in 0..MaxTime
  /\ pod \in PodRecord /\ podCache \in [Nodes -> PodRecord] /\ pods \in 0..MaxPods
  /\ taken \in 0..MaxTaken
AgentTypes ==
  /\ cr \in Object /\ crCache \in [Nodes -> Object]
  /\ behind \subseteq Nodes /\ outdated \subseteq Nodes
  /\ queue \in [Nodes -> BOOLEAN] /\ timer \in [Nodes -> 0..Never]
  /\ pc \in [Nodes -> States] /\ local \in [Nodes -> Object] /\ job \in [Nodes -> JobRecord]
  /\ faults \in 0..MaxFaults

LEMMA Halves == TypeOK <=> ClusterTypes /\ AgentTypes
BY DEF TypeOK, ClusterTypes, AgentTypes, PodRecord, JobRecord, States

LEMMA TypeStep == TypeOK /\ [Next]_vars => TypeOK'
<1> SUFFICES ASSUME TypeOK, [Next]_vars PROVE ClusterTypes' /\ AgentTypes'
  BY Halves, PTL
<1>s. /\ UNCHANGED scenario
      /\ NodeInfo' = NodeInfo /\ MaxTime' = MaxTime /\ MaxPods' = MaxPods /\ MaxFaults' = MaxFaults
      /\ Never' = Never /\ Object' = Object /\ PodRecord' = PodRecord /\ JobRecord' = JobRecord
  BY NextSame, Same
<1>t. ClusterTypes /\ AgentTypes
  BY Halves
<1> USE DEF ClusterTypes, AgentTypes
<1>1. CASE UNCHANGED vars
  BY <1>1, <1>s, <1>t DEF vars, objVars, agentVars, boundVars
<1>2. ASSUME NEW x \in Nodes, Reconcile(x) PROVE ClusterTypes' /\ AgentTypes'
  <2>1. crCache[x] \in Object /\ podCache[x].uid \in 0..MaxPods
    BY <1>t DEF PodRecord
  <2>2. queue' \in [Nodes -> BOOLEAN] /\ UNCHANGED <<scenario, now, pod, crCache, podCache, pods, taken>>
    BY <1>2, <1>t DEF Reconcile
  <2>3. CASE FailWith(x, crCache[x])
    BY <1>s, <1>t, <2>1, <2>2, <2>3, FailTypes
  <2>4. CASE StartRun(x, crCache[x], podCache[x].uid)
    BY <1>s, <1>t, <2>1, <2>2, <2>4, StartTypes
  <2>5. CASE /\ UNCHANGED <<cr, behind, outdated, pc, local, job, faults>>
             /\ ~Due(crCache[x]) /\ (UNCHANGED timer \/ After(x, NextRun(crCache[x].last)))
    <3>1. crCache[x].last \in 0..MaxTime
      BY <2>1, <2>5, ObjectTypes DEF Due
    <3>2. NextRun(crCache[x].last) \in 0..Never
      BY <3>1, Settings DEF NextRun, Never
    <3>3. timer' \in [Nodes -> 0..Never]
      BY <1>t, <2>5, <3>2, AfterTypes
    <3> QED
      BY <1>s, <1>t, <2>2, <2>5, <3>3
  <2>6. CASE UNCHANGED <<cr, behind, outdated, timer, pc, local, job, faults>>
    BY <1>s, <1>t, <2>2, <2>6
  <2> QED
    BY <1>2, <2>3, <2>4, <2>5, <2>6 DEF Reconcile
<1>3. ASSUME NEW x \in Nodes, Imaged(x) PROVE ClusterTypes' /\ AgentTypes'
  BY <1>3, <1>s, <1>t DEF Imaged, States, objVars, boundVars
<1>4. ASSUME NEW x \in Nodes, Stored(x) PROVE ClusterTypes' /\ AgentTypes'
  BY <1>4, <1>s, <1>t, CountUpTypes DEF Stored, States, objVars, boundVars
<1>5. ASSUME NEW x \in Nodes, RunFailed(x) PROVE ClusterTypes' /\ AgentTypes'
  BY <1>5, <1>s, <1>t, FaultTypes DEF RunFailed, States, objVars
<1>6. ASSUME NEW x \in Nodes, Fail(x) PROVE ClusterTypes' /\ AgentTypes'
  BY <1>6, <1>s, <1>t, FailTypes DEF Fail
<1>7. ASSUME NEW x \in Nodes, Record(x) PROVE ClusterTypes' /\ AgentTypes'
  <2>1. StatusUpdate(x, DoneOf(x)) \/ StatusUpdateFails(x)
    BY <1>7 DEF Record, DoneOf
  <2>2. NextRun(now) \in 0..Never
    BY Settings, <1>t DEF NextRun, Never
  <2>3. timer' \in [Nodes -> 0..Never] /\ queue' \in [Nodes -> BOOLEAN]
    BY <1>7, <1>t, <2>2, AfterTypes DEF Record
  <2> QED
    BY <1>7, <1>s, <1>t, <2>1, <2>3, DoneTypes, UpdateTypes, LeaveTypes DEF Record
<1>8. ASSUME NEW x \in Nodes, Crash(x) PROVE ClusterTypes' /\ AgentTypes'
  <2>1. Never \in 0..Never
    BY Settings
  <2> QED
    BY <1>8, <1>s, <1>t, <2>1, FaultTypes, LeaveTypes DEF Crash
<1>9. ASSUME NEW x \in Nodes, SyncObject(x) PROVE ClusterTypes' /\ AgentTypes'
  <2>1. queue' \in [Nodes -> BOOLEAN]
    BY <1>9, <1>t DEF SyncObject
  <2> QED
    BY <1>9, <1>s, <1>t, <2>1 DEF SyncObject, boundVars
<1>10. ASSUME NEW x \in Nodes, SyncPod(x) PROVE ClusterTypes' /\ AgentTypes'
  BY <1>10, <1>s, <1>t DEF SyncPod, objVars, agentVars, boundVars
<1>11. ASSUME NEW x \in Nodes, TimerFires(x) PROVE ClusterTypes' /\ AgentTypes'
  <2>1. Never \in 0..Never
    BY Settings
  <2> QED
    BY <1>11, <1>s, <1>t, <2>1 DEF TimerFires, objVars, boundVars
<1>12. CASE Tick
  <2>1. now' \in 0..MaxTime
    BY <1>12, <1>t, Settings DEF Tick
  <2> QED
    BY <1>12, <1>s, <1>t, <2>1 DEF Tick, objVars, agentVars, boundVars
<1>13. ASSUME NEW sp \in Specs, EditSpec(sp) PROVE ClusterTypes' /\ AgentTypes'
  <2>1. [cr EXCEPT !.spec = sp] \in Object
    BY <1>t, Settings, ObjectTypes
  <2> QED
    BY <1>13, <1>s, <1>t, <2>1, FaultTypes DEF EditSpec, agentVars
<1>14. CASE PodCreated
  <2>1. pods' \in 0..MaxPods /\ pod' \in PodRecord
    BY <1>14, <1>t, Settings DEF PodCreated, PodRecord
  <2> QED
    BY <1>14, <1>s, <1>t, <2>1 DEF PodCreated, objVars, agentVars
<1>15. ASSUME NEW x \in Nodes, PodScheduled(x) PROVE ClusterTypes' /\ AgentTypes'
  <2>1. pod' \in PodRecord
    BY <1>15, <1>t DEF PodScheduled, PodRecord
  <2> QED
    BY <1>15, <1>s, <1>t, <2>1 DEF PodScheduled, objVars, agentVars, boundVars
<1>16. CASE PodDeleted
  BY <1>16, <1>s, <1>t, Empties DEF PodDeleted, objVars, agentVars, boundVars
<1>17. CASE Quiet
  BY <1>1, <1>17 DEF Quiet
<1> QED
  BY <1>1, <1>2, <1>3, <1>4, <1>5, <1>6, <1>7, <1>8, <1>9, <1>10, <1>11, <1>12, <1>13, <1>14,
     <1>15, <1>16, <1>17 DEF Next, Agent

\* Every variable keeps its type: times stay within the clock, the schedule and
\* the retry, and no agent is in a state Reconcile() does not have.
THEOREM TypeCorrect == Spec => []TypeOK
BY TypeInit, TypeStep, PTL DEF Spec

-----------------------------------------------------------------------------
(* What a current copy knows                                               *)

\* A cache that is not behind is the object; an agent's copy that is not outdated
\* still has the object's record of checkpoints, though it may carry a mark that
\* was refused.
Tie ==
  /\ \A x \in Nodes : x \notin behind => crCache[x] = cr
  /\ \A x \in Nodes : pc[x] # "idle" /\ x \notin outdated =>
       local[x].last = cr.last /\ local[x].count = cr.count

\* A checkpoint may be taken at time t after one at time l.
Spaced(l, t) == l = NoTime \/ (~OneShot /\ t >= NextRun(l))

\* A run was due, by the copy it works from, when it started.
DueAtStart ==
  \A x \in Nodes : pc[x] # "idle" =>
    job[x].start \in 0..MaxTime /\ job[x].uid # 0 /\ Spaced(local[x].last, job[x].start)

\* An archive is stored before it is counted.
StoredFirst ==
  /\ cr.count <= taken
  /\ \A x \in Nodes : pc[x] = "record" /\ x \notin outdated => CountUp(local[x].count) <= taken

CopyInv == Tie /\ DueAtStart /\ StoredFirst

\* The Pods known in the cluster: the one there is, those in caches, and those
\* that runs were started for, on the node that started them.
Known == {pod} \cup {podCache[x] : x \in Nodes}
         \cup {[uid |-> job[x].uid, node |-> x] : x \in {y \in Nodes : pc[y] # "idle"}}

\* A Pod keeps the node it was given, and a uid is not used twice.
OneNode ==
  NodeInfo = NoNode =>
    \A r \in Known :
      /\ r.uid <= pods
      /\ r.uid = pod.uid /\ r.uid # 0 => r.node \in {NoNode, pod.node}
      /\ \A q \in Known : r.uid = q.uid /\ r.uid # 0 /\ r.node # NoNode /\ q.node # NoNode
                           => r.node = q.node

\* Where the object names a node, only its agent runs.
NamedNode == NodeInfo # NoNode => \A x \in Nodes : pc[x] # "idle" => x = NodeInfo

PodInv == OneNode /\ NamedNode

-----------------------------------------------------------------------------
(* What one step does to the object                                        *)

\* Its record of checkpoints and its phase stay, or it fails, or a run that is due
\* is marked, or a run that was due and is stored is recorded.
Effect ==
  \/ cr'.phase \in {cr.phase, "Failed"} /\ cr'.last = cr.last /\ cr'.count = cr.count
  \/ /\ cr'.phase = "Checkpointing" /\ cr'.last = cr.last /\ cr'.count = cr.count
     /\ cr.last = NoTime \/ ~OneShot
  \/ /\ cr'.phase = "Completed" /\ cr'.last \in 0..MaxTime /\ Spaced(cr.last, cr'.last)
     /\ cr'.count = CountUp(cr.count) /\ cr'.count <= taken

\* fail() keeps the record of its copy, which is current if the update is taken.
LEMMA FailEffect ==
  ASSUME TypeOK, NEW x \in Nodes, NEW o \in Object, FailWith(x, o),
         Current(x) => o.last = cr.last /\ o.count = cr.count
  PROVE  Effect
<1> DEFINE failed == [o EXCEPT !.phase = "Failed"]
<1>1. failed \in Object /\ failed.phase = "Failed" /\ failed.last = o.last /\ failed.count = o.count
  BY ObjectTypes DEF Phases, Object
<1>2. StatusUpdate(x, failed) \/ StatusUpdateFails(x)
  BY DEF FailWith
<1> HIDE DEF failed
<1>3. CASE StatusUpdate(x, failed)
  <2>1. cr' = [failed EXCEPT !.spec = cr.spec] /\ Current(x)
    BY <1>3 DEF StatusUpdate
  <2>2. cr'.phase = failed.phase /\ cr'.last = failed.last /\ cr'.count = failed.count
    BY <1>1, <2>1 DEF Object
  <2> QED
    BY <1>1, <2>1, <2>2 DEF Effect
<1>4. CASE StatusUpdateFails(x)
  BY <1>4 DEF StatusUpdateFails, Effect
<1> QED
  BY <1>2, <1>3, <1>4

LEMMA MarkedTypes ==
  ASSUME TypeOK, NEW o \in Object
  PROVE  /\ Marked(o) \in Object /\ Marked(o).phase = "Checkpointing"
         /\ Marked(o).last = o.last /\ Marked(o).count = o.count
BY ObjectTypes DEF Marked, Phases, Object

\* What an update that is taken makes of the object.
LEMMA Taken ==
  ASSUME TypeOK, NEW x \in Nodes, NEW o \in Object, StatusUpdate(x, o)
  PROVE  cr'.phase = o.phase /\ cr'.last = o.last /\ cr'.count = o.count
BY DEF StatusUpdate, Object

LEMMA StartEffect ==
  ASSUME TypeOK, NEW x \in Nodes, NEW o \in Object, NEW u, StartRun(x, o, u), Due(o),
         Current(x) => o.last = cr.last /\ o.count = cr.count
  PROVE  Effect
<1>1. CASE StatusUpdate(x, Marked(o))
  <2>1. Current(x)
    BY <1>1 DEF StatusUpdate
  <2>2. cr'.phase = "Checkpointing" /\ cr'.last = cr.last /\ cr'.count = cr.count
    BY <1>1, <2>1, MarkedTypes, Taken
  <2> QED
    BY <2>1, <2>2 DEF Effect, Due
<1>2. CASE UNCHANGED cr
  BY <1>2 DEF Effect
<1> QED
  BY <1>1, <1>2 DEF StartRun, StatusUpdateFails

LEMMA EffectStep == TypeOK /\ CopyInv /\ [Next]_vars => Effect
<1> SUFFICES ASSUME TypeOK, CopyInv, [Next]_vars PROVE Effect
  OBVIOUS
<1>1. CASE UNCHANGED cr
  BY <1>1 DEF Effect
<1>2. ASSUME NEW x \in Nodes, Reconcile(x) PROVE Effect
  <2>1. crCache[x] \in Object /\ pc[x] = "idle"
    BY <1>2 DEF TypeOK, Reconcile
  <2>2. Current(x) => crCache[x].last = cr.last /\ crCache[x].count = cr.count
    BY <2>1 DEF Current, CopyInv, Tie
  <2>3. CASE FailWith(x, crCache[x])
    BY <2>1, <2>2, <2>3, FailEffect
  <2>4. CASE Due(crCache[x]) /\ StartRun(x, crCache[x], podCache[x].uid)
    BY <2>1, <2>2, <2>4, StartEffect
  <2> QED
    BY <1>1, <1>2, <2>3, <2>4 DEF Reconcile
<1>3. ASSUME NEW x \in Nodes, Fail(x) PROVE Effect
  <2>1. local[x] \in Object /\ pc[x] = "failed"
    BY <1>3 DEF TypeOK, Fail
  <2>2. Current(x) => local[x].last = cr.last /\ local[x].count = cr.count
    BY <2>1 DEF Current, CopyInv, Tie
  <2> QED
    BY <1>3, <2>1, <2>2, FailEffect DEF Fail
<1>4. ASSUME NEW x \in Nodes, Record(x) PROVE Effect
  <2>1. pc[x] = "record"
    BY <1>4 DEF Record
  <2>2. CASE StatusUpdate(x, DoneOf(x))
    <3>1. x \notin outdated
      BY <2>1, <2>2 DEF StatusUpdate, Current
    <3>2. /\ local[x].last = cr.last /\ local[x].count = cr.count
          /\ CountUp(local[x].count) <= taken
      BY <2>1, <3>1 DEF CopyInv, Tie, StoredFirst
    <3>3. job[x].start \in 0..MaxTime /\ Spaced(local[x].last, job[x].start)
      BY <2>1 DEF CopyInv, DueAtStart
    <3>4. cr'.phase = "Completed" /\ cr'.last = job[x].start /\ cr'.count = CountUp(local[x].count)
      BY <2>2, DoneTypes, Taken
    <3> QED
      BY <3>2, <3>3, <3>4 DEF Effect
  <2>3. CASE StatusUpdateFails(x)
    BY <1>1, <2>3 DEF StatusUpdateFails
  <2> QED
    BY <1>4, <2>2, <2>3 DEF Record, DoneOf
<1>5. ASSUME NEW sp \in Specs, EditSpec(sp) PROVE Effect
  <2>1. cr \in Object /\ cr' = [cr EXCEPT !.spec = sp]
    BY <1>5 DEF EditSpec, TypeOK
  <2>2. cr'.phase = cr.phase /\ cr'.last = cr.last /\ cr'.count = cr.count
    BY <2>1 DEF Object
  <2> QED
    BY <2>2 DEF Effect
<1>6. ASSUME NEW x \in Nodes, Imaged(x) \/ Stored(x) \/ RunFailed(x) \/ Crash(x) \/ PodScheduled(x)
             \/ SyncObject(x) \/ SyncPod(x) \/ TimerFires(x)
      PROVE  Effect
  BY <1>1, <1>6 DEF Imaged, Stored, RunFailed, Crash, PodScheduled, SyncObject, SyncPod, TimerFires,
     objVars
<1>7. CASE Tick \/ PodCreated \/ PodDeleted \/ Quiet
  BY <1>1, <1>7 DEF Tick, PodCreated, PodDeleted, Quiet, vars, objVars
<1> QED
  BY <1>1, <1>2, <1>3, <1>4, <1>5, <1>6, <1>7 DEF Next, Agent, vars, objVars

-----------------------------------------------------------------------------
(* The invariant of the copies                                             *)

LEMMA CopyInit == Init => CopyInv
BY DEF Init, CopyInv, Tie, DueAtStart, StoredFirst, Fresh

LEMMA CountUpGrows ==
  ASSUME NEW c \in 0..MaxTaken, NEW d \in 0..MaxTaken, c <= d
  PROVE  CountUp(c) <= CountUp(d)
BY ReconcilerAssumption DEF CountUp

\* After an update by x, taken or not, a copy of another agent is current only if it
\* was and the object is the same.
LEMMA CopiesAge ==
  ASSUME TypeOK, NEW x \in Nodes, NEW o, StatusUpdate(x, o) \/ StatusUpdateFails(x)
  PROVE  /\ \A y \in Nodes : y \notin behind' => y \notin behind /\ cr' = cr
         /\ \A y \in Nodes : y # x /\ pc[y] # "idle" /\ y \notin outdated' =>
              y \notin outdated /\ cr' = cr
BY DEF StatusUpdate, StatusUpdateFails

\* The object's count is covered by what is stored, whatever the step.
LEMMA CountStep == TypeOK /\ CopyInv /\ [Next]_vars => cr'.count <= taken'
<1> SUFFICES ASSUME TypeOK, CopyInv, [Next]_vars PROVE cr'.count <= taken'
  OBVIOUS
<1>1. taken' = taken \/ taken' = CountUp(taken)
  BY DEF Next, vars, Agent, Reconcile, Imaged, Stored, RunFailed, Fail, Record, Crash, SyncObject,
     SyncPod, TimerFires, Tick, EditSpec, PodCreated, PodScheduled, PodDeleted, Quiet
<1>2. taken \in 0..MaxTaken /\ taken' \in 0..MaxTaken /\ taken <= taken'
  BY <1>1, CountUpTypes DEF TypeOK
<1>3. cr.count \in 0..MaxTaken /\ CountUp(cr.count) \in 0..MaxTaken
  BY CountUpTypes, ObjectTypes DEF TypeOK
<1>4. cr'.count \in 0..MaxTaken /\ cr'.count <= taken
  BY <1>3, EffectStep DEF Effect, CopyInv, StoredFirst
<1> QED
  BY <1>2, <1>4

\* An agent that leaves Reconcile() takes nothing from the others.
LEMMA LeaveCopies ==
  ASSUME TypeOK, CopyInv, UNCHANGED <<scenario, taken, crCache>>, cr'.count <= taken',
         NEW x \in Nodes, NEW o, StatusUpdate(x, o) \/ StatusUpdateFails(x), Leave(x)
  PROVE  CopyInv'
<1>1. /\ pc'[x] = "idle"
      /\ \A y \in Nodes : y # x => pc'[y] = pc[y] /\ local'[y] = local[y] /\ job'[y] = job[y]
  BY DEF Leave, TypeOK
<1>2. Tie'
  BY <1>1, CopiesAge DEF CopyInv, Tie
<1>3. DueAtStart'
  BY <1>1, Same DEF CopyInv, DueAtStart, Spaced, NextRun
<1>4. StoredFirst'
  BY <1>1, CopiesAge DEF CopyInv, StoredFirst
<1> QED
  BY <1>2, <1>3, <1>4 DEF CopyInv

\* A step that changes no copy and no run.
LEMMA QuietCopies ==
  ASSUME CopyInv, UNCHANGED <<scenario, objVars, pc, local, job, taken>>
  PROVE  CopyInv'
BY Same DEF CopyInv, Tie, DueAtStart, StoredFirst, Spaced, NextRun, objVars

\* A run starts from the cache of x.
LEMMA StartCopies ==
  ASSUME TypeOK, CopyInv, UNCHANGED <<scenario, taken, crCache>>, cr'.count <= taken',
         NEW x \in Nodes, NEW u \in 0..MaxPods, u # 0, pc[x] = "idle",
         Due(crCache[x]), StartRun(x, crCache[x], u)
  PROVE  CopyInv'
<1> DEFINE o == crCache[x]
<1>1. o \in Object /\ Marked(o).last = o.last /\ Marked(o).count = o.count
  BY MarkedTypes DEF TypeOK
<1>2. /\ pc'[x] = "run" /\ local'[x] = Marked(o)
      /\ job'[x] = [uid |-> u, start |-> now]
      /\ \A y \in Nodes : y # x => pc'[y] = pc[y] /\ local'[y] = local[y] /\ job'[y] = job[y]
  BY DEF StartRun, TypeOK
<1>3. /\ \A y \in Nodes : y \notin behind' => y \notin behind /\ cr' = cr
      /\ \A y \in Nodes : y # x /\ pc[y] # "idle" /\ y \notin outdated' =>
           y \notin outdated /\ cr' = cr
  BY CopiesAge DEF StartRun
<1>4. x \notin outdated' => o.last = cr'.last /\ o.count = cr'.count
  <2>1. CASE StatusUpdate(x, Marked(o))
    BY <1>1, <2>1, MarkedTypes, Taken
  <2>2. CASE Current(x) /\ StatusUpdateFails(x)
    BY <2>2 DEF StatusUpdateFails, Current, CopyInv, Tie
  <2>3. CASE outdated' = outdated \cup {x}
    BY <2>3
  <2> QED
    BY <2>1, <2>2, <2>3 DEF StartRun
<1> HIDE DEF o
<1>5. Tie'
  BY <1>1, <1>2, <1>3, <1>4 DEF CopyInv, Tie
<1>6. DueAtStart'
  <2>1. now \in 0..MaxTime /\ Spaced(o.last, now)
    BY DEF TypeOK, Due, Spaced, o
  <2> QED
    BY <1>1, <1>2, <2>1, Same DEF CopyInv, DueAtStart, Spaced, NextRun
<1>7. StoredFirst'
  BY <1>2, <1>3 DEF CopyInv, StoredFirst
<1> QED
  BY <1>5, <1>6, <1>7 DEF CopyInv

LEMMA CopyStep == TypeOK /\ CopyInv /\ [Next]_vars => CopyInv'
<1> SUFFICES ASSUME TypeOK, CopyInv, [Next]_vars PROVE CopyInv'
  OBVIOUS
<1>s. UNCHANGED scenario /\ cr'.count <= taken'
  BY NextSame, CountStep
<1>1. CASE UNCHANGED <<objVars, pc, local, job, taken>>
  BY <1>1, <1>s, QuietCopies
<1>2. ASSUME NEW x \in Nodes, Reconcile(x) PROVE CopyInv'
  <2>1. /\ UNCHANGED <<scenario, taken, crCache>> /\ pc[x] = "idle"
        /\ podCache[x].uid \in 0..MaxPods
    BY <1>2 DEF Reconcile, TypeOK
  <2>2. CASE FailWith(x, crCache[x])
    BY <1>s, <2>1, <2>2, LeaveCopies DEF FailWith
  <2>3. CASE podCache[x].uid # 0 /\ Due(crCache[x]) /\ StartRun(x, crCache[x], podCache[x].uid)
    BY <1>s, <2>1, <2>3, StartCopies
  <2>4. CASE UNCHANGED <<cr, behind, outdated, pc, local, job>>
    BY <1>1, <2>1, <2>4 DEF objVars
  <2> QED
    BY <1>2, <2>2, <2>3, <2>4 DEF Reconcile
<1>3. ASSUME NEW x \in Nodes, Imaged(x) \/ RunFailed(x) PROVE CopyInv'
  <2>1. /\ pc[x] # "idle" /\ pc'[x] \in {"store", "failed"}
        /\ \A y \in Nodes : y # x => pc'[y] = pc[y]
        /\ UNCHANGED <<scenario, objVars, local, job, taken>>
    BY <1>3 DEF Imaged, RunFailed, TypeOK
  <2> QED
    BY <2>1, Same DEF CopyInv, Tie, DueAtStart, StoredFirst, Spaced, NextRun, objVars
\* The archive of a current copy is one that its count does not have yet.
<1>4. ASSUME NEW x \in Nodes, Stored(x) PROVE CopyInv'
  <2>1. /\ pc[x] = "store" /\ pc'[x] = "record"
        /\ \A y \in Nodes : y # x => pc'[y] = pc[y]
        /\ UNCHANGED <<scenario, objVars, local, job>> /\ taken' = CountUp(taken)
    BY <1>4 DEF Stored, TypeOK
  <2>2. Tie' /\ DueAtStart'
    BY <2>1, Same DEF CopyInv, Tie, DueAtStart, Spaced, NextRun, objVars
  <2>3. taken \in 0..MaxTaken /\ CountUp(taken) \in 0..MaxTaken /\ taken <= CountUp(taken)
    BY CountUpTypes DEF TypeOK
  <2>4. \A y \in Nodes : local[y].count \in 0..MaxTaken /\ CountUp(local[y].count) \in 0..MaxTaken
    BY CountUpTypes, ObjectTypes DEF TypeOK
  <2>5. x \notin outdated => CountUp(local[x].count) <= CountUp(taken)
    BY <2>1, <2>3, <2>4, CountUpGrows DEF CopyInv, Tie, StoredFirst
  <2>6. \A y \in Nodes : pc'[y] = "record" /\ y \notin outdated => CountUp(local[y].count) <= taken'
    BY <2>1, <2>3, <2>4, <2>5 DEF CopyInv, StoredFirst
  <2>7. StoredFirst'
    BY <1>s, <2>1, <2>6 DEF StoredFirst, objVars
  <2> QED
    BY <2>2, <2>7 DEF CopyInv
<1>5. ASSUME NEW x \in Nodes, Fail(x) PROVE CopyInv'
  BY <1>5, <1>s, LeaveCopies DEF Fail, FailWith
<1>6. ASSUME NEW x \in Nodes, Record(x) PROVE CopyInv'
  BY <1>6, <1>s, LeaveCopies DEF Record
<1>7. ASSUME NEW x \in Nodes, Crash(x) PROVE CopyInv'
  <2>1. /\ pc'[x] = "idle" /\ crCache'[x] = cr
        /\ \A y \in Nodes : y # x => /\ pc'[y] = pc[y] /\ local'[y] = local[y] /\ job'[y] = job[y]
                                     /\ crCache'[y] = crCache[y]
        /\ UNCHANGED <<scenario, cr, taken>> /\ behind' = behind \ {x} /\ outdated' = outdated \ {x}
    BY <1>7 DEF Crash, Leave, TypeOK
  <2> QED
    BY <2>1, Same DEF CopyInv, Tie, DueAtStart, StoredFirst, Spaced, NextRun
<1>8. ASSUME NEW x \in Nodes, SyncObject(x) PROVE CopyInv'
  <2>1. /\ crCache'[x] = cr /\ \A y \in Nodes : y # x => crCache'[y] = crCache[y]
        /\ UNCHANGED <<scenario, cr, outdated, pc, local, job, taken>> /\ behind' = behind \ {x}
    BY <1>8 DEF SyncObject, TypeOK
  <2> QED
    BY <2>1, Same DEF CopyInv, Tie, DueAtStart, StoredFirst, Spaced, NextRun
<1>9. ASSUME NEW sp \in Specs, EditSpec(sp) PROVE CopyInv'
  <2>1. /\ behind' = Nodes /\ outdated' = {y \in Nodes : pc[y] # "idle"}
        /\ UNCHANGED <<scenario, crCache, pc, local, job, taken>>
    BY <1>9 DEF EditSpec, agentVars
  <2> QED
    BY <1>s, <2>1, Same DEF CopyInv, Tie, DueAtStart, StoredFirst, Spaced, NextRun
<1>10. ASSUME NEW x \in Nodes, PodScheduled(x) \/ SyncPod(x) \/ TimerFires(x) PROVE CopyInv'
  BY <1>1, <1>10 DEF PodScheduled, SyncPod, TimerFires, agentVars
<1>11. CASE Tick \/ PodCreated \/ PodDeleted \/ Quiet
  BY <1>1, <1>11 DEF Tick, PodCreated, PodDeleted, Quiet, vars, agentVars
<1> QED
  BY <1>1, <1>2, <1>3, <1>4, <1>5, <1>6, <1>7, <1>8, <1>9, <1>10, <1>11
     DEF Next, Agent, vars, agentVars

LEMMA CopiesSafe == Spec => [](TypeOK /\ CopyInv)
BY TypeInit, TypeStep, CopyInit, CopyStep, PTL DEF Spec

\* The count in the status never exceeds the checkpoints that were stored, for any
\* number of agents with old copies, refused updates and crashes.
THEOREM CountSafe == Spec => []CountNotOver
<1>1. CopyInv => CountNotOver
  BY DEF CopyInv, StoredFirst, CountNotOver
<1> QED
  BY CopiesSafe, <1>1, PTL

\* The times that are recorded are at least the period apart, and a one-shot object
\* has one at most, though runs that conflict are repeated.
THEOREM SpacingSafe == Spec => Spacing
<1>1. TypeOK /\ CopyInv /\ [Next]_vars =>
        [cr'.last # cr.last /\ cr.last # NoTime => ~OneShot /\ cr'.last >= NextRun(cr.last)]_vars
  BY EffectStep DEF Effect, Spaced
<1> QED
  BY CopiesSafe, <1>1, PTL DEF Spec, Spacing

\* The agents together implement ChildStatus: what a reader of the status relies on
\* holds of every step of any agent.
THEOREM Refinement == Spec => StatusAsPromised
<1>1. Init => Status!Init
  <2> SUFFICES ASSUME Init PROVE Status!Init
    OBVIOUS
  <2>1. cr.phase = "none" /\ cr.last = NoTime
    BY DEF Init, Fresh
  <2> QED
    BY <2>1 DEF Status!Init
<1>2. TypeOK /\ CopyInv /\ [Next]_vars => [Status!Next]_(Status!vars)
  <2> SUFFICES ASSUME TypeOK, CopyInv, [Next]_vars PROVE [Status!Next]_(Status!vars)
    OBVIOUS
  <2>1. Effect /\ OneShot' = OneShot
    BY EffectStep, NextSame, Same
  <2>2. MaxTime \in Nat
    BY Settings
  <2>3. CASE cr'.phase = cr.phase /\ cr'.last = cr.last
    BY <2>1, <2>3 DEF Status!vars
  <2>4. CASE cr'.phase = "Failed" /\ cr'.last = cr.last
    BY <2>1, <2>4 DEF Status!Next, Status!Fail
  <2>5. CASE cr'.phase = "Checkpointing" /\ cr'.last = cr.last /\ (cr.last = NoTime \/ ~OneShot)
    BY <2>1, <2>5 DEF Status!Next, Status!Start, Status!MayRun
  <2>6. CASE cr'.phase = "Completed" /\ cr'.last \in 0..MaxTime /\ Spaced(cr.last, cr'.last)
    BY <2>1, <2>2, <2>6 DEF Status!Next, Status!Done, Status!MayRun, Spaced, NoTime
  <2> QED
    BY <2>1, <2>3, <2>4, <2>5, <2>6 DEF Effect
<1> QED
  BY CopiesSafe, <1>1, <1>2, PTL DEF Spec, StatusAsPromised, Status!Spec

-----------------------------------------------------------------------------
(* One pipeline per Pod                                                    *)

LEMMA PodInit == Init => PodInv
<1> SUFFICES ASSUME Init PROVE PodInv
  OBVIOUS
<1>1. \A x \in Nodes : pc[x] = "idle" /\ podCache[x] = pod
  BY DEF Init
<1>2. Known = {pod} /\ pods = pod.uid /\ pod.uid \in Nat
  <2>1. pods = pod.uid /\ pod.uid \in Nat
    BY DEF Init, NoPod
  <2> QED
    BY <1>1, <2>1 DEF Known
<1> QED
  BY <1>1, <1>2 DEF PodInv, OneNode, NamedNode

\* No Pod becomes known, and no agent starts a run.
LEMMA NothingNew ==
  ASSUME PodInv, UNCHANGED <<scenario, pod, pods>>, Known' \subseteq Known, NamedNode'
  PROVE  PodInv'
BY Same DEF PodInv, OneNode

\* An agent that is not started on a new run, with or without leaving its run.
LEMMA OldRuns ==
  ASSUME TypeOK, PodInv, UNCHANGED <<scenario, pod, pods, podCache>>,
         \A y \in Nodes : pc'[y] # "idle" => pc[y] # "idle" /\ job'[y] = job[y]
  PROVE  PodInv'
<1>1. Known' \subseteq Known
  BY DEF Known
<1>2. NamedNode'
  BY Same DEF PodInv, NamedNode
<1> QED
  BY <1>1, <1>2, NothingNew

LEMMA LeaveRuns ==
  ASSUME TypeOK, NEW x \in Nodes, Leave(x)
  PROVE  \A y \in Nodes : pc'[y] # "idle" => pc[y] # "idle" /\ job'[y] = job[y]
BY DEF Leave, TypeOK

\* A run is started for the Pod in the cache, on its node or the node that is named.
LEMMA StartRuns ==
  ASSUME TypeOK, PodInv, UNCHANGED <<scenario, pod, pods, podCache>>,
         NEW x \in Nodes, NEW o, IsTarget(x, podCache[x]), StartRun(x, o, podCache[x].uid)
  PROVE  PodInv'
<1>1. /\ pc'[x] = "run" /\ job'[x] = [uid |-> podCache[x].uid, start |-> now]
      /\ \A y \in Nodes : y # x => pc'[y] = pc[y] /\ job'[y] = job[y]
  BY DEF StartRun, TypeOK
<1>2. NamedNode'
  BY <1>1, Same DEF PodInv, NamedNode, IsTarget
<1>3. CASE NodeInfo # NoNode
  BY <1>2, <1>3, Same DEF PodInv, OneNode
<1>4. CASE NodeInfo = NoNode
  <2>1. podCache[x] \in PodRecord /\ podCache[x].node = x
    BY <1>4 DEF IsTarget, TypeOK, PodRecord
  <2>2. podCache[x] = [uid |-> podCache[x].uid, node |-> x]
    BY <2>1 DEF PodRecord
  <2>3. Known' \subseteq Known
    <3> SUFFICES ASSUME NEW r \in Known' PROVE r \in Known
      OBVIOUS
    <3>1. CASE r = pod \/ \E y \in Nodes : r = podCache[y]
      BY <3>1 DEF Known
    <3>2. ASSUME NEW y \in Nodes, pc'[y] # "idle", r = [uid |-> job'[y].uid, node |-> y]
          PROVE  r \in Known
      <4>1. CASE y = x
        <5>1. r = podCache[x]
          BY <1>1, <2>2, <3>2, <4>1
        <5> QED
          BY <5>1 DEF Known
      <4>2. CASE y # x
        BY <1>1, <3>2, <4>2 DEF Known
      <4> QED
        BY <4>1, <4>2
    <3> QED
      BY <3>1, <3>2 DEF Known
  <2> QED
    BY <1>2, <2>3, NothingNew
<1> QED
  BY <1>3, <1>4

LEMMA PodStep == TypeOK /\ PodInv /\ [Next]_vars => PodInv'
<1> SUFFICES ASSUME TypeOK, PodInv, [Next]_vars PROVE PodInv'
  OBVIOUS
<1>s. UNCHANGED scenario
  BY NextSame
<1>1. CASE UNCHANGED <<pod, pods, podCache, pc, job>>
  BY <1>1, <1>s, OldRuns
<1>2. ASSUME NEW x \in Nodes, Reconcile(x) PROVE PodInv'
  <2>1. UNCHANGED <<pod, pods, podCache>>
    BY <1>2 DEF Reconcile
  <2>2. CASE FailWith(x, crCache[x])
    BY <1>s, <2>1, <2>2, LeaveRuns, OldRuns DEF FailWith
  <2>3. CASE IsTarget(x, podCache[x]) /\ StartRun(x, crCache[x], podCache[x].uid)
    BY <1>s, <2>1, <2>3, StartRuns
  <2>4. CASE UNCHANGED <<pc, job>>
    BY <1>1, <2>1, <2>4
  <2> QED
    BY <1>2, <2>2, <2>3, <2>4 DEF Reconcile
<1>3. ASSUME NEW x \in Nodes, Imaged(x) \/ Stored(x) \/ RunFailed(x) PROVE PodInv'
  <2>1. /\ \A y \in Nodes : pc'[y] # "idle" => pc[y] # "idle" /\ job'[y] = job[y]
        /\ UNCHANGED <<pod, pods, podCache>>
    BY <1>3 DEF Imaged, Stored, RunFailed, TypeOK, boundVars
  <2> QED
    BY <1>s, <2>1, OldRuns
<1>4. ASSUME NEW x \in Nodes, Fail(x) \/ Record(x) PROVE PodInv'
  <2>1. Leave(x) /\ UNCHANGED <<pod, pods, podCache>>
    BY <1>4 DEF Fail, FailWith, Record
  <2> QED
    BY <1>s, <2>1, LeaveRuns, OldRuns
<1>5. ASSUME NEW x \in Nodes, Crash(x) PROVE PodInv'
  <2>1. /\ \A y \in Nodes : pc'[y] # "idle" => pc[y] # "idle" /\ job'[y] = job[y]
        /\ UNCHANGED <<pod, pods>> /\ \A y \in Nodes : podCache'[y] \in {podCache[y], pod}
    BY <1>5, LeaveRuns DEF Crash, TypeOK
  <2>2. Known' \subseteq Known
    BY <2>1 DEF Known
  <2>3. NamedNode'
    BY <1>s, <2>1, Same DEF PodInv, NamedNode
  <2> QED
    BY <1>s, <2>1, <2>2, <2>3, NothingNew
<1>6. ASSUME NEW x \in Nodes, SyncPod(x) PROVE PodInv'
  <2>1. /\ UNCHANGED <<pod, pods, pc, job>>
        /\ \A y \in Nodes : podCache'[y] \in {podCache[y], pod}
    BY <1>6 DEF SyncPod, TypeOK, agentVars, boundVars
  <2>2. Known' \subseteq Known
    BY <2>1 DEF Known
  <2>3. NamedNode'
    BY <1>s, <2>1, Same DEF PodInv, NamedNode
  <2> QED
    BY <1>s, <2>1, <2>2, <2>3, NothingNew
\* The new Pod's uid is one nobody knows.
<1>7. CASE PodCreated
  <2>1. /\ pods' = pods + 1 /\ pods \in Nat /\ pod' = [uid |-> pods + 1, node |-> NoNode]
        /\ UNCHANGED <<podCache, pc, job>>
    BY <1>7, Settings DEF PodCreated, TypeOK, agentVars
  <2>2. Known' \subseteq Known \cup {pod'}
    BY <2>1 DEF Known
  <2>3. \A r \in Known : r.uid \in Nat
    <3>1. pod.uid \in Nat
      BY Settings DEF TypeOK
    <3>2. \A x \in Nodes : podCache[x].uid \in Nat /\ job[x].uid \in Nat
      BY Settings DEF TypeOK
    <3> QED
      BY <3>1, <3>2 DEF Known
  <2>4. OneNode'
    <3> SUFFICES ASSUME NodeInfo = NoNode, NEW r \in Known'
                 PROVE  /\ r.uid <= pods'
                        /\ r.uid = pod'.uid /\ r.uid # 0 => r.node \in {NoNode, pod'.node}
                        /\ \A q \in Known' : r.uid = q.uid /\ r.uid # 0 /\ r.node # NoNode
                                               /\ q.node # NoNode => r.node = q.node
      BY <1>s, Same DEF OneNode
    <3>1. pod'.uid = pods + 1 /\ pod'.node = NoNode
      BY <2>1
    <3>2. \A q \in Known' : q = pod' \/ (q \in Known /\ q.uid \in Nat /\ q.uid <= pods)
      BY <2>2, <2>3 DEF PodInv, OneNode
    <3> QED
      BY <2>1, <3>1, <3>2 DEF PodInv, OneNode
  <2>5. NamedNode'
    BY <1>s, <2>1, Same DEF PodInv, NamedNode
  <2> QED
    BY <2>4, <2>5 DEF PodInv
\* Nobody knows another node of a Pod that has none.
<1>8. ASSUME NEW x \in Nodes, PodScheduled(x) PROVE PodInv'
  <2>1. /\ UNCHANGED <<pods, podCache, pc, job>> /\ pod.uid # 0 /\ pod.node = NoNode
        /\ pod'.uid = pod.uid /\ pod'.node = x
    BY <1>8 DEF PodScheduled, TypeOK, agentVars, boundVars
  <2>2. Known' \subseteq Known \cup {pod'}
    BY <2>1 DEF Known
  <2>3. pod \in Known
    BY DEF Known
  <2>4. OneNode'
    <3> SUFFICES ASSUME NodeInfo = NoNode, NEW r \in Known'
                 PROVE  /\ r.uid <= pods'
                        /\ r.uid = pod'.uid /\ r.uid # 0 => r.node \in {NoNode, pod'.node}
                        /\ \A q \in Known' : r.uid = q.uid /\ r.uid # 0 /\ r.node # NoNode
                                               /\ q.node # NoNode => r.node = q.node
      BY <1>s, Same DEF OneNode
    <3>1. \A q \in Known' : q = pod' \/ q \in Known
      BY <2>2
    <3>2. \A q \in Known : q.uid = pod.uid => q.node = NoNode
      BY <2>1 DEF PodInv, OneNode
    <3> QED
      BY <2>1, <2>3, <3>1, <3>2 DEF PodInv, OneNode
  <2>5. NamedNode'
    BY <1>s, <2>1, Same DEF PodInv, NamedNode
  <2> QED
    BY <2>4, <2>5 DEF PodInv
<1>9. CASE PodDeleted
  <2>1. UNCHANGED <<pods, podCache, pc, job>> /\ pod'.uid = 0 /\ pod'.node = NoNode /\ pods \in Nat
    BY <1>9, Settings DEF PodDeleted, NoPod, TypeOK, agentVars, boundVars
  <2>2. \A q \in Known' : q = pod' \/ q \in Known
    BY <2>1 DEF Known
  <2>3. OneNode'
    BY <1>s, <2>1, <2>2, Same DEF PodInv, OneNode
  <2>4. NamedNode'
    BY <1>s, <2>1, Same DEF PodInv, NamedNode
  <2> QED
    BY <2>3, <2>4 DEF PodInv
<1>10. ASSUME NEW x \in Nodes, SyncObject(x) \/ TimerFires(x) PROVE PodInv'
  BY <1>1, <1>10 DEF SyncObject, TimerFires, boundVars
<1>11. ASSUME Tick \/ Quiet \/ \E sp \in Specs : EditSpec(sp) PROVE PodInv'
  BY <1>1, <1>11 DEF Tick, Quiet, EditSpec, vars, agentVars, boundVars
<1> QED
  BY <1>1, <1>2, <1>3, <1>4, <1>5, <1>6, <1>7, <1>8, <1>9, <1>10, <1>11
     DEF Next, Agent, vars, agentVars, boundVars

\* Two agents never run the pipeline on the same Pod, however old their caches.
THEOREM PipelineSafe == Spec => []OnePipelinePerPod
<1>1. TypeOK /\ CopyInv /\ PodInv => OnePipelinePerPod
  <2> SUFFICES ASSUME TypeOK, CopyInv, PodInv, NEW x \in Nodes, NEW y \in Nodes, x # y,
                      pc[x] \in Working, pc[y] \in Working, job[x].uid = job[y].uid
               PROVE  FALSE
    BY DEF OnePipelinePerPod
  <2>1. pc[x] # "idle" /\ pc[y] # "idle" /\ job[x].uid # 0
    BY DEF Working, CopyInv, DueAtStart
  <2>2. CASE NodeInfo # NoNode
    BY <2>1, <2>2 DEF PodInv, NamedNode
  <2>3. CASE NodeInfo = NoNode
    <3> DEFINE r == [uid |-> job[x].uid, node |-> x]
               q == [uid |-> job[y].uid, node |-> y]
    <3>1. r \in Known /\ q \in Known
      BY <2>1 DEF Known
    <3>2. r.uid = q.uid /\ r.uid # 0 /\ r.node = x /\ q.node = y /\ x # NoNode /\ y # NoNode
      BY <2>1, ReconcilerAssumption
    <3> HIDE DEF r, q
    <3> QED
      BY <2>3, <3>1, <3>2 DEF PodInv, OneNode
  <2> QED
    BY <2>2, <2>3
<1> QED
  BY CopiesSafe, PodInit, PodStep, <1>1, PTL DEF Spec

=============================================================================
