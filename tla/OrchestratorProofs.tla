------------------------- MODULE OrchestratorProofs -------------------------
(***************************************************************************)
(* Proofs about Orchestrator, for any Pods and nodes, any requests and any *)
(* number of Pod events and faults.                                        *)
(*                                                                         *)
(* CompletedSound is not inductive: the roll-up reads the children from a  *)
(* cache.  It holds because a checkpoint that is recorded stays recorded   *)
(* (ChildStatus), so that whatever a cache showed as Completed once is     *)
(* recorded now.                                                           *)
(***************************************************************************)
EXTENDS Orchestrator, FiniteSetTheorems, TLAPS

-----------------------------------------------------------------------------
(* Counting                                                                *)

\* If as many Pods are shown as Completed as there are Pods, all of them are.
LEMMA AllCompleted ==
  ASSUME NEW S \in SUBSET Pods, NEW ts \in [S -> Shows], AllDone(ts)
  PROVE  \A p \in S : ts[p] = "Completed"
<1> DEFINE C == {p \in S : ts[p] \in {"Completed"}}
<1>1. IsFiniteSet(S) /\ C \in SUBSET S
  BY FS_Subset, OrchestratorAssumption
<1>2. Cardinality(C) = Cardinality(S)
  BY DEF AllDone, Count
<1>3. S = C
  <2> HIDE DEF C
  <2> QED BY <1>1, <1>2, FS_Subset
<1> QED BY <1>3

-----------------------------------------------------------------------------
(* Types                                                                   *)

\* What bounds the loop's counter: it grows only with a Pod that is done with.
Counted == inFlight + Cardinality(todo) <= Cardinality(Pods)
TypeInv == TypeOK /\ Counted

LEMMA Bounds ==
  ASSUME NEW S \in SUBSET Pods
  PROVE  /\ IsFiniteSet(S) /\ Cardinality(S) \in Nat /\ Cardinality(Pods) \in Nat
         /\ Cardinality(S) <= Cardinality(Pods)
         /\ \A p \in S : Cardinality(S \ {p}) = Cardinality(S) - 1
BY FS_Subset, FS_CardinalityType, FS_RemoveElement, OrchestratorAssumption

\* The statuses a WorkloadCheckpoint may have.
StatusSet == [phase : Phases, short : BOOLEAN, targets : UNION {[T -> Shows] : T \in SUBSET Pods}]

LEMMA StatusTypes ==
  ASSUME NEW ph \in Phases, NEW sh \in BOOLEAN, NEW S \in SUBSET Pods, NEW ts \in [S -> Shows]
  PROVE  [phase |-> ph, short |-> sh, targets |-> ts] \in StatusSet
BY DEF StatusSet

LEMMA ShortTypes ==
  ASSUME TypeOK
  PROVE  Short \in StatusSet
BY DEF TypeOK, Short, Phases, StatusSet

LEMMA FaultTypes ==
  ASSUME TypeOK, Fault, UNCHANGED scenario, scenario.maxFaults \in Nat
  PROVE  faults' \in 0..scenario'.maxFaults
BY DEF TypeOK, Fault

\* An update of the status, taken or refused.
LEMMA UpdateTypes ==
  ASSUME TypeOK, scenario.maxFaults \in Nat,
         NEW b \in BOOLEAN, NEW st \in StatusSet,
         \/ StatusUpdate(b, st) /\ UNCHANGED faults
         \/ StatusUpdateFails(b)
  PROVE  /\ scenario' = scenario /\ wc' \in StatusSet /\ behind' \in BOOLEAN
         /\ faults' \in 0..scenario'.maxFaults
<1>1. CASE StatusUpdate(b, st) /\ UNCHANGED faults
  BY <1>1 DEF StatusUpdate, TypeOK
<1>2. CASE StatusUpdateFails(b)
  <2>1. UNCHANGED wcVars
    BY <1>2 DEF StatusUpdateFails
  <2>2. CASE Fault
    BY <2>1, <2>2, FaultTypes DEF wcVars, TypeOK, StatusSet
  <2>3. CASE UNCHANGED faults
    BY <2>1, <2>3 DEF wcVars, TypeOK, StatusSet
  <2> QED
    BY <1>2, <2>2, <2>3 DEF StatusUpdateFails
<1> QED
  BY <1>1, <1>2

\* Leaving Reconcile() keeps the loop's variables in their types.
LEMMA LeaveTypes ==
  ASSUME Leave
  PROVE  /\ pc' \in {"idle", "loop"} /\ current' \in BOOLEAN
         /\ DOMAIN listed' \subseteq Pods /\ listed' \in [DOMAIN listed' -> Nodes]
         /\ todo' \subseteq DOMAIN listed'
         /\ inFlight' \in 0..Cardinality(Pods) /\ Counted'
<1>1. Cardinality({}) = 0 /\ Cardinality(Pods) \in Nat
  BY FS_EmptySet, FS_CardinalityType, OrchestratorAssumption
<1>2. listed' = NoList /\ todo' = {} /\ inFlight' = 0
  BY DEF Leave
<1>3. DOMAIN listed' = {} /\ listed' \in [DOMAIN listed' -> Nodes]
  BY <1>2 DEF NoList
<1> QED
  BY <1>1, <1>2, <1>3 DEF Leave, Counted

\* An agent changes the status of a child and nothing else.
LEMMA StatusOfTypes ==
  ASSUME TypeInv, NEW p \in Pods, StatusOf(p), faults' \in 0..scenario'.maxFaults
  PROVE  TypeInv'
<1>1. PICK ph \in ChildPhases, r \in BOOLEAN :
        child' = [child EXCEPT ![p].phase = ph, ![p].recorded = r]
  BY DEF StatusOf
<1>2. [child[p] EXCEPT !.phase = ph, !.recorded = r] \in Child
  <2>1. PICK a \in ChildPhases \cup {"absent"}, b \in BOOLEAN, n \in Nodes :
          child[p] = [phase |-> a, recorded |-> b, node |-> n]
    BY DEF TypeInv, TypeOK, Child
  <2>2. [child[p] EXCEPT !.phase = ph] = [phase |-> ph, recorded |-> b, node |-> n]
    BY <2>1
  <2>3. [[phase |-> ph, recorded |-> b, node |-> n] EXCEPT !.recorded = r]
          = [phase |-> ph, recorded |-> r, node |-> n]
    OBVIOUS
  <2>4. [child[p] EXCEPT !.phase = ph, !.recorded = r] = [phase |-> ph, recorded |-> r, node |-> n]
    BY <2>2, <2>3
  <2> QED
    BY <2>4 DEF Child
<1>3. child' = [child EXCEPT ![p] = [child[p] EXCEPT !.phase = ph, !.recorded = r]]
  BY <1>1 DEF TypeInv, TypeOK
<1>4. child' \in [Pods -> Child]
  BY <1>2, <1>3 DEF TypeInv, TypeOK
<1> QED
  BY <1>4 DEF StatusOf, TypeInv, TypeOK, Counted, podVars, wcVars, loopVars

LEMMA TypeInit == Init => TypeInv
<1> SUFFICES ASSUME Init PROVE TypeInv
  OBVIOUS
<1>1. AnyNode \in Nodes
  BY OrchestratorAssumption DEF AnyNode
<1>2. scenario \in Scenario /\ scenario.nodes \subseteq Nodes /\ scenario.maxEvents \in Nat
      /\ scenario.maxFaults \in Nat
  BY OrchestratorAssumption DEF Init, Scenario
<1>3. pod \in [Pods -> Pod] /\ podCache \in [Pods -> Pod]
  <2>1. {NoPod} \cup [up : {TRUE}, node : scenario.nodes] \subseteq Pod
    <3>1. NoPod \in Pod
      BY <1>1 DEF Pod, NoPod
    <3>2. [up : {TRUE}, node : scenario.nodes] \subseteq Pod
      BY <1>2 DEF Pod
    <3> QED
      BY <3>1, <3>2
  <2> QED
    BY <2>1 DEF Init
<1>4. child \in [Pods -> Child] /\ childCache \in [Pods -> Child]
  BY <1>1 DEF Init, Child, ChildPhases, NoChild
<1>5. wc \in [phase : Phases, short : BOOLEAN, targets : UNION {[T -> Shows] : T \in SUBSET Pods}]
  <2>1. NoTargets \in [{} -> Shows]
    BY DEF NoTargets
  <2> QED
    BY <2>1, StatusTypes DEF Init, Phases, StatusSet
<1>6. DOMAIN listed = {} /\ listed \in [DOMAIN listed -> Nodes]
  BY DEF Init, NoList
<1>7. Cardinality({}) = 0 /\ Cardinality(Pods) \in Nat
  BY FS_EmptySet, FS_CardinalityType, OrchestratorAssumption
<1>8. inFlight \in 0..Cardinality(Pods) /\ Counted
  BY <1>7 DEF Init, Counted
<1>9. events \in 0..scenario.maxEvents /\ faults \in 0..scenario.maxFaults
  BY <1>2 DEF Init
<1> QED
  BY <1>3, <1>4, <1>5, <1>6, <1>8, <1>9 DEF Init, TypeInv, TypeOK

LEMMA TypeStep == TypeInv /\ [Next]_vars => TypeInv'
<1> SUFFICES ASSUME TypeInv, [Next]_vars PROVE TypeInv'
  OBVIOUS
<1> USE DEF TypeInv
<1>t. scenario \in Scenario /\ scenario.nodes \subseteq Nodes /\ scenario.maxEvents \in Nat
      /\ scenario.maxFaults \in Nat
  BY OrchestratorAssumption DEF TypeOK, Scenario
<1>1. CASE UNCHANGED vars
  BY <1>1 DEF TypeOK, Counted, vars, podVars, childVars, wcVars, loopVars
<1>2. CASE Refuse
  <2> DEFINE fresh == ~behind
  <2>1. Short \in StatusSet /\ fresh \in BOOLEAN
    BY ShortTypes DEF TypeOK
  <2>2. /\ scenario' = scenario /\ wc' \in StatusSet /\ behind' \in BOOLEAN
        /\ faults' \in 0..scenario'.maxFaults
    <3>1. \/ StatusUpdate(fresh, Short) /\ UNCHANGED faults
          \/ StatusUpdateFails(fresh)
      BY <1>2 DEF Refuse, Finish
    <3> HIDE DEF fresh
    <3> QED
      BY <1>t, <2>1, <3>1, UpdateTypes
  <2>3. queue' \in BOOLEAN
    BY <1>2 DEF Refuse, Finish, StatusUpdateFails
  <2> QED
    BY <1>2, <2>2, <2>3 DEF Refuse, TypeOK, Counted, StatusSet, podVars, childVars, loopVars
<1>3. CASE ResolveFails
  <2>1. Short \in StatusSet
    BY ShortTypes
  <2>2. scenario' = scenario /\ wc' \in StatusSet /\ behind' \in BOOLEAN /\ queue' \in BOOLEAN
    BY <1>3, <2>1 DEF ResolveFails, StatusUpdate, wcVars, TypeOK, StatusSet
  <2>3. faults' \in 0..scenario'.maxFaults
    BY <1>3, <1>t, <2>2, FaultTypes DEF ResolveFails
  <2> QED
    BY <1>3, <2>2, <2>3 DEF ResolveFails, TypeOK, Counted, StatusSet, podVars, childVars, loopVars
<1>4. CASE Resolve
  <2>1. Resolved \in SUBSET Pods
    BY DEF Resolved
  <2>2. /\ DOMAIN listed' \subseteq Pods /\ listed' \in [DOMAIN listed' -> Nodes]
        /\ todo' \subseteq DOMAIN listed'
    BY <1>4, <2>1 DEF Resolve, TypeOK, Pod
  <2>3. inFlight' \in 0..Cardinality(Pods) /\ Counted'
    BY <1>4, <2>1, Bounds DEF Resolve, Counted
  <2> QED
    BY <1>4, <2>2, <2>3 DEF Resolve, TypeOK, podVars, childVars, wcVars
<1>5. CASE Aggregate
  <2> DEFINE ts == [p \in DOMAIN listed |-> Shown(p)]
             new == [phase |-> Rollup(ts), short |-> FALSE, targets |-> ts]
  <2>1. ts \in [DOMAIN listed -> Shows] /\ DOMAIN listed \in SUBSET Pods
    BY DEF TypeOK, Shown, Shows, Child
  <2>2. new \in StatusSet
    <3> HIDE DEF ts
    <3>1. Rollup(ts) \in Phases
      BY DEF Rollup, Phases, DefaultPhase
    <3> QED
      BY <3>1, <2>1, StatusTypes
  <2>3. \/ StatusUpdate(current, new) /\ UNCHANGED <<queue, faults>> /\ timer' \in BOOLEAN
        \/ StatusUpdateFails(current) /\ UNCHANGED timer
    BY <1>5 DEF Aggregate, TypeOK, Polls
  <2>4. /\ scenario' = scenario /\ wc' \in StatusSet /\ behind' \in BOOLEAN
        /\ faults' \in 0..scenario'.maxFaults
    <3> HIDE DEF new
    <3> QED
      BY <1>t, <2>2, <2>3, UpdateTypes DEF TypeOK
  <2>5. queue' \in BOOLEAN /\ timer' \in BOOLEAN
    BY <2>3 DEF StatusUpdateFails, TypeOK
  <2>6. Leave /\ UNCHANGED <<podVars, childVars>>
    BY <1>5 DEF Aggregate
  <2> HIDE DEF new
  <2> QED
    BY <2>4, <2>5, <2>6, LeaveTypes DEF TypeOK, StatusSet, podVars, childVars
<1>6. ASSUME NEW p \in Pods, Found(p) PROVE TypeInv'
  <2>1. inFlight' \in {inFlight, inFlight + 1} /\ p \in todo /\ todo' = todo \ {p}
    BY <1>6 DEF Found
  <2>2. inFlight' \in 0..Cardinality(Pods) /\ Counted'
    <3>1. todo \in SUBSET Pods
      BY DEF TypeOK
    <3>2. /\ Cardinality(todo) \in Nat /\ Cardinality(Pods) \in Nat
          /\ Cardinality(todo \ {p}) = Cardinality(todo) - 1
          /\ Cardinality(todo \ {p}) \in Nat
      BY <2>1, <3>1, Bounds
    <3>3. inFlight \in Nat
      BY <3>2 DEF TypeOK
    <3> QED
      BY <2>1, <3>2, <3>3 DEF Counted
  <2> QED
    BY <1>6, <2>1, <2>2 DEF Found, TypeOK, podVars, childVars, wcVars
<1>7. ASSUME NEW p \in Pods, Limited(p) PROVE TypeInv'
  <2>1. inFlight' \in 0..Cardinality(Pods) /\ Counted'
    BY <1>7, Bounds, FS_EmptySet DEF Limited, TypeOK, Counted
  <2> QED
    BY <1>7, <2>1 DEF Limited, TypeOK, podVars, childVars, wcVars
<1>8. ASSUME NEW p \in Pods, Create(p) PROVE TypeInv'
  <2>1. inFlight' = inFlight + 1 /\ p \in todo /\ todo' = todo \ {p}
    BY <1>8 DEF Create
  <2>2. inFlight' \in 0..Cardinality(Pods) /\ Counted'
    <3>1. todo \in SUBSET Pods
      BY DEF TypeOK
    <3>2. /\ Cardinality(todo) \in Nat /\ Cardinality(Pods) \in Nat
          /\ Cardinality(todo \ {p}) = Cardinality(todo) - 1
          /\ Cardinality(todo \ {p}) \in Nat
      BY <2>1, <3>1, Bounds
    <3>3. inFlight \in Nat
      BY <3>2 DEF TypeOK
    <3> QED
      BY <2>1, <3>2, <3>3 DEF Counted
  <2>3. [phase |-> "active", recorded |-> FALSE, node |-> listed[p]] \in Child
    BY <2>1 DEF TypeOK, Child, ChildPhases
  <2>4. child' \in [Pods -> Child]
    BY <1>8, <2>3 DEF Create, TypeOK
  <2> QED
    BY <1>8, <2>1, <2>2, <2>4 DEF Create, TypeOK, podVars, wcVars
<1>9. ASSUME NEW p \in Pods, CreateFails(p) PROVE TypeInv'
  <2>1. Leave /\ Fault /\ UNCHANGED <<podVars, childVars, wcVars, timer>> /\ queue' = TRUE
    BY <1>9 DEF CreateFails
  <2> QED
    BY <2>1, <1>t, FaultTypes, LeaveTypes DEF TypeOK, podVars, childVars, wcVars
<1>10. CASE Crash
  BY <1>10, <1>t, FaultTypes, LeaveTypes DEF Crash, TypeOK
<1>11. CASE SyncWC
  BY <1>11 DEF SyncWC, TypeOK, Counted, podVars, childVars, loopVars
<1>12. CASE SyncChildren
  BY <1>12 DEF SyncChildren, TypeOK, Counted, podVars, wcVars, loopVars, Owns
<1>13. CASE SyncPods
  BY <1>13 DEF SyncPods, TypeOK, Counted, childVars, wcVars, loopVars
<1>14. CASE TimerFires
  BY <1>14 DEF TimerFires, TypeOK, Counted, podVars, childVars, wcVars, loopVars
<1>15. ASSUME NEW p \in Pods, AgentStart(p) PROVE TypeInv'
  BY <1>15, StatusOfTypes DEF AgentStart, TypeOK, StatusOf, wcVars
<1>16. ASSUME NEW p \in Pods, AgentDone(p) PROVE TypeInv'
  BY <1>16, StatusOfTypes DEF AgentDone, TypeOK, StatusOf, wcVars
<1>17. ASSUME NEW p \in Pods, AgentFail(p) PROVE TypeInv'
  <2>1. StatusOf(p) /\ (Fault \/ UNCHANGED faults)
    BY <1>17 DEF AgentFail
  <2>2. scenario' = scenario
    BY <2>1 DEF StatusOf, wcVars
  <2>3. faults' \in 0..scenario'.maxFaults
    BY <1>t, <2>1, <2>2, FaultTypes DEF TypeOK
  <2> QED
    BY <1>t, <2>1, <2>3, StatusOfTypes
<1>18. ASSUME NEW p \in Pods, NEW n \in scenario.nodes, PodUp(p, n) PROVE TypeInv'
  BY <1>18, <1>t DEF PodUp, TypeOK, Counted, Pod, childVars, wcVars, loopVars
<1>19. ASSUME NEW p \in Pods, PodDown(p) PROVE TypeInv'
  <2>1. NoPod \in Pod
    BY OrchestratorAssumption DEF NoPod, Pod, AnyNode
  <2> QED
    BY <1>19, <1>t, <2>1 DEF PodDown, TypeOK, Counted, childVars, wcVars, loopVars
<1>20. CASE Quiet
  BY <1>20, <1>1 DEF Quiet
<1> QED
  BY <1>1, <1>2, <1>3, <1>4, <1>5, <1>6, <1>7, <1>8, <1>9, <1>10, <1>11, <1>12, <1>13, <1>14,
     <1>15, <1>16, <1>17, <1>18, <1>19, <1>20 DEF Next, Controller, Agents

\* Every variable keeps its type, and the loop never counts more children than
\* there are Pods.
THEOREM TypeCorrect == Spec => []TypeOK
<1>1. TypeInv => TypeOK
  BY DEF TypeInv
<1> QED
  BY TypeInit, TypeStep, <1>1, PTL DEF Spec

-----------------------------------------------------------------------------
(* A Completed parent                                                      *)

\* Each reader of a child's phase, from the child to the parent's status, shows
\* Completed only for a checkpoint that is recorded.
ChildSound ==
  \A p \in Pods :
    /\ child[p].phase = "Completed" => child[p].recorded
    /\ child[p].phase = "absent" => ~child[p].recorded
CacheSound == \A p \in Pods : childCache[p].phase = "Completed" => child[p].recorded
TargetsSound ==
  \A p \in DOMAIN wc.targets : wc.targets[p] = "Completed" => child[p].recorded
\* The roll-up counts what it lists, and it lists a Pod at least.
RolledUp ==
  wc.phase = "Completed" =>
    DOMAIN wc.targets # {} /\ \A p \in DOMAIN wc.targets : wc.targets[p] = "Completed"
Listed == pc = "loop" => DOMAIN listed # {}
SoundInv == ChildSound /\ CacheSound /\ TargetsSound /\ RolledUp /\ Listed

\* What is recorded stays recorded.
Kept == \A p \in Pods : child[p].recorded => child'[p].recorded

LEMMA SoundInit == Init => SoundInv
<1> SUFFICES ASSUME Init PROVE SoundInv
  OBVIOUS
<1>1. ChildSound /\ CacheSound
  BY DEF Init, NoChild, ChildSound, CacheSound
<1>2. DOMAIN wc.targets = {} /\ wc.phase = "none" /\ pc = "idle"
  BY DEF Init, NoTargets
<1> QED
  BY <1>1, <1>2 DEF SoundInv, TargetsSound, RolledUp, Listed

\* A step that changes neither the children, nor the status, nor the list of Pods.
LEMMA SoundFrame ==
  ASSUME SoundInv, UNCHANGED <<childVars, wc>>, Listed'
  PROVE  SoundInv'
BY DEF SoundInv, ChildSound, CacheSound, TargetsSound, RolledUp, childVars

\* A step that changes the children alone, as an agent or buildChild() does.
LEMMA SoundChild ==
  ASSUME TypeInv, SoundInv, Kept, ChildSound', UNCHANGED <<childCache, wc>>, Listed'
  PROVE  SoundInv'
<1>1. DOMAIN wc.targets \subseteq Pods
  BY DEF TypeInv, TypeOK
<1> QED
  BY <1>1 DEF SoundInv, Kept, CacheSound, TargetsSound, RolledUp

\* finish() and a refused update keep the targets, and say Failed or nothing new.
LEMMA SoundFinish ==
  ASSUME TypeInv, SoundInv, UNCHANGED childVars, Listed', wc' \in {wc, Short}
  PROVE  SoundInv'
<1>1. wc'.targets = wc.targets /\ wc'.phase \in {wc.phase, "Failed"}
  BY DEF TypeInv, TypeOK, Short
<1> QED
  BY <1>1 DEF SoundInv, ChildSound, CacheSound, TargetsSound, RolledUp, childVars

\* An agent says Completed only for what it has recorded, and records for good.
LEMMA SoundAgent ==
  ASSUME TypeInv, SoundInv, NEW p \in Pods, StatusOf(p),
         Status(p)!Start \/ Status(p)!Done \/ Status(p)!Fail
  PROVE  SoundInv'
<1>1. PICK ph \in ChildPhases, r \in BOOLEAN :
        child' = [child EXCEPT ![p].phase = ph, ![p].recorded = r]
  BY DEF StatusOf
<1>2. child \in [Pods -> Child]
  BY DEF TypeInv, TypeOK
<1>3. \A q \in Pods : q # p => child'[q] = child[q]
  BY <1>1, <1>2
<1>4. /\ child[p].recorded => child'[p].recorded
      /\ child'[p].phase = "Completed" => child'[p].recorded
      /\ child'[p].phase # "absent"
  BY DEF Status!Start, Status!Done, Status!Fail, SoundInv, ChildSound
<1>5. Kept /\ ChildSound'
  BY <1>3, <1>4 DEF Kept, SoundInv, ChildSound
<1>6. UNCHANGED <<childCache, wc>> /\ Listed'
  BY DEF StatusOf, wcVars, loopVars, SoundInv, Listed
<1> QED
  BY <1>5, <1>6, SoundChild

LEMMA SoundStep == TypeInv /\ SoundInv /\ [Next]_vars => SoundInv'
<1> SUFFICES ASSUME TypeInv, SoundInv, [Next]_vars PROVE SoundInv'
  OBVIOUS
<1>1. CASE UNCHANGED vars
  BY <1>1, SoundFrame DEF vars, wcVars, loopVars, SoundInv, Listed
<1>2. CASE Refuse
  <2>1. wc' \in {wc, Short}
    BY <1>2 DEF Refuse, Finish, StatusUpdate, StatusUpdateFails, wcVars
  <2>2. UNCHANGED childVars /\ Listed'
    BY <1>2 DEF Refuse, loopVars, SoundInv, Listed
  <2> QED
    BY <2>1, <2>2, SoundFinish
<1>3. CASE ResolveFails
  <2>1. wc' \in {wc, Short}
    BY <1>3 DEF ResolveFails, StatusUpdate, wcVars
  <2>2. UNCHANGED childVars /\ Listed'
    BY <1>3 DEF ResolveFails, loopVars, SoundInv, Listed
  <2> QED
    BY <2>1, <2>2, SoundFinish
<1>4. CASE Resolve
  <2>1. DOMAIN listed' # {}
    BY <1>4 DEF Resolve
  <2> QED
    BY <1>4, <2>1, SoundFrame DEF Resolve, wcVars, Listed
<1>5. CASE Aggregate
  <2> DEFINE ts == [p \in DOMAIN listed |-> Shown(p)]
             new == [phase |-> Rollup(ts), short |-> FALSE, targets |-> ts]
  <2>1. pc = "loop" /\ pc' = "idle" /\ UNCHANGED childVars /\ Listed' /\ wc' \in {wc, new}
    BY <1>5 DEF Aggregate, Leave, Listed, StatusUpdate, StatusUpdateFails, wcVars
  <2>2. CASE wc' = wc
    BY <2>1, <2>2, SoundFrame
  <2>3. CASE wc' = new
    <3>1. ts \in [DOMAIN listed -> Shows] /\ DOMAIN listed \in SUBSET Pods
      BY DEF TypeInv, TypeOK, Shown, Shows, Child
    <3>2. wc'.targets = ts /\ DOMAIN wc'.targets = DOMAIN listed /\ DOMAIN listed # {}
      BY <2>1, <2>3 DEF SoundInv, Listed
    <3>3. TargetsSound'
      BY <2>1, <3>1, <3>2 DEF TargetsSound, SoundInv, CacheSound, Shown, childVars
    <3>4. RolledUp'
      <4>1. wc'.phase = Rollup(ts)
        BY <2>3
      <4> HIDE DEF ts
      <4>2. Rollup(ts) = "Completed" => AllDone(ts)
        BY DEF Rollup, DefaultPhase
      <4> QED
        BY <3>1, <3>2, <4>1, <4>2, AllCompleted DEF RolledUp
    <3> QED
      BY <2>1, <3>3, <3>4 DEF SoundInv, ChildSound, CacheSound, childVars
  <2> QED
    BY <2>1, <2>2, <2>3
<1>6. ASSUME NEW p \in Pods, Found(p) \/ Limited(p) PROVE SoundInv'
  BY <1>6, SoundFrame DEF Found, Limited, wcVars, SoundInv, Listed
<1>7. ASSUME NEW p \in Pods, Create(p) PROVE SoundInv'
  <2>1. child \in [Pods -> Child]
    BY DEF TypeInv, TypeOK
  <2>2. \A q \in Pods : \/ child'[q] = child[q]
                        \/ child[q].phase = "absent" /\ child'[q].phase = "active"
    BY <1>7, <2>1 DEF Create
  <2>3. Kept /\ ChildSound'
    BY <2>2 DEF Kept, SoundInv, ChildSound
  <2>4. UNCHANGED <<childCache, wc>> /\ Listed'
    BY <1>7 DEF Create, wcVars, SoundInv, Listed
  <2> QED
    BY <2>3, <2>4, SoundChild
<1>8. ASSUME NEW p \in Pods, CreateFails(p) PROVE SoundInv'
  BY <1>8, SoundFrame DEF CreateFails, Leave, wcVars, Listed
<1>9. CASE Crash
  BY <1>9 DEF Crash, Leave, SoundInv, ChildSound, CacheSound, TargetsSound, RolledUp, Listed
<1>10. CASE SyncChildren
  BY <1>10 DEF SyncChildren, wcVars, loopVars, SoundInv, ChildSound, CacheSound, TargetsSound,
     RolledUp, Listed
<1>11. CASE SyncWC \/ SyncPods \/ TimerFires
  BY <1>11, SoundFrame DEF SyncWC, SyncPods, TimerFires, wcVars, loopVars, SoundInv, Listed
<1>12. ASSUME NEW p \in Pods, Agents(p) PROVE SoundInv'
  BY <1>12, SoundAgent DEF Agents, AgentStart, AgentDone, AgentFail
<1>13. ASSUME NEW p \in Pods, PodDown(p) \/ \E n \in scenario.nodes : PodUp(p, n)
       PROVE  SoundInv'
  BY <1>13, SoundFrame DEF PodUp, PodDown, wcVars, loopVars, SoundInv, Listed
<1>14. CASE Quiet
  BY <1>14, <1>1 DEF Quiet
<1> QED
  BY <1>1, <1>2, <1>3, <1>4, <1>5, <1>6, <1>7, <1>8, <1>9, <1>10, <1>11, <1>12, <1>13, <1>14
     DEF Next, Controller

\* A parent that says Completed lists a Pod at least, and the checkpoint of every
\* Pod it lists is recorded, however old the caches were that the roll-up read.
THEOREM CompletedCorrect == Spec => []CompletedSound
<1>1. TypeInv /\ SoundInv => CompletedSound
  BY DEF SoundInv, TargetsSound, RolledUp, CompletedSound
<1> QED
  BY TypeInit, TypeStep, SoundInit, SoundStep, <1>1, PTL DEF Spec

-----------------------------------------------------------------------------
(* No change is slept through                                              *)

\* While the item is not queued and no Reconcile() is under way, the status shows
\* the children as the cache has them: every change of the cache queues the item,
\* and a roll-up that is not taken queues it again.
CurrentInv ==
  pc = "idle" /\ ~queue /\ ~wc.short =>
    \A p \in DOMAIN wc.targets : wc.targets[p] = Shown(p)

\* A step after which the item is queued, Reconcile() runs or finish() has ended
\* the request.
LEMMA CurrentBusy ==
  ASSUME pc' # "idle" \/ queue' = TRUE \/ wc'.short = TRUE
  PROVE  CurrentInv'
BY DEF CurrentInv

\* A step that takes the controller no nearer to sleep and changes nothing it
\* shows or reads.
LEMMA CurrentFrame ==
  ASSUME CurrentInv, UNCHANGED <<pc, queue, wc, childCache>>
  PROVE  CurrentInv'
BY DEF CurrentInv, Shown

LEMMA CurrentStep == TypeInv /\ CurrentInv /\ [Next]_vars => CurrentInv'
<1> SUFFICES ASSUME TypeInv, CurrentInv, [Next]_vars PROVE CurrentInv'
  OBVIOUS
<1>0. Short.short = TRUE
  BY DEF TypeInv, TypeOK, Short
<1>1. CASE UNCHANGED vars
  BY <1>1, CurrentFrame DEF vars, wcVars, childVars, loopVars
<1>2. CASE Refuse
  <2>1. wc' = Short \/ queue' = TRUE
    BY <1>2 DEF Refuse, Finish, StatusUpdate, StatusUpdateFails
  <2> QED
    BY <1>0, <2>1, CurrentBusy
<1>3. CASE ResolveFails
  <2>1. wc' = Short \/ queue' = TRUE
    BY <1>3 DEF ResolveFails, StatusUpdate
  <2> QED
    BY <1>0, <2>1, CurrentBusy
<1>4. CASE Resolve
  BY <1>4, CurrentBusy DEF Resolve
<1>5. CASE Aggregate
  <2> DEFINE ts == [p \in DOMAIN listed |-> Shown(p)]
             new == [phase |-> Rollup(ts), short |-> FALSE, targets |-> ts]
  <2>1. UNCHANGED childCache /\ (wc' = new \/ queue' = TRUE)
    BY <1>5 DEF Aggregate, StatusUpdate, StatusUpdateFails, childVars
  <2>2. CASE wc' = new
    <3>1. wc'.targets = ts
      BY <2>2
    <3> QED
      BY <2>1, <3>1 DEF CurrentInv, Shown
  <2> QED
    BY <2>1, <2>2, CurrentBusy
<1>6. ASSUME NEW p \in Pods, Found(p) \/ Limited(p) \/ Create(p) PROVE CurrentInv'
  BY <1>6, CurrentBusy DEF Found, Limited, Create
<1>7. ASSUME NEW p \in Pods, CreateFails(p) PROVE CurrentInv'
  BY <1>7, CurrentBusy DEF CreateFails
<1>8. CASE Crash \/ SyncWC \/ SyncChildren \/ TimerFires
  BY <1>8, CurrentBusy DEF Crash, SyncWC, SyncChildren, Owns, TimerFires
<1>9. CASE SyncPods
  BY <1>9, CurrentFrame DEF SyncPods, wcVars, childVars, loopVars
<1>10. ASSUME NEW p \in Pods, Agents(p) PROVE CurrentInv'
  BY <1>10, CurrentFrame DEF Agents, AgentStart, AgentDone, AgentFail, StatusOf, wcVars, loopVars
<1>11. ASSUME NEW p \in Pods, PodDown(p) \/ \E n \in scenario.nodes : PodUp(p, n)
       PROVE  CurrentInv'
  BY <1>11, CurrentFrame DEF PodUp, PodDown, wcVars, childVars, loopVars
<1>12. CASE Quiet
  BY <1>12, <1>1 DEF Quiet
<1> QED
  BY <1>1, <1>2, <1>3, <1>4, <1>5, <1>6, <1>7, <1>8, <1>9, <1>10, <1>11, <1>12
     DEF Next, Controller

\* Once nothing is queued and the caches have caught up, the parent shows every
\* child as it is: no failed update, lost race or crash leaves a stale roll-up
\* behind (Owns, the returned errors of Reconcile).
THEOREM StatusSafe == Spec => []StatusCurrent
<1>1. Init => CurrentInv
  BY DEF Init, CurrentInv
<1>2. CurrentInv => StatusCurrent
  BY DEF CurrentInv, StatusCurrent
<1> QED
  BY TypeInit, TypeStep, CurrentStep, <1>1, <1>2, PTL DEF Spec

=============================================================================
