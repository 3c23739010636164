---------------------------- MODULE ChildStatus ----------------------------
(***************************************************************************)
(* What the status of one GPUCheckpoint promises to those who read it: the *)
(* phases the node agents give it, all of them together, and whether a     *)
(* checkpoint is recorded (LastCheckpointTime).  AgentReconciler implements *)
(* it and Orchestrator rests on it.                                        *)
(*                                                                         *)
(* No phase and Checkpointing are both "active".  Any agent that finds no  *)
(* Pod or a kind it does not know writes Failed, over whatever is there,   *)
(* and a one-shot object that has its checkpoint stays so.                 *)
(***************************************************************************)

VARIABLES
  recurring,  \* the schedule recurs (NextRun); never changes
  phase,      \* Status.Phase
  recorded    \* Status.LastCheckpointTime is set

vars == <<recurring, phase, recorded>>

Phases == {"active", "Completed", "Failed"}

TypeOK == recurring \in BOOLEAN /\ phase \in Phases /\ recorded \in BOOLEAN

Init == recurring \in BOOLEAN /\ phase = "active" /\ recorded = FALSE

\* No checkpoint was taken, or the schedule asks for the next one.
MayRun == recurring \/ ~recorded

\* An agent marks the object and starts the pipeline.
Start ==
  /\ MayRun
  /\ phase' = "active" /\ UNCHANGED <<recurring, recorded>>

\* It records the checkpoint, from Failed too when its mark was refused.
Done ==
  /\ MayRun
  /\ phase' = "Completed" /\ recorded' = TRUE /\ UNCHANGED recurring

\* fail(): what was recorded is kept.
Fail ==
  /\ phase' = "Failed" /\ UNCHANGED <<recurring, recorded>>

Next == Start \/ Done \/ Fail

Spec == Init /\ [][Next]_vars

=============================================================================
