--------------------------- MODULE MCOrchestrator ---------------------------
(***************************************************************************)
(* Small instances of Orchestrator for TLC.                                *)
(***************************************************************************)
EXTENDS Orchestrator

CONSTANTS p1, p2, n1, n2

Once == [action |-> "Checkpoint", schedule |-> "", maxConcurrent |-> 1]
Restore == [Once EXCEPT !.action = "Restore"]
Zero == [Once EXCEPT !.schedule = "zero"]
Recurring == [Once EXCEPT !.schedule = "recurring", !.maxConcurrent = 0]

Two(s, e, f) == [spec |-> s, pods |-> {p1, p2}, nodes |-> {n1},
                           maxEvents |-> e, maxFaults |-> f]
\* A single Pod that may come back on another node.
Moved(s) == [Two(s, 2, 0) EXCEPT !.pods = {p1}, !.nodes = {n1, n2}]

TwoAtOnce == {Two(Once, 0, 0)}
Several ==
  {Two(Once, 1, 0), Two(Once, 0, 1), Two(Restore, 0, 1), Two(Zero, 1, 0), Moved(Zero),
   Two(Recurring, 0, 0), Moved(Recurring)}

=============================================================================
