------------------------- MODULE MCAgentReconciler -------------------------
(***************************************************************************)
(* Small instances of AgentReconciler for TLC.                             *)
(***************************************************************************)
EXTENDS AgentReconciler

CONSTANTS n1, n2

\* A one-shot object that names its node and is edited, with a fault; a recurring
\* one that does not.
Once == [nodeInfo |-> n1, period |-> 0, specs |-> {"ok"}, maxTime |-> 0,
         maxPods |-> 1, maxFaults |-> 0]
Edited == [Once EXCEPT !.specs = {"ok", "badKind"}, !.maxFaults = 1]
Recurring ==
  [Once EXCEPT !.nodeInfo = NoNode, !.period = 2, !.specs = {"ok", "badSchedule"}, !.maxTime = 2]
\* One that names no node, and whose Pod is replaced, perhaps on the other node.
Replaced == [Once EXCEPT !.nodeInfo = NoNode, !.maxPods = 2]
OnceOnly == {Once}
Objects == {Edited, Recurring, Replaced}

=============================================================================
