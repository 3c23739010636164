--------------------------- MODULE MCCheckpointer ---------------------------
(***************************************************************************)
(* Small instances of Checkpointer for TLC.                                *)
(***************************************************************************)
EXTENDS Checkpointer

Default == [interception |-> TRUE, dryRun |-> FALSE, persist |-> TRUE, symbols |-> TRUE,
            shared |-> FALSE, maxFaults |-> 2]
WithoutFaults == {[Default EXCEPT !.maxFaults = 0]}

\* The default, each setting on its own, a dry run without interception, and a Pod
\* with two watchers.
One == [Default EXCEPT !.maxFaults = 1]
ManyConfigs ==
  {Default, [One EXCEPT !.symbols = FALSE], [One EXCEPT !.persist = FALSE],
   [One EXCEPT !.shared = TRUE], [One EXCEPT !.interception = FALSE], [One EXCEPT !.dryRun = TRUE],
   [One EXCEPT !.interception = FALSE, !.dryRun = TRUE]}

=============================================================================
