---------------------------- MODULE MCCopyEngine ----------------------------
(***************************************************************************)
(* Small instances of CopyEngine for TLC.                                  *)
(***************************************************************************)
EXTENDS CopyEngine

\* Up to three segments: shorter than a buffer, a buffer, two buffers and a rest.
Segment == {[req |-> 2, sel |-> FALSE]} \cup [req : {1, 3, 7}, sel : {TRUE}]
SmallTables == UNION {[1..m -> Segment] : m \in 0..3}

=============================================================================
