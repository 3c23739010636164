---------------------------- MODULE MCDataEngine ----------------------------
(***************************************************************************)
(* Small instances of DataEngine for TLC.                                  *)
(***************************************************************************)
EXTENDS DataEngine

AllSetups == Setup
Full == [async |-> TRUE, symbols |-> TRUE]
FullOnly == {Full}

=============================================================================
