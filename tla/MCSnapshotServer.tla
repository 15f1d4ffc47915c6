---------------------------- MODULE MCSnapshotServer ----------------------------
(* TLC instances of SnapshotServer. *)
EXTENDS SnapshotServer
=============================================================================
