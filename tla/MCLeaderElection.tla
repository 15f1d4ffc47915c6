---------------------------- MODULE MCLeaderElection ----------------------------
(* TLC instances of LeaderElection; the cfg files give the constants. *)
EXTENDS LeaderElection
=============================================================================
