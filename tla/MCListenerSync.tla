----------------------------- MODULE MCListenerSync -----------------------------
(* TLC instances of ListenerSync. *)
EXTENDS ListenerSync
=============================================================================
