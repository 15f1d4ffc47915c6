----------------------------- MODULE Publication -----------------------------
(***************************************************************************)
(* What the xDS server promises to Envoy, without the counter, the gate,   *)
(* the versions and the failures it is made of.                            *)
(*                                                                         *)
(* The config of all nodes is copied at one instant.  Each node then       *)
(* either gets its part of that copy, whole and closed under references,   *)
(* or stays on what it has; it is not sent what it has already, is never   *)
(* left without a snapshot once it had one, and never gets parts of two    *)
(* copies or of a copy older than one it was given.                        *)
(***************************************************************************)
CONSTANTS
    Nodes,       \* Envoy nodes
    Closed(_)    \* does a content hold everything it refers to?

VARIABLES
    config,      \* node -> set of at most one content, as the controllers have it now
    copy,        \* node -> content of the copy the node has yet to be given
    published    \* node -> content Envoy is answered from

vars == <<config, copy, published>>

Init ==
    /\ copy = [n \in Nodes |-> {}]
    /\ published = [n \in Nodes |-> {}]

\* The controllers change the config; what a node was given stays.
Change ==
    /\ config' # config
    /\ UNCHANGED <<copy, published>>

\* A new copy replaces what is left of the last one.
Copy ==
    /\ copy' = config
    /\ UNCHANGED <<config, published>>

\* Nodes stay on what they have.
Skip(ns) ==
    /\ copy' = [n \in Nodes |-> IF n \in ns THEN {} ELSE copy[n]]
    /\ UNCHANGED <<config, published>>

\* A node is given its part of the copy, and others may lose theirs.
Give(n, ns) ==
    /\ \E s \in copy[n] : Closed(s)
    /\ published[n] # copy[n]
    /\ published' = [published EXCEPT ![n] = copy[n]]
    /\ copy' = [m \in Nodes |-> IF m = n \/ m \in ns THEN {} ELSE copy[m]]
    /\ UNCHANGED config

Next ==
    \/ Change
    \/ Copy
    \/ \E ns \in SUBSET Nodes : Skip(ns) \/ \E n \in Nodes : Give(n, ns)

Spec == Init /\ [][Next]_vars
=============================================================================
