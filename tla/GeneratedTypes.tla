----------------------------- MODULE GeneratedTypes -----------------------------
(***************************************************************************)
(* The structs of the custom resources, as tools/typegen wrote them, and   *)
(* what a deep copy of a resource shares with its original.                *)
(*                                                                         *)
(* Every read from an informer's cache returns a deep copy, so whatever a  *)
(* copy shares is shared with the cache and with every other reader.  A    *)
(* behaviour walks down one resource, from its spec through references to  *)
(* nested structs, beside the same walk in a copy of it.                   *)
(***************************************************************************)
EXTENDS EdsTypes, LdsTypes, RdsTypes, CdsTypes, HcmTypes, FiniteSets

\* The generated packages; a RawExtension refers to nothing.
Types ==
    [eds |-> EdsTypesAll, lds |-> LdsTypesAll, rds |-> RdsTypesAll,
     cds |-> CdsTypesAll, hcm |-> HcmTypesAll]

Packages == DOMAIN Types

\* The spec of each kind: one generated struct, or, for a Route, the embedded
\* HCM, the inline route_config and the filter_chain_match.
Roots ==
    [endpoint |-> {<<"eds", "EDS">>}, cluster |-> {<<"cds", "CDS">>},
     listener |-> {<<"lds", "LDS">>},
     route |-> {<<"hcm", "HCM">>, <<"rds", "RDS">>, <<"lds", "FilterChainMatch">>}]

VARIABLES
    kind,    \* the kind of the resource
    pkg,     \* the package of the struct reached
    type,    \* the struct reached
    depth,   \* references followed so far
    shared   \* is it the same memory in the copy and in the original?

vars == <<kind, pkg, type, depth, shared>>

\* The spec itself is copied by value.
Init ==
    /\ kind \in DOMAIN Roots
    /\ \E root \in Roots[kind] : pkg = root[1] /\ type = root[2]
    /\ depth = 0
    /\ shared = FALSE

\* One reference down; what is below shared memory is shared.
Follow(form) ==
    /\ type # Raw
    /\ \E target \in Types[pkg][type][form] :
         /\ type' = target
         /\ shared' = (shared \/ SharesTarget(pkg, form, target))
    /\ depth' = depth + 1
    /\ UNCHANGED <<kind, pkg>>

Next == \E form \in Forms : Follow(form)

Spec == Init /\ [][Next]_vars

-----------------------------------------------------------------------------

\* No resource nests without end: the Envoy messages are recursive (a filter of
\* filters, a matcher of matchers) and a CRD schema cannot be, so every cycle
\* must have been cut by replaceRecursiveTypes, which only looks three
\* references ahead and visits the types in random order.
NestingEnds == depth < Cardinality(DOMAIN Types[pkg])

\* Two readers of a Listener or of a Route share no struct, only the bytes of
\* RawExtensions.  For an Endpoint or a Cluster it is the named endpoints, whose
\* map is copied with its pointers, and what is below them.
CopiesShareOnlyPayloads ==
    shared /\ type # Raw => kind \in {"endpoint", "cluster"}
=============================================================================
