SPECIFICATION Spec
CONSTANTS
    Nodes = {n1, n2}
    Clusters = {c1}
    Endpoints = {e1}
    Services = {e1}
    RouteNames = {r1}
    OwnNames = TRUE
    MaxEdits = 3
    MaxEarly = 1
    MaxFails = 1
INVARIANTS TypeOK ServedIsCurrent CacheClosed ClustersCurrent EndpointsCurrent
PROPERTIES Delivered Publishes
CHECK_DEADLOCK FALSE
