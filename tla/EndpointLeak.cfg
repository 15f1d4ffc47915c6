SPECIFICATION Safe
CONSTANTS
    Nodes = {n1}
    Clusters = {c1}
    Endpoints = {e1}
    Services = {e1, s1}
    RouteNames = {r1}
    OwnNames = FALSE
    MaxEdits = 2
    MaxEarly = 1
    MaxFails = 0
INVARIANT EndpointsCurrent
CHECK_DEADLOCK FALSE
