SPECIFICATION Spec
CONSTANTS
    s1 = s1  s2 = s2  s3 = s3  s4 = s4  n1 = n1  n2 = n2
    Nodes = {n1, n2}
    Single = {s1, s4}
    NodeOnce = {s2, s3}
    Full = {s2}
    Delta = {s3}
    NodeOf <- MCNodeOf
    MaxVersion = 2
    MaxOpened = 2
    MaxLevel = 2
SYMMETRY Alike
INVARIANTS TypeOK WatchUnderOwnNode LeaksOnlyUnanswered
PROPERTIES LoneMatchIsTrue
CHECK_DEADLOCK FALSE
