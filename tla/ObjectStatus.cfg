SPECIFICATION Spec
CONSTANTS
    Replicas = {r1, r2}
    Nodes = {"n1", "n2"}
    Steps = 2
    MaxEdits = 1
    MaxFails = 1
INVARIANTS TypeOK HonestStatus
PROPERTIES StatusSettles WritesStop
CHECK_DEADLOCK FALSE
