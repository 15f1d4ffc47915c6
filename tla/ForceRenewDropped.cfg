SPECIFICATION Spec
CONSTANTS
    a = a
    b = b
    Replicas = {a, b}
    NoLeader = NoLeader
    Deployments <- MCLone
    BaseDelay = 1
    MaxDelay = 2
    Multiplier = 3
    MaxEdits <- MCMaxEdits
    MaxFails <- MCMaxFails
PROPERTY NeverDropsRequest
CHECK_DEADLOCK FALSE
