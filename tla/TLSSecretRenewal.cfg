SPECIFICATION Spec
CONSTANTS
    a = a
    b = b
    Replicas = {a, b}
    NoLeader = NoLeader
    Deployments <- MCDeployments
    BaseDelay = 1
    MaxDelay = 2
    Multiplier = 3
    MaxEdits <- MCMaxEdits
    MaxFails <- MCMaxFails
INVARIANT TypeOK
PROPERTIES KeepsServing LoneKeepsRequests LoneAttemptsWait Renews
CHECK_DEADLOCK FALSE
