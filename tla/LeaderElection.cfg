SPECIFICATION Spec
CONSTANTS
    Replicas = {a, b, c}
    LeaseDuration = 7
    RenewDeadline = 5
    RetryPeriod = 1
    CallTime = 1
    ShutdownTimeout = 5
    MaxMisses = 1
    MaxFaults = 3
INVARIANTS TypeOK LeaderHoldsLease AtMostOneLeader
PROPERTY LeaderEmerges
