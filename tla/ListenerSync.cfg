SPECIFICATION Safe
CONSTANTS
    Routes = {r1, r2}
    Listeners = {l1, l2}
    Static = {l2}
    Existing = {r1}
    MaxEdits = 1
    MaxFails = 1
    CoalescedRecreate = FALSE
    LateInit = FALSE
INVARIANTS TypeOK NoLostRebuild PendingIsOwed GateMatchesRoutes
CHECK_DEADLOCK FALSE
