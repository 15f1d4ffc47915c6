SPECIFICATION Spec
CONSTANTS
    Routes = {r1}
    Listeners = {l1}
    Static = {}
    Existing = {r1}
    MaxEdits = 1
    MaxFails = 2
    CoalescedRecreate = FALSE
    LateInit = FALSE
PROPERTY Converges
CHECK_DEADLOCK FALSE
