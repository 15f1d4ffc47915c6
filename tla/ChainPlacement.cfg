SPECIFICATION Spec
CONSTANTS
    Lower <- MCLower
    Width <- MCWidth
    Partial = {"we*"}
    Routes = {1, 2, 3}
    Nodes = {0, 1}
    Default = 0
    Names = {"l1", "l2", "l3"}
    Specs <- MCSpecs
    Layouts <- MCLayouts
INVARIANTS TypeOK BuiltAcceptable ServedIsBuilt AuditAgrees
CHECK_DEADLOCK FALSE
