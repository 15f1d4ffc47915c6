SPECIFICATION Spec
CONSTANTS
    n1 = n1
    n2 = n2
    Routes = {1, 2, 3}
    Nodes = {n1, n2}
    Spreads <- MCSpreads
    Matches <- MCMatches
    Clash <- MCClash
    Statics <- MCStatics
    Starts <- MCStarts
    MaxEdits = 2
INVARIANTS TypeOK NoConflictServed OldestServed
PROPERTY Settles
CHECK_DEADLOCK FALSE
