SPECIFICATION Spec
CONSTANTS
    Orders = {o1}
    Requests = {r1, r2}
    Handlers <- GuardedHandlers
    AutoAccept = TRUE
    MaxWrites = 2
SYMMETRY Symmetry
INVARIANTS TypeOK SnapshotCurrent
PROPERTIES TerminalIsFinal FollowsTheMachine
CHECK_DEADLOCK FALSE
