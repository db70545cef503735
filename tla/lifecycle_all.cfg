SPECIFICATION Spec
CONSTANTS
    Orders = {o1}
    Requests = {r1, r2}
    Handlers <- EveryHandler
    AutoAccept = TRUE
    MaxWrites = 2
SYMMETRY Symmetry
INVARIANT AuditExplainsStatus
PROPERTIES RankNeverFalls AcceptLostOnlyByConflict
CHECK_DEADLOCK FALSE
