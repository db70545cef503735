SPECIFICATION Spec
CONSTANTS
    Workers = {w1, w2}
    Total = 2
    Stages = {"ACCEPTED", "CANCELLED", "REJECTED"}
    Faults = {"crash", "db", "stripe", "duplicate", "lost", "expire"}
    MaxFaults = 1
SYMMETRY Symmetry
INVARIANTS PaidMeansCharged RefundedMeansReturned CancelledMeansReleased ChargedMeansAccepted BookedMeansMoved
PROPERTIES ReleaseIsKept
CHECK_DEADLOCK FALSE
