SPECIFICATION FairSpec
CONSTANTS
    Providers = {p1, p2}
    NoProvider = none
    Workers = {w1, w2}
    MaxAttempts = 2
    Faults = {"crash", "orphan", "slow", "late", "timeout", "db", "staff"}
    MaxFaults = 1
INVARIANTS OneCourier BooksAgree AttemptsBounded
PROPERTIES RunSettles VerdictIsFinal
CHECK_DEADLOCK FALSE
