SPECIFICATION Spec
CONSTANTS
    NumEvents = 2
    Instances = {i1, i2}
    JobOf <- OwnJobs
    BatchSize = 1
    MaxAttempts = 2
    Faults = {"crash", "queue", "db", "slow"}
    MaxFaults = 3
SYMMETRY Symmetry
INVARIANTS TypeOK DeadOnlyWhenExhausted ProcessedWasQueued NoDuplicateDispatch
