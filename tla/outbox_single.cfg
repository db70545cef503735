SPECIFICATION FairSpec
CONSTANTS
    NumEvents = 2
    Instances = {i1}
    JobOf <- OwnJobs
    BatchSize = 1
    MaxAttempts = 2
    Faults = {"crash", "queue", "slow", "evict"}
    MaxFaults = 4
PROPERTIES DeliversAtLeastOnce EventSettles
