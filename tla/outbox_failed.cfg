SPECIFICATION FairSpec
CONSTANTS
    NumEvents = 1
    Instances = {i1}
    JobOf <- OwnJobs
    BatchSize = 1
    MaxAttempts = 2
    Faults = {"queue"}
    MaxFaults = 1
PROPERTY FailedIsRetried
