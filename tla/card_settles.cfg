SPECIFICATION FairSpec
CONSTANTS
    Workers = {w1, w2}
    Total = 1
    Stages = {"ACCEPTED", "REJECTED"}
    Faults = {"duplicate", "expire", "lost", "db"}
    MaxFaults = 1
PROPERTIES AcceptedIsCaptured RejectedIsReleased
CHECK_DEADLOCK FALSE
