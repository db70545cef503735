SPECIFICATION FairSpec
CONSTANTS
    Parts = {p1, p2}
    Nobody = nobody
    Workers = {w1, w2}
    Total = 2
    Faults = {"early", "decline", "twice", "whole", "crash"}
    MaxFaults = 1
INVARIANTS BankedMeansCharged PaidMeansTaken NeverOvercharged
PROPERTIES CoveredIsFreed ChargedIsBanked
CHECK_DEADLOCK FALSE
