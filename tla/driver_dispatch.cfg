SPECIFICATION FairSpec
CONSTANTS
    Orders = {o1, o2}
    Drivers = {d1}
    NoDriver = noDriver
    Workers = {w1, w2}
    Faults = {"overlap", "stale", "push", "crash"}
    MaxFaults = 1
INVARIANT DispatchAgrees
PROPERTIES FinishedStaysFinished FreedMeansDone StrandedIsSettled
CHECK_DEADLOCK FALSE
