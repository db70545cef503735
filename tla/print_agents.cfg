SPECIFICATION FairSpec
CONSTANTS
    Jobs = {j1, j2}
    Orders = {{j1, j2}}
    Agents = {a1, a2}
    Ticks = {}
    MaxRetries = 2
    Parts = {"agent"}
    Faults = {"send", "torn", "crash"}
    MaxFaults = 3
INVARIANT HeldIsReleasable
PROPERTIES DeliversTickets JobSettles
CHECK_DEADLOCK FALSE
