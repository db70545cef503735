SPECIFICATION Spec
CONSTANTS
    Jobs = {j1, j2}
    Orders = {{j1, j2}}
    Agents = {a1, a2}
    Ticks = {t1, t2}
    MaxRetries = 2
    Parts = {"agent", "direct", "tablet", "operator"}
    Faults = {"send", "torn", "slow", "lost", "crash", "db"}
    MaxFaults = 1
SYMMETRY Symmetry
INVARIANTS NoDuplicatePaper PrintedMeansPaper
CHECK_DEADLOCK FALSE
