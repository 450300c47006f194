SPECIFICATION Spec
CONSTANTS
    r1 = r1  r2 = r2  r3 = r3  r4 = r4
    Region = {r1, r2, r3, r4}
    Place <- MCPlace
    MaxServers = 4
    MaxNeeded = 16
\* A selection ends.
CHECK_DEADLOCK FALSE
INVARIANTS
    Filled
    Spread
