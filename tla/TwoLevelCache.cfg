\* Three calls and two invalidations in two processes, over the longest life of an answer.
CONSTANTS
    Calls = {c1, c2, c3}
    Invalidations = {i1, i2}
    Processes = {p, q}
    TTL = 1
    L1_CAP = 1
    HIT_TTL = 1
    LATENCY = 1
    MaxTime = 5
    MaxVersion = 1
    MaxFaults = 1
    None = None
SPECIFICATION Spec
SYMMETRY Symmetry
CONSTRAINT Bounded
CHECK_DEADLOCK FALSE
INVARIANTS
    StaleOnlyIfRaced
PROPERTY
    BoundsStaleness
