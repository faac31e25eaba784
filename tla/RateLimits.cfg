\* Three requests to two endpoints of one key, with one fault.
CONSTANTS
    Requests = {r1, r2, r3}
    Endpoints <- MCEndpoints
    Limit <- MCLimit
    WINDOW = 3
    MaxLatency = 1
    MaxTime = 6
    MaxFaults = 1
    Null = Null
SPECIFICATION Spec
SYMMETRY Symmetry
CHECK_DEADLOCK FALSE
INVARIANTS
    AdmissionBounded
    DenialIsBacked
