\* Overlapping requests for reset tokens and applications of them.
CONSTANTS
    Passwords = {p1, p2}
    Logins = {}
    Requests = {q1, q2}
    Applies = {a1, a2}
    Changes = {}
    Tokens = {t1, t2, t3}
    Sessions = {}
    THRESHOLD = 1
    LOCKOUT = 1
    RESET_EXPIRY = 1
    MaxTime = 2
    MaxFaults = 1
    Null = Null
SPECIFICATION Spec
SYMMETRY Symmetry
CHECK_DEADLOCK FALSE
INVARIANTS
    LiveTokensBounded
    TokenUsesBounded
