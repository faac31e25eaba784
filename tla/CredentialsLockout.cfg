\* Two logins race over the lockout counter while a reset or a change of password runs.
CONSTANTS
    Passwords = {p1, p2}
    Logins = {l1, l2}
    Requests = {q1}
    Applies = {a1}
    Changes = {c1}
    Tokens = {t1}
    Sessions = {s1}
    THRESHOLD = 2
    LOCKOUT = 1
    RESET_EXPIRY = 0
    MaxTime = 1
    MaxFaults = 1
    Null = Null
SPECIFICATION Spec
SYMMETRY Symmetry
CHECK_DEADLOCK FALSE
INVARIANTS
    GuessesBounded
    ResetRevokes
