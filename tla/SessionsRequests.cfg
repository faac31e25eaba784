\* Requests, logouts and deletions racing on one session.
CONSTANTS
    Users = {u1}
    Sessions = {s1}
    Fingerprints = {p1}
    Calls = {c1, c2}
    Logins = {l1}
    SESSION_EXPIRY = 5
    IDLE_TIMEOUT = 4
    ACTIVE_UPDATE_INTERVAL = 2
    INACTIVE_RETENTION = 5
    SESSION_CACHE_TTL = 2
    MAX_CONCURRENT_SESSIONS = 1
    MaxLatency = 1
    MaxTime = 6
    RedisMayFail = TRUE
    DbMayFail = TRUE
    NoFingerprint = NoFingerprint
    NoRow = NoRow
    NoCall = NoCall
    NoLogin = NoLogin
SPECIFICATION Spec
SYMMETRY Symmetry
PROPERTIES
    RevocationBounded
    AcceptanceBacked
    ActivityLagBounded
    ActivityRewindBounded
