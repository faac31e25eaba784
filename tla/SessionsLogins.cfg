\* Overlapping logins of one user while sessions are used, expire and are deleted.
CONSTANTS
    Users = {u1}
    Sessions = {s1, s2, s3}
    Fingerprints = {}
    Calls = {c1}
    Logins = {l1, l2}
    SESSION_EXPIRY = 2
    IDLE_TIMEOUT = 1
    ACTIVE_UPDATE_INTERVAL = 0
    INACTIVE_RETENTION = 2
    SESSION_CACHE_TTL = 1
    MAX_CONCURRENT_SESSIONS = 2
    MaxLatency = 1
    MaxTime = 2
    RedisMayFail = FALSE
    DbMayFail = TRUE
    NoFingerprint = NoFingerprint
    NoRow = NoRow
    NoCall = NoCall
    NoLogin = NoLogin
SPECIFICATION Spec
SYMMETRY Symmetry
INVARIANTS
    SerialLoginsRespectLimit
