------------------------------- MODULE Sessions -------------------------------
(***************************************************************************)
(* The session service: lib/services/session.service.ts and the places     *)
(* that delete session rows behind its back.                               *)
(*                                                                         *)
(* A session lives twice: as a row of the table Session (Postgres) and,    *)
(* for SESSION_CACHE_TTL after a successful validation, as a Redis entry   *)
(* that later requests accept without looking at the row.  Every await of  *)
(* the service is a step boundary here: requests, logins, logouts, bulk    *)
(* deletions and the clean-up jobs interleave between any two of them.     *)
(*                                                                         *)
(* Time is the discrete clock now.  The three durations of the service and *)
(* its cache TTL are constants.  MaxLatency bounds how long one call of    *)
(* validateSession may take; the code sets no such limit, which is why     *)
(* everything below is stated (and proved) for every value of it.          *)
(***************************************************************************)
EXTENDS Integers, FiniteSets

CONSTANTS
    Users,                     \* rows of User
    Sessions,                  \* session tokens that can ever be issued
    Fingerprints,                    \* User-Agent + /24 fingerprints
    Calls,                     \* concurrent requests carrying a session cookie
    Logins,                    \* concurrent executions of createSession
    SESSION_EXPIRY,            \* 7 days
    IDLE_TIMEOUT,              \* 30 minutes
    ACTIVE_UPDATE_INTERVAL,    \* 60 seconds
    INACTIVE_RETENTION,        \* 30 days, the clean-up job
    SESSION_CACHE_TTL,         \* 5 seconds
    MAX_CONCURRENT_SESSIONS,   \* 5
    MaxLatency,                \* longest validateSession call
    MaxTime,                   \* bound on the clock
    RedisMayFail,              \* Redis unreachable, or no client (getRedis)
    DbMayFail,                 \* a Prisma call throws
    NoFingerprint,                   \* a request without User-Agent; a null column
    NoRow, NoCall, NoLogin     \* absent row, idle request, idle login

ASSUME DurationsAreNaturals ==
    /\ SESSION_EXPIRY \in Nat
    /\ IDLE_TIMEOUT \in Nat
    /\ ACTIVE_UPDATE_INTERVAL \in Nat
    /\ INACTIVE_RETENTION \in Nat
    /\ SESSION_CACHE_TTL \in Nat \ {0}
    /\ MaxLatency \in Nat
    /\ MaxTime \in Nat

ASSUME LimitIsPositive == MAX_CONCURRENT_SESSIONS \in Nat \ {0}

ASSUME FaultSwitches == RedisMayFail \in BOOLEAN /\ DbMayFail \in BOOLEAN

\* What a User-Agent header may hash to.
Fingerprint == Fingerprints \cup {NoFingerprint}

Row == [user: Users, print: Fingerprint, expiresAt: Nat, lastActive: Nat]

\* A request: which endpoint family it is, the token and fingerprint it carries, its
\* local variables (the row it read, the "now" of its checks) and when it began.
Call == [pc: {"get", "read", "check", "drop", "touch", "fill", "delete", "flush"},
         op: {"request", "logout"},
         s: Sessions, print: Fingerprint,
         seen: Row \cup {NoRow}, at: Nat, since: Nat]

Login == [pc: {"count", "evict", "insert"},
          user: Users, print: Fingerprint, expiresAt: Nat, victims: SUBSET Sessions]

ASSUME AbsentValues == NoRow \notin Row /\ NoCall \notin Call /\ NoLogin \notin Login

VARIABLES
    now,          \* the clock
    row,          \* the table Session
    cacheUntil,   \* Redis: when the entry session:v1:<hash> expires (0: no entry)
    issued,       \* tokens createSession has handed out
    call,         \* requests in flight
    login,        \* executions of createSession in flight
    \* History variables: written, never read, by the actions.
    deletedAt,    \* when the row was last deleted
    passed,       \* when the checks on the row last all passed
    raced         \* users for whom two logins overlapped or an eviction failed

dbVars == <<row, issued, deletedAt>>
historyVars == <<passed>>
vars == <<now, dbVars, cacheUntil, call, login, historyVars, raced>>

TypeOK ==
    /\ now \in Nat
    /\ row \in [Sessions -> Row \cup {NoRow}]
    /\ cacheUntil \in [Sessions -> Nat]
    /\ issued \in SUBSET Sessions
    /\ call \in [Calls -> Call \cup {NoCall}]
    /\ login \in [Logins -> Login \cup {NoLogin}]
    /\ deletedAt \in [Sessions -> Nat]
    /\ passed \in [Sessions -> Nat]
    /\ raced \in SUBSET Users

Init ==
    /\ now = 0
    /\ row = [s \in Sessions |-> NoRow]
    /\ cacheUntil = [s \in Sessions |-> 0]
    /\ issued = {}
    /\ call = [c \in Calls |-> NoCall]
    /\ login = [l \in Logins |-> NoLogin]
    /\ deletedAt = [s \in Sessions |-> 0]
    /\ passed = [s \in Sessions |-> 0]
    /\ raced = {}

-----------------------------------------------------------------------------
(* Helpers *)

CallAt(c, pc) == call[c] # NoCall /\ call[c].pc = pc
LoginAt(l, pc) == login[l] # NoLogin /\ login[l].pc = pc

\* A call between the first await of validateSession and its return.
Validating(c) == call[c] # NoCall /\ call[c].pc \in {"get", "read", "check", "drop", "touch", "fill"}

CacheLive(s) == now < cacheUntil[s]

\* session.expiresAt <= now and lastActive < now - IDLE.
Expired(r) == r.expiresAt <= now
Idle(r) == r.lastActive < now - IDLE_TIMEOUT

\* fingerprintFromRequest against the stored column; a null column is not checked.
PrintMatches(r, print) == r.print = NoFingerprint \/ r.print = print

ActiveRows(u) == {s \in Sessions : row[s] # NoRow /\ row[s].user = u /\ ~Expired(row[s])}

\* Every deletion of rows goes through here; deletedAt is history.
DeleteRows(S) ==
    /\ row' = [s \in Sessions |-> IF s \in S THEN NoRow ELSE row[s]]
    /\ deletedAt' = [s \in Sessions |-> IF s \in S /\ row[s] # NoRow THEN now ELSE deletedAt[s]]

\* validateSession returns: an ordinary request is over, a logout goes on to revoke.
Finish(c) ==
    call' = [call EXCEPT ![c] =
        IF @.op = "logout"
        THEN [@ EXCEPT !.pc = "delete", !.seen = NoRow, !.at = 0, !.since = 0]
        ELSE NoCall]

Advance(c, pc) == call' = [call EXCEPT ![c].pc = pc]

-----------------------------------------------------------------------------
(* validateSession, and the logout handler that calls it before revokeSession *)

Begin(c, s, print, op) ==
    /\ call[c] = NoCall
    /\ s \in issued
    /\ call' = [call EXCEPT ![c] =
           [pc |-> "get", op |-> op, s |-> s, print |-> print,
            seen |-> NoRow, at |-> 0, since |-> now]]
    /\ UNCHANGED <<now, dbVars, cacheUntil, login, historyVars, raced>>

\* redis.get returned an entry: accepted, with no look at expiry, idleness or fingerprint.
CacheHitSliding(c) ==
    /\ CallAt(c, "get")
    /\ CacheLive(call[c].s)
    /\ Finish(c)
    /\ cacheUntil' = [cacheUntil EXCEPT ![call[c].s] = now + SESSION_CACHE_TTL]
    /\ UNCHANGED <<now, dbVars, login, historyVars, raced>>
CacheHit(c) ==
    /\ CallAt(c, "get")
    /\ CacheLive(call[c].s)
    /\ Finish(c)
    /\ UNCHANGED <<now, dbVars, cacheUntil, login, historyVars, raced>>

\* No entry, no client, or redis.get threw: fall through to the database.
CacheMiss(c) ==
    /\ CallAt(c, "get")
    /\ ~CacheLive(call[c].s) \/ RedisMayFail
    /\ Advance(c, "read")
    /\ UNCHANGED <<now, dbVars, cacheUntil, login, historyVars, raced>>

\* session.findUnique.  A null row and a throw both end in err.
DbRead(c) ==
    /\ CallAt(c, "read")
    /\ \/ /\ row[call[c].s] # NoRow
          /\ call' = [call EXCEPT ![c].pc = "check", ![c].seen = row[call[c].s]]
       \/ /\ row[call[c].s] = NoRow \/ DbMayFail
          /\ Finish(c)
    /\ UNCHANGED <<now, dbVars, cacheUntil, login, historyVars, raced>>

\* The synchronous block after the read, on the snapshot and this instant's clock.
CheckThrottlesByTimeout(c) ==
    LET r == call[c].seen IN
    /\ CallAt(c, "check")
    /\ IF Expired(r) \/ Idle(r) THEN Advance(c, "drop") /\ UNCHANGED historyVars
       ELSE IF ~PrintMatches(r, call[c].print) THEN Finish(c) /\ UNCHANGED historyVars
       ELSE /\ call' = [call EXCEPT ![c].at = now, ![c].seen = NoRow,
                  ![c].pc = IF now - r.lastActive > IDLE_TIMEOUT THEN "touch" ELSE "fill"]
            /\ passed' = [passed EXCEPT ![call[c].s] = now]
    /\ UNCHANGED <<now, dbVars, cacheUntil, login, raced>>
Check(c) ==
    LET r == call[c].seen IN
    /\ CallAt(c, "check")
    /\ IF Expired(r) \/ Idle(r) THEN Advance(c, "drop") /\ UNCHANGED historyVars
       ELSE IF ~PrintMatches(r, call[c].print) THEN Finish(c) /\ UNCHANGED historyVars
       ELSE /\ call' = [call EXCEPT ![c].at = now, ![c].seen = NoRow,
                  ![c].pc = IF now - r.lastActive > ACTIVE_UPDATE_INTERVAL
                            THEN "touch" ELSE "fill"]
            /\ passed' = [passed EXCEPT ![call[c].s] = now]
    /\ UNCHANGED <<now, dbVars, cacheUntil, login, raced>>

\* session.delete({id}).catch(() => {}): by id, whatever the row holds by now.
Drop(c) ==
    /\ CallAt(c, "drop")
    /\ \/ DeleteRows({call[c].s})
       \/ DbMayFail /\ UNCHANGED <<row, deletedAt>>
    /\ Finish(c)
    /\ UNCHANGED <<now, issued, cacheUntil, login, historyVars, raced>>

\* session.update throws when the row is gone: the request is rejected.
TouchTruncated(c) ==
    LET s == call[c].s IN
    /\ CallAt(c, "touch")
    /\ row[s] # NoRow
    /\ row' = [row EXCEPT ![s].lastActive =
           (call[c].at \div ACTIVE_UPDATE_INTERVAL) * ACTIVE_UPDATE_INTERVAL]
    /\ Advance(c, "fill")
    /\ UNCHANGED <<now, issued, deletedAt, cacheUntil, login, historyVars, raced>>
Touch(c) ==
    LET s == call[c].s IN
    /\ CallAt(c, "touch")
    /\ \/ /\ row[s] # NoRow
          /\ row' = [row EXCEPT ![s].lastActive = call[c].at]
          /\ Advance(c, "fill")
       \/ /\ row[s] = NoRow \/ DbMayFail
          /\ Finish(c)
          /\ UNCHANGED row
    /\ UNCHANGED <<now, issued, deletedAt, cacheUntil, login, historyVars, raced>>

\* redis.set(..., "EX", SESSION_CACHE_TTL), best effort; then ok(result).
CacheFill(c) ==
    LET s == call[c].s IN
    /\ CallAt(c, "fill")
    /\ \/ cacheUntil' = [cacheUntil EXCEPT ![s] = now + SESSION_CACHE_TTL]
       \/ RedisMayFail /\ UNCHANGED cacheUntil
    /\ Finish(c)
    /\ UNCHANGED <<now, dbVars, login, historyVars, raced>>

\* revokeSession, first await: deleteMany by token.  A throw skips the cache deletion.
RevokeRow(c) ==
    /\ CallAt(c, "delete")
    /\ \/ DeleteRows({call[c].s}) /\ Advance(c, "flush")
       \/ DbMayFail /\ call' = [call EXCEPT ![c] = NoCall] /\ UNCHANGED <<row, deletedAt>>
    /\ UNCHANGED <<now, issued, cacheUntil, login, historyVars, raced>>

\* revokeSession, second await: redis.del, best effort.
RevokeFlush(c) ==
    /\ CallAt(c, "flush")
    /\ \/ cacheUntil' = [cacheUntil EXCEPT ![call[c].s] = 0]
       \/ RedisMayFail /\ UNCHANGED cacheUntil
    /\ call' = [call EXCEPT ![c] = NoCall]
    /\ UNCHANGED <<now, dbVars, login, historyVars, raced>>

-----------------------------------------------------------------------------
(* createSession.  Bound: no login begins unless a token is left for it. *)

BeginLogin(l, u, print) ==
    /\ login[l] = NoLogin
    /\ Cardinality({k \in Logins : login[k] # NoLogin}) < Cardinality(Sessions \ issued)
    /\ login' = [login EXCEPT ![l] =
           [pc |-> "count", user |-> u, print |-> print,
            expiresAt |-> now + SESSION_EXPIRY, victims |-> {}]]
    /\ UNCHANGED <<now, dbVars, cacheUntil, call, historyVars, raced>>

EndLogin(l) == login' = [login EXCEPT ![l] = NoLogin]

\* A login that has counted the user's sessions and not yet inserted its own.
Counted(l) == LoginAt(l, "evict") \/ LoginAt(l, "insert")

\* There is another one of the same user.
Overlaps(l) == \E k \in Logins \ {l} : Counted(k) /\ login[k].user = login[l].user

\* session.findMany of the unexpired rows, least recently active first.
CountActiveOffByOne(l) ==
    LET active == ActiveRows(login[l].user) IN
    /\ LoginAt(l, "count")
    /\ \/ /\ Cardinality(active) <= MAX_CONCURRENT_SESSIONS
          /\ login' = [login EXCEPT ![l].pc = "insert"]
       \/ /\ Cardinality(active) > MAX_CONCURRENT_SESSIONS
          /\ \E oldest \in active :
               /\ \A s \in active : row[oldest].lastActive <= row[s].lastActive
               /\ login' = [login EXCEPT ![l].pc = "evict", ![l].victims = {oldest}]
    /\ raced' = IF Overlaps(l) THEN raced \cup {login[l].user} ELSE raced
    /\ UNCHANGED <<now, dbVars, cacheUntil, call, historyVars>>
CountActive(l) ==
    LET active == ActiveRows(login[l].user) IN
    /\ LoginAt(l, "count")
    /\ \/ /\ Cardinality(active) < MAX_CONCURRENT_SESSIONS
          /\ login' = [login EXCEPT ![l].pc = "insert"]
       \/ /\ Cardinality(active) >= MAX_CONCURRENT_SESSIONS
          /\ \E oldest \in active :
               /\ \A s \in active : row[oldest].lastActive <= row[s].lastActive
               /\ login' = [login EXCEPT ![l].pc = "evict", ![l].victims = {oldest}]
    /\ raced' = IF Overlaps(l) THEN raced \cup {login[l].user} ELSE raced
    /\ UNCHANGED <<now, dbVars, cacheUntil, call, historyVars>>

\* session.delete(oldest).catch(() => {}): one row, and a failure goes unnoticed.
Evict(l) ==
    /\ LoginAt(l, "evict")
    /\ \/ DeleteRows(login[l].victims) /\ UNCHANGED raced
       \/ /\ DbMayFail
          /\ raced' = raced \cup {login[l].user}
          /\ UNCHANGED <<row, deletedAt>>
    /\ login' = [login EXCEPT ![l].pc = "insert", ![l].victims = {}]
    /\ UNCHANGED <<now, issued, cacheUntil, call, historyVars>>

\* session.create; lastActiveAt defaults to the database's now().
Insert(l) ==
    /\ LoginAt(l, "insert")
    /\ \E s \in Sessions \ issued :
         /\ row' = [row EXCEPT ![s] = [user |-> login[l].user, print |-> login[l].print,
                        expiresAt |-> login[l].expiresAt, lastActive |-> now]]
         /\ issued' = issued \cup {s}
    /\ EndLogin(l)
    /\ UNCHANGED <<now, deletedAt, cacheUntil, call, historyVars, raced>>

\* A Prisma call of createSession throws: err, and nothing is undone.
LoginFails(l) ==
    /\ DbMayFail
    /\ LoginAt(l, "count") \/ LoginAt(l, "insert")
    /\ EndLogin(l)
    /\ UNCHANGED <<now, dbVars, cacheUntil, call, historyVars, raced>>

-----------------------------------------------------------------------------
(* Rows deleted by others; none of these touches the cache *)

\* revokeAllUserSessions, the transactions of a password reset and of an account
\* deletion (nothing kept), and of a password change (the caller's session kept).
BulkDelete(u, kept) ==
    /\ DeleteRows({s \in Sessions \ kept : row[s] # NoRow /\ row[s].user = u})
    /\ UNCHANGED <<now, issued, cacheUntil, call, login, historyVars, raced>>

LongExpired(s) == row[s] # NoRow /\ row[s].expiresAt < now
Inactive(s, retention) == row[s] # NoRow /\ row[s].lastActive < now - retention

\* The two statements of the clean-up job, and of scripts/data-retention.ts; either may fail
\* without the other.
DeleteExpired ==
    /\ DeleteRows({s \in Sessions : LongExpired(s)})
    /\ UNCHANGED <<now, issued, cacheUntil, call, login, historyVars, raced>>
DeleteInactive ==
    /\ DeleteRows({s \in Sessions : Inactive(s, INACTIVE_RETENTION)})
    /\ UNCHANGED <<now, issued, cacheUntil, call, login, historyVars, raced>>

\* scripts/cleanup-sessions.ts, with the idle timeout.
CleanupScript ==
    /\ DeleteRows({s \in Sessions : LongExpired(s) \/ Inactive(s, IDLE_TIMEOUT)})
    /\ UNCHANGED <<now, issued, cacheUntil, call, login, historyVars, raced>>

\* No call of validateSession outlives MaxLatency.  Redis drops entries as they expire.
Tick ==
    /\ now < MaxTime
    /\ \A c \in Calls : Validating(c) => now < call[c].since + MaxLatency
    /\ now' = now + 1
    /\ cacheUntil' = [s \in Sessions |-> IF cacheUntil[s] <= now' THEN 0 ELSE cacheUntil[s]]
    /\ UNCHANGED <<dbVars, call, login, historyVars, raced>>

-----------------------------------------------------------------------------

CallStep(c) ==
    \/ \E s \in Sessions, print \in Fingerprint, op \in {"request", "logout"} : Begin(c, s, print, op)
    \/ CacheHit(c)
    \/ CacheMiss(c)
    \/ DbRead(c)
    \/ Check(c)
    \/ Drop(c)
    \/ Touch(c)
    \/ CacheFill(c)
    \/ RevokeRow(c)
    \/ RevokeFlush(c)

LoginStep(l) ==
    \/ \E u \in Users, print \in Fingerprint : BeginLogin(l, u, print)
    \/ CountActive(l)
    \/ Evict(l)
    \/ Insert(l)
    \/ LoginFails(l)

Next ==
    \/ \E c \in Calls : CallStep(c)
    \/ \E l \in Logins : LoginStep(l)
    \/ \E u \in Users, kept \in {{}} \cup {{s} : s \in Sessions} : BulkDelete(u, kept)
    \/ DeleteExpired
    \/ DeleteInactive
    \/ CleanupScript
    \/ Tick

Spec == Init /\ [][Next]_vars

-----------------------------------------------------------------------------
(* What the proofs rest on *)

\* The call has read the row and may still accept on the strength of that read.
HoldsRow(c) == CallAt(c, "check") \/ CallAt(c, "touch") \/ CallAt(c, "fill")

IssuedOnly ==
    \A s \in Sessions : s \notin issued => row[s] = NoRow /\ cacheUntil[s] = 0

CallsOnTime ==
    \A c \in Calls : Validating(c) =>
        /\ call[c].s \in issued
        /\ call[c].since <= now
        /\ now <= call[c].since + MaxLatency

\* Of a deleted row, nothing outlives the deletion by more than the bound: neither the
\* cache entry nor a validation that read the row before it went.
DeletedInv ==
    /\ \A s \in Sessions : cacheUntil[s] <= now + SESSION_CACHE_TTL
    /\ \A s \in issued : row[s] = NoRow =>
         cacheUntil[s] <= deletedAt[s] + MaxLatency + SESSION_CACHE_TTL
    /\ \A c \in Calls : HoldsRow(c) /\ row[call[c].s] = NoRow =>
         call[c].since <= deletedAt[call[c].s]

\* Likewise for the last time the checks passed.
PassedInv ==
    /\ \A s \in Sessions : cacheUntil[s] <= passed[s] + MaxLatency + SESSION_CACHE_TTL
    /\ \A c \in Calls : CallAt(c, "touch") \/ CallAt(c, "fill") =>
         call[c].since <= passed[call[c].s]

\* The inductive invariant behind RevocationBounded and AcceptanceBacked: whatever may
\* still be accepted (a cache entry, a validation past its read) is young enough.
StalenessInv == IssuedOnly /\ CallsOnTime /\ DeletedInv /\ PassedInv

\* How far the lastActiveAt of a row may trail the beginning of a validation that accepts it:
\* by the interval its write is throttled to or, when validations take longer than that, by
\* what another one brings it back to.
UpdateLag == IF MaxLatency > ACTIVE_UPDATE_INTERVAL THEN MaxLatency ELSE ACTIVE_UPDATE_INTERVAL

\* The invariant behind the properties of lastActiveAt.  The row a validation has read may be
\* written by another in the meantime, with a clock at most one validation old.
RowActivity ==
    \A s \in Sessions : row[s] # NoRow =>
        /\ row[s].lastActive <= now
        /\ cacheUntil[s] <= row[s].lastActive + UpdateLag + MaxLatency + SESSION_CACHE_TTL
CallActivity ==
    \A c \in Calls :
        /\ CallAt(c, "check") => call[c].seen # NoRow
        /\ CallAt(c, "touch") => call[c].since <= call[c].at /\ call[c].at <= now
        /\ HoldsRow(c) /\ row[call[c].s] # NoRow =>
             LET active == row[call[c].s].lastActive IN
             /\ CallAt(c, "check") =>
                  active >= call[c].seen.lastActive \/ active + UpdateLag >= call[c].since
             /\ CallAt(c, "fill") => active + UpdateLag >= call[c].since
ActivityInv == RowActivity /\ CallActivity

-----------------------------------------------------------------------------
(* Properties *)

\* validateSession returns ok in this step: a cache hit, or the end of a full validation.
Accepts(c) ==
    /\ CallAt(c, "get") \/ CallAt(c, "fill")
    /\ call'[c] = NoCall \/ call'[c].pc = "delete"

\* However a row was deleted (logout, eviction, bulk deletion, clean-up, expiry), its token
\* is not accepted later than one validation plus one cache lifetime after the deletion.
\* An in-flight validateSession may write the cache entry again after the deletion, so the
\* cache lifetime alone is not enough.
RevocationBounded ==
    [][\A c \in Calls : Accepts(c) /\ row[call[c].s] = NoRow
        => now <= deletedAt[call[c].s] + MaxLatency + SESSION_CACHE_TTL]_vars

\* Every acceptance, cached or not, stands on a check of expiry, idleness and fingerprint
\* that passed at most one validation plus one cache lifetime earlier.
AcceptanceBacked ==
    [][\A c \in Calls : Accepts(c)
        => now <= passed[call[c].s] + MaxLatency + SESSION_CACHE_TTL]_vars

\* lastActiveAt lags the acceptance of a request by a bounded time, although it is written
\* at most once a minute, never on a cache hit, and out of order by concurrent requests: a
\* user accepted within the idle timeout less this lag is not timed out as idle.
ActivityLagBounded ==
    [][\A c \in Calls : Accepts(c) /\ row[call[c].s] # NoRow
        => now <= row[call[c].s].lastActive + UpdateLag + MaxLatency + SESSION_CACHE_TTL]_vars

\* lastActiveAt may move backwards (two validations write in the opposite order of their
\* clocks), and never by more than one validation's duration.
ActivityRewindBounded ==
    [][\A s \in Sessions : row[s] # NoRow /\ row'[s] # NoRow
            => row'[s].lastActive >= row[s].lastActive - MaxLatency]_vars

\* As long as the user's logins do not overlap and no eviction fails, the number of
\* unexpired sessions stays within the limit, whatever requests and deletions interleave.
SerialLoginsRespectLimit ==
    \A u \in Users \ raced : Cardinality(ActiveRows(u)) <= MAX_CONCURRENT_SESSIONS

\* The invariant behind it: of the users whose logins do not overlap, at most one login has
\* counted, and what it will have left of the sessions leaves room for one more.
Spared(l) == ActiveRows(login[l].user) \ (IF LoginAt(l, "evict") THEN login[l].victims ELSE {})
LimitInv ==
    /\ IsFiniteSet(issued)
    /\ SerialLoginsRespectLimit
    /\ \A l \in Logins : Counted(l) /\ login[l].user \notin raced =>
         /\ ~Overlaps(l)
         /\ Cardinality(Spared(l)) < MAX_CONCURRENT_SESSIONS

=============================================================================
