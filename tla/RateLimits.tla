------------------------------- MODULE RateLimits -------------------------------
(***************************************************************************)
(* The sliding-window rate limiter of lib/api/rate-limit-tiers.ts, for one *)
(* key: one tier and one client identifier (checkTieredRateLimit), one     *)
(* e-mail address (checkEmailRateLimit) or one account                     *)
(* (checkErpAccountRateLimit).                                             *)
(*                                                                         *)
(* The key is a sorted set of requests scored with the time each server    *)
(* read from its clock before it wrote to Redis; the clocks agree.  The    *)
(* endpoint is not part of the key: every endpoint of a tier counts the    *)
(* same entries, and compares their number with a limit of its own.        *)
(*                                                                         *)
(* A pipeline is not a transaction, so the four commands of a check are    *)
(* four steps, and those of other requests fall between them.  exec        *)
(* resolves with a pair of error and reply for each command; a count whose *)
(* reply is missing is taken for 1 (results?.[2]?.[1] ?? 1).               *)
(*                                                                         *)
(* The module models production (no Redis client: denied).  Limit is the   *)
(* limit divided by costMultiplier, rounded down.  Bounds: each member of  *)
(* Requests is one request, used once; MaxTime; MaxFaults.                 *)
(***************************************************************************)
EXTENDS Integers, FiniteSets

CONSTANTS
    Requests,
    Endpoints,
    Limit,         \* ENDPOINT_OVERRIDES, else TIER_LIMITS
    WINDOW,        \* windowMs
    MaxLatency,    \* longest time from Date.now() to the answer of exec
    MaxTime,
    MaxFaults,
    Null           \* a request not yet made

ASSUME RequestsAreFinite == IsFiniteSet(Requests)
ASSUME LimitsArePositive == Limit \in [Endpoints -> Nat \ {0}]
ASSUME LatencyIsShort == WINDOW \in Nat /\ MaxLatency \in Nat /\ MaxLatency < WINDOW
ASSUME Bounds == MaxTime \in Nat /\ MaxFaults \in Nat

\* A check: the next command of its pipeline, its arguments, the reply to zcard (0: none).
Check == [pc: {"trim", "add", "count", "expire", "allowed", "denied"},
          endpoint: Endpoints, stamp: Nat, count: Nat]

ASSUME NullIsNoCheck == Null \notin Check

VARIABLES
    now,
    zset,         \* the members of the sorted set; the score of r is check[r].stamp
    keyUntil,     \* when the key expires (0: it has no expiry)
    check,
    faults,
    \* History: written, never read, by the actions.
    addedAt,      \* when zadd added the request
    faulty,       \* requests whose check lost its connection, or had none
    fresh,        \* members added since the last pexpire
    lapsed        \* the key has expired between a zadd and its pexpire

history == <<addedAt, faulty, fresh, lapsed>>
vars == <<now, zset, keyUntil, check, faults, history>>

TypeOK ==
    /\ now \in Nat
    /\ zset \in SUBSET Requests
    /\ keyUntil \in Nat
    /\ check \in [Requests -> Check \cup {Null}]
    /\ faults \in 0..MaxFaults
    /\ addedAt \in [Requests -> Nat]
    /\ faulty \in SUBSET Requests
    /\ fresh \in SUBSET Requests
    /\ lapsed \in BOOLEAN

Init ==
    /\ now = 0
    /\ zset = {}
    /\ keyUntil = 0
    /\ check = [r \in Requests |-> Null]
    /\ faults = 0
    /\ addedAt = [r \in Requests |-> 0]
    /\ faulty = {}
    /\ fresh = {}
    /\ lapsed = FALSE

At(r, pc) == check[r] # Null /\ check[r].pc = pc
Go(r, pc) == check' = [check EXCEPT ![r].pc = pc]
InFlight(r) == check[r] # Null /\ check[r].pc \in {"trim", "add", "count", "expire"}

Verdict(e, count) == IF count <= Limit[e] THEN "allowed" ELSE "denied"

-----------------------------------------------------------------------------
(* A check *)

Begin(r, e) ==
    /\ check[r] = Null
    /\ check' = [check EXCEPT ![r] = [pc |-> "trim", endpoint |-> e, stamp |-> now, count |-> 0]]
    /\ UNCHANGED <<now, zset, keyUntil, faults, history>>

\* zremrangebyscore(key, 0, now - windowMs).  Redis deletes a set that becomes empty, and its
\* expiry with it.
TrimTwoWindows(r) ==
    /\ At(r, "trim")
    /\ zset' = {x \in zset : check[x].stamp > check[r].stamp - 2 * WINDOW}
    /\ keyUntil' = IF zset' = {} THEN 0 ELSE keyUntil
    /\ fresh' = fresh \cap zset'
    /\ Go(r, "add")
    /\ UNCHANGED <<now, faults, addedAt, faulty, lapsed>>
Trim(r) ==
    /\ At(r, "trim")
    /\ zset' = {x \in zset : check[x].stamp > check[r].stamp - WINDOW}
    /\ keyUntil' = IF zset' = {} THEN 0 ELSE keyUntil
    /\ fresh' = fresh \cap zset'
    /\ Go(r, "add")
    /\ UNCHANGED <<now, faults, addedAt, faulty, lapsed>>

\* zadd(key, now, member): before the count, and whatever the verdict will be.
Add(r) ==
    /\ At(r, "add")
    /\ zset' = zset \cup {r}
    /\ addedAt' = [addedAt EXCEPT ![r] = now]
    /\ fresh' = fresh \cup {r}
    /\ Go(r, "count")
    /\ UNCHANGED <<now, keyUntil, faults, faulty, lapsed>>

\* zcard(key).
Count(r) ==
    /\ At(r, "count")
    /\ check' = [check EXCEPT ![r].pc = "expire", ![r].count = Cardinality(zset)]
    /\ UNCHANGED <<now, zset, keyUntil, faults, history>>

\* pexpire(key, 2 * windowMs), nothing if there is no key; then the verdict.
ExpireSoon(r) ==
    /\ At(r, "expire")
    /\ keyUntil' = IF zset = {} THEN keyUntil ELSE now + 1
    /\ fresh' = {}
    /\ Go(r, Verdict(check[r].endpoint, check[r].count))
    /\ UNCHANGED <<now, zset, faults, addedAt, faulty, lapsed>>
Expire(r) ==
    /\ At(r, "expire")
    /\ keyUntil' = IF zset = {} THEN keyUntil ELSE now + 2 * WINDOW
    /\ fresh' = {}
    /\ Go(r, Verdict(check[r].endpoint, check[r].count))
    /\ UNCHANGED <<now, zset, faults, addedAt, faulty, lapsed>>

-----------------------------------------------------------------------------
(* Redis out of reach *)

Fault(r) ==
    /\ faults < MaxFaults
    /\ faults' = faults + 1
    /\ faulty' = faulty \cup {r}

\* The connection breaks: the commands from here on fail, each with an error of its own in
\* what exec resolves with.  Without the reply to zcard the count is 1.
Break(r) ==
    /\ InFlight(r)
    /\ Fault(r)
    /\ \/ Go(r, Verdict(check[r].endpoint, 1))
       \/ At(r, "expire") /\ Go(r, Verdict(check[r].endpoint, check[r].count))
    /\ UNCHANGED <<now, zset, keyUntil, addedAt, fresh, lapsed>>

\* All commands are executed, and the connection breaks before the replies arrive.
LoseReplies(r) ==
    /\ At(r, "expire")
    /\ Fault(r)
    /\ keyUntil' = IF zset = {} THEN keyUntil ELSE now + 2 * WINDOW
    /\ fresh' = {}
    /\ Go(r, Verdict(check[r].endpoint, 1))
    /\ UNCHANGED <<now, zset, addedAt, lapsed>>

\* No Redis client, or the pipeline as a whole throws.
Refuse(r, e) ==
    /\ check[r] = Null
    /\ Fault(r)
    /\ check' = [check EXCEPT ![r] = [pc |-> "denied", endpoint |-> e, stamp |-> now, count |-> 0]]
    /\ UNCHANGED <<now, zset, keyUntil, addedAt, fresh, lapsed>>

\* No check outlives MaxLatency.  Redis drops the key when it expires.
Tick ==
    /\ now < MaxTime
    /\ \A r \in Requests : InFlight(r) => now < check[r].stamp + MaxLatency
    /\ now' = now + 1
    /\ IF 0 < keyUntil /\ keyUntil <= now'
       THEN /\ zset' = {} /\ keyUntil' = 0 /\ fresh' = {}
            /\ lapsed' = (lapsed \/ fresh # {})
       ELSE UNCHANGED <<zset, keyUntil, fresh, lapsed>>
    /\ UNCHANGED <<check, faults, addedAt, faulty>>

-----------------------------------------------------------------------------

RequestStep(r) ==
    \/ \E e \in Endpoints : Begin(r, e) \/ Refuse(r, e)
    \/ Trim(r)
    \/ Add(r)
    \/ Count(r)
    \/ Expire(r)
    \/ Break(r)
    \/ LoseReplies(r)

Next ==
    \/ \E r \in Requests : RequestStep(r)
    \/ Tick

Spec == Init /\ [][Next]_vars

-----------------------------------------------------------------------------
(* What the proofs rest on *)

\* The reply to zcard has reached the check.
Counted(r) == r \notin faulty /\ check[r] # Null /\ check[r].pc \in {"expire", "allowed", "denied"}

\* The request was added, and is still of account.
Held(r) == At(r, "count") \/ Counted(r)

\* Younger than the window by the time a check may take.
Recent(r) == addedAt[r] > now - (WINDOW - MaxLatency)

StampsInv ==
    /\ \A r \in Requests : check[r] # Null => check[r].stamp <= now
    /\ \A r \in Requests : InFlight(r) => now <= check[r].stamp + MaxLatency
    /\ \A r \in zset : check[r] # Null /\ addedAt[r] <= now
    /\ \A r \in Requests : Held(r) => addedAt[r] <= check[r].stamp + MaxLatency
    /\ fresh \subseteq zset

\* No entry is dropped while it is recent: not by a check with a later stamp, and not by the
\* expiry of the key unless it lapsed.
HeldInv ==
    /\ \A r \in zset \ fresh : keyUntil >= addedAt[r] + 2 * WINDOW
    /\ ~lapsed => \A r \in Requests : Held(r) /\ Recent(r) => r \in zset

\* Nothing a check has trimmed comes back before it counts.
TrimmedInv ==
    \A r \in Requests : At(r, "add") \/ At(r, "count") =>
        \A x \in zset : check[x].stamp > check[r].stamp - WINDOW

RateInv == StampsInv /\ HeldInv /\ TrimmedInv

-----------------------------------------------------------------------------
(* Properties *)

Passed(e) == {r \in Requests :
    Counted(r) /\ check[r].endpoint = e /\ check[r].count <= Limit[e] /\ Recent(r)}

\* However the commands of concurrent checks interleave, and although no transaction encloses
\* them, no more requests to an endpoint pass within a window (less the time a check may take)
\* than its limit: each adds itself before it counts, so the last to count sees the others.
AdmissionBounded == ~lapsed => \A e \in Endpoints : Cardinality(Passed(e)) <= Limit[e]

\* Requests of the key, to whatever endpoint, made since a window before r.
MadeSince(r) == {x \in Requests : check[x] # Null /\ check[x].stamp > check[r].stamp - WINDOW}

\* A request is denied by its count only if more than the limit were made in its window: none
\* that an earlier check should have trimmed is held against the client.
DenialIsBacked ==
    \A r \in Requests : Counted(r) /\ check[r].count > Limit[check[r].endpoint]
        => Cardinality(MadeSince(r)) > Limit[check[r].endpoint]

=============================================================================
