------------------------------ MODULE Credentials ------------------------------
(***************************************************************************)
(* How one user proves who they are: login with its lockout counter        *)
(* (app/api/auth/login/route.ts), password reset by e-mailed token         *)
(* (lib/services/password-reset.service.ts) and change of password         *)
(* (app/api/auth/change-password/route.ts).                                *)
(*                                                                         *)
(* The password itself belongs to ERPNext (erp); the column passwordHash   *)
(* is a second copy that only the change of password reads and writes.     *)
(* Users do not interact here, so one is enough.  Each await is a step:    *)
(* the login reads the counter, asks ERPNext, and only then writes what it *)
(* computed from the counter it had read.                                  *)
(*                                                                         *)
(* Sessions are reduced to the password they were opened with; their life  *)
(* is the module Sessions.  Bounds: MaxTime, MaxFaults, and one use of     *)
(* each member of Tokens.                                                  *)
(***************************************************************************)
EXTENDS Integers, FiniteSets

CONSTANTS
    Passwords,
    Logins,        \* concurrent POST /api/auth/login
    Requests,      \* concurrent requestPasswordReset
    Applies,       \* concurrent applyPasswordReset
    Changes,       \* concurrent POST /api/auth/change-password
    Tokens,        \* reset tokens that can ever be created
    Sessions,      \* sessions open at the same time
    THRESHOLD,     \* 5 failed attempts
    LOCKOUT,       \* 15 minutes
    RESET_EXPIRY,  \* 30 minutes
    MaxTime, MaxFaults,
    Null           \* a null column, an absent row, an idle process

ASSUME ProcessesAreFinite ==
    IsFiniteSet(Logins) /\ IsFiniteSet(Requests) /\ IsFiniteSet(Applies) /\ IsFiniteSet(Tokens)
ASSUME Durations == LOCKOUT \in Nat \ {0} /\ RESET_EXPIRY \in Nat /\ MaxTime \in Nat
ASSUME ThresholdIsPositive == THRESHOLD \in Nat \ {0}
ASSUME FaultBudget == MaxFaults \in Nat

User == [failedLoginAttempts: Nat, lockedUntil: Nat]     \* lockedUntil: 0 is null
Token == [used: BOOLEAN, expiresAt: Nat]
Login == [pc: {"erp", "failed", "verified", "session"},
          guess: Passwords \cup {Null}, seen: Nat, until: Nat]
\* "late": given up, but ERPNext may yet take the password.  A change of password goes on instead.
Apply == [pc: {"erp", "commit", "late"}, token: Tokens, new: Passwords]
Change == [pc: {"erp", "commit", "done"}, own: Sessions, new: Passwords, late: BOOLEAN]

ASSUME NullIsNoValue ==
    Null \notin Passwords \cup Token \cup Login \cup Apply \cup Change \cup {"create"}

VARIABLES
    now,
    user,        \* the lockout columns of User
    erp,         \* the password ERPNext accepts
    hash,        \* passwordHash
    session,     \* rows of Session: the password each was opened with
    token,       \* rows of PasswordResetToken
    login, request, apply, change,
    faults,
    \* History: written, never read, by the actions.
    wrong,       \* wrong passwords tried since the counter restarted or a lock was set
    uses,        \* how often ERPNext took a new password on the strength of a token
    carried      \* passwords that logins and broken resets carried over a new password

procs == <<login, request, apply, change>>
history == <<wrong, uses, carried>>
vars == <<now, user, erp, hash, session, token, procs, faults, history>>

TypeOK ==
    /\ now \in 0..MaxTime
    /\ user \in User
    /\ erp \in Passwords
    /\ hash \in Passwords \cup {Null}
    /\ session \in [Sessions -> Passwords \cup {Null}]
    /\ token \in [Tokens -> Token \cup {Null}]
    /\ login \in [Logins -> Login \cup {Null}]
    /\ request \in [Requests -> {Null, "create"}]
    /\ apply \in [Applies -> Apply \cup {Null}]
    /\ change \in [Changes -> Change \cup {Null}]
    /\ \A a \in Applies : apply[a] # Null => token[apply[a].token] # Null
    /\ faults \in 0..MaxFaults
    /\ wrong \in Nat
    /\ uses \in [Tokens -> Nat]
    /\ carried \in SUBSET Passwords

\* passwordHash is null, or set when the row was seeded (scripts/seed-staging.ts).
Init ==
    /\ now = 0
    /\ user = [failedLoginAttempts |-> 0, lockedUntil |-> 0]
    /\ erp \in Passwords
    /\ hash \in {Null, erp}
    /\ session = [s \in Sessions |-> Null]
    /\ token = [t \in Tokens |-> Null]
    /\ login = [l \in Logins |-> Null]
    /\ request = [q \in Requests |-> Null]
    /\ apply = [a \in Applies |-> Null]
    /\ change = [c \in Changes |-> Null]
    /\ faults = 0
    /\ wrong = 0
    /\ uses = [t \in Tokens |-> 0]
    /\ carried = {}

At(proc, p, pc) == proc[p] # Null /\ proc[p].pc = pc

\* A call throws or is refused where the code only ends the request.
Fault == faults < MaxFaults /\ faults' = faults + 1

-----------------------------------------------------------------------------
(* POST /api/auth/login *)

BeginLogin(l, guess) ==
    /\ login[l] = Null
    /\ ~(user.lockedUntil > now)
    /\ login' = [login EXCEPT ![l] =
           [pc |-> "erp", guess |-> guess, seen |-> user.failedLoginAttempts, until |-> 0]]
    /\ UNCHANGED <<now, user, erp, hash, session, token, request, apply, change, faults, history>>

\* The end of the lock, decided from the counter read before the call to ERPNext.
Until(l) == IF login[l].seen + 1 >= THRESHOLD THEN now + LOCKOUT ELSE 0

\* ERPNext answers; when it cannot, the attempt counts as a failure too. Only
\* a failure uses the counter read before the call, only a success the guess.
Verify(l) ==
    /\ At(login, l, "erp")
    /\ \/ /\ login[l].guess = erp
          /\ login' = [login EXCEPT ![l].pc = "verified", ![l].seen = 0]
          /\ UNCHANGED <<faults, wrong>>
       \/ /\ login[l].guess # erp
          /\ login' = [login EXCEPT ![l].pc = "failed", ![l].guess = Null, ![l].until = Until(l)]
          /\ wrong' = wrong + 1
          /\ UNCHANGED faults
       \/ /\ Fault
          /\ login' = [login EXCEPT ![l].pc = "failed", ![l].guess = Null, ![l].until = Until(l)]
          /\ UNCHANGED wrong
    /\ UNCHANGED <<now, user, erp, hash, session, token, request, apply, change, uses, carried>>

\* user.update after a failure: lockedUntil only when the threshold is reached.
RecordFailureKeepsCount(l) ==
    /\ At(login, l, "failed")
    /\ user' = [failedLoginAttempts |-> IF login[l].until > 0 THEN 0 ELSE user.failedLoginAttempts,
                lockedUntil |-> IF login[l].until > 0 THEN login[l].until ELSE user.lockedUntil]
    /\ wrong' = IF login[l].until > 0 THEN 0 ELSE wrong
    /\ login' = [login EXCEPT ![l] = Null]
    /\ UNCHANGED <<now, erp, hash, session, token, request, apply, change, faults, uses, carried>>
RecordFailure(l) ==
    /\ At(login, l, "failed")
    /\ user' = [failedLoginAttempts |-> login[l].seen + 1,
                lockedUntil |-> IF login[l].until > 0 THEN login[l].until ELSE user.lockedUntil]
    /\ wrong' = IF login[l].until > 0 THEN 0 ELSE wrong
    /\ login' = [login EXCEPT ![l] = Null]
    /\ UNCHANGED <<now, erp, hash, session, token, request, apply, change, faults, uses, carried>>

\* user.update after a success: unconditional, even over a lock set meanwhile.
RecordSuccess(l) ==
    /\ At(login, l, "verified")
    /\ user' = [failedLoginAttempts |-> 0, lockedUntil |-> 0]
    /\ wrong' = 0
    /\ login' = [login EXCEPT ![l].pc = "session"]
    /\ UNCHANGED <<now, erp, hash, session, token, request, apply, change, faults, uses, carried>>

CreateSession(l) ==
    /\ At(login, l, "session")
    /\ \E s \in Sessions :
         /\ session[s] = Null
         /\ session' = [session EXCEPT ![s] = login[l].guess]
    /\ login' = [login EXCEPT ![l] = Null]
    /\ UNCHANGED <<now, user, erp, hash, token, request, apply, change, faults, history>>

\* A Prisma call of the login throws: 500, nothing is written.
LoginThrows(l) ==
    /\ login[l] # Null /\ login[l].pc # "erp"
    /\ Fault
    /\ login' = [login EXCEPT ![l] = Null]
    /\ UNCHANGED <<now, user, erp, hash, session, token, request, apply, change, history>>

\* Logout, expiry, eviction.
EndSession(s) ==
    /\ session[s] # Null
    /\ session' = [session EXCEPT ![s] = Null]
    /\ UNCHANGED <<now, user, erp, hash, token, procs, faults, history>>

-----------------------------------------------------------------------------
(* requestPasswordReset: two statements, no transaction *)

InvalidateNone(q) ==
    /\ request[q] = Null
    /\ request' = [request EXCEPT ![q] = "create"]
    /\ UNCHANGED <<now, user, erp, hash, session, token, login, apply, change, faults, history>>
Invalidate(q) ==
    /\ request[q] = Null
    /\ token' = [t \in Tokens |-> IF token[t] = Null THEN Null ELSE [token[t] EXCEPT !.used = TRUE]]
    /\ request' = [request EXCEPT ![q] = "create"]
    /\ UNCHANGED <<now, user, erp, hash, session, login, apply, change, faults, history>>

\* create, then the e-mail; errors of either are swallowed.
CreateToken(q) ==
    /\ request[q] = "create"
    /\ \/ \E t \in Tokens :
            /\ token[t] = Null
            /\ token' = [token EXCEPT ![t] = [used |-> FALSE, expiresAt |-> now + RESET_EXPIRY]]
            /\ UNCHANGED faults
       \/ Fault /\ UNCHANGED token
    /\ request' = [request EXCEPT ![q] = Null]
    /\ UNCHANGED <<now, user, erp, hash, session, login, apply, change, history>>

-----------------------------------------------------------------------------
(* applyPasswordReset *)

Live(t) == token[t] # Null /\ ~token[t].used /\ ~(token[t].expiresAt < now)

BeginApply(a, t, new) ==
    /\ apply[a] = Null
    /\ Live(t)
    /\ apply' = [apply EXCEPT ![a] = [pc |-> "erp", token |-> t, new |-> new]]
    /\ UNCHANGED <<now, user, erp, hash, session, token, login, request, change, faults, history>>

\* The passwords of open sessions, and of logins that have been verified and have no session yet.
Open == {session[s] : s \in Sessions} \ {Null}
Proven == {l \in Logins : At(login, l, "verified") \/ At(login, l, "session")}
InFlight == {login[l].guess : l \in Proven} \ {Null}

\* ERPNext takes the password; it may do so and its answer be lost or come after the 10 s timeout;
\* it may do so later still; or it refuses, and nothing has happened.
ApplyErp(a) ==
    /\ At(apply, a, "erp")
    /\ \/ /\ erp' = apply[a].new
          /\ apply' = [apply EXCEPT ![a].pc = "commit"]
          /\ UNCHANGED faults
       \/ /\ Fault
          /\ \/ erp' \in {erp, apply[a].new} /\ apply' = [apply EXCEPT ![a] = Null]
             \/ UNCHANGED erp /\ apply' = [apply EXCEPT ![a].pc = "late"]
    /\ uses' = IF erp' # erp THEN [uses EXCEPT ![apply[a].token] = @ + 1] ELSE uses
    /\ carried' = (IF faults' = faults \/ erp' = erp THEN carried
                   ELSE carried \cup InFlight \cup Open) \ {erp'}
    /\ UNCHANGED <<now, user, hash, session, token, login, request, change, wrong>>

\* ERPNext comes to a request whose client has given up, or drops it.
ApplyLate(a) ==
    /\ At(apply, a, "late")
    /\ erp' \in {erp, apply[a].new}
    /\ apply' = [apply EXCEPT ![a] = Null]
    /\ uses' = IF erp' # erp THEN [uses EXCEPT ![apply[a].token] = @ + 1] ELSE uses
    /\ carried' = IF erp' # erp THEN (carried \cup InFlight \cup Open) \ {erp'} ELSE carried
    /\ UNCHANGED <<now, user, hash, session, token, login, request, change, faults, wrong>>

\* The transaction: token used, lockout reset, all sessions deleted; or it fails as a whole.
CommitKeepsToken(a) ==
    /\ At(apply, a, "commit")
    /\ user' = [failedLoginAttempts |-> 0, lockedUntil |-> 0]
    /\ session' = [s \in Sessions |-> Null]
    /\ wrong' = 0
    /\ apply' = [apply EXCEPT ![a] = Null]
    /\ UNCHANGED <<now, erp, hash, token, login, request, change, faults, uses, carried>>
CommitKeepsSessions(a) ==
    /\ At(apply, a, "commit")
    /\ token' = [token EXCEPT ![apply[a].token].used = TRUE]
    /\ user' = [failedLoginAttempts |-> 0, lockedUntil |-> 0]
    /\ wrong' = 0
    /\ carried' = (carried \cup InFlight) \ {erp}
    /\ apply' = [apply EXCEPT ![a] = Null]
    /\ UNCHANGED <<now, erp, hash, session, login, request, change, faults, uses>>
Commit(a) ==
    /\ At(apply, a, "commit")
    /\ \/ /\ token' = [token EXCEPT ![apply[a].token].used = TRUE]
          /\ user' = [failedLoginAttempts |-> 0, lockedUntil |-> 0]
          /\ session' = [s \in Sessions |-> Null]
          /\ wrong' = 0
          /\ carried' = (carried \cup InFlight) \ {erp}
          /\ UNCHANGED faults
       \/ Fault /\ carried' = (carried \cup InFlight \cup Open) \ {erp} /\ UNCHANGED <<token, user, session, wrong>>
    /\ apply' = [apply EXCEPT ![a] = Null]
    /\ UNCHANGED <<now, erp, hash, login, request, change, uses>>

-----------------------------------------------------------------------------
(* POST /api/auth/change-password, from a session s *)

\* The current password is compared with passwordHash, not with ERPNext.
BeginChange(c, s, current, new) ==
    /\ change[c] = Null
    /\ session[s] # Null
    /\ current = hash
    /\ change' = [change EXCEPT ![c] = [pc |-> "erp", own |-> s, new |-> new, late |-> FALSE]]
    /\ UNCHANGED <<now, user, erp, hash, session, token, login, request, apply, faults, history>>

\* A failure of ERPNext is logged and ignored, and so is its silence, after which it may yet take
\* the password.
ChangeErp(c) ==
    /\ At(change, c, "erp")
    /\ \E late \in BOOLEAN :
         /\ \/ erp' = change[c].new /\ ~late /\ UNCHANGED faults
            \/ Fault /\ UNCHANGED erp
         /\ change' = [change EXCEPT ![c].pc = "commit", ![c].late = late]
    /\ carried' = (carried \cup InFlight \cup Open) \ {erp'}
    /\ UNCHANGED <<now, user, hash, session, token, login, request, apply, wrong, uses>>

\* The transaction: new hash, every other session deleted.
ChangeCommit(c) ==
    /\ At(change, c, "commit")
    /\ \/ /\ hash' = change[c].new
          /\ session' = [s \in Sessions |-> IF s = change[c].own THEN session[s] ELSE Null]
          /\ UNCHANGED faults
       \/ Fault /\ UNCHANGED <<hash, session>>
    /\ change' = [change EXCEPT ![c] = IF @.late THEN [@ EXCEPT !.pc = "done"] ELSE Null]
    /\ UNCHANGED <<now, user, erp, token, login, request, apply, history>>

\* ERPNext comes to a request whose client no longer waits for it, or drops it.
ChangeLate(c) ==
    /\ change[c] # Null /\ change[c].late
    /\ erp' \in {erp, change[c].new}
    /\ change' = [change EXCEPT ![c] = IF @.pc = "done" THEN Null ELSE [@ EXCEPT !.late = FALSE]]
    /\ carried' = IF erp' # erp THEN (carried \cup InFlight \cup Open) \ {erp'} ELSE carried
    /\ UNCHANGED <<now, user, hash, session, token, login, request, apply, faults, wrong, uses>>

Tick ==
    /\ now < MaxTime
    /\ now' = now + 1
    /\ UNCHANGED <<user, erp, hash, session, token, procs, faults, history>>

-----------------------------------------------------------------------------

LoginStep(l) ==
    \/ \E guess \in Passwords : BeginLogin(l, guess)
    \/ Verify(l)
    \/ RecordFailure(l)
    \/ RecordSuccess(l)
    \/ CreateSession(l)
    \/ LoginThrows(l)

ResetStep ==
    \/ \E q \in Requests : Invalidate(q) \/ CreateToken(q)
    \/ \E a \in Applies :
         \/ \E t \in Tokens, new \in Passwords : BeginApply(a, t, new)
         \/ ApplyErp(a)
         \/ ApplyLate(a)
         \/ Commit(a)

ChangeStep(c) ==
    \/ \E s \in Sessions, current, new \in Passwords : BeginChange(c, s, current, new)
    \/ ChangeErp(c)
    \/ ChangeCommit(c)
    \/ ChangeLate(c)

Next ==
    \/ \E l \in Logins : LoginStep(l)
    \/ \E s \in Sessions : EndSession(s)
    \/ ResetStep
    \/ \E c \in Changes : ChangeStep(c)
    \/ Tick

Spec == Init /\ [][Next]_vars

-----------------------------------------------------------------------------
(* Properties *)

\* What a login counts from: the counter it holds, and has yet to write, or the present one, which
\* it reads when it begins.  A counter held is worth no more than the present one if that is lower.
Level(l) ==
    IF (At(login, l, "erp") \/ At(login, l, "failed")) /\ login[l].seen <= user.failedLoginAttempts
    THEN login[l].seen
    ELSE user.failedLoginAttempts

\* How many logins count from at most j, for each j from which a failure does not lock yet.
Profile == [j \in 0..(THRESHOLD - 2) |-> Cardinality({l \in Logins : Level(l) <= j})]

\* All that a profile of n logins may be with a threshold of t: one for every way to choose n
\* counters below t, the order aside, which makes (n + t - 1 choose n) of them.
Profiles(n, t) ==
    {p \in [0..(t - 2) -> 0..n] : \A i, j \in 0..(t - 2) : i <= j => p[i] <= p[j]}

\* Concurrent logins overwrite each other's counter, and a slow one sets it back; even so the
\* number of wrong passwords tried before a lock is set is bounded.  The bound is not the threshold
\* times the logins: of N logins that hold the value 0, one writes it back after the others have
\* brought the counter up to the threshold, and they climb again, N - 1 of them; one of these holds
\* a 1 for the next climb, and so on, through every profile there is.
GuessesBounded ==
    LET N == Cardinality(Logins)
    IN  wrong <= N + Cardinality(Profiles(N, THRESHOLD)) - 1 + faults

\* The invariant behind it: a failure that is written and does not lock leaves the profile lower in
\* the lexicographic order, and nothing but what restarts the count raises it.
Lower(p, q) ==
    \E j \in DOMAIN q : p[j] < q[j] /\ \A i \in DOMAIN q : i < j => p[i] = q[i]
Left == {p \in Profiles(Cardinality(Logins), THRESHOLD) : Lower(p, Profile)}
Failing == {l \in Logins : At(login, l, "failed")}
GuessInv ==
    /\ \A l \in Failing : login[l].until = 0 => login[l].seen + 1 < THRESHOLD
    /\ wrong + Cardinality(Left) < Cardinality(Profiles(Cardinality(Logins), THRESHOLD))
                                     + Cardinality(Failing) + faults

\* Tokens not yet used, and requests about to create one: the invariant behind the next
\* property.
Unused == {t \in Tokens : token[t] # Null /\ ~token[t].used}
Creating == {q \in Requests : request[q] = "create"}
UnusedInv == Cardinality(Unused) + Cardinality(Creating) <= Cardinality(Requests)

\* Concurrent requests may each leave a live token, never more than one each: invalidation
\* and creation are separate statements, and a request that overlaps is not invalidated.
LiveTokensBounded ==
    Cardinality({t \in Tokens : Live(t)}) <= Cardinality(Requests)

\* A token changes the password once per concurrent application at most, and once more for
\* every application that broke off between ERPNext and the transaction.
TokenUsesBounded ==
    \A t \in Tokens : uses[t] <= Cardinality(Applies) + faults

\* The invariant behind it: of the uses of a token, every one that broke off is a fault, also while
\* ERPNext has yet to come to it, and every other one is an application that awaits its transaction
\* or, once the token is marked used, one of those that had read it before.
Holding(t, pc) == {a \in Applies : At(apply, a, pc) /\ apply[a].token = t}
UsesInv ==
    \A t \in Tokens :
        IF t \in Unused \/ token[t] = Null
        THEN uses[t] + Cardinality(Holding(t, "late"))
                <= Cardinality(Holding(t, "commit")) + faults
        ELSE uses[t] + Cardinality(Holding(t, "late")) + Cardinality(Holding(t, "erp"))
                <= Cardinality(Applies) + faults

\* A reset leaves no session behind that was opened with an earlier password, once it is no longer
\* between ERPNext and its transaction, except for the logins that had verified that password
\* before the transaction and create their session after it, for resets that broke off, whose
\* password ERPNext has taken or takes later, and for what a change of password spares.
ResetRevokes ==
    (\A a \in Applies : ~At(apply, a, "commit"))
        => \A s \in Sessions : session[s] \in {Null, erp} \cup carried

\* The invariant behind it: the same of the logins that are about to open a session.
RevokeInv ==
    (\A a \in Applies : ~At(apply, a, "commit"))
        => Open \cup InFlight \subseteq {erp} \cup carried

=============================================================================
