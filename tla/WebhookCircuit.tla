---------------------------- MODULE WebhookCircuit ----------------------------
(***************************************************************************)
(* One webhook endpoint, the workers that deliver to it concurrently and   *)
(* its circuit breaker: lib/webhooks/delivery.ts and the admin route that  *)
(* re-enables an endpoint.                                                 *)
(*                                                                         *)
(* The breaker is two columns of WebhookEndpoint, mirrored in Redis.       *)
(* Every await is a step: the failure counter is incremented atomically by *)
(* the database, but the mirror and the decision to trip follow later.     *)
(* recordSuccess and recordFailure run inside the try of attemptDelivery,  *)
(* so when one of their awaits throws, its catch records a failure again.  *)
(*                                                                         *)
(* Endpoints do not interact, so one is enough.  Bound: MaxMishaps counts  *)
(* the awaits that throw and the workers that die.                         *)
(***************************************************************************)
EXTENDS Integers, FiniteSets

CONSTANTS
    Workers,                     \* concurrent executions of attemptDelivery
    CIRCUIT_BREAKER_THRESHOLD,   \* 10
    MaxMishaps,                  \* awaits that throw, workers that crash
    NoMirror                     \* the Redis key does not exist

ASSUME WorkersAreFinite == IsFiniteSet(Workers)
ASSUME ThresholdIsPositive == CIRCUIT_BREAKER_THRESHOLD \in Nat \ {0}
ASSUME MishapsAreCounted == MaxMishaps \in Nat

\* CircuitState: disabledAt and circuitOpenedAt are dates; only their presence matters.
State == [failures: Nat, open: BOOLEAN]
Closed == [failures |-> 0, open |-> FALSE]

ASSUME MirrorIsAbsent == NoMirror \notin State

\* inTry: an exception now would land in the catch of attemptDelivery.
Attempt == [pc: {"idle", "post", "success", "successMirror",
                 "increment", "failureMirror", "trip", "tripMirror"},
            inTry: BOOLEAN,
            seen: State]      \* what the update of recordFailure returned
Idle == [pc |-> "idle", inTry |-> FALSE, seen |-> Closed]

VARIABLES
    db,          \* WebhookEndpoint: consecutiveFailures, disabledAt
    mirror,      \* Redis webhook:circuit:<id>
    attempt,     \* what each worker is doing
    reader,      \* getCircuitState between its database read and its Redis write
    mishaps,     \* awaits that threw and workers that died
    \* History: written, never read, by the actions.
    cuts,        \* mishaps since the count last restarted
    outrun       \* workers whose count was restarted after they had read it

restarts == <<cuts, outrun>>
circuitVars == <<db, mirror, attempt, reader, mishaps, restarts>>

CircuitTypeOK ==
    /\ db \in State
    /\ mirror \in State \cup {NoMirror}
    /\ attempt \in [Workers -> Attempt]
    /\ reader \in State \cup {NoMirror}
    /\ mishaps \in 0..MaxMishaps
    /\ cuts \in 0..mishaps
    /\ outrun \in SUBSET Workers

CircuitInit ==
    /\ db = Closed
    /\ mirror = NoMirror
    /\ attempt = [w \in Workers |-> Idle]
    /\ reader = NoMirror
    /\ mishaps = 0
    /\ cuts = 0 /\ outrun = {}

AttemptAt(w, pc) == attempt[w].pc = pc
AttemptGoes(w, pc) == attempt' = [attempt EXCEPT ![w].pc = pc]
Return(w) == attempt' = [attempt EXCEPT ![w] = Idle]

\* Workers that hold a count they have read and may yet decide on.
Holding == {w \in Workers : AttemptAt(w, "failureMirror") \/ AttemptAt(w, "trip")}

\* The count goes to zero, with so many mishaps to its name.
Restart(n) == cuts' = n /\ outrun' = outrun \cup Holding

-----------------------------------------------------------------------------
(* attemptDelivery *)

\* The endpoint is read from the database; a disabled one is skipped, as is one whose secret
\* does not decrypt (nothing changes then).
StartUnchecked(w) ==
    /\ AttemptAt(w, "idle")
    /\ AttemptGoes(w, "post")
    /\ UNCHANGED <<db, mirror, reader, mishaps, restarts>>
Start(w) ==
    /\ AttemptAt(w, "idle")
    /\ ~db.open
    /\ AttemptGoes(w, "post")
    /\ UNCHANGED <<db, mirror, reader, mishaps, restarts>>

\* fetch answered: 2xx calls recordSuccess, anything else recordFailure, inside the try.
Delivered(w) ==
    /\ AttemptAt(w, "post")
    /\ attempt' = [attempt EXCEPT ![w].pc = "success", ![w].inTry = TRUE]
    /\ UNCHANGED <<db, mirror, reader, mishaps, restarts>>
Refused(w) ==
    /\ AttemptAt(w, "post")
    /\ attempt' = [attempt EXCEPT ![w].pc = "increment", ![w].inTry = TRUE]
    /\ UNCHANGED <<db, mirror, reader, mishaps, restarts>>

\* fetch threw (network, 30 s timeout): the catch calls recordFailure.
Unreachable(w) ==
    /\ AttemptAt(w, "post")
    /\ AttemptGoes(w, "increment")
    /\ UNCHANGED <<db, mirror, reader, mishaps, restarts>>

-----------------------------------------------------------------------------
(* recordSuccess *)

SuccessRow(w) ==
    /\ AttemptAt(w, "success")
    /\ db' = [db EXCEPT !.failures = 0]
    /\ Restart(0)
    /\ AttemptGoes(w, "successMirror")
    /\ UNCHANGED <<mirror, reader, mishaps>>

SuccessMirror(w) ==
    /\ AttemptAt(w, "successMirror")
    /\ mirror' = Closed
    /\ Return(w)
    /\ UNCHANGED <<db, reader, mishaps, restarts>>

-----------------------------------------------------------------------------
(* recordFailure *)

\* update(increment: 1) returns the row as this call left it.
Increment(w) ==
    /\ AttemptAt(w, "increment")
    /\ db' = [db EXCEPT !.failures = @ + 1]
    /\ attempt' = [attempt EXCEPT ![w].pc = "failureMirror", ![w].seen = db']
    /\ outrun' = outrun \ {w}
    /\ UNCHANGED <<mirror, reader, mishaps, cuts>>

Trips(s) == s.failures >= CIRCUIT_BREAKER_THRESHOLD /\ ~s.open

TripsPastThreshold(s) == s.failures > CIRCUIT_BREAKER_THRESHOLD /\ ~s.open
TripsEarly(s) == s.failures + 1 >= CIRCUIT_BREAKER_THRESHOLD /\ ~s.open

\* The mirror first, then the decision, on the row the update returned.
FailureMirrorPast(w) ==
    /\ AttemptAt(w, "failureMirror")
    /\ mirror' = attempt[w].seen
    /\ IF TripsPastThreshold(attempt[w].seen) THEN AttemptGoes(w, "trip") ELSE Return(w)
    /\ UNCHANGED <<db, reader, mishaps, restarts>>
FailureMirrorEarly(w) ==
    /\ AttemptAt(w, "failureMirror")
    /\ mirror' = attempt[w].seen
    /\ IF TripsEarly(attempt[w].seen) THEN AttemptGoes(w, "trip") ELSE Return(w)
    /\ UNCHANGED <<db, reader, mishaps, restarts>>
FailureMirror(w) ==
    /\ AttemptAt(w, "failureMirror")
    /\ mirror' = attempt[w].seen
    /\ IF Trips(attempt[w].seen) THEN AttemptGoes(w, "trip") ELSE Return(w)
    /\ UNCHANGED <<db, reader, mishaps, restarts>>

\* update(disabledAt): unconditional, whatever the count is by now.
TripRestartsCount(w) ==
    /\ AttemptAt(w, "trip")
    /\ db' = [db EXCEPT !.failures = 0]
    /\ AttemptGoes(w, "tripMirror")
    /\ UNCHANGED <<mirror, reader, mishaps, restarts>>
Trip(w) ==
    /\ AttemptAt(w, "trip")
    /\ db' = [db EXCEPT !.open = TRUE]
    /\ AttemptGoes(w, "tripMirror")
    /\ UNCHANGED <<mirror, reader, mishaps, restarts>>

\* Then the notification, which is not awaited.
TripMirror(w) ==
    /\ AttemptAt(w, "tripMirror")
    /\ mirror' = [failures |-> attempt[w].seen.failures, open |-> TRUE]
    /\ Return(w)
    /\ UNCHANGED <<db, reader, mishaps, restarts>>

-----------------------------------------------------------------------------
(* Faults *)

Recording(w) == attempt[w].pc \in {"success", "successMirror", "increment",
                                   "failureMirror", "trip", "tripMirror"}

\* A mishap hits a database command that may have been executed by then, unseen by its caller.
Half(w) ==
    \/ UNCHANGED <<db, outrun>> /\ cuts' = cuts + 1
    \/ /\ AttemptAt(w, "success")
       /\ db' = [db EXCEPT !.failures = 0]
       /\ Restart(1)
    \/ /\ AttemptAt(w, "increment")
       /\ db' = [db EXCEPT !.failures = @ + 1]
       /\ cuts' = cuts + 1
       /\ UNCHANGED outrun
    \/ /\ AttemptAt(w, "trip")
       /\ db' = [db EXCEPT !.open = TRUE]
       /\ cuts' = cuts + 1
       /\ UNCHANGED outrun

\* The same of a write of the mirror.
HalfMirror(w) ==
    \/ UNCHANGED mirror
    \/ AttemptAt(w, "successMirror") /\ mirror' = Closed
    \/ AttemptAt(w, "failureMirror") /\ mirror' = attempt[w].seen
    \/ /\ AttemptAt(w, "tripMirror")
       /\ mirror' = [failures |-> attempt[w].seen.failures, open |-> TRUE]

\* A Prisma or Redis call throws.  Inside the try the catch calls recordFailure (again);
\* from the catch itself the exception leaves attemptDelivery.
Throw(w) ==
    /\ Recording(w)
    /\ mishaps < MaxMishaps
    /\ mishaps' = mishaps + 1
    /\ Half(w)
    /\ HalfMirror(w)
    /\ attempt' = [attempt EXCEPT ![w] =
           IF @.inTry THEN [pc |-> "increment", inTry |-> FALSE, seen |-> Closed] ELSE Idle]
    /\ UNCHANGED reader

\* The process that runs attemptDelivery dies.
Crash(w) ==
    /\ ~AttemptAt(w, "idle")
    /\ mishaps < MaxMishaps
    /\ mishaps' = mishaps + 1
    /\ Half(w)
    /\ HalfMirror(w)
    /\ Return(w)
    /\ UNCHANGED reader

-----------------------------------------------------------------------------
(* Everyone else *)

\* POST /api/admin/webhooks/:id/enable: the row only, the mirror is left alone.
Enable ==
    /\ db' = Closed
    /\ Restart(0)
    /\ UNCHANGED <<mirror, attempt, reader, mishaps>>

\* getCircuitState on a missing key: read the row, then write the mirror.
ReadRow ==
    /\ reader = NoMirror
    /\ mirror = NoMirror
    /\ reader' = db
    /\ UNCHANGED <<db, mirror, attempt, mishaps, restarts>>

FillMirror ==
    /\ reader # NoMirror
    /\ mirror' = reader
    /\ reader' = NoMirror
    /\ UNCHANGED <<db, attempt, mishaps, restarts>>

\* CIRCUIT_CACHE_TTL runs out, or Redis restarts empty or has no client.
LoseMirror ==
    /\ mirror # NoMirror
    /\ mirror' = NoMirror
    /\ UNCHANGED <<db, attempt, reader, mishaps, restarts>>

-----------------------------------------------------------------------------

\* What an attempt does once its fetch has begun.
Progress(w) ==
    \/ Delivered(w)
    \/ Refused(w)
    \/ Unreachable(w)
    \/ SuccessRow(w)
    \/ SuccessMirror(w)
    \/ Increment(w)
    \/ FailureMirror(w)
    \/ Trip(w)
    \/ TripMirror(w)

WorkerStep(w) == Start(w) \/ Progress(w) \/ Throw(w) \/ Crash(w)

CircuitNext ==
    \/ \E w \in Workers : WorkerStep(w)
    \/ Enable
    \/ ReadRow
    \/ FillMirror
    \/ LoseMirror

CircuitSpec == CircuitInit /\ [][CircuitNext]_circuitVars

\* An async function that has begun runs on: fetch ends within its timeout and every other
\* await is answered or throws.  Nothing is assumed of when deliveries begin.
FairSpec == CircuitSpec /\ \A w \in Workers : WF_circuitVars(Progress(w))

-----------------------------------------------------------------------------
(* What the proofs rest on *)

\* Workers whose increment reached the threshold and who have not yet tripped the breaker.
Tripping == {w \in Workers :
    (AttemptAt(w, "failureMirror") \/ AttemptAt(w, "trip")) /\ Trips(attempt[w].seen)}

\* Workers that may still add to the count.
Counting == {w \in Workers : AttemptAt(w, "post") \/ AttemptAt(w, "increment")}

\* Every failure beyond the threshold belongs to a worker that will trip the breaker, or to a
\* mishap; once it is open each remaining worker adds at most one.
CircuitInv ==
    /\ ~db.open => db.failures < CIRCUIT_BREAKER_THRESHOLD + Cardinality(Tripping) + cuts
    /\ db.open => db.failures + Cardinality(Counting)
                    < CIRCUIT_BREAKER_THRESHOLD + Cardinality(Workers) + cuts

\* A worker about to trip the breaker read a count at the threshold, and the count has only
\* grown since, unless it was restarted.
HoldingInv ==
    /\ \A w \in Workers : AttemptAt(w, "trip") => Trips(attempt[w].seen)
    /\ \A w \in Holding \ outrun : attempt[w].seen.failures <= db.failures

-----------------------------------------------------------------------------
(* Properties *)

\* With no recording in progress, an endpoint at the threshold is disabled: no interleaving of
\* successes, failures and re-enabling lets the count pass it unnoticed.  An await that throws,
\* or a process that dies, in the middle of a recording delays that by one failure, not more:
\* the next failure trips the breaker.
TrippedAtThreshold ==
    (\A w \in Workers : ~Recording(w)) /\ db.failures >= CIRCUIT_BREAKER_THRESHOLD + cuts
        => db.open

\* The breaker overshoots by less than one failure per concurrent worker, and one per mishap.
OvershootBounded ==
    db.failures < CIRCUIT_BREAKER_THRESHOLD + Cardinality(Workers) + cuts

\* An endpoint whose count is below the threshold is disabled only by a worker that had read the
\* count before it was restarted: a success or an administrator's enabling is undone by nobody
\* who began to count after it.
EarlyTripIsOutrun ==
    [][~db.open /\ db'.open /\ db.failures < CIRCUIT_BREAKER_THRESHOLD
          => \E w \in outrun : AttemptAt(w, "trip") /\ ~AttemptAt(w, "trip")']_circuitVars

\* An endpoint that never answers 2xx again and is not re-enabled is eventually left alone,
\* after finitely many faults, wherever they fell.
DeadEndpointIsLeftAlone ==
    <>[][~Enable /\ \A w \in Workers : ~Delivered(w)]_circuitVars
        => <>[](\A w \in Workers : ~AttemptAt(w, "post"))

=============================================================================
