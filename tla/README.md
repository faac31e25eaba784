# Westbridge platform: a verification project

TLA+ models of the Westbridge platform (a multi-tenant Next.js front end to
ERPNext, with Postgres through Prisma and Redis through ioredis), TLC
configurations that check them on small instances, and TLAPS proofs of what can
be shown for every value of the constants.

Each module is read from the TypeScript under `src/`. `PROJECT.json` maps every
definition to the lines it stands for, every property to a plausible bug that
breaks it (`mutants`; the mutated operators stand in the modules just before the
ones they mutate and are used by nothing else), and every hazard of the code to
the properties that watch it.

    tlc -workers 2 -config SessionsRequests.cfg MCSessions     # one run
    tlapm SessionsProofs.tla                                    # one proof module

## 1. The system

The server has no threads and no locks: a handler is an async function, and
between any two `await`s of one, any other request, on this process or another,
may run. What is shared is Postgres (rows), Redis (keys with an expiry), ERPNext
(which owns the passwords) and 2Checkout (which owns the payments). Transactions
run at Postgres' default level, read committed. So the questions worth asking are
what a handler may still believe after an `await`, what happens when only some
of its writes are done, and what a retry finds.

| Component (main source) | State it keeps | Operations | Talks to | What makes it correct | Modelled by |
|---|---|---|---|---|---|
| **Sessions** (`lib/services/session.service.ts`, logout and validate routes, clean-up job and scripts) | rows of `Session`; Redis `session:v1:<hash>` for 5 s | `createSession` (at most 5 per user), `validateSession`, `revokeSession`, bulk deletions, clean-up | Postgres, Redis; called by every authenticated route | a revoked, expired or idle session is not accepted for longer than a known time; active users are not timed out; the limit per user | `Sessions` |
| **Webhook delivery** (`lib/webhooks/delivery.ts`, admin enable route) | `WebhookEndpoint.consecutiveFailures`, `disabledAt`; Redis mirror | `attemptDelivery`, `recordSuccess`, `recordFailure`, enable, `getCircuitState` | customer endpoints; nothing in the repository calls it yet | trips at the threshold, overshoots little, leaves a dead endpoint alone | `WebhookCircuit` |
| **Login and passwords** (login, forgot-, reset-, change-password routes, `password-reset.service.ts`) | lockout columns of `User`, `PasswordResetToken`, `passwordHash` | login, request and apply a reset, change | ERPNext, sessions, e-mail | guesses are bounded, tokens are few and used few times | `Credentials` |
| **Accounts** (`billing.service.ts`, 2Checkout route, `invite.service.ts`, delete route, first login) | `Account.status`, `User`, `InviteToken`; Redis idempotency keys | signup, payment notification, first user, invite, accept, delete | 2Checkout, ERPNext, e-mail | payments are recorded once, a paid account survives, an account keeps its owner, a deleted one stays empty | `Accounts` |
| **Rate limits** (`lib/api/rate-limit-tiers.ts`) | Redis sorted set per tier and client | `checkTieredRateLimit`, `checkEmailRateLimit`, `checkErpAccountRateLimit` | every public route | no more than the limit pass in a window; denials are deserved; fails closed | `RateLimits` |
| **Audit trail** (`audit.service.ts`, export route, retention job and scripts) | `AuditLog` rows; the head of the hash chain in Redis for 30 days | `logAudit`, export, retention; list | every route, not awaited | the chain forks or restarts only for a reason; retention cuts its old end only; an export misses and repeats only what moved | `AuditTrail` |
| **Cache** (`lib/cache.ts`, `lib/events.ts`) | an LRU in every process, Redis entries, tag sets | `wrap` (get, load, set), `invalidate` | `lib/events.ts:100`, which invalidates; nothing in the repository calls `wrap` yet | answers are of bounded age; an invalidation reaches what it names | `TwoLevelCache`, which implements `BoundedStaleness` |
| **ERP client and proxy** (`erpnext.client.ts`, `api/erp`) | none | create with retries; reads and lists | ERPNext | a document is created once, or it is known why not | `ErpClient` |
| **Assistant, quota, metering** (chat route, `lib/ai`, POST of `api/erp/doc`, `lib/metering.ts`) | Redis counters by month, the saved conversation | chat, create a document, meter | the model, `ErpClient` | the quota is overrun only by concurrent chats; nothing is charged twice; the conversation stays whole | `Usage` |
| **Events** (`lib/realtime.ts`, stream route) | Redis subscriptions, open streams | publish, subscribe, open, close | browsers | a closed stream leaves a subscription only for a known reason | `Realtime` |
| **Synchronisation and flags** (`lib/jobs`, `feature-flags.ts`, `useFeatureFlag.ts`) | BullMQ jobs, cached document and hash; flags, the page's cache and controller | `erp-sync` job, `setFlag`, the hook's mount, fetch, read loop | ERPNext, `Realtime` | a change is announced; a page shows it; a page's stream can be closed | `Propagation` |
| **Other jobs** (`lib/jobs`) | BullMQ queues | clean-up, e-mail, reports | all of the above | what they delete is old enough | clean-ups in `Sessions` and `AuditTrail` |
| **Pure rules** (`rbac.ts`, `csrf.ts`, flag rules, experiments) | none | decide | routes | decisions agree with their tables | not modelled (section 5) |

How they meet. A login asks the rate limiter, reads the lockout, asks ERPNext and
creates a session; a password reset changes ERPNext and deletes sessions; a first
login creates the owner of an account; an account deletion deletes users, invites
and sessions; webhook deliveries and the clean-up jobs run beside all of them. The
assistant's tools and the document route create ERP documents through the same
client; the synchronisation jobs and `setFlag` publish over the same channel. The
boundaries of the models follow these calls: `Credentials` keeps of a session only
the password it was opened with, `Sessions` takes every bulk deletion, whoever
asks for it, as one action, and `Accounts` keeps of a login only the step that
creates the owner. `Usage` composes the assistant and the route with `ErpClient`,
`Propagation` the jobs and the flags with `Realtime`, each by EXTENDS and shared
variables. `PROJECT.json` lists the rest of the repository (UI,
observability, analytics, e-mail templates, encryption, deployment, generated
client) with the reason each is left out.

What is hard to test in it is listed in `PROJECT.json` under `hazards`, each at
its line: stale reads (a row read before an `await` and used after it), writes in
the wrong order between two stores, a store failing between two steps,
notifications repeated, and counters near their limits.

## 2. The modules

All modules share these conventions. An action is one step of one operation, cut
at its `await`s; a record with a field `pc` is a handler in flight; `now` is a
discrete clock. A block of *history* variables is written, never read, by the
actions, and lets a property speak of the past. A member of `Tokens`, `Invites`,
`Requests` and so on is used once. Faults are spent from a budget (`MaxFaults`,
`MaxMishaps`) or allowed by a switch (`RedisMayFail`, `DbMayFail`). Invariants that
only a proof needs stand in the module when they explain the property, and in the
proof module when they are bookkeeping.

### Sessions

`row` is the table, `cacheUntil` the Redis entry (the time it expires), `call` the
requests in `validateSession` (and logouts, which validate first and then
revoke), `login` the executions of `createSession`. `Begin`, `CacheHit`,
`CacheMiss`, `DbRead`, `Check`, `Drop`, `Touch`, `CacheFill` are the awaits of
`validateSession` in order; `RevokeRow`, `RevokeFlush` those of `revokeSession`;
`CountActive`, `Evict`, `Insert` those of `createSession`. `BulkDelete`,
`DeleteExpired`, `DeleteInactive` and `CleanupScript` delete rows and leave the
cache alone, as the code does. `MaxLatency` is the longest a validation takes:
the code sets no bound, so results are stated in terms of it.

The cached role and the tenant fields are left out: they follow the entry.

### WebhookCircuit

One endpoint (endpoints share nothing), any number of workers. `db` holds the two
columns, `mirror` the Redis copy. `recordSuccess` and `recordFailure` are awaited
inside the `try` of `attemptDelivery`, whose `catch` records a failure: `inTry`
and `Throw` model that an exception in a recording becomes another recording.
`Crash` is the death of the process that runs `attemptDelivery`, whichever that will
be. Either may hit a command that has been executed all the same, in the database
(`Half`) or in Redis (`HalfMirror`). Two history variables: `cuts` counts the mishaps
since the count last restarted, each of which delays the trip by one failure at most,
and `outrun` the workers whose count was restarted after they had read it (`Holding`
are those that have read one and may yet decide on it). Names say `Circuit` where another
module has the same idea, since `DeliveryProofs` extends this module and `Propagation`.

### Credentials

One user. `user` holds the lockout columns, `erp` the password ERPNext accepts,
`hash` the local copy only the change of password uses. A login reads the counter
in `BeginLogin`, asks ERPNext in `Verify` and writes what it computed from the old
value in `RecordFailure`. A reset spans `Invalidate` and `CreateToken`; its
application spans ERPNext (`ApplyErp`, which may change the password and fail all
the same) and the transaction (`Commit`). ERPNext may come to a request whose client
has given up: `ApplyLate` for a reset, which has ended by then, `ChangeLate` for a
change of password, which has ignored the silence and gone on. A session is the password it was opened
with, and the actions delete sessions where the code does. `carried`, a history
variable, is the passwords that logins past their verification, resets that broke off
and changes of password have carried over a newer one. `Level(l)` is the count a
login's failure would start from, `Profile` how many logins start from at most j,
and `Profiles(n, t)` every profile there is: the bound on guesses counts them.

### Accounts

Signups with one e-mail address, so that at most one account has a row at a time
(`Account.email` is unique). A transaction is a read step and a commit step;
unique and foreign keys are checked at the commit. `paid` is what 2Checkout knows,
`keys` the idempotency keys, `acked` the notifications answered with 200. The
history variables `crossed`, `late` and `dropped` name the races and failures that
the properties except, each by what makes it happen and never by its effect. A payment
names an account or none, and its order number comes as REFNO, under another name, or not
at all (`Numbered`, `Addressed`): without a number no key is claimed, and where nothing
else names an account the REFNO is taken for one, which no row has. `ClaimKey` claims the
key; `SetKey` is the command, which may be executed and its reply lost, and which the
Redis client then sends again (`Resend`), to be told that its own key is another's.
`dropped` is the orders that were answered, or whose key was set, by a handler that
records nothing: the notification named no account with a row; the handler failed with
the key set, or after the order was answered for; the reply to the key's SET was lost.
`Marks(r)` is the handlers that hold the right to record order r.

### RateLimits

One key. A pipeline is not a transaction, so trim, add, count and expire are four
steps. `Break` and `LoseReplies` are a connection lost before and after the
commands run; `Refuse` is a missing client or an `exec` that throws. The clocks of
the servers agree; a request carries the time it read when it began (`stamp`),
which is why entries can arrive out of order. `checkEmailRateLimit` and
`checkErpAccountRateLimit` are the same algorithm with a fixed limit.

### AuditTrail

One account's chain. `call[w]` is a call of `logAudit` and then the row it
inserted; `ReadHead`, `CreateRow`, `WriteHead` are its awaits, each with its
failure: a head that cannot be read is GENESIS, a head that cannot be written is
ignored, as the code does. `ResendHead` is the Redis client repeating a SET whose reply
was lost, after which an older head stands again (`resent`). A hash stands for what it commits to, the sequence of
`<<action, time>>` it was made of, so that equal contents have equal hashes and
nothing else has. `Retire` is the job or a script, with its own age; `Page` is one
batch of the export, `skip` and `take` over a table that changes. `CreateRow` takes
a timestamp anywhere between the hashing and the insertion (the column's default
is the time the insertion begins). `LoseHead` is a Redis that restarts empty.

### ErpClient and Usage

`ErpClient` is `fetchErp` for requests that create a document. `request[c][i]` is
what ERPNext has made of the i-th request of call c: a request the client no
longer waits for may be executed later, or never (`Execute`). `Busy` and
`LoseAnswer` send another, `GiveUp` is the time-out, which is not retried.

`Usage` begins calls with `CallErp` from the assistant's tool calls (several at
once) and from the POST route, and reads their outcome. A chat reads the two
counters, the history, goes through its rounds, records what it used and saves the
conversation, each an await of its own. `RecordBreaks` and `MeterBreaks` lose the
replies of counter commands, which have then been executed, or not, or twice. One
round costs one token, the answers of the model are arbitrary. The two counters are
read one after the other; `Tick` does not carry a chat between the two reads past
the time that month's counters live at least (`ReadsAreAnswered`): 35 days from the
first of a month, while a command of the client in `lib/redis.ts` gives up after two
retries.

### BoundedStaleness and TwoLevelCache

`BoundedStaleness` is the abstract specification: a source whose versions are
replaced, and readers that are answered with a version that was current at most
`BOUND` ago. `TwoLevelCache` models one key and its tag: `l1[p]` is the entry in
the memory of process p, `l2` the one in Redis, `tagged` whether the tag's set
names the key. `Begin`, `Read`, `Refill`, `Load`, `KeepLoaded`, `Store`, `Tag` are
the steps of `wrap`; `Find`, `Delete`, `Untag`, `DropLocal` those of
`invalidate`, whose pipeline is not a transaction. `Abstract` is the refinement:
the clock and the replacements are the same, an answer is the version of a call
that is done, and `BOUND` is `TTL + HIT_TTL + 2 * LATENCY`: an entry loaded by a
slow call, found at the end of its life in Redis by another slow call, and kept in
memory for five seconds more. Loads take at most `LATENCY`; the code sets no bound.

### Realtime and Propagation

`Realtime` is a stream with its Redis subscription: `Open`, `Subscribe`, `Close`
(which is too early for `unsubscribe` before the subscription is made: `hasty`), `Lapse`
and `Resubscribe` of the subscriber's connection, and `Publish`, which reaches whoever
is subscribed and nobody later. `unsubscribe` awaits UNSUBSCRIBE before it disconnects
the client, so a closed stream is `releasing` until `Release`; while the connection is
down the command may be rejected (`ReleaseFails`), which nobody catches: the stream is
`abandoned`, its client never disconnected, and `Resubscribe` subscribes it again. A
`subscribe` that is rejected leaves its client's connection behind too, but no stream
that would use it; it is not modelled.

`Propagation` publishes over it. A document's job is `Fetch`, `CompareHash`,
`StoreDoc`, `StoreHash`, `PublishDoc`, retried as BullMQ does: as often as the
queue says after an error (`AttemptFails`), once after the worker died
(`WorkerDies`); keys expire at any time. A flag is `SetFlag` and `PublishFlag`; a
page mounts instances of the hook that share `cachedFlag` and `controller`, and
reads streams in loops (`reading`) that end after the stream they read was
aborted. Nobody enqueues `erp-sync` jobs in this repository; the worker is modelled
for whoever will.

## 3. The runs

"States" counts the distinct states of a complete search.

| Run | Question | States | Bounds and why they are enough |
|---|---|---|---|
| `SessionsRequests` | how stale can an accepted session, and its `lastActiveAt`, be? | 914,135 | Two calls race; one session, since sessions only meet in `createSession`. TTL 2, latency 1, touch interval 2, idle timeout 4, time 6: an entry expires, a session idles out, a touch is throttled, all within the clock. Both stores may fail at every step. |
| `SessionsLogins` | does the limit hold for a user whose logins did not overlap? | 322,398 | Two logins, three tokens, limit two: the third login evicts, and two may race. |
| `WebhookCircuit` | does the breaker trip, by how much does it overshoot, when does it trip early, does it leave a dead endpoint alone? | 572,691 | Two workers, threshold two, one await that throws or worker that dies anywhere: both can be past the increment at once, with an enable in between. The failure count needs no bound: the breaker bounds it. |
| `CredentialsLockout` | how many wrong passwords fit before a lock, and which sessions outlive a reset? | 3,446,785 | Two logins over a threshold of two, with a reset and a change of password, one fault, locks that end. |
| `CredentialsResets` | how many tokens are live, how often is one used? | 353,598 | Two overlapping requests, two applications, three tokens, one fault (an application ERPNext executes late among them), tokens that expire. |
| `Accounts` | all of the account's life, interleaved | 686,372 | Two accounts of one address (one replaces the other), an owner and a guest, one of each process and two deliveries of one payment, one fault anywhere. `UnusualPaymentsApart` looks at payments without an account or a REFNO while nobody logs in or is a member: the handler of a payment reads nothing of the team. Two logins and two acceptances at once (the races at `login/route.ts:128` and `invite.service.ts:110`) are left to the theorems. No symmetry: the run checks liveness. |
| `RateLimits` | what passes in a window, and what does a denial rest on? | 1,123,253 | Three requests to two endpoints with limits one and two; window 3, latency 1, time 6, so that entries leave the window and the key expires; one fault. |
| `AuditTrail` | when does the chain fork or restart, what does an export miss or repeat? | 1,190,765 | Three entries (a fork and its successor), heads that live 2 in a time of 2, retention at age 0, an export in batches of one, one fault. `ExportsRun` follows an export only where no fault has happened and leaves the state in which it ends: nothing depends on an export. |
| `Usage` | how far is the quota overrun, what is counted, what do retries create? | 951,660 | Three chats of one conversation over limits of two chats and three tokens, three rounds, one document with two attempts, a month that ends, one fault. `PostsAlone` and `TwoAtATime` keep the post apart from the chats (they share only ERPNext) and let two chats overlap, the third before or after them. |
| `TwoLevelCache` | how old can an answer be, and when is it older than an invalidation? | 988,762 | Two processes, three calls, two invalidations, one replacement, one fault, lives and latency of one, time 5: a version outlives both lives and two calls. `Bounded` allows all three calls over the whole time where nothing is invalidated and nothing fails, and at most two operations at once elsewhere. |
| `Propagation` | what is announced, which streams and subscriptions are left behind? | 280,174 | Two jobs with two attempts on one document and two faults, or one change of a flag that two instances of the hook show over two streams. `OneAtATime` keeps the two apart: they share only `Realtime`. No symmetry: the run checks liveness. |
| `PropagationFlags` (violation) | does a flag reach a page with an open stream? | | see Findings |

A state constraint (the operators named above stand in the MC modules) is a bound
like a constant: states beyond it are checked and not left. Each separates
operations that share no state, or limits how many overlap, as its row says.

What the passing runs show:

* **Sessions.** A session whose row is gone is accepted at most `MaxLatency +
  SESSION_CACHE_TTL` after the deletion (`RevocationBounded`), whichever path
  deleted it; every acceptance rests on checks at most that old
  (`AcceptanceBacked`); `lastActiveAt` lags an acceptance by at most that plus the
  throttle interval, or plus one more latency if validations take longer than the
  interval (`ActivityLagBounded`), and moves backwards by at most one latency
  (`ActivityRewindBounded`). A user whose logins do not overlap never exceeds the
  limit (`SerialLoginsRespectLimit`). ADR-003 promises that a
  revocation is immediate; it is not, since a validation that read the row before a
  logout writes the cache entry back after it (`session.service.ts:199`), and
  `RevocationBounded` is what holds instead.
* **Webhooks.** An endpoint whose count has reached the threshold is disabled once no
  recording is in progress (`TrippedAtThreshold`), and the count exceeds the threshold
  by less than the number of workers (`OvershootBounded`); each await that throws and
  each worker that dies moves both by one, until the count restarts. That is real: the
  mirror is written between the increment and the decision (`delivery.ts:158`), and when
  that throws the endpoint stays enabled, until the next failure. Below the threshold an
  endpoint is disabled only by a worker that had read the count before a success or an
  administrator restarted it (`EarlyTripIsOutrun`; `delivery.ts:162` decides on the row an
  earlier step returned). An endpoint that never answers is eventually left alone, faults
  or not (`DeadEndpointIsLeftAlone`).
* **Credentials.** The lost updates of the counter allow N logins at a time at most
  `N - 1 + choose(N+T-1, N)` wrong guesses before a lock with a threshold of T, and one
  more per fault (`GuessesBounded`); four for the two logins and the threshold of two
  of the run, twelve for three and three. `MCCredentials` has TLC count that
  there are `choose(n+t-1, n)` members of `Profiles(n, t)`, in whose terms the bound is
  stated. At most one live reset token per overlapping request
  (`LiveTokensBounded`); a token changes
  the password at most once per concurrent application and fault
  (`TokenUsesBounded`). A reset leaves no session open that was opened with an
  earlier password (`ResetRevokes`) but for those of logins that had verified it
  before the reset's transaction and create their session after it
  (`login/route.ts:232`), of resets that broke off, whose password ERPNext has taken or
  takes later, and what a change of password spares.
* **Accounts.** A payment with an order number is recorded once per fault-free history
  (`RecordedOnce`), and every payment is eventually answered (`PaymentsAreAcknowledged`).
  An answered one is recorded, or about to be (`AcknowledgedIsRecorded`), with these
  exceptions: a handler failed with the key set (the key of `2checkout/route.ts:95`
  survives the failure, and the retry is taken for a duplicate) or while it repeated the
  recording of an order already answered; the reply to the key's SET was lost, and the
  Redis client's second SET, or 2Checkout's retry, finds the key and is answered as a
  duplicate (`:96`); the notification named no account that has a row (`:103`,
  `billing.service.ts:98`). Signup replaces an active account only if the
  activation fell between its read and its commit (`ActiveSurvivesSignup`). The
  owner's role survives every invite (`OwnerStays`), members were invited
  (`MembersWereInvited`), a deleted account stays empty unless one of its requests
  was in flight (`DeletedIsVacated`).
* **Rate limits.** However the commands of concurrent checks interleave, an
  endpoint admits no more than its limit within the window less the time a check
  takes (`AdmissionBounded`), and no request is denied by its count unless more
  than the limit were made in its window, by its own or another endpoint of the
  tier (`DenialIsBacked`). Requests whose count was lost on the way are excepted:
  they pass on the count 1 (`results?.[2]?.[1] ?? 1`, `rate-limit-tiers.ts:111`).
* **Audit trail.** Whatever calls overlap, fail or die, an entry continues GENESIS
  or an entry no younger than itself, and retention never deletes an entry and
  keeps the one it continues (`ChainIsRooted`). Calls one after the other form a
  line: two entries continue the same one only if their calls overlapped, the head
  was not written, an older one was sent again, or the entry has a double
  (`ForksNeedOverlap`). The chain starts
  afresh only when Redis failed or after 30 quiet days (`RestartsNeedQuiet`). An
  export not cut short misses at most as many rows as were deleted from its range
  meanwhile and repeats at most as many as were inserted, if no two timestamps are
  equal (`ExportIsFaithful`); a query that throws closes the stream as if it were
  complete, which the reader cannot tell.
* **Usage.** Retries create a document too many only for a request whose answer was
  lost, and a success is never reported without a document
  (`DocumentsAreAccounted`). The quota holds for chats that follow one another
  (`QuotaHoldsInSequence`); concurrent ones all pass on the same count. While no
  counter command is lost, the counters are exactly the chats recorded in that
  month and the posts acknowledged (`CountersAreExact`): nothing is charged twice
  over retries, failures or the end of a month. Of two chats of one conversation
  the later save drops the other's turn, but what is saved is always whole turns
  of chats that were charged for (`ConversationIsWhole`).
* **Cache.** `TwoLevelCache` implements `BoundedStaleness` (`BoundsStaleness`, as a
  PROPERTY with its refinement mapping). An answer is older than what an
  invalidation announced only if it went through a call that overlapped an
  invalidation or was hit by a fault (`StaleOnlyIfRaced`).
* **Propagation.** A hash that is cached was published or is about to be, unless
  the job was cut short in between (`AnnouncedUnlessInterrupted`), and a change a
  job is to pick up is announced in the end with the same exception or when the
  job failed for good (`ChangeIsAnnounced`). A closed stream holds a subscription only
  while it is being released, if it was closed while subscribing, or if UNSUBSCRIBE was
  rejected because the connection was down (`SubscriptionsReleased`; nobody catches that
  at `stream/route.ts:59` and `:64`, `realtime.ts:74` is not reached, and the client
  subscribes again), and a page can close
  every stream it has open unless the loop of an older stream cleared its
  controller (`OpenStreamsAreHeld`).

### Fairness

Three runs check liveness. `WebhookCircuit` assumes weak fairness of an attempt
whose fetch has begun: `fetch` has a 30 s timeout, and a Prisma or Redis call
answers or throws. Nothing is assumed of when deliveries begin. `Accounts` assumes
that 2Checkout repeats a notification until it is answered with 200 (its
documented behaviour, which the idempotency key in the code relies on) and that a
handler that has begun runs on. `Propagation` assumes that the queue runs a job
that waits, that a job, a call of `setFlag` and a page go on with what they have
begun, and that a page reads what its stream has sent: weak fairness of their own
steps, none of failures, expiry, changes or the network. Faults are bounded in
number, so each property says what comes "after finitely many faults". All other
runs check safety only, with no fairness.

Deadlock is checked in the Sessions and WebhookCircuit runs. The others say
`CHECK_DEADLOCK FALSE`: ids are used once there (and time is bounded), so a
history may come to its end.

### Findings

One run ends in a violation. `PropagationFlags`: the stream route puts the type of
an event on a line of its own and only the payload in the data
(`stream/route.ts:35`), while the hook looks for the type in the data
(`useFeatureFlag.ts:47`). It never recognises a flag change, and a page whose
stream is connected shows the old value until it is reloaded, although
`useFeatureFlag.ts:6` promises the opposite.

Where the code and its documents differ but a property says what holds instead,
the property names the exception (see above): immediate revocation
(`RevocationBounded`), the threshold (`TrippedAtThreshold`), sessions after a reset
(`ResetRevokes`), acknowledged payments (`AcknowledgedIsRecorded`), the limit
during an outage (`AdmissionBounded`). Others met while modelling, which no
property of a run states:

* The clean-up job deletes audit entries after 90 days (`workers.ts:224`);
  `data-retention.ts:2` promises 365, "1 year minimum for SOC 2". `AuditTrail`
  takes either age.
* Stale-while-revalidate is documented (`cache.ts:6`, `:16`, `:114`) and not
  implemented. An invalidation that finds its tag empty leaves even its own
  process's memory alone; a key added to a tag between the SMEMBERS and the DEL of
  an invalidation is not found by later ones.
* A stream that ends in order leaves the page's controller set, so that no
  other stream is opened; only the first instance of the hook registers what
  clears the cache.
* A payment for an account that a second signup replaced updates no row and is
  answered as recorded (`billing.service.ts:98`); one for a deleted account makes
  it active again (`billing.service.ts:105`).
* The change of password compares with a local hash that resets never update.
* `createPipeline` and `lib/ratelimit.ts` are used by no route.

## 4. The proofs

Every safety invariant and action property that a run checks is also a theorem, for
every value of the constants. `SessionsProofs`, `CredentialsProofs`,
`AccountsProofs`, `RateLimitsProofs`, `AuditTrailProofs`, `TwoLevelCacheProofs` and
`UsageProofs` each extend their module; `DeliveryProofs` extends the two that deliver
something from here to elsewhere, `WebhookCircuit` and `Propagation`. The assumptions
are the named ASSUMEs of the modules: durations are natural numbers, limits positive,
sets that are counted finite, and the absent values are not values. In `RateLimits`
the latency is shorter than the window; in `Usage` the history keeps an even number
of messages and counters outlive their month (20 and 35 days in the code). Everything
else (how many requests, workers, sessions, accounts, faults, how long the times are)
is arbitrary. What is said of the documents of `ErpClient` rests only on its own
assumptions: whatever else its callers do, they touch its state through `CallErp`
alone (`CallersUseCallErp`).

Every proof has the same shape: typing, the inductive invariant, one step for
each action and under it one for each conjunct it can disturb, and the theorem.

* **Sessions.** `StalenessInv` is inductive with `TypeOK`: a cache entry of a
  session whose row is gone ends by `deletedAt + MaxLatency + TTL`, and a
  validation that holds a deleted row began before the deletion. The second
  conjunct is what the first needs when `CacheFill` writes: the validation began
  before the deletion and has not outlived its latency. `PassedInv` says the same
  of the last passed check. From it: `StalenessInvariant`,
  `RevocationIsBounded`, `AcceptanceIsBacked`. `ActivityInv` follows `lastActive` from
  the row to the validation that read it and to the cache entry it leaves: the row may
  be written by another validation in between, with a clock up to one latency old. A
  row that trails by the throttle interval when nobody else writes may therefore trail
  by a latency when somebody does, which is why `UpdateLag` is the longer of the two.
  From it: `ActivityInvariant`, `ActivityLagIsBounded`; `ActivityRewindIsBounded` adds
  that no row is ahead of the clock and that a touch writes a time at most one latency
  old. For the logins: one that has counted keeps its room (`Spared`, the rows it will not evict, are fewer than the
  limit) as long as no other login of the user inserts, and if one does, the two
  overlap (`LimitInv`, `SerialLoginsAreLimited`).
* **WebhookCircuit.** `TrippedAtThreshold` is not inductive: a count at the
  threshold is legal while a worker is on its way to trip. `CircuitInv` counts
  those workers (`Tripping`) while the breaker is closed, those that can still add
  (`Counting`) while it is open, and the mishaps since the count restarted (`cuts`) in
  both: a mishap may leave a failure at the threshold that nobody decides on. From it:
  `CircuitInvariant`, `BreakerTrips`, `OvershootIsBounded`. `HoldingInv` says of a worker
  about to trip that it read a count at the threshold, and of every count read that the
  row's has not fallen below it unless the worker is in `outrun`: hence
  `EarlyTripsAreOutrun`.
* **Credentials.** `UnusedInv`: unused tokens and requests about to create one
  together never outnumber the requests, since an invalidation uses up all tokens
  and every other request holds at most one. From it `LiveTokensAreBounded`. `UsesInv`
  charges every use of a token to the application that awaits its transaction, or
  to the one fault by which it broke off, and once the token is marked used to one of
  the applications that had read it before (`TokenUsesAreBounded`). A broken application
  that ERPNext may yet execute has its fault already and its use to come, so `UsesInv`
  counts it with the uses.
  `GuessInv` is the argument for the lockout. Every login, about to fail or yet to
  begin, counts from a level: the counter it holds if it has read it (and no more than
  the present one), the present one otherwise. A failure that is written without
  locking lowers the profile of these levels in the lexicographic order, however old
  the value it was computed from, and no step but what restarts the count raises it;
  so the wrong guesses so far and the profiles still below (`Left`) together never
  exceed all the profiles, the failures not yet written and the faults
  (`GuessesAreBounded`). TLC reaches the bound with three
  logins and a threshold of three: it is the true cost of the lost updates.
  `RevokeInv` says of the logins that have verified a password what `ResetRevokes`
  says of sessions: whatever either holds is the present password or one carried
  over; from it `ResetsRevoke`.
* **Accounts.** `AccountInv` has three parts: foreign keys, the owner (whatever is
  or is about to be an invite is addressed to someone else), and what can still
  repopulate a deleted account is in `late`. From it: `OwnerRemains`,
  `DeletionIsFinal`. For the payments, `ClaimInv` counts the right to record an order:
  it was used, is held by a handler, or the key is free to be claimed, once in all and
  once more per fault; `KeyInv` says that a key that is set, like an answer, stands for
  a handler or a record unless the order is in `dropped`. From them
  `OrdersRecordedOnce`, `AnsweredIsRecorded`. `CrossedInv` speaks of the signup between
  its read and its commit (`ActiveIsNotReplaced`), and `MailInv` of an invite between
  its row and its mail, when only one request knows it: that keeps the role and
  the address of whoever accepts those of the invitation (`MembersAreInvited`).
* **RateLimits.** `RateInv`: what has been added and is younger than the window
  less the latency is still in the set, unless the key lapsed; between the trim and
  the count of a check, no entry of the set is outside its window. Hence the last
  request to count sees every recent request that has passed, which bounds them
  (`AdmissionIsBounded`), and all it sees was made in its window (`DenialBacked`).

* **AuditTrail.** `ChainInv`: an entry that does not begin a chain continues the
  entry of a call that had written the head, was inserted before its own hash was
  made, and is deleted first. That the head is the hash of such an entry, and that
  the times of a call are in order (`Clocks`), are what makes it inductive. From
  it `ChainRooted`. `FreshInv` follows how long a head has to live after each call
  that wrote it (`RestartsAreQuiet`); `ForkInv` says that a head some entry already
  continues is the hash of two entries, or was put back by a second SET
  (`ForksOverlap`). For the exports, `OnTrack`: let
  T be the first `skip` rows of the query as the table is now, which the export takes
  for sent. Of the rows it wanted, those in T or deleted that it never sent are at most
  as many as were deleted, and a row has been sent at most once per insertion, and
  once more if it is in T. An insertion before the offset pushes a row out of T, and a
  deletion pulls one in; the new T is a witness in each case (`ExportsAreFaithful`).
* **TwoLevelCache.** `CacheInv`: an entry with a life of n left holds a version that
  was current within the rest of its longest life, a call that has loaded one that
  was current when it began, a call that has found one in Redis one that was
  current when an entry alive then was written. It bounds what is answered, and
  `StepImplements` maps every step of the cache to one of `BoundedStaleness` or to
  a stutter: `StalenessIsBounded` is `Spec => BoundsStaleness`. `RaceInv` is what
  invalidations leave behind: an entry in Redis is named in its tag's set unless its
  writer is about to add it or raced; while an invalidation runs, every active call is
  in `raced`; once it is done, what is older and still held by Redis, by a call or by
  its own process went through a raced call, and what another process holds in memory
  from before has no more than its short life left. From it `StalenessIsExplained`.
* **Usage.** `ErpInv` counts the requests of a call that were sent and not refused
  (`Loose`): all but the present one were left without an answer. It speaks of
  requests and not of documents, since one that is still on its way may create its
  document later. From it `DocumentsAccounted`. `HistoryInv`: the saved conversation,
  and the one every chat has read, is whole turns of chats already charged; cutting
  it to its last messages keeps whole turns because their number is even
  (`ConversationWhole`). `CountInv`: the counters of a month cover what its chats
  recorded, exactly while nothing is `unsure`, as long as they live; what a chat has
  read covers the chats that had recorded before it began; and a created post owns a
  created call. From it `QuotaHolds`, `CountersExact`.
* **Propagation and Realtime.** `PropagationInv` is the type invariant with the three
  properties, inductive as they stand: each already names the handlers that are in
  between. From it `FeedTyped`, `ChangesAreAnnounced`, `SubscriptionsAreReleased`,
  `StreamsAreHeld`.

Model-checked only: the liveness properties `DeadEndpointIsLeftAlone`,
`PaymentsAreAcknowledged` and `ChangeIsAnnounced`, since fairness and ENABLED are
outside the prover's logic, the violation of `FlagsPropagate`, and the closed form of
the bound on guesses (`ProfilesAreCounted`), whose proof is an induction over data. The
typing of `Sessions`, `WebhookCircuit`, `Credentials` and `RateLimits` is proved and not
run on its own.
None of the modules uses a RECURSIVE operator.

## 5. What is not modelled, and the plan

Abstracted in the modelled parts: e-mail texts, hashing and encryption, HTTP
status codes beyond success and failure, logging and audit calls (not awaited, no
effect on the caller), clock differences between servers, Postgres failing over.
Roles and tenant fields of a session follow its cache entry and are left out.

Not modelled:

* *Roles and permissions* (`rbac.ts`), *experiments*, *flag rules* (`getFlag`, which
  no route calls): pure functions and tables; a model would repeat them.
* *CSRF tokens*: stateless; what two tabs make of a shared cookie is below.
* *API pipeline*: composes checks modelled here and is used by no route.
* *E-mail and report jobs*, *notifications*, *analytics*, *observability*, *active
  users of the metering*: they write what nothing reads to decide.
* *Encryption and secrets*, the *user interface*, *deployment*, the *generated
  Prisma client* (most of the repository's lines) and *load tests*: data,
  presentation or other people's code.

Next, in order:

1. Abstract specifications for two more components: a *breaker* (closed, tripping,
   open) implemented by `WebhookCircuit`, and a *ledger* (a payment is pending,
   recorded or lost) implemented by `Accounts`, each with its refinement proved.
2. Composition: login, sessions and password reset in one module, with the role
   of a session, to replace the reduced sessions of `Credentials`.
3. CSRF tokens with two tabs, and the active users of the metering.
