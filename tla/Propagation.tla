------------------------------- MODULE Propagation -------------------------------
(***************************************************************************)
(* Two changes that are announced over Realtime.                            *)
(*                                                                         *)
(* An ERP document: the erp-sync jobs of lib/jobs/workers.ts fetch it,      *)
(* compare its hash with the cached one, cache both and publish the         *)
(* change.  Jobs run side by side, are tried ATTEMPTS times, and run again  *)
(* when their worker dies.                                                  *)
(*                                                                         *)
(* A feature flag: setFlag of lib/feature-flags.ts stores and publishes it, *)
(* and the hook of lib/hooks/useFeatureFlag.ts, of which a page mounts      *)
(* instances that share a cache and a stream, shows it.                     *)
(*                                                                         *)
(* Bounds: each job and change is used once; the document and the flag have *)
(* versions up to MaxVersion; MaxFaults.  Cached keys expire at any time.   *)
(***************************************************************************)
EXTENDS Realtime

CONSTANTS
    Jobs,
    ATTEMPTS,
    Changes,      \* calls of setFlag
    Hooks,        \* instances of useFeatureFlag for the flag
    MaxVersion,
    None

ASSUME AttemptsArePositive == ATTEMPTS \in Nat \ {0}
ASSUME EventsAreNamed == Events = {"erp.doc_updated", "flag.updated"}
ASSUME VersionsAreCounted == MaxVersion \in Nat

Versions == 0..MaxVersion

ASSUME NoneIsAbsent == None \notin Versions \cup Streams

\* A job: the version it fetched, how many attempts it has failed, and whether it has stalled.
Job == [pc: {"unused", "waiting", "hash", "doc", "store", "publish", "done", "failed"},
        version: Versions, failures: 0..ATTEMPTS, stalled: BOOLEAN]

\* An instance of the hook: what it shows, and the reply its fetch waits for.
Hook == [mounted: BOOLEAN, shown: Versions \cup {None}, fetch: {"none", "asked", "answered"},
         reply: Versions]

VARIABLES
    document,     \* the version in the ERP system
    cachedDoc, cachedHash,
    job,
    flag,         \* the version stored in Redis; 0 is the configured default
    change,       \* change[a]: where the call of setFlag is
    hook,
    cachedFlag,   \* _cache of the page
    controller,   \* _sseController: the stream it was made for
    reading,      \* the streams whose reading loop has not ended
    \* History: written, never read, by the actions.
    overtaken,    \* streams that lost their controller when the loop of an older one ended
    announced,    \* versions of the document whose change was published
    interrupted   \* versions whose job was hit by a fault between caching the hash and publishing

sync == <<document, cachedDoc, cachedHash, job, announced, interrupted>>
page == <<hook, cachedFlag, controller, reading, overtaken>>
flags == <<flag, change>>
vars == <<streams, faults, sync, flags, page>>

TypeOK ==
    /\ RealtimeTypeOK
    /\ document \in Versions
    /\ cachedDoc \in Versions \cup {None} /\ cachedHash \in Versions \cup {None}
    /\ job \in [Jobs -> Job]
    /\ \A j \in Jobs : /\ job[j].failures = ATTEMPTS => job[j].pc = "failed"
                       /\ job[j].pc = "failed" => job[j].failures = ATTEMPTS \/ job[j].stalled
    /\ flag \in Versions
    /\ change \in [Changes -> {"unused", "publish", "done"}]
    /\ hook \in [Hooks -> Hook]
    /\ cachedFlag \in Versions \cup {None}
    /\ controller \in Streams \cup {None}
    /\ reading \in SUBSET Streams /\ overtaken \in SUBSET Streams
    /\ announced \in SUBSET Versions /\ interrupted \in SUBSET Versions

Init ==
    /\ RealtimeInit
    /\ document = 0 /\ cachedDoc = None /\ cachedHash = None
    /\ job = [j \in Jobs |-> [pc |-> "unused", version |-> 0, failures |-> 0, stalled |-> FALSE]]
    /\ flag = 0
    /\ change = [a \in Changes |-> "unused"]
    /\ hook = [h \in Hooks |-> [mounted |-> FALSE, shown |-> None, fetch |-> "none",
                             reply |-> 0]]
    /\ cachedFlag = None /\ controller = None
    /\ reading = {} /\ overtaken = {}
    /\ announced = {} /\ interrupted = {}

-----------------------------------------------------------------------------
(* The document *)

At(j, pc) == job[j].pc = pc
Go(j, pc) == job' = [job EXCEPT ![j].pc = pc]

DocumentChanges ==
    /\ document < MaxVersion
    /\ document' = document + 1
    /\ UNCHANGED <<streams, faults, cachedDoc, cachedHash, job, flags, page, announced, interrupted>>

Enqueue(j) ==
    /\ At(j, "unused")
    /\ Go(j, "waiting")
    /\ UNCHANGED <<streams, faults, document, cachedDoc, cachedHash, flags, page, announced, interrupted>>

Fetch(j) ==
    /\ At(j, "waiting")
    /\ job' = [job EXCEPT ![j].pc = "hash", ![j].version = document]
    /\ UNCHANGED <<streams, faults, document, cachedDoc, cachedHash, flags, page, announced, interrupted>>

\* The document is published only when its hash is not the cached one.
CompareDoc(j) ==
    /\ At(j, "hash")
    /\ Go(j, IF cachedDoc = job[j].version THEN "done" ELSE "doc")
    /\ UNCHANGED <<streams, faults, document, cachedDoc, cachedHash, flags, page, announced, interrupted>>
CompareHash(j) ==
    /\ At(j, "hash")
    /\ Go(j, IF cachedHash = job[j].version THEN "done" ELSE "doc")
    /\ UNCHANGED <<streams, faults, document, cachedDoc, cachedHash, flags, page, announced, interrupted>>

StoreDocAndHash(j) ==
    /\ At(j, "doc")
    /\ cachedDoc' = job[j].version
    /\ cachedHash' = job[j].version
    /\ Go(j, "store")
    /\ UNCHANGED <<streams, faults, document, flags, page, announced, interrupted>>
StoreDoc(j) ==
    /\ At(j, "doc")
    /\ cachedDoc' = job[j].version
    /\ Go(j, "store")
    /\ UNCHANGED <<streams, faults, document, cachedHash, flags, page, announced, interrupted>>

StoreHash(j) ==
    /\ At(j, "store")
    /\ cachedHash' = job[j].version
    /\ Go(j, "publish")
    /\ UNCHANGED <<streams, faults, document, cachedDoc, flags, page, announced, interrupted>>

PublishDoc(j) ==
    /\ At(j, "publish")
    /\ Publish("erp.doc_updated")
    /\ announced' = announced \cup {job[j].version}
    /\ Go(j, "done")
    /\ UNCHANGED <<connections, faults, document, cachedDoc, cachedHash, flags, page,
                   interrupted>>

PublishDocFails(j) ==
    /\ At(j, "publish")
    /\ PublishFails("erp.doc_updated")
    /\ interrupted' = interrupted \cup {job[j].version}
    /\ Go(j, "done")
    /\ UNCHANGED <<connections, document, cachedDoc, cachedHash, flags, page, announced>>

\* The ERP system or Redis answers with an error, the command executed or not: the job throws, and
\* waits for its next attempt if it has one.
AttemptFailsOnceMore(j) ==
    /\ Fault
    /\ \/ At(j, "waiting") /\ UNCHANGED <<cachedDoc, cachedHash, interrupted>>
       \/ At(j, "hash") /\ UNCHANGED <<cachedDoc, cachedHash, interrupted>>
       \/ At(j, "doc") /\ cachedDoc' \in {cachedDoc, job[j].version}
                       /\ UNCHANGED <<cachedHash, interrupted>>
       \/ At(j, "store") /\ cachedHash' \in {cachedHash, job[j].version}
                         /\ interrupted' = interrupted \cup {job[j].version}
                         /\ UNCHANGED cachedDoc
    /\ job' = [job EXCEPT ![j].failures = @ + 1,
                          ![j].pc = IF job[j].failures = ATTEMPTS THEN "failed" ELSE "waiting"]
    /\ UNCHANGED <<streams, document, flags, page, announced>>
AttemptFails(j) ==
    /\ Fault
    /\ \/ At(j, "waiting") /\ UNCHANGED <<cachedDoc, cachedHash, interrupted>>
       \/ At(j, "hash") /\ UNCHANGED <<cachedDoc, cachedHash, interrupted>>
       \/ At(j, "doc") /\ cachedDoc' \in {cachedDoc, job[j].version}
                       /\ UNCHANGED <<cachedHash, interrupted>>
       \/ At(j, "store") /\ cachedHash' \in {cachedHash, job[j].version}
                         /\ interrupted' = interrupted \cup {job[j].version}
                         /\ UNCHANGED cachedDoc
    /\ job' = [job EXCEPT ![j].failures = @ + 1,
                          ![j].pc = IF job[j].failures + 1 = ATTEMPTS THEN "failed" ELSE "waiting"]
    /\ UNCHANGED <<streams, document, flags, page, announced>>

\* The worker process dies: its jobs stall, and are taken up again from their beginning, once.
WorkerDies ==
    /\ Fault
    /\ job' = [j \in Jobs |->
           IF job[j].pc \in {"hash", "doc", "store", "publish"}
           THEN [job[j] EXCEPT !.pc = IF job[j].stalled THEN "failed" ELSE "waiting",
                               !.stalled = TRUE]
           ELSE job[j]]
    /\ interrupted' = interrupted \cup {job[j].version : j \in {k \in Jobs : At(k, "publish")}}
    /\ UNCHANGED <<streams, document, cachedDoc, cachedHash, flags, page, announced>>

\* The five minutes of a cached key.
Expire ==
    /\ \/ cachedDoc' = None /\ UNCHANGED cachedHash
       \/ cachedHash' = None /\ UNCHANGED cachedDoc
    /\ UNCHANGED <<streams, faults, document, job, flags, page, announced, interrupted>>

-----------------------------------------------------------------------------
(* The flag *)

SetFlag(a) ==
    /\ change[a] = "unused" /\ flag < MaxVersion
    /\ flag' = flag + 1
    /\ change' = [change EXCEPT ![a] = "publish"]
    /\ UNCHANGED <<streams, faults, sync, page>>

PublishFlag(a) ==
    /\ change[a] = "publish"
    /\ Publish("flag.updated")
    /\ change' = [change EXCEPT ![a] = "done"]
    /\ UNCHANGED <<connections, faults, sync, flag, page>>

\* publish swallows the error, or the server dies before it.
PublishFlagFails(a) ==
    /\ change[a] = "publish"
    /\ PublishFails("flag.updated")
    /\ change' = [change EXCEPT ![a] = "done"]
    /\ UNCHANGED <<connections, sync, flag, page>>

\* useEffect: fetch what is not cached, and open the page's stream if there is no controller.
Mount(h) ==
    /\ ~hook[h].mounted
    /\ hook' = [hook EXCEPT ![h].mounted = TRUE, ![h].shown = cachedFlag,
                            ![h].fetch = IF cachedFlag = None THEN "asked" ELSE @]
    /\ IF controller = None
       THEN \E s \in Streams : Open(s) /\ controller' = s /\ reading' = reading \cup {s}
       ELSE UNCHANGED <<streams, controller, reading>>
    /\ UNCHANGED <<faults, sync, flags, cachedFlag, overtaken>>

\* getAllFlags at the server; or an error, such as the 403 for whoever is no admin, which the page
\* ignores.
AnswerFlags(h) ==
    /\ hook[h].fetch = "asked"
    /\ hook' = [hook EXCEPT ![h].fetch = "answered", ![h].reply = flag]
    /\ UNCHANGED <<streams, faults, sync, flags, cachedFlag, controller, reading, overtaken>>
FetchFlagsFails(h) ==
    /\ hook[h].fetch = "asked"
    /\ hook' = [hook EXCEPT ![h].fetch = "none"]
    /\ UNCHANGED <<streams, faults, sync, flags, cachedFlag, controller, reading, overtaken>>

ShowFlag(h) ==
    /\ hook[h].fetch = "answered"
    /\ cachedFlag' = hook[h].reply
    /\ hook' = [hook EXCEPT ![h].fetch = "none", ![h].reply = 0,
                            ![h].shown = IF hook[h].mounted THEN hook[h].reply ELSE @]
    /\ UNCHANGED <<streams, faults, sync, flags, controller, reading, overtaken>>

\* The page reads an event.  The stream puts the type on a line of its own and only the payload in
\* the data the page parses, which therefore has no type: no event is taken for "flag.updated".
ReadEvent ==
    /\ \E r \in reading : \E e \in inbox[r] : inbox' = [inbox EXCEPT ![r] = @ \ {e}]
    /\ UNCHANGED <<connections, faults, sync, flags, page>>

\* The last instance aborts the page's stream, whose loop has yet to notice.
UnmountForgets(h) ==
    /\ hook[h].mounted
    /\ hook' = [hook EXCEPT ![h].mounted = FALSE]
    /\ controller' = IF \A k \in Hooks \ {h} : ~hook[k].mounted THEN None ELSE controller
    /\ UNCHANGED <<streams, faults, sync, flags, cachedFlag, reading, overtaken>>
Unmount(h) ==
    /\ hook[h].mounted
    /\ hook' = [hook EXCEPT ![h].mounted = FALSE]
    /\ IF controller # None /\ \A k \in Hooks \ {h} : ~hook[k].mounted
       THEN /\ controller' = None
            /\ IF stream[controller] = "closed" THEN UNCHANGED streams ELSE Close(controller)
       ELSE UNCHANGED <<streams, controller>>
    /\ UNCHANGED <<faults, sync, flags, cachedFlag, reading, overtaken>>

\* A stream ends in order, which leaves the controller where it is and opens no other stream.
StreamEnds(r) ==
    /\ r \in reading
    /\ Close(r)
    /\ reading' = reading \ {r}
    /\ UNCHANGED <<faults, sync, flags, hook, cachedFlag, controller, overtaken>>

\* A stream breaks, or its loop notices that it was aborted: the controller is forgotten, even if
\* it is that of a stream opened since.
StreamBreaks(r) ==
    /\ r \in reading
    /\ IF stream[r] = "closed" THEN UNCHANGED streams ELSE Close(r)
    /\ reading' = reading \ {r}
    /\ controller' = None
    /\ overtaken' = overtaken \cup ({controller} \ {None, r})
    /\ UNCHANGED <<faults, sync, flags, hook, cachedFlag>>

-----------------------------------------------------------------------------

JobStep(j) ==
    \/ Enqueue(j)
    \/ Fetch(j)
    \/ CompareHash(j)
    \/ StoreDoc(j)
    \/ StoreHash(j)
    \/ PublishDoc(j)
    \/ PublishDocFails(j)
    \/ AttemptFails(j)

ChangeStep(a) ==
    \/ SetFlag(a)
    \/ PublishFlag(a)
    \/ PublishFlagFails(a)

HookStep(h) ==
    \/ Mount(h)
    \/ AnswerFlags(h)
    \/ FetchFlagsFails(h)
    \/ ShowFlag(h)
    \/ Unmount(h)

NetworkStep(s) ==
    /\ StreamStep(s)
    /\ UNCHANGED <<sync, flags, page>>

Next ==
    \/ \E j \in Jobs : JobStep(j)
    \/ \E a \in Changes : ChangeStep(a)
    \/ \E h \in Hooks : HookStep(h)
    \/ \E s \in Streams : NetworkStep(s)
    \/ DocumentChanges
    \/ WorkerDies
    \/ Expire
    \/ ReadEvent
    \/ \E s \in Streams : StreamEnds(s) \/ StreamBreaks(s)

\* The queue runs its jobs, and a running job, a call and a page go on: their own steps are taken.
Fairness ==
    /\ \A j \in Jobs : WF_vars(Fetch(j) \/ CompareHash(j) \/ StoreDoc(j) \/ StoreHash(j)
                                   \/ PublishDoc(j))
    /\ \A a \in Changes : WF_vars(PublishFlag(a))
    /\ \A h \in Hooks : WF_vars(AnswerFlags(h) \/ FetchFlagsFails(h) \/ ShowFlag(h))
    /\ WF_vars(ReadEvent)

Spec == Init /\ [][Next]_vars /\ Fairness

-----------------------------------------------------------------------------
(* Properties *)

\* A cached hash keeps later jobs from publishing that version, so it must have been published,
\* or be about to be, unless the job that cached it was cut short before it could: however jobs
\* overlap, retry and lose their worker, no other change goes unannounced.
AnnouncedUnlessInterrupted ==
    cachedHash # None =>
        \/ cachedHash \in announced \cup interrupted
        \/ \E j \in Jobs : At(j, "publish") /\ job[j].version = cachedHash

\* A change that a job is to pick up is announced in the end, unless an attempt was cut short after
\* the hash was cached, or the job failed for good.
ChangeIsAnnounced ==
    \A j \in Jobs : \A v \in Versions :
        At(j, "waiting") /\ document = v ~>
            \/ \E w \in announced \cup interrupted : w >= v
            \/ At(j, "failed")

\* Every stream the page has open is the one its last instance will abort, unless the loop of an
\* older stream cleared its controller: nothing else leaves streams, and their subscriptions,
\* behind on the server, however instances come and go and streams break.
OpenStreamsAreHeld ==
    \A r \in reading : stream[r] # "closed" => r = controller \/ r \in overtaken

\* What the comment of the hook promises: a change propagates to a page whose stream is connected.
FlagsPropagate ==
    \A h \in Hooks :
        (hook[h].mounted /\ controller # None /\ \E s \in Streams :
             controller = s /\ "flag.updated" \in inbox[s])
            ~> (hook[h].shown = flag \/ ~hook[h].mounted \/ controller = None
                \/ \E s \in Streams : controller = s /\ stream[s] # "open")

=============================================================================
