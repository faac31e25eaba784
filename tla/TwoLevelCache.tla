------------------------------- MODULE TwoLevelCache -------------------------------
(***************************************************************************)
(* lib/cache.ts: one key, with its tag, of the cache that every process     *)
(* keeps in memory (L1) in front of the one in Redis (L2).  wrap answers    *)
(* from L1, from L2, or from the function it is given, which reads the      *)
(* source; invalidate (called by lib/events.ts) drops what a tag names.     *)
(*                                                                         *)
(* The source changes at any time.  A call lasts at most LATENCY: what is   *)
(* loaded or read before waiting is stored after it.  Replies of Redis are  *)
(* lost with the command executed or not.  Entries carry, as history, the   *)
(* calls they went through.  Bounds: each call and invalidation is used     *)
(* once; MaxTime; MaxVersion; MaxFaults.                                    *)
(***************************************************************************)
EXTENDS Integers, Sequences, FiniteSetsExt

CONSTANTS
    Calls, Invalidations, Processes,
    TTL,          \* options.ttl: what an entry lives in L2
    L1_CAP,       \* 30 s: the most it lives in L1 when it is set
    HIT_TTL,      \* 5 s: what it lives in L1 when it was found in L2
    LATENCY,      \* the longest a call takes
    MaxTime, MaxVersion, MaxFaults,
    None

ASSUME TimesAreNatural ==
    /\ TTL \in Nat /\ L1_CAP \in Nat /\ HIT_TTL \in Nat /\ LATENCY \in Nat
ASSUME BoundsAreNatural == MaxTime \in Nat /\ MaxVersion \in Nat /\ MaxFaults \in Nat
ASSUME NoneIsNoVersion == None \notin Nat

L1_TTL == IF TTL < L1_CAP THEN TTL ELSE L1_CAP

Entry == [version: Nat, until: Int, by: SUBSET Calls]

VARIABLES
    now,
    replaced,   \* the times at which the source's versions were replaced
    l1,         \* l1[p]: the entry process p has in memory
    l2,         \* the entry in Redis
    tagged,     \* the key is a member of its tag's set
    call,
    invalidation,
    faults,
    \* History: written, never read, by the actions.
    raced,      \* calls that overlapped an invalidation, or were hit by a fault
    need        \* need[c]: the version that c must not go behind

redis == <<l2, tagged>>
time == <<now, replaced>>
vars == <<now, replaced, l1, l2, tagged, call, invalidation, faults, raced, need>>

Call == [pc: {"new", "read", "reply", "load", "loaded", "store", "tag", "done", "failed"},
         proc: Processes \cup {None}, began: Nat, version: Nat, by: SUBSET Calls]

Invalidation == [pc: {"new", "find", "delete", "untag", "local", "done", "failed"},
                 proc: Processes \cup {None}, began: Nat, version: Nat, found: BOOLEAN]

TypeOK ==
    /\ now \in Nat /\ replaced \in Seq(Nat)
    /\ l1 \in [Processes -> Entry \cup {None}]
    /\ l2 \in Entry \cup {None}
    /\ tagged \in BOOLEAN
    /\ call \in [Calls -> Call]
    /\ invalidation \in [Invalidations -> Invalidation]
    /\ faults \in Nat
    /\ raced \in SUBSET Calls
    /\ need \in [Calls -> Nat]

Init ==
    /\ now = 0 /\ replaced = <<>>
    /\ l1 = [p \in Processes |-> None]
    /\ l2 = None /\ tagged = FALSE
    /\ call = [c \in Calls |-> [pc |-> "new", proc |-> None, began |-> 0, version |-> 0, by |-> {}]]
    /\ invalidation = [i \in Invalidations |->
           [pc |-> "new", proc |-> None, began |-> 0, version |-> 0, found |-> FALSE]]
    /\ faults = 0
    /\ raced = {} /\ need = [c \in Calls |-> 0]

Active(c) == call[c].pc \notin {"new", "done", "failed"}
Invalidating(i) == invalidation[i].pc \notin {"new", "done", "failed"}

Fault(calls) ==
    /\ faults < MaxFaults
    /\ faults' = faults + 1
    /\ raced' = raced \cup calls

At(c, pc) == call[c].pc = pc
Go(c, pc) == call' = [call EXCEPT ![c].pc = pc]
Ends(c, pc) == call' = [call EXCEPT ![c].pc = pc, ![c].proc = None, ![c].began = 0]

\* What is left of an entry at time t.
LiveOneMore(entry, t) == IF entry # None /\ entry.until < t - 1 THEN None ELSE entry
Live(entry, t) == IF entry # None /\ entry.until < t THEN None ELSE entry

Current == Len(replaced) + 1

-----------------------------------------------------------------------------
(* get *)

\* The largest version an invalidation has made room for, as a call that begins in p sees it: at
\* once where the invalidation dropped the entry of p, after the life of an L1 entry elsewhere.
Announced(p) ==
    Max({0} \cup {invalidation[i].version : i \in {j \in Invalidations :
        /\ invalidation[j].pc = "done"
        /\ \/ invalidation[j].found /\ invalidation[j].proc = p
           \/ now > invalidation[j].began + Max({L1_TTL, HIT_TTL})}})

\* l1Get: an entry the LRU has dropped for other keys in the meantime is a miss.
Begin(c, p) ==
    /\ At(c, "new")
    /\ \/ /\ l1[p] # None
          /\ call' = [call EXCEPT ![c].pc = "done", ![c].version = l1[p].version,
                                  ![c].by = l1[p].by]
          /\ UNCHANGED l1
       \/ /\ l1' = [l1 EXCEPT ![p] = None]
          /\ call' = [call EXCEPT ![c] =
                 [pc |-> "read", proc |-> p, began |-> now, version |-> 0, by |-> {c}]]
    /\ raced' = raced \cup (IF \E i \in Invalidations : Invalidating(i) THEN {c} ELSE {})
    /\ need' = [need EXCEPT ![c] = Announced(p)]
    /\ UNCHANGED <<time, redis, invalidation, faults>>

\* Redis executes the GET; the reply is on its way.
Read(c) ==
    /\ At(c, "read")
    /\ IF l2 # None
       THEN call' = [call EXCEPT ![c].pc = "reply", ![c].version = l2.version,
                                 ![c].by = @ \cup l2.by]
       ELSE Go(c, "load")
    /\ UNCHANGED <<time, l1, redis, invalidation, faults, raced, need>>

\* An error of Redis is a miss.
ReadFails(c) ==
    /\ At(c, "read")
    /\ Fault({c})
    /\ Go(c, "load")
    /\ UNCHANGED <<time, l1, redis, invalidation, need>>

\* l1Set, which replaces whatever the process has by now.
Keep(c, life) ==
    l1' = [l1 EXCEPT ![call[c].proc] =
        [version |-> call[c].version, until |-> now + life, by |-> call[c].by]]

Refill(c) ==
    /\ At(c, "reply")
    /\ Keep(c, HIT_TTL)
    /\ Ends(c, "done")
    /\ UNCHANGED <<time, redis, invalidation, faults, raced, need>>

-----------------------------------------------------------------------------
(* set, for the value of a miss *)

\* fn reads the source, or throws.
Load(c) ==
    /\ At(c, "load")
    /\ \/ call' = [call EXCEPT ![c].pc = "loaded", ![c].version = Current]
       \/ Ends(c, "failed")
    /\ UNCHANGED <<time, l1, redis, invalidation, faults, raced, need>>

KeepLoaded(c) ==
    /\ At(c, "loaded")
    /\ Keep(c, L1_TTL)
    /\ Go(c, "store")
    /\ UNCHANGED <<time, redis, invalidation, faults, raced, need>>

Stored(c) == [version |-> call[c].version, until |-> now + TTL, by |-> call[c].by]

Store(c) ==
    /\ At(c, "store")
    /\ l2' = Stored(c)
    /\ Go(c, "tag")
    /\ UNCHANGED <<time, l1, tagged, invalidation, faults, raced, need>>

\* The error is caught, and the tags are not written.
StoreBreaks(c) ==
    /\ At(c, "store")
    /\ Fault({c})
    /\ l2' \in {l2, Stored(c)}
    /\ Ends(c, "done")
    /\ UNCHANGED <<time, l1, tagged, invalidation, need>>

Tag(c) ==
    /\ At(c, "tag")
    /\ tagged' = TRUE
    /\ Ends(c, "done")
    /\ UNCHANGED <<time, l1, l2, invalidation, faults, raced, need>>

TagBreaks(c) ==
    /\ At(c, "tag")
    /\ Fault({c})
    /\ tagged' \in {tagged, TRUE}
    /\ Ends(c, "done")
    /\ UNCHANGED <<time, l1, l2, invalidation, need>>

-----------------------------------------------------------------------------
(* invalidate *)

InvalidationAt(i, pc) == invalidation[i].pc = pc
InvalidationGoes(i, pc) == invalidation' = [invalidation EXCEPT ![i].pc = pc]

BeginInvalidation(i, p) ==
    /\ InvalidationAt(i, "new")
    /\ invalidation' = [invalidation EXCEPT ![i] =
           [pc |-> "find", proc |-> p, began |-> now, version |-> Current, found |-> FALSE]]
    /\ raced' = raced \cup {c \in Calls : Active(c)}
    /\ UNCHANGED <<time, l1, redis, call, faults, need>>

\* SMEMBERS: with no key in the set, invalidate returns.
Find(i) ==
    /\ InvalidationAt(i, "find")
    /\ invalidation' = [invalidation EXCEPT ![i].pc = IF tagged THEN "delete" ELSE "done",
                                            ![i].found = tagged]
    /\ UNCHANGED <<time, l1, redis, call, faults, raced, need>>

\* The pipeline, which is not a transaction: DEL of the keys, DEL of the tag.
Delete(i) ==
    /\ InvalidationAt(i, "delete")
    /\ l2' = None
    /\ InvalidationGoes(i, "untag")
    /\ UNCHANGED <<time, l1, tagged, call, faults, raced, need>>

Untag(i) ==
    /\ InvalidationAt(i, "untag")
    /\ tagged' = FALSE
    /\ InvalidationGoes(i, "local")
    /\ UNCHANGED <<time, l1, l2, call, faults, raced, need>>

\* Only the process that invalidates drops what it has in memory.
DropNothing(i) ==
    /\ InvalidationAt(i, "local")
    /\ InvalidationGoes(i, "done")
    /\ UNCHANGED <<time, l1, redis, call, faults, raced, need>>
DropLocal(i) ==
    /\ InvalidationAt(i, "local")
    /\ l1' = [l1 EXCEPT ![invalidation[i].proc] = None]
    /\ InvalidationGoes(i, "done")
    /\ UNCHANGED <<time, redis, call, faults, raced, need>>

\* SMEMBERS fails: caught, and nothing is dropped.
FindFails(i) ==
    /\ InvalidationAt(i, "find")
    /\ Fault({c \in Calls : ~At(c, "new")})
    /\ InvalidationGoes(i, "failed")
    /\ UNCHANGED <<time, l1, redis, call, need>>

\* The pipeline breaks.  Its exec reports an error per command, which nobody reads, and goes on as
\* if the commands, executed or not, had succeeded.
DeleteBreaks(i) ==
    /\ \/ InvalidationAt(i, "delete") /\ l2' \in {l2, None}
       \/ InvalidationAt(i, "untag") /\ UNCHANGED l2
    /\ tagged' \in {tagged, FALSE}
    /\ Fault({c \in Calls : ~At(c, "new")})
    /\ InvalidationGoes(i, "local")
    /\ UNCHANGED <<time, l1, call, need>>

-----------------------------------------------------------------------------
(* The environment *)

Write ==
    /\ Len(replaced) < MaxVersion
    /\ replaced' = Append(replaced, now)
    /\ UNCHANGED <<now, l1, redis, call, invalidation, faults, raced, need>>

Tick ==
    /\ now < MaxTime
    /\ \A c \in Calls : Active(c) => now < call[c].began + LATENCY
    /\ now' = now + 1
    /\ l1' = [p \in Processes |-> Live(l1[p], now')]
    /\ l2' = Live(l2, now')
    /\ UNCHANGED <<replaced, tagged, call, invalidation, faults, raced, need>>

CallStep(c) ==
    \/ \E p \in Processes : Begin(c, p)
    \/ Read(c)
    \/ ReadFails(c)
    \/ Refill(c)
    \/ Load(c)
    \/ KeepLoaded(c)
    \/ Store(c)
    \/ StoreBreaks(c)
    \/ Tag(c)
    \/ TagBreaks(c)

InvalidationStep(i) ==
    \/ \E p \in Processes : BeginInvalidation(i, p)
    \/ Find(i)
    \/ Delete(i)
    \/ Untag(i)
    \/ DropLocal(i)
    \/ FindFails(i)
    \/ DeleteBreaks(i)

Next ==
    \/ \E c \in Calls : CallStep(c)
    \/ \E i \in Invalidations : InvalidationStep(i)
    \/ Write
    \/ Tick

Spec == Init /\ [][Next]_vars

-----------------------------------------------------------------------------
(* Properties *)

\* An entry of L1 that was filled from L2 may be as old as both lives and both calls together.
BOUND == TTL + HIT_TTL + 2 * LATENCY

answers == [c \in Calls |-> IF At(c, "done") THEN call[c].version ELSE None]

Abstract == INSTANCE BoundedStaleness WITH Readers <- Calls, answer <- answers

\* The cache keeps the promise of BoundedStaleness, whatever order its calls, invalidations,
\* evictions and errors come in.
BoundsStaleness == Abstract!AbstractSpec

\* A call answers behind what an invalidation announced only if what it was given went through a
\* call that overlapped an invalidation, or that was hit by a fault.
StaleOnlyIfRaced ==
    \A c \in Calls : At(c, "done") /\ call[c].version < need[c] => call[c].by \cap raced # {}

=============================================================================
