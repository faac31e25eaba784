--------------------------- MODULE TwoLevelCacheProofs ---------------------------
(* TwoLevelCache implements BoundedStaleness, and answers behind what an     *)
(* invalidation announced only where a race or a fault explains it: for any  *)
(* number of processes, calls, invalidations and faults, and whatever the    *)
(* lives of entries are.                                                     *)
EXTENDS TwoLevelCache, WellFoundedInduction, TLAPS

-----------------------------------------------------------------------------
(* Versions that were current at a time or later *)

\* Since(r, v, t): where r are the times of the replacements, v was current at t or later.
Since(r, v, t) ==
    /\ v \in 1..(Len(r) + 1)
    /\ v = Len(r) + 1 \/ r[v] >= t

LEMMA SinceWeakens ==
    ASSUME NEW r \in Seq(Nat), NEW v, NEW t \in Int, NEW u \in Int, u <= t, Since(r, v, t)
    PROVE  Since(r, v, u)
  <1>1. v \in 1..Len(r) => r[v] \in Nat
    OBVIOUS
  <1>2. QED
    BY <1>1 DEF Since

LEMMA SinceGoesOn ==
    ASSUME NEW r \in Seq(Nat), NEW n \in Nat, NEW v, NEW t \in Int, t <= n, Since(r, v, t)
    PROVE  Since(Append(r, n), v, t)
  <1>1. Len(r) \in Nat /\ Len(Append(r, n)) = Len(r) + 1
    OBVIOUS
  <1>2. Append(r, n)[Len(r) + 1] = n /\ \A i \in 1..Len(r) : Append(r, n)[i] = r[i]
    OBVIOUS
  <1>3. QED
    BY <1>1, <1>2 DEF Since

\* The lives of entries.
LEMMA Lives ==
    /\ L1_TTL \in Nat /\ L1_TTL <= TTL
    /\ BOUND \in Nat /\ BOUND = TTL + HIT_TTL + 2 * LATENCY
  BY TimesAreNatural DEF L1_TTL, BOUND

-----------------------------------------------------------------------------
(* The invariant.  An entry that is to live for its life from now on holds a *)
(* version that was current now; a call holds one that was current when it   *)
(* began, or, if it was found in L2, when an entry that was alive then was   *)
(* written.                                                                  *)

Typed ==
    /\ now \in Nat /\ replaced \in Seq(Nat)
    /\ l1 \in [Processes -> Entry \cup {None}]
    /\ l2 \in Entry \cup {None}
    /\ call \in [Calls -> Call]

Keeps(r, n, e, life) ==
    /\ n <= e.until /\ e.until <= n + life
    /\ Since(r, e.version, e.until - life)

L2_LIFE == TTL + LATENCY

EntriesKeep ==
    /\ l2 # None => Keeps(replaced, now, l2, L2_LIFE)
    /\ \A p \in Processes : l1[p] # None => Keeps(replaced, now, l1[p], BOUND)

CallKeeps(c) ==
    /\ Active(c) => /\ call[c].proc \in Processes
                    /\ call[c].began <= now /\ now <= call[c].began + LATENCY
    /\ At(c, "reply") => Since(replaced, call[c].version, call[c].began - L2_LIFE)
    /\ call[c].pc \in {"loaded", "store", "tag"} =>
           Since(replaced, call[c].version, call[c].began)

CacheInv ==
    /\ Typed
    /\ EntriesKeep
    /\ \A c \in Calls : CallKeeps(c)

LEMMA InitCache == Init => CacheInv
  <1> SUFFICES ASSUME Init PROVE CacheInv
    OBVIOUS
  <1>1. replaced \in Seq(Nat)
    BY DEF Init
  <1>2. [pc |-> "new", proc |-> None, began |-> 0, version |-> 0, by |-> {}] \in Call
    BY DEF Call
  <1>3. Typed
    BY <1>1, <1>2 DEF Init, Typed
  <1>4. \A c \in Calls : call[c].pc = "new"
    BY DEF Init
  <1>5. QED
    BY <1>3, <1>4 DEF Init, CacheInv, EntriesKeep, CallKeeps, Active, At

\* A step of one call that stores entry e in L1, or in L2, or none.
LEMMA OthersKeep ==
    ASSUME CacheInv, NEW c \in Calls, UNCHANGED time,
           \A d \in Calls \ {c} : call'[d] = call[d]
    PROVE  \A d \in Calls \ {c} : CallKeeps(d)'
  BY DEF CacheInv, CallKeeps, Active, At, time

LEMMA BeginKeeps ==
    ASSUME CacheInv, NEW c \in Calls, NEW p \in Processes, Begin(c, p)
    PROVE  CacheInv'
  <1>1. UNCHANGED <<time, redis>>
    BY DEF Begin
  <1>2. CASE /\ l1[p] # None
             /\ call' = [call EXCEPT ![c].pc = "done", ![c].version = l1[p].version,
                                     ![c].by = l1[p].by]
             /\ UNCHANGED l1
    <2>1. l1[p] \in Entry /\ call[c] \in Call
      BY <1>2 DEF CacheInv, Typed
    <2>2. [call[c] EXCEPT !.pc = "done", !.version = l1[p].version, !.by = l1[p].by] \in Call
      BY <2>1 DEF Entry, Call
    <2>3. call' \in [Calls -> Call] /\ call'[c].pc = "done"
      BY <1>2, <2>1, <2>2 DEF CacheInv, Typed, Call
    <2>4. Typed' /\ EntriesKeep'
      BY <1>1, <1>2, <2>3 DEF CacheInv, Typed, EntriesKeep, time, redis
    <2>5. CallKeeps(c)'
      BY <2>3 DEF CallKeeps, Active, At
    <2>6. \A d \in Calls \ {c} : call'[d] = call[d]
      BY <1>2 DEF CacheInv, Typed
    <2>7. QED
      BY <1>1, <2>4, <2>5, <2>6, OthersKeep DEF CacheInv
  <1>3. CASE /\ l1' = [l1 EXCEPT ![p] = None]
             /\ call' = [call EXCEPT ![c] =
                    [pc |-> "read", proc |-> p, began |-> now, version |-> 0, by |-> {c}]]
    <2>1. [pc |-> "read", proc |-> p, began |-> now, version |-> 0, by |-> {c}] \in Call
      BY DEF Call, CacheInv, Typed
    <2>2. Typed'
      BY <1>1, <1>3, <2>1 DEF CacheInv, Typed, time, redis
    <2>3. EntriesKeep'
      BY <1>1, <1>3 DEF CacheInv, Typed, EntriesKeep, time, redis
    <2>4. now <= now + LATENCY
      BY TimesAreNatural DEF CacheInv, Typed
    <2>5. CallKeeps(c)'
      BY <1>1, <1>3, <2>4 DEF CallKeeps, Active, At, CacheInv, Typed, time
    <2>6. \A d \in Calls \ {c} : call'[d] = call[d]
      BY <1>3 DEF CacheInv, Typed
    <2>7. QED
      BY <1>1, <2>2, <2>3, <2>5, <2>6, OthersKeep DEF CacheInv
  <1>4. QED
    BY <1>2, <1>3 DEF Begin

LEMMA ReadKeeps ==
    ASSUME CacheInv, NEW c \in Calls, Read(c) \/ ReadFails(c)
    PROVE  CacheInv'
  <1>1. UNCHANGED <<time, l1, redis>> /\ At(c, "read") /\ call[c] \in Call
    BY DEF Read, ReadFails, CacheInv, Typed
  <1>2. CASE l2 # None /\ call' = [call EXCEPT ![c].pc = "reply", ![c].version = l2.version,
                                              ![c].by = @ \cup l2.by]
    <2>1. l2 \in Entry
      BY <1>2 DEF CacheInv, Typed
    <2>2. [call[c] EXCEPT !.pc = "reply", !.version = l2.version, !.by = @ \cup l2.by] \in Call
      BY <1>1, <2>1 DEF Entry, Call
    <2>3. call' \in [Calls -> Call]
      BY <1>2, <2>2 DEF CacheInv, Typed
    <2>4. /\ call'[c].pc = "reply" /\ call'[c].version = l2.version
          /\ call'[c].began = call[c].began /\ call'[c].proc = call[c].proc
      BY <1>1, <1>2 DEF CacheInv, Typed, Call
    <2>5. \A d \in Calls \ {c} : call'[d] = call[d]
      BY <1>2 DEF CacheInv, Typed
    <2>6. Active(c) /\ call[c].began \in Nat /\ L2_LIFE \in Nat /\ l2.until \in Int
      BY <1>1, <2>1, TimesAreNatural DEF Active, At, Call, Entry, L2_LIFE
    <2>7. Since(replaced, l2.version, call[c].began - L2_LIFE)
      <3>1. /\ Since(replaced, l2.version, l2.until - L2_LIFE) /\ now <= l2.until
            /\ call[c].began <= now /\ now \in Nat /\ replaced \in Seq(Nat)
        BY <1>2, <2>6 DEF CacheInv, EntriesKeep, Keeps, CallKeeps, Typed
      <3>2. /\ call[c].began - L2_LIFE <= l2.until - L2_LIFE
            /\ call[c].began - L2_LIFE \in Int /\ l2.until - L2_LIFE \in Int
        BY <2>6, <3>1
      <3>3. QED
        BY <3>1, <3>2, SinceWeakens
    <2>8. CallKeeps(c)'
      BY <1>1, <2>4, <2>6, <2>7 DEF CacheInv, CallKeeps, Active, At, time, L2_LIFE
    <2>9. Typed' /\ EntriesKeep'
      BY <1>1, <2>3 DEF CacheInv, Typed, EntriesKeep, time, redis
    <2>10. QED
      BY <1>1, <2>5, <2>8, <2>9, OthersKeep DEF CacheInv
  <1>3. CASE call' = [call EXCEPT ![c].pc = "load"]
    <2>1. [call[c] EXCEPT !.pc = "load"] \in Call
      BY <1>1 DEF Call
    <2>2. call' \in [Calls -> Call]
      BY <1>3, <2>1 DEF CacheInv, Typed
    <2>3. /\ call'[c].pc = "load"
          /\ call'[c].began = call[c].began /\ call'[c].proc = call[c].proc
      BY <1>1, <1>3 DEF CacheInv, Typed, Call
    <2>4. \A d \in Calls \ {c} : call'[d] = call[d]
      BY <1>3 DEF CacheInv, Typed
    <2>5. CallKeeps(c)'
      BY <1>1, <2>3 DEF CacheInv, CallKeeps, Active, At, time
    <2>6. Typed' /\ EntriesKeep'
      BY <1>1, <2>2 DEF CacheInv, Typed, EntriesKeep, time, redis
    <2>7. QED
      BY <1>1, <2>4, <2>5, <2>6, OthersKeep DEF CacheInv
  <1>4. QED
    <2>1. CASE ReadFails(c)
      BY <1>3, <2>1 DEF ReadFails, Go
    <2>2. CASE Read(c) /\ l2 # None
      BY <1>2, <2>2 DEF Read
    <2>3. CASE Read(c) /\ l2 = None
      BY <1>3, <2>3 DEF Read, Go
    <2>4. QED
      BY <2>1, <2>2, <2>3

\* A call moves on, or ends.
LEMMA CallMoves ==
    ASSUME CacheInv, NEW c \in Calls, NEW pc \in {"loaded", "store", "tag"},
           call' = [call EXCEPT ![c].pc = pc]
    PROVE  /\ call' \in [Calls -> Call]
           /\ call'[c] = [call[c] EXCEPT !.pc = pc] /\ call'[c].pc = pc
           /\ call'[c].proc = call[c].proc /\ call'[c].began = call[c].began
           /\ call'[c].version = call[c].version
           /\ \A d \in Calls \ {c} : call'[d] = call[d]
  <1>1. call[c] \in Call /\ call \in [Calls -> Call]
    BY DEF CacheInv, Typed
  <1>2. [call[c] EXCEPT !.pc = pc] \in Call
    BY <1>1 DEF Call
  <1>3. QED
    BY <1>1, <1>2 DEF Call

LEMMA CallEnds ==
    ASSUME CacheInv, NEW c \in Calls, NEW pc \in {"done", "failed"}, Ends(c, pc), UNCHANGED time
    PROVE  /\ call' \in [Calls -> Call]
           /\ call'[c].pc = pc /\ call'[c].version = call[c].version
           /\ \A d \in Calls \ {c} : call'[d] = call[d]
           /\ \A d \in Calls : CallKeeps(d)'
  <1>1. call[c] \in Call /\ call \in [Calls -> Call]
    BY DEF CacheInv, Typed
  <1>2. [call[c] EXCEPT !.pc = pc, !.proc = None, !.began = 0] \in Call
    BY <1>1 DEF Call
  <1>3. /\ call' \in [Calls -> Call]
        /\ call'[c].pc = pc /\ call'[c].version = call[c].version
        /\ \A d \in Calls \ {c} : call'[d] = call[d]
    BY <1>1, <1>2 DEF Ends, Call
  <1>4. CallKeeps(c)'
    BY <1>3 DEF CallKeeps, Active, At
  <1>5. QED
    BY <1>3, <1>4, OthersKeep

LEMMA L1Keeps ==
    ASSUME CacheInv, NEW c \in Calls, Active(c), NEW life \in Nat, life <= BOUND,
           Since(replaced, call[c].version, now + life - BOUND), Keep(c, life),
           UNCHANGED <<time, l2>>
    PROVE  l1' \in [Processes -> Entry \cup {None}] /\ EntriesKeep'
  <1> DEFINE p == call[c].proc
             e == [version |-> call[c].version, until |-> now + life, by |-> call[c].by]
  <1>1. /\ call[c] \in Call /\ p \in Processes /\ now \in Nat
        /\ l1 \in [Processes -> Entry \cup {None}]
    BY DEF CacheInv, Typed, CallKeeps
  <1>2. e \in Entry
    BY <1>1 DEF Entry, Call
  <1>3. l1' = [l1 EXCEPT ![p] = e]
    BY DEF Keep
  <1>4. Keeps(replaced, now, e, BOUND)
    BY <1>1, Lives DEF Keeps
  <1>5. ASSUME NEW q \in Processes, l1'[q] # None
        PROVE  Keeps(replaced, now, l1'[q], BOUND)
    BY <1>1, <1>3, <1>4, <1>5 DEF CacheInv, EntriesKeep
  <1>6. replaced' = replaced /\ now' = now /\ l2' = l2
    BY DEF time
  <1>7. QED
    BY <1>1, <1>2, <1>3, <1>5, <1>6 DEF CacheInv, EntriesKeep, BOUND, L2_LIFE

LEMMA L2Keeps ==
    ASSUME CacheInv, NEW c \in Calls, At(c, "store"), l2' \in {l2, Stored(c)},
           UNCHANGED <<time, l1>>
    PROVE  l2' \in Entry \cup {None} /\ EntriesKeep'
  <1>1. /\ call[c] \in Call /\ now \in Nat /\ call[c].began \in Nat /\ replaced \in Seq(Nat)
        /\ l2 \in Entry \cup {None}
    BY DEF CacheInv, Typed, Call
  <1>2. /\ Since(replaced, call[c].version, call[c].began)
        /\ call[c].began <= now /\ now <= call[c].began + LATENCY
    BY DEF CacheInv, CallKeeps, Active, At
  <1>3. Stored(c) \in Entry /\ Stored(c).version = call[c].version /\ Stored(c).until = now + TTL
    BY <1>1, TimesAreNatural DEF Stored, Entry, Call
  <1>4. Since(replaced, call[c].version, (now + TTL) - L2_LIFE)
    <2>1. /\ (now + TTL) - L2_LIFE <= call[c].began
          /\ (now + TTL) - L2_LIFE \in Int
      BY <1>1, <1>2, TimesAreNatural DEF L2_LIFE
    <2>2. QED
      BY <1>1, <1>2, <2>1, SinceWeakens
  <1>5. Keeps(replaced, now, Stored(c), L2_LIFE)
    BY <1>1, <1>3, <1>4, TimesAreNatural DEF Keeps, L2_LIFE
  <1>6. replaced' = replaced /\ now' = now /\ l1' = l1
    BY DEF time
  <1>7. l2' # None => Keeps(replaced, now, l2', L2_LIFE)
    BY <1>5 DEF CacheInv, EntriesKeep
  <1>8. QED
    BY <1>1, <1>3, <1>6, <1>7 DEF CacheInv, EntriesKeep, BOUND, L2_LIFE

LEMMA RefillKeeps ==
    ASSUME CacheInv, NEW c \in Calls, Refill(c)
    PROVE  CacheInv' /\ Since(replaced, call[c].version, now - BOUND)
  <1>1. /\ Active(c) /\ Since(replaced, call[c].version, call[c].began - L2_LIFE)
        /\ call[c].began <= now /\ now <= call[c].began + LATENCY
        /\ call[c].began \in Nat /\ now \in Nat /\ replaced \in Seq(Nat)
    BY DEF Refill, CacheInv, CallKeeps, Active, At, Typed, Call
  <1>2. /\ Since(replaced, call[c].version, now + HIT_TTL - BOUND)
        /\ Since(replaced, call[c].version, now - BOUND)
    <2>1. /\ now + HIT_TTL - BOUND <= call[c].began - L2_LIFE
          /\ now - BOUND <= call[c].began - L2_LIFE
          /\ now + HIT_TTL - BOUND \in Int /\ now - BOUND \in Int /\ call[c].began - L2_LIFE \in Int
      <3>1. ASSUME NEW n \in Nat, NEW b \in Nat, n <= b + LATENCY
            PROVE  /\ n + HIT_TTL - BOUND <= b - L2_LIFE /\ n - BOUND <= b - L2_LIFE
                   /\ n + HIT_TTL - BOUND \in Int /\ n - BOUND \in Int /\ b - L2_LIFE \in Int
        BY <3>1, TimesAreNatural DEF L2_LIFE, BOUND
      <3>2. QED
        BY <1>1, <3>1
    <2>2. QED
      BY <1>1, <2>1, SinceWeakens
  <1>3. HIT_TTL \in Nat /\ HIT_TTL <= BOUND
    BY Lives, TimesAreNatural
  <1>4. l1' \in [Processes -> Entry \cup {None}] /\ EntriesKeep'
    BY <1>1, <1>2, <1>3, L1Keeps DEF Refill, redis
  <1>5. call' \in [Calls -> Call] /\ \A d \in Calls : CallKeeps(d)'
    BY CallEnds DEF Refill
  <1>6. QED
    BY <1>2, <1>4, <1>5 DEF CacheInv, Typed, Refill, time, redis

LEMMA LoadKeeps ==
    ASSUME CacheInv, NEW c \in Calls, Load(c)
    PROVE  CacheInv'
  <1>1. UNCHANGED <<time, l1, l2>> /\ At(c, "load") /\ call[c] \in Call /\ replaced \in Seq(Nat)
    BY DEF Load, redis, CacheInv, Typed
  <1>2. Typed' <=> call' \in [Calls -> Call]
    BY <1>1 DEF CacheInv, Typed, time
  <1>3. EntriesKeep'
    BY <1>1 DEF CacheInv, EntriesKeep, time, BOUND, L2_LIFE
  <1>4. CASE Ends(c, "failed")
    BY <1>1, <1>2, <1>3, <1>4, CallEnds DEF CacheInv
  <1>5. CASE call' = [call EXCEPT ![c].pc = "loaded", ![c].version = Current]
    <2>1. Current \in Nat /\ call[c].began \in Nat /\ Since(replaced, Current, call[c].began)
      BY <1>1 DEF Current, Since, Call
    <2>2. [call[c] EXCEPT !.pc = "loaded", !.version = Current] \in Call
      BY <1>1, <2>1 DEF Call
    <2>3. call' \in [Calls -> Call] /\ \A d \in Calls \ {c} : call'[d] = call[d]
      BY <1>5, <2>2 DEF CacheInv, Typed
    <2>4. /\ call'[c].pc = "loaded" /\ call'[c].version = Current
          /\ call'[c].began = call[c].began /\ call'[c].proc = call[c].proc
      BY <1>1, <1>5 DEF CacheInv, Typed, Call
    <2>5. CallKeeps(c)'
      BY <1>1, <2>1, <2>4 DEF CacheInv, CallKeeps, Active, At, time
    <2>6. QED
      BY <1>1, <1>2, <1>3, <2>3, <2>5, OthersKeep DEF CacheInv
  <1>6. QED
    BY <1>4, <1>5 DEF Load

\* The steps of a call that holds what it has loaded.
LEMMA SetKeeps ==
    ASSUME CacheInv, NEW c \in Calls,
           KeepLoaded(c) \/ Store(c) \/ StoreBreaks(c) \/ Tag(c) \/ TagBreaks(c)
    PROVE  CacheInv' /\ Since(replaced, call[c].version, now - BOUND)
  <1>1. /\ Active(c) /\ Since(replaced, call[c].version, call[c].began)
        /\ call[c].began <= now /\ now <= call[c].began + LATENCY
        /\ call[c].began \in Nat /\ now \in Nat /\ replaced \in Seq(Nat)
    BY DEF KeepLoaded, Store, StoreBreaks, Tag, TagBreaks, CacheInv, CallKeeps, Active, At, Typed, Call
  <1>2. UNCHANGED time
    BY DEF KeepLoaded, Store, StoreBreaks, Tag, TagBreaks
  <1>3. /\ Since(replaced, call[c].version, now + L1_TTL - BOUND)
        /\ Since(replaced, call[c].version, now - BOUND)
    <2>1. /\ now + L1_TTL - BOUND <= call[c].began /\ now - BOUND <= call[c].began
          /\ now + L1_TTL - BOUND \in Int /\ now - BOUND \in Int
      BY <1>1, Lives, TimesAreNatural
    <2>2. QED
      BY <1>1, <2>1, SinceWeakens
  <1>4. ASSUME NEW pc \in {"loaded", "store", "tag"}, call' = [call EXCEPT ![c].pc = pc]
        PROVE  call' \in [Calls -> Call] /\ \A d \in Calls : CallKeeps(d)'
    <2>1. CallKeeps(c)'
      BY <1>1, <1>2, <1>4, CallMoves DEF CacheInv, CallKeeps, Active, At, time
    <2>2. QED
      BY <1>2, <1>4, <2>1, CallMoves, OthersKeep
  <1>5. CASE KeepLoaded(c)
    <2>1. L1_TTL \in Nat /\ L1_TTL <= BOUND
      BY Lives, TimesAreNatural
    <2>2. l1' \in [Processes -> Entry \cup {None}] /\ EntriesKeep'
      BY <1>1, <1>3, <1>5, <2>1, L1Keeps DEF KeepLoaded, redis
    <2>3. call' \in [Calls -> Call] /\ \A d \in Calls : CallKeeps(d)'
      BY <1>4, <1>5 DEF KeepLoaded, Go
    <2>4. QED
      BY <1>3, <1>5, <2>2, <2>3 DEF KeepLoaded, CacheInv, Typed, time, redis
  <1>6. CASE Store(c) \/ StoreBreaks(c)
    <2>1. l2' \in Entry \cup {None} /\ EntriesKeep'
      BY <1>6, L2Keeps DEF Store, StoreBreaks
    <2>2. call' \in [Calls -> Call] /\ \A d \in Calls : CallKeeps(d)'
      BY <1>2, <1>4, <1>6, CallEnds DEF Store, StoreBreaks, Go
    <2>3. QED
      BY <1>2, <1>3, <1>6, <2>1, <2>2 DEF Store, StoreBreaks, CacheInv, Typed, time
  <1>7. CASE Tag(c) \/ TagBreaks(c)
    <2>1. call' \in [Calls -> Call] /\ \A d \in Calls : CallKeeps(d)'
      BY <1>2, <1>7, CallEnds DEF Tag, TagBreaks
    <2>2. EntriesKeep'
      BY <1>2, <1>7 DEF Tag, TagBreaks, CacheInv, EntriesKeep, time, BOUND, L2_LIFE
    <2>3. QED
      BY <1>2, <1>3, <1>7, <2>1, <2>2 DEF Tag, TagBreaks, CacheInv, Typed, time
  <1>8. QED
    BY <1>5, <1>6, <1>7

\* An invalidation, and whatever it drops.
LEMMA InvalidationKeeps ==
    ASSUME CacheInv, NEW i \in Invalidations, InvalidationStep(i)
    PROVE  CacheInv' /\ UNCHANGED <<time, call>>
  <1>1. UNCHANGED <<time, call>>
    BY DEF InvalidationStep, BeginInvalidation, Find, Delete, Untag, DropLocal, FindFails,
           DeleteBreaks
  <1>2. l2' \in {l2, None}
    BY DEF InvalidationStep, BeginInvalidation, Find, Delete, Untag, DropLocal, FindFails,
           DeleteBreaks, redis
  <1>3. \/ l1' = l1
        \/ l1' = [l1 EXCEPT ![invalidation[i].proc] = None]
    BY DEF InvalidationStep, BeginInvalidation, Find, Delete, Untag, DropLocal, FindFails,
           DeleteBreaks
  <1>4. l1' \in [Processes -> Entry \cup {None}] /\ \A p \in Processes : l1'[p] \in {l1[p], None}
    BY <1>3 DEF CacheInv, Typed
  <1>5. Typed' /\ EntriesKeep'
    BY <1>1, <1>2, <1>4 DEF CacheInv, Typed, EntriesKeep, time, BOUND, L2_LIFE
  <1>6. \A c \in Calls : CallKeeps(c)'
    BY <1>1 DEF CacheInv, CallKeeps, Active, At, time, L2_LIFE
  <1>7. QED
    BY <1>1, <1>5, <1>6 DEF CacheInv

LEMMA WriteKeeps ==
    ASSUME CacheInv, Write
    PROVE  CacheInv'
  <1>1. /\ replaced' = Append(replaced, now) /\ UNCHANGED <<now, l1, l2, call>>
        /\ replaced \in Seq(Nat) /\ now \in Nat
    BY DEF Write, redis, CacheInv, Typed
  <1>2. replaced' \in Seq(Nat)
    BY <1>1
  <1>3. Typed'
    BY <1>1, <1>2 DEF CacheInv, Typed
  <1>4. ASSUME NEW e \in Entry, NEW life \in Nat, Keeps(replaced, now, e, life)
        PROVE  Keeps(replaced', now', e, life)
    <2>1. e.until \in Int /\ e.until - life \in Int /\ e.until - life <= now
      BY <1>1, <1>4 DEF Entry, Keeps
    <2>2. QED
      BY <1>1, <1>4, <2>1, SinceGoesOn DEF Keeps
  <1>5. L2_LIFE \in Nat /\ BOUND \in Nat
    BY Lives, TimesAreNatural DEF L2_LIFE
  <1>6. EntriesKeep'
    <2>1. l2 # None => Keeps(replaced', now', l2, L2_LIFE)
      BY <1>4, <1>5 DEF CacheInv, EntriesKeep, Typed
    <2>2. \A p \in Processes : l1[p] # None => Keeps(replaced', now', l1[p], BOUND)
      BY <1>4, <1>5 DEF CacheInv, EntriesKeep, Typed
    <2>3. QED
      BY <1>1, <2>1, <2>2 DEF EntriesKeep, BOUND, L2_LIFE
  <1>7. ASSUME NEW c \in Calls
        PROVE  CallKeeps(c)'
    <2>1. call[c] \in Call /\ call[c].began \in Nat
      BY DEF CacheInv, Typed, Call
    <2>2. At(c, "reply") => Since(replaced', call[c].version, call[c].began - L2_LIFE)
      <3>1. At(c, "reply") => call[c].began - L2_LIFE <= now /\ call[c].began - L2_LIFE \in Int
        BY <1>1, <1>5, <2>1 DEF CacheInv, CallKeeps, Active, At
      <3>2. QED
        BY <1>1, <3>1, SinceGoesOn DEF CacheInv, CallKeeps
    <2>3. call[c].pc \in {"loaded", "store", "tag"} =>
              Since(replaced', call[c].version, call[c].began)
      BY <1>1, <2>1, SinceGoesOn DEF CacheInv, CallKeeps, Active, At
    <2>4. QED
      BY <1>1, <2>2, <2>3 DEF CacheInv, CallKeeps, Active, At, L2_LIFE
  <1>8. QED
    BY <1>3, <1>6, <1>7 DEF CacheInv

LEMMA TickKeeps ==
    ASSUME CacheInv, Tick
    PROVE  CacheInv'
  <1>1. /\ now' = now + 1 /\ UNCHANGED <<replaced, call>> /\ now \in Nat
        /\ l1' = [p \in Processes |-> Live(l1[p], now')] /\ l2' = Live(l2, now')
    BY DEF Tick, CacheInv, Typed
  <1>2. ASSUME NEW e \in Entry \cup {None}
        PROVE  Live(e, now') \in Entry \cup {None}
    BY DEF Live
  <1>3. Typed'
    BY <1>1, <1>2 DEF CacheInv, Typed
  <1>4. ASSUME NEW e \in Entry \cup {None}, NEW life \in Nat, e # None => Keeps(replaced, now, e, life),
               Live(e, now') # None
        PROVE  Keeps(replaced', now', Live(e, now'), life)
    <2>1. e \in Entry /\ Live(e, now') = e /\ e.until \in Int /\ e.until >= now'
      BY <1>1, <1>4 DEF Live, Entry
    <2>2. e # None
      BY <1>4, <2>1 DEF Live
    <2>3. QED
      BY <1>1, <1>4, <2>1, <2>2 DEF Keeps
  <1>5. L2_LIFE \in Nat /\ BOUND \in Nat
    BY Lives, TimesAreNatural DEF L2_LIFE
  <1>6. EntriesKeep'
    <2>1. l2' # None => Keeps(replaced', now', l2', L2_LIFE)
      BY <1>1, <1>4, <1>5 DEF CacheInv, EntriesKeep, Typed
    <2>2. \A p \in Processes : l1'[p] # None => Keeps(replaced', now', l1'[p], BOUND)
      BY <1>1, <1>4, <1>5 DEF CacheInv, EntriesKeep, Typed
    <2>3. QED
      BY <2>1, <2>2 DEF EntriesKeep, BOUND, L2_LIFE
  <1>7. ASSUME NEW c \in Calls
        PROVE  CallKeeps(c)'
    <2>1. call[c].began \in Nat
      BY DEF CacheInv, Typed, Call
    <2>2. Active(c) => now < call[c].began + LATENCY
      BY DEF Tick
    <2>3. Active(c) => call[c].began <= now' /\ now' <= call[c].began + LATENCY
      BY <1>1, <2>1, <2>2, TimesAreNatural DEF CacheInv, CallKeeps
    <2>4. QED
      BY <1>1, <2>3 DEF CacheInv, CallKeeps, Active, At, L2_LIFE
  <1>8. QED
    BY <1>3, <1>6, <1>7 DEF CacheInv

LEMMA NextCache ==
    ASSUME CacheInv, [Next]_vars
    PROVE  CacheInv'
  <1>1. CASE UNCHANGED vars
    BY <1>1 DEF vars, CacheInv, Typed, EntriesKeep, CallKeeps, Active, At, BOUND, L2_LIFE
  <1>2. ASSUME NEW c \in Calls, CallStep(c)
        PROVE  CacheInv'
    BY <1>2, BeginKeeps, ReadKeeps, RefillKeeps, LoadKeeps, SetKeeps DEF CallStep
  <1>3. QED
    BY <1>1, <1>2, InvalidationKeeps, WriteKeeps, TickKeeps DEF Next

THEOREM CacheInvariant == Spec => []CacheInv
  BY InitCache, NextCache, PTL DEF Spec

-----------------------------------------------------------------------------
(* The refinement.  A call is answered in the step that makes it "done".     *)

LEMMA Answered ==
    ASSUME CacheInv, NEW c \in Calls, ~At(c, "done"), call'[c].pc = "done", UNCHANGED time,
           \A d \in Calls \ {c} : call'[d] = call[d],
           Since(replaced, call'[c].version, now - BOUND)
    PROVE  Abstract!Reply(c)
  <1>1. replaced' = replaced /\ now' = now /\ replaced \in Seq(Nat) /\ now \in Nat
    BY DEF time, CacheInv, Typed
  <1>2. answers[c] = None
    BY DEF answers, At
  <1>3. answers' = [answers EXCEPT ![c] = call'[c].version]
    BY DEF answers, At
  <1>4. call'[c].version \in 1..Abstract!Current
    BY DEF Since, Abstract!Current
  <1>5. Abstract!CurrentSince(call'[c].version, now - BOUND)
    BY <1>1, <1>4 DEF Since, Abstract!Current, Abstract!CurrentSince
  <1>6. QED
    BY <1>1, <1>2, <1>3, <1>4, <1>5 DEF Abstract!Reply

LEMMA Unanswered ==
    ASSUME NEW c \in Calls, ~At(c, "done"), ~At(c, "done")', UNCHANGED time,
           \A d \in Calls \ {c} : call'[d] = call[d]
    PROVE  UNCHANGED Abstract!abstract
  BY DEF time, answers, At, Abstract!abstract

LEMMA CallImplements ==
    ASSUME CacheInv, NEW c \in Calls, CallStep(c)
    PROVE  Abstract!Reply(c) \/ UNCHANGED Abstract!abstract
  <1>1. /\ UNCHANGED time /\ ~At(c, "done") /\ call[c] \in Call /\ call \in [Calls -> Call]
    BY DEF CallStep, Begin, Read, ReadFails, Refill, Load, KeepLoaded, Store, StoreBreaks, Tag,
           TagBreaks, At, CacheInv, Typed
  <1>2. \A d \in Calls \ {c} : call'[d] = call[d]
    BY <1>1 DEF CallStep, Begin, Read, ReadFails, Refill, Load, KeepLoaded, Store, StoreBreaks, Tag,
                TagBreaks, Go, Ends
  <1>3. ASSUME NEW p \in Processes, Begin(c, p)
        PROVE  Abstract!Reply(c) \/ UNCHANGED Abstract!abstract
    <2>1. CASE /\ l1[p] # None
               /\ call' = [call EXCEPT ![c].pc = "done", ![c].version = l1[p].version,
                                       ![c].by = l1[p].by]
      <3>1. call'[c].pc = "done" /\ call'[c].version = l1[p].version
        BY <1>1, <2>1 DEF Call
      <3>2. /\ Since(replaced, l1[p].version, l1[p].until - BOUND) /\ now <= l1[p].until
            /\ l1[p] \in Entry /\ replaced \in Seq(Nat) /\ now \in Nat
        BY <2>1 DEF CacheInv, EntriesKeep, Keeps, Typed
      <3>3. /\ now - BOUND <= l1[p].until - BOUND
            /\ now - BOUND \in Int /\ l1[p].until - BOUND \in Int
        BY <3>2, Lives DEF Entry
      <3>4. Since(replaced, l1[p].version, now - BOUND)
        BY <3>2, <3>3, SinceWeakens
      <3>5. QED
        BY <1>1, <1>2, <3>1, <3>4, Answered
    <2>2. CASE call' = [call EXCEPT ![c] =
                    [pc |-> "read", proc |-> p, began |-> now, version |-> 0, by |-> {c}]]
      <3>1. call'[c].pc = "read"
        BY <1>1, <2>2
      <3>2. QED
        BY <1>1, <1>2, <3>1, Unanswered DEF At
    <2>3. QED
      BY <1>3, <2>1, <2>2 DEF Begin
  <1>4. CASE Read(c) \/ ReadFails(c) \/ Load(c)
    <2>1. call'[c].pc # "done"
      BY <1>1, <1>4 DEF Read, ReadFails, Load, Go, Ends, Call
    <2>2. QED
      BY <1>1, <1>2, <2>1, Unanswered DEF At
  <1>5. CASE KeepLoaded(c) \/ Store(c)
    <2>1. call'[c].pc # "done"
      BY <1>1, <1>5 DEF KeepLoaded, Store, Go, Call
    <2>2. QED
      BY <1>1, <1>2, <2>1, Unanswered DEF At
  <1>6. CASE Refill(c) \/ StoreBreaks(c) \/ Tag(c) \/ TagBreaks(c)
    <2>1. call'[c].pc = "done" /\ call'[c].version = call[c].version
      BY <1>1, <1>6, CallEnds DEF Refill, StoreBreaks, Tag, TagBreaks
    <2>2. Since(replaced, call[c].version, now - BOUND)
      BY <1>6, RefillKeeps, SetKeeps
    <2>3. QED
      BY <1>1, <1>2, <2>1, <2>2, Answered
  <1>7. QED
    BY <1>3, <1>4, <1>5, <1>6 DEF CallStep

LEMMA StepImplements ==
    ASSUME CacheInv, [Next]_vars
    PROVE  [Abstract!AbstractNext]_(Abstract!abstract)
  <1>1. ASSUME NEW c \in Calls, CallStep(c)
        PROVE  [Abstract!AbstractNext]_(Abstract!abstract)
    BY <1>1, CallImplements DEF Abstract!AbstractNext
  <1>2. ASSUME NEW i \in Invalidations, InvalidationStep(i)
        PROVE  UNCHANGED Abstract!abstract
    BY <1>2, InvalidationKeeps DEF time, Abstract!abstract, answers, At
  <1>3. CASE Write
    BY <1>3 DEF Write, Abstract!AbstractNext, Abstract!Write, answers, At
  <1>4. CASE Tick
    BY <1>4 DEF Tick, Abstract!AbstractNext, Abstract!Pass, answers, At
  <1>5. CASE UNCHANGED vars
    BY <1>5 DEF vars, Abstract!abstract, answers, At
  <1>6. QED
    BY <1>1, <1>2, <1>3, <1>4, <1>5 DEF Next

\* The two-level cache implements the promise of bounded staleness: no answer is a version that
\* was replaced more than BOUND before, whatever calls, invalidations, evictions and errors do.
THEOREM StalenessIsBounded == Spec => BoundsStaleness
  <1>1. Init => Abstract!AbstractInit
    BY DEF Init, Abstract!AbstractInit, answers, At
  <1>2. QED
    BY <1>1, StepImplements, CacheInvariant, PTL DEF Spec, BoundsStaleness, Abstract!AbstractSpec

-----------------------------------------------------------------------------
(* Invalidation.  What an invalidation has dropped comes back only through   *)
(* calls that overlapped one, or were hit by a fault: every other entry, and *)
(* every value a call holds, is at least as new as the version the           *)
(* invalidation found when it began.                                         *)

\* The most an entry has left in L1.
RECENT == Max({L1_TTL, HIT_TTL})

Raced(by) == by \cap raced # {}

Holding(c) == call[c].pc \in {"reply", "loaded", "store", "tag"}

RaceTyped ==
    /\ invalidation \in [Invalidations -> Invalidation]
    /\ need \in [Calls -> Nat]

\* An entry of L2 is its writer's alone, and is named in the tag's set unless the writer is about
\* to add it, or failed to, or overlapped the invalidation that emptied the set.
WriterInv ==
    /\ \A c \in Calls : Active(c) => c \in call[c].by
    /\ \A c \in Calls : call[c].pc \in {"read", "load", "loaded", "store", "tag"} => call[c].by = {c}
    /\ l2 # None => \E c \in Calls :
         l2.by = {c} /\ ~At(c, "new") /\ (tagged \/ At(c, "tag") \/ c \in raced)

OverlapInv ==
    \A i \in Invalidations : Invalidating(i) => \A c \in Calls : Active(c) => c \in raced

DroppedInv ==
    \A i \in Invalidations :
      /\ invalidation[i].pc # "new" => invalidation[i].version <= Current
      /\ invalidation[i].pc \in {"untag", "local"} /\ l2 # None => Raced(l2.by)
      /\ InvalidationAt(i, "done") =>
           /\ l2 # None /\ l2.version < invalidation[i].version => Raced(l2.by)
           /\ \A c \in Calls : Holding(c) /\ call[c].version < invalidation[i].version
                                  => Raced(call[c].by)

\* What process p has in memory from before invalidation i is short-lived, and was dropped if p
\* is the one that invalidated.
OutlivesIn(p, i) ==
    /\ invalidation[i].pc \notin {"new", "failed"}
    /\ l1[p] # None
    /\ l1[p].version < invalidation[i].version
    /\ ~Raced(l1[p].by)

L1Inv ==
    /\ \A p \in Processes : l1[p] # None => l1[p].until <= now + RECENT
    /\ \A i \in Invalidations, p \in Processes : OutlivesIn(p, i) =>
         /\ l1[p].until <= invalidation[i].began + RECENT
         /\ ~(InvalidationAt(i, "done") /\ invalidation[i].found /\ invalidation[i].proc = p)

NeedInv ==
    \A c \in Calls : need[c] = 0 \/ \E i \in Invalidations :
        InvalidationAt(i, "done") /\ need[c] <= invalidation[i].version

RaceInv == RaceTyped /\ WriterInv /\ OverlapInv /\ DroppedInv /\ L1Inv /\ NeedInv /\ StaleOnlyIfRaced

LEMMA MaxOfBounded ==
    ASSUME NEW S \in SUBSET Nat, NEW n \in Nat, S # {}, \A x \in S : x <= n
    PROVE  Max(S) \in S /\ \A x \in S : Max(S) >= x
  <1> DEFINE T == {n - x : x \in S}
  <1>1. T \subseteq Nat /\ T # {}
    <2>1. \A x \in S : n - x \in Nat
      OBVIOUS
    <2>2. QED
      BY <2>1
  <1>2. PICK k \in T : \A m \in T : ~(<<m, k>> \in OpToRel(<, Nat))
    BY <1>1, NatLessThanWellFounded, WFMin, Zenon
  <1>3. \A m \in T : ~(m < k)
    BY <1>1, <1>2 DEF OpToRel
  <1>4. PICK y \in S : k = n - y
    OBVIOUS
  <1>5. ASSUME NEW x \in S
        PROVE  y >= x
    <2>1. n - x \in T /\ n - y = k
      BY <1>4
    <2>2. ~(n - x < n - y)
      BY <1>3, <2>1
    <2>3. QED
      BY <2>2
  <1>6. QED
    BY <1>5 DEF Max

LEMMA Recent == RECENT \in Nat /\ L1_TTL <= RECENT /\ HIT_TTL <= RECENT
  <1>1. L1_TTL \in Nat /\ HIT_TTL \in Nat
    BY TimesAreNatural, Lives
  <1>2. PICK n \in Nat : n = L1_TTL + HIT_TTL
    BY <1>1
  <1>3. /\ {L1_TTL, HIT_TTL} \in SUBSET Nat /\ {L1_TTL, HIT_TTL} # {}
        /\ \A x \in {L1_TTL, HIT_TTL} : x <= n
    BY <1>1, <1>2
  <1>4. QED
    BY <1>1, <1>3, MaxOfBounded DEF RECENT

\* A step of call c: time stands still, and nothing else moves but the cache.
StepOf(c) ==
    /\ UNCHANGED <<time, invalidation>>
    /\ raced \subseteq raced'
    /\ call' \in [Calls -> Call]
    /\ \A d \in Calls \ {c} : call'[d] = call[d]

LEMMA CallSteps ==
    ASSUME CacheInv, CacheInv', NEW c \in Calls, CallStep(c)
    PROVE  StepOf(c)
  <1>1. call \in [Calls -> Call] /\ call' \in [Calls -> Call]
    BY DEF CacheInv, Typed
  <1>2. \A d \in Calls \ {c} : call'[d] = call[d]
    BY <1>1 DEF CallStep, Begin, Read, ReadFails, Refill, Load, KeepLoaded, Store, StoreBreaks, Tag,
           TagBreaks, Go, Ends
  <1>3. UNCHANGED <<time, invalidation>> /\ raced \subseteq raced'
    BY DEF CallStep, Begin, Read, ReadFails, Refill, Load, KeepLoaded, Store, StoreBreaks, Tag,
           TagBreaks, Fault
  <1>4. QED
    BY <1>1, <1>2, <1>3 DEF StepOf

\* A value a call holds is not behind what the call must not go behind, but for a race.
LEMMA HoldingKeepsUp ==
    ASSUME CacheInv, RaceInv, NEW c \in Calls, Holding(c), call[c].version < need[c]
    PROVE  Raced(call[c].by)
  <1>1. call[c].version \in Nat /\ need[c] \in Nat
    BY DEF CacheInv, Typed, Call, RaceInv, RaceTyped
  <1>2. PICK i \in Invalidations : InvalidationAt(i, "done") /\ need[c] <= invalidation[i].version
    BY <1>1 DEF RaceInv, NeedInv
  <1>3. invalidation[i].version \in Nat
    BY DEF RaceInv, RaceTyped, Invalidation
  <1>4. call[c].version < invalidation[i].version
    BY <1>1, <1>2, <1>3
  <1>5. QED
    BY <1>2, <1>4 DEF RaceInv, DroppedInv

\* What a call must not go behind is what the invalidations it follows have announced.
LEMMA AnnouncedBound ==
    ASSUME CacheInv, RaceInv, NEW p \in Processes
    PROVE  /\ Announced(p) \in Nat
           /\ Announced(p) = 0 \/ \E i \in Invalidations :
                /\ InvalidationAt(i, "done")
                /\ Announced(p) = invalidation[i].version
                /\ \/ invalidation[i].found /\ invalidation[i].proc = p
                   \/ now > invalidation[i].began + RECENT
  <1> DEFINE After == {j \in Invalidations :
                         /\ invalidation[j].pc = "done"
                         /\ \/ invalidation[j].found /\ invalidation[j].proc = p
                            \/ now > invalidation[j].began + RECENT}
             S == {0} \cup {invalidation[i].version : i \in After}
  <1>1. Announced(p) = Max(S)
    BY DEF Announced, RECENT
  <1>2. PICK n \in Nat : n = Current
    BY DEF CacheInv, Typed, Current
  <1>3. \A i \in After : invalidation[i].version \in Nat /\ invalidation[i].version <= n
    BY <1>2 DEF RaceInv, RaceTyped, Invalidation, DroppedInv
  <1>4. S \in SUBSET Nat /\ S # {} /\ \A x \in S : x <= n
    BY <1>3
  <1>5. Max(S) \in S
    BY <1>2, <1>4, MaxOfBounded
  <1>6. QED
    BY <1>1, <1>4, <1>5 DEF InvalidationAt

-----------------------------------------------------------------------------
(* The steps of a call, one conjunct at a time *)

LEMMA OverlapCall ==
    ASSUME RaceInv, NEW c \in Calls, StepOf(c),
           Active(c)' => Active(c) \/ c \in raced' \/ \A i \in Invalidations : ~Invalidating(i)
    PROVE  OverlapInv'
  BY DEF StepOf, RaceInv, OverlapInv, Active, Invalidating

LEMMA NeedCall ==
    ASSUME CacheInv, RaceInv, NEW c \in Calls, StepOf(c),
           need' = need \/ \E p \in Processes : need' = [need EXCEPT ![c] = Announced(p)]
    PROVE  RaceTyped' /\ NeedInv'
  <1>1. invalidation' = invalidation
    BY DEF StepOf
  <1>2. CASE need' = need
    BY <1>1, <1>2 DEF RaceInv, RaceTyped, NeedInv, InvalidationAt
  <1>3. ASSUME NEW p \in Processes, need' = [need EXCEPT ![c] = Announced(p)]
        PROVE  RaceTyped' /\ NeedInv'
    <2>1. Announced(p) \in Nat
      BY AnnouncedBound
    <2>2. /\ need' \in [Calls -> Nat] /\ need'[c] = Announced(p)
          /\ \A d \in Calls \ {c} : need'[d] = need[d]
      BY <1>3, <2>1 DEF RaceInv, RaceTyped
    <2>3. need'[c] = 0 \/ \E i \in Invalidations :
             InvalidationAt(i, "done") /\ need'[c] <= invalidation[i].version
      BY <2>1, <2>2, AnnouncedBound
    <2>4. QED
      BY <1>1, <2>2, <2>3 DEF RaceInv, RaceTyped, NeedInv, InvalidationAt
  <1>4. QED
    BY <1>2, <1>3

LEMMA StaleCall ==
    ASSUME RaceInv, NEW c \in Calls, StepOf(c), \A d \in Calls \ {c} : need'[d] = need[d],
           At(c, "done")' /\ call'[c].version < need'[c] => Raced(call[c].by)'
    PROVE  StaleOnlyIfRaced'
  BY DEF StepOf, RaceInv, StaleOnlyIfRaced, At, Raced

\* The value a call holds after its step, and the entry in L2, are as new or were raced.
LEMMA DroppedCall ==
    ASSUME RaceInv, NEW c \in Calls, StepOf(c),
           \A i \in Invalidations : InvalidationAt(i, "done") /\ Holding(c)'
              /\ call'[c].version < invalidation[i].version => Raced(call[c].by)',
           \/ l2' = l2
           \/ /\ Raced(l2.by)' \/ \A i \in Invalidations : ~Invalidating(i)
              /\ \A i \in Invalidations : InvalidationAt(i, "done")
                    /\ l2'.version < invalidation[i].version => Raced(l2.by)'
    PROVE  DroppedInv'
  <1>1. invalidation' = invalidation /\ Current' = Current /\ \A by : Raced(by) => Raced(by)'
    BY DEF StepOf, time, Current, Raced
  <1>2. \A d \in Calls \ {c} : call'[d] = call[d]
    BY DEF StepOf
  <1>3. ASSUME NEW i \in Invalidations, InvalidationAt(i, "done"),
               NEW d \in Calls, Holding(d)', call'[d].version < invalidation[i].version
        PROVE  Raced(call[d].by)'
    <2>1. CASE d = c
      BY <1>3, <2>1
    <2>2. CASE d # c
      BY <1>1, <1>2, <1>3, <2>2 DEF RaceInv, DroppedInv, Holding
    <2>3. QED
      BY <2>1, <2>2
  <1>4. ASSUME NEW i \in Invalidations
        PROVE  /\ invalidation[i].pc \in {"untag", "local"} /\ l2' # None => Raced(l2.by)'
               /\ InvalidationAt(i, "done") /\ l2' # None /\ l2'.version < invalidation[i].version
                    => Raced(l2.by)'
    <2>1. invalidation[i].pc \in {"untag", "local"} => Invalidating(i)
      BY DEF Invalidating
    <2>2. CASE l2' = l2
      BY <1>1, <2>2 DEF RaceInv, DroppedInv
    <2>3. QED
      BY <1>1, <2>1, <2>2
  <1>5. \A i \in Invalidations : invalidation[i].pc # "new" => invalidation[i].version <= Current
    BY DEF RaceInv, DroppedInv
  <1>6. QED
    BY <1>1, <1>3, <1>4, <1>5 DEF DroppedInv, InvalidationAt

LEMMA L1Stays ==
    ASSUME RaceInv, UNCHANGED <<now, invalidation>>, raced \subseteq raced',
           \A p \in Processes : l1'[p] \in {l1[p], None}
    PROVE  L1Inv'
  <1>1. \A p \in Processes, i \in Invalidations : OutlivesIn(p, i)' => OutlivesIn(p, i) /\ l1'[p] = l1[p]
    BY DEF OutlivesIn, Raced
  <1>2. \A p \in Processes : l1'[p] # None => l1'[p] = l1[p]
    OBVIOUS
  <1>3. QED
    BY <1>1, <1>2 DEF RaceInv, L1Inv, InvalidationAt

LEMMA L1Kept ==
    ASSUME CacheInv, RaceInv, NEW c \in Calls, StepOf(c), Holding(c),
           NEW life \in {L1_TTL, HIT_TTL}, Keep(c, life)
    PROVE  L1Inv'
  <1>1. PICK q \in Processes : q = call[c].proc
    BY DEF CacheInv, CallKeeps, Holding, Active
  <1>2. /\ l1'[q] = [version |-> call[c].version, until |-> now + life, by |-> call[c].by]
        /\ \A p \in Processes \ {q} : l1'[p] = l1[p]
    BY <1>1 DEF Keep, CacheInv, Typed
  <1>3. now' = now /\ invalidation' = invalidation /\ now \in Nat /\ life \in Nat
    BY Recent, Lives, TimesAreNatural DEF StepOf, time, CacheInv, Typed
  <1>4. l1'[q].until <= now + RECENT
    BY <1>2, <1>3, Recent
  <1>5. \A i \in Invalidations : ~OutlivesIn(q, i)'
    <2>1. SUFFICES ASSUME NEW i \in Invalidations, OutlivesIn(q, i)' PROVE FALSE
      OBVIOUS
    <2>2. ~Raced(call[c].by) /\ call[c].version < invalidation[i].version
      BY <1>2, <1>3, <2>1 DEF OutlivesIn, StepOf, Raced
    <2>3. c \in call[c].by /\ Active(c)
      BY DEF RaceInv, WriterInv, Holding, Active
    <2>4. ~Invalidating(i)
      BY <2>2, <2>3 DEF RaceInv, OverlapInv, Raced
    <2>5. ~InvalidationAt(i, "done")
      BY <2>2 DEF RaceInv, DroppedInv
    <2>6. QED
      BY <1>3, <2>1, <2>4, <2>5 DEF Invalidating, InvalidationAt, OutlivesIn
  <1>6. \A i \in Invalidations, p \in Processes \ {q} : OutlivesIn(p, i)' => OutlivesIn(p, i)
    BY <1>2, <1>3 DEF OutlivesIn, Raced, StepOf
  <1>7. QED
    BY <1>2, <1>3, <1>4, <1>5, <1>6 DEF RaceInv, L1Inv, InvalidationAt

\* get: an entry of L1 that outlived what was announced was raced; the others are recent enough.
LEMMA BeginRaces ==
    ASSUME CacheInv, CacheInv', RaceInv, NEW c \in Calls, NEW p \in Processes, Begin(c, p)
    PROVE  RaceInv'
  <1>1. StepOf(c) /\ At(c, "new") /\ l2' = l2 /\ tagged' = tagged
    BY CallSteps DEF CallStep, Begin, redis
  <1>2. need' = [need EXCEPT ![c] = Announced(p)]
    BY DEF Begin
  <1>3. RaceTyped' /\ NeedInv'
    BY <1>1, <1>2, NeedCall
  <1>4. need'[c] = Announced(p) /\ \A d \in Calls \ {c} : need'[d] = need[d]
    BY <1>2 DEF RaceInv, RaceTyped
  <1>5. (\A i \in Invalidations : ~Invalidating(i)) \/ c \in raced'
    BY DEF Begin
  <1>6. OverlapInv'
    BY <1>1, <1>5, OverlapCall
  <1>7. l2' # None => \E d \in Calls :
          l2'.by = {d} /\ ~At(d, "new")' /\ (tagged' \/ At(d, "tag")' \/ d \in raced')
    BY <1>1 DEF RaceInv, WriterInv, At, StepOf
  <1>8. CASE /\ l1[p] # None
             /\ call' = [call EXCEPT ![c].pc = "done", ![c].version = l1[p].version,
                                     ![c].by = l1[p].by]
             /\ UNCHANGED l1
    <2>1. call[c] \in Call /\ l1[p] \in Entry
      BY <1>8 DEF CacheInv, Typed
    <2>2. call'[c].pc = "done" /\ call'[c].version = l1[p].version /\ call'[c].by = l1[p].by
      BY <1>8, <2>1 DEF Call, CacheInv, Typed
    <2>3. ASSUME call'[c].version < need'[c]
          PROVE  Raced(call[c].by)'
      <3>1. l1[p].version \in Nat /\ l1[p].until \in Int
        BY <2>1 DEF Entry
      <3>2. PICK i \in Invalidations :
              /\ InvalidationAt(i, "done")
              /\ Announced(p) = invalidation[i].version
              /\ \/ invalidation[i].found /\ invalidation[i].proc = p
                 \/ now > invalidation[i].began + RECENT
        BY <1>4, <2>2, <2>3, <3>1, AnnouncedBound
      <3>3. now <= l1[p].until /\ invalidation[i].began \in Nat /\ now \in Nat
        BY <1>8 DEF CacheInv, Typed, EntriesKeep, Keeps, RaceInv, RaceTyped, Invalidation
      <3>4. ~OutlivesIn(p, i)
        BY <3>1, <3>2, <3>3, Recent DEF RaceInv, L1Inv
      <3>5. Raced(l1[p].by)
        BY <1>4, <1>8, <2>2, <2>3, <3>2, <3>4 DEF OutlivesIn, InvalidationAt
      <3>6. QED
        BY <1>1, <2>2, <3>5 DEF Raced, StepOf
    <2>4. StaleOnlyIfRaced'
      BY <1>1, <1>4, <2>3, StaleCall
    <2>5. ~Holding(c)' /\ ~Active(c)'
      BY <2>2 DEF Holding, Active
    <2>6. DroppedInv'
      BY <1>1, <2>5, DroppedCall
    <2>7. L1Inv'
      BY <1>1, <1>8, L1Stays DEF StepOf, time
    <2>8. WriterInv'
      BY <1>1, <1>7, <2>2 DEF WriterInv, RaceInv, StepOf, Active
    <2>9. QED
      BY <1>3, <1>6, <2>4, <2>6, <2>7, <2>8 DEF RaceInv
  <1>9. CASE /\ l1' = [l1 EXCEPT ![p] = None]
             /\ call' = [call EXCEPT ![c] =
                    [pc |-> "read", proc |-> p, began |-> now, version |-> 0, by |-> {c}]]
    <2>1. call'[c].pc = "read" /\ call'[c].by = {c}
      BY <1>9 DEF CacheInv, Typed
    <2>2. ~Holding(c)' /\ ~At(c, "done")'
      BY <2>1 DEF Holding, At
    <2>3. StaleOnlyIfRaced' /\ DroppedInv'
      BY <1>1, <1>4, <2>2, StaleCall, DroppedCall
    <2>4. \A q \in Processes : l1'[q] \in {l1[q], None}
      BY <1>9 DEF CacheInv, Typed
    <2>5. L1Inv'
      BY <1>1, <2>4, L1Stays DEF StepOf, time
    <2>6. WriterInv'
      BY <1>1, <1>7, <2>1 DEF WriterInv, RaceInv, StepOf, Active
    <2>7. QED
      BY <1>3, <1>6, <2>3, <2>5, <2>6 DEF RaceInv
  <1>10. QED
    BY <1>8, <1>9 DEF Begin

LEMMA ReadRaces ==
    ASSUME CacheInv, CacheInv', RaceInv, NEW c \in Calls, Read(c) \/ ReadFails(c)
    PROVE  RaceInv'
  <1>1. /\ StepOf(c) /\ At(c, "read") /\ Active(c)
        /\ UNCHANGED <<l1, l2, tagged, need>>
    BY CallSteps DEF CallStep, Read, ReadFails, redis, At, Active
  <1>2. RaceTyped' /\ NeedInv' /\ OverlapInv'
    BY <1>1, NeedCall, OverlapCall
  <1>3. L1Inv'
    BY <1>1, L1Stays DEF StepOf, time
  <1>4. call[c] \in Call /\ call[c].by = {c} /\ call \in [Calls -> Call]
    BY <1>1 DEF CacheInv, Typed, RaceInv, WriterInv, At
  <1>5. \/ /\ l2 # None /\ call'[c].pc = "reply" /\ call'[c].version = l2.version
           /\ call'[c].by = {c} \cup l2.by
        \/ call'[c].pc = "load" /\ call'[c].by = {c}
    <2>1. CASE Read(c) /\ l2 # None
      <3>1. l2.version \in Nat /\ l2.by \in SUBSET Calls
        BY <2>1 DEF CacheInv, Typed, Entry
      <3>2. QED
        BY <1>4, <2>1, <3>1 DEF Read, Call
    <2>2. CASE (Read(c) /\ l2 = None) \/ ReadFails(c)
      BY <1>4, <2>2 DEF Read, ReadFails, Go, Call
    <2>3. QED
      BY <2>1, <2>2
  <1>6. ~At(c, "done")' /\ c \in call'[c].by
    BY <1>5 DEF At
  <1>7. ASSUME NEW i \in Invalidations, InvalidationAt(i, "done"), Holding(c)',
               call'[c].version < invalidation[i].version
        PROVE  Raced(call[c].by)'
    <2>1. l2 # None /\ call'[c].version = l2.version /\ call'[c].by = {c} \cup l2.by
      BY <1>5, <1>7 DEF Holding
    <2>2. Raced(l2.by)
      BY <1>7, <2>1 DEF RaceInv, DroppedInv
    <2>3. QED
      BY <1>1, <2>1, <2>2 DEF Raced, StepOf
  <1>8. DroppedInv' /\ StaleOnlyIfRaced'
    BY <1>1, <1>6, <1>7, DroppedCall, StaleCall
  <1>9. WriterInv'
    BY <1>1, <1>5, <1>6 DEF WriterInv, RaceInv, StepOf, Active, At
  <1>10. QED
    BY <1>2, <1>3, <1>8, <1>9 DEF RaceInv

\* l1Set: of what was found in L2, and of what was loaded.
LEMMA KeepRaces ==
    ASSUME CacheInv, CacheInv', RaceInv, NEW c \in Calls, Refill(c) \/ KeepLoaded(c)
    PROVE  RaceInv'
  <1>1. /\ StepOf(c) /\ Holding(c) /\ Active(c) /\ ~At(c, "tag") /\ ~At(c, "new")
        /\ UNCHANGED <<l2, tagged, need>>
    BY CallSteps DEF CallStep, Refill, KeepLoaded, redis, At, Active, Holding
  <1>2. RaceTyped' /\ NeedInv' /\ OverlapInv'
    BY <1>1, NeedCall, OverlapCall
  <1>3. L1Inv'
    BY <1>1, L1Kept DEF Refill, KeepLoaded
  <1>4. /\ call'[c].version = call[c].version /\ call'[c].by = call[c].by
        /\ call'[c].pc = IF At(c, "loaded") THEN "store" ELSE "done"
    BY DEF Refill, KeepLoaded, At, Go, Ends, CacheInv, Typed, Call
  <1>5. \A by : Raced(by) => Raced(by)'
    BY <1>1 DEF StepOf, Raced
  <1>6. DroppedInv'
    BY <1>1, <1>4, <1>5, DroppedCall DEF RaceInv, DroppedInv, Raced
  <1>7. StaleOnlyIfRaced'
    BY <1>1, <1>4, <1>5, HoldingKeepsUp, StaleCall DEF Raced
  <1>8. WriterInv'
    <2>1. l2' # None => \E d \in Calls :
            l2'.by = {d} /\ ~At(d, "new")' /\ (tagged' \/ At(d, "tag")' \/ d \in raced')
      BY <1>1, <1>4 DEF RaceInv, WriterInv, At, StepOf
    <2>2. QED
      BY <1>1, <1>4, <2>1 DEF WriterInv, RaceInv, StepOf, Active, At
  <1>9. QED
    BY <1>2, <1>3, <1>6, <1>7, <1>8 DEF RaceInv

\* What is loaded is as new as anything announced.
LEMMA LoadRaces ==
    ASSUME CacheInv, CacheInv', RaceInv, NEW c \in Calls, Load(c)
    PROVE  RaceInv'
  <1>1. /\ StepOf(c) /\ Active(c) /\ ~At(c, "tag") /\ ~At(c, "new") /\ call[c].by = {c}
        /\ UNCHANGED <<l1, l2, tagged, need>>
    BY CallSteps DEF CallStep, Load, redis, At, Active, RaceInv, WriterInv
  <1>2. RaceTyped' /\ NeedInv' /\ OverlapInv'
    BY <1>1, NeedCall, OverlapCall
  <1>3. L1Inv'
    BY <1>1, L1Stays DEF StepOf, time
  <1>4. /\ call'[c].by = {c}
        /\ call'[c].pc = "failed" \/ (call'[c].pc = "loaded" /\ call'[c].version = Current)
    <2>1. call[c] \in Call /\ call \in [Calls -> Call] /\ Current \in Nat
      BY DEF CacheInv, Typed, Current
    <2>2. CASE call' = [call EXCEPT ![c].pc = "loaded", ![c].version = Current]
      BY <1>1, <2>1, <2>2 DEF Call
    <2>3. CASE Ends(c, "failed")
      BY <1>1, <2>1, <2>3 DEF Ends, Call
    <2>4. QED
      BY <2>2, <2>3 DEF Load
  <1>5. \A i \in Invalidations : InvalidationAt(i, "done") /\ Holding(c)' =>
          ~(call'[c].version < invalidation[i].version)
    <2>1. SUFFICES ASSUME NEW i \in Invalidations, InvalidationAt(i, "done"), Holding(c)'
                   PROVE  ~(call'[c].version < invalidation[i].version)
      OBVIOUS
    <2>2. call'[c].version = Current
      BY <1>4, <2>1 DEF Holding
    <2>3. invalidation[i].version <= Current /\ invalidation[i].version \in Nat /\ Current \in Nat
      BY <2>1 DEF RaceInv, RaceTyped, Invalidation, DroppedInv, InvalidationAt, CacheInv, Typed,
         Current
    <2>4. QED
      BY <2>2, <2>3
  <1>6. DroppedInv' /\ StaleOnlyIfRaced'
    BY <1>1, <1>4, <1>5, DroppedCall, StaleCall DEF At
  <1>7. WriterInv'
    <2>1. l2' # None => \E d \in Calls :
            l2'.by = {d} /\ ~At(d, "new")' /\ (tagged' \/ At(d, "tag")' \/ d \in raced')
      BY <1>1, <1>4 DEF RaceInv, WriterInv, At, StepOf
    <2>2. QED
      BY <1>1, <1>4, <2>1 DEF WriterInv, RaceInv, StepOf, Active, At
  <1>8. QED
    BY <1>2, <1>3, <1>6, <1>7 DEF RaceInv

\* Whatever a call that holds a value does next, the value stays what it was.
LEMMA SetRaces ==
    ASSUME CacheInv, CacheInv', RaceInv, NEW c \in Calls,
           Store(c) \/ StoreBreaks(c) \/ Tag(c) \/ TagBreaks(c)
    PROVE  RaceInv'
  <1>1. /\ StepOf(c) /\ Holding(c) /\ Active(c) /\ ~At(c, "new") /\ call[c].by = {c}
        /\ UNCHANGED <<l1, need>>
    BY CallSteps DEF CallStep, Store, StoreBreaks, Tag, TagBreaks, redis, At, Active, Holding, RaceInv,
       WriterInv
  <1>2. RaceTyped' /\ NeedInv' /\ OverlapInv'
    BY <1>1, NeedCall, OverlapCall
  <1>3. L1Inv'
    BY <1>1, L1Stays DEF StepOf, time
  <1>4. /\ call'[c].version = call[c].version /\ call'[c].by = {c}
        /\ call'[c].pc = IF Store(c) THEN "tag" ELSE "done"
    <2>1. call[c] \in Call /\ call \in [Calls -> Call]
      BY DEF CacheInv, Typed
    <2>2. CASE Store(c)
      BY <1>1, <2>1, <2>2 DEF Store, Go, Call
    <2>3. CASE ~Store(c)
      <3>1. Ends(c, "done")
        BY <2>3 DEF StoreBreaks, Tag, TagBreaks
      <3>2. QED
        BY <1>1, <2>1, <2>3, <3>1 DEF Ends, Call
    <2>4. QED
      BY <2>2, <2>3
  <1>5. \A by : Raced(by) => Raced(by)'
    BY <1>1 DEF StepOf, Raced
  <1>6. /\ l2' = l2 \/ (l2' = Stored(c) /\ At(c, "store"))
        /\ StoreBreaks(c) \/ TagBreaks(c) => c \in raced'
        /\ tagged => tagged'
        /\ Tag(c) => tagged'
    <2>1. l2' = l2 \/ (l2' = Stored(c) /\ At(c, "store"))
      BY DEF Store, StoreBreaks, Tag, TagBreaks, At
    <2>2. StoreBreaks(c) \/ TagBreaks(c) => c \in raced'
      BY DEF StoreBreaks, TagBreaks, Fault
    <2>3. tagged' = tagged \/ tagged' = TRUE
      BY DEF Store, StoreBreaks, Tag, TagBreaks
    <2>4. Tag(c) => tagged'
      BY DEF Tag
    <2>5. QED
      BY <2>1, <2>2, <2>3, <2>4
  <1>7. l2' = Stored(c) => l2'.version = call[c].version /\ l2'.by = {c}
    BY <1>1 DEF Stored
  <1>8. \A i \in Invalidations : InvalidationAt(i, "done") /\ call[c].version < invalidation[i].version
                                  => c \in raced
    BY <1>1 DEF RaceInv, DroppedInv, Raced
  <1>9. (\A i \in Invalidations : ~Invalidating(i)) \/ c \in raced
    BY <1>1 DEF RaceInv, OverlapInv
  <1>10. DroppedInv'
    <2>1. \A i \in Invalidations : InvalidationAt(i, "done") /\ Holding(c)'
              /\ call'[c].version < invalidation[i].version => Raced(call[c].by)'
      BY <1>1, <1>4, <1>8 DEF Raced, StepOf
    <2>2. CASE l2' = l2
      BY <1>1, <2>1, <2>2, DroppedCall
    <2>3. CASE l2' = Stored(c)
      <3>1. c \in raced => Raced(l2.by)'
        BY <1>1, <1>7, <2>3 DEF Raced, StepOf
      <3>2. QED
        BY <1>1, <1>7, <1>8, <1>9, <2>1, <2>3, <3>1, DroppedCall
    <2>4. QED
      BY <1>6, <2>2, <2>3
  <1>11. StaleOnlyIfRaced'
    <2>1. call[c].version < need[c] => c \in raced
      BY <1>1, HoldingKeepsUp DEF Raced
    <2>2. QED
      BY <1>1, <1>4, <2>1, StaleCall DEF Raced, StepOf
  <1>12. WriterInv'
    <2>1. l2' # None => \E d \in Calls :
            l2'.by = {d} /\ ~At(d, "new")' /\ (tagged' \/ At(d, "tag")' \/ d \in raced')
      <3>2. ASSUME l2' = Stored(c)
            PROVE  l2'.by = {c} /\ ~At(c, "new")' /\ (tagged' \/ At(c, "tag")' \/ c \in raced')
        BY <1>4, <1>6, <1>7, <3>2 DEF At, Store, StoreBreaks, Tag, TagBreaks
      <3>3. ASSUME l2' = l2, l2 # None
            PROVE  \E d \in Calls :
                     l2'.by = {d} /\ ~At(d, "new")' /\ (tagged' \/ At(d, "tag")' \/ d \in raced')
        <4>1. PICK d \in Calls : l2.by = {d} /\ ~At(d, "new") /\ (tagged \/ At(d, "tag") \/ d \in raced)
          BY <3>3 DEF RaceInv, WriterInv
        <4>2. CASE d = c
          BY <1>1, <1>4, <1>6, <3>3, <4>1, <4>2 DEF At, StepOf
        <4>3. CASE d # c
          BY <1>1, <1>6, <3>3, <4>1, <4>3 DEF At, StepOf
        <4>4. QED
          BY <4>2, <4>3
      <3>4. QED
        BY <1>6, <3>2, <3>3
    <2>2. QED
      BY <1>1, <1>4, <2>1 DEF WriterInv, RaceInv, StepOf, Active
  <1>13. QED
    BY <1>2, <1>3, <1>10, <1>11, <1>12 DEF RaceInv

-----------------------------------------------------------------------------
(* The steps of an invalidation *)

LEMMA OthersInvalidate ==
    ASSUME RaceInv, NEW i \in Invalidations, InvalidationStep(i)
    PROVE  /\ UNCHANGED <<time, call, need>> /\ raced \subseteq raced'
           /\ \A j \in Invalidations \ {i} : invalidation'[j] = invalidation[j]
           /\ l2' \in {l2, None}
  <1>1. UNCHANGED <<time, call, need>> /\ raced \subseteq raced' /\ l2' \in {l2, None}
    BY DEF InvalidationStep, BeginInvalidation, Find, Delete, Untag, DropLocal, FindFails,
       DeleteBreaks, Fault, redis
  <1>2. \A j \in Invalidations \ {i} : invalidation'[j] = invalidation[j]
    BY DEF InvalidationStep, BeginInvalidation, Find, Delete, Untag, DropLocal, FindFails,
       DeleteBreaks, InvalidationGoes, RaceInv, RaceTyped
  <1>3. QED
    BY <1>1, <1>2

\* What a step of i owes: its own type, and what the invariant says of i.
OwnsUp(i) ==
    /\ invalidation'[i] \in Invalidation
    /\ Invalidating(i)' => \A c \in Calls : Active(c) => c \in raced'
    /\ invalidation'[i].pc # "new" => invalidation'[i].version <= Current
    /\ invalidation'[i].pc \in {"untag", "local"} /\ l2' # None => Raced(l2.by)'
    /\ InvalidationAt(i, "done")' =>
         /\ l2' # None /\ l2'.version < invalidation'[i].version => Raced(l2.by)'
         /\ \A c \in Calls : Holding(c) /\ call[c].version < invalidation'[i].version
                                => Raced(call[c].by)'
    /\ \A p \in Processes : OutlivesIn(p, i)' =>
         /\ l1'[p].until <= invalidation'[i].began + RECENT
         /\ ~(InvalidationAt(i, "done")' /\ invalidation'[i].found /\ invalidation'[i].proc = p)
    /\ InvalidationAt(i, "done") => InvalidationAt(i, "done")' /\ invalidation'[i] = invalidation[i]

LEMMA InvalidationRaces ==
    ASSUME CacheInv, RaceInv, NEW i \in Invalidations, InvalidationStep(i), OwnsUp(i),
           \A p \in Processes : l1'[p] \in {l1[p], None},
           tagged' = tagged \/ l2' = None \/ Raced(l2.by)'
    PROVE  RaceInv'
  <1>1. /\ UNCHANGED <<time, call, need>> /\ raced \subseteq raced'
        /\ \A j \in Invalidations \ {i} : invalidation'[j] = invalidation[j]
        /\ l2' \in {l2, None}
    BY OthersInvalidate
  <1>2. Current' = Current /\ \A by : Raced(by) => Raced(by)'
    BY <1>1 DEF time, Current, Raced
  <1>3. RaceTyped'
    <2>1. DOMAIN invalidation' = Invalidations /\ invalidation' = [j \in Invalidations |-> invalidation'[j]]
      BY DEF InvalidationStep, BeginInvalidation, Find, Delete, Untag, DropLocal, FindFails,
         DeleteBreaks, InvalidationGoes, RaceInv, RaceTyped
    <2>2. \A j \in Invalidations : invalidation'[j] \in Invalidation
      BY <1>1 DEF OwnsUp, RaceInv, RaceTyped
    <2>3. QED
      BY <1>1, <2>1, <2>2 DEF RaceInv, RaceTyped
  <1>4. WriterInv'
    <2>1. ASSUME l2' # None
          PROVE  \E d \in Calls :
                   l2'.by = {d} /\ ~At(d, "new")' /\ (tagged' \/ At(d, "tag")' \/ d \in raced')
      <3>1. PICK d \in Calls : l2.by = {d} /\ ~At(d, "new") /\ (tagged \/ At(d, "tag") \/ d \in raced)
        BY <1>1, <2>1 DEF RaceInv, WriterInv
      <3>2. QED
        BY <1>1, <2>1, <3>1 DEF At, Raced
    <2>2. QED
      BY <1>1, <2>1 DEF RaceInv, WriterInv, Active
  <1>5. OverlapInv'
    BY <1>1 DEF RaceInv, OverlapInv, OwnsUp, Invalidating, Active
  <1>6. DroppedInv'
    <2>1. ASSUME NEW j \in Invalidations \ {i}
          PROVE  /\ invalidation'[j].pc # "new" => invalidation'[j].version <= Current'
                 /\ invalidation'[j].pc \in {"untag", "local"} /\ l2' # None => Raced(l2.by)'
                 /\ InvalidationAt(j, "done")' =>
                      /\ l2' # None /\ l2'.version < invalidation'[j].version => Raced(l2.by)'
                      /\ \A c \in Calls : Holding(c)' /\ call'[c].version < invalidation'[j].version
                                            => Raced(call[c].by)'
      BY <1>1, <1>2 DEF RaceInv, DroppedInv, InvalidationAt, Holding
    <2>2. ASSUME NEW j \in {i}
          PROVE  /\ invalidation'[j].pc # "new" => invalidation'[j].version <= Current'
                 /\ invalidation'[j].pc \in {"untag", "local"} /\ l2' # None => Raced(l2.by)'
                 /\ InvalidationAt(j, "done")' =>
                      /\ l2' # None /\ l2'.version < invalidation'[j].version => Raced(l2.by)'
                      /\ \A c \in Calls : Holding(c)' /\ call'[c].version < invalidation'[j].version
                                            => Raced(call[c].by)'
      BY <1>1, <1>2 DEF OwnsUp, Holding
    <2>3. QED
      BY <2>1, <2>2 DEF DroppedInv
  <1>7. L1Inv'
    <2>1. \A p \in Processes : l1'[p] # None => l1'[p].until <= now' + RECENT
      BY <1>1 DEF RaceInv, L1Inv, time
    <2>2. ASSUME NEW j \in Invalidations \ {i}, NEW p \in Processes, OutlivesIn(p, j)'
          PROVE  /\ l1'[p].until <= invalidation'[j].began + RECENT
                 /\ ~(InvalidationAt(j, "done")' /\ invalidation'[j].found /\ invalidation'[j].proc = p)
      <3>1. OutlivesIn(p, j) /\ l1'[p] = l1[p]
        BY <1>1, <2>2 DEF OutlivesIn, Raced
      <3>2. QED
        BY <1>1, <3>1 DEF RaceInv, L1Inv, InvalidationAt
    <2>3. ASSUME NEW j \in {i}, NEW p \in Processes, OutlivesIn(p, j)'
          PROVE  /\ l1'[p].until <= invalidation'[j].began + RECENT
                 /\ ~(InvalidationAt(j, "done")' /\ invalidation'[j].found /\ invalidation'[j].proc = p)
      BY <2>3 DEF OwnsUp
    <2>4. QED
      BY <2>1, <2>2, <2>3 DEF L1Inv
  <1>8. NeedInv'
    <2>1. \A j \in Invalidations : InvalidationAt(j, "done") =>
            InvalidationAt(j, "done")' /\ invalidation'[j] = invalidation[j]
      BY <1>1 DEF OwnsUp, InvalidationAt
    <2>2. QED
      BY <1>1, <2>1 DEF RaceInv, NeedInv
  <1>9. StaleOnlyIfRaced'
    BY <1>1 DEF RaceInv, StaleOnlyIfRaced, At
  <1>10. QED
    BY <1>3, <1>4, <1>5, <1>6, <1>7, <1>8, <1>9 DEF RaceInv

\* It begins: whoever is on the way has raced it, and whatever is in memory is short-lived.
LEMMA BeginInvalidationRaces ==
    ASSUME CacheInv, RaceInv, NEW i \in Invalidations, NEW p \in Processes, BeginInvalidation(i, p)
    PROVE  RaceInv'
  <1>1. /\ InvalidationStep(i) /\ InvalidationAt(i, "new")
        /\ UNCHANGED <<now, l1, l2, tagged>>
        /\ raced' = raced \cup {c \in Calls : Active(c)}
    BY DEF InvalidationStep, BeginInvalidation, time, redis
  <1>2. invalidation'[i] =
          [pc |-> "find", proc |-> p, began |-> now, version |-> Current, found |-> FALSE]
    BY DEF BeginInvalidation, RaceInv, RaceTyped
  <1>3. now \in Nat /\ Current \in Nat
    BY DEF CacheInv, Typed, Current
  <1>4. invalidation'[i] \in Invalidation
    BY <1>2, <1>3 DEF Invalidation
  <1>5. /\ invalidation'[i].pc = "find" /\ invalidation'[i].version = Current
        /\ invalidation'[i].began = now
    BY <1>2
  <1>6. \A q \in Processes : OutlivesIn(q, i)' => l1'[q].until <= invalidation'[i].began + RECENT
    BY <1>1, <1>5 DEF OutlivesIn, RaceInv, L1Inv
  <1>7. \A c \in Calls : Active(c) => c \in raced'
    BY <1>1
  <1>8. OwnsUp(i)
    BY <1>1, <1>3, <1>4, <1>5, <1>6, <1>7 DEF OwnsUp, InvalidationAt
  <1>9. QED
    BY <1>1, <1>8, InvalidationRaces

LEMMA InvalidationMoves ==
    ASSUME RaceInv, NEW i \in Invalidations, NEW pc \in {"delete", "untag", "local", "done", "failed"},
           NEW found \in BOOLEAN,
           invalidation' = [invalidation EXCEPT ![i].pc = pc, ![i].found = found]
    PROVE  /\ invalidation'[i] \in Invalidation
           /\ invalidation'[i].pc = pc /\ invalidation'[i].found = found
           /\ invalidation'[i].version = invalidation[i].version
           /\ invalidation'[i].began = invalidation[i].began
           /\ invalidation'[i].proc = invalidation[i].proc
  BY DEF RaceInv, RaceTyped, Invalidation

LEMMA InvalidationGoesOn ==
    ASSUME RaceInv, NEW i \in Invalidations, NEW pc \in {"delete", "untag", "local", "done", "failed"},
           InvalidationGoes(i, pc)
    PROVE  /\ invalidation'[i] \in Invalidation
           /\ invalidation'[i].pc = pc /\ invalidation'[i].found = invalidation[i].found
           /\ invalidation'[i].version = invalidation[i].version
           /\ invalidation'[i].began = invalidation[i].began
           /\ invalidation'[i].proc = invalidation[i].proc
  BY DEF InvalidationGoes, RaceInv, RaceTyped, Invalidation

\* It asks the tag: where the key is not in the set, its entry is one that races it.
LEMMA FindRaces ==
    ASSUME CacheInv, RaceInv, tagged \in BOOLEAN, NEW i \in Invalidations, Find(i)
    PROVE  RaceInv'
  <1>1. /\ InvalidationStep(i) /\ InvalidationAt(i, "find") /\ Invalidating(i)
        /\ UNCHANGED <<now, replaced, l1, l2, tagged, call, raced>>
    BY DEF InvalidationStep, Find, time, redis, InvalidationAt, Invalidating
  <1>2. tagged = TRUE \/ tagged = FALSE
    OBVIOUS
  <1>3. invalidation[i] \in Invalidation
    BY DEF RaceInv, RaceTyped
  <1>4. /\ invalidation'[i] \in Invalidation
        /\ invalidation'[i].pc = IF tagged THEN "delete" ELSE "done"
        /\ ~tagged => ~invalidation'[i].found
        /\ invalidation'[i].version = invalidation[i].version
        /\ invalidation'[i].began = invalidation[i].began
    <2>1. invalidation'[i] = [invalidation[i] EXCEPT !.pc = IF tagged THEN "delete" ELSE "done",
                                                     !.found = tagged]
      BY DEF Find, RaceInv, RaceTyped
    <2>2. CASE tagged
      <3>1. tagged = TRUE
        BY <1>2, <2>2
      <3>2. QED
        BY <1>3, <2>1, <3>1 DEF Invalidation
    <2>3. CASE ~tagged
      <3>1. tagged = FALSE
        BY <1>2, <2>3
      <3>2. QED
        BY <1>3, <2>1, <3>1 DEF Invalidation
    <2>4. QED
      BY <2>2, <2>3
  <1>5. \A c \in Calls : Active(c) => c \in raced /\ Raced(call[c].by)
    BY <1>1 DEF RaceInv, OverlapInv, WriterInv, Raced
  <1>6. ~tagged /\ l2 # None => Raced(l2.by)
    <2>1. SUFFICES ASSUME ~tagged, l2 # None PROVE Raced(l2.by)
      OBVIOUS
    <2>2. PICK d \in Calls : l2.by = {d} /\ (At(d, "tag") \/ d \in raced)
      BY <2>1 DEF RaceInv, WriterInv
    <2>3. d \in raced
      BY <1>5, <2>2 DEF At, Active
    <2>4. QED
      BY <2>2, <2>3 DEF Raced
  <1>7. invalidation[i].version <= Current
    BY <1>1 DEF RaceInv, DroppedInv, InvalidationAt
  <1>8. \A c \in Calls : Holding(c) => Active(c)
    BY DEF Holding, Active
  <1>9. \A p \in Processes : OutlivesIn(p, i)' => OutlivesIn(p, i)
    BY <1>1, <1>4 DEF OutlivesIn, InvalidationAt, Raced
  <1>10. \A p \in Processes : OutlivesIn(p, i) => l1[p].until <= invalidation[i].began + RECENT
    BY DEF RaceInv, L1Inv
  <1>11. OwnsUp(i)
    BY <1>1, <1>4, <1>5, <1>6, <1>7, <1>8, <1>9, <1>10 DEF OwnsUp, InvalidationAt, Raced
  <1>12. QED
    BY <1>1, <1>11, InvalidationRaces

LEMMA PipelineRaces ==
    ASSUME CacheInv, RaceInv, NEW i \in Invalidations,
           Delete(i) \/ Untag(i) \/ DeleteBreaks(i) \/ FindFails(i)
    PROVE  RaceInv'
  <1>1. /\ InvalidationStep(i) /\ ~InvalidationAt(i, "done") /\ ~InvalidationAt(i, "new")
        /\ UNCHANGED <<now, replaced, l1, call>> /\ l2' \in {l2, None} /\ raced \subseteq raced'
    BY OthersInvalidate DEF InvalidationStep, Delete, Untag, DeleteBreaks, FindFails, time, redis,
       InvalidationAt
  <1>2. PICK pc \in {"untag", "local", "failed"} :
          /\ InvalidationGoes(i, pc)
          /\ pc = IF Delete(i) THEN "untag" ELSE IF FindFails(i) THEN "failed" ELSE "local"
    <2>1. Delete(i) => ~Untag(i) /\ ~FindFails(i)
      BY DEF Delete, Untag, FindFails, InvalidationAt
    <2>2. CASE Delete(i)
      BY <2>2 DEF Delete
    <2>3. CASE FindFails(i) /\ ~Delete(i)
      BY <2>3 DEF FindFails
    <2>4. CASE (Untag(i) \/ DeleteBreaks(i)) /\ ~Delete(i) /\ ~FindFails(i)
      BY <2>4 DEF Untag, DeleteBreaks
    <2>5. QED
      BY <2>2, <2>3, <2>4
  <1>3. /\ invalidation'[i] \in Invalidation /\ invalidation'[i].pc = pc
        /\ invalidation'[i].version = invalidation[i].version
        /\ invalidation'[i].began = invalidation[i].began
    BY <1>2, InvalidationGoesOn
  <1>4. pc \in {"untag", "local"} => Invalidating(i)
    BY <1>2 DEF Delete, Untag, DeleteBreaks, FindFails, InvalidationAt, Invalidating
  <1>5. Invalidating(i)' => \A c \in Calls : Active(c) => c \in raced'
    <2>1. CASE pc = "failed"
      BY <1>3, <2>1 DEF Invalidating
    <2>2. CASE pc # "failed"
      BY <1>1, <1>4, <2>2 DEF RaceInv, OverlapInv
    <2>3. QED
      BY <2>1, <2>2
  <1>6. pc \in {"untag", "local"} /\ l2' # None => Raced(l2.by)'
    <2>1. SUFFICES ASSUME pc \in {"untag", "local"}, l2' # None PROVE Raced(l2.by)'
      OBVIOUS
    <2>2. l2' = l2 /\ (Untag(i) \/ DeleteBreaks(i))
      BY <1>1, <1>2, <2>1 DEF Delete
    <2>3. CASE Untag(i)
      BY <1>1, <2>1, <2>2, <2>3 DEF RaceInv, DroppedInv, Untag, InvalidationAt, Raced
    <2>4. CASE DeleteBreaks(i)
      <3>1. PICK d \in Calls : l2.by = {d} /\ ~At(d, "new")
        BY <2>1, <2>2 DEF RaceInv, WriterInv
      <3>2. d \in raced'
        BY <2>4, <3>1 DEF DeleteBreaks, Fault
      <3>3. QED
        BY <2>2, <3>1, <3>2 DEF Raced
    <2>5. QED
      BY <2>2, <2>3, <2>4
  <1>7. tagged' = tagged \/ l2' = None \/ Raced(l2.by)'
    <2>1. CASE Delete(i) \/ FindFails(i)
      BY <2>1 DEF Delete, FindFails, redis
    <2>2. CASE ~(Delete(i) \/ FindFails(i))
      BY <1>2, <1>6, <2>2
    <2>3. QED
      BY <2>1, <2>2
  <1>8. invalidation[i].version <= Current
    BY <1>1 DEF RaceInv, DroppedInv, InvalidationAt
  <1>9. \A p \in Processes : OutlivesIn(p, i)' => OutlivesIn(p, i)
    BY <1>1, <1>2, <1>3, <1>4 DEF OutlivesIn, Invalidating, Raced
  <1>10. \A p \in Processes : OutlivesIn(p, i) => l1[p].until <= invalidation[i].began + RECENT
    BY DEF RaceInv, L1Inv
  <1>11. OwnsUp(i)
    BY <1>1, <1>2, <1>3, <1>5, <1>6, <1>8, <1>9, <1>10 DEF OwnsUp, InvalidationAt
  <1>12. QED
    BY <1>1, <1>7, <1>11, InvalidationRaces

\* The last step empties the memory of the process that invalidates.
LEMMA DropLocalRaces ==
    ASSUME CacheInv, RaceInv, NEW i \in Invalidations, DropLocal(i)
    PROVE  RaceInv'
  <1>1. /\ InvalidationStep(i) /\ InvalidationAt(i, "local") /\ Invalidating(i)
        /\ UNCHANGED <<now, replaced, l2, tagged, call, raced>>
    BY DEF InvalidationStep, DropLocal, time, redis, InvalidationAt, Invalidating
  <1>2. /\ invalidation'[i] \in Invalidation /\ invalidation'[i].pc = "done"
        /\ invalidation'[i].version = invalidation[i].version
        /\ invalidation'[i].began = invalidation[i].began
        /\ invalidation'[i].proc = invalidation[i].proc
    BY InvalidationGoesOn DEF DropLocal
  <1>3. \A p \in Processes : /\ l1'[p] \in {l1[p], None}
                             /\ invalidation[i].proc = p => l1'[p] = None
    BY DEF DropLocal, CacheInv, Typed
  <1>4. \A c \in Calls : Active(c) => Raced(call[c].by)
    BY <1>1 DEF RaceInv, OverlapInv, WriterInv, Raced
  <1>5. l2 # None => Raced(l2.by)
    BY <1>1 DEF RaceInv, DroppedInv, InvalidationAt
  <1>6. invalidation[i].version <= Current
    BY <1>1 DEF RaceInv, DroppedInv, InvalidationAt
  <1>7. \A p \in Processes : OutlivesIn(p, i)' =>
          OutlivesIn(p, i) /\ l1'[p] = l1[p] /\ invalidation[i].proc # p
    BY <1>1, <1>2, <1>3 DEF OutlivesIn, InvalidationAt, Raced
  <1>8. \A p \in Processes : OutlivesIn(p, i) => l1[p].until <= invalidation[i].began + RECENT
    BY DEF RaceInv, L1Inv
  <1>9. \A c \in Calls : Holding(c) => Active(c)
    BY DEF Holding, Active
  <1>10. OwnsUp(i)
    BY <1>1, <1>2, <1>4, <1>5, <1>6, <1>7, <1>8, <1>9 DEF OwnsUp, InvalidationAt, Invalidating, Raced
  <1>11. QED
    BY <1>1, <1>3, <1>10, InvalidationRaces

-----------------------------------------------------------------------------
(* The environment *)

LEMMA WriteRaces ==
    ASSUME CacheInv, RaceInv, Write
    PROVE  RaceInv'
  <1>1. UNCHANGED <<now, l1, l2, tagged, call, invalidation, raced, need>>
    BY DEF Write, redis
  <1>2. Current \in Nat /\ Current' = Current + 1
    BY DEF Write, CacheInv, Typed, Current
  <1>3. \A i \in Invalidations : invalidation[i].version \in Nat
    BY DEF RaceInv, RaceTyped, Invalidation
  <1>4. DroppedInv'
    BY <1>1, <1>2, <1>3 DEF RaceInv, DroppedInv, InvalidationAt, Holding, Raced
  <1>5. RaceTyped' /\ WriterInv' /\ OverlapInv' /\ NeedInv' /\ StaleOnlyIfRaced'
    BY <1>1 DEF RaceInv, RaceTyped, WriterInv, OverlapInv, NeedInv, StaleOnlyIfRaced, At, Active,
       Invalidating, InvalidationAt
  <1>6. L1Inv'
    BY <1>1 DEF RaceInv, L1Inv, OutlivesIn, Raced, InvalidationAt
  <1>7. QED
    BY <1>4, <1>5, <1>6 DEF RaceInv

LEMMA TickRaces ==
    ASSUME CacheInv, RaceInv, Tick
    PROVE  RaceInv'
  <1>1. UNCHANGED <<replaced, tagged, call, invalidation, raced, need>> /\ now' = now + 1 /\ now \in Nat
    BY DEF Tick, CacheInv, Typed
  <1>2. l2' \in {l2, None} /\ \A p \in Processes : l1'[p] \in {l1[p], None}
    BY DEF Tick, Live, CacheInv, Typed
  <1>3. Current' = Current
    BY <1>1 DEF Current
  <1>4. RaceTyped' /\ WriterInv' /\ OverlapInv' /\ NeedInv' /\ StaleOnlyIfRaced'
    BY <1>1, <1>2 DEF RaceInv, RaceTyped, WriterInv, OverlapInv, NeedInv, StaleOnlyIfRaced, At, Active,
       Invalidating, InvalidationAt
  <1>5. DroppedInv'
    BY <1>1, <1>2, <1>3 DEF RaceInv, DroppedInv, InvalidationAt, Holding, Raced
  <1>6. \A p \in Processes : l1'[p] # None => l1'[p] = l1[p] /\ l1[p].until \in Int
    BY <1>2 DEF CacheInv, Typed, Entry
  <1>7. \A p \in Processes : l1'[p] # None => l1'[p].until <= now' + RECENT
    <2>1. ASSUME NEW p \in Processes, l1'[p] # None
          PROVE  l1'[p].until <= now' + RECENT
      <3>1. l1[p].until <= now + RECENT /\ l1'[p] = l1[p] /\ l1[p].until \in Int
        BY <1>6, <2>1 DEF RaceInv, L1Inv
      <3>2. QED
        BY <1>1, <3>1, Recent
    <2>2. QED
      BY <2>1
  <1>8. \A i \in Invalidations, p \in Processes : OutlivesIn(p, i)' => OutlivesIn(p, i)
    BY <1>1, <1>6 DEF OutlivesIn, Raced
  <1>9. L1Inv'
    BY <1>1, <1>6, <1>7, <1>8 DEF RaceInv, L1Inv, OutlivesIn, InvalidationAt
  <1>10. QED
    BY <1>4, <1>5, <1>9 DEF RaceInv

LEMMA NextRaces ==
    ASSUME CacheInv, CacheInv', RaceInv, tagged \in BOOLEAN, [Next]_vars
    PROVE  RaceInv' /\ tagged' \in BOOLEAN
  <1>1. ASSUME UNCHANGED vars
        PROVE  RaceInv'
    <2>1. UNCHANGED <<now, replaced, l1, l2, tagged, call, invalidation, raced, need>>
      BY <1>1 DEF vars
    <2>2. QED
      BY <2>1 DEF RaceInv, RaceTyped, WriterInv, OverlapInv, DroppedInv, L1Inv, NeedInv,
         StaleOnlyIfRaced, At, Active, Holding, Invalidating, InvalidationAt, OutlivesIn, Raced, Current
  <1>2. ASSUME NEW c \in Calls, CallStep(c)
        PROVE  RaceInv'
    BY <1>2, BeginRaces, ReadRaces, KeepRaces, LoadRaces, SetRaces DEF CallStep
  <1>3. ASSUME NEW i \in Invalidations, InvalidationStep(i)
        PROVE  RaceInv'
    BY <1>3, BeginInvalidationRaces, FindRaces, PipelineRaces, DropLocalRaces DEF InvalidationStep
  <1>4. tagged' \in BOOLEAN
    <2>1. tagged' = tagged \/ tagged' = TRUE \/ tagged' = FALSE
      BY DEF Next, CallStep, Begin, Read, ReadFails, Refill, Load, KeepLoaded, Store, StoreBreaks, Tag,
         TagBreaks, InvalidationStep, BeginInvalidation, Find, Delete, Untag, DropLocal, FindFails,
         DeleteBreaks, Write, Tick, redis, vars
    <2>2. QED
      BY <2>1
  <1>5. RaceInv'
    BY <1>1, <1>2, <1>3, WriteRaces, TickRaces DEF Next
  <1>6. QED
    BY <1>4, <1>5

LEMMA InitRaces == Init => RaceInv /\ tagged \in BOOLEAN
  <1> SUFFICES ASSUME Init PROVE RaceInv /\ tagged \in BOOLEAN
    OBVIOUS
  <1>1. /\ \A i \in Invalidations : invalidation[i].pc = "new"
        /\ \A c \in Calls : call[c].pc = "new" /\ need[c] = 0
        /\ l2 = None /\ \A p \in Processes : l1[p] = None
    BY DEF Init
  <1>2. RaceTyped
    <2>1. [pc |-> "new", proc |-> None, began |-> 0, version |-> 0, found |-> FALSE] \in Invalidation
      BY DEF Invalidation
    <2>2. QED
      BY <2>1 DEF Init, RaceTyped
  <1>3. QED
    BY <1>1, <1>2 DEF RaceInv, WriterInv, OverlapInv, DroppedInv, L1Inv, NeedInv, StaleOnlyIfRaced, At,
       Active, Holding, Invalidating, InvalidationAt, OutlivesIn, Init

\* However invalidations, calls, evictions, expiries and faults are interleaved, an answer behind
\* what was announced went through a call that overlapped an invalidation or was hit by a fault.
THEOREM StalenessIsExplained == Spec => []StaleOnlyIfRaced
  <1> DEFINE Inv == RaceInv /\ tagged \in BOOLEAN
  <1>1. Init => Inv
    BY InitRaces
  <1>2. CacheInv /\ CacheInv' /\ Inv /\ [Next]_vars => Inv'
    BY NextRaces
  <1>3. Inv => StaleOnlyIfRaced
    BY DEF RaceInv
  <1> HIDE DEF Inv
  <1>4. QED
    BY <1>1, <1>2, <1>3, CacheInvariant, PTL DEF Spec

=============================================================================
