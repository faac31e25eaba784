---------------------------- MODULE RateLimitsProofs ----------------------------
(* Theorems about RateLimits, for any requests, endpoints, limits, window   *)
(* and latency shorter than the window, and any number of faults.           *)
EXTENDS RateLimits, FiniteSetTheorems, TLAPS

-----------------------------------------------------------------------------
(* Typing *)

LEMMA CountType ==
    ASSUME NEW A \in SUBSET Requests
    PROVE  IsFiniteSet(A) /\ Cardinality(A) \in Nat
  BY RequestsAreFinite, FS_Subset, FS_CardinalityType

LEMMA InitType == Init => TypeOK
  <1>1. 0 \in 0..MaxFaults
    BY Bounds
  <1>2. ASSUME Init
        PROVE  /\ check \in [Requests -> Check \cup {Null}]
               /\ addedAt \in [Requests -> Nat]
    BY <1>2 DEF Init
  <1>3. Init => lapsed \in BOOLEAN
    BY DEF Init
  <1>4. QED
    BY <1>1, <1>2, <1>3 DEF Init, TypeOK

LEMMA VerdictType ==
    ASSUME NEW e \in Endpoints, NEW c \in Nat
    PROVE  Verdict(e, c) \in {"allowed", "denied"}
  BY DEF Verdict

\* A check in progress is a record, and stays one wherever it goes.
LEMMA GoType ==
    ASSUME TypeOK, NEW r \in Requests, check[r] # Null,
           NEW pc \in {"trim", "add", "count", "expire", "allowed", "denied"}, Go(r, pc)
    PROVE  check' \in [Requests -> Check \cup {Null}]
  <1>1. check[r] \in Check
    BY DEF TypeOK
  <1>2. [check[r] EXCEPT !.pc = pc] \in Check
    BY <1>1 DEF Check
  <1>3. check' = [check EXCEPT ![r] = [check[r] EXCEPT !.pc = pc]]
    BY DEF Go
  <1>4. QED
    BY <1>2, <1>3 DEF TypeOK

LEMMA NextType == TypeOK /\ [Next]_vars => TypeOK'
  <1> SUFFICES ASSUME TypeOK, [Next]_vars PROVE TypeOK'
    OBVIOUS
  <1>0. WINDOW \in Nat /\ MaxFaults \in Nat
    BY LatencyIsShort, Bounds
  <1>1. ASSUME NEW r \in Requests, RequestStep(r) PROVE TypeOK'
    <2>1. check[r] # Null => check[r] \in Check
      BY DEF TypeOK
    <2>2. ASSUME NEW e \in Endpoints, Begin(r, e) \/ Refuse(r, e) PROVE TypeOK'
      <3>1. /\ [pc |-> "trim", endpoint |-> e, stamp |-> now, count |-> 0] \in Check
            /\ [pc |-> "denied", endpoint |-> e, stamp |-> now, count |-> 0] \in Check
        BY DEF TypeOK, Check
      <3>2. QED
        BY <1>0, <2>2, <3>1 DEF Begin, Refuse, Fault, history, TypeOK
    <2>3. CASE Trim(r)
      BY <2>3, GoType DEF Trim, At, TypeOK
    <2>4. CASE Add(r)
      BY <2>4, GoType DEF Add, At, TypeOK
    <2>5. CASE Count(r)
      <3>1. Cardinality(zset) \in Nat
        BY CountType DEF TypeOK
      <3>2. [check[r] EXCEPT !.pc = "expire", !.count = Cardinality(zset)] \in Check
        BY <2>1, <2>5, <3>1 DEF Count, At, Check
      <3>3. check' = [check EXCEPT ![r] = [check[r] EXCEPT !.pc = "expire", !.count = Cardinality(zset)]]
        BY <2>5 DEF Count
      <3>4. QED
        BY <2>5, <3>2, <3>3 DEF Count, history, TypeOK
    <2>6. ASSUME check[r] # Null
          PROVE  /\ Verdict(check[r].endpoint, check[r].count) \in {"allowed", "denied"}
                 /\ Verdict(check[r].endpoint, 1) \in {"allowed", "denied"}
      BY <2>1, <2>6, VerdictType DEF Check
    <2>7. CASE Expire(r)
      BY <1>0, <2>6, <2>7, GoType DEF Expire, At, TypeOK
    <2>8. CASE Break(r)
      BY <1>0, <2>6, <2>8, GoType DEF Break, Fault, InFlight, At, TypeOK
    <2>9. CASE LoseReplies(r)
      BY <1>0, <2>6, <2>9, GoType DEF LoseReplies, Fault, At, TypeOK
    <2>10. QED
      BY <1>1, <2>2, <2>3, <2>4, <2>5, <2>7, <2>8, <2>9 DEF RequestStep
  <1>2. CASE Tick
    <2>1. now' \in Nat /\ zset' \in SUBSET Requests /\ keyUntil' \in Nat /\ fresh' \in SUBSET Requests
      BY <1>2 DEF Tick, TypeOK
    <2>2. lapsed' \in BOOLEAN
      <3>1. lapsed' = (lapsed \/ fresh # {}) \/ lapsed' = lapsed
        BY <1>2 DEF Tick
      <3>2. QED
        BY <3>1 DEF TypeOK
    <2>3. QED
      BY <1>2, <2>1, <2>2 DEF Tick, TypeOK
  <1>3. CASE UNCHANGED vars
    BY <1>3 DEF vars, history, TypeOK
  <1>4. QED
    BY <1>1, <1>2, <1>3 DEF Next

\* Every reachable state of the limiter is well typed.
THEOREM RateTyped == Spec => []TypeOK
  BY InitType, NextType, PTL DEF Spec

-----------------------------------------------------------------------------
(* The invariant *)

LEMMA InitRate == Init => RateInv
  BY DEF Init, RateInv, StampsInv, HeldInv, TrimmedInv, Held, Counted, At, InFlight

Pcs == {"trim", "add", "count", "expire", "allowed", "denied"}

\* A step that moves the check of r to pc, and touches no other check.
Moved(r, pc) ==
    /\ \A x \in Requests \ {r} : check'[x] = check[x]
    /\ check[r] # Null /\ check'[r] # Null
    /\ check'[r].pc = pc
    /\ check'[r].stamp = check[r].stamp
    /\ check'[r].endpoint = check[r].endpoint

LEMMA GoMoves ==
    ASSUME TypeOK, NEW r \in Requests, check[r] # Null, NEW pc \in Pcs, Go(r, pc)
    PROVE  Moved(r, pc) /\ check'[r].count = check[r].count
  <1>1. check[r] \in Check
    BY DEF TypeOK
  <1>2. check' = [check EXCEPT ![r] = [check[r] EXCEPT !.pc = pc]]
    BY DEF Go
  <1>3. [check[r] EXCEPT !.pc = pc] \in Check
    BY <1>1 DEF Check, Pcs
  <1>4. check'[r] = [check[r] EXCEPT !.pc = pc] /\ \A x \in Requests \ {r} : check'[x] = check[x]
    BY <1>2 DEF TypeOK
  <1>5. QED
    BY <1>1, <1>3, <1>4, NullIsNoCheck DEF Moved, Check

LEMMA CountMoves ==
    ASSUME TypeOK, NEW r \in Requests, Count(r)
    PROVE  Moved(r, "expire") /\ check'[r].count = Cardinality(zset) /\ Cardinality(zset) \in Nat
  <1>1. check[r] \in Check /\ Cardinality(zset) \in Nat
    BY CountType DEF TypeOK, Count, At
  <1>2. check' = [check EXCEPT ![r] = [check[r] EXCEPT !.pc = "expire", !.count = Cardinality(zset)]]
    BY DEF Count
  <1>3. [check[r] EXCEPT !.pc = "expire", !.count = Cardinality(zset)] \in Check
    BY <1>1 DEF Check
  <1>4. /\ check'[r] = [check[r] EXCEPT !.pc = "expire", !.count = Cardinality(zset)]
        /\ \A x \in Requests \ {r} : check'[x] = check[x]
    BY <1>2 DEF TypeOK
  <1>5. check[r] # Null /\ check'[r] # Null
    BY <1>3, <1>4, NullIsNoCheck DEF Count, At
  <1>6. /\ check'[r].pc = "expire" /\ check'[r].count = Cardinality(zset)
        /\ check'[r].stamp = check[r].stamp /\ check'[r].endpoint = check[r].endpoint
    BY <1>1, <1>4 DEF Check
  <1>7. QED
    BY <1>1, <1>4, <1>5, <1>6 DEF Moved

\* The two ways to begin: a check that has not touched Redis.
LEMMA BeginMoves ==
    ASSUME TypeOK, NEW r \in Requests, NEW e \in Endpoints, Begin(r, e) \/ Refuse(r, e)
    PROVE  /\ \A x \in Requests \ {r} : check'[x] = check[x]
           /\ check[r] = Null /\ check'[r] # Null
           /\ check'[r].stamp = now
           /\ check'[r].pc \in {"trim", "denied"}
           /\ check'[r].pc = "denied" => r \in faulty'
           /\ faulty \subseteq faulty'
           /\ UNCHANGED <<now, zset, keyUntil, addedAt, fresh, lapsed>>
  <1>1. PICK pc \in {"trim", "denied"} :
            check' = [check EXCEPT ![r] = [pc |-> pc, endpoint |-> e, stamp |-> now, count |-> 0]]
    BY DEF Begin, Refuse
  <1>2. [pc |-> pc, endpoint |-> e, stamp |-> now, count |-> 0] \in Check
    BY DEF TypeOK, Check
  <1>3. /\ check'[r] = [pc |-> pc, endpoint |-> e, stamp |-> now, count |-> 0]
        /\ \A x \in Requests \ {r} : check'[x] = check[x]
    BY <1>1 DEF TypeOK
  <1>4. check'[r].pc = "denied" => r \in faulty'
    <2>1. CASE Begin(r, e)
      <3>1. check' = [check EXCEPT ![r] = [pc |-> "trim", endpoint |-> e, stamp |-> now, count |-> 0]]
        BY <2>1 DEF Begin
      <3>2. check'[r] = [pc |-> "trim", endpoint |-> e, stamp |-> now, count |-> 0]
        BY <3>1 DEF TypeOK
      <3>3. QED
        BY <3>2
    <2>2. CASE Refuse(r, e)
      BY <2>2 DEF Refuse, Fault
    <2>3. QED
      BY <2>1, <2>2
  <1>5. QED
    BY <1>2, <1>3, <1>4, NullIsNoCheck DEF Begin, Refuse, Fault, history

\* A step that writes nothing to Redis keeps the invariant if no request becomes held by it,
\* and none enters the part of its check between the trim and the count.
LEMMA QuietRate ==
    ASSUME TypeOK, RateInv, UNCHANGED <<now, zset, keyUntil, addedAt, fresh, lapsed>>,
           \A x \in Requests : check[x] # Null => check'[x] # Null /\ check'[x].stamp = check[x].stamp,
           \A x \in Requests : check'[x] # Null => check'[x].stamp <= now,
           \A x \in Requests : InFlight(x)' => now <= check'[x].stamp + MaxLatency,
           \A x \in Requests : Held(x)' => Held(x),
           \A x \in Requests : At(x, "add")' \/ At(x, "count")' => At(x, "add") \/ At(x, "count")
    PROVE  RateInv'
  <1>1. \A x \in Requests : Held(x) => check[x] # Null
    BY DEF Held, Counted, At
  <1>2. \A x \in Requests : At(x, "add") \/ At(x, "count") => check[x] # Null
    BY DEF At
  <1>3. StampsInv'
    BY <1>1 DEF RateInv, StampsInv, TypeOK
  <1>4. HeldInv'
    BY DEF RateInv, HeldInv, Recent, TypeOK
  <1>5. TrimmedInv'
    BY <1>2 DEF RateInv, TrimmedInv, StampsInv, TypeOK
  <1>6. QED
    BY <1>3, <1>4, <1>5 DEF RateInv

LEMMA TrimRate ==
    ASSUME TypeOK, RateInv, NEW r \in Requests, Trim(r)
    PROVE  RateInv'
  <1>1. /\ Moved(r, "add") /\ check[r] # Null /\ check[r].pc = "trim"
        /\ zset' = {x \in zset : check[x].stamp > check[r].stamp - WINDOW}
        /\ fresh' = fresh \cap zset'
        /\ keyUntil' = IF zset' = {} THEN 0 ELSE keyUntil
        /\ UNCHANGED <<now, addedAt, faulty, lapsed>>
    BY GoMoves DEF Trim, At, Pcs
  <1>2. /\ WINDOW \in Nat /\ MaxLatency \in Nat /\ MaxLatency < WINDOW
        /\ now \in Nat /\ addedAt \in [Requests -> Nat] /\ zset \subseteq Requests
        /\ \A x \in Requests : check[x] # Null => check[x] \in Check
    BY LatencyIsShort DEF TypeOK
  <1>3. \A x \in Requests : check[x] # Null => check[x].stamp \in Nat /\ check'[x].stamp = check[x].stamp
    BY <1>1, <1>2 DEF Moved, Check
  <1>4. \A x \in Requests : Held(x)' => Held(x)
    BY <1>1 DEF Held, Counted, At, Moved
  <1>5. \A x \in Requests : InFlight(x)' => InFlight(x)
    BY <1>1 DEF InFlight, Moved
  <1>6. \A x \in Requests : check'[x] # Null => check[x] # Null
    BY <1>1 DEF Moved
  <1>7. \A x \in Requests : check[x] # Null => check'[x] # Null
    BY <1>1 DEF Moved
  <1>8. StampsInv'
    BY <1>1, <1>2, <1>3, <1>4, <1>5, <1>6, <1>7 DEF RateInv, StampsInv, InFlight, Held, Counted, At
  <1>9. HeldInv'
    <2>1. \A x \in zset' \ fresh' : keyUntil' >= addedAt'[x] + 2 * WINDOW
      BY <1>1 DEF RateInv, HeldInv
    <2>2. ASSUME ~lapsed, NEW x \in Requests, Held(x)', Recent(x)'
          PROVE  x \in zset'
      <3>1. Held(x) /\ Recent(x) /\ x \in zset
        BY <1>1, <1>4, <2>2 DEF Recent, RateInv, HeldInv
      <3>2. check[x] # Null /\ addedAt[x] <= check[x].stamp + MaxLatency
        BY <3>1 DEF RateInv, StampsInv
      <3>3. check[x].stamp \in Nat /\ check[r].stamp \in Nat /\ check[r].stamp <= now
        BY <1>1, <1>3, <3>2 DEF RateInv, StampsInv
      <3>4. check[x].stamp > check[r].stamp - WINDOW
        BY <1>2, <3>1, <3>2, <3>3 DEF Recent
      <3>5. QED
        BY <1>1, <3>1, <3>4
    <2>3. QED
      BY <1>1, <2>1, <2>2 DEF HeldInv
  <1>10. TrimmedInv'
    <2>1. ASSUME NEW q \in Requests, At(q, "add")' \/ At(q, "count")', NEW x \in zset'
          PROVE  check'[x].stamp > check'[q].stamp - WINDOW
      <3>1. x \in zset /\ x \in Requests /\ check[x] # Null /\ check'[x].stamp = check[x].stamp
        BY <1>1, <1>2, <1>3, <2>1 DEF RateInv, StampsInv
      <3>2. CASE q = r
        BY <1>1, <1>3, <2>1, <3>1, <3>2
      <3>3. CASE q # r
        BY <1>1, <2>1, <3>1, <3>3 DEF Moved, At, RateInv, TrimmedInv
      <3>4. QED
        BY <3>2, <3>3
    <2>2. QED
      BY <2>1 DEF TrimmedInv
  <1>11. QED
    BY <1>8, <1>9, <1>10 DEF RateInv

LEMMA AddRate ==
    ASSUME TypeOK, RateInv, NEW r \in Requests, Add(r)
    PROVE  RateInv'
  <1>1. /\ Moved(r, "count") /\ check[r] # Null /\ check[r].pc = "add"
        /\ zset' = zset \cup {r}
        /\ addedAt' = [addedAt EXCEPT ![r] = now]
        /\ fresh' = fresh \cup {r}
        /\ UNCHANGED <<now, keyUntil, faulty, lapsed>>
    BY GoMoves DEF Add, At, Pcs
  <1>2. /\ WINDOW \in Nat /\ MaxLatency \in Nat /\ MaxLatency < WINDOW
        /\ now \in Nat /\ addedAt \in [Requests -> Nat] /\ zset \subseteq Requests
        /\ \A x \in Requests : check[x] # Null => check[x] \in Check
    BY LatencyIsShort DEF TypeOK
  <1>3. \A x \in Requests : check[x] # Null => check[x].stamp \in Nat /\ check'[x].stamp = check[x].stamp
    BY <1>1, <1>2 DEF Moved, Check
  <1>4. /\ addedAt'[r] = now
        /\ \A x \in Requests \ {r} : addedAt'[x] = addedAt[x] /\ (Held(x)' => Held(x))
    BY <1>1, <1>2 DEF Held, Counted, At, Moved
  <1>5. \A x \in Requests : InFlight(x)' => InFlight(x)
    BY <1>1 DEF InFlight, Moved
  <1>6. \A x \in Requests : check'[x] # Null <=> check[x] # Null
    BY <1>1 DEF Moved
  <1>7. check[r].stamp <= now /\ now <= check[r].stamp + MaxLatency
    BY <1>1 DEF RateInv, StampsInv, InFlight
  <1>8. StampsInv'
    <2>1. \A x \in Requests : Held(x)' => addedAt'[x] <= check'[x].stamp + MaxLatency
      <3>1. \A x \in Requests : Held(x) => check[x] # Null
        BY DEF Held, Counted, At
      <3>2. QED
        BY <1>1, <1>3, <1>4, <1>7, <3>1 DEF RateInv, StampsInv
    <2>2. \A x \in zset' : check'[x] # Null /\ addedAt'[x] <= now'
      BY <1>1, <1>2, <1>4, <1>6 DEF RateInv, StampsInv
    <2>3. fresh' \subseteq zset'
      BY <1>1 DEF RateInv, StampsInv
    <2>4. \A x \in Requests : check'[x] # Null => check'[x].stamp <= now'
      BY <1>1, <1>3, <1>6 DEF RateInv, StampsInv
    <2>5. \A x \in Requests : InFlight(x)' => now' <= check'[x].stamp + MaxLatency
      BY <1>1, <1>3, <1>5 DEF RateInv, StampsInv, InFlight
    <2>6. QED
      BY <2>1, <2>2, <2>3, <2>4, <2>5 DEF StampsInv
  <1>9. HeldInv'
    <2>1. \A x \in zset' \ fresh' : keyUntil' >= addedAt'[x] + 2 * WINDOW
      BY <1>1, <1>2, <1>4 DEF RateInv, HeldInv
    <2>2. ASSUME ~lapsed, NEW x \in Requests, Held(x)', Recent(x)'
          PROVE  x \in zset'
      BY <1>1, <1>4, <2>2 DEF Recent, RateInv, HeldInv
    <2>3. QED
      BY <1>1, <2>1, <2>2 DEF HeldInv
  <1>10. TrimmedInv'
    <2>1. ASSUME NEW q \in Requests, At(q, "add")' \/ At(q, "count")', NEW x \in zset'
          PROVE  check'[x].stamp > check'[q].stamp - WINDOW
      <3>1. At(q, "add") \/ At(q, "count")
        BY <1>1, <2>1 DEF Moved, At
      <3>2. check[q] # Null /\ check'[q].stamp = check[q].stamp /\ check[q].stamp \in Nat /\ check[q].stamp <= now
        BY <1>3, <3>1 DEF At, RateInv, StampsInv
      <3>3. x \in Requests /\ check[x] # Null /\ check'[x].stamp = check[x].stamp /\ check[x].stamp \in Nat
        BY <1>1, <1>2, <1>3, <2>1 DEF RateInv, StampsInv
      <3>4. CASE x = r
        BY <1>2, <1>7, <3>2, <3>3, <3>4
      <3>5. CASE x # r
        BY <1>1, <3>1, <3>2, <3>3, <3>5 DEF RateInv, TrimmedInv
      <3>6. QED
        BY <3>4, <3>5
    <2>2. QED
      BY <2>1 DEF TrimmedInv
  <1>11. QED
    BY <1>8, <1>9, <1>10 DEF RateInv

\* The pexpire, whatever becomes of the replies.
LEMMA ExpireRate ==
    ASSUME TypeOK, RateInv, NEW r \in Requests, NEW pc \in {"allowed", "denied"},
           At(r, "expire"), Moved(r, pc), faulty \subseteq faulty',
           keyUntil' = IF zset = {} THEN keyUntil ELSE now + 2 * WINDOW,
           fresh' = {}, UNCHANGED <<now, zset, addedAt, lapsed>>
    PROVE  RateInv'
  <1>1. /\ \A x \in Requests : Held(x)' => Held(x)
        /\ \A x \in Requests : InFlight(x)' => InFlight(x)
        /\ \A x \in Requests : check'[x] # Null <=> check[x] # Null
        /\ \A x \in Requests : check'[x] # Null => check'[x].stamp = check[x].stamp
        /\ \A x \in Requests : At(x, "add")' \/ At(x, "count")' => At(x, "add") \/ At(x, "count")
    BY DEF Held, Counted, At, InFlight, Moved
  <1>2. /\ now \in Nat /\ addedAt \in [Requests -> Nat] /\ zset \subseteq Requests /\ WINDOW \in Nat
    BY LatencyIsShort DEF TypeOK
  <1>3. StampsInv'
    <2>1. \A x \in Requests : Held(x) => check[x] # Null
      BY DEF Held, Counted, At
    <2>2. QED
      BY <1>1, <1>2, <2>1 DEF RateInv, StampsInv
  <1>4. HeldInv'
    <2>1. \A x \in zset : addedAt[x] <= now
      BY DEF RateInv, StampsInv
    <2>2. \A x \in zset' \ fresh' : keyUntil' >= addedAt'[x] + 2 * WINDOW
      BY <1>2, <2>1
    <2>3. QED
      BY <1>1, <2>2 DEF RateInv, HeldInv, Recent
  <1>5. TrimmedInv'
    <2>1. \A x \in Requests : At(x, "add") \/ At(x, "count") => check[x] # Null
      BY DEF At
    <2>2. QED
      BY <1>1, <1>2, <2>1 DEF RateInv, TrimmedInv, StampsInv
  <1>6. QED
    BY <1>3, <1>4, <1>5 DEF RateInv

\* Where the verdicts send a check, with the reply to zcard and without it.
LEMMA Verdicts ==
    ASSUME TypeOK, NEW r \in Requests, check[r] # Null
    PROVE  /\ Verdict(check[r].endpoint, check[r].count) \in {"allowed", "denied"}
           /\ Verdict(check[r].endpoint, 1) \in {"allowed", "denied"}
  <1>1. check[r] \in Check
    BY DEF TypeOK
  <1>2. QED
    BY <1>1, VerdictType DEF Check

LEMMA BreakMoves ==
    ASSUME TypeOK, NEW r \in Requests, Break(r)
    PROVE  \E pc \in {"allowed", "denied"} : Moved(r, pc)
  <1>1. check[r] # Null
    BY DEF Break, InFlight
  <1>2. PICK pc \in {"allowed", "denied"} : Go(r, pc)
    BY <1>1, Verdicts DEF Break
  <1>3. QED
    BY <1>1, <1>2, GoMoves DEF Pcs

LEMMA RequestRate ==
    ASSUME TypeOK, RateInv, NEW r \in Requests, RequestStep(r)
    PROVE  RateInv'
  <1>0. now \in Nat /\ MaxLatency \in Nat
    BY LatencyIsShort DEF TypeOK
  <1>1. ASSUME NEW e \in Endpoints, Begin(r, e) \/ Refuse(r, e) PROVE RateInv'
    <2>1. \A x \in Requests : Held(x)' => Held(x)
      BY <1>1, BeginMoves DEF Held, Counted, At
    <2>2. \A x \in Requests : At(x, "add")' \/ At(x, "count")' => At(x, "add") \/ At(x, "count")
      BY <1>1, BeginMoves DEF At
    <2>3. \A x \in Requests : check[x] # Null => check'[x] # Null /\ check'[x].stamp = check[x].stamp
      BY <1>1, BeginMoves
    <2>4. \A x \in Requests : check'[x] # Null => check'[x].stamp <= now
      BY <1>0, <1>1, BeginMoves DEF RateInv, StampsInv
    <2>5. \A x \in Requests : InFlight(x)' => now <= check'[x].stamp + MaxLatency
      BY <1>0, <1>1, BeginMoves DEF InFlight, RateInv, StampsInv
    <2>6. QED
      BY <1>1, <2>1, <2>2, <2>3, <2>4, <2>5, BeginMoves, QuietRate
  <1>2. CASE Trim(r)
    BY <1>2, TrimRate
  <1>3. CASE Add(r)
    BY <1>3, AddRate
  <1>4. ASSUME NEW pc \in {"expire", "allowed", "denied"}, Moved(r, pc), faulty \subseteq faulty',
               InFlight(r), pc = "expire" => At(r, "count"), pc # "expire" => r \in faulty',
               UNCHANGED <<now, zset, keyUntil, addedAt, fresh, lapsed>>
        PROVE  RateInv'
    <2>1. \A x \in Requests : Held(x)' => Held(x)
      BY <1>4 DEF Held, Counted, At, Moved
    <2>2. \A x \in Requests : At(x, "add")' \/ At(x, "count")' => At(x, "add") \/ At(x, "count")
      BY <1>4 DEF At, Moved
    <2>3. \A x \in Requests : check[x] # Null => check'[x] # Null /\ check'[x].stamp = check[x].stamp
      BY <1>4 DEF Moved
    <2>4. \A x \in Requests : check'[x] # Null => check[x] # Null /\ check'[x].stamp = check[x].stamp
      BY <1>4 DEF Moved
    <2>5. \A x \in Requests : InFlight(x)' => InFlight(x)
      BY <1>4 DEF InFlight, Moved
    <2>6. \A x \in Requests : InFlight(x)' => now <= check'[x].stamp + MaxLatency
      BY <2>4, <2>5 DEF InFlight, RateInv, StampsInv
    <2>7. \A x \in Requests : check'[x] # Null => check'[x].stamp <= now
      BY <2>4 DEF RateInv, StampsInv
    <2>8. QED
      BY <1>4, <2>1, <2>2, <2>3, <2>6, <2>7, QuietRate
  <1>5. CASE Count(r)
    <2>1. Moved(r, "expire")
      BY <1>5, CountMoves
    <2>2. At(r, "count") /\ InFlight(r)
      BY <1>5 DEF Count, At, InFlight
    <2>3. QED
      BY <1>4, <1>5, <2>1, <2>2 DEF Count, history
  <1>6. CASE Expire(r)
    <2>1. PICK pc \in {"allowed", "denied"} : Go(r, pc)
      BY <1>6, Verdicts DEF Expire, At
    <2>2. Moved(r, pc)
      BY <1>6, <2>1, GoMoves DEF Expire, At, Pcs
    <2>3. QED
      BY <1>6, <2>2, ExpireRate DEF Expire
  <1>7. CASE Break(r)
    <2>1. PICK pc \in {"allowed", "denied"} : Moved(r, pc)
      BY <1>7, BreakMoves
    <2>2. QED
      BY <1>4, <1>7, <2>1 DEF Break, Fault
  <1>8. CASE LoseReplies(r)
    <2>1. PICK pc \in {"allowed", "denied"} : Go(r, pc)
      BY <1>8, Verdicts DEF LoseReplies, At
    <2>2. Moved(r, pc)
      BY <1>8, <2>1, GoMoves DEF LoseReplies, At, Pcs
    <2>3. QED
      BY <1>8, <2>2, ExpireRate DEF LoseReplies, Fault
  <1>9. QED
    BY <1>1, <1>2, <1>3, <1>5, <1>6, <1>7, <1>8 DEF RequestStep

LEMMA TickRate ==
    ASSUME TypeOK, RateInv, Tick
    PROVE  RateInv'
  <1>1. /\ now' = now + 1 /\ UNCHANGED <<check, addedAt, faulty>>
        /\ \A x \in Requests : InFlight(x) => now < check[x].stamp + MaxLatency
    BY DEF Tick
  <1>2. /\ WINDOW \in Nat /\ MaxLatency \in Nat /\ MaxLatency < WINDOW /\ keyUntil \in Nat
        /\ now \in Nat /\ addedAt \in [Requests -> Nat] /\ zset \subseteq Requests
        /\ \A x \in Requests : check[x] # Null => check[x].stamp \in Nat
    BY LatencyIsShort DEF TypeOK, Check
  <1>3. zset' \subseteq zset /\ fresh' \subseteq zset'
    BY DEF Tick, RateInv, StampsInv
  <1>4. \A x \in Requests : (Held(x)' <=> Held(x)) /\ (InFlight(x)' <=> InFlight(x))
    BY <1>1 DEF Held, Counted, At, InFlight
  <1>5. StampsInv'
    <2>1. \A x \in Requests : InFlight(x)' => now' <= check'[x].stamp + MaxLatency
      BY <1>1, <1>2, <1>4 DEF InFlight
    <2>2. \A x \in Requests : check'[x] # Null => check'[x].stamp <= now'
      BY <1>1, <1>2 DEF RateInv, StampsInv
    <2>3. \A x \in zset' : check'[x] # Null /\ addedAt'[x] <= now'
      BY <1>1, <1>2, <1>3 DEF RateInv, StampsInv
    <2>4. \A x \in Requests : Held(x)' => addedAt'[x] <= check'[x].stamp + MaxLatency
      BY <1>1, <1>4 DEF RateInv, StampsInv
    <2>5. QED
      BY <1>3, <2>1, <2>2, <2>3, <2>4 DEF StampsInv
  <1>6. HeldInv'
    <2>1. \A x \in Requests : Recent(x)' => Recent(x)
      BY <1>1, <1>2 DEF Recent
    <2>2. CASE 0 < keyUntil /\ keyUntil <= now'
      <3>1. zset' = {} /\ (lapsed' = (lapsed \/ fresh # {}))
        BY <2>2 DEF Tick
      <3>2. ASSUME ~lapsed', NEW x \in Requests, Held(x)', Recent(x)' PROVE FALSE
        <4>1. ~lapsed /\ fresh = {}
          BY <3>1, <3>2
        <4>2. x \in zset
          BY <1>4, <2>1, <3>2, <4>1 DEF RateInv, HeldInv
        <4>3. keyUntil >= addedAt[x] + 2 * WINDOW
          BY <4>1, <4>2 DEF RateInv, HeldInv
        <4>4. addedAt[x] > now + 1 - (WINDOW - MaxLatency)
          BY <1>1, <1>2, <3>2 DEF Recent
        <4>5. QED
          BY <1>1, <1>2, <2>2, <4>3, <4>4
      <3>3. QED
        BY <3>1, <3>2 DEF HeldInv
    <2>3. CASE ~(0 < keyUntil /\ keyUntil <= now')
      <3>1. UNCHANGED <<zset, keyUntil, fresh, lapsed>>
        BY <2>3 DEF Tick
      <3>2. QED
        BY <1>1, <1>4, <2>1, <3>1 DEF RateInv, HeldInv
    <2>4. QED
      BY <2>2, <2>3
  <1>7. TrimmedInv'
    BY <1>1, <1>3 DEF RateInv, TrimmedInv, At
  <1>8. QED
    BY <1>5, <1>6, <1>7 DEF RateInv

LEMMA NextRate == TypeOK /\ RateInv /\ [Next]_vars => RateInv'
  <1> SUFFICES ASSUME TypeOK, RateInv, [Next]_vars PROVE RateInv'
    OBVIOUS
  <1>1. CASE UNCHANGED vars
    BY <1>1 DEF vars, history, RateInv, StampsInv, HeldInv, TrimmedInv, Held, Counted, At,
                Recent, InFlight
  <1>2. QED
    BY <1>1, RequestRate, TickRate DEF Next

\* In every reachable state an entry that is recent is still in the set, unless the key lapsed,
\* and a check that is about to count finds no entry older than its window.
THEOREM RateInvariant == Spec => []RateInv
  BY InitType, NextType, InitRate, NextRate, PTL DEF Spec

-----------------------------------------------------------------------------
(* Admission and denial *)

\* A request that has its count keeps it, and gets it from Count alone.
Kept(x) ==
    /\ Counted(x)
    /\ check'[x].endpoint = check[x].endpoint
    /\ check'[x].count = check[x].count
    /\ Recent(x)' => Recent(x)

LEMMA RequestKeeps ==
    ASSUME TypeOK, NEW r \in Requests, RequestStep(r)
    PROVE  /\ \A x \in Requests : Counted(x)' => Kept(x) \/ (x = r /\ Count(r))
           /\ \A x \in Requests : check[x] # Null => check'[x] # Null /\ check'[x].stamp = check[x].stamp
           /\ (lapsed <=> lapsed') /\ now' = now
  <1>1. ASSUME NEW e \in Endpoints, Begin(r, e) \/ Refuse(r, e)
        PROVE  /\ \A x \in Requests : Counted(x)' => Kept(x)
               /\ \A x \in Requests : check[x] # Null => check'[x] # Null /\ check'[x].stamp = check[x].stamp
               /\ (lapsed <=> lapsed') /\ now' = now
    BY <1>1, BeginMoves DEF Counted, Kept, Recent
  <1>2. ASSUME NEW pc \in {"add", "count"}, Moved(r, pc), UNCHANGED faulty,
               \A x \in Requests \ {r} : addedAt'[x] = addedAt[x], now' = now
        PROVE  /\ \A x \in Requests : Counted(x)' => Kept(x)
               /\ \A x \in Requests : check[x] # Null => check'[x] # Null /\ check'[x].stamp = check[x].stamp
    BY <1>2 DEF Moved, Counted, Kept, Recent
  <1>3. ASSUME NEW pc \in {"allowed", "denied"}, Moved(r, pc), faulty \subseteq faulty',
               r \in faulty' \/ (At(r, "expire") /\ check'[r].count = check[r].count),
               UNCHANGED <<addedAt, now>>
        PROVE  /\ \A x \in Requests : Counted(x)' => Kept(x)
               /\ \A x \in Requests : check[x] # Null => check'[x] # Null /\ check'[x].stamp = check[x].stamp
    BY <1>3 DEF Moved, Counted, Kept, Recent, At
  <1>4. CASE Trim(r)
    <2>1. Moved(r, "add")
      BY <1>4, GoMoves DEF Trim, At, Pcs
    <2>2. QED
      BY <1>2, <1>4, <2>1 DEF Trim
  <1>5. CASE Add(r)
    <2>1. Moved(r, "count")
      BY <1>5, GoMoves DEF Add, At, Pcs
    <2>2. \A x \in Requests \ {r} : addedAt'[x] = addedAt[x]
      BY <1>5 DEF Add, TypeOK
    <2>3. QED
      BY <1>2, <1>5, <2>1, <2>2 DEF Add
  <1>6. CASE Count(r)
    BY <1>6, CountMoves DEF Count, history, Moved, Counted, Kept, Recent
  <1>7. CASE Expire(r)
    <2>1. PICK pc \in {"allowed", "denied"} : Go(r, pc)
      BY <1>7, Verdicts DEF Expire, At
    <2>2. Moved(r, pc) /\ check'[r].count = check[r].count
      BY <1>7, <2>1, GoMoves DEF Expire, At, Pcs
    <2>3. QED
      BY <1>3, <1>7, <2>2 DEF Expire
  <1>8. CASE Break(r)
    BY <1>3, <1>8, BreakMoves DEF Break, Fault
  <1>9. CASE LoseReplies(r)
    <2>1. PICK pc \in {"allowed", "denied"} : Go(r, pc)
      BY <1>9, Verdicts DEF LoseReplies, At
    <2>2. Moved(r, pc)
      BY <1>9, <2>1, GoMoves DEF LoseReplies, At, Pcs
    <2>3. QED
      BY <1>3, <1>9, <2>2 DEF LoseReplies, Fault
  <1>10. QED
    BY <1>1, <1>4, <1>5, <1>6, <1>7, <1>8, <1>9 DEF RequestStep

LEMMA NextKeeps ==
    ASSUME TypeOK, [Next]_vars
    PROVE  /\ \A x \in Requests : Counted(x)' => Kept(x) \/ Count(x)
           /\ \A x \in Requests : check[x] # Null => check'[x] # Null /\ check'[x].stamp = check[x].stamp
           /\ ~lapsed' => ~lapsed
  <1>1. CASE Tick
    <2>1. /\ now \in Nat /\ now' = now + 1 /\ addedAt \in [Requests -> Nat]
          /\ WINDOW - MaxLatency \in Int /\ UNCHANGED <<check, addedAt, faulty>>
      BY <1>1, LatencyIsShort DEF Tick, TypeOK
    <2>2. \A x \in Requests : Recent(x)' => Recent(x)
      BY <2>1 DEF Recent
    <2>3. ~lapsed' => ~lapsed
      BY <1>1 DEF Tick
    <2>4. QED
      BY <2>1, <2>2, <2>3 DEF Counted, Kept
  <1>2. CASE UNCHANGED vars
    BY <1>2 DEF vars, history, Counted, Kept, Recent
  <1>3. QED
    BY <1>1, <1>2, RequestKeeps DEF Next

\* The limit of an endpoint bounds what passes: the step that matters is the count of a check,
\* when every recent request that has passed is in the set.
LEMMA CountAdmission ==
    ASSUME TypeOK, RateInv, NEW r \in Requests, Count(r), ~lapsed, NEW e \in Endpoints, r \in Passed(e)'
    PROVE  Cardinality(Passed(e)') <= Limit[e]
  <1>1. check'[r].count = Cardinality(zset) /\ Moved(r, "expire")
    BY CountMoves
  <1>2. Cardinality(zset) <= Limit[e]
    BY <1>1 DEF Passed
  <1>3. ASSUME NEW x \in Passed(e)' PROVE x \in zset
    <2>1. x \in Requests /\ Counted(x)' /\ Recent(x)
      BY <1>3 DEF Passed, Recent, Count, history
    <2>2. Held(x)
      <3>1. CASE x = r
        BY <3>1 DEF Count, Held
      <3>2. CASE x # r
        BY <1>1, <2>1, <3>2 DEF Moved, Counted, Held, Count, history
      <3>3. QED
        BY <3>1, <3>2
    <2>3. QED
      BY <2>1, <2>2 DEF RateInv, HeldInv
  <1>4. IsFiniteSet(zset) /\ Cardinality(zset) \in Nat
    BY CountType DEF TypeOK
  <1>5. Cardinality(Passed(e)') <= Cardinality(zset) /\ Cardinality(Passed(e)') \in Nat
    BY <1>3, <1>4, FS_Subset, FS_CardinalityType
  <1>6. Limit[e] \in Nat
    BY LimitsArePositive
  <1>7. QED
    BY <1>2, <1>4, <1>5, <1>6

LEMMA NextAdmission == TypeOK /\ RateInv /\ AdmissionBounded /\ [Next]_vars => AdmissionBounded'
  <1> SUFFICES ASSUME TypeOK, RateInv, AdmissionBounded, [Next]_vars, ~lapsed', NEW e \in Endpoints
               PROVE  Cardinality(Passed(e)') <= Limit[e]
    BY DEF AdmissionBounded
  <1>1. ~lapsed
    BY NextKeeps
  <1>2. CASE \E r \in Passed(e)' : Count(r)
    <2>1. PICK r \in Passed(e)' : Count(r)
      BY <1>2
    <2>2. r \in Requests
      BY DEF Passed
    <2>3. QED
      BY <1>1, <2>1, <2>2, CountAdmission
  <1>3. CASE ~\E r \in Passed(e)' : Count(r)
    <2>1. ASSUME NEW x \in Passed(e)' PROVE x \in Passed(e)
      <3>1. x \in Requests /\ Counted(x)'
        BY <2>1 DEF Passed
      <3>2. Kept(x)
        BY <1>3, <2>1, <3>1, NextKeeps
      <3>3. QED
        BY <2>1, <3>1, <3>2 DEF Passed, Kept
    <2>2. Passed(e) \in SUBSET Requests
      BY DEF Passed
    <2>3. IsFiniteSet(Passed(e)) /\ Cardinality(Passed(e)) \in Nat
      BY <2>2, CountType
    <2>4. Cardinality(Passed(e)') <= Cardinality(Passed(e)) /\ Cardinality(Passed(e)') \in Nat
      BY <2>1, <2>3, FS_Subset, FS_CardinalityType
    <2>5. Cardinality(Passed(e)) <= Limit[e] /\ Limit[e] \in Nat
      BY <1>1, LimitsArePositive DEF AdmissionBounded
    <2>6. QED
      BY <2>3, <2>4, <2>5
  <1>4. QED
    BY <1>2, <1>3

LEMMA InitAdmission == Init => AdmissionBounded
  <1> SUFFICES ASSUME Init, NEW e \in Endpoints PROVE Cardinality(Passed(e)) <= Limit[e]
    BY DEF AdmissionBounded
  <1>1. Passed(e) = {}
    BY DEF Init, Passed, Counted
  <1>2. QED
    BY <1>1, FS_EmptySet, LimitsArePositive

\* However the commands of concurrent checks interleave, no endpoint admits more requests in a
\* window, less the time a check may take, than its limit.
THEOREM AdmissionIsBounded == Spec => []AdmissionBounded
  BY InitType, NextType, InitRate, NextRate, InitAdmission, NextAdmission, PTL DEF Spec

LEMMA NextDenial == TypeOK /\ RateInv /\ DenialIsBacked /\ [Next]_vars => DenialIsBacked'
  <1> SUFFICES ASSUME TypeOK, RateInv, DenialIsBacked, [Next]_vars,
                      NEW r \in Requests, Counted(r)', check'[r].count > Limit[check'[r].endpoint]
               PROVE  Cardinality(MadeSince(r)') > Limit[check'[r].endpoint]
    BY DEF DenialIsBacked
  <1> DEFINE e == check'[r].endpoint
  <1>1. TypeOK'
    BY NextType
  <1>2. check'[r] \in Check /\ e \in Endpoints /\ Limit[e] \in Nat /\ check'[r].count \in Nat
    BY <1>1, LimitsArePositive DEF TypeOK, Counted, Check
  <1>3. MadeSince(r)' \in SUBSET Requests
    BY DEF MadeSince
  <1>4. IsFiniteSet(MadeSince(r)') /\ Cardinality(MadeSince(r)') \in Nat
    BY <1>3, CountType
  <1>5. CASE Kept(r)
    <2>1. check[r] # Null /\ check'[r].stamp = check[r].stamp
      BY <1>5, NextKeeps DEF Kept, Counted
    <2>2. MadeSince(r) \subseteq MadeSince(r)'
      BY <2>1, NextKeeps DEF MadeSince
    <2>3. Cardinality(MadeSince(r)) > Limit[e]
      BY <1>5 DEF Kept, DenialIsBacked
    <2>4. Cardinality(MadeSince(r)) <= Cardinality(MadeSince(r)') /\ Cardinality(MadeSince(r)) \in Nat
      BY <1>4, <2>2, FS_Subset, FS_CardinalityType
    <2>5. QED
      BY <1>2, <1>4, <2>3, <2>4
  <1>6. CASE Count(r)
    <2>1. check'[r].count = Cardinality(zset) /\ check[r] # Null
      BY <1>6, CountMoves DEF Count, At
    <2>2. zset \subseteq MadeSince(r)'
      <3>1. ASSUME NEW x \in zset PROVE x \in MadeSince(r)'
        <4>1. x \in Requests /\ check[x] # Null /\ check[x].stamp > check[r].stamp - WINDOW
          BY <1>6 DEF Count, RateInv, TrimmedInv, StampsInv, TypeOK
        <4>2. QED
          BY <2>1, <4>1, NextKeeps DEF MadeSince
      <3>2. QED
        BY <3>1
    <2>3. Cardinality(zset) <= Cardinality(MadeSince(r)') /\ Cardinality(zset) \in Nat
      BY <1>4, <2>2, FS_Subset, FS_CardinalityType
    <2>4. QED
      BY <1>2, <1>4, <2>1, <2>3
  <1>7. QED
    BY <1>5, <1>6, NextKeeps

LEMMA InitDenial == Init => DenialIsBacked
  BY DEF Init, DenialIsBacked, Counted

\* No request is denied by its count for requests older than its window.
THEOREM DenialBacked == Spec => []DenialIsBacked
  BY InitType, NextType, InitRate, NextRate, InitDenial, NextDenial, PTL DEF Spec

=============================================================================
