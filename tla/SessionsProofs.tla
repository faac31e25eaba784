---------------------------- MODULE SessionsProofs ----------------------------
(* Theorems about Sessions: typing, and how long a deleted or unchecked     *)
(* session can still be accepted, for every value of the constants.         *)
EXTENDS Sessions, FiniteSetTheorems, TLAPS

-----------------------------------------------------------------------------
(* Typing *)

\* Finish touches only the call that returns, and leaves it idle or about to revoke.
LEMMA FinishCall ==
    ASSUME TypeOK, NEW c \in Calls, call[c] # NoCall, Finish(c)
    PROVE  /\ call' \in [Calls -> Call \cup {NoCall}]
           /\ \A d \in Calls : d # c => call'[d] = call[d]
           /\ \/ call'[c] = NoCall
              \/ call'[c] \in Call /\ call'[c].pc = "delete" /\ call'[c].s = call[c].s
  <1>1. call[c] \in Call
    BY DEF TypeOK
  <1>2. [call[c] EXCEPT !.pc = "delete", !.seen = NoRow, !.at = 0, !.since = 0] \in Call
    BY <1>1 DEF Call
  <1>3. QED
    BY <1>1, <1>2 DEF TypeOK, Finish, Call

\* Advance changes the program counter of one call.
LEMMA AdvanceCall ==
    ASSUME TypeOK, NEW c \in Calls, call[c] # NoCall,
           NEW pc \in {"get", "read", "check", "drop", "touch", "fill", "delete", "flush"},
           Advance(c, pc)
    PROVE  /\ call' \in [Calls -> Call \cup {NoCall}]
           /\ \A d \in Calls : d # c => call'[d] = call[d]
           /\ call'[c] \in Call /\ call'[c] # NoCall
           /\ call'[c].pc = pc
           /\ call'[c].s = call[c].s
           /\ call'[c].since = call[c].since
  <1>1. call[c] \in Call
    BY DEF TypeOK
  <1> DEFINE moved == [call[c] EXCEPT !.pc = pc]
  <1>2. /\ moved \in Call
        /\ moved.pc = pc /\ moved.s = call[c].s /\ moved.since = call[c].since
    BY <1>1 DEF Call
  <1>3. call' = [call EXCEPT ![c] = moved]
    BY DEF Advance
  <1> HIDE DEF moved
  <1>4. /\ call' \in [Calls -> Call \cup {NoCall}]
        /\ call'[c] = moved
        /\ \A d \in Calls : d # c => call'[d] = call[d]
    BY <1>2, <1>3 DEF TypeOK
  <1>5. QED
    BY <1>2, <1>4, AbsentValues

\* Deleting rows keeps the table and the history well typed.
LEMMA DeleteRowsType ==
    ASSUME TypeOK, NEW S, DeleteRows(S)
    PROVE  /\ row' \in [Sessions -> Row \cup {NoRow}]
           /\ deletedAt' \in [Sessions -> Nat]
  BY DEF TypeOK, DeleteRows

LEMMA InitType == Init => TypeOK
  BY DEF Init, TypeOK

LEMMA CallStepType ==
    ASSUME TypeOK, NEW c \in Calls, CallStep(c)
    PROVE  TypeOK'
  <1> USE DEF dbVars, historyVars, CallAt
  <1>1. ASSUME NEW s \in Sessions, NEW print \in Fingerprint, NEW op \in {"request", "logout"},
               Begin(c, s, print, op)
        PROVE  TypeOK'
    <2>1. [pc |-> "get", op |-> op, s |-> s, print |-> print,
            seen |-> NoRow, at |-> 0, since |-> now] \in Call
      BY DEF Call, TypeOK
    <2>2. QED
      BY <1>1, <2>1 DEF Begin, TypeOK
  <1>2. CASE CacheHit(c)
    BY <1>2, FinishCall DEF CacheHit, TypeOK
  <1>3. CASE CacheMiss(c)
    BY <1>3, AdvanceCall DEF CacheMiss, TypeOK
  <1>4. CASE DbRead(c)
    <2>1. CASE Finish(c)
      BY <1>4, <2>1, FinishCall DEF DbRead, TypeOK
    <2>2. CASE /\ row[call[c].s] # NoRow
               /\ call' = [call EXCEPT ![c].pc = "check", ![c].seen = row[call[c].s]]
      <3>1. call[c] \in Call /\ row[call[c].s] \in Row
        BY <1>4, <2>2 DEF DbRead, TypeOK, Call
      <3>2. [call[c] EXCEPT !.pc = "check", !.seen = row[call[c].s]] \in Call
        BY <3>1 DEF Call
      <3>3. QED
        BY <1>4, <2>2, <3>1, <3>2 DEF DbRead, TypeOK
    <2>3. QED
      BY <1>4, <2>1, <2>2 DEF DbRead
  <1>5. CASE Check(c)
    <2>1. CASE Finish(c) /\ UNCHANGED historyVars
      BY <1>5, <2>1, FinishCall DEF Check, TypeOK
    <2>2. CASE Advance(c, "drop") /\ UNCHANGED historyVars
      BY <1>5, <2>2, AdvanceCall DEF Check, TypeOK
    <2>3. ASSUME NEW next \in {"touch", "fill"},
                 call' = [call EXCEPT ![c].at = now, ![c].seen = NoRow, ![c].pc = next],
                 passed' = [passed EXCEPT ![call[c].s] = now]
          PROVE  TypeOK'
      <3>1. call[c] \in Call
        BY <1>5 DEF Check, TypeOK
      <3>2. [call[c] EXCEPT !.at = now, !.seen = NoRow, !.pc = next] \in Call
        BY <3>1 DEF Call, TypeOK
      <3>3. QED
        BY <1>5, <2>3, <3>1, <3>2 DEF Check, TypeOK
    <2>4. QED
      BY <1>5, <2>1, <2>2, <2>3 DEF Check
  <1>6. CASE Drop(c)
    BY <1>6, FinishCall, DeleteRowsType DEF Drop, TypeOK
  <1>7. CASE Touch(c)
    <2>1. call[c] \in Call
      BY <1>7 DEF Touch, TypeOK
    <2>2. CASE Finish(c) /\ UNCHANGED row
      BY <1>7, <2>2, FinishCall DEF Touch, TypeOK
    <2>3. CASE /\ row[call[c].s] # NoRow
               /\ row' = [row EXCEPT ![call[c].s].lastActive = call[c].at]
               /\ Advance(c, "fill")
      <3>1. [row[call[c].s] EXCEPT !.lastActive = call[c].at] \in Row
        BY <2>1, <2>3 DEF TypeOK, Call, Row
      <3>2. QED
        BY <1>7, <2>1, <2>3, <3>1, AdvanceCall DEF Touch, TypeOK, Call
    <2>4. QED
      BY <1>7, <2>2, <2>3 DEF Touch
  <1>8. CASE CacheFill(c)
    <2>1. now + SESSION_CACHE_TTL \in Nat
      BY DurationsAreNaturals DEF TypeOK
    <2>2. QED
      BY <1>8, <2>1, FinishCall DEF CacheFill, TypeOK
  <1>9. CASE RevokeRow(c)
    BY <1>9, AdvanceCall, DeleteRowsType DEF RevokeRow, TypeOK
  <1>10. CASE RevokeFlush(c)
    BY <1>10 DEF RevokeFlush, TypeOK, Call
  <1>11. QED
    BY <1>1, <1>2, <1>3, <1>4, <1>5, <1>6, <1>7, <1>8, <1>9, <1>10 DEF CallStep

LEMMA LoginStepType ==
    ASSUME TypeOK, NEW l \in Logins, LoginStep(l)
    PROVE  TypeOK'
  <1> USE DEF dbVars, historyVars, LoginAt
  <1>1. ASSUME NEW u \in Users, NEW print \in Fingerprint, BeginLogin(l, u, print)
        PROVE  TypeOK'
    <2>1. [pc |-> "count", user |-> u, print |-> print,
           expiresAt |-> now + SESSION_EXPIRY, victims |-> {}] \in Login
      BY DurationsAreNaturals DEF Login, TypeOK
    <2>2. QED
      BY <1>1, <2>1 DEF BeginLogin, TypeOK
  <1>2. CASE CountActive(l)
    <2>1. login[l] \in Login
      BY <1>2 DEF CountActive, TypeOK
    <2>2. ASSUME NEW oldest \in Sessions
          PROVE  [login[l] EXCEPT !.pc = "evict", !.victims = {oldest}] \in Login
      BY <2>1 DEF Login
    <2>3. [login[l] EXCEPT !.pc = "insert"] \in Login
      BY <2>1 DEF Login
    <2>4. login' \in [Logins -> Login \cup {NoLogin}]
      BY <1>2, <2>1, <2>2, <2>3 DEF CountActive, TypeOK, ActiveRows
    <2>5. raced' \in SUBSET Users
      BY <1>2, <2>1 DEF CountActive, TypeOK, Login
    <2>6. QED
      BY <1>2, <2>4, <2>5 DEF CountActive, TypeOK
  <1>3. CASE Evict(l)
    <2>1. login[l] \in Login
      BY <1>3 DEF Evict, TypeOK
    <2>2. [login[l] EXCEPT !.pc = "insert", !.victims = {}] \in Login
      BY <2>1 DEF Login
    <2>3. raced' \in SUBSET Users
      BY <1>3, <2>1 DEF Evict, TypeOK, Login
    <2>4. QED
      BY <1>3, <2>1, <2>2, <2>3, DeleteRowsType DEF Evict, TypeOK
  <1>4. CASE Insert(l)
    <2>1. login[l] \in Login
      BY <1>4 DEF Insert, TypeOK
    <2>2. [user |-> login[l].user, print |-> login[l].print,
           expiresAt |-> login[l].expiresAt, lastActive |-> now] \in Row
      BY <2>1 DEF Login, Row, TypeOK
    <2>3. QED
      BY <1>4, <2>2 DEF Insert, EndLogin, TypeOK
  <1>5. CASE LoginFails(l)
    BY <1>5 DEF LoginFails, EndLogin, TypeOK
  <1>6. QED
    BY <1>1, <1>2, <1>3, <1>4, <1>5 DEF LoginStep

LEMMA NextType == TypeOK /\ [Next]_vars => TypeOK'
  <1> SUFFICES ASSUME TypeOK, [Next]_vars PROVE TypeOK'
    OBVIOUS
  <1>1. ASSUME NEW u \in Users, NEW kept, BulkDelete(u, kept)
        PROVE  TypeOK'
    BY <1>1, DeleteRowsType DEF BulkDelete, TypeOK, historyVars
  <1>2. CASE DeleteExpired \/ DeleteInactive \/ CleanupScript
    BY <1>2, DeleteRowsType DEF DeleteExpired, DeleteInactive, CleanupScript, TypeOK, historyVars
  <1>3. CASE Tick
    BY <1>3 DEF Tick, TypeOK, dbVars, historyVars
  <1>4. CASE UNCHANGED vars
    BY <1>4 DEF vars, TypeOK, dbVars, historyVars
  <1>5. QED
    BY <1>1, <1>2, <1>3, <1>4, CallStepType, LoginStepType DEF Next

\* Every reachable state of the session service is well typed.
THEOREM SessionsTyped == Spec => []TypeOK
  BY InitType, NextType, PTL DEF Spec

-----------------------------------------------------------------------------
(* Staleness *)

\* Arithmetic of the bounds: what holds "by now" survives until MaxLatency later.
LEMMA BoundsAreNatural ==
    ASSUME TypeOK
    PROVE  /\ now \in Nat /\ MaxLatency \in Nat /\ SESSION_CACHE_TTL \in Nat
           /\ \A s \in Sessions : cacheUntil[s] \in Nat /\ deletedAt[s] \in Nat /\ passed[s] \in Nat
           /\ \A c \in Calls : call[c] # NoCall =>
                call[c] \in Call /\ call[c].s \in Sessions /\ call[c].since \in Nat
  BY DurationsAreNaturals DEF TypeOK, Call

LEMMA InitStaleness == Init => StalenessInv
  BY DurationsAreNaturals
     DEF Init, StalenessInv, IssuedOnly, CallsOnTime, DeletedInv, PassedInv,
         Validating, HoldsRow, CallAt

\* A step that may delete rows, and that moves at most one call: out of validateSession, or
\* to a next step that claims no read and no check the call had not made before.
LEMMA QuietStep ==
    ASSUME TypeOK, StalenessInv,
           (\E S : DeleteRows(S)) \/ UNCHANGED <<row, deletedAt>>,
           UNCHANGED <<now, issued, cacheUntil, passed>>,
           \A c \in Calls :
              \/ call'[c] = call[c]
              \/ call'[c] = NoCall
              \/ call'[c] # NoCall /\ call'[c].pc \in {"delete", "flush"}
              \/ /\ Validating(c) /\ call'[c] # NoCall
                 /\ call'[c].pc \in {"get", "read", "drop"}
                 /\ call'[c].s = call[c].s /\ call'[c].since = call[c].since
    PROVE  StalenessInv'
  <1> USE BoundsAreNatural
  <1>1. /\ \A s \in Sessions : row[s] = NoRow => row'[s] = NoRow /\ deletedAt'[s] = deletedAt[s]
        /\ \A s \in Sessions : row[s] # NoRow /\ row'[s] = NoRow => deletedAt'[s] = now
    BY DEF DeleteRows, TypeOK
  <1>2. IssuedOnly'
    BY <1>1 DEF StalenessInv, IssuedOnly
  <1>3. CallsOnTime'
    BY DEF StalenessInv, CallsOnTime, Validating
  <1>4. PassedInv'
    BY DEF StalenessInv, PassedInv, CallAt
  <1>5. DeletedInv'
    <2>1. \A s \in Sessions : cacheUntil'[s] <= now' + SESSION_CACHE_TTL
      BY DEF StalenessInv, DeletedInv
    <2>2. ASSUME NEW s \in issued', row'[s] = NoRow
          PROVE  cacheUntil'[s] <= deletedAt'[s] + MaxLatency + SESSION_CACHE_TTL
      <3>1. s \in Sessions
        BY DEF TypeOK
      <3>2. QED
        BY <1>1, <2>2, <3>1 DEF StalenessInv, DeletedInv
    <2>3. ASSUME NEW c \in Calls, HoldsRow(c)', row'[call'[c].s] = NoRow
          PROVE  call'[c].since <= deletedAt'[call'[c].s]
      <3>1. call'[c] = call[c] /\ HoldsRow(c) /\ call[c] # NoCall
        BY <2>3 DEF HoldsRow, CallAt
      <3>2. call[c].since <= now
        BY <3>1 DEF StalenessInv, CallsOnTime, HoldsRow, Validating, CallAt
      <3>3. QED
        BY <1>1, <2>3, <3>1, <3>2 DEF StalenessInv, DeletedInv
    <2>4. QED
      BY <2>1, <2>2, <2>3 DEF DeletedInv
  <1>6. QED
    BY <1>2, <1>3, <1>4, <1>5 DEF StalenessInv

\* A call that returns from validateSession is quiet.
LEMMA FinishIsQuiet ==
    ASSUME TypeOK, NEW c \in Calls, call[c] # NoCall, Finish(c)
    PROVE  \A d \in Calls :
              \/ call'[d] = call[d]
              \/ call'[d] = NoCall
              \/ call'[d] # NoCall /\ call'[d].pc \in {"delete", "flush"}
  BY FinishCall, AbsentValues

LEMMA CallStepStaleness ==
    ASSUME TypeOK, StalenessInv, NEW c \in Calls, CallStep(c)
    PROVE  StalenessInv'
  <1> USE BoundsAreNatural DEF dbVars, historyVars
  <1>1. ASSUME NEW s \in Sessions, NEW print \in Fingerprint, NEW op \in {"request", "logout"},
               Begin(c, s, print, op)
        PROVE  StalenessInv'
    <2>1. /\ \A d \in Calls : d # c => call'[d] = call[d]
          /\ call'[c] # NoCall /\ call'[c].pc = "get"
          /\ call'[c].s = s /\ s \in issued /\ call'[c].since = now
      <3>1. [pc |-> "get", op |-> op, s |-> s, print |-> print,
              seen |-> NoRow, at |-> 0, since |-> now] \in Call
        BY DEF Call, TypeOK
      <3>2. QED
        BY <1>1, <3>1, AbsentValues DEF Begin, TypeOK
    <2>2. QED
      BY <1>1, <2>1
         DEF Begin, StalenessInv, IssuedOnly, CallsOnTime, DeletedInv, PassedInv,
             Validating, HoldsRow, CallAt
  <1>2. CASE CacheHit(c)
    BY <1>2, FinishIsQuiet, QuietStep DEF CacheHit, CallAt
  <1>3. CASE CacheMiss(c)
    <2>1. /\ \A d \in Calls : d # c => call'[d] = call[d]
          /\ call'[c] # NoCall /\ call'[c].pc = "read"
          /\ call'[c].s = call[c].s /\ call'[c].since = call[c].since
      BY <1>3, AdvanceCall DEF CacheMiss, CallAt
    <2>2. QED
      BY <1>3, <2>1, QuietStep DEF CacheMiss, Validating, CallAt
  <1>4. CASE DbRead(c)
    <2>1. CASE Finish(c)
      BY <1>4, <2>1, FinishIsQuiet, QuietStep DEF DbRead, CallAt
    <2>2. CASE /\ row[call[c].s] # NoRow
               /\ call' = [call EXCEPT ![c].pc = "check", ![c].seen = row[call[c].s]]
      <3>1. /\ \A d \in Calls : d # c => call'[d] = call[d]
            /\ call'[c].pc = "check"
            /\ call'[c].s = call[c].s /\ call'[c].since = call[c].since
        BY <1>4, <2>2 DEF DbRead, CallAt, Call, TypeOK
      <3>2. Validating(c) /\ call[c] # NoCall
        BY <1>4 DEF DbRead, Validating, CallAt
      <3>3. IssuedOnly' /\ CallsOnTime'
        BY <1>4, <3>1, <3>2 DEF DbRead, StalenessInv, IssuedOnly, CallsOnTime, Validating
      <3>4. DeletedInv' /\ PassedInv'
        BY <1>4, <2>2, <3>1, <3>2
           DEF DbRead, StalenessInv, DeletedInv, PassedInv, HoldsRow, CallAt
      <3>5. QED
        BY <3>3, <3>4 DEF StalenessInv
    <2>3. QED
      BY <1>4, <2>1, <2>2 DEF DbRead
  <1>5. CASE Check(c)
    <2>1. CASE Finish(c) /\ UNCHANGED historyVars
      BY <1>5, <2>1, FinishIsQuiet, QuietStep DEF Check, CallAt
    <2>2. CASE Advance(c, "drop") /\ UNCHANGED historyVars
      <3>1. /\ \A d \in Calls : d # c => call'[d] = call[d]
            /\ call'[c] # NoCall /\ call'[c].pc = "drop"
            /\ call'[c].s = call[c].s /\ call'[c].since = call[c].since
        BY <1>5, <2>2, AdvanceCall DEF Check, CallAt
      <3>2. QED
        BY <1>5, <2>2, <3>1, QuietStep DEF Check, Validating, CallAt
    <2>3. ASSUME NEW next \in {"touch", "fill"},
                 call' = [call EXCEPT ![c].at = now, ![c].seen = NoRow, ![c].pc = next],
                 passed' = [passed EXCEPT ![call[c].s] = now]
          PROVE  StalenessInv'
      <3>1. /\ call[c] \in Call
            /\ \A d \in Calls : d # c => call'[d] = call[d]
            /\ call'[c].pc = next
            /\ call'[c].s = call[c].s /\ call'[c].since = call[c].since
        BY <1>5, <2>3 DEF Check, CallAt, Call, TypeOK
      <3>2. Validating(c) /\ HoldsRow(c) /\ call[c] # NoCall
        BY <1>5 DEF Check, Validating, HoldsRow, CallAt
      <3>3. IssuedOnly' /\ CallsOnTime'
        BY <1>5, <3>1, <3>2 DEF Check, StalenessInv, IssuedOnly, CallsOnTime, Validating
      <3>4. DeletedInv'
        BY <1>5, <3>1, <3>2 DEF Check, StalenessInv, DeletedInv, HoldsRow, CallAt
      <3>5. PassedInv'
        <4>1. /\ passed' \in [Sessions -> Nat]
              /\ passed'[call[c].s] = now
              /\ \A s \in Sessions : s # call[c].s => passed'[s] = passed[s]
          BY <2>3, <3>1 DEF TypeOK, Call
        <4>2. \A s \in Sessions : cacheUntil'[s] <= passed'[s] + MaxLatency + SESSION_CACHE_TTL
          BY <1>5, <4>1 DEF Check, StalenessInv, PassedInv, DeletedInv
        <4>3. ASSUME NEW d \in Calls, CallAt(d, "touch")' \/ CallAt(d, "fill")'
              PROVE  call'[d].since <= passed'[call'[d].s]
          <5>1. CASE d = c
            BY <3>1, <3>2, <4>1, <5>1 DEF StalenessInv, CallsOnTime
          <5>2. CASE d # c
            <6>1. call'[d] = call[d] /\ (CallAt(d, "touch") \/ CallAt(d, "fill"))
              BY <3>1, <4>3, <5>2 DEF CallAt
            <6>2. call[d].since <= passed[call[d].s] /\ call[d].since <= now
              BY <6>1 DEF StalenessInv, PassedInv, CallsOnTime, Validating, CallAt
            <6>3. QED
              BY <4>1, <6>1, <6>2 DEF CallAt
          <5>3. QED
            BY <5>1, <5>2
        <4>4. QED
          BY <4>2, <4>3 DEF PassedInv
      <3>6. QED
        BY <3>3, <3>4, <3>5 DEF StalenessInv
    <2>4. QED
      BY <1>5, <2>1, <2>2, <2>3 DEF Check
  <1>6. CASE Drop(c)
    BY <1>6, FinishIsQuiet, QuietStep DEF Drop, CallAt
  <1>7. CASE Touch(c)
    <2>1. CASE Finish(c) /\ UNCHANGED row
      BY <1>7, <2>1, FinishIsQuiet, QuietStep DEF Touch, CallAt
    <2>2. CASE /\ row[call[c].s] # NoRow
               /\ row' = [row EXCEPT ![call[c].s].lastActive = call[c].at]
               /\ Advance(c, "fill")
      <3>1. /\ \A d \in Calls : d # c => call'[d] = call[d]
            /\ call'[c] # NoCall /\ call'[c].pc = "fill"
            /\ call'[c].s = call[c].s /\ call'[c].since = call[c].since
            /\ call[c] \in Call /\ call[c] # NoCall
        BY <1>7, <2>2, AdvanceCall DEF Touch, CallAt
      <3>2. \A s \in Sessions : row'[s] = NoRow <=> row[s] = NoRow
        <4>1. [row[call[c].s] EXCEPT !.lastActive = call[c].at] \in Row
          BY <2>2, <3>1 DEF TypeOK, Call, Row
        <4>2. QED
          BY <2>2, <4>1, AbsentValues DEF TypeOK
      <3>3. IssuedOnly' /\ CallsOnTime'
        BY <1>7, <3>1, <3>2
           DEF Touch, StalenessInv, IssuedOnly, CallsOnTime, Validating, CallAt
      <3>4. DeletedInv'
        BY <1>7, <3>1, <3>2 DEF Touch, StalenessInv, DeletedInv, HoldsRow, CallAt, TypeOK
      <3>5. PassedInv'
        BY <1>7, <3>1 DEF Touch, StalenessInv, PassedInv, CallAt
      <3>6. QED
        BY <3>3, <3>4, <3>5 DEF StalenessInv
    <2>3. QED
      BY <1>7, <2>1, <2>2 DEF Touch
  <1>8. CASE CacheFill(c)
    <2> DEFINE s == call[c].s
    <2>1. /\ CallAt(c, "fill") /\ call[c] # NoCall /\ s \in Sessions /\ s \in issued
          /\ now <= call[c].since + MaxLatency
          /\ call[c].since <= passed[s]
          /\ row[s] = NoRow => call[c].since <= deletedAt[s]
      BY <1>8 DEF CacheFill, StalenessInv, CallsOnTime, DeletedInv, PassedInv,
                  Validating, HoldsRow, CallAt
    <2>2. CASE UNCHANGED cacheUntil
      BY <1>8, <2>1, <2>2, FinishIsQuiet, QuietStep DEF CacheFill
    <2>3. CASE cacheUntil' = [cacheUntil EXCEPT ![s] = now + SESSION_CACHE_TTL]
      <3>1. /\ cacheUntil'[s] = now + SESSION_CACHE_TTL
            /\ \A r \in Sessions : r # s => cacheUntil'[r] = cacheUntil[r]
        BY <2>1, <2>3 DEF TypeOK
      <3>2. \A d \in Calls : \/ call'[d] = call[d]
                             \/ call'[d] = NoCall
                             \/ call'[d] # NoCall /\ call'[d].pc \in {"delete", "flush"}
        BY <1>8, <2>1, FinishIsQuiet DEF CacheFill
      <3>3. IssuedOnly'
        BY <1>8, <2>1, <3>1 DEF CacheFill, StalenessInv, IssuedOnly
      <3>4. CallsOnTime'
        BY <1>8, <3>2 DEF CacheFill, StalenessInv, CallsOnTime, Validating
      <3>5. DeletedInv'
        <4>1. \A r \in Sessions : cacheUntil'[r] <= now' + SESSION_CACHE_TTL
          BY <1>8, <3>1 DEF CacheFill, StalenessInv, DeletedInv
        <4>2. \A r \in issued' : row'[r] = NoRow =>
                 cacheUntil'[r] <= deletedAt'[r] + MaxLatency + SESSION_CACHE_TTL
          BY <1>8, <2>1, <3>1 DEF CacheFill, StalenessInv, DeletedInv, TypeOK
        <4>3. \A d \in Calls : HoldsRow(d)' /\ row'[call'[d].s] = NoRow =>
                 call'[d].since <= deletedAt'[call'[d].s]
          BY <1>8, <3>2 DEF CacheFill, StalenessInv, DeletedInv, HoldsRow, CallAt
        <4>4. QED
          BY <4>1, <4>2, <4>3 DEF DeletedInv
      <3>6. PassedInv'
        <4>1. \A r \in Sessions : cacheUntil'[r] <= passed'[r] + MaxLatency + SESSION_CACHE_TTL
          BY <1>8, <2>1, <3>1 DEF CacheFill, StalenessInv, PassedInv
        <4>2. \A d \in Calls : CallAt(d, "touch")' \/ CallAt(d, "fill")' =>
                 call'[d].since <= passed'[call'[d].s]
          BY <1>8, <3>2 DEF CacheFill, StalenessInv, PassedInv, CallAt
        <4>3. QED
          BY <4>1, <4>2 DEF PassedInv
      <3>7. QED
        BY <3>3, <3>4, <3>5, <3>6 DEF StalenessInv
    <2>4. QED
      BY <1>8, <2>2, <2>3 DEF CacheFill
  <1>9. CASE RevokeRow(c)
    <2>1. call[c] # NoCall /\ call[c] \in Call
      BY <1>9 DEF RevokeRow, CallAt
    <2>2. \A d \in Calls : \/ call'[d] = call[d]
                           \/ call'[d] = NoCall
                           \/ call'[d] # NoCall /\ call'[d].pc \in {"delete", "flush"}
      BY <1>9, <2>1, AdvanceCall DEF RevokeRow, TypeOK
    <2>3. QED
      BY <1>9, <2>2, QuietStep DEF RevokeRow
  <1>10. CASE RevokeFlush(c)
    <2>1. /\ call[c] # NoCall /\ call[c].s \in Sessions
          /\ \A d \in Calls : call'[d] = call[d] \/ call'[d] = NoCall
          /\ \A r \in Sessions : cacheUntil'[r] = cacheUntil[r] \/ cacheUntil'[r] = 0
      BY <1>10 DEF RevokeFlush, CallAt, TypeOK
    <2>2. IssuedOnly' /\ CallsOnTime'
      BY <1>10, <2>1 DEF RevokeFlush, StalenessInv, IssuedOnly, CallsOnTime, Validating
    <2>3. DeletedInv'
      BY <1>10, <2>1 DEF RevokeFlush, StalenessInv, DeletedInv, HoldsRow, CallAt, TypeOK
    <2>4. PassedInv'
      BY <1>10, <2>1 DEF RevokeFlush, StalenessInv, PassedInv, CallAt
    <2>5. QED
      BY <2>2, <2>3, <2>4 DEF StalenessInv
  <1>11. QED
    BY <1>1, <1>2, <1>3, <1>4, <1>5, <1>6, <1>7, <1>8, <1>9, <1>10 DEF CallStep

\* createSession: only Insert concerns the invariant, and its token is new.
LEMMA LoginStepStaleness ==
    ASSUME TypeOK, StalenessInv, NEW l \in Logins, LoginStep(l)
    PROVE  StalenessInv'
  <1> USE DEF dbVars, historyVars
  <1>1. ASSUME NEW u \in Users, NEW print \in Fingerprint, BeginLogin(l, u, print)
        PROVE  StalenessInv'
    BY <1>1, QuietStep DEF BeginLogin
  <1>2. CASE CountActive(l)
    BY <1>2, QuietStep DEF CountActive
  <1>3. CASE Evict(l)
    BY <1>3, QuietStep DEF Evict
  <1>4. CASE Insert(l)
    <2>1. PICK s \in Sessions \ issued :
             /\ row' = [row EXCEPT ![s] = [user |-> login[l].user, print |-> login[l].print,
                            expiresAt |-> login[l].expiresAt, lastActive |-> now]]
             /\ issued' = issued \cup {s}
      BY <1>4 DEF Insert
    <2>2. /\ \A r \in Sessions : r # s => row'[r] = row[r]
          /\ row'[s] # NoRow /\ cacheUntil[s] = 0
      <3>1. login[l] \in Login
        BY <1>4 DEF Insert, LoginAt, TypeOK
      <3>2. [user |-> login[l].user, print |-> login[l].print,
             expiresAt |-> login[l].expiresAt, lastActive |-> now] \in Row
        BY <3>1 DEF Login, Row, TypeOK
      <3>3. QED
        BY <2>1, <3>2, AbsentValues DEF TypeOK, StalenessInv, IssuedOnly
    <2>3. IssuedOnly' /\ CallsOnTime' /\ PassedInv'
      BY <1>4, <2>1, <2>2
         DEF Insert, StalenessInv, IssuedOnly, CallsOnTime, PassedInv, Validating, CallAt
    <2>4. DeletedInv'
      <3>1. \A c \in Calls : HoldsRow(c) => call[c].s \in Sessions
        BY BoundsAreNatural DEF HoldsRow, CallAt
      <3>2. \A c \in Calls : HoldsRow(c)' <=> HoldsRow(c)
        BY <1>4 DEF Insert, HoldsRow, CallAt
      <3>3. \A r \in issued' : row'[r] = NoRow => r \in issued /\ r \in Sessions /\ row[r] = NoRow
        BY <2>1, <2>2 DEF TypeOK
      <3>4. \A c \in Calls : HoldsRow(c) /\ row'[call[c].s] = NoRow => row[call[c].s] = NoRow
        BY <2>2, <3>1
      <3>5. QED
        BY <1>4, <3>2, <3>3, <3>4 DEF Insert, StalenessInv, DeletedInv
    <2>5. QED
      BY <2>3, <2>4 DEF StalenessInv
  <1>5. CASE LoginFails(l)
    BY <1>5, QuietStep DEF LoginFails
  <1>6. QED
    BY <1>1, <1>2, <1>3, <1>4, <1>5 DEF LoginStep

LEMMA TickStaleness ==
    ASSUME TypeOK, StalenessInv, Tick
    PROVE  StalenessInv'
  <1> USE BoundsAreNatural DEF dbVars, historyVars
  <1>1. /\ now' = now + 1 /\ now' \in Nat
        /\ \A s \in Sessions : cacheUntil'[s] = cacheUntil[s] \/ cacheUntil'[s] = 0
    BY DEF Tick
  <1>2. IssuedOnly'
    BY <1>1 DEF Tick, StalenessInv, IssuedOnly
  <1>3. CallsOnTime'
    <2>1. ASSUME NEW c \in Calls, Validating(c)
          PROVE  call[c].since <= now + 1 /\ now + 1 <= call[c].since + MaxLatency
      BY <2>1 DEF Tick, StalenessInv, CallsOnTime, Validating
    <2>2. QED
      BY <1>1, <2>1 DEF Tick, StalenessInv, CallsOnTime, Validating
  <1>4. DeletedInv'
    <2>1. \A s \in Sessions : cacheUntil'[s] <= now' + SESSION_CACHE_TTL
      BY <1>1 DEF StalenessInv, DeletedInv
    <2>2. \A s \in issued' : row'[s] = NoRow =>
             cacheUntil'[s] <= deletedAt'[s] + MaxLatency + SESSION_CACHE_TTL
      BY <1>1 DEF Tick, StalenessInv, DeletedInv, TypeOK
    <2>3. \A c \in Calls : HoldsRow(c)' /\ row'[call'[c].s] = NoRow =>
             call'[c].since <= deletedAt'[call'[c].s]
      BY DEF Tick, StalenessInv, DeletedInv, HoldsRow, CallAt
    <2>4. QED
      BY <2>1, <2>2, <2>3 DEF DeletedInv
  <1>5. PassedInv'
    <2>1. \A s \in Sessions : cacheUntil'[s] <= passed'[s] + MaxLatency + SESSION_CACHE_TTL
      BY <1>1 DEF Tick, StalenessInv, PassedInv
    <2>2. QED
      BY <2>1 DEF Tick, StalenessInv, PassedInv, CallAt
  <1>6. QED
    BY <1>2, <1>3, <1>4, <1>5 DEF StalenessInv

LEMMA NextStaleness == TypeOK /\ StalenessInv /\ [Next]_vars => StalenessInv'
  <1> SUFFICES ASSUME TypeOK, StalenessInv, [Next]_vars PROVE StalenessInv'
    OBVIOUS
  <1>1. ASSUME NEW u \in Users, NEW kept, BulkDelete(u, kept)
        PROVE  StalenessInv'
    BY <1>1, QuietStep DEF BulkDelete, historyVars
  <1>2. CASE DeleteExpired \/ DeleteInactive \/ CleanupScript
    BY <1>2, QuietStep DEF DeleteExpired, DeleteInactive, CleanupScript, historyVars
  <1>3. CASE UNCHANGED vars
    BY <1>3, QuietStep DEF vars, dbVars, historyVars
  <1>4. QED
    BY <1>1, <1>2, <1>3, CallStepStaleness, LoginStepStaleness, TickStaleness DEF Next

\* Cache entries and validations in flight are always young, measured from the deletion of
\* their row and from the last time its checks passed: the invariant behind both bounds.
THEOREM StalenessInvariant == Spec => []StalenessInv
  <1>1. Spec => []TypeOK
    BY SessionsTyped
  <1>2. QED
    BY <1>1, InitStaleness, NextStaleness, PTL DEF Spec

-----------------------------------------------------------------------------
(* The bounds on acceptance *)

\* A call accepted from the cache has a live entry; one accepted after a full validation is
\* past its read and within its latency.
LEMMA AcceptedIsFresh ==
    ASSUME TypeOK, NEW c \in Calls, [Next]_vars, Accepts(c)
    PROVE  CacheLive(call[c].s) \/ CallAt(c, "fill")
  <1>1. CASE CallAt(c, "fill")
    BY <1>1
  <1>2. CASE CallAt(c, "get")
    <2>1. call[c] # NoCall /\ call[c].pc = "get" /\ call'[c] # call[c]
      BY <1>2 DEF Accepts, CallAt
    <2>2. ASSUME NEW d \in Calls, CallStep(d)
          PROVE  CacheLive(call[c].s)
      <3>1. CASE d # c
        <4>1. call'[c] = call[c]
          BY <2>2, <3>1, FinishCall, AdvanceCall
             DEF CallStep, Begin, CacheHit, CacheMiss, DbRead, Check, Drop, Touch, CacheFill,
                 RevokeRow, RevokeFlush, CallAt, TypeOK
        <4>2. QED
          BY <2>1, <4>1
      <3>2. CASE d = c
        <4>1. CacheHit(c) \/ CacheMiss(c)
          BY <2>1, <2>2, <3>2
             DEF CallStep, Begin, DbRead, Check, Drop, Touch, CacheFill, RevokeRow,
                 RevokeFlush, CallAt
        <4>2. ~CacheMiss(c)
          BY <2>1, AdvanceCall DEF CacheMiss, Accepts, CallAt
        <4>3. QED
          BY <4>1, <4>2 DEF CacheHit
      <3>3. QED
        BY <3>1, <3>2
    <2>3. ASSUME UNCHANGED call
          PROVE  FALSE
      BY <2>1, <2>3
    <2>4. QED
      BY <2>2, <2>3
         DEF Next, LoginStep, BeginLogin, CountActive, Evict, Insert, LoginFails, BulkDelete,
             DeleteExpired, DeleteInactive, CleanupScript, Tick, vars
  <1>3. QED
    BY <1>1, <1>2 DEF Accepts

\* A token whose row is gone is accepted for at most one validation and one cache lifetime
\* after the deletion, whatever deleted it and whatever ran at the time.
THEOREM RevocationIsBounded == Spec => RevocationBounded
  <1> DEFINE Bounded(c) == Accepts(c) /\ row[call[c].s] = NoRow
                 => now <= deletedAt[call[c].s] + MaxLatency + SESSION_CACHE_TTL
  <1>1. ASSUME TypeOK, StalenessInv, [Next]_vars, NEW c \in Calls, Accepts(c),
               row[call[c].s] = NoRow
        PROVE  now <= deletedAt[call[c].s] + MaxLatency + SESSION_CACHE_TTL
    <2>1. call[c] # NoCall /\ Validating(c)
      BY <1>1 DEF Accepts, CallAt, Validating
    <2>2. call[c].s \in issued /\ now <= call[c].since + MaxLatency
      BY <1>1, <2>1 DEF StalenessInv, CallsOnTime
    <2>3. CASE CacheLive(call[c].s)
      BY <1>1, <2>1, <2>2, <2>3, BoundsAreNatural DEF CacheLive, StalenessInv, DeletedInv
    <2>4. CASE CallAt(c, "fill")
      BY <1>1, <2>1, <2>2, <2>4, BoundsAreNatural DEF StalenessInv, DeletedInv, HoldsRow
    <2>5. QED
      BY <1>1, <2>3, <2>4, AcceptedIsFresh
  <1>2. TypeOK /\ StalenessInv /\ [Next]_vars => [\A c \in Calls : Bounded(c)]_vars
    BY <1>1
  <1>3. QED
    BY <1>2, SessionsTyped, StalenessInvariant, PTL DEF Spec, RevocationBounded

\* No request is accepted on checks older than one validation and one cache lifetime.
THEOREM AcceptanceIsBacked == Spec => AcceptanceBacked
  <1> DEFINE Backed(c) == Accepts(c) => now <= passed[call[c].s] + MaxLatency + SESSION_CACHE_TTL
  <1>1. ASSUME TypeOK, StalenessInv, [Next]_vars, NEW c \in Calls, Accepts(c)
        PROVE  now <= passed[call[c].s] + MaxLatency + SESSION_CACHE_TTL
    <2>1. call[c] # NoCall /\ Validating(c)
      BY <1>1 DEF Accepts, CallAt, Validating
    <2>2. now <= call[c].since + MaxLatency
      BY <1>1, <2>1 DEF StalenessInv, CallsOnTime
    <2>3. CASE CacheLive(call[c].s)
      BY <1>1, <2>1, <2>3, BoundsAreNatural DEF CacheLive, StalenessInv, PassedInv
    <2>4. CASE CallAt(c, "fill")
      BY <1>1, <2>1, <2>2, <2>4, BoundsAreNatural DEF StalenessInv, PassedInv
    <2>5. QED
      BY <1>1, <2>3, <2>4, AcceptedIsFresh
  <1>2. TypeOK /\ StalenessInv /\ [Next]_vars => [\A c \in Calls : Backed(c)]_vars
    BY <1>1
  <1>3. QED
    BY <1>2, SessionsTyped, StalenessInvariant, PTL DEF Spec, AcceptanceBacked

-----------------------------------------------------------------------------
(* lastActiveAt *)

LEMMA ActivityTypes ==
    ASSUME TypeOK
    PROVE  /\ UpdateLag \in Nat /\ MaxLatency <= UpdateLag /\ ACTIVE_UPDATE_INTERVAL <= UpdateLag
           /\ ACTIVE_UPDATE_INTERVAL \in Nat
           /\ \A s \in Sessions : row[s] # NoRow => row[s] \in Row /\ row[s].lastActive \in Nat
           /\ \A c \in Calls : call[c] # NoCall => call[c].at \in Nat
           /\ \A c \in Calls : call[c] # NoCall /\ call[c].seen # NoRow => call[c].seen.lastActive \in Nat
  BY DurationsAreNaturals DEF TypeOK, UpdateLag, Row, Call

LEMMA InitActivity == Init => ActivityInv
  BY DEF Init, ActivityInv, RowActivity, CallActivity, HoldsRow, CallAt

\* A step that may delete rows and cache entries, and after which no call has newly read,
\* checked or touched a row.
LEMMA QuietActivity ==
    ASSUME TypeOK, ActivityInv, UNCHANGED now,
           (\E S : DeleteRows(S)) \/ UNCHANGED row,
           UNCHANGED cacheUntil \/ \A s \in Sessions : cacheUntil'[s] \in {0, cacheUntil[s]},
           \A c \in Calls :
              \/ call'[c] = call[c]
              \/ call'[c] = NoCall
              \/ call'[c] # NoCall /\ call'[c].pc \notin {"check", "touch", "fill"}
    PROVE  ActivityInv'
  <1> USE BoundsAreNatural, ActivityTypes
  <1>1. \A s \in Sessions : row'[s] # NoRow => row'[s] = row[s]
    BY DEF DeleteRows, TypeOK
  <1>2. RowActivity'
    BY <1>1 DEF ActivityInv, RowActivity
  <1>3. CallActivity'
    <2>1. ASSUME NEW c \in Calls, ~HoldsRow(c)'
          PROVE  ~CallAt(c, "check")' /\ ~CallAt(c, "touch")' /\ ~CallAt(c, "fill")'
      BY <2>1 DEF HoldsRow
    <2>2. ASSUME NEW c \in Calls, HoldsRow(c)'
          PROVE  call'[c] = call[c] /\ HoldsRow(c) /\ call[c].s \in Sessions
      BY <2>2 DEF HoldsRow, CallAt
    <2>3. QED
      BY <1>1, <2>1, <2>2 DEF ActivityInv, CallActivity, CallAt
  <1>4. QED
    BY <1>2, <1>3 DEF ActivityInv

\* A call that has read or checked a row, moving on without a write.
LEMMA HeldRow ==
    ASSUME TypeOK, ActivityInv, UNCHANGED <<now, row, cacheUntil>>, NEW c \in Calls,
           \A d \in Calls : d # c => call'[d] = call[d],
           CallAt(c, "check")' => call'[c].seen # NoRow,
           CallAt(c, "touch")' => call'[c].since <= call'[c].at /\ call'[c].at <= now,
           HoldsRow(c)' /\ row[call'[c].s] # NoRow =>
              LET active == row[call'[c].s].lastActive IN
              /\ CallAt(c, "check")' =>
                   active >= call'[c].seen.lastActive \/ active + UpdateLag >= call'[c].since
              /\ CallAt(c, "fill")' => active + UpdateLag >= call'[c].since
    PROVE  ActivityInv'
  <1>1. RowActivity'
    BY DEF ActivityInv, RowActivity, UpdateLag
  <1>2. CallActivity'
    BY DEF ActivityInv, CallActivity, HoldsRow, CallAt, UpdateLag
  <1>3. QED
    BY <1>1, <1>2 DEF ActivityInv

LEMMA DbReadActivity ==
    ASSUME TypeOK, ActivityInv, NEW c \in Calls, DbRead(c)
    PROVE  ActivityInv'
  <1> USE BoundsAreNatural, ActivityTypes DEF dbVars, historyVars
  <1>1. CASE Finish(c)
    BY <1>1, FinishIsQuiet, QuietActivity DEF DbRead, CallAt
  <1>2. CASE /\ row[call[c].s] # NoRow
             /\ call' = [call EXCEPT ![c].pc = "check", ![c].seen = row[call[c].s]]
    <2>1. /\ \A d \in Calls : d # c => call'[d] = call[d]
          /\ call'[c].pc = "check" /\ call'[c].s = call[c].s /\ call'[c].seen = row[call[c].s]
      BY <1>2 DEF DbRead, CallAt, Call, TypeOK
    <2>2. UNCHANGED <<now, row, cacheUntil>> /\ call[c].s \in Sessions
      BY DEF DbRead, CallAt
    <2>3. row[call[c].s].lastActive >= call'[c].seen.lastActive
      BY <1>2, <2>1, <2>2
    <2>4. ~CallAt(c, "touch")' /\ ~CallAt(c, "fill")'
      BY <2>1 DEF CallAt
    <2>5. QED
      BY <1>2, <2>1, <2>2, <2>3, <2>4, HeldRow
  <1>3. QED
    BY <1>1, <1>2 DEF DbRead

\* A row that passed the check is at most the interval old, or was brought back meanwhile.
LEMMA CheckActivity ==
    ASSUME TypeOK, StalenessInv, ActivityInv, NEW c \in Calls, Check(c)
    PROVE  ActivityInv'
  <1> USE BoundsAreNatural, ActivityTypes DEF dbVars, historyVars
  <1>1. CASE Finish(c)
    BY <1>1, FinishIsQuiet, QuietActivity DEF Check, CallAt
  <1>2. CASE Advance(c, "drop")
    <2>1. /\ \A d \in Calls : d # c => call'[d] = call[d]
          /\ call'[c] # NoCall /\ call'[c].pc = "drop"
      BY <1>2, AdvanceCall DEF Check, CallAt
    <2>2. QED
      BY <2>1, QuietActivity DEF Check
  <1>3. ASSUME NEW next \in {"touch", "fill"},
               call' = [call EXCEPT ![c].at = now, ![c].seen = NoRow, ![c].pc = next],
               next = "fill" => ~(now - call[c].seen.lastActive > ACTIVE_UPDATE_INTERVAL)
        PROVE  ActivityInv'
    <2>1. /\ CallAt(c, "check") /\ HoldsRow(c) /\ Validating(c)
          /\ call[c] # NoCall /\ call[c].seen # NoRow
      BY DEF Check, HoldsRow, Validating, CallAt, ActivityInv, CallActivity
    <2>2. call[c].since <= now
      BY <2>1 DEF StalenessInv, CallsOnTime
    <2>3. /\ \A d \in Calls : d # c => call'[d] = call[d]
          /\ call'[c].pc = next /\ call'[c].at = now
          /\ call'[c].s = call[c].s /\ call'[c].since = call[c].since
      BY <1>3, <2>1 DEF Call, TypeOK
    <2>4. ASSUME next = "fill", row[call[c].s] # NoRow
          PROVE  row[call[c].s].lastActive + UpdateLag >= call[c].since
      <3>1. \/ row[call[c].s].lastActive >= call[c].seen.lastActive
            \/ row[call[c].s].lastActive + UpdateLag >= call[c].since
        BY <2>1, <2>4 DEF ActivityInv, CallActivity
      <3>2. now <= call[c].seen.lastActive + ACTIVE_UPDATE_INTERVAL
        BY <1>3, <2>1, <2>4
      <3>3. QED
        BY <2>1, <2>2, <2>4, <3>1, <3>2
    <2>5. UNCHANGED <<now, row, cacheUntil>>
      BY DEF Check
    <2>6. ~CallAt(c, "check")' /\ (CallAt(c, "fill")' => next = "fill")
      BY <2>3 DEF CallAt
    <2>7. QED
      BY <2>2, <2>3, <2>4, <2>5, <2>6, HeldRow
  <1>4. QED
    BY <1>1, <1>2, <1>3 DEF Check

\* A write of lastActiveAt is at most one validation old, for every other validation too.
LEMMA TouchActivity ==
    ASSUME TypeOK, StalenessInv, ActivityInv, NEW c \in Calls, Touch(c)
    PROVE  ActivityInv'
  <1> USE BoundsAreNatural, ActivityTypes DEF dbVars, historyVars
  <1>1. CASE Finish(c) /\ UNCHANGED row
    BY <1>1, FinishIsQuiet, QuietActivity DEF Touch, CallAt
  <1>2. CASE /\ row[call[c].s] # NoRow
             /\ row' = [row EXCEPT ![call[c].s].lastActive = call[c].at]
             /\ Advance(c, "fill")
    <2>1. /\ call[c] # NoCall /\ call[c] \in Call /\ Validating(c) /\ call[c].s \in Sessions
          /\ call[c].since <= call[c].at /\ call[c].at <= now
          /\ now <= call[c].since + MaxLatency
      BY DEF Touch, CallAt, Validating, ActivityInv, CallActivity, StalenessInv, CallsOnTime
    <2>2. /\ \A d \in Calls : d # c => call'[d] = call[d]
          /\ call'[c].pc = "fill"
          /\ call'[c].s = call[c].s /\ call'[c].since = call[c].since
      BY <1>2, <2>1, AdvanceCall
    <2>3. /\ row'[call[c].s] = [row[call[c].s] EXCEPT !.lastActive = call[c].at]
          /\ \A s \in Sessions : s # call[c].s => row'[s] = row[s]
      BY <1>2, <2>1 DEF TypeOK
    <2>4. row'[call[c].s].lastActive = call[c].at
      BY <1>2, <2>1, <2>3 DEF Row
    <2>5. UNCHANGED <<now, cacheUntil>>
      BY DEF Touch
    <2>6. RowActivity'
      <3>1. cacheUntil[call[c].s] <= now + SESSION_CACHE_TTL
        BY <2>1 DEF StalenessInv, DeletedInv
      <3>2. cacheUntil[call[c].s] <= call[c].at + UpdateLag + MaxLatency + SESSION_CACHE_TTL
        BY <2>1, <3>1
      <3>3. QED
        BY <2>1, <2>3, <2>4, <2>5, <3>2 DEF ActivityInv, RowActivity, UpdateLag
    <2>7. CallActivity'
      <3>1. ASSUME NEW d \in Calls, HoldsRow(d), call[d].s = call[c].s
            PROVE  call[c].at + UpdateLag >= call[d].since
        <4>1. call[d] # NoCall /\ call[d].since <= now
          BY <3>1 DEF HoldsRow, CallAt, StalenessInv, CallsOnTime, Validating
        <4>2. QED
          BY <2>1, <4>1
      <3>2. ASSUME NEW d \in Calls, d # c
            PROVE  /\ CallAt(d, "check")' => call'[d].seen # NoRow
                   /\ CallAt(d, "touch")' => call'[d].since <= call'[d].at /\ call'[d].at <= now
                   /\ HoldsRow(d)' /\ row'[call'[d].s] # NoRow =>
                        LET active == row'[call'[d].s].lastActive IN
                        /\ CallAt(d, "check")' =>
                             active >= call'[d].seen.lastActive \/ active + UpdateLag >= call'[d].since
                        /\ CallAt(d, "fill")' => active + UpdateLag >= call'[d].since
        <4>1. call'[d] = call[d] /\ (HoldsRow(d)' => HoldsRow(d) /\ call[d].s \in Sessions)
          BY <2>2, <3>2 DEF HoldsRow, CallAt
        <4>2. CASE call[d].s = call[c].s
          BY <2>4, <3>1, <4>1, <4>2 DEF ActivityInv, CallActivity, CallAt
        <4>3. CASE call[d].s # call[c].s
          BY <2>3, <4>1, <4>3 DEF ActivityInv, CallActivity, CallAt
        <4>4. QED
          BY <4>2, <4>3
      <3>3. row'[call'[c].s].lastActive + UpdateLag >= call'[c].since
        BY <2>1, <2>2, <2>4
      <3>4. ~CallAt(c, "check")' /\ ~CallAt(c, "touch")'
        BY <2>2 DEF CallAt
      <3>5. QED
        BY <2>5, <3>2, <3>3, <3>4 DEF CallActivity, UpdateLag
    <2>8. QED
      BY <2>6, <2>7 DEF ActivityInv
  <1>3. QED
    BY <1>1, <1>2 DEF Touch

LEMMA CacheFillActivity ==
    ASSUME TypeOK, StalenessInv, ActivityInv, NEW c \in Calls, CacheFill(c)
    PROVE  ActivityInv'
  <1> USE BoundsAreNatural, ActivityTypes DEF dbVars, historyVars
  <1>1. /\ CallAt(c, "fill") /\ HoldsRow(c) /\ call[c] # NoCall /\ call[c].s \in Sessions
        /\ now <= call[c].since + MaxLatency
    BY DEF CacheFill, StalenessInv, CallsOnTime, Validating, HoldsRow, CallAt
  <1>2. \A d \in Calls : \/ call'[d] = call[d]
                         \/ call'[d] = NoCall
                         \/ call'[d] # NoCall /\ call'[d].pc \in {"delete", "flush"}
    BY <1>1, FinishIsQuiet DEF CacheFill
  <1>3. CASE UNCHANGED cacheUntil
    BY <1>2, <1>3, QuietActivity DEF CacheFill
  <1>4. CASE cacheUntil' = [cacheUntil EXCEPT ![call[c].s] = now + SESSION_CACHE_TTL]
    <2>1. UNCHANGED <<now, row>>
      BY DEF CacheFill
    <2>2. RowActivity'
      <3>1. row[call[c].s] # NoRow =>
               now + SESSION_CACHE_TTL <= row[call[c].s].lastActive + UpdateLag + MaxLatency + SESSION_CACHE_TTL
        BY <1>1 DEF ActivityInv, CallActivity
      <3>2. /\ cacheUntil'[call[c].s] = now + SESSION_CACHE_TTL
            /\ \A s \in Sessions : s # call[c].s => cacheUntil'[s] = cacheUntil[s]
        BY <1>1, <1>4 DEF TypeOK
      <3>3. QED
        BY <2>1, <3>1, <3>2 DEF ActivityInv, RowActivity, UpdateLag
    <2>3. CallActivity'
      BY <1>2, <2>1 DEF ActivityInv, CallActivity, HoldsRow, CallAt, UpdateLag
    <2>4. QED
      BY <2>2, <2>3 DEF ActivityInv
  <1>5. QED
    BY <1>3, <1>4 DEF CacheFill

\* The row of a new session is fresh, and nothing refers to its token yet.
LEMMA InsertActivity ==
    ASSUME TypeOK, StalenessInv, ActivityInv, NEW l \in Logins, Insert(l)
    PROVE  ActivityInv'
  <1> USE BoundsAreNatural, ActivityTypes DEF dbVars, historyVars
  <1>1. PICK s \in Sessions \ issued :
           row' = [row EXCEPT ![s] = [user |-> login[l].user, print |-> login[l].print,
                          expiresAt |-> login[l].expiresAt, lastActive |-> now]]
    BY DEF Insert
  <1>2. /\ \A r \in Sessions : r # s => row'[r] = row[r]
        /\ row'[s].lastActive = now /\ cacheUntil[s] = 0
    BY <1>1 DEF TypeOK, StalenessInv, IssuedOnly
  <1>3. UNCHANGED <<now, cacheUntil, call>>
    BY DEF Insert
  <1>4. RowActivity'
    BY <1>2, <1>3 DEF ActivityInv, RowActivity, UpdateLag
  <1>5. CallActivity'
    <2>1. \A c \in Calls : HoldsRow(c) => row'[call[c].s] = row[call[c].s]
      BY <1>2 DEF HoldsRow, CallAt, StalenessInv, CallsOnTime, Validating
    <2>2. QED
      BY <1>3, <2>1 DEF ActivityInv, CallActivity, HoldsRow, CallAt, UpdateLag
  <1>6. QED
    BY <1>4, <1>5 DEF ActivityInv

LEMMA TickActivity ==
    ASSUME TypeOK, ActivityInv, Tick
    PROVE  ActivityInv'
  <1> USE BoundsAreNatural, ActivityTypes DEF dbVars, historyVars
  <1>1. /\ now' = now + 1 /\ UNCHANGED <<row, call>>
        /\ \A s \in Sessions : cacheUntil'[s] = cacheUntil[s] \/ cacheUntil'[s] = 0
    BY DEF Tick
  <1>2. RowActivity'
    BY <1>1 DEF ActivityInv, RowActivity, UpdateLag
  <1>3. CallActivity'
    <2>1. \A c \in Calls : CallAt(c, "touch") => call[c].at <= now + 1
      BY DEF ActivityInv, CallActivity, CallAt
    <2>2. QED
      BY <1>1, <2>1 DEF ActivityInv, CallActivity, HoldsRow, CallAt, UpdateLag
  <1>4. QED
    BY <1>2, <1>3 DEF ActivityInv

LEMMA CallStepActivity ==
    ASSUME TypeOK, StalenessInv, ActivityInv, NEW c \in Calls, CallStep(c)
    PROVE  ActivityInv'
  <1> USE BoundsAreNatural DEF dbVars, historyVars
  <1>1. ASSUME NEW s \in Sessions, NEW print \in Fingerprint, NEW op \in {"request", "logout"},
               Begin(c, s, print, op)
        PROVE  ActivityInv'
    <2>1. [pc |-> "get", op |-> op, s |-> s, print |-> print,
            seen |-> NoRow, at |-> 0, since |-> now] \in Call
      BY DEF Call, TypeOK
    <2>2. /\ \A d \in Calls : d # c => call'[d] = call[d]
          /\ call'[c] # NoCall /\ call'[c].pc = "get"
      BY <1>1, <2>1, AbsentValues DEF Begin, TypeOK
    <2>3. QED
      BY <1>1, <2>2, QuietActivity DEF Begin
  <1>2. CASE CacheHit(c)
    BY <1>2, FinishIsQuiet, QuietActivity DEF CacheHit, CallAt
  <1>3. CASE CacheMiss(c)
    <2>1. /\ \A d \in Calls : d # c => call'[d] = call[d]
          /\ call'[c] # NoCall /\ call'[c].pc = "read"
      BY <1>3, AdvanceCall DEF CacheMiss, CallAt
    <2>2. QED
      BY <1>3, <2>1, QuietActivity DEF CacheMiss
  <1>4. CASE Drop(c)
    BY <1>4, FinishIsQuiet, QuietActivity DEF Drop, CallAt
  <1>5. CASE RevokeRow(c)
    <2>1. \A d \in Calls : \/ call'[d] = call[d]
                           \/ call'[d] = NoCall
                           \/ call'[d] # NoCall /\ call'[d].pc \in {"delete", "flush"}
      BY <1>5, AdvanceCall DEF RevokeRow, CallAt, TypeOK
    <2>2. QED
      BY <1>5, <2>1, QuietActivity DEF RevokeRow
  <1>6. CASE RevokeFlush(c)
    <2>1. /\ \A d \in Calls : call'[d] = call[d] \/ call'[d] = NoCall
          /\ \A s \in Sessions : cacheUntil'[s] \in {0, cacheUntil[s]}
      BY <1>6 DEF RevokeFlush, CallAt, TypeOK
    <2>2. QED
      BY <1>6, <2>1, QuietActivity DEF RevokeFlush
  <1>7. QED
    BY <1>1, <1>2, <1>3, <1>4, <1>5, <1>6, DbReadActivity, CheckActivity, TouchActivity,
       CacheFillActivity DEF CallStep

LEMMA NextActivity == TypeOK /\ StalenessInv /\ ActivityInv /\ [Next]_vars => ActivityInv'
  <1> SUFFICES ASSUME TypeOK, StalenessInv, ActivityInv, [Next]_vars PROVE ActivityInv'
    OBVIOUS
  <1> USE DEF dbVars, historyVars
  <1>1. ASSUME NEW l \in Logins, LoginStep(l)
        PROVE  ActivityInv'
    BY <1>1, QuietActivity, InsertActivity DEF LoginStep, BeginLogin, CountActive, Evict, LoginFails
  <1>2. ASSUME NEW u \in Users, NEW kept, BulkDelete(u, kept)
        PROVE  ActivityInv'
    BY <1>2, QuietActivity DEF BulkDelete
  <1>3. CASE DeleteExpired \/ DeleteInactive \/ CleanupScript
    BY <1>3, QuietActivity DEF DeleteExpired, DeleteInactive, CleanupScript
  <1>4. CASE UNCHANGED vars
    BY <1>4, QuietActivity DEF vars
  <1>5. QED
    BY <1>1, <1>2, <1>3, <1>4, CallStepActivity, TickActivity DEF Next

\* What a validation may rely on of lastActiveAt, whoever writes it meanwhile: the invariant
\* behind the two bounds below.
THEOREM ActivityInvariant == Spec => []ActivityInv
  <1>1. QED
    BY InitActivity, NextActivity, SessionsTyped, StalenessInvariant, PTL DEF Spec

\* A user accepted is on record as active, but for the update interval (or the longest
\* validation), one validation and one cache lifetime.
THEOREM ActivityLagIsBounded == Spec => ActivityLagBounded
  <1> DEFINE Lagging(c) == Accepts(c) /\ row[call[c].s] # NoRow
                 => now <= row[call[c].s].lastActive + UpdateLag + MaxLatency + SESSION_CACHE_TTL
  <1>1. ASSUME TypeOK, StalenessInv, ActivityInv, [Next]_vars, NEW c \in Calls, Accepts(c),
               row[call[c].s] # NoRow
        PROVE  now <= row[call[c].s].lastActive + UpdateLag + MaxLatency + SESSION_CACHE_TTL
    <2>1. call[c] # NoCall /\ Validating(c)
      BY <1>1 DEF Accepts, CallAt, Validating
    <2>2. now <= call[c].since + MaxLatency
      BY <1>1, <2>1 DEF StalenessInv, CallsOnTime
    <2>3. CASE CacheLive(call[c].s)
      BY <1>1, <2>1, <2>3, BoundsAreNatural, ActivityTypes DEF CacheLive, ActivityInv, RowActivity
    <2>4. CASE CallAt(c, "fill")
      <3>1. row[call[c].s].lastActive + UpdateLag >= call[c].since
        BY <1>1, <2>4 DEF ActivityInv, CallActivity, HoldsRow
      <3>2. QED
        BY <1>1, <2>1, <2>2, <3>1, BoundsAreNatural, ActivityTypes
    <2>5. QED
      BY <1>1, <2>3, <2>4, AcceptedIsFresh
  <1>2. TypeOK /\ StalenessInv /\ ActivityInv /\ [Next]_vars => [\A c \in Calls : Lagging(c)]_vars
    BY <1>1
  <1>3. QED
    BY <1>2, SessionsTyped, StalenessInvariant, ActivityInvariant, PTL DEF Spec, ActivityLagBounded

\* Out-of-order writes take lastActiveAt back by at most one validation.
THEOREM ActivityRewindIsBounded == Spec => ActivityRewindBounded
  <1> DEFINE Rewound == \A s \in Sessions : row[s] # NoRow /\ row'[s] # NoRow
                            => row'[s].lastActive >= row[s].lastActive - MaxLatency
  <1>1. ASSUME TypeOK, StalenessInv, ActivityInv, Next
        PROVE  Rewound
    <2> USE <1>1, BoundsAreNatural, ActivityTypes
    <2>1. ASSUME (\E S : DeleteRows(S)) \/ UNCHANGED row
          PROVE  Rewound
      <3>1. \A s \in Sessions : row'[s] # NoRow => row'[s] = row[s]
        BY <2>1 DEF DeleteRows, TypeOK
      <3>2. QED
        BY <3>1
    <2>2. ASSUME NEW l \in Logins, Insert(l)
          PROVE  Rewound
      <3>1. PICK s \in Sessions \ issued :
               row' = [row EXCEPT ![s] = [user |-> login[l].user, print |-> login[l].print,
                              expiresAt |-> login[l].expiresAt, lastActive |-> now]]
        BY <2>2 DEF Insert
      <3>2. row[s] = NoRow /\ \A r \in Sessions : r # s => row'[r] = row[r]
        BY <3>1 DEF TypeOK, StalenessInv, IssuedOnly
      <3>3. QED
        BY <3>2
    <2>3. ASSUME NEW c \in Calls, Touch(c), row' # row
          PROVE  Rewound
      <3>1. /\ row[call[c].s] # NoRow
            /\ row' = [row EXCEPT ![call[c].s].lastActive = call[c].at]
        BY <2>3 DEF Touch
      <3>2. /\ call[c].s \in Sessions /\ call[c] # NoCall
            /\ call[c].since <= call[c].at
            /\ now <= call[c].since + MaxLatency
        BY <2>3 DEF Touch, CallAt, Validating, ActivityInv, CallActivity, StalenessInv, CallsOnTime
      <3>3. /\ row'[call[c].s] = [row[call[c].s] EXCEPT !.lastActive = call[c].at]
            /\ \A s \in Sessions : s # call[c].s => row'[s] = row[s]
        BY <3>1, <3>2 DEF TypeOK
      <3>4. row'[call[c].s].lastActive = call[c].at
        BY <3>1, <3>2, <3>3 DEF Row
      <3>5. row[call[c].s].lastActive <= now
        BY <3>1, <3>2 DEF ActivityInv, RowActivity
      <3>6. QED
        BY <3>1, <3>2, <3>3, <3>4, <3>5
    <2> HIDE DEF Rewound
    <2>4. ASSUME NEW c \in Calls, CallStep(c)
          PROVE  Rewound
      BY <2>1, <2>3, <2>4
         DEF CallStep, Begin, CacheHit, CacheMiss, DbRead, Check, Drop, CacheFill, RevokeRow,
             RevokeFlush, dbVars
    <2>5. ASSUME NEW l \in Logins, LoginStep(l)
          PROVE  Rewound
      BY <2>1, <2>2, <2>5 DEF LoginStep, BeginLogin, CountActive, Evict, LoginFails, dbVars
    <2>6. QED
      BY <2>1, <2>4, <2>5
         DEF Next, BulkDelete, DeleteExpired, DeleteInactive, CleanupScript, Tick, dbVars
  <1>2. TypeOK /\ StalenessInv /\ ActivityInv /\ [Next]_vars => [Rewound]_vars
    BY <1>1
  <1>3. QED
    BY <1>2, SessionsTyped, StalenessInvariant, ActivityInvariant, PTL DEF Spec, ActivityRewindBounded

-----------------------------------------------------------------------------
(* The limit on concurrent sessions *)

\* Only tokens handed out have rows, so that they can be counted.
LEMMA ActiveRowsFinite ==
    ASSUME IssuedOnly, IsFiniteSet(issued), NEW u
    PROVE  /\ IsFiniteSet(ActiveRows(u)) /\ ActiveRows(u) \subseteq issued
           /\ Cardinality(ActiveRows(u)) \in Nat
  <1>1. ActiveRows(u) \subseteq issued
    BY DEF ActiveRows, IssuedOnly
  <1>2. QED
    BY <1>1, FS_Subset, FS_CardinalityType

LEMMA SparedFinite ==
    ASSUME IssuedOnly, IsFiniteSet(issued), NEW l
    PROVE  IsFiniteSet(Spared(l)) /\ Cardinality(Spared(l)) \in Nat
  <1>1. Spared(l) \subseteq ActiveRows(login[l].user)
    BY DEF Spared
  <1>2. QED
    BY <1>1, ActiveRowsFinite, FS_Subset, FS_CardinalityType

LEMMA InitLimit == Init => LimitInv
  <1> SUFFICES ASSUME Init PROVE LimitInv
    OBVIOUS
  <1>1. \A u \in Users : ActiveRows(u) = {}
    BY DEF Init, ActiveRows
  <1>2. IsFiniteSet(issued)
    BY FS_EmptySet DEF Init
  <1>3. SerialLoginsRespectLimit
    BY <1>1, FS_EmptySet, LimitIsPositive DEF SerialLoginsRespectLimit
  <1>4. \A l \in Logins : ~Counted(l)
    BY DEF Init, Counted, LoginAt
  <1>5. QED
    BY <1>2, <1>3, <1>4 DEF LimitInv

\* Steps that add no session: no user has more of them afterwards.
LEMMA FewerRows ==
    ASSUME TypeOK, IssuedOnly, LimitInv, UNCHANGED issued, raced \subseteq raced',
           \A u : ActiveRows(u)' \subseteq ActiveRows(u)
    PROVE  IsFiniteSet(issued)' /\ SerialLoginsRespectLimit'
  <1>1. IsFiniteSet(issued)
    BY DEF LimitInv
  <1>2. ASSUME NEW u \in Users \ raced
        PROVE  Cardinality(ActiveRows(u)') <= MAX_CONCURRENT_SESSIONS
    <2>1. Cardinality(ActiveRows(u)') <= Cardinality(ActiveRows(u)) /\ Cardinality(ActiveRows(u)') \in Nat
      BY <1>1, ActiveRowsFinite, FS_Subset, FS_CardinalityType
    <2>2. Cardinality(ActiveRows(u)) <= MAX_CONCURRENT_SESSIONS
      BY DEF LimitInv, SerialLoginsRespectLimit
    <2>3. QED
      BY <1>1, <2>1, <2>2, ActiveRowsFinite, LimitIsPositive
  <1>3. QED
    BY <1>1, <1>2 DEF SerialLoginsRespectLimit

\* A login that has counted keeps its room as long as no other inserts.
LEMMA RoomIsKept ==
    ASSUME TypeOK, IssuedOnly, LimitInv, NEW l \in Logins, Counted(l),
           login[l].user \notin raced, Spared(l)' \subseteq Spared(l)
    PROVE  Cardinality(Spared(l)') < MAX_CONCURRENT_SESSIONS
  <1>1. IsFiniteSet(Spared(l)) /\ Cardinality(Spared(l)) < MAX_CONCURRENT_SESSIONS
        /\ Cardinality(Spared(l)) \in Nat
    BY SparedFinite DEF LimitInv
  <1>2. Cardinality(Spared(l)') <= Cardinality(Spared(l)) /\ Cardinality(Spared(l)') \in Nat
    BY <1>1, FS_Subset, FS_CardinalityType
  <1>3. QED
    BY <1>1, <1>2, LimitIsPositive

\* Logins that stay as they were, among those that end or begin.
LEMMA QuietLogins ==
    ASSUME TypeOK, IssuedOnly, LimitInv, UNCHANGED issued, raced \subseteq raced',
           \A u : ActiveRows(u)' \subseteq ActiveRows(u),
           \A l \in Logins : \/ login'[l] = login[l]
                             \/ login'[l] = NoLogin
                             \/ login'[l].pc = "count"
    PROVE  LimitInv'
  <1>1. ASSUME NEW l \in Logins, Counted(l)', login'[l].user \notin raced'
        PROVE  ~Overlaps(l)' /\ Cardinality(Spared(l)') < MAX_CONCURRENT_SESSIONS
    <2>1. login'[l] = login[l] /\ Counted(l) /\ login[l].user \notin raced
      BY <1>1 DEF Counted, LoginAt
    <2>2. ~Overlaps(l)
      BY <2>1 DEF LimitInv
    <2>3. \A k \in Logins : Counted(k)' => Counted(k) /\ login'[k] = login[k]
      BY DEF Counted, LoginAt
    <2>4. ~Overlaps(l)'
      BY <2>1, <2>2, <2>3 DEF Overlaps
    <2>5. Spared(l)' \subseteq Spared(l)
      BY <2>1 DEF Spared, LoginAt
    <2>6. QED
      BY <2>1, <2>4, <2>5, RoomIsKept
  <1>2. QED
    BY <1>1, FewerRows DEF LimitInv

\* Deleting rows and the passing of time leave no user more active sessions.
LEMMA DeletionsShrink ==
    ASSUME TypeOK, now' \in Nat, now <= now', (\E S : DeleteRows(S)) \/ UNCHANGED row
    PROVE  \A u : ActiveRows(u)' \subseteq ActiveRows(u)
  <1>1. \A s \in Sessions : row'[s] # NoRow => row'[s] = row[s]
    BY DEF DeleteRows, TypeOK
  <1>2. \A s \in Sessions : row[s] # NoRow => row[s].expiresAt \in Nat
    BY DEF TypeOK, Row
  <1>3. QED
    BY <1>1, <1>2 DEF TypeOK, ActiveRows, Expired

LEMMA CountActiveLimit ==
    ASSUME TypeOK, IssuedOnly, LimitInv, NEW l \in Logins, CountActive(l)
    PROVE  LimitInv'
  <1> DEFINE u == login[l].user
  <1> USE DEF dbVars, historyVars
  <1>1. /\ login[l] \in Login /\ login \in [Logins -> Login \cup {NoLogin}]
        /\ IsFiniteSet(issued)
        /\ UNCHANGED <<now, row, issued>>
        /\ raced' = IF Overlaps(l) THEN raced \cup {u} ELSE raced
    BY DEF CountActive, LoginAt, TypeOK, LimitInv
  <1>2. \A w : ActiveRows(w)' = ActiveRows(w)
    BY <1>1 DEF ActiveRows, Expired
  <1>3. ~Counted(l)
    BY DEF CountActive, LoginAt, Counted
  <1>4. /\ \A k \in Logins \ {l} : login'[k] = login[k]
        /\ login'[l] \in Login /\ login'[l].user = u
        /\ \/ login'[l].pc = "insert" /\ Cardinality(ActiveRows(u)) < MAX_CONCURRENT_SESSIONS
           \/ /\ login'[l].pc = "evict"
              /\ \E oldest \in ActiveRows(u) : login'[l].victims = {oldest}
    <2>1. CASE /\ Cardinality(ActiveRows(u)) < MAX_CONCURRENT_SESSIONS
               /\ login' = [login EXCEPT ![l].pc = "insert"]
      <3>1. [login[l] EXCEPT !.pc = "insert"] \in Login
        BY <1>1 DEF Login
      <3>2. QED
        BY <1>1, <2>1, <3>1 DEF Login
    <2>2. ASSUME NEW oldest \in ActiveRows(u),
                 login' = [login EXCEPT ![l].pc = "evict", ![l].victims = {oldest}]
          PROVE  /\ \A k \in Logins \ {l} : login'[k] = login[k]
                 /\ login'[l] \in Login /\ login'[l].user = u
                 /\ login'[l].pc = "evict" /\ login'[l].victims = {oldest}
      <3>1. [login[l] EXCEPT !.pc = "evict", !.victims = {oldest}] \in Login
        BY <1>1 DEF Login, ActiveRows
      <3>2. QED
        BY <1>1, <2>2, <3>1 DEF Login
    <2>3. QED
      BY <2>1, <2>2 DEF CountActive
  <1>5. ASSUME u \notin raced
        PROVE  Cardinality(Spared(l)') < MAX_CONCURRENT_SESSIONS
    <2>1. Cardinality(ActiveRows(u)) <= MAX_CONCURRENT_SESSIONS /\ IsFiniteSet(ActiveRows(u))
          /\ Cardinality(ActiveRows(u)) \in Nat
      BY <1>1, <1>5, ActiveRowsFinite DEF LimitInv, SerialLoginsRespectLimit, Login
    <2>2. CASE login'[l].pc = "insert"
      <3>1. Spared(l)' = ActiveRows(u)
        BY <1>2, <1>4, <2>2 DEF Spared, LoginAt
      <3>2. QED
        BY <1>4, <2>2, <3>1
    <2>3. CASE login'[l].pc = "evict"
      <3>1. PICK oldest \in ActiveRows(u) : login'[l].victims = {oldest}
        BY <1>4, <2>3
      <3>2. Spared(l)' = ActiveRows(u) \ {oldest}
        BY <1>2, <1>4, <2>3, <3>1, AbsentValues DEF Spared, LoginAt
      <3>3. Cardinality(Spared(l)') = Cardinality(ActiveRows(u)) - 1
        BY <2>1, <3>2, FS_RemoveElement
      <3>4. QED
        BY <2>1, <3>3, LimitIsPositive
    <2>4. QED
      BY <1>4, <2>2, <2>3
  <1>6. ASSUME NEW k \in Logins, Counted(k)', login'[k].user \notin raced'
        PROVE  ~Overlaps(k)' /\ Cardinality(Spared(k)') < MAX_CONCURRENT_SESSIONS
    <2>1. \A j \in Logins \ {l} : Counted(j)' = Counted(j)
      BY <1>4 DEF Counted, LoginAt
    <2>2. CASE k = l
      <3>1. u \notin raced /\ ~Overlaps(l)
        BY <1>1, <1>4, <1>6, <2>2
      <3>2. ~Overlaps(l)'
        BY <1>4, <2>1, <3>1 DEF Overlaps
      <3>3. QED
        BY <1>5, <2>2, <3>1, <3>2
    <2>3. CASE k # l
      <3>1. Counted(k) /\ login[k].user \notin raced /\ login'[k] = login[k]
        BY <1>1, <1>4, <1>6, <2>1, <2>3
      <3>2. ~Overlaps(k) /\ login[k].user # u
        BY <1>1, <1>4, <1>6, <2>3, <3>1 DEF LimitInv, Overlaps
      <3>3. ~Overlaps(k)'
        BY <1>4, <2>1, <3>1, <3>2 DEF Overlaps
      <3>4. Spared(k)' \subseteq Spared(k)
        BY <1>2, <3>1 DEF Spared, LoginAt
      <3>5. QED
        BY <3>1, <3>3, <3>4, RoomIsKept
    <2>4. QED
      BY <2>2, <2>3
  <1>7. raced \subseteq raced'
    BY <1>1
  <1>8. QED
    BY <1>1, <1>2, <1>6, <1>7, FewerRows DEF LimitInv

LEMMA EvictLimit ==
    ASSUME TypeOK, IssuedOnly, LimitInv, NEW l \in Logins, Evict(l)
    PROVE  LimitInv'
  <1> USE DEF dbVars, historyVars
  <1>u. PICK u \in Users : u = login[l].user
    BY DEF Evict, Insert, LoginAt, TypeOK, Login
  <1>1. /\ login[l] \in Login /\ login \in [Logins -> Login \cup {NoLogin}]
        /\ LoginAt(l, "evict") /\ Counted(l)
        /\ UNCHANGED <<now, issued>>
        /\ login' = [login EXCEPT ![l].pc = "insert", ![l].victims = {}]
        /\ \/ DeleteRows(login[l].victims) /\ UNCHANGED raced
           \/ raced' = raced \cup {u} /\ UNCHANGED row
    BY <1>u DEF Evict, LoginAt, TypeOK, Counted
  <1>2. /\ raced \subseteq raced'
        /\ \A w : ActiveRows(w)' \subseteq ActiveRows(w)
    BY <1>1, DeletionsShrink DEF TypeOK
  <1>3. /\ \A k \in Logins \ {l} : login'[k] = login[k]
        /\ login'[l].user = u /\ login'[l].pc = "insert" /\ login'[l] # NoLogin
    <2>1. [login[l] EXCEPT !.pc = "insert", !.victims = {}] \in Login
      BY <1>1 DEF Login
    <2>2. /\ login'[l] = [login[l] EXCEPT !.pc = "insert", !.victims = {}]
          /\ \A k \in Logins \ {l} : login'[k] = login[k]
      BY <1>1
    <2>3. login'[l].user = login[l].user /\ login'[l].pc = "insert"
      BY <1>1, <2>2 DEF Login
    <2>4. QED
      BY <1>u, <2>1, <2>2, <2>3, AbsentValues
  <1>4. \A k \in Logins : Counted(k)' = Counted(k) /\ login'[k].user = login[k].user
    BY <1>1, <1>3, <1>u DEF Counted, LoginAt
  <1>5. ASSUME NEW k \in Logins, Counted(k)', login'[k].user \notin raced'
        PROVE  ~Overlaps(k)' /\ Cardinality(Spared(k)') < MAX_CONCURRENT_SESSIONS
    <2>1. Counted(k) /\ login[k].user \notin raced
      BY <1>2, <1>4, <1>5
    <2>2. ~Overlaps(k)'
      BY <1>4, <2>1 DEF LimitInv, Overlaps
    <2>3. Spared(k)' \subseteq Spared(k)
      <3>1. CASE k = l
        <4>1. DeleteRows(login[l].victims)
          BY <1>1, <1>4, <1>5, <1>u, <3>1
        <4>2. ActiveRows(u)' \cap login[l].victims = {}
          BY <4>1 DEF DeleteRows, ActiveRows
        <4>3. Spared(l)' \subseteq ActiveRows(u)' /\ Spared(l) = ActiveRows(u) \ login[l].victims
          BY <1>1, <1>3, <1>u DEF Spared, LoginAt
        <4>4. QED
          BY <1>2, <3>1, <4>2, <4>3
      <3>2. CASE k # l
        BY <1>2, <1>3, <3>2 DEF Spared, LoginAt
      <3>3. QED
        BY <3>1, <3>2
    <2>4. QED
      BY <2>1, <2>2, <2>3, RoomIsKept
  <1>6. QED
    BY <1>1, <1>2, <1>5, FewerRows DEF LimitInv

\* The new session takes the room its login found.
LEMMA InsertLimit ==
    ASSUME TypeOK, IssuedOnly, LimitInv, NEW l \in Logins, Insert(l)
    PROVE  LimitInv'
  <1> USE DEF dbVars, historyVars
  <1>u. PICK u \in Users : u = login[l].user
    BY DEF Evict, Insert, LoginAt, TypeOK, Login
  <1>1. PICK s \in Sessions \ issued :
           /\ row' = [row EXCEPT ![s] = [user |-> login[l].user, print |-> login[l].print,
                          expiresAt |-> login[l].expiresAt, lastActive |-> now]]
           /\ issued' = issued \cup {s}
    BY DEF Insert
  <1>2. /\ login[l] \in Login /\ LoginAt(l, "insert") /\ Counted(l)
        /\ login' = [login EXCEPT ![l] = NoLogin]
        /\ UNCHANGED <<now, raced>>
        /\ IsFiniteSet(issued)
    BY DEF Insert, EndLogin, LoginAt, TypeOK, Counted, LimitInv
  <1>3. /\ \A r \in Sessions \ {s} : row'[r] = row[r]
        /\ row'[s].user = u
        /\ row[s] = NoRow
    BY <1>1, <1>u DEF TypeOK, IssuedOnly
  <1>4. \A w : w # u => ActiveRows(w)' \subseteq ActiveRows(w)
    BY <1>2, <1>3 DEF ActiveRows, Expired
  <1>5. ActiveRows(u)' \subseteq ActiveRows(u) \cup {s}
    BY <1>2, <1>3 DEF ActiveRows, Expired
  <1>6. IsFiniteSet(issued')
    BY <1>1, <1>2, FS_AddElement
  <1>7. ASSUME NEW w \in Users \ raced
        PROVE  Cardinality(ActiveRows(w)') <= MAX_CONCURRENT_SESSIONS
    <2>1. CASE w # u
      <3>1. Cardinality(ActiveRows(w)') <= Cardinality(ActiveRows(w))
            /\ Cardinality(ActiveRows(w)') \in Nat /\ Cardinality(ActiveRows(w)) \in Nat
        BY <1>2, <1>4, <2>1, ActiveRowsFinite, FS_Subset, FS_CardinalityType
      <3>2. QED
        BY <3>1, LimitIsPositive DEF LimitInv, SerialLoginsRespectLimit
    <2>2. CASE w = u
      <3>1. Spared(l) = ActiveRows(u)
        BY <1>2, <1>u DEF Spared, LoginAt
      <3>2. Cardinality(ActiveRows(u)) < MAX_CONCURRENT_SESSIONS
        BY <1>2, <1>u, <2>2, <3>1 DEF LimitInv
      <3>3. /\ IsFiniteSet(ActiveRows(u)) /\ Cardinality(ActiveRows(u)) \in Nat
            /\ s \notin ActiveRows(u)
        BY <1>2, <1>3, ActiveRowsFinite DEF ActiveRows
      <3>4. /\ IsFiniteSet(ActiveRows(u) \cup {s})
            /\ Cardinality(ActiveRows(u) \cup {s}) = Cardinality(ActiveRows(u)) + 1
        BY <3>3, FS_AddElement
      <3>5. /\ Cardinality(ActiveRows(u)') <= Cardinality(ActiveRows(u) \cup {s})
            /\ Cardinality(ActiveRows(u)') \in Nat
        BY <1>5, <3>4, FS_Subset, FS_CardinalityType
      <3>6. QED
        BY <2>2, <3>2, <3>3, <3>4, <3>5, LimitIsPositive
    <2>3. QED
      BY <2>1, <2>2
  <1>8. ASSUME NEW k \in Logins, Counted(k)', login'[k].user \notin raced'
        PROVE  ~Overlaps(k)' /\ Cardinality(Spared(k)') < MAX_CONCURRENT_SESSIONS
    <2>1. \A j \in Logins : Counted(j)' => Counted(j) /\ j # l /\ login'[j] = login[j]
      BY <1>2 DEF Counted, LoginAt, TypeOK
    <2>2. Counted(k) /\ login[k].user \notin raced /\ k # l /\ login'[k] = login[k]
      BY <1>2, <1>8, <2>1
    <2>3. ~Overlaps(k)
      BY <2>2 DEF LimitInv
    <2>4. login[k].user # u
      BY <1>2, <1>u, <2>2, <2>3 DEF Overlaps
    <2>5. ~Overlaps(k)'
      BY <2>1, <2>2, <2>3 DEF Overlaps
    <2>6. Spared(k)' \subseteq Spared(k)
      BY <1>4, <2>2, <2>4 DEF Spared, LoginAt
    <2>7. QED
      BY <2>2, <2>5, <2>6, RoomIsKept
  <1>9. SerialLoginsRespectLimit'
    BY <1>2, <1>7 DEF SerialLoginsRespectLimit
  <1>10. QED
    BY <1>6, <1>8, <1>9 DEF LimitInv

LEMMA NextLimit == TypeOK /\ TypeOK' /\ IssuedOnly /\ LimitInv /\ [Next]_vars => LimitInv'
  <1> SUFFICES ASSUME TypeOK, TypeOK', IssuedOnly, LimitInv, [Next]_vars PROVE LimitInv'
    OBVIOUS
  <1> USE DEF dbVars, historyVars
  <1>0. now \in Nat
    BY DEF TypeOK
  <1>1. ASSUME NEW l \in Logins, LoginStep(l)
        PROVE  LimitInv'
    <2>1. ASSUME NEW u \in Users, NEW print \in Fingerprint, BeginLogin(l, u, print)
          PROVE  LimitInv'
      <3>1. /\ \A k \in Logins : login'[k] = login[k] \/ login'[k].pc = "count"
            /\ UNCHANGED <<now, row, issued, raced>>
        BY <2>1 DEF BeginLogin, TypeOK
      <3>2. \A w : ActiveRows(w)' \subseteq ActiveRows(w)
        BY <1>0, <3>1, DeletionsShrink
      <3>3. QED
        BY <3>1, <3>2, QuietLogins
    <2>2. CASE LoginFails(l)
      <3>1. /\ \A k \in Logins : login'[k] = login[k] \/ login'[k] = NoLogin
            /\ UNCHANGED <<now, row, issued, raced>>
        BY <2>2 DEF LoginFails, EndLogin, TypeOK
      <3>2. \A w : ActiveRows(w)' \subseteq ActiveRows(w)
        BY <1>0, <3>1, DeletionsShrink
      <3>3. QED
        BY <3>1, <3>2, QuietLogins
    <2>3. QED
      BY <1>1, <2>1, <2>2, CountActiveLimit, EvictLimit, InsertLimit DEF LoginStep
  <1>2. CASE UNCHANGED <<login, issued, raced>> /\ \A w : ActiveRows(w)' \subseteq ActiveRows(w)
    BY <1>2, QuietLogins
  <1>3. ASSUME NEW c \in Calls, Touch(c)
        PROVE  LimitInv'
    <2>1. UNCHANGED <<now, login, issued, raced>>
      BY <1>3 DEF Touch
    <2>2. \A s \in Sessions : row'[s] # NoRow =>
             row[s] # NoRow /\ row'[s].user = row[s].user /\ row'[s].expiresAt = row[s].expiresAt
      <3>1. CASE UNCHANGED row
        BY <3>1
      <3>2. CASE /\ row[call[c].s] # NoRow
                 /\ row' = [row EXCEPT ![call[c].s].lastActive = call[c].at]
        <4>1. call[c].s \in Sessions /\ row[call[c].s] \in Row
          BY <1>3, <3>2, BoundsAreNatural DEF Touch, CallAt, TypeOK
        <4>2. QED
          BY <3>2, <4>1 DEF TypeOK, Row
      <3>3. QED
        BY <1>3, <3>1, <3>2 DEF Touch
    <2>3. \A w : ActiveRows(w)' \subseteq ActiveRows(w)
      BY <2>1, <2>2 DEF ActiveRows, Expired
    <2>4. QED
      BY <1>2, <2>1, <2>3
  <1>4. ASSUME UNCHANGED <<login, issued, raced>>, now' \in Nat, now <= now',
               (\E S : DeleteRows(S)) \/ UNCHANGED row
        PROVE  LimitInv'
    BY <1>2, <1>4, DeletionsShrink
  <1>5. ASSUME NEW c \in Calls, CallStep(c)
        PROVE  LimitInv'
    BY <1>0, <1>3, <1>4, <1>5
       DEF CallStep, Begin, CacheHit, CacheMiss, DbRead, Check, Drop, CacheFill, RevokeRow, RevokeFlush
  <1>6. ASSUME NEW u \in Users, NEW kept, BulkDelete(u, kept)
        PROVE  LimitInv'
    BY <1>0, <1>4, <1>6 DEF BulkDelete
  <1>7. CASE DeleteExpired \/ DeleteInactive \/ CleanupScript
    BY <1>0, <1>4, <1>7 DEF DeleteExpired, DeleteInactive, CleanupScript
  <1>8. CASE Tick
    BY <1>0, <1>4, <1>8 DEF Tick
  <1>9. CASE UNCHANGED vars
    BY <1>0, <1>4, <1>9 DEF vars
  <1>10. QED
    BY <1>1, <1>5, <1>6, <1>7, <1>8, <1>9 DEF Next

\* A user whose logins never overlap, and none of whose evictions fails, never has more
\* unexpired sessions than the limit, for any limit and any numbers of users and sessions.
THEOREM SerialLoginsAreLimited == Spec => []SerialLoginsRespectLimit
  <1>1. StalenessInv => IssuedOnly
    BY DEF StalenessInv
  <1>2. LimitInv => SerialLoginsRespectLimit
    BY DEF LimitInv
  <1>3. QED
    BY <1>1, <1>2, InitLimit, NextLimit, SessionsTyped, StalenessInvariant, PTL DEF Spec

=============================================================================
