---------------------------- MODULE AuditTrailProofs ----------------------------
(* Theorems about AuditTrail: typing, and what the hash chain is after any   *)
(* number of overlapping, failed and retired entries.                        *)
EXTENDS AuditTrail, FiniteSetTheorems, WellFoundedInduction, TLAPS

-----------------------------------------------------------------------------
(* Typing *)

LEMMA InitType == Init => TypeOK
  <1> SUFFICES ASSUME Init PROVE TypeOK
    OBVIOUS
  <1>1. now \in Nat /\ head \in ChainHead \cup {Null} /\ rows \in SUBSET Writers
    BY DEF Init
  <1>2. /\ call \in [Writers -> Call \cup {Null}]
        /\ export \in [Exports -> Export \cup {Null}]
        /\ sent \in [Exports -> [Writers -> Nat]]
        /\ headAt \in [Writers -> Nat]
    BY DEF Init
  <1>3. faults \in 0..MaxFaults
    BY Bounds DEF Init
  <1>4. /\ before \in [Writers -> SUBSET Writers]
        /\ wanted \in [Exports -> SUBSET Writers]
        /\ removed \in [Exports -> SUBSET Writers]
        /\ added \in [Exports -> SUBSET Writers]
    BY DEF Init
  <1>5. headLost \in BOOLEAN /\ blind \in SUBSET Writers /\ resent \in SUBSET Writers
    BY DEF Init
  <1>6. QED
    BY <1>1, <1>2, <1>3, <1>4, <1>5 DEF TypeOK

LEMMA EntryHashType ==
    ASSUME TypeOK, NEW w \in Writers, call[w] # Null
    PROVE  /\ call[w] \in Call
           /\ EntryHash(w) \in Hashes
           /\ EntryHash(w) # GENESIS /\ EntryHash(w) # call[w].prev
  <1>1. call[w] \in Call
    BY DEF TypeOK
  <1>2. call[w].prev \in Seq(Actions \X Nat) /\ <<call[w].action, call[w].stamp>> \in Actions \X Nat
    BY <1>1 DEF Call, Hashes
  <1>3. ASSUME NEW s \in Seq(Actions \X Nat), NEW e \in Actions \X Nat
        PROVE  /\ Append(s, e) \in Seq(Actions \X Nat)
               /\ Append(s, e) # <<>> /\ Append(s, e) # s
    <2>1. Len(Append(s, e)) = Len(s) + 1 /\ Len(s) \in Nat /\ Len(<<>>) = 0
      OBVIOUS
    <2>2. QED
      BY <2>1
  <1>4. QED
    BY <1>1, <1>2, <1>3 DEF EntryHash, Hash, Hashes, GENESIS

LEMMA FaultType ==
    ASSUME TypeOK, Fault
    PROVE  faults' \in 0..MaxFaults
  BY Bounds DEF TypeOK, Fault

LEMMA BeginType ==
    ASSUME TypeOK, NEW w \in Writers, NEW action \in Actions, NEW prev \in Hashes,
           Begin(w, action, prev), faults' \in 0..MaxFaults, blind' \in SUBSET Writers
    PROVE  TypeOK'
  <1>1. [pc |-> "create", action |-> action, stamp |-> now, prev |-> prev, timestamp |-> 0] \in Call
    BY DEF TypeOK, Call
  <1>2. QED
    BY <1>1 DEF TypeOK, Begin

LEMMA LogStepType ==
    ASSUME TypeOK, NEW w \in Writers, LogStep(w)
    PROVE  TypeOK'
  <1>1. CASE ReadHead(w)
    <2>1. (IF head = Null THEN GENESIS ELSE head.hash) \in Hashes
      BY DEF TypeOK, ChainHead, GENESIS, Hashes
    <2>2. QED
      BY <1>1, <2>1, BeginType DEF ReadHead, TypeOK
  <1>2. CASE ReadHeadFails(w)
    <2>1. GENESIS \in Hashes
      BY DEF GENESIS, Hashes
    <2>2. QED
      BY <1>2, <2>1, BeginType, FaultType DEF ReadHeadFails, TypeOK
  <1>3. CASE CreateRow(w)
    <2>1. PICK t \in call[w].stamp..now :
             /\ call' = [call EXCEPT ![w].pc = "setHead", ![w].timestamp = t]
             /\ added' = [x \in Exports |->
                    IF Paging(x) /\ export[x].from <= t /\ t <= export[x].to
                    THEN added[x] \cup {w} ELSE added[x]]
      BY <1>3 DEF CreateRow
    <2>2. call[w] \in Call
      BY <1>3, EntryHashType DEF CreateRow, At
    <2>3. t \in Nat
      BY <2>2 DEF TypeOK, Call
    <2>4. [call[w] EXCEPT !.pc = "setHead", !.timestamp = t] \in Call
      BY <2>2, <2>3 DEF Call
    <2>5. call' \in [Writers -> Call \cup {Null}]
      BY <2>1, <2>4 DEF TypeOK
    <2>6. added' \in [Exports -> SUBSET Writers]
      BY <2>1 DEF TypeOK
    <2>7. QED
      BY <1>3, <2>5, <2>6 DEF CreateRow, TypeOK
  <1>4. ASSUME NEW pc \in {"done", "unset", "lost"}, call[w] # Null,
               call' = [call EXCEPT ![w].pc = pc]
        PROVE  call' \in [Writers -> Call \cup {Null}]
    <2>1. [call[w] EXCEPT !.pc = pc] \in Call
      BY <1>4, EntryHashType DEF Call
    <2>2. QED
      BY <1>4, <2>1 DEF TypeOK
  <1>5. CASE CreateFails(w)
    BY <1>4, <1>5, FaultType DEF CreateFails, At, TypeOK, history
  <1>6. CASE WriteHead(w)
    <2>1. head' \in ChainHead
      BY <1>6, EntryHashType, Durations DEF WriteHead, At, ChainHead, TypeOK
    <2>2. QED
      BY <1>4, <1>6, <2>1 DEF WriteHead, At, TypeOK
  <1>7. CASE WriteHeadFails(w)
    BY <1>4, <1>7, FaultType DEF WriteHeadFails, At, TypeOK, history
  <1>8. CASE ResendHead(w)
    <2>1. head' \in ChainHead
      BY <1>8, EntryHashType, Durations DEF ResendHead, At, ChainHead, TypeOK
    <2>2. QED
      BY <1>8, <2>1, FaultType DEF ResendHead, TypeOK
  <1>9. QED
    BY <1>1, <1>2, <1>3, <1>5, <1>6, <1>7, <1>8 DEF LogStep

LEMMA ExportStepType ==
    ASSUME TypeOK, NEW x \in Exports, ExportStep(x)
    PROVE  TypeOK'
  <1>1. CASE BeginExport(x)
    <2>1. PICK from \in {0, now}, to \in {now, MaxTime} :
             /\ export' = [export EXCEPT ![x] = [pc |-> "page", from |-> from, to |-> to, skip |-> 0]]
             /\ wanted' = [wanted EXCEPT ![x] =
                    {w \in rows : from <= call[w].timestamp /\ call[w].timestamp <= to}]
      BY <1>1 DEF BeginExport
    <2>2. [pc |-> "page", from |-> from, to |-> to, skip |-> 0] \in Export
      BY Bounds DEF TypeOK, Export
    <2>3. QED
      BY <1>1, <2>1, <2>2 DEF BeginExport, TypeOK
  <1>2. CASE Page(x)
    <2>1. export[x] \in Export
      BY <1>2 DEF Page, Paging, TypeOK
    <2> DEFINE all == Listed(x)
    <2>2. PICK skipped \in SUBSET all : \E batch \in SUBSET (all \ skipped) :
             /\ sent' = [sent EXCEPT ![x] =
                    [w \in Writers |-> IF w \in batch THEN sent[x][w] + 1 ELSE sent[x][w]]]
             /\ export' = [export EXCEPT
                    ![x].skip = export[x].skip + Cardinality(batch),
                    ![x].pc = IF Cardinality(batch) < BATCH_SIZE THEN "closed" ELSE "page"]
      BY <1>2 DEF Page
    <2>3. PICK batch \in SUBSET rows :
             /\ sent' = [sent EXCEPT ![x] =
                    [w \in Writers |-> IF w \in batch THEN sent[x][w] + 1 ELSE sent[x][w]]]
             /\ export' = [export EXCEPT
                    ![x].skip = export[x].skip + Cardinality(batch),
                    ![x].pc = IF Cardinality(batch) < BATCH_SIZE THEN "closed" ELSE "page"]
      BY <2>2 DEF Listed
    <2>4. Cardinality(batch) \in Nat
      BY <2>3, WritersAreFinite, FS_Subset, FS_CardinalityType DEF TypeOK
    <2>5. [export[x] EXCEPT !.skip = export[x].skip + Cardinality(batch),
                            !.pc = IF Cardinality(batch) < BATCH_SIZE THEN "closed" ELSE "page"]
             \in Export
      <3>1. ASSUME NEW n \in Nat, NEW pc \in {"page", "closed"}
            PROVE  [export[x] EXCEPT !.skip = n, !.pc = pc] \in Export
        BY <2>1 DEF Export
      <3>2. export[x].skip + Cardinality(batch) \in Nat
        BY <2>1, <2>4 DEF Export
      <3>3. QED
        BY <3>1, <3>2
    <2>6. export' \in [Exports -> Export \cup {Null}]
      <3>1. export \in [Exports -> Export \cup {Null}]
        BY DEF TypeOK
      <3>2. \A y \in Exports \ {x} : export'[y] = export[y]
        BY <2>3, <3>1
      <3>3. export'[x] = [export[x] EXCEPT !.skip = export[x].skip + Cardinality(batch),
                            !.pc = IF Cardinality(batch) < BATCH_SIZE THEN "closed" ELSE "page"]
        BY <2>3, <3>1
      <3>4. QED
        BY <2>3, <2>5, <3>1, <3>2, <3>3
    <2>7. sent' \in [Exports -> [Writers -> Nat]]
      <3>1. [w \in Writers |-> IF w \in batch THEN sent[x][w] + 1 ELSE sent[x][w]] \in [Writers -> Nat]
        BY DEF TypeOK
      <3>2. QED
        BY <2>3, <3>1 DEF TypeOK
    <2>8. QED
      BY <1>2, <2>6, <2>7 DEF Page, TypeOK, history
  <1>3. CASE PageFails(x)
    <2>1. export[x] \in Export
      BY <1>3 DEF PageFails, Paging, TypeOK
    <2>2. [export[x] EXCEPT !.pc = "broken"] \in Export
      BY <2>1 DEF Export
    <2>3. export' \in [Exports -> Export \cup {Null}]
      BY <1>3, <2>2 DEF PageFails, TypeOK
    <2>4. QED
      BY <1>3, <2>3, FaultType DEF PageFails, TypeOK, history
  <1>4. QED
    BY <1>1, <1>2, <1>3 DEF ExportStep

LEMMA NextType ==
    ASSUME TypeOK, [Next]_vars
    PROVE  TypeOK'
  <1>1. ASSUME NEW days \in Retentions, Retire(days)
        PROVE  TypeOK'
    <2>1. PICK old \in SUBSET rows :
             /\ rows' = rows \ old
             /\ removed' = [x \in Exports |->
                    IF Paging(x) THEN removed[x] \cup {w \in old : InRange(x, w)} ELSE removed[x]]
      BY <1>1 DEF Retire
    <2>2. QED
      BY <1>1, <2>1 DEF Retire, TypeOK
  <1>2. CASE LoseHead
    BY <1>2, FaultType DEF LoseHead, TypeOK
  <1>3. CASE Tick
    BY <1>3 DEF Tick, TypeOK, history
  <1>4. CASE UNCHANGED vars
    BY <1>4 DEF vars, history, TypeOK
  <1>5. QED
    BY <1>1, <1>2, <1>3, <1>4, LogStepType, ExportStepType DEF Next

\* Every behaviour is well typed: heads, entries, exports and what they have sent.
THEOREM AuditTyped == Spec => []TypeOK
  BY InitType, NextType, PTL DEF Spec

-----------------------------------------------------------------------------
(* What no step changes of a call *)

Kept(v) ==
    /\ call'[v] # Null
    /\ call'[v].prev = call[v].prev /\ call'[v].stamp = call[v].stamp
    /\ call'[v].action = call[v].action
    /\ before'[v] = before[v]
    /\ v \in Created => v \in Created' /\ call'[v].timestamp = call[v].timestamp
    /\ At(v, "done") => At(v, "done")' /\ headAt'[v] = headAt[v]
    /\ v \in blind => v \in blind'
    /\ v \in resent => v \in resent'

LEMMA LogStepKeeps ==
    ASSUME TypeOK, NEW w \in Writers, LogStep(w), NEW v \in Writers, call[v] # Null
    PROVE  Kept(v) /\ headLost' = headLost
  <1> USE DEF Kept, At, Created
  <1>1. ASSUME NEW action \in Actions, NEW prev, Begin(w, action, prev)
        PROVE  call'[v] = call[v] /\ before'[v] = before[v] /\ headAt' = headAt
               /\ headLost' = headLost /\ resent' = resent
    BY <1>1 DEF Begin, TypeOK
  <1>2. CASE ReadHead(w)
    BY <1>1, <1>2 DEF ReadHead
  <1>3. CASE ReadHeadFails(w)
    BY <1>1, <1>3 DEF ReadHeadFails
  <1>4. call[v] \in Call
    BY EntryHashType
  <1>5. CASE CreateRow(w)
    <2>1. PICK t \in call[w].stamp..now :
             call' = [call EXCEPT ![w].pc = "setHead", ![w].timestamp = t]
      BY <1>5 DEF CreateRow
    <2>2. call[w] \in Call /\ call[w].pc = "create"
      BY <1>5, EntryHashType DEF CreateRow
    <2>3. t \in Nat
      BY <2>2 DEF Call, TypeOK
    <2>4. call'[w] = [call[w] EXCEPT !.pc = "setHead", !.timestamp = t]
      BY <2>1 DEF TypeOK
    <2>5. call'[w] \in Call
      BY <2>2, <2>3, <2>4 DEF Call
    <2>6. CASE v = w
      BY <1>5, <2>2, <2>4, <2>5, <2>6, NullIsNone DEF CreateRow, Call
    <2>7. CASE v # w
      BY <1>5, <2>1, <2>7 DEF CreateRow, TypeOK
    <2>8. QED
      BY <2>6, <2>7
  <1>6. CASE CreateFails(w)
    BY <1>4, <1>6, NullIsNone DEF CreateFails, Call, TypeOK, history
  <1>7. CASE WriteHead(w)
    BY <1>4, <1>7, NullIsNone DEF WriteHead, Call, TypeOK
  <1>8. CASE WriteHeadFails(w)
    BY <1>4, <1>8, NullIsNone DEF WriteHeadFails, Call, TypeOK, history
  <1>9. CASE ResendHead(w)
    BY <1>9 DEF ResendHead
  <1>10. QED
    BY <1>2, <1>3, <1>5, <1>6, <1>7, <1>8, <1>9 DEF LogStep

LEMMA CallsGoOn ==
    ASSUME TypeOK, [Next]_vars, NEW v \in Writers, call[v] # Null
    PROVE  Kept(v) /\ EntryHash(v)' = EntryHash(v) /\ (headLost => headLost')
  <1>1. ASSUME UNCHANGED <<call, before, headAt, blind, resent>>
        PROVE  Kept(v)
    BY <1>1 DEF Kept, At, Created
  <1>2. ASSUME NEW x \in Exports, ExportStep(x)
        PROVE  UNCHANGED <<call, before, headAt, blind, headLost, resent>>
    BY <1>2 DEF ExportStep, BeginExport, Page, PageFails, history
  <1>3. ASSUME NEW days \in Retentions, Retire(days)
        PROVE  UNCHANGED <<call, before, headAt, blind, headLost, resent>>
    BY <1>3 DEF Retire
  <1>4. CASE LoseHead
    BY <1>1, <1>4 DEF LoseHead, Kept, EntryHash
  <1>5. CASE Tick \/ UNCHANGED vars
    BY <1>1, <1>5 DEF Tick, history, vars, Kept, EntryHash
  <1>6. ASSUME NEW w \in Writers, LogStep(w)
        PROVE  Kept(v) /\ headLost' = headLost
    BY <1>6, LogStepKeeps
  <1>7. Kept(v) /\ (headLost => headLost')
    BY <1>1, <1>2, <1>3, <1>4, <1>5, <1>6 DEF Next
  <1>8. QED
    BY <1>7 DEF Kept, EntryHash

-----------------------------------------------------------------------------
(* The chain.  An entry continues one whose call has written the head, which *)
(* is older and whose row goes first; the head is the hash of such an entry. *)

Precedes(v, w) ==
    /\ At(v, "done")
    /\ EntryHash(v) = call[w].prev
    /\ call[v].timestamp <= call[w].stamp
    /\ w \in Created /\ w \notin rows => v \notin rows

Clocks ==
    /\ \A w \in Writers : call[w] # Null => call[w].stamp <= now
    /\ \A w \in Created : call[w].stamp <= call[w].timestamp /\ call[w].timestamp <= now

ChainInv ==
    /\ Clocks
    /\ head # Null => \E v \in Writers : At(v, "done") /\ EntryHash(v) = head.hash
    /\ \A w \in Writers : call[w] # Null /\ call[w].prev # GENESIS =>
           \E v \in Writers : Precedes(v, w)

LEMMA OneCallMoves ==
    ASSUME TypeOK, NEW u \in Writers, LogStep(u)
    PROVE  now' = now /\ \A w \in Writers \ {u} : call'[w] = call[w]
  BY DEF LogStep, ReadHead, ReadHeadFails, Begin, CreateRow, CreateFails, WriteHead,
         WriteHeadFails, ResendHead, TypeOK

LEMMA OnlyCreateRowCreates ==
    ASSUME TypeOK, NEW u \in Writers, LogStep(u), ~CreateRow(u)
    PROVE  Created' = Created /\ rows' = rows
  <1> SUFFICES rows' = rows /\ (u \in Created' <=> u \in Created)
    BY OneCallMoves DEF Created, At
  <1>1. CASE ReadHead(u) \/ ReadHeadFails(u)
    BY <1>1 DEF ReadHead, ReadHeadFails, Begin, Created, At, TypeOK
  <1>2. CASE CreateFails(u)
    BY <1>2, EntryHashType DEF CreateFails, Created, At, TypeOK, Call
  <1>3. ASSUME call[u] # Null, NEW pc \in {"done", "unset"}, call' = [call EXCEPT ![u].pc = pc]
        PROVE  call'[u] # Null /\ call'[u].pc = pc
    <2>1. call[u] \in Call /\ call'[u] = [call[u] EXCEPT !.pc = pc]
      BY <1>3, EntryHashType DEF TypeOK
    <2>2. [call[u] EXCEPT !.pc = pc] \in Call /\ [call[u] EXCEPT !.pc = pc].pc = pc
      BY <2>1 DEF Call
    <2>3. QED
      BY <2>1, <2>2, NullIsNone
  <1>4. CASE WriteHead(u) \/ WriteHeadFails(u)
    BY <1>3, <1>4 DEF WriteHead, WriteHeadFails, Created, At
  <1>5. CASE ResendHead(u)
    BY <1>5 DEF ResendHead, Created, At
  <1>6. QED
    BY <1>1, <1>2, <1>4, <1>5 DEF LogStep

LEMMA ClocksGoOn ==
    ASSUME TypeOK, Clocks, [Next]_vars
    PROVE  Clocks'
  <1>1. now' >= now /\ now' \in Nat /\ now \in Nat
    <2>1. now' = now \/ now' = now + 1
      BY OneCallMoves DEF Next, ExportStep, BeginExport, Page, PageFails, Retire, LoseHead, Tick, vars
    <2>2. now \in Nat
      BY DEF TypeOK
    <2>3. QED
      BY <2>1, <2>2
  <1>2. ASSUME NEW w \in Writers, call'[w] # Null, call[w] = Null
        PROVE  call'[w].stamp = now /\ call'[w].pc = "create" /\ now' = now
    <2>1. ASSUME NEW action, NEW prev, NEW u \in Writers, Begin(u, action, prev)
          PROVE  call'[w].stamp = now /\ call'[w].pc = "create" /\ now' = now
      BY <1>2, <2>1 DEF Begin, TypeOK
    <2>2. ASSUME NEW u \in Writers, call[u] # Null, LogStep(u)
          PROVE  call'[w] = call[w]
      BY <1>2, <2>2 DEF LogStep, ReadHead, ReadHeadFails, Begin, CreateRow, CreateFails, WriteHead,
                        WriteHeadFails, ResendHead, TypeOK
    <2>3. ASSUME NEW u \in Writers, LogStep(u)
          PROVE  call'[w].stamp = now /\ call'[w].pc = "create" /\ now' = now
      BY <1>2, <2>1, <2>2, <2>3 DEF LogStep, ReadHead, ReadHeadFails, CreateRow, CreateFails,
                                    WriteHead, WriteHeadFails, ResendHead, At
    <2>4. (\E u \in Writers : LogStep(u)) \/ call' = call
      BY DEF Next, ExportStep, BeginExport, Page, PageFails, Retire, LoseHead, Tick, vars
    <2>5. QED
      BY <1>2, <2>3, <2>4
  <1>3. ASSUME NEW w \in Writers, call[w] # Null
        PROVE  call'[w].stamp <= now'
    <2>1. call[w].stamp \in Nat /\ call'[w].stamp = call[w].stamp
      BY <1>3, CallsGoOn, EntryHashType DEF Kept, Call
    <2>2. QED
      BY <1>1, <1>3, <2>1 DEF Clocks
  <1>4. ASSUME NEW w \in Created'
        PROVE  call'[w].stamp <= call'[w].timestamp /\ call'[w].timestamp <= now'
    <2>1. w \in Writers /\ call[w] # Null
      BY <1>2, <1>4 DEF Created, At
    <2>2. call[w] \in Call /\ call[w].stamp \in Nat /\ call[w].timestamp \in Nat
      BY <2>1, EntryHashType DEF Call
    <2>3. CASE w \in Created
      BY <1>1, <2>1, <2>2, <2>3, CallsGoOn DEF Kept, Clocks
    <2>4. CASE w \notin Created
      <3>1. ASSUME NEW u \in Writers, LogStep(u)
            PROVE  u = w /\ CreateRow(w)
        BY <1>4, <2>1, <2>4, <3>1, OnlyCreateRowCreates, OneCallMoves DEF Created, At
      <3>2. (\E u \in Writers : LogStep(u)) \/ call' = call
        BY DEF Next, ExportStep, BeginExport, Page, PageFails, Retire, LoseHead, Tick, vars
      <3>3. CreateRow(w)
        BY <1>4, <2>4, <3>1, <3>2 DEF Created, At
      <3>4. PICK t \in call[w].stamp..now :
               call' = [call EXCEPT ![w].pc = "setHead", ![w].timestamp = t]
        BY <3>3 DEF CreateRow
      <3>5. call'[w].timestamp = t /\ call'[w].stamp = call[w].stamp /\ now' = now
        BY <2>1, <2>2, <3>3, <3>4 DEF CreateRow, TypeOK, Call
      <3>6. QED
        BY <1>1, <2>2, <3>4, <3>5
    <2>5. QED
      BY <2>3, <2>4
  <1>5. QED
    BY <1>1, <1>2, <1>3, <1>4 DEF Clocks

LEMMA PrecedenceGoesOn ==
    ASSUME TypeOK, Clocks, [Next]_vars, NEW v \in Writers, NEW w \in Writers, call[w] # Null,
           Precedes(v, w)
    PROVE  Precedes(v, w)'
  <1>1. call[v] # Null /\ At(v, "done") /\ v \in Created
    BY DEF Precedes, At, Created
  <1>2. Kept(v) /\ EntryHash(v)' = EntryHash(v) /\ Kept(w)
    BY <1>1, CallsGoOn
  <1>3. ASSUME w \in Created', w \notin rows'
        PROVE  v \notin rows'
    <2>1. ASSUME NEW u \in Writers, CreateRow(u)
          PROVE  v \notin rows'
      <3>1. u # v /\ u # w
        BY <1>1, <1>3, <2>1 DEF CreateRow, At
      <3>2. w \in Created
        BY <1>3, <2>1, <3>1 DEF CreateRow, Created, At, TypeOK
      <3>3. QED
        BY <1>3, <2>1, <3>1, <3>2 DEF CreateRow, Precedes
    <2>2. ASSUME NEW days \in Retentions, Retire(days)
          PROVE  v \notin rows'
      <3>1. w \in Created
        BY <1>3, <2>2 DEF Retire, Created, At
      <3>2. rows' = rows \ {x \in rows : call[x].timestamp < now - days}
        BY <2>2 DEF Retire
      <3>3. call[v].timestamp <= call[w].timestamp
        BY <1>1, <3>1, EntryHashType DEF Clocks, Precedes, Call
      <3>4. days \in Nat /\ now \in Nat /\ call[v].timestamp \in Nat /\ call[w].timestamp \in Nat
        BY <1>1, EntryHashType, Durations DEF Call, TypeOK
      <3>5. QED
        BY <1>3, <3>1, <3>2, <3>3, <3>4 DEF Precedes
    <2>3. ASSUME rows' = rows, w \in Created
          PROVE  v \notin rows'
      BY <1>3, <2>3 DEF Precedes
    <2>4. ASSUME NEW u \in Writers, LogStep(u), ~CreateRow(u)
          PROVE  rows' = rows /\ w \in Created
      BY <1>3, <2>4, OnlyCreateRowCreates
    <2>5. (\E u \in Writers : LogStep(u)) \/ (\E days \in Retentions : Retire(days))
             \/ (rows' = rows /\ call' = call)
      BY DEF Next, ExportStep, BeginExport, Page, PageFails, LoseHead, Tick, vars
    <2>6. QED
      BY <1>3, <2>1, <2>2, <2>3, <2>4, <2>5 DEF Created, At
  <1>4. QED
    BY <1>1, <1>2, <1>3 DEF Precedes, Kept

LEMMA NextChain ==
    ASSUME TypeOK, ChainInv, [Next]_vars
    PROVE  ChainInv'
  <1>1. Clocks'
    BY ClocksGoOn DEF ChainInv
  <1>2. ASSUME head' # Null
        PROVE  \E v \in Writers : At(v, "done")' /\ EntryHash(v)' = head'.hash
    <2>1. CASE head' = head
      <3>1. PICK v \in Writers : At(v, "done") /\ EntryHash(v) = head.hash
        BY <1>2, <2>1 DEF ChainInv
      <3>2. Kept(v) /\ EntryHash(v)' = EntryHash(v)
        BY <3>1, CallsGoOn DEF At
      <3>3. QED
        BY <2>1, <3>1, <3>2 DEF Kept
    <2>2. ASSUME NEW w \in Writers, WriteHead(w)
          PROVE  At(w, "done")' /\ EntryHash(w)' = head'.hash
      <3>1. call[w] # Null /\ call[w] \in Call
        BY <2>2, EntryHashType DEF WriteHead, At
      <3>2. call'[w].pc = "done" /\ head'.hash = EntryHash(w)
        BY <2>2, <3>1 DEF WriteHead, TypeOK, Call
      <3>3. QED
        BY <3>1, <3>2, CallsGoOn DEF At, Kept
    <2>3. ASSUME NEW w \in Writers, ResendHead(w)
          PROVE  At(w, "done")' /\ EntryHash(w)' = head'.hash
      <3>1. At(w, "done") /\ call[w] # Null /\ head'.hash = EntryHash(w)
        BY <2>3 DEF ResendHead, At
      <3>2. QED
        BY <3>1, CallsGoOn DEF Kept
    <2>4. head' = head \/ head' = Null \/ \E w \in Writers : WriteHead(w) \/ ResendHead(w)
      BY DEF Next, LogStep, ReadHead, ReadHeadFails, Begin, CreateRow, CreateFails,
             WriteHeadFails, ExportStep, BeginExport, Page, PageFails, Retire, LoseHead, Tick, vars
    <2>5. QED
      BY <1>2, <2>1, <2>2, <2>3, <2>4
  <1>3. ASSUME NEW w \in Writers, call[w] # Null, call'[w].prev # GENESIS
        PROVE  \E v \in Writers : Precedes(v, w)'
    <2>1. call'[w].prev = call[w].prev
      BY <1>3, CallsGoOn DEF Kept
    <2>2. PICK v \in Writers : Precedes(v, w)
      BY <1>3, <2>1 DEF ChainInv
    <2>3. QED
      BY <1>3, <2>2, PrecedenceGoesOn DEF ChainInv
  <1>4. ASSUME NEW w \in Writers, call[w] = Null, call'[w] # Null, call'[w].prev # GENESIS
        PROVE  \E v \in Writers : Precedes(v, w)'
    <2>1. ReadHead(w)
      <3>1. ASSUME NEW u \in Writers, LogStep(u)
            PROVE  u = w /\ (ReadHead(w) \/ ReadHeadFails(w))
        BY <1>4, <3>1 DEF LogStep, ReadHead, ReadHeadFails, Begin, CreateRow, CreateFails,
                          WriteHead, WriteHeadFails, ResendHead, At, TypeOK
      <3>2. ~ReadHeadFails(w)
        BY <1>4 DEF ReadHeadFails, Begin, TypeOK
      <3>3. (\E u \in Writers : LogStep(u)) \/ call' = call
        BY DEF Next, ExportStep, BeginExport, Page, PageFails, Retire, LoseHead, Tick, vars
      <3>4. QED
        BY <1>4, <3>1, <3>2, <3>3
    <2>2. /\ head # Null /\ call'[w].prev = head.hash
          /\ call'[w].stamp = now /\ call'[w].pc = "create"
      BY <1>4, <2>1 DEF ReadHead, Begin, TypeOK
    <2>3. PICK v \in Writers : At(v, "done") /\ EntryHash(v) = head.hash
      BY <2>2 DEF ChainInv
    <2>4. Kept(v) /\ EntryHash(v)' = EntryHash(v) /\ v \in Created
      BY <2>3, CallsGoOn DEF At, Created
    <2>5. call'[v].timestamp <= now
      BY <2>3, <2>4 DEF Kept, ChainInv, Clocks
    <2>6. w \notin Created'
      BY <2>2 DEF Created, At
    <2>7. QED
      BY <2>2, <2>3, <2>4, <2>5, <2>6 DEF Precedes, Kept
  <1>5. QED
    BY <1>1, <1>2, <1>3, <1>4 DEF ChainInv

\* Every entry continues GENESIS or an older entry whose call has written the head, and the head
\* is the hash of such an entry.
THEOREM ChainInvariant == Spec => []ChainInv
  <1>1. Init => ChainInv
    BY DEF Init, ChainInv, Clocks, Created, At
  <1>2. QED
    BY <1>1, NextChain, AuditTyped, PTL DEF Spec

\* What retention leaves of the trail has lost its old end only, and every other entry continues
\* one that exists, for any number of writers, failures and retention jobs.
THEOREM ChainRooted == Spec => []ChainIsRooted
  <1>1. TypeOK /\ ChainInv => ChainIsRooted
    <2> SUFFICES ASSUME TypeOK, ChainInv, NEW w \in Created, call[w].prev # GENESIS
                 PROVE  \E v \in WithHash(call[w].prev) :
                            /\ call[v].timestamp <= call[w].timestamp
                            /\ w \notin rows => v \notin rows
      BY DEF ChainIsRooted
    <2>1. w \in Writers /\ call[w] # Null
      BY DEF Created, At
    <2>2. PICK v \in Writers : Precedes(v, w)
      BY <2>1 DEF ChainInv
    <2>3. v \in WithHash(call[w].prev) /\ v \in Created /\ call[v] # Null
      BY <2>2 DEF Precedes, WithHash, Created, At
    <2>4. call[v].timestamp <= call[w].timestamp
      BY <2>1, <2>2, <2>3, EntryHashType DEF Precedes, ChainInv, Clocks, Call
    <2>5. QED
      BY <2>2, <2>3, <2>4 DEF Precedes
  <1>2. QED
    BY <1>1, ChainInvariant, AuditTyped, PTL

-----------------------------------------------------------------------------
(* Where the chain starts afresh, and where it forks *)

LEMMA BeforeIsDone ==
    ASSUME TypeOK, [Next]_vars, NEW w \in Writers, call[w] = Null, call'[w] # Null
    PROVE  /\ ReadHead(w) \/ ReadHeadFails(w)
           /\ \A v \in before'[w] : At(v, "done")
           /\ call'[w].stamp = now
           /\ UNCHANGED <<head, headLost, headAt, now>>
           /\ \A v \in Writers \ {w} : call'[v] = call[v] /\ before'[v] = before[v]
  <1>1. ASSUME NEW u \in Writers, LogStep(u)
        PROVE  u = w /\ (ReadHead(w) \/ ReadHeadFails(w))
    BY <1>1, OneCallMoves DEF LogStep, CreateRow, CreateFails, WriteHead, WriteHeadFails, ResendHead, At
  <1>2. (\E u \in Writers : LogStep(u)) \/ call' = call
    BY DEF Next, ExportStep, BeginExport, Page, PageFails, Retire, LoseHead, Tick, vars
  <1>3. ReadHead(w) \/ ReadHeadFails(w)
    BY <1>1, <1>2
  <1>4. QED
    BY <1>3 DEF ReadHead, ReadHeadFails, Begin, TypeOK

LEMMA OnlyWriteHeadIsDone ==
    ASSUME TypeOK, [Next]_vars, ~\E w \in Writers : WriteHead(w), NEW v \in Writers,
           At(v, "done")'
    PROVE  At(v, "done")
  <1>1. ASSUME NEW u \in Writers, LogStep(u)
        PROVE  At(v, "done")
    <2>1. CASE ReadHead(u) \/ ReadHeadFails(u)
      BY <2>1 DEF ReadHead, ReadHeadFails, Begin, At, TypeOK
    <2>2. ASSUME call'[u].pc # "done"
          PROVE  At(v, "done")
      BY <1>1, <2>2, OneCallMoves DEF At
    <2>3. ASSUME call[u] # Null, NEW pc \in {"unset", "lost"}, call' = [call EXCEPT ![u].pc = pc]
          PROVE  call'[u].pc = pc
      BY <2>3, EntryHashType DEF TypeOK, Call
    <2>4. CASE CreateRow(u)
      <3>1. PICK t \in call[u].stamp..now :
               call' = [call EXCEPT ![u].pc = "setHead", ![u].timestamp = t]
        BY <2>4 DEF CreateRow
      <3>2. call[u] \in Call
        BY <2>4, EntryHashType DEF CreateRow, At
      <3>3. call'[u].pc = "setHead"
        BY <3>1, <3>2 DEF TypeOK, Call
      <3>4. QED
        BY <2>2, <3>3
    <2>5. CASE CreateFails(u) \/ WriteHeadFails(u)
      BY <2>2, <2>3, <2>5 DEF CreateFails, WriteHeadFails, At
    <2>6. CASE ResendHead(u)
      BY <2>6 DEF ResendHead, At
    <2>7. QED
      BY <1>1, <2>1, <2>4, <2>5, <2>6 DEF LogStep
  <1>2. (\E u \in Writers : LogStep(u)) \/ call' = call
    BY DEF Next, ExportStep, BeginExport, Page, PageFails, Retire, LoseHead, Tick, vars
  <1>3. QED
    BY <1>1, <1>2 DEF At

FreshInv ==
    /\ \A v \in Writers : At(v, "done") => headAt[v] <= now
    /\ head = Null => headLost \/ \A v \in Writers : At(v, "done") => headAt[v] + HEAD_TTL <= now
    /\ head # Null => \A v \in Writers : At(v, "done") => headAt[v] + HEAD_TTL <= head.until
    /\ \A w \in Writers : call[w] # Null => \A v \in before[w] : At(v, "done")
    /\ RestartsNeedQuiet

LEMMA NextFresh ==
    ASSUME TypeOK, ChainInv, FreshInv, [Next]_vars
    PROVE  FreshInv'
  <1>1. now \in Nat /\ HEAD_TTL \in Nat /\ headAt \in [Writers -> Nat]
    BY Durations DEF TypeOK
  <1>2. ASSUME NEW w \in Writers, WriteHead(w)
        PROVE  /\ now' = now /\ headAt'[w] = now
               /\ head' # Null /\ head'.until = now + HEAD_TTL
               /\ \A v \in Writers \ {w} : At(v, "done")' = At(v, "done") /\ headAt'[v] = headAt[v]
    <2>1. head' \in ChainHead
      BY <1>2, EntryHashType, <1>1 DEF WriteHead, At, ChainHead, TypeOK
    <2>2. QED
      BY <1>2, <2>1, NullIsNone DEF WriteHead, At, TypeOK
  <1>3. ASSUME ~\E w \in Writers : WriteHead(w), NEW v \in Writers, At(v, "done")'
        PROVE  At(v, "done") /\ headAt'[v] = headAt[v]
    BY <1>3, OnlyWriteHeadIsDone, CallsGoOn DEF Kept, At
  <1>4. now' = now \/ Tick
    BY OneCallMoves DEF Next, ExportStep, BeginExport, Page, PageFails, Retire, LoseHead, vars
  <1>5. now' >= now /\ now' \in Nat
    BY <1>1, <1>4 DEF Tick
  <1>6. \A v \in Writers : At(v, "done")' => headAt'[v] <= now'
    BY <1>1, <1>2, <1>3, <1>5 DEF FreshInv
  <1>7. \/ \E w \in Writers : WriteHead(w) \/ ResendHead(w)
        \/ LoseHead
        \/ Tick
        \/ UNCHANGED <<head, headLost, now>>
    BY DEF Next, LogStep, ReadHead, ReadHeadFails, Begin, CreateRow, CreateFails,
           WriteHeadFails, ExportStep, BeginExport, Page, PageFails, Retire, history, vars
  <1>8. /\ head' = Null => headLost' \/ \A v \in Writers : At(v, "done")' => headAt'[v] + HEAD_TTL <= now'
        /\ head' # Null => \A v \in Writers : At(v, "done")' => headAt'[v] + HEAD_TTL <= head'.until
    <2>1. CASE \E w \in Writers : WriteHead(w)
      BY <1>1, <1>2, <2>1 DEF FreshInv
    <2>2. CASE LoseHead
      BY <2>2 DEF LoseHead
    <2>3. ASSUME ~\E w \in Writers : WriteHead(w), Tick
          PROVE  /\ head' = Null => headLost' \/ \A v \in Writers : At(v, "done")' => headAt'[v] + HEAD_TTL <= now'
                 /\ head' # Null => \A v \in Writers : At(v, "done")' => headAt'[v] + HEAD_TTL <= head'.until
      <3>1. head # Null => head.until \in Nat
        BY DEF TypeOK, ChainHead
      <3>2. now' = now + 1 /\ headLost' = headLost
            /\ head' = IF head # Null /\ head.until <= now' THEN Null ELSE head
        BY <2>3 DEF Tick, history
      <3>3. QED
        BY <1>1, <1>3, <2>3, <3>1, <3>2 DEF FreshInv
    <2>4. ASSUME ~\E w \in Writers : WriteHead(w), UNCHANGED <<head, headLost, now>>
          PROVE  /\ head' = Null => headLost' \/ \A v \in Writers : At(v, "done")' => headAt'[v] + HEAD_TTL <= now'
                 /\ head' # Null => \A v \in Writers : At(v, "done")' => headAt'[v] + HEAD_TTL <= head'.until
      BY <1>3, <2>4 DEF FreshInv
    <2>5. ASSUME ~\E w \in Writers : WriteHead(w), NEW w \in Writers, ResendHead(w)
          PROVE  /\ head' # Null
                 /\ \A v \in Writers : At(v, "done")' => headAt'[v] + HEAD_TTL <= head'.until
      <3>1. now' = now
        BY <2>5 DEF ResendHead
      <3>2. head' \in ChainHead /\ head'.until = now + HEAD_TTL
        BY <2>5, EntryHashType, <1>1 DEF ResendHead, At, ChainHead
      <3>3. \A v \in Writers : At(v, "done")' => headAt'[v] <= now /\ headAt'[v] \in Nat
        BY <1>1, <1>3, <2>5, <3>1 DEF FreshInv
      <3>4. QED
        BY <1>1, <3>2, <3>3, NullIsNone
    <2>6. QED
      BY <1>7, <2>1, <2>2, <2>3, <2>4, <2>5
  <1>9. ASSUME NEW w \in Writers, call'[w] # Null
        PROVE  \A v \in before'[w] : At(v, "done") /\ At(v, "done")' /\ headAt'[v] = headAt[v]
    <2>1. before'[w] \subseteq Writers
      BY NextType DEF TypeOK
    <2>2. \A v \in before'[w] : At(v, "done")
      <3>1. CASE call[w] = Null
        BY <1>9, <3>1, BeforeIsDone
      <3>2. CASE call[w] # Null
        BY <3>2, CallsGoOn DEF Kept, FreshInv
      <3>3. QED
        BY <3>1, <3>2
    <2>3. QED
      BY <2>1, <2>2, CallsGoOn DEF Kept, At
  <1>10. ASSUME NEW w \in Writers, call'[w] # Null, call'[w].prev = GENESIS
         PROVE  \/ w \in blind' \/ headLost'
                \/ \A v \in before'[w] : headAt'[v] + HEAD_TTL <= call'[w].stamp
    <2>1. CASE call[w] # Null
      <3>1. Kept(w) /\ (headLost => headLost')
        BY <2>1, CallsGoOn
      <3>2. QED
        BY <1>9, <1>10, <2>1, <3>1 DEF Kept, FreshInv, RestartsNeedQuiet
    <2>2. CASE call[w] = Null
      <3>1. CASE ReadHeadFails(w)
        BY <3>1 DEF ReadHeadFails
      <3>2. CASE ReadHead(w)
        <4>1. call'[w].prev = IF head = Null THEN GENESIS ELSE head.hash
          BY <3>2 DEF ReadHead, Begin, TypeOK
        <4>2. head = Null
          <5>1. ASSUME NEW v \in Writers, At(v, "done")
                PROVE  EntryHash(v) # GENESIS
            BY <5>1, EntryHashType DEF At
          <5>2. QED
            BY <1>10, <4>1, <5>1 DEF ChainInv
        <4>3. \A v \in before'[w] : v \in Writers
          BY NextType DEF TypeOK
        <4>4. QED
          BY <1>9, <1>10, <2>2, <4>2, <4>3, BeforeIsDone DEF FreshInv
      <3>3. QED
        BY <1>10, <2>2, <3>1, <3>2, BeforeIsDone
    <2>3. QED
      BY <2>1, <2>2
  <1>11. QED
    BY <1>6, <1>8, <1>9, <1>10 DEF FreshInv, RestartsNeedQuiet

LEMMA FreshInvariant == Spec => []FreshInv
  <1>1. Init => FreshInv
    BY DEF Init, FreshInv, RestartsNeedQuiet, At
  <1>2. QED
    BY <1>1, NextFresh, ChainInvariant, AuditTyped, PTL DEF Spec

\* A trail in use is not cut: the chain starts afresh only after a failure of Redis, or after
\* HEAD_TTL without an entry.
THEOREM RestartsAreQuiet == Spec => []RestartsNeedQuiet
  <1>1. FreshInv => RestartsNeedQuiet
    BY DEF FreshInv
  <1>2. QED
    BY <1>1, FreshInvariant, PTL

Twice(h) ==
    \/ \E a, b \in Writers :
           a # b /\ At(a, "done") /\ At(b, "done") /\ EntryHash(a) = h /\ EntryHash(b) = h
    \/ \E a \in resent : At(a, "done") /\ EntryHash(a) = h

\* The head has moved on from what an entry continues, and is only there again by a double or
\* because it was sent again.
ForkInv ==
    /\ head # Null => \A v \in Writers :
           At(v, "done") /\ call[v].prev = head.hash => Twice(head.hash)
    /\ \A w \in Writers : call[w] # Null /\ call[w].prev # GENESIS =>
           \A v \in before[w] : call[v].prev = call[w].prev => Twice(call[w].prev)

LEMMA TwiceGoesOn ==
    ASSUME TypeOK, [Next]_vars, NEW h, Twice(h)
    PROVE  \/ \E a, b \in Writers : /\ a # b /\ At(a, "done")' /\ At(b, "done")'
                                    /\ EntryHash(a)' = h /\ EntryHash(b)' = h
           \/ \E a \in resent' : At(a, "done")' /\ EntryHash(a)' = h
  <1>1. ASSUME NEW a \in Writers, At(a, "done")
        PROVE  /\ At(a, "done")' /\ EntryHash(a)' = EntryHash(a)
               /\ a \in resent => a \in resent'
    BY <1>1, CallsGoOn DEF Kept, At
  <1>2. resent \subseteq Writers
    BY DEF TypeOK
  <1>3. QED
    BY <1>1, <1>2 DEF Twice

LEMMA NextFork ==
    ASSUME TypeOK, ChainInv, FreshInv, ForkInv, [Next]_vars
    PROVE  ForkInv'
  <1>1. ASSUME NEW w \in Writers, WriteHead(w), NEW v \in Writers, At(v, "done")',
               call'[v].prev = head'.hash
        PROVE  Twice(head.hash)'
    <2>1. call[w] # Null /\ call[w].pc = "setHead" /\ head'.hash = EntryHash(w)
      BY <1>1 DEF WriteHead, At
    <2>2. /\ Kept(w) /\ EntryHash(w)' = EntryHash(w)
          /\ EntryHash(w) # GENESIS /\ EntryHash(w) # call[w].prev
      BY <2>1, CallsGoOn, EntryHashType
    <2>3. v # w
      BY <1>1, <2>1, <2>2 DEF Kept
    <2>4. call[v] # Null /\ call[v].prev = EntryHash(w)
      BY <1>1, <2>1, <2>3, OneCallMoves DEF LogStep, At
    <2>5. PICK a \in Writers : Precedes(a, v)
      BY <2>2, <2>4 DEF ChainInv
    <2>6. /\ a # w /\ At(a, "done") /\ EntryHash(a) = EntryHash(w)
          /\ At(a, "done")' /\ EntryHash(a)' = EntryHash(a)
      BY <2>1, <2>4, <2>5, CallsGoOn DEF Precedes, At, Kept
    <2>7. At(w, "done")'
      <3>1. call[w] \in Call /\ call'[w] = [call[w] EXCEPT !.pc = "done"]
        BY <1>1, <2>1, EntryHashType DEF WriteHead, TypeOK
      <3>2. call'[w].pc = "done"
        BY <3>1 DEF Call
      <3>3. QED
        BY <2>2, <3>2 DEF Kept, At
    <2>8. QED
      BY <2>1, <2>2, <2>6, <2>7 DEF Twice
  <1>2. ASSUME head' # Null, head' = head, NEW v \in Writers, At(v, "done")',
               ~\E w \in Writers : WriteHead(w), call'[v].prev = head'.hash
        PROVE  Twice(head.hash)'
    <2>1. At(v, "done") /\ call[v] # Null
      BY <1>2, OnlyWriteHeadIsDone DEF At
    <2>2. call[v].prev = head.hash
      BY <1>2, <2>1, CallsGoOn DEF Kept
    <2>3. Twice(head.hash)
      BY <1>2, <2>1, <2>2 DEF ForkInv
    <2>4. QED
      BY <1>2, <2>3, TwiceGoesOn DEF Twice
  <1>3. head' = head \/ head' = Null \/ \E w \in Writers : WriteHead(w) \/ ResendHead(w)
    BY DEF Next, LogStep, ReadHead, ReadHeadFails, Begin, CreateRow, CreateFails,
           WriteHeadFails, ExportStep, BeginExport, Page, PageFails, Retire, LoseHead, Tick, vars
  <1>4. ASSUME NEW w \in Writers, call'[w] # Null, call'[w].prev # GENESIS,
               NEW v \in before'[w], call'[v].prev = call'[w].prev
        PROVE  Twice(call[w].prev)'
    <2>1. v \in Writers
      BY NextType DEF TypeOK
    <2>2. CASE call[w] # Null
      <3>1. v \in before[w] /\ At(v, "done") /\ call'[w].prev = call[w].prev
        BY <1>4, <2>2, CallsGoOn DEF Kept, FreshInv
      <3>2. call'[v].prev = call[v].prev
        BY <2>1, <3>1, CallsGoOn DEF Kept, At
      <3>3. Twice(call[w].prev)
        BY <1>4, <2>2, <3>1, <3>2 DEF ForkInv
      <3>4. QED
        BY <3>1, <3>3, TwiceGoesOn DEF Twice
    <2>3. CASE call[w] = Null
      <3>1. At(v, "done")
        BY <1>4, <2>3, BeforeIsDone
      <3>2. call'[v].prev = call[v].prev
        BY <2>1, <3>1, CallsGoOn DEF Kept, At
      <3>3. head # Null /\ call'[w].prev = head.hash
        BY <1>4, <2>3, BeforeIsDone DEF ReadHead, ReadHeadFails, Begin, TypeOK
      <3>4. Twice(head.hash)
        BY <1>4, <2>1, <3>1, <3>2, <3>3 DEF ForkInv
      <3>5. QED
        BY <3>3, <3>4, TwiceGoesOn DEF Twice
    <2>4. QED
      BY <2>2, <2>3
  <1>5. ASSUME NEW w \in Writers, ResendHead(w)
        PROVE  Twice(head.hash)'
    <2>1. At(w, "done") /\ call[w] # Null /\ head'.hash = EntryHash(w) /\ w \in resent'
      BY <1>5 DEF ResendHead, At
    <2>2. At(w, "done")' /\ EntryHash(w)' = EntryHash(w)
      BY <2>1, CallsGoOn DEF Kept
    <2>3. QED
      BY <2>1, <2>2 DEF Twice
  <1>6. QED
    BY <1>1, <1>2, <1>3, <1>4, <1>5 DEF ForkInv

\* Calls one after the other form a line: a fork needs overlapping calls, a head that was not
\* written, or a head that came back by a double of the entry or a resent SET.
THEOREM ForksOverlap == Spec => []ForksNeedOverlap
  <1>1. Init => ForkInv
    BY DEF Init, ForkInv
  <1>2. TypeOK /\ FreshInv /\ ForkInv => ForksNeedOverlap
    <2> SUFFICES ASSUME TypeOK, FreshInv, ForkInv, NEW w \in Created, NEW v \in before[w],
                        call[v].prev = call[w].prev, call[w].prev # GENESIS,
                        WithHash(call[w].prev) \cap resent = {}
                 PROVE  Cardinality(WithHash(call[w].prev)) > 1
      BY DEF ForksNeedOverlap
    <2>1. Twice(call[w].prev)
      BY DEF ForkInv, Created, At
    <2>2. PICK a, b \in WithHash(call[w].prev) : a # b
      BY <2>1 DEF Twice, WithHash, Created, At, TypeOK
    <2>3. IsFiniteSet(WithHash(call[w].prev))
      BY WritersAreFinite, FS_Subset DEF WithHash, Created
    <2>4. Cardinality({a}) = 1 /\ IsFiniteSet({a}) /\ b \notin {a}
      BY <2>2, FS_Singleton
    <2>5. Cardinality({a} \cup {b}) = 2
      <3>1. Cardinality({a} \cup {b}) = Cardinality({a}) + 1
        BY <2>4, FS_AddElement, Zenon
      <3>2. QED
        BY <2>4, <3>1
    <2>6. Cardinality({a} \cup {b}) <= Cardinality(WithHash(call[w].prev))
      BY <2>2, <2>3, FS_Subset
    <2>7. Cardinality(WithHash(call[w].prev)) \in Nat
      BY <2>3, FS_CardinalityType
    <2>8. QED
      BY <2>5, <2>6, <2>7
  <1>3. QED
    BY <1>1, <1>2, FreshInvariant, NextFork, ChainInvariant, AuditTyped, PTL DEF Spec

-----------------------------------------------------------------------------
(* The first n members of a finite set, in an order f without ties: what a   *)
(* page by offset goes through, and what insertions and deletions do to it.  *)

First(S, n, f, T) ==
    /\ T \subseteq S
    /\ Cardinality(T) = IF Cardinality(S) < n THEN Cardinality(S) ELSE n
    /\ \A a \in T, b \in S \ T : f[a] <= f[b]

Distinct(S, f) == \A a, b \in S : a # b => f[a] # f[b]

LEMMA DisjointUnion ==
    ASSUME NEW A, IsFiniteSet(A), NEW B, IsFiniteSet(B), A \cap B = {}
    PROVE  /\ IsFiniteSet(A \cup B)
           /\ Cardinality(A) \in Nat /\ Cardinality(B) \in Nat
           /\ Cardinality(A \cup B) = Cardinality(A) + Cardinality(B)
  <1>1. /\ IsFiniteSet(A \cup B)
        /\ Cardinality(A \cup B) = Cardinality(A) + Cardinality(B) - Cardinality(A \cap B)
    BY FS_Union
  <1>2. Cardinality(A \cap B) = 0
    BY FS_EmptySet
  <1>3. Cardinality(A) \in Nat /\ Cardinality(B) \in Nat
    BY FS_CardinalityType
  <1>4. QED
    BY <1>1, <1>2, <1>3

LEMMA UnionBound ==
    ASSUME NEW A, IsFiniteSet(A), NEW B, IsFiniteSet(B)
    PROVE  /\ IsFiniteSet(A \cup B)
           /\ Cardinality(A \cup B) \in Nat
           /\ Cardinality(A \cup B) <= Cardinality(A) + Cardinality(B)
  <1>1. /\ IsFiniteSet(A \cup B) /\ IsFiniteSet(A \cap B)
        /\ Cardinality(A \cup B) = Cardinality(A) + Cardinality(B) - Cardinality(A \cap B)
    BY FS_Union, FS_Intersection
  <1>2. /\ Cardinality(A) \in Nat /\ Cardinality(B) \in Nat /\ Cardinality(A \cap B) \in Nat
        /\ Cardinality(A \cup B) \in Nat
    BY <1>1, FS_CardinalityType
  <1>3. QED
    BY <1>1, <1>2

LEMMA MinOfSet ==
    ASSUME NEW M \in SUBSET Nat, M # {}
    PROVE  \E k \in M : \A m \in M : k <= m
  <1>1. PICK k \in M : \A m \in M : ~(<<m, k>> \in OpToRel(<, Nat))
    BY NatLessThanWellFounded, WFMin, Zenon
  <1>2. \A m \in M : ~(m < k)
    BY <1>1 DEF OpToRel
  <1>3. QED
    BY <1>2

LEMMA FirstFinite ==
    ASSUME NEW S, IsFiniteSet(S), NEW n \in Nat, NEW f, NEW T, First(S, n, f, T)
    PROVE  /\ IsFiniteSet(T) /\ Cardinality(T) \in Nat /\ Cardinality(S) \in Nat
           /\ Cardinality(T) <= n /\ Cardinality(T) <= Cardinality(S)
           /\ Cardinality(T) < n => T = S
  <1>1. T \in SUBSET S
    BY DEF First
  <1>2. /\ IsFiniteSet(T) /\ Cardinality(T) \in Nat /\ Cardinality(S) \in Nat
        /\ Cardinality(S) = Cardinality(T) => S = T
    BY <1>1, FS_Subset, FS_CardinalityType
  <1>3. QED
    BY <1>2 DEF First

\* There are always first n members: take the largest set below the others of at most n.
LEMMA FirstExists ==
    ASSUME NEW S, IsFiniteSet(S), NEW n \in Nat, NEW f, \A a \in S : f[a] \in Nat
    PROVE  \E T \in SUBSET S : First(S, n, f, T)
  <1> DEFINE Low(T) == Cardinality(T) <= n /\ \A a \in T, b \in S \ T : f[a] <= f[b]
             K == {n - Cardinality(T) : T \in {U \in SUBSET S : Low(U)}}
  <1>1. \A T \in SUBSET S : IsFiniteSet(T) /\ Cardinality(T) \in Nat /\ Cardinality(T) <= Cardinality(S)
    BY FS_Subset, FS_CardinalityType
  <1>2. K \subseteq Nat
    BY <1>1
  <1>3. K # {}
    <2>1. Low({}) /\ {} \in SUBSET S
      BY FS_EmptySet
    <2>2. QED
      BY <2>1
  <1>4. PICK k \in K : \A m \in K : k <= m
    <2> HIDE DEF K
    <2>1. QED
      BY <1>2, <1>3, MinOfSet
  <1>5. PICK T \in SUBSET S : Low(T) /\ k = n - Cardinality(T)
    OBVIOUS
  <1>6. Cardinality(S) \in Nat /\ Cardinality(T) \in Nat /\ IsFiniteSet(T)
    BY <1>1, FS_CardinalityType
  <1>7. CASE Cardinality(T) = n
    BY <1>1, <1>5, <1>6, <1>7 DEF First
  <1>8. CASE T = S
    BY <1>5, <1>6, <1>8 DEF First
  <1>9. CASE Cardinality(T) # n /\ T # S
    <2> DEFINE M == {f[b] : b \in S \ T}
    <2>1. M \subseteq Nat /\ M # {}
      BY <1>9
    <2>2. PICK l \in M : \A m \in M : l <= m
      <3> HIDE DEF M
      <3>1. QED
        BY <2>1, MinOfSet
    <2>3. PICK b \in S \ T : l = f[b]
      OBVIOUS
    <2>4. /\ IsFiniteSet(T \cup {b}) /\ Cardinality(T \cup {b}) = Cardinality(T) + 1
      BY <1>6, <2>3, FS_AddElement
    <2>5. T \cup {b} \in SUBSET S /\ Low(T \cup {b})
      <3>1. Cardinality(T) + 1 <= n
        BY <1>5, <1>6, <1>9
      <3>2. \A a \in T \cup {b}, c \in S \ (T \cup {b}) : f[a] <= f[c]
        BY <1>5, <2>2, <2>3
      <3>3. QED
        BY <2>3, <2>4, <3>1, <3>2
    <2>6. n - (Cardinality(T) + 1) \in K
      BY <2>4, <2>5
    <2> HIDE DEF K
    <2>7. QED
      BY <1>4, <1>5, <1>6, <2>6
  <1>10. QED
    BY <1>7, <1>8, <1>9

LEMMA FirstUnique ==
    ASSUME NEW S, IsFiniteSet(S), NEW n \in Nat, NEW f, \A a \in S : f[a] \in Nat, Distinct(S, f),
           NEW T, First(S, n, f, T), NEW U, First(S, n, f, U)
    PROVE  T = U
  <1>1. /\ IsFiniteSet(T) /\ IsFiniteSet(U) /\ Cardinality(T) = Cardinality(U)
        /\ T \subseteq S /\ U \subseteq S
    BY FirstFinite DEF First
  <1>2. CASE T \subseteq U \/ U \subseteq T
    BY <1>1, <1>2, FS_Subset
  <1>3. ASSUME NEW a \in T \ U, NEW b \in U \ T
        PROVE  FALSE
    <2>1. f[a] <= f[b] /\ f[b] <= f[a] /\ a # b /\ f[a] \in Nat /\ f[b] \in Nat
      BY <1>1, <1>3 DEF First
    <2>2. QED
      BY <1>1, <2>1 DEF Distinct
  <1>4. QED
    BY <1>2, <1>3

\* When D is taken out of S, what was among the first stays there, and for each member of D that
\* was, at most one other follows.
LEMMA FirstRemove ==
    ASSUME NEW S, IsFiniteSet(S), NEW n \in Nat, NEW f, \A a \in S : f[a] \in Nat, Distinct(S, f),
           NEW T, First(S, n, f, T), NEW D \in SUBSET S, NEW U, First(S \ D, n, f, U)
    PROVE  /\ T \ D \subseteq U
           /\ IsFiniteSet(U \ T)
           /\ Cardinality(U \ T) \in Nat /\ Cardinality(T \cap D) \in Nat
           /\ Cardinality(U \ T) <= Cardinality(T \cap D)
  <1>1. T \subseteq S /\ U \subseteq S \ D /\ IsFiniteSet(S \ D)
    BY FS_Subset DEF First
  <1>2. /\ IsFiniteSet(T) /\ Cardinality(T) \in Nat /\ Cardinality(T) <= n
        /\ IsFiniteSet(U) /\ Cardinality(U) \in Nat
        /\ Cardinality(U) < n => U = S \ D
    BY <1>1, FirstFinite
  <1>3. Cardinality(U) <= Cardinality(T)
    <2>1. Cardinality(S \ D) <= Cardinality(S) /\ Cardinality(S) \in Nat /\ Cardinality(S \ D) \in Nat
      BY <1>1, FS_Subset, FS_CardinalityType
    <2>2. QED
      BY <2>1 DEF First
  <1>4. /\ IsFiniteSet(T \ D) /\ Cardinality(T \ D) \in Nat /\ Cardinality(T \ D) <= Cardinality(T)
        /\ IsFiniteSet(U \ T) /\ Cardinality(U \ T) \in Nat
        /\ IsFiniteSet(T \cap D) /\ Cardinality(T \cap D) \in Nat
    <2>1. T \ D \in SUBSET T /\ U \ T \in SUBSET U /\ T \cap D \in SUBSET T
      OBVIOUS
    <2>2. QED
      BY <1>2, <2>1, FS_Subset, FS_CardinalityType
  <1>5. ASSUME NEW a \in T \ D, a \notin U
        PROVE  FALSE
    <2>1. \A b \in U : b \in T
      <3>1. ASSUME NEW b \in U, b \notin T
            PROVE  FALSE
        <4>1. f[b] <= f[a] /\ f[a] <= f[b] /\ a # b /\ f[a] \in Nat /\ f[b] \in Nat
          BY <1>1, <1>5, <3>1 DEF First
        <4>2. QED
          BY <1>1, <4>1 DEF Distinct
      <3>2. QED
        BY <3>1
    <2>2. U \subseteq (T \ D) \ {a}
      BY <1>1, <1>5, <2>1
    <2>3. /\ IsFiniteSet((T \ D) \ {a}) /\ Cardinality((T \ D) \ {a}) = Cardinality(T \ D) - 1
      BY <1>4, <1>5, FS_RemoveElement
    <2>4. Cardinality(U) <= Cardinality((T \ D) \ {a})
      BY <2>2, <2>3, FS_Subset
    <2>5. Cardinality(U) < n
      BY <1>2, <1>4, <2>3, <2>4
    <2>6. QED
      BY <1>1, <1>2, <1>5, <2>5
  <1>6. T \ D \subseteq U
    BY <1>5
  <1>7. Cardinality(T) = Cardinality(T \ D) + Cardinality(T \cap D)
    <2>1. (T \ D) \cup (T \cap D) = T /\ (T \ D) \cap (T \cap D) = {}
      OBVIOUS
    <2>2. Cardinality((T \ D) \cup (T \cap D)) = Cardinality(T \ D) + Cardinality(T \cap D)
      BY <1>4, <2>1, DisjointUnion
    <2>3. QED
      BY <2>1, <2>2
  <1>8. Cardinality(U) = Cardinality(T \ D) + Cardinality(U \ T)
    <2>1. (T \ D) \cup (U \ T) = U /\ (T \ D) \cap (U \ T) = {}
      BY <1>1, <1>6
    <2>2. Cardinality((T \ D) \cup (U \ T)) = Cardinality(T \ D) + Cardinality(U \ T)
      BY <1>4, <2>1, DisjointUnion
    <2>3. QED
      BY <2>1, <2>2
  <1>9. QED
    BY <1>2, <1>3, <1>4, <1>6, <1>7, <1>8

LEMMA FirstInsert ==
    ASSUME NEW R, IsFiniteSet(R), NEW w \in R, NEW n \in Nat, NEW f,
           \A a \in R : f[a] \in Nat, Distinct(R, f),
           NEW T, First(R \ {w}, n, f, T), NEW U, First(R, n, f, U)
    PROVE  U \ {w} \subseteq T
  <1>1. PICK D \in SUBSET R : D = {w}
    OBVIOUS
  <1>2. First(R \ D, n, f, T)
    BY <1>1
  <1>3. U \ D \subseteq T
    BY <1>2, FirstRemove
  <1>4. QED
    BY <1>1, <1>3

\* The first m of what is left after the first n are the next of them.
LEMMA FirstThen ==
    ASSUME NEW S, IsFiniteSet(S), NEW n \in Nat, NEW m \in Nat, NEW f,
           NEW T, First(S, n, f, T), NEW U, First(S \ T, m, f, U)
    PROVE  /\ First(S, n + Cardinality(U), f, T \cup U)
           /\ Cardinality(U) < m => T \cup U = S
  <1>1. T \subseteq S /\ U \subseteq S \ T /\ IsFiniteSet(S \ T) /\ T \cap U = {}
    BY FS_Subset DEF First
  <1>2. /\ IsFiniteSet(T) /\ Cardinality(T) \in Nat /\ Cardinality(T) <= n
        /\ Cardinality(T) < n => T = S
        /\ IsFiniteSet(U) /\ Cardinality(U) \in Nat
        /\ Cardinality(U) < m => U = S \ T
        /\ Cardinality(S) \in Nat
    BY <1>1, FirstFinite
  <1>3. Cardinality(T \cup U) = Cardinality(T) + Cardinality(U)
    BY <1>1, <1>2, DisjointUnion
  <1>4. Cardinality(T \cup U) <= Cardinality(S)
    <2>1. T \cup U \in SUBSET S
      BY <1>1
    <2>2. QED
      BY <2>1, FS_Subset
  <1>5. T \cup U \subseteq S /\ \A a \in T \cup U, b \in S \ (T \cup U) : f[a] <= f[b]
    BY <1>1 DEF First
  <1>6. CASE Cardinality(T) = n
    BY <1>2, <1>3, <1>4, <1>5, <1>6, <1>1 DEF First
  <1>7. CASE Cardinality(T) < n
    <2>1. T = S /\ U = {}
      BY <1>1, <1>2, <1>7
    <2>2. Cardinality(U) = 0
      BY <2>1, FS_EmptySet
    <2>3. QED
      BY <1>1, <1>2, <1>3, <1>5, <1>7, <2>1, <2>2 DEF First
  <1>8. QED
    BY <1>2, <1>6, <1>7

LEMMA FirstAgrees ==
    ASSUME NEW S, NEW n, NEW T, NEW f, NEW g, \A a \in S : f[a] = g[a]
    PROVE  /\ First(S, n, f, T) <=> First(S, n, g, T)
           /\ Distinct(S, f) <=> Distinct(S, g)
  <1>1. Distinct(S, f) <=> Distinct(S, g)
    BY DEF Distinct
  <1>2. First(S, n, f, T) <=> First(S, n, g, T)
    <2>1. CASE T \subseteq S
      <3>1. \A a \in T, b \in S \ T : f[a] = g[a] /\ f[b] = g[b]
        BY <2>1
      <3>2. QED
        BY <3>1 DEF First
    <2>2. CASE ~(T \subseteq S)
      BY <2>2 DEF First
    <2>3. QED
      BY <2>1, <2>2
  <1>3. QED
    BY <1>1, <1>2

-----------------------------------------------------------------------------
(* The export.  At offset n it has gone through the first n rows of its      *)
(* range, and what it missed of them is paid for by the rows deleted.        *)

Stamps == [w \in Writers |-> call[w].timestamp]

LEMMA LeastIsFirst ==
    ASSUME NEW S \in SUBSET Writers, NEW n, NEW T \in SUBSET S
    PROVE  Least(S, n, T) <=> First(S, n, Stamps, T)
  <1>1. \A w \in S : Stamps[w] = call[w].timestamp
    BY DEF Stamps
  <1>2. QED
    BY <1>1 DEF Least, First

\* What a step leaves of an export, and of the entries.
Steady(x) ==
    /\ export'[x] = export[x]
    /\ sent'[x] = sent[x]
    /\ wanted'[x] = wanted[x]
    /\ ~Paging(x) => removed'[x] = removed[x] /\ added'[x] = added[x]

Stamped ==
    /\ Created \subseteq Created'
    /\ \A w \in Created : call'[w].timestamp = call[w].timestamp

LEMMA StepStamps ==
    ASSUME TypeOK, [Next]_vars
    PROVE  Stamped
  <1>1. ASSUME NEW w \in Created
        PROVE  w \in Created' /\ call'[w].timestamp = call[w].timestamp
    <2>1. w \in Writers /\ call[w] # Null
      BY DEF Created, At
    <2>2. QED
      BY <2>1, CallsGoOn DEF Kept
  <1>2. QED
    BY <1>1 DEF Stamped

LEMMA RowsAreCreated ==
    ASSUME TypeOK, RowsInv, [Next]_vars
    PROVE  RowsInv'
  <1>1. Created \subseteq Created'
    BY StepStamps DEF Stamped
  <1>2. ASSUME NEW w \in Writers, CreateRow(w)
        PROVE  RowsInv'
    <2>1. PICK t \in call[w].stamp..now :
             call' = [call EXCEPT ![w].pc = "setHead", ![w].timestamp = t]
      BY <1>2 DEF CreateRow
    <2>2. call[w] \in Call
      BY <1>2, EntryHashType DEF CreateRow, At
    <2>3. t \in Nat
      BY <2>2 DEF Call, TypeOK
    <2>4. call'[w] = [call[w] EXCEPT !.pc = "setHead", !.timestamp = t]
      BY <2>1 DEF TypeOK
    <2>5. call'[w] \in Call /\ call'[w].pc = "setHead"
      BY <2>2, <2>3, <2>4 DEF Call
    <2>6. w \in Created'
      BY <2>5, NullIsNone DEF Created, At
    <2>7. QED
      BY <1>1, <1>2, <2>6 DEF CreateRow, RowsInv
  <1>3. ASSUME NEW w \in Writers, LogStep(w), ~CreateRow(w)
        PROVE  RowsInv'
    BY <1>1, <1>3, OnlyCreateRowCreates DEF RowsInv
  <1>4. ASSUME rows' \subseteq rows
        PROVE  RowsInv'
    BY <1>1, <1>4 DEF RowsInv
  <1>5. ASSUME NEW x \in Exports, ExportStep(x)
        PROVE  RowsInv'
    BY <1>4, <1>5 DEF ExportStep, BeginExport, Page, PageFails
  <1>6. ASSUME NEW days \in Retentions, Retire(days)
        PROVE  RowsInv'
    BY <1>4, <1>6 DEF Retire
  <1>7. CASE LoseHead \/ Tick \/ UNCHANGED vars
    BY <1>4, <1>7 DEF LoseHead, Tick, vars
  <1>8. QED
    BY <1>2, <1>3, <1>5, <1>6, <1>7 DEF Next

\* What the proofs below take from the invariant of an export that is paging.
LEMMA ExportFacts ==
    ASSUME TypeOK, RowsInv, NEW x \in Exports
    PROVE  /\ Listed(x) \subseteq Created /\ Listed(x) \subseteq rows
           /\ Created \subseteq Writers
           /\ \A S \in SUBSET Writers : IsFiniteSet(S) /\ Cardinality(S) \in Nat
           /\ \A S \in SUBSET Writers : \A a \in S \cap Created : Stamps[a] \in Nat
           /\ \A w \in Writers : sent[x][w] \in Nat
           /\ wanted[x] \in SUBSET Writers /\ removed[x] \in SUBSET Writers /\ added[x] \in SUBSET Writers
           /\ rows \in SUBSET Writers
           /\ export[x] # Null => export[x] \in Export
  <1>1. \A S \in SUBSET Writers : IsFiniteSet(S) /\ Cardinality(S) \in Nat
    BY WritersAreFinite, FS_Subset, FS_CardinalityType
  <1>2. \A a \in Created : Stamps[a] \in Nat
    <2>1. ASSUME NEW a \in Created PROVE Stamps[a] \in Nat
      <3>1. a \in Writers /\ call[a] \in Call
        BY EntryHashType DEF Created, At
      <3>2. QED
        BY <3>1 DEF Stamps, Call
    <2>2. QED
      BY <2>1
  <1>3. QED
    BY <1>1, <1>2 DEF TypeOK, RowsInv, Listed, Created

\* What the steps that concern the export leave to show, when it is paging.
LEMMA StillOnTrack ==
    ASSUME TypeOK, TypeOK', RowsInv, RowsInv', Stamped, NEW x \in Exports, ExportInv(x), Steady(x),
           Paging(x) =>
               /\ Listed(x)' \subseteq wanted[x] \cup added'[x]
               /\ Untied(x)' => OnTrack(x)',
           removed'[x] \cup added'[x] \subseteq Created',
           removed'[x] \cap rows' = {}
    PROVE  ExportInv(x)'
  <1>1. export'[x] = export[x] /\ (Paging(x)' <=> Paging(x))
    BY DEF Steady, Paging
  <1>2. wanted[x] \cup removed[x] \cup added[x] \cup {w \in Writers : sent[x][w] # 0} \subseteq Created
    BY DEF ExportInv
  <1>3. \A v \in wanted[x] \cup added[x] : call'[v].timestamp = call[v].timestamp
    BY <1>2 DEF Stamped
  <1>4. ~Paging(x) => (Untied(x)' <=> Untied(x))
    BY <1>3 DEF Untied, Steady
  <1>5. ~Paging(x) => (Faithful(x)' <=> Faithful(x))
    BY DEF Faithful, Steady
  <1>6. Paging(x) => \A w \in wanted[x] : InRange(x, w)'
    BY <1>1, <1>3 DEF ExportInv, InRange
  <1>7. /\ wanted'[x] \cup removed'[x] \cup added'[x] \cup {w \in Writers : sent'[x][w] # 0} \subseteq Created'
        /\ removed'[x] \cap rows' = {}
    BY <1>2 DEF Steady, Stamped
  <1>8. export'[x] = Null => removed'[x] = {} /\ added'[x] = {} /\ \A w \in Writers : sent'[x][w] = 0
    BY DEF ExportInv, Steady, Paging
  <1>9. Paging(x)' => /\ Listed(x)' \subseteq wanted'[x] \cup added'[x]
                      /\ \A w \in wanted'[x] : InRange(x, w)'
                      /\ Untied(x)' => OnTrack(x)'
    BY <1>1, <1>6 DEF Steady
  <1>10. export'[x] # Null /\ export'[x].pc = "closed" /\ Untied(x)' => Faithful(x)'
    BY <1>1, <1>4, <1>5 DEF ExportInv, Paging
  <1>11. QED
    BY <1>7, <1>8, <1>9, <1>10 DEF ExportInv

LEMMA QuietExport ==
    ASSUME TypeOK, TypeOK', RowsInv, RowsInv', Stamped, NEW x \in Exports, ExportInv(x), Steady(x),
           rows' = rows, removed'[x] = removed[x], added'[x] = added[x]
    PROVE  ExportInv(x)'
  <1>1. removed'[x] \cap rows' = {} /\ removed'[x] \cup added'[x] \subseteq Created'
    BY DEF ExportInv, Stamped
  <1>2. ASSUME Paging(x)
        PROVE  /\ Listed(x)' \subseteq wanted[x] \cup added'[x]
               /\ Untied(x)' => OnTrack(x)'
    <2>1. \A w \in rows : InRange(x, w)' <=> InRange(x, w)
      BY DEF InRange, Steady, Stamped, RowsInv
    <2>2. Listed(x)' = Listed(x)
      BY <2>1 DEF Listed
    <2>3. Listed(x) \subseteq wanted[x] \cup added[x]
      BY <1>2 DEF ExportInv
    <2>4. ASSUME Untied(x)' PROVE OnTrack(x)'
      <3>1. wanted[x] \cup added[x] \subseteq Created
        BY DEF ExportInv
      <3>2. Untied(x)
        BY <2>4, <3>1 DEF Untied, Stamped, Steady
      <3>3. PICK T \in SUBSET Listed(x) :
               /\ Least(Listed(x), export[x].skip, T)
               /\ Cardinality(Missed(x, T)) <= Cardinality(removed[x])
               /\ \A w \in Writers :
                      sent[x][w] <= Cardinality(added[x]) + (IF w \in T \/ w \notin rows THEN 1 ELSE 0)
        BY <1>2, <3>2 DEF ExportInv, OnTrack
      <3>4. Missed(x, T)' = Missed(x, T)
        BY DEF Missed, Steady
      <3>5. \A w \in Listed(x) : call'[w].timestamp = call[w].timestamp
        BY DEF Listed, RowsInv, Stamped
      <3>6. Least(Listed(x), export[x].skip, T)'
        BY <2>2, <3>3, <3>5 DEF Least, Steady
      <3>8. QED
        BY <2>2, <3>3, <3>4, <3>6 DEF OnTrack, Steady
    <2>5. QED
      BY <2>2, <2>3, <2>4
  <1>3. QED
    BY <1>1, <1>2, StillOnTrack

LEMMA OnTrackFacts ==
    ASSUME TypeOK, RowsInv, NEW x \in Exports, ExportInv(x), Paging(x), Untied(x)
    PROVE  /\ Distinct(Listed(x), Stamps)
           /\ \A a \in Listed(x) : Stamps[a] \in Nat
           /\ export[x].skip \in Nat
           /\ \E T \in SUBSET Listed(x) :
                /\ First(Listed(x), export[x].skip, Stamps, T)
                /\ Cardinality(Missed(x, T)) <= Cardinality(removed[x])
                /\ \A w \in Writers :
                       sent[x][w] <= Cardinality(added[x]) + (IF w \in T \/ w \notin rows THEN 1 ELSE 0)
  <1>1. Listed(x) \subseteq Created /\ Created \subseteq Writers
    BY ExportFacts
  <1>2. Distinct(Listed(x), Stamps)
    BY <1>1 DEF ExportInv, Untied, Distinct, Stamps
  <1>3. \A a \in Listed(x) : Stamps[a] \in Nat
    BY <1>1, ExportFacts
  <1>4. export[x].skip \in Nat
    BY ExportFacts DEF Paging, Export
  <1>5. PICK T \in SUBSET Listed(x) :
               /\ Least(Listed(x), export[x].skip, T)
               /\ Cardinality(Missed(x, T)) <= Cardinality(removed[x])
               /\ \A w \in Writers :
                      sent[x][w] <= Cardinality(added[x]) + (IF w \in T \/ w \notin rows THEN 1 ELSE 0)
    BY DEF ExportInv, OnTrack
  <1>6. First(Listed(x), export[x].skip, Stamps, T)
    BY <1>1, <1>5, LeastIsFirst
  <1>7. QED
    BY <1>2, <1>3, <1>4, <1>5, <1>6

\* An entry that arrives pushes at most one row back behind the offset: it pays for its repetition.
LEMMA CreateRowOnTrack ==
    ASSUME TypeOK, TypeOK', RowsInv, RowsInv', Stamped, NEW x \in Exports, ExportInv(x), Paging(x),
           NEW w \in Writers \ Created, rows' = rows \cup {w}, Steady(x), removed'[x] = removed[x],
           \/ Listed(x)' = Listed(x) /\ added'[x] = added[x]
           \/ Listed(x)' = Listed(x) \cup {w} /\ added'[x] = added[x] \cup {w},
           Listed(x)' \subseteq wanted[x] \cup added'[x],
           Untied(x)'
    PROVE  OnTrack(x)'
  <1> DEFINE S == Listed(x)
             n == export[x].skip
  <1>1. /\ wanted[x] \cup added[x] \subseteq Created
        /\ \A v \in Writers : sent[x][v] # 0 => v \in Created
        /\ w \notin rows /\ w \notin S
    BY DEF ExportInv, RowsInv, Listed
  <1>2. Untied(x)
    BY <1>1 DEF Untied, Stamped, Steady
  <1>3. PICK T \in SUBSET S :
           /\ First(S, n, Stamps, T)
           /\ Cardinality(Missed(x, T)) <= Cardinality(removed[x])
           /\ \A v \in Writers :
                  sent[x][v] <= Cardinality(added[x]) + (IF v \in T \/ v \notin rows THEN 1 ELSE 0)
    BY <1>2, OnTrackFacts
  <1>4. \A v \in S : Stamps'[v] = Stamps[v]
    BY ExportFacts DEF Stamps, Stamped
  <1>5. First(S, n, Stamps', T)
    BY <1>3, <1>4, FirstAgrees
  <1>6. /\ Listed(x)' \in SUBSET Writers /\ IsFiniteSet(Listed(x)')
        /\ \A a \in Listed(x)' : Stamps'[a] \in Nat
        /\ n \in Nat
    <2>1. Listed(x)' \in SUBSET Writers
      BY DEF Listed, TypeOK
    <2>2. ASSUME NEW a \in Listed(x)' PROVE Stamps'[a] \in Nat
      <3>1. a \in Created' /\ a \in Writers
        BY <2>2 DEF Listed, RowsInv, Created
      <3>2. call'[a] \in Call
        BY <3>1 DEF Created, At, TypeOK
      <3>3. QED
        BY <3>1, <3>2 DEF Stamps, Call
    <2>3. IsFiniteSet(Listed(x)')
      BY <2>1, WritersAreFinite, FS_Subset
    <2>4. QED
      BY <2>1, <2>2, <2>3, ExportFacts DEF Paging, Export
  <1>7. Distinct(Listed(x)', Stamps')
    BY <1>6 DEF Untied, Distinct, Stamps, Steady
  <1>8. \A v \in Writers \ {w} : v \in rows' <=> v \in rows
    OBVIOUS
  <1>9. PICK U \in SUBSET Listed(x)' : First(Listed(x)', n, Stamps', U)
    BY <1>6, FirstExists
  <1>10. U \ {w} \subseteq T
    <2>1. CASE Listed(x)' = S
      BY <1>5, <1>6, <1>7, <1>9, <2>1, FirstUnique
    <2>2. CASE Listed(x)' = S \cup {w}
      <3>1. Listed(x)' \ {w} = S /\ w \in Listed(x)'
        BY <1>1, <2>2
      <3>2. First(Listed(x)' \ {w}, n, Stamps', T)
        BY <1>5, <3>1
      <3>3. QED
        BY <1>6, <1>7, <1>9, <3>1, <3>2, FirstInsert
    <2>3. QED
      BY <2>1, <2>2
  <1>11. Cardinality(Missed(x, U)') <= Cardinality(removed'[x])
    <2>1. Missed(x, U)' \subseteq Missed(x, T) /\ Missed(x, T) \in SUBSET Writers
      BY <1>1, <1>10, ExportFacts DEF Missed, Steady
    <2>2. /\ IsFiniteSet(Missed(x, T)) /\ Cardinality(Missed(x, T)) \in Nat
          /\ Cardinality(removed[x]) \in Nat
      BY <2>1, ExportFacts
    <2>3. Cardinality(Missed(x, U)') <= Cardinality(Missed(x, T)) /\ Cardinality(Missed(x, U)') \in Nat
      BY <2>1, <2>2, FS_Subset, FS_CardinalityType
    <2>4. QED
      BY <1>3, <2>2, <2>3
  <1>12. /\ Cardinality(added[x]) \in Nat
         /\ added'[x] = added[x] \cup {w} => Cardinality(added'[x]) = Cardinality(added[x]) + 1
    <2>1. IsFiniteSet(added[x]) /\ w \notin added[x] /\ Cardinality(added[x]) \in Nat
      BY <1>1, ExportFacts
    <2>2. QED
      BY <2>1, FS_AddElement
  <1>13. ASSUME NEW v \in Writers
         PROVE  sent'[x][v] <= Cardinality(added'[x]) + (IF v \in U \/ v \notin rows' THEN 1 ELSE 0)
    <2>1. sent'[x][v] = sent[x][v] /\ sent[x][v] \in Nat
      BY ExportFacts DEF Steady
    <2>2. CASE v = w
      BY <1>1, <1>12, <2>1, <2>2
    <2>3. CASE v # w /\ added'[x] = added[x] \cup {w}
      BY <1>3, <1>12, <2>1, <2>3
    <2>4. CASE v # w /\ Listed(x)' = S /\ added'[x] = added[x]
      <3>1. T = U
        BY <1>5, <1>6, <1>7, <1>9, <2>4, FirstUnique
      <3>2. QED
        BY <1>3, <1>8, <2>1, <2>4, <3>1
    <2>5. QED
      BY <2>2, <2>3, <2>4
  <1>14. Least(Listed(x), export[x].skip, U)'
    BY <1>6, <1>9 DEF Least, First, Stamps, Steady
  <1>15. QED
    BY <1>9, <1>11, <1>13, <1>14 DEF OnTrack

\* A deletion pulls at most as many unsent rows in front of the offset as it takes sent ones away.
LEMMA RetireOnTrack ==
    ASSUME TypeOK, TypeOK', RowsInv, NEW x \in Exports, ExportInv(x), Paging(x),
           NEW old \in SUBSET rows, rows' = rows \ old, call' = call, Steady(x),
           added'[x] = added[x],
           removed'[x] = removed[x] \cup {w \in old : InRange(x, w)},
           Untied(x)'
    PROVE  OnTrack(x)'
  <1> DEFINE S == Listed(x)
             n == export[x].skip
             D == {w \in old : InRange(x, w)}
  <1>1. Untied(x)
    BY DEF Untied, Steady
  <1>2. PICK T \in SUBSET S :
           /\ First(S, n, Stamps, T)
           /\ Cardinality(Missed(x, T)) <= Cardinality(removed[x])
           /\ \A v \in Writers :
                  sent[x][v] <= Cardinality(added[x]) + (IF v \in T \/ v \notin rows THEN 1 ELSE 0)
    BY <1>1, OnTrackFacts
  <1>3. /\ S \in SUBSET Writers /\ IsFiniteSet(S) /\ (\A a \in S : Stamps[a] \in Nat)
        /\ Distinct(S, Stamps) /\ n \in Nat
    BY <1>1, ExportFacts, OnTrackFacts
  <1>4. Stamps' = Stamps
    BY DEF Stamps
  <1>5. D \in SUBSET S /\ Listed(x)' = S \ D
    BY DEF Listed, InRange, Steady
  <1>6. PICK U \in SUBSET (S \ D) : First(S \ D, n, Stamps, U)
    <2>1. IsFiniteSet(S \ D) /\ \A a \in S \ D : Stamps[a] \in Nat
      BY <1>3, FS_Subset
    <2> HIDE DEF S, n, D
    <2>2. QED
      BY <1>3, <2>1, FirstExists
  <1>7. /\ T \ D \subseteq U
        /\ IsFiniteSet(U \ T)
        /\ Cardinality(U \ T) \in Nat /\ Cardinality(T \cap D) \in Nat
        /\ Cardinality(U \ T) <= Cardinality(T \cap D)
    <2> HIDE DEF S, n, D
    <2>1. QED
      BY <1>2, <1>3, <1>5, <1>6, FirstRemove
  <1>8. Cardinality(removed'[x]) = Cardinality(removed[x]) + Cardinality(T \cap D) + Cardinality(D \ T)
    <2>1. removed[x] \cap D = {} /\ removed[x] \in SUBSET Writers /\ D \in SUBSET Writers
      BY ExportFacts DEF ExportInv
    <2>2. IsFiniteSet(removed[x]) /\ IsFiniteSet(D) /\ IsFiniteSet(T \cap D) /\ IsFiniteSet(D \ T)
      BY <1>3, <2>1, ExportFacts
    <2>3. Cardinality(removed[x] \cup D) = Cardinality(removed[x]) + Cardinality(D)
      BY <2>1, <2>2, DisjointUnion
    <2>4. /\ Cardinality((T \cap D) \cup (D \ T)) = Cardinality(T \cap D) + Cardinality(D \ T)
          /\ Cardinality(T \cap D) \in Nat /\ Cardinality(D \ T) \in Nat
      <3>1. (T \cap D) \cap (D \ T) = {}
        OBVIOUS
      <3>2. QED
        BY <2>2, <3>1, DisjointUnion
    <2>5. (T \cap D) \cup (D \ T) = D
      OBVIOUS
    <2>6. Cardinality(removed[x]) \in Nat
      BY <2>2, FS_CardinalityType
    <2>7. removed'[x] = removed[x] \cup D
      OBVIOUS
    <2>8. Cardinality(D) = Cardinality(T \cap D) + Cardinality(D \ T)
      BY <2>4, <2>5
    <2>9. Cardinality(T \cap D) \in Nat /\ Cardinality(D \ T) \in Nat
      BY <2>4
    <2> HIDE DEF D
    <2>10. Cardinality(removed'[x]) = Cardinality(removed[x]) + Cardinality(D)
      BY <2>3, <2>7
    <2>11. QED
      BY <2>6, <2>8, <2>9, <2>10
  <1>9. Cardinality(Missed(x, U)') <= Cardinality(removed'[x])
    <2>1. Missed(x, U)' \subseteq (Missed(x, T) \cup (U \ T)) \cup (D \ T)
      BY <1>5 DEF Missed, Steady, ExportInv
    <2>2. /\ IsFiniteSet(Missed(x, T)) /\ Cardinality(Missed(x, T)) \in Nat
          /\ IsFiniteSet(U \ T) /\ Cardinality(U \ T) \in Nat
          /\ IsFiniteSet(D \ T) /\ Cardinality(D \ T) \in Nat
          /\ Cardinality(removed[x]) \in Nat
      <3>1. Missed(x, T) \in SUBSET Writers /\ D \ T \in SUBSET Writers /\ removed[x] \in SUBSET Writers
        BY ExportFacts DEF Missed
      <3>2. QED
        BY <1>7, <3>1, ExportFacts
    <2>3. /\ IsFiniteSet(Missed(x, T) \cup (U \ T))
          /\ Cardinality(Missed(x, T) \cup (U \ T)) \in Nat
          /\ Cardinality(Missed(x, T) \cup (U \ T)) <= Cardinality(Missed(x, T)) + Cardinality(U \ T)
      BY <2>2, UnionBound
    <2>4. /\ IsFiniteSet((Missed(x, T) \cup (U \ T)) \cup (D \ T))
          /\ Cardinality((Missed(x, T) \cup (U \ T)) \cup (D \ T)) \in Nat
          /\ Cardinality((Missed(x, T) \cup (U \ T)) \cup (D \ T)) <=
                 Cardinality(Missed(x, T) \cup (U \ T)) + Cardinality(D \ T)
      BY <2>2, <2>3, UnionBound
    <2>5. /\ Cardinality(Missed(x, U)') \in Nat
          /\ Cardinality(Missed(x, U)') <= Cardinality((Missed(x, T) \cup (U \ T)) \cup (D \ T))
      BY <2>1, <2>4, FS_Subset, FS_CardinalityType
    <2>6. Cardinality(Missed(x, T)) <= Cardinality(removed[x])
          /\ Cardinality(U \ T) <= Cardinality(T \cap D) /\ Cardinality(T \cap D) \in Nat
      BY <1>2, <1>7
    <2> HIDE DEF D
    <2>7. QED
      BY <1>8, <2>2, <2>3, <2>4, <2>5, <2>6
  <1>10. ASSUME NEW v \in Writers
         PROVE  sent'[x][v] <= Cardinality(added'[x]) + (IF v \in U \/ v \notin rows' THEN 1 ELSE 0)
    <2>1. v \in T \/ v \notin rows => v \in U \/ v \notin rows'
      BY <1>7
    <2>2. sent'[x][v] = sent[x][v] /\ sent[x][v] \in Nat /\ Cardinality(added[x]) \in Nat
      BY ExportFacts DEF Steady
    <2>3. QED
      BY <1>2, <2>1, <2>2
  <1>11. Least(Listed(x), export[x].skip, U)'
    BY <1>3, <1>4, <1>5, <1>6 DEF Least, First, Stamps, Steady
  <1>12. QED
    BY <1>5, <1>6, <1>9, <1>10, <1>11 DEF OnTrack

\* The first batch starts from nothing sent and nothing missed.
LEMMA BeginExportTracks ==
    ASSUME TypeOK, TypeOK', RowsInv, RowsInv', Stamped, NEW x \in Exports, ExportInv(x), BeginExport(x)
    PROVE  ExportInv(x)'
  <1>1. PICK from \in {0, now}, to \in {now, MaxTime} :
           /\ export'[x] = [pc |-> "page", from |-> from, to |-> to, skip |-> 0]
           /\ wanted'[x] = {w \in rows : from <= call[w].timestamp /\ call[w].timestamp <= to}
    BY DEF BeginExport, TypeOK
  <1>2. /\ removed'[x] = {} /\ added'[x] = {} /\ \A w \in Writers : sent'[x][w] = 0
        /\ rows' = rows /\ call' = call
    BY DEF BeginExport, ExportInv
  <1>3. export'[x].pc = "page" /\ export'[x].skip = 0 /\ export'[x].from = from /\ export'[x].to = to
        /\ export'[x] # Null
    <2>1. export'[x] \in Export
      BY <1>1, Bounds DEF Export, TypeOK
    <2>2. QED
      BY <1>1, <2>1, NullIsNone
  <1>4. Listed(x)' = wanted'[x] /\ wanted'[x] \in SUBSET Writers
    BY <1>1, <1>2, <1>3 DEF Listed, InRange, TypeOK
  <1>5. \A w \in wanted'[x] : InRange(x, w)'
    BY <1>1, <1>2, <1>3 DEF InRange
  <1>6. OnTrack(x)'
    <2>1. Cardinality({}) = 0
      BY FS_EmptySet
    <2>2. Missed(x, {})' = {}
      BY <1>1, <1>2 DEF Missed
    <2>3. Least(Listed(x), export[x].skip, {})'
      <3>1. Cardinality(wanted'[x]) \in Nat
        BY <1>4, WritersAreFinite, FS_Subset, FS_CardinalityType
      <3>2. QED
        BY <1>3, <1>4, <2>1, <3>1 DEF Least
    <2>4. /\ {} \in SUBSET Listed(x)'
          /\ Cardinality(Missed(x, {})') <= Cardinality(removed'[x])
      BY <1>2, <2>1, <2>2
    <2>5. \A w \in Writers :
             sent'[x][w] <= Cardinality(added'[x]) + (IF w \in {} \/ w \notin rows' THEN 1 ELSE 0)
      BY <1>2, <2>1
    <2>6. QED
      BY <2>3, <2>4, <2>5 DEF OnTrack
  <1>7. wanted'[x] \subseteq Created'
    BY <1>1, <1>2 DEF RowsInv
  <1>8. QED
    BY <1>2, <1>3, <1>4, <1>5, <1>6, <1>7 DEF ExportInv

\* A batch moves the rows it sends in front of the offset; one that is not full leaves no others.
LEMMA PageTracks ==
    ASSUME TypeOK, TypeOK', RowsInv, RowsInv', Stamped, NEW x \in Exports, ExportInv(x), Page(x)
    PROVE  ExportInv(x)'
  <1> DEFINE S == Listed(x)
             n == export[x].skip
  <1>0. PICK skipped \in SUBSET S : \E batch \in SUBSET (S \ skipped) :
           /\ Least(S, n, skipped)
           /\ Least(S \ skipped, BATCH_SIZE, batch)
           /\ sent' = [sent EXCEPT ![x] =
                  [w \in Writers |-> IF w \in batch THEN sent[x][w] + 1 ELSE sent[x][w]]]
           /\ export' = [export EXCEPT
                  ![x].skip = n + Cardinality(batch),
                  ![x].pc = IF Cardinality(batch) < BATCH_SIZE THEN "closed" ELSE "page"]
    BY DEF Page
  <1>1. PICK batch \in SUBSET (S \ skipped) :
           /\ Least(S, n, skipped)
           /\ Least(S \ skipped, BATCH_SIZE, batch)
           /\ sent' = [sent EXCEPT ![x] =
                  [w \in Writers |-> IF w \in batch THEN sent[x][w] + 1 ELSE sent[x][w]]]
           /\ export' = [export EXCEPT
                  ![x].skip = n + Cardinality(batch),
                  ![x].pc = IF Cardinality(batch) < BATCH_SIZE THEN "closed" ELSE "page"]
    BY <1>0
  <1>2. /\ Paging(x) /\ rows' = rows /\ call' = call
        /\ wanted' = wanted /\ removed' = removed /\ added' = added
    BY DEF Page, history
  <1>3. /\ S \in SUBSET Writers /\ S \subseteq Created /\ S \subseteq rows /\ batch \in SUBSET Writers
        /\ IsFiniteSet(S) /\ (\A a \in S : Stamps[a] \in Nat)
        /\ export[x] \in Export /\ n \in Nat
        /\ Cardinality(batch) \in Nat
    <2>1. S \subseteq Created /\ S \subseteq rows /\ Created \subseteq Writers
      BY ExportFacts
    <2>2. batch \in SUBSET Writers
      BY <2>1
    <2>3. IsFiniteSet(S) /\ Cardinality(batch) \in Nat
      BY <2>1, <2>2, ExportFacts
    <2>4. export[x] \in Export
      BY <1>2, ExportFacts DEF Paging
    <2>5. QED
      BY <2>1, <2>2, <2>3, <2>4, ExportFacts DEF Export
  <1>4. /\ export'[x].pc = (IF Cardinality(batch) < BATCH_SIZE THEN "closed" ELSE "page")
        /\ export'[x].skip = n + Cardinality(batch)
        /\ export'[x].from = export[x].from /\ export'[x].to = export[x].to
        /\ export'[x] # Null
    <2>1. export'[x] = [export[x] EXCEPT
                  !.skip = n + Cardinality(batch),
                  !.pc = IF Cardinality(batch) < BATCH_SIZE THEN "closed" ELSE "page"]
      BY <1>1 DEF TypeOK
    <2>3. n + Cardinality(batch) \in Nat
          /\ (IF Cardinality(batch) < BATCH_SIZE THEN "closed" ELSE "page") \in {"closed", "page"}
      BY <1>3
    <2>4. PICK k \in Nat : k = n + Cardinality(batch)
      BY <2>3
    <2>5. PICK pc \in {"closed", "page"} :
             pc = IF Cardinality(batch) < BATCH_SIZE THEN "closed" ELSE "page"
      BY <2>3
    <2>6. PICK e \in Export : e = export[x]
      BY <1>3
    <2>7. /\ export'[x] \in Export
          /\ export'[x].pc = pc /\ export'[x].skip = k
          /\ export'[x].from = export[x].from /\ export'[x].to = export[x].to
      <3>1. export'[x] = [e EXCEPT !.skip = k, !.pc = pc]
        BY <2>1, <2>4, <2>5, <2>6
      <3>2. /\ [e EXCEPT !.skip = k, !.pc = pc] \in Export
            /\ [e EXCEPT !.skip = k, !.pc = pc].pc = pc
            /\ [e EXCEPT !.skip = k, !.pc = pc].skip = k
            /\ [e EXCEPT !.skip = k, !.pc = pc].from = e.from
            /\ [e EXCEPT !.skip = k, !.pc = pc].to = e.to
        BY DEF Export
      <3>3. QED
        BY <2>6, <3>1, <3>2
    <2>8. QED
      BY <2>4, <2>5, <2>7, NullIsNone
  <1>5. \A w \in Writers : /\ sent'[x][w] = IF w \in batch THEN sent[x][w] + 1 ELSE sent[x][w]
                           /\ sent[x][w] \in Nat
    BY <1>1 DEF TypeOK
  <1>6. Listed(x)' = S /\ \A w \in Writers : InRange(x, w)' <=> InRange(x, w)
    BY <1>2, <1>4 DEF Listed, InRange
  <1>7. Untied(x)' <=> Untied(x)
    BY <1>2 DEF Untied
  <1>8. wanted'[x] \subseteq Writers /\ \A w \in wanted'[x] : InRange(x, w)'
    BY <1>2, <1>6 DEF ExportInv, TypeOK
  <1>9. /\ wanted'[x] \cup removed'[x] \cup added'[x] \cup {w \in Writers : sent'[x][w] # 0} \subseteq Created'
        /\ removed'[x] \cap rows' = {}
    <2>1. wanted[x] \cup removed[x] \cup added[x] \cup {w \in Writers : sent[x][w] # 0} \subseteq Created
      BY DEF ExportInv
    <2>2. {w \in Writers : sent'[x][w] # 0} \subseteq Created
      BY <1>3, <1>5, <2>1
    <2>3. QED
      BY <1>2, <2>1, <2>2 DEF ExportInv, Stamped
  <1>10. ASSUME Untied(x)
         PROVE  /\ OnTrack(x)'
                /\ Cardinality(batch) < BATCH_SIZE => Faithful(x)'
    <2>1. PICK T \in SUBSET S :
             /\ First(S, n, Stamps, T)
             /\ Cardinality(Missed(x, T)) <= Cardinality(removed[x])
             /\ \A v \in Writers :
                    sent[x][v] <= Cardinality(added[x]) + (IF v \in T \/ v \notin rows THEN 1 ELSE 0)
      BY <1>2, <1>10, OnTrackFacts
    <2>2. skipped = T
      <3>1. First(S, n, Stamps, skipped)
        BY <1>1, <1>3, LeastIsFirst
      <3>2. Distinct(S, Stamps)
        BY <1>2, <1>10, OnTrackFacts
      <3> HIDE DEF S, n
      <3>3. QED
        BY <1>3, <2>1, <3>1, <3>2, FirstUnique
    <2>3. /\ First(S, n + Cardinality(batch), Stamps, T \cup batch)
          /\ Cardinality(batch) < BATCH_SIZE => T \cup batch = S
      <3>1. First(S \ T, BATCH_SIZE, Stamps, batch)
        <4>1. S \ T \in SUBSET Writers /\ batch \in SUBSET (S \ T) /\ Least(S \ T, BATCH_SIZE, batch)
          BY <1>1, <1>3, <2>2
        <4>2. QED
          BY <4>1, LeastIsFirst
      <3> HIDE DEF S, n
      <3>2. QED
        BY <1>3, <2>1, <3>1, Durations, FirstThen
    <2>4. T \cup batch \in SUBSET S
      BY <1>1, <2>1
    <2>5. Least(Listed(x), export[x].skip, T \cup batch)'
      <3>1. Least(S, n + Cardinality(batch), T \cup batch)
        BY <1>3, <2>3, <2>4, LeastIsFirst
      <3>2. QED
        BY <1>2, <1>4, <1>6, <3>1 DEF Least
    <2>6. /\ Cardinality(removed[x]) \in Nat /\ Cardinality(added[x]) \in Nat
          /\ Missed(x, T) \in SUBSET Writers
          /\ IsFiniteSet(Missed(x, T)) /\ Cardinality(Missed(x, T)) \in Nat
      <3>1. Missed(x, T) \in SUBSET Writers
        BY ExportFacts DEF Missed
      <3>2. QED
        BY <3>1, ExportFacts
    <2>7. ASSUME NEW M \in SUBSET Missed(x, T)
          PROVE  Cardinality(M) <= Cardinality(removed'[x])
      <3>1. Cardinality(M) <= Cardinality(Missed(x, T)) /\ Cardinality(M) \in Nat
        BY <2>6, FS_Subset, FS_CardinalityType
      <3>2. QED
        BY <1>2, <2>1, <2>6, <3>1
    <2>8. Missed(x, T \cup batch)' \in SUBSET Missed(x, T)
      BY <1>2, <1>5, <1>8, <2>1 DEF Missed
    <2>9. ASSUME NEW w \in Writers
          PROVE  sent'[x][w] <= Cardinality(added'[x])
                                   + (IF w \in T \cup batch \/ w \notin rows' THEN 1 ELSE 0)
      <3>1. CASE w \in batch
        <4>1. w \notin T /\ w \in rows
          BY <1>1, <1>3, <2>2, <3>1
        <4>2. QED
          BY <1>2, <1>5, <2>1, <2>6, <3>1, <4>1
      <3>2. CASE w \notin batch
        BY <1>2, <1>5, <2>1, <2>6, <3>2
      <3>3. QED
        BY <3>1, <3>2
    <2>10. OnTrack(x)'
      <3>1. T \cup batch \in SUBSET Listed(x)'
        BY <1>6, <2>4
      <3>2. Cardinality(Missed(x, T \cup batch)') <= Cardinality(removed'[x])
        BY <2>7, <2>8
      <3>3. QED
        BY <2>5, <2>9, <3>1, <3>2 DEF OnTrack
    <2>11. ASSUME Cardinality(batch) < BATCH_SIZE
           PROVE  Faithful(x)'
      <3>1. T \cup batch = S
        BY <2>3, <2>11
      <3>2. {w \in wanted'[x] : sent'[x][w] = 0} \in SUBSET Missed(x, T)
        <4>1. ASSUME NEW w \in wanted'[x], sent'[x][w] = 0
              PROVE  w \in Missed(x, T)
          <5>1. w \in Writers /\ w \notin batch /\ sent[x][w] = 0
            BY <1>5, <1>8, <4>1
          <5>2. w \in rows => w \in S
            BY <1>6, <1>8, <5>1 DEF Listed
          <5>3. QED
            BY <1>2, <3>1, <5>1, <5>2 DEF Missed
        <4>2. QED
          BY <4>1
      <3>3. \A w \in Writers : sent'[x][w] <= 1 + Cardinality(added'[x])
        <4>1. ASSUME NEW w \in Writers
              PROVE  sent'[x][w] <= 1 + Cardinality(added'[x])
          BY <1>2, <1>5, <2>6, <2>9
        <4>2. QED
          BY <4>1
      <3>4. QED
        BY <2>7, <3>2, <3>3 DEF Faithful
    <2>12. QED
      BY <2>10, <2>11
  <1>11. Listed(x)' \subseteq wanted'[x] \cup added'[x]
    BY <1>2, <1>6 DEF ExportInv
  <1>12. export'[x].pc = "closed" => Cardinality(batch) < BATCH_SIZE
    BY <1>4
  <1>13. QED
    BY <1>4, <1>7, <1>8, <1>9, <1>10, <1>11, <1>12 DEF ExportInv

LEMMA CreateRowTracks ==
    ASSUME TypeOK, TypeOK', RowsInv, RowsInv', Stamped, NEW x \in Exports, ExportInv(x),
           NEW w \in Writers, CreateRow(w)
    PROVE  ExportInv(x)'
  <1>1. PICK t \in call[w].stamp..now :
           /\ call' = [call EXCEPT ![w].pc = "setHead", ![w].timestamp = t]
           /\ added' = [y \in Exports |->
                  IF Paging(y) /\ export[y].from <= t /\ t <= export[y].to
                  THEN added[y] \cup {w} ELSE added[y]]
    BY DEF CreateRow
  <1>2. /\ w \notin Created /\ call[w] # Null
        /\ rows' = rows \cup {w} /\ removed'[x] = removed[x] /\ Steady(x)
    BY <1>1 DEF CreateRow, At, Created, Steady, Paging
  <1>3. call'[w].timestamp = t /\ w \in Created'
    <2>1. call[w] \in Call /\ call'[w] = [call[w] EXCEPT !.pc = "setHead", !.timestamp = t]
      BY <1>1, <1>2, EntryHashType DEF TypeOK
    <2>2. w \in rows'
      BY <1>2
    <2>3. QED
      BY <2>1, <2>2 DEF Call, RowsInv
  <1>4. added'[x] = IF Paging(x) /\ export[x].from <= t /\ t <= export[x].to
                    THEN added[x] \cup {w} ELSE added[x]
    BY <1>1
  <1>5. wanted[x] \cup removed[x] \cup added[x] \subseteq Created
    BY DEF ExportInv
  <1>6. /\ removed'[x] \cup added'[x] \subseteq Created'
        /\ removed'[x] \cap rows' = {}
    BY <1>2, <1>3, <1>4, <1>5 DEF Stamped, ExportInv
  <1>7. ASSUME Paging(x)
        PROVE  /\ Listed(x)' \subseteq wanted[x] \cup added'[x]
               /\ Untied(x)' => OnTrack(x)'
    <2>1. \A v \in rows : InRange(x, v)' <=> InRange(x, v)
      BY <1>2 DEF InRange, Steady, Stamped, RowsInv
    <2>2. InRange(x, w)' <=> export[x].from <= t /\ t <= export[x].to
      BY <1>2, <1>3 DEF InRange, Steady
    <2>3. \/ Listed(x)' = Listed(x) /\ added'[x] = added[x]
          \/ Listed(x)' = Listed(x) \cup {w} /\ added'[x] = added[x] \cup {w}
      <3>1. CASE InRange(x, w)'
        BY <1>2, <1>4, <1>7, <2>1, <2>2, <3>1 DEF Listed
      <3>2. CASE ~InRange(x, w)'
        BY <1>2, <1>4, <2>1, <2>2, <3>2 DEF Listed
      <3>3. QED
        BY <3>1, <3>2
    <2>4. Listed(x)' \subseteq wanted[x] \cup added'[x]
      BY <1>7, <2>3 DEF ExportInv
    <2>5. QED
      BY <1>2, <1>7, <2>3, <2>4, CreateRowOnTrack
  <1>8. QED
    BY <1>2, <1>6, <1>7, StillOnTrack

LEMMA RetireTracks ==
    ASSUME TypeOK, TypeOK', RowsInv, RowsInv', Stamped, NEW x \in Exports, ExportInv(x),
           NEW days \in Retentions, Retire(days)
    PROVE  ExportInv(x)'
  <1>1. PICK old \in SUBSET rows :
           /\ rows' = rows \ old
           /\ removed' = [y \in Exports |->
                  IF Paging(y) THEN removed[y] \cup {w \in old : InRange(y, w)} ELSE removed[y]]
    BY DEF Retire
  <1>2. call' = call /\ added'[x] = added[x] /\ Steady(x)
    BY <1>1 DEF Retire, Steady
  <1>3. /\ removed'[x] \cup added'[x] \subseteq Created'
        /\ removed'[x] \cap rows' = {}
    BY <1>1, <1>2 DEF ExportInv, RowsInv, Stamped
  <1>4. ASSUME Paging(x)
        PROVE  /\ Listed(x)' \subseteq wanted[x] \cup added'[x]
               /\ Untied(x)' => OnTrack(x)'
    <2>1. Listed(x)' \subseteq Listed(x)
      BY <1>1, <1>2 DEF Listed, InRange, Steady
    <2>2. removed'[x] = removed[x] \cup {w \in old : InRange(x, w)}
      BY <1>1, <1>4
    <2>3. QED
      BY <1>1, <1>2, <1>4, <2>1, <2>2, RetireOnTrack DEF ExportInv
  <1>5. QED
    BY <1>2, <1>3, <1>4, StillOnTrack

LEMMA NextExports ==
    ASSUME TypeOK, TypeOK', ExportsInv, [Next]_vars
    PROVE  ExportsInv'
  <1> USE DEF ExportsInv
  <1>1. RowsInv' /\ Stamped
    BY RowsAreCreated, StepStamps
  <1> SUFFICES ASSUME NEW x \in Exports PROVE ExportInv(x)'
    BY <1>1
  <1>2. ExportInv(x) /\ RowsInv
    OBVIOUS
  <1>3. ASSUME Steady(x), rows' = rows, removed'[x] = removed[x], added'[x] = added[x]
        PROVE  ExportInv(x)'
    BY <1>1, <1>2, <1>3, QuietExport
  <1>4. ASSUME NEW w \in Writers, LogStep(w)
        PROVE  ExportInv(x)'
    <2>1. CASE CreateRow(w)
      BY <1>1, <1>2, <2>1, CreateRowTracks
    <2>2. CASE ~CreateRow(w)
      <3>1. rows' = rows
        BY <1>4, <2>2, OnlyCreateRowCreates
      <3>2. UNCHANGED <<export, sent, wanted, removed, added>>
        BY <1>4, <2>2 DEF LogStep, ReadHead, ReadHeadFails, Begin, CreateFails, WriteHead,
                          WriteHeadFails, ResendHead, history
      <3>3. QED
        BY <1>3, <3>1, <3>2 DEF Steady
    <2>3. QED
      BY <2>1, <2>2
  <1>5. ASSUME NEW y \in Exports, ExportStep(y)
        PROVE  ExportInv(x)'
    <2>1. CASE y # x
      <3>1. /\ rows' = rows /\ removed' = removed /\ added' = added
            /\ export'[x] = export[x] /\ sent'[x] = sent[x] /\ wanted'[x] = wanted[x]
        BY <1>5, <2>1 DEF ExportStep, BeginExport, Page, PageFails, history, TypeOK
      <3>2. QED
        BY <1>3, <3>1 DEF Steady
    <2>2. CASE BeginExport(x)
      BY <1>1, <1>2, <2>2, BeginExportTracks
    <2>3. CASE Page(x)
      BY <1>1, <1>2, <2>3, PageTracks
    <2>4. CASE PageFails(x)
      <3>1. export[x] \in Export /\ export'[x] = [export[x] EXCEPT !.pc = "broken"]
        BY <2>4 DEF PageFails, Paging, TypeOK
      <3>2. export'[x] # Null /\ export'[x].pc = "broken"
        <4>1. [export[x] EXCEPT !.pc = "broken"] \in Export
          BY <3>1 DEF Export
        <4>2. QED
          BY <3>1, <4>1, NullIsNone DEF Export
      <3>3. /\ rows' = rows /\ removed' = removed /\ added' = added /\ sent' = sent
            /\ wanted' = wanted
        BY <2>4 DEF PageFails, history
      <3>4. /\ wanted'[x] \cup removed'[x] \cup added'[x] \cup {w \in Writers : sent'[x][w] # 0}
                  \subseteq Created'
            /\ removed'[x] \cap rows' = {}
        BY <1>1, <1>2, <3>3 DEF ExportInv, Stamped
      <3>5. ~Paging(x)'
        BY <3>2 DEF Paging
      <3>6. QED
        BY <3>2, <3>4, <3>5 DEF ExportInv
    <2>5. QED
      BY <1>5, <2>1, <2>2, <2>3, <2>4 DEF ExportStep
  <1>6. ASSUME NEW days \in Retentions, Retire(days)
        PROVE  ExportInv(x)'
    BY <1>1, <1>2, <1>6, RetireTracks
  <1>7. CASE LoseHead \/ Tick \/ UNCHANGED vars
    BY <1>3, <1>7 DEF LoseHead, Tick, vars, history, Steady
  <1>8. QED
    BY <1>4, <1>5, <1>6, <1>7 DEF Next

\* Rows that come and go between two batches of an export that runs to its end: it misses at most
\* as many of its rows as were deleted, and sends none more often than rows were inserted, plus one.
THEOREM ExportsAreFaithful == Spec => []ExportIsFaithful
  <1>1. Init => ExportsInv
    BY DEF Init, ExportsInv, RowsInv, ExportInv, Paging
  <1>2. ExportsInv => ExportIsFaithful
    BY DEF ExportsInv, ExportInv, ExportIsFaithful
  <1>3. QED
    BY <1>1, <1>2, NextExports, AuditTyped, PTL DEF Spec

=============================================================================
