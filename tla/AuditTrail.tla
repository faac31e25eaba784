------------------------------- MODULE AuditTrail -------------------------------
(***************************************************************************)
(* The audit trail of one account: logAudit (lib/services/audit.service.ts),*)
(* the streamed export (app/api/audit/export/route.ts) and the retention    *)
(* jobs (lib/jobs/workers.ts, scripts/cleanup-audit-logs.ts and             *)
(* scripts/data-retention.ts).                                             *)
(*                                                                         *)
(* An entry carries the hash of (action, time, previous hash).  The hash of *)
(* the newest entry, the head of the chain, is kept in Redis and not in the *)
(* database: a call of logAudit reads the head, inserts its row and writes  *)
(* the head, three steps between which those of other calls fall.  A head   *)
(* that is missing or cannot be read is taken for GENESIS; a head that      *)
(* cannot be written is ignored.                                           *)
(*                                                                         *)
(* A hash is represented by what it commits to: the sequence of the         *)
(* <<action, time>> it was made of, so hashes are equal exactly when their  *)
(* contents are.  Bounds: each member of Writers is one call and each of    *)
(* Exports one export, used once; MaxTime; MaxFaults.                       *)
(***************************************************************************)
EXTENDS Integers, FiniteSets, Sequences

CONSTANTS
    Writers,
    Actions,
    Exports,
    HEAD_TTL,      \* EX of the head: 30 days
    Retentions,    \* ages at which the jobs delete entries: 90 and 365 days
    BATCH_SIZE,
    MaxTime,
    MaxFaults,
    Null           \* no head; a call or an export that has not begun

ASSUME WritersAreFinite == IsFiniteSet(Writers)
ASSUME Durations == HEAD_TTL \in Nat \ {0} /\ Retentions \subseteq Nat /\ BATCH_SIZE \in Nat \ {0}
ASSUME Bounds == MaxTime \in Nat /\ MaxFaults \in Nat

GENESIS == <<>>
Hashes == Seq(Actions \X Nat)
Hash(action, time, prev) == Append(prev, <<action, time>>)

\* The head of the chain in Redis, and when it expires.
ChainHead == [hash: Hashes, until: Nat]

\* A call of logAudit, then its row: the hashed time and previous hash, and the row's own
\* timestamp.  "lost": no row was inserted; "unset": the row is there, the head was not written.
Call == [pc: {"create", "setHead", "done", "unset", "lost"},
         action: Actions, stamp: Nat, prev: Hashes, timestamp: Nat]

\* An export: its range, and the offset it has reached.
Export == [pc: {"page", "closed", "broken"}, from: Nat, to: Nat, skip: Nat]

ASSUME NullIsNone == Null \notin ChainHead \cup Call \cup Export

VARIABLES
    now,
    head,
    rows,         \* the calls whose row is in the table
    call,
    export,
    sent,         \* sent[x][w]: how often export x has sent the row of w
    faults,
    \* History: written, never read, by the actions.
    before,       \* before[w]: the calls that had written the head when w read it
    headAt,       \* when the call wrote the head
    blind,        \* calls that could not read the head
    headLost,     \* Redis has lost the head
    resent,       \* calls whose SET of the head was executed twice
    wanted,       \* wanted[x]: the rows in the range when x began
    removed,      \* removed[x]: rows in the range deleted since
    added         \* added[x]: rows in the range inserted since

history == <<before, headAt, blind, headLost, resent, wanted, removed, added>>
vars == <<now, head, rows, call, export, sent, faults, history>>

TypeOK ==
    /\ now \in Nat
    /\ head \in ChainHead \cup {Null}
    /\ rows \in SUBSET Writers
    /\ call \in [Writers -> Call \cup {Null}]
    /\ export \in [Exports -> Export \cup {Null}]
    /\ sent \in [Exports -> [Writers -> Nat]]
    /\ faults \in 0..MaxFaults
    /\ before \in [Writers -> SUBSET Writers]
    /\ headAt \in [Writers -> Nat]
    /\ blind \in SUBSET Writers
    /\ headLost \in BOOLEAN
    /\ resent \in SUBSET Writers
    /\ wanted \in [Exports -> SUBSET Writers]
    /\ removed \in [Exports -> SUBSET Writers]
    /\ added \in [Exports -> SUBSET Writers]

Init ==
    /\ now = 0
    /\ head = Null
    /\ rows = {}
    /\ call = [w \in Writers |-> Null]
    /\ export = [x \in Exports |-> Null]
    /\ sent = [x \in Exports |-> [w \in Writers |-> 0]]
    /\ faults = 0
    /\ before = [w \in Writers |-> {}]
    /\ headAt = [w \in Writers |-> 0]
    /\ blind = {}
    /\ headLost = FALSE
    /\ resent = {}
    /\ wanted = [x \in Exports |-> {}]
    /\ removed = [x \in Exports |-> {}]
    /\ added = [x \in Exports |-> {}]

At(w, pc) == call[w] # Null /\ call[w].pc = pc
Paging(x) == export[x] # Null /\ export[x].pc = "page"
InRange(x, w) == export[x].from <= call[w].timestamp /\ call[w].timestamp <= export[x].to

\* The rows an export's query selects.
Listed(x) == {w \in rows : InRange(x, w)}

Fault ==
    /\ faults < MaxFaults
    /\ faults' = faults + 1

-----------------------------------------------------------------------------
(* logAudit *)

Begin(w, action, prev) ==
    /\ call[w] = Null
    /\ call' = [call EXCEPT ![w] =
           [pc |-> "create", action |-> action, stamp |-> now, prev |-> prev, timestamp |-> 0]]
    /\ before' = [before EXCEPT ![w] = {v \in Writers : At(v, "done")}]
    /\ UNCHANGED <<now, head, rows, export, sent, headAt, headLost, resent, wanted, removed, added>>

\* getPrevHash, and the hashed payload with the time it is made.
ReadHead(w) ==
    \E action \in Actions :
        /\ Begin(w, action, IF head = Null THEN GENESIS ELSE head.hash)
        /\ UNCHANGED <<faults, blind>>

\* getPrevHash when Redis does not answer.
ReadHeadFails(w) ==
    \E action \in Actions :
        /\ Begin(w, action, GENESIS)
        /\ Fault
        /\ blind' = blind \cup {w}

EntryHash(w) == Hash(call[w].action, call[w].stamp, call[w].prev)

\* auditLog.create.  now() is taken when the insertion begins, between the hashing and the
\* moment the row can be seen.
CreateRow(w) ==
    /\ At(w, "create")
    /\ \E t \in call[w].stamp..now :
        /\ call' = [call EXCEPT ![w].pc = "setHead", ![w].timestamp = t]
        /\ added' = [x \in Exports |->
               IF Paging(x) /\ export[x].from <= t /\ t <= export[x].to
               THEN added[x] \cup {w} ELSE added[x]]
    /\ rows' = rows \cup {w}
    /\ UNCHANGED <<now, head, export, sent, faults, before, headAt, blind, headLost, resent, wanted, removed>>

\* The insertion throws, or the process dies before it: no entry.
CreateFailsSetsHead(w) ==
    /\ At(w, "create")
    /\ Fault
    /\ call' = [call EXCEPT ![w].pc = "lost"]
    /\ head' = [hash |-> EntryHash(w), until |-> now + HEAD_TTL]
    /\ UNCHANGED <<now, rows, export, sent, history>>
CreateFails(w) ==
    /\ At(w, "create")
    /\ Fault
    /\ call' = [call EXCEPT ![w].pc = "lost"]
    /\ UNCHANGED <<now, head, rows, export, sent, history>>

\* setPrevHash.
WriteHeadWrongSign(w) ==
    /\ At(w, "setHead")
    /\ head' = [hash |-> EntryHash(w), until |-> now - HEAD_TTL]
    /\ headAt' = [headAt EXCEPT ![w] = now]
    /\ call' = [call EXCEPT ![w].pc = "done"]
    /\ UNCHANGED <<now, rows, export, sent, faults, before, blind, headLost, resent, wanted, removed, added>>
WriteHeadOnce(w) ==
    /\ At(w, "setHead")
    /\ head' = IF head = Null THEN [hash |-> EntryHash(w), until |-> now + HEAD_TTL] ELSE head
    /\ headAt' = [headAt EXCEPT ![w] = now]
    /\ call' = [call EXCEPT ![w].pc = "done"]
    /\ UNCHANGED <<now, rows, export, sent, faults, before, blind, headLost, resent, wanted, removed, added>>
WriteHeadKeepsTtl(w) ==
    /\ At(w, "setHead")
    /\ head' = [hash |-> EntryHash(w),
                until |-> IF head = Null THEN now + HEAD_TTL ELSE head.until]
    /\ headAt' = [headAt EXCEPT ![w] = now]
    /\ call' = [call EXCEPT ![w].pc = "done"]
    /\ UNCHANGED <<now, rows, export, sent, faults, before, blind, headLost, resent, wanted, removed, added>>
WriteHead(w) ==
    /\ At(w, "setHead")
    /\ head' = [hash |-> EntryHash(w), until |-> now + HEAD_TTL]
    /\ headAt' = [headAt EXCEPT ![w] = now]
    /\ call' = [call EXCEPT ![w].pc = "done"]
    /\ UNCHANGED <<now, rows, export, sent, faults, before, blind, headLost, resent, wanted, removed, added>>

\* The answer to the SET is lost with the connection, and the client sends it again when that is
\* back, whatever head has been written since.
ResendHead(w) ==
    /\ At(w, "done") /\ w \notin resent
    /\ Fault
    /\ head' = [hash |-> EntryHash(w), until |-> now + HEAD_TTL]
    /\ resent' = resent \cup {w}
    /\ UNCHANGED <<now, rows, call, export, sent, before, headAt, blind, headLost, wanted, removed, added>>

\* Redis does not answer, or the process dies: the row stays without its successor's link.
WriteHeadFails(w) ==
    /\ At(w, "setHead")
    /\ Fault
    /\ call' = [call EXCEPT ![w].pc = "unset"]
    /\ UNCHANGED <<now, head, rows, export, sent, history>>

-----------------------------------------------------------------------------
(* Retention *)

\* deleteMany({ timestamp: { lt: cutoff } }), by the worker or by the scripts.
Retire(days) ==
    /\ LET old == {w \in rows : call[w].timestamp < now - days}
       IN  /\ old # {}
           /\ rows' = rows \ old
           /\ removed' = [x \in Exports |->
                  IF Paging(x) THEN removed[x] \cup {w \in old : InRange(x, w)} ELSE removed[x]]
    /\ UNCHANGED <<now, head, call, export, sent, faults, before, headAt, blind, headLost, resent, wanted, added>>

-----------------------------------------------------------------------------
(* The export *)

\* from and to are parameters; to may lie ahead, and is the present if it is not given.
BeginExport(x) ==
    /\ export[x] = Null
    /\ \E from \in {0, now}, to \in {now, MaxTime} :
        /\ export' = [export EXCEPT ![x] = [pc |-> "page", from |-> from, to |-> to, skip |-> 0]]
        /\ wanted' = [wanted EXCEPT ![x] =
               {w \in rows : from <= call[w].timestamp /\ call[w].timestamp <= to}]
    /\ UNCHANGED <<now, head, rows, call, sent, faults, before, headAt, blind, headLost, resent, removed, added>>

\* Least(S, n, T): T is a set of n members of S (all of them if there are fewer) that come first
\* in an order by timestamp; entries with equal timestamps come in any order.
Least(S, n, T) ==
    /\ Cardinality(T) = IF Cardinality(S) < n THEN Cardinality(S) ELSE n
    /\ \A a \in T, b \in S \ T : call[a].timestamp <= call[b].timestamp

\* One batch: findMany with skip and take, ordered by timestamp; a batch that is not full is
\* the last.
PageSkipsOne(x) ==
    LET e == export[x]
        all == Listed(x)
    IN  /\ Paging(x)
        /\ \E skipped \in SUBSET all : \E batch \in SUBSET (all \ skipped) :
            /\ Least(all, e.skip, skipped)
            /\ Least(all \ skipped, BATCH_SIZE, batch)
            /\ sent' = [sent EXCEPT ![x] =
                   [w \in Writers |-> IF w \in batch THEN sent[x][w] + 1 ELSE sent[x][w]]]
            /\ export' = [export EXCEPT
                   ![x].skip = e.skip + Cardinality(batch) + 1,
                   ![x].pc = IF Cardinality(batch) < BATCH_SIZE THEN "closed" ELSE "page"]
        /\ UNCHANGED <<now, head, rows, call, faults, history>>
Page(x) ==
    LET e == export[x]
        all == Listed(x)
    IN  /\ Paging(x)
        /\ \E skipped \in SUBSET all : \E batch \in SUBSET (all \ skipped) :
            /\ Least(all, e.skip, skipped)
            /\ Least(all \ skipped, BATCH_SIZE, batch)
            /\ sent' = [sent EXCEPT ![x] =
                   [w \in Writers |-> IF w \in batch THEN sent[x][w] + 1 ELSE sent[x][w]]]
            /\ export' = [export EXCEPT
                   ![x].skip = e.skip + Cardinality(batch),
                   ![x].pc = IF Cardinality(batch) < BATCH_SIZE THEN "closed" ELSE "page"]
        /\ UNCHANGED <<now, head, rows, call, faults, history>>

\* A query throws in mid-stream: the stream is closed as if it were complete.
PageFails(x) ==
    /\ Paging(x)
    /\ Fault
    /\ export' = [export EXCEPT ![x].pc = "broken"]
    /\ UNCHANGED <<now, head, rows, call, sent, history>>

-----------------------------------------------------------------------------

\* Redis restarts without its data.
LoseHead ==
    /\ head # Null
    /\ Fault
    /\ head' = Null
    /\ headLost' = TRUE
    /\ UNCHANGED <<now, rows, call, export, sent, before, headAt, blind, resent, wanted, removed, added>>

\* Time passes; Redis drops the head when it expires.
Tick ==
    /\ now < MaxTime
    /\ now' = now + 1
    /\ head' = IF head # Null /\ head.until <= now' THEN Null ELSE head
    /\ UNCHANGED <<rows, call, export, sent, faults, history>>

LogStep(w) ==
    \/ ReadHead(w)
    \/ ReadHeadFails(w)
    \/ CreateRow(w)
    \/ CreateFails(w)
    \/ WriteHead(w)
    \/ ResendHead(w)
    \/ WriteHeadFails(w)

ExportStep(x) ==
    \/ BeginExport(x)
    \/ Page(x)
    \/ PageFails(x)

Next ==
    \/ \E w \in Writers : LogStep(w)
    \/ \E x \in Exports : ExportStep(x)
    \/ \E days \in Retentions : Retire(days)
    \/ LoseHead
    \/ Tick

Spec == Init /\ [][Next]_vars

-----------------------------------------------------------------------------
(* Properties *)

Created == {w \in Writers : At(w, "setHead") \/ At(w, "done") \/ At(w, "unset")}
WithHash(h) == {w \in Created : EntryHash(w) = h}

\* Whatever calls overlap, fail or die, an entry continues GENESIS or an entry that is no younger
\* than itself, and retention never deletes an entry and keeps the one it continues: what is left
\* of the trail has lost its old end only, never a link in the middle.
ChainIsRooted ==
    \A w \in Created : call[w].prev # GENESIS =>
        \E v \in WithHash(call[w].prev) :
            /\ call[v].timestamp <= call[w].timestamp
            /\ w \notin rows => v \notin rows

\* Two entries continue the same one only if their calls overlapped, or the first failed to write
\* the head, or the one they continue was made the head twice: by a double (same action, same
\* millisecond, same previous entry) or by a resent SET.  Calls one after the other form a line.
ForksNeedOverlap ==
    \A w \in Created : \A v \in before[w] :
        call[v].prev = call[w].prev /\ call[w].prev # GENESIS
            => \/ Cardinality(WithHash(call[w].prev)) > 1
               \/ WithHash(call[w].prev) \cap resent # {}

\* The chain starts afresh only when Redis failed or lost the head, or when every entry that had
\* written it did so at least HEAD_TTL ago: a trail in use is not cut.
RestartsNeedQuiet ==
    \A w \in Writers : call[w] # Null /\ call[w].prev = GENESIS =>
        \/ w \in blind \/ headLost
        \/ \A v \in before[w] : headAt[v] + HEAD_TTL <= call[w].stamp

\* No two rows that the export can have seen have the same timestamp.
Untied(x) ==
    \A v, w \in wanted[x] \cup added[x] : v # w => call[v].timestamp # call[w].timestamp

\* Offsets count rows that may come and go between two batches: an export that was not cut short
\* misses at most as many rows as were deleted from its range, and repeats at most as many as
\* were inserted, as long as no two timestamps are equal.
Faithful(x) ==
    /\ Cardinality({w \in wanted[x] : sent[x][w] = 0}) <= Cardinality(removed[x])
    /\ \A w \in Writers : sent[x][w] <= 1 + Cardinality(added[x])
ExportIsFaithful ==
    \A x \in Exports : export[x] # Null /\ export[x].pc = "closed" /\ Untied(x) => Faithful(x)

\* The invariant behind it.  An export at offset n takes the first n rows, T, for sent: of those
\* it never sent, and of the deleted ones, there are at most as many as were deleted, and a row
\* comes out of T again only when another is inserted before it.
Missed(x, T) == {w \in wanted[x] : sent[x][w] = 0 /\ (w \in T \/ w \notin rows)}
OnTrack(x) ==
    \E T \in SUBSET Listed(x) :
        /\ Least(Listed(x), export[x].skip, T)
        /\ Cardinality(Missed(x, T)) <= Cardinality(removed[x])
        /\ \A w \in Writers : sent[x][w] <= Cardinality(added[x]) + (IF w \in T \/ w \notin rows THEN 1 ELSE 0)
RowsInv == rows \subseteq Created
ExportInv(x) ==
    /\ wanted[x] \cup removed[x] \cup added[x] \cup {w \in Writers : sent[x][w] # 0} \subseteq Created
    /\ removed[x] \cap rows = {}
    /\ export[x] = Null => removed[x] = {} /\ added[x] = {} /\ \A w \in Writers : sent[x][w] = 0
    /\ Paging(x) => /\ Listed(x) \subseteq wanted[x] \cup added[x]
                    /\ \A w \in wanted[x] : InRange(x, w)
                    /\ Untied(x) => OnTrack(x)
    /\ export[x] # Null /\ export[x].pc = "closed" /\ Untied(x) => Faithful(x)
ExportsInv == RowsInv /\ \A x \in Exports : ExportInv(x)

=============================================================================
