----------------------------- MODULE DeliveryProofs -----------------------------
(* Theorems about what is delivered to others.  Webhooks: WebhookCircuit, for any number of       *)
(* workers, any threshold and any number of mishaps.  Events: Propagation over Realtime, for any  *)
(* jobs, hooks, streams and versions.                                                             *)
EXTENDS WebhookCircuit, Propagation, FiniteSetTheorems, TLAPS

-----------------------------------------------------------------------------
(* Webhooks: typing *)

LEMMA InitType == CircuitInit => CircuitTypeOK
  <1>1. Closed \in State /\ Idle \in Attempt
    BY DEF Closed, State, Idle, Attempt
  <1>2. 0 \in 0..MaxMishaps
    BY MishapsAreCounted
  <1>3. QED
    BY <1>1, <1>2 DEF CircuitInit, CircuitTypeOK

LEMMA HalfTyped ==
    ASSUME CircuitTypeOK, NEW w \in Workers, Half(w), mishaps' = mishaps + 1
    PROVE  db' \in State /\ cuts' \in 0..mishaps' /\ outrun' \in SUBSET Workers
  <1>1. /\ db.failures \in Nat /\ db \in State /\ cuts \in 0..mishaps /\ mishaps \in Nat
        /\ outrun \in SUBSET Workers /\ Holding \in SUBSET Workers
    BY MishapsAreCounted DEF CircuitTypeOK, State, Holding
  <1>2. db' \in State
    <2>1. [db EXCEPT !.failures = 0] \in State /\ [db EXCEPT !.failures = @ + 1] \in State
      BY <1>1 DEF State
    <2>2. [db EXCEPT !.open = TRUE] \in State
      BY <1>1 DEF State
    <2>3. QED
      BY <1>1, <2>1, <2>2 DEF Half
  <1>3. cuts' \in 0..mishaps' /\ outrun' \in SUBSET Workers
    BY <1>1 DEF Half, Restart
  <1>4. QED
    BY <1>2, <1>3

LEMMA HalfMirrorTyped ==
    ASSUME CircuitTypeOK, NEW w \in Workers, HalfMirror(w)
    PROVE  mirror' \in State \cup {NoMirror}
  <1>1. /\ Closed \in State /\ attempt[w].seen \in State
        /\ [failures |-> attempt[w].seen.failures, open |-> TRUE] \in State
    BY DEF CircuitTypeOK, Attempt, State, Closed
  <1>2. QED
    BY <1>1 DEF HalfMirror, CircuitTypeOK

LEMMA NextType == CircuitTypeOK /\ [CircuitNext]_circuitVars => CircuitTypeOK'
  <1> SUFFICES ASSUME CircuitTypeOK, [CircuitNext]_circuitVars PROVE CircuitTypeOK'
    OBVIOUS
  <1> USE DEF CircuitTypeOK, restarts, Restart
  <1>0. Holding \in SUBSET Workers
    BY DEF Holding
  <1>1. Closed \in State /\ Idle \in Attempt
    BY DEF Closed, State, Idle, Attempt
  <1>2. ASSUME NEW w \in Workers, WorkerStep(w)
        PROVE  CircuitTypeOK'
    <2>1. attempt[w] \in Attempt
      OBVIOUS
    <2>2. CASE Start(w)
      BY <2>1, <2>2 DEF Start, AttemptGoes, Attempt
    <2>3. CASE Delivered(w) \/ Refused(w) \/ Unreachable(w)
      BY <2>1, <2>3 DEF Delivered, Refused, Unreachable, AttemptGoes, Attempt
    <2>4. CASE SuccessRow(w)
      BY <1>0, <2>1, <2>4, MishapsAreCounted DEF SuccessRow, AttemptGoes, Attempt, State
    <2>5. CASE SuccessMirror(w)
      BY <1>1, <2>1, <2>5 DEF SuccessMirror, Return
    <2>6. CASE Increment(w)
      <3>1. db' \in State
        BY <2>6 DEF Increment, State
      <3>2. [attempt[w] EXCEPT !.pc = "failureMirror", !.seen = db'] \in Attempt
        BY <2>1, <3>1 DEF Attempt
      <3>3. QED
        BY <2>6, <3>1, <3>2 DEF Increment
    <2>7. CASE FailureMirror(w)
      <3>1. [attempt[w] EXCEPT !.pc = "trip"] \in Attempt /\ attempt[w].seen \in State
        BY <2>1 DEF Attempt
      <3>2. QED
        BY <1>1, <2>7, <3>1 DEF FailureMirror, Return, AttemptGoes
    <2>8. CASE Trip(w)
      BY <2>1, <2>8 DEF Trip, AttemptGoes, Attempt, State
    <2>9. CASE TripMirror(w)
      <3>1. [failures |-> attempt[w].seen.failures, open |-> TRUE] \in State
        BY <2>1 DEF Attempt, State
      <3>2. QED
        BY <1>1, <2>9, <3>1 DEF TripMirror, Return
    <2>10. CASE Throw(w)
      <3>1. [pc |-> "increment", inTry |-> FALSE, seen |-> Closed] \in Attempt
        BY <1>1 DEF Attempt
      <3>2. attempt' \in [Workers -> Attempt] /\ mishaps' = mishaps + 1 /\ mishaps' \in 0..MaxMishaps
        BY <1>1, <2>10, <3>1, MishapsAreCounted DEF Throw
      <3>3. QED
        BY <2>10, <3>2, HalfTyped, HalfMirrorTyped DEF Throw
    <2>11. CASE Crash(w)
      <3>1. attempt' \in [Workers -> Attempt] /\ mishaps' = mishaps + 1 /\ mishaps' \in 0..MaxMishaps
        BY <1>1, <2>11, MishapsAreCounted DEF Crash, Return
      <3>2. QED
        BY <2>11, <3>1, HalfTyped, HalfMirrorTyped DEF Crash
    <2>12. QED
      BY <1>2, <2>2, <2>3, <2>4, <2>5, <2>6, <2>7, <2>8, <2>9, <2>10, <2>11
         DEF WorkerStep, Progress
  <1>3. CASE Enable
    BY <1>0, <1>1, <1>3, MishapsAreCounted DEF Enable
  <1>4. CASE ReadRow \/ FillMirror \/ LoseMirror
    BY <1>4 DEF ReadRow, FillMirror, LoseMirror
  <1>5. CASE UNCHANGED circuitVars
    BY <1>5 DEF circuitVars
  <1>6. QED
    BY <1>2, <1>3, <1>4, <1>5 DEF CircuitNext

\* Every reachable state of the breaker is well typed.
THEOREM CircuitTyped == CircuitSpec => []CircuitTypeOK
  BY InitType, NextType, PTL DEF CircuitSpec

-----------------------------------------------------------------------------
(* Counting workers *)

\* Two disjoint sets of workers are finite and together no larger than Workers.
LEMMA TwoGroups ==
    ASSUME NEW A \in SUBSET Workers, NEW B \in SUBSET Workers, A \cap B = {}
    PROVE  /\ IsFiniteSet(A) /\ Cardinality(A) \in Nat
           /\ IsFiniteSet(B) /\ Cardinality(B) \in Nat
           /\ Cardinality(Workers) \in Nat
           /\ Cardinality(A) + Cardinality(B) <= Cardinality(Workers)
  <1>1. IsFiniteSet(A) /\ IsFiniteSet(B)
    BY WorkersAreFinite, FS_Subset
  <1>2. Cardinality(A) \in Nat /\ Cardinality(B) \in Nat /\ Cardinality(Workers) \in Nat
    BY <1>1, WorkersAreFinite, FS_CardinalityType
  <1>3. Cardinality(A \cup B) = Cardinality(A) + Cardinality(B) - Cardinality(A \cap B)
    BY <1>1, FS_Union
  <1>4. Cardinality(A \cap B) = 0
    BY FS_EmptySet
  <1>5. Cardinality(A \cup B) <= Cardinality(Workers)
    BY WorkersAreFinite, FS_Subset
  <1>6. QED
    BY <1>1, <1>2, <1>3, <1>4, <1>5

LEMMA Groups ==
    /\ Cardinality(Tripping) \in Nat /\ Cardinality(Counting) \in Nat
    /\ IsFiniteSet(Tripping) /\ IsFiniteSet(Counting)
    /\ Cardinality(Workers) \in Nat
    /\ Cardinality(Tripping) + Cardinality(Counting) <= Cardinality(Workers)
  <1>1. Tripping \in SUBSET Workers /\ Counting \in SUBSET Workers /\ Tripping \cap Counting = {}
    BY DEF Tripping, Counting, AttemptAt
  <1>2. QED
    BY <1>1, TwoGroups

LEMMA GroupsNext ==
    /\ Cardinality(Tripping') \in Nat /\ Cardinality(Counting') \in Nat
    /\ Cardinality(Workers) \in Nat
    /\ Cardinality(Tripping') + Cardinality(Counting') <= Cardinality(Workers)
  <1>1. /\ Tripping' \in SUBSET Workers /\ Counting' \in SUBSET Workers
        /\ Tripping' \cap Counting' = {}
    BY DEF Tripping, Counting, AttemptAt
  <1>2. QED
    BY <1>1, TwoGroups

-----------------------------------------------------------------------------
(* The invariant *)

LEMMA InitCircuit == CircuitInit => CircuitInv
  BY Groups, ThresholdIsPositive DEF CircuitInit, CircuitInv, Closed

\* A step that leaves the row and both groups alone.
LEMMA NothingCounted ==
    ASSUME CircuitInv, UNCHANGED <<db, cuts>>, Tripping' = Tripping, Counting' = Counting
    PROVE  CircuitInv'
  BY DEF CircuitInv

\* A mishap takes at most one worker out of Tripping or into Counting, and neither when the
\* worker was about to count.
LEMMA MishapGroups ==
    ASSUME CircuitTypeOK, NEW w \in Workers, Throw(w) \/ Crash(w)
    PROVE  /\ Cardinality(Tripping) <= Cardinality(Tripping') + 1
           /\ Cardinality(Counting') <= Cardinality(Counting) + 1
           /\ AttemptAt(w, "increment") => /\ Cardinality(Tripping) <= Cardinality(Tripping')
                                           /\ Cardinality(Counting') <= Cardinality(Counting)
  <1>1. /\ \A v \in Workers : v # w => attempt'[v] = attempt[v]
        /\ attempt'[w].pc \in {"increment", "idle"}
    BY DEF Throw, Crash, Return, Idle, CircuitTypeOK
  <1>2. Tripping \ {w} \subseteq Tripping' /\ Counting' \subseteq Counting \cup {w}
    BY <1>1 DEF Tripping, Counting, AttemptAt
  <1>3. /\ IsFiniteSet(Tripping') /\ IsFiniteSet(Counting) /\ IsFiniteSet(Tripping)
        /\ IsFiniteSet(Counting') /\ Cardinality(Tripping) \in Nat /\ Cardinality(Counting) \in Nat
        /\ Cardinality(Tripping') \in Nat /\ Cardinality(Counting') \in Nat
    <2>1. Tripping' \in SUBSET Workers /\ Counting' \in SUBSET Workers
      BY DEF Tripping, Counting
    <2>2. QED
      BY <2>1, Groups, WorkersAreFinite, FS_Subset, FS_CardinalityType
  <1>4. Cardinality(Tripping) <= Cardinality(Tripping') + 1
    <2>1. Tripping \subseteq Tripping' \cup {w} /\ IsFiniteSet(Tripping' \cup {w})
      BY <1>2, <1>3, FS_AddElement
    <2>2. /\ Cardinality(Tripping' \cup {w}) \in {Cardinality(Tripping'), Cardinality(Tripping') + 1}
          /\ Cardinality(Tripping) <= Cardinality(Tripping' \cup {w})
      BY <1>3, <2>1, FS_AddElement, FS_Subset
    <2>3. QED
      BY <1>3, <2>2
  <1>5. Cardinality(Counting') <= Cardinality(Counting) + 1
    <2>1. IsFiniteSet(Counting \cup {w})
      BY <1>3, FS_AddElement
    <2>2. /\ Cardinality(Counting \cup {w}) \in {Cardinality(Counting), Cardinality(Counting) + 1}
          /\ Cardinality(Counting') <= Cardinality(Counting \cup {w})
      BY <1>2, <1>3, <2>1, FS_AddElement, FS_Subset
    <2>3. QED
      BY <1>3, <2>2
  <1>6. ASSUME AttemptAt(w, "increment")
        PROVE  /\ Cardinality(Tripping) <= Cardinality(Tripping')
               /\ Cardinality(Counting') <= Cardinality(Counting)
    <2>1. w \in Counting /\ w \notin Tripping
      BY <1>6 DEF Counting, Tripping, AttemptAt
    <2>2. Tripping \subseteq Tripping' /\ Counting' \subseteq Counting
      BY <1>2, <2>1
    <2>3. QED
      BY <1>3, <2>2, FS_Subset
  <1>7. QED
    BY <1>4, <1>5, <1>6

LEMMA MishapCircuit ==
    ASSUME CircuitTypeOK, CircuitInv, NEW w \in Workers, Throw(w) \/ Crash(w)
    PROVE  CircuitInv'
  <1> DEFINE T == CIRCUIT_BREAKER_THRESHOLD
             tripping == Cardinality(Tripping)
             counting == Cardinality(Counting)
             tripping1 == Cardinality(Tripping')
             counting1 == Cardinality(Counting')
             n == Cardinality(Workers)
  <1>0. /\ T \in Nat \ {0} /\ db.failures \in Nat /\ db.open \in BOOLEAN /\ cuts \in Nat
    BY ThresholdIsPositive, MishapsAreCounted DEF CircuitTypeOK, State
  <1>1. /\ tripping \in Nat /\ counting \in Nat /\ tripping1 \in Nat /\ counting1 \in Nat /\ n \in Nat
        /\ tripping + counting <= n /\ tripping1 + counting1 <= n
        /\ tripping <= tripping1 + 1 /\ counting1 <= counting + 1
    BY Groups, GroupsNext, MishapGroups
  <1>2. Half(w)
    BY DEF Throw, Crash
  <1>3. /\ ~db.open => db.failures < T + tripping + cuts
        /\ db.open => db.failures + counting < T + n + cuts
    BY DEF CircuitInv
  <1>4. SUFFICES /\ ~db'.open => db'.failures < T + tripping1 + cuts'
                 /\ db'.open => db'.failures + counting1 < T + n + cuts'
    BY DEF CircuitInv
  <1> HIDE DEF T, tripping, counting, tripping1, counting1, n
  <1>5. CASE UNCHANGED <<db, outrun>> /\ cuts' = cuts + 1
    BY <1>0, <1>1, <1>3, <1>5
  <1>6. CASE AttemptAt(w, "success") /\ db' = [db EXCEPT !.failures = 0] /\ Restart(1)
    <2>1. db'.failures = 0 /\ cuts' = 1
      BY <1>6 DEF Restart, CircuitTypeOK, State
    <2>2. QED
      BY <1>0, <1>1, <2>1
  <1>7. CASE AttemptAt(w, "increment") /\ db' = [db EXCEPT !.failures = @ + 1] /\ cuts' = cuts + 1
    <2>1. db'.failures = db.failures + 1 /\ db'.open = db.open
      BY <1>7 DEF CircuitTypeOK, State
    <2>2. tripping <= tripping1 /\ counting1 <= counting
      BY <1>7, MishapGroups DEF tripping, counting, tripping1, counting1
    <2>3. QED
      BY <1>0, <1>1, <1>3, <1>7, <2>1, <2>2
  <1>8. CASE AttemptAt(w, "trip") /\ db' = [db EXCEPT !.open = TRUE] /\ cuts' = cuts + 1
    <2>1. db'.failures = db.failures /\ db'.open
      BY <1>8 DEF CircuitTypeOK, State
    <2>2. QED
      BY <1>0, <1>1, <1>3, <1>8, <2>1
  <1>9. QED
    BY <1>2, <1>5, <1>6, <1>7, <1>8 DEF Half

LEMMA WorkerStepCircuit ==
    ASSUME CircuitTypeOK, CircuitInv, NEW w \in Workers, WorkerStep(w)
    PROVE  CircuitInv'
  <1> DEFINE T == CIRCUIT_BREAKER_THRESHOLD
  <1>0. /\ T \in Nat \ {0} /\ db.failures \in Nat /\ db.open \in BOOLEAN
        /\ attempt[w] \in Attempt /\ cuts \in Nat
    BY ThresholdIsPositive, MishapsAreCounted DEF CircuitTypeOK, State
  <1> USE DEF restarts, Restart
  <1>1. CASE Start(w)
    <2>1. Tripping' = Tripping
      BY <1>1 DEF Start, AttemptGoes, AttemptAt, Tripping, CircuitTypeOK, Attempt
    <2>2. QED
      BY <1>1, <2>1 DEF Start, CircuitInv
  <1>2. CASE Delivered(w)
    <2>1. Tripping' = Tripping
      BY <1>2 DEF Delivered, AttemptAt, Tripping, CircuitTypeOK, Attempt
    <2>2. w \in Counting /\ Counting' = Counting \ {w}
      BY <1>2 DEF Delivered, AttemptAt, Counting, CircuitTypeOK, Attempt
    <2>3. Cardinality(Counting') = Cardinality(Counting) - 1
      BY <2>2, Groups, FS_RemoveElement
    <2>4. QED
      BY <1>0, <1>2, <2>1, <2>3, Groups, GroupsNext DEF Delivered, CircuitInv
  <1>3. CASE Refused(w) \/ Unreachable(w)
    <2>1. Tripping' = Tripping /\ Counting' = Counting
      BY <1>3 DEF Refused, Unreachable, AttemptGoes, AttemptAt, Tripping, Counting, CircuitTypeOK,
                  Attempt
    <2>2. QED
      BY <1>3, <2>1, NothingCounted DEF Refused, Unreachable
  <1>4. CASE SuccessRow(w)
    <2>1. db'.failures = 0 /\ db'.open = db.open
      BY <1>4 DEF SuccessRow, CircuitTypeOK, State
    <2>2. QED
      BY <1>0, <1>4, <2>1, GroupsNext DEF SuccessRow, CircuitInv
  <1>5. CASE SuccessMirror(w) \/ TripMirror(w)
    <2>1. Tripping' = Tripping /\ Counting' = Counting
      BY <1>5 DEF SuccessMirror, TripMirror, Return, Idle, AttemptAt, Tripping, Counting,
                  CircuitTypeOK
    <2>2. QED
      BY <1>5, <2>1, NothingCounted DEF SuccessMirror, TripMirror
  <1>6. CASE Increment(w)
    <2>1. /\ db'.failures = db.failures + 1 /\ db'.open = db.open
          /\ attempt'[w].pc = "failureMirror" /\ attempt'[w].seen = db'
          /\ \A v \in Workers : v # w => attempt'[v] = attempt[v]
      BY <1>6 DEF Increment, CircuitTypeOK, State, Attempt
    <2>2. w \in Counting /\ w \notin Tripping /\ Counting' = Counting \ {w}
      BY <1>6, <2>1 DEF Increment, AttemptAt, Counting, Tripping
    <2>3. Cardinality(Counting') = Cardinality(Counting) - 1
      BY <2>2, Groups, FS_RemoveElement
    <2>4. CASE db.failures + 1 >= T /\ ~db.open
      <3>1. Tripping' = Tripping \cup {w}
        BY <2>1, <2>4 DEF AttemptAt, Tripping, Trips
      <3>2. Cardinality(Tripping') = Cardinality(Tripping) + 1
        BY <2>2, <3>1, Groups, FS_AddElement
      <3>3. QED
        BY <1>0, <1>6, <2>1, <2>4, <3>2, Groups DEF Increment, CircuitInv
    <2>5. CASE db.failures + 1 < T /\ ~db.open
      BY <1>0, <1>6, <2>1, <2>5, GroupsNext DEF Increment, CircuitInv
    <2>6. CASE db.open
      BY <1>0, <1>6, <2>1, <2>3, <2>6, Groups DEF Increment, CircuitInv
    <2>7. QED
      BY <1>0, <2>4, <2>5, <2>6
  <1>7. CASE FailureMirror(w)
    <2>1. CASE Trips(attempt[w].seen)
      <3>1. /\ attempt'[w].pc = "trip" /\ attempt'[w].seen = attempt[w].seen
            /\ \A v \in Workers : v # w => attempt'[v] = attempt[v]
        BY <1>0, <1>7, <2>1 DEF FailureMirror, AttemptGoes, CircuitTypeOK, Attempt
      <3>2. Tripping' = Tripping /\ Counting' = Counting
        BY <1>7, <2>1, <3>1 DEF FailureMirror, AttemptAt, Tripping, Counting, Trips
      <3>3. QED
        BY <1>7, <3>2, NothingCounted DEF FailureMirror
    <2>2. CASE ~Trips(attempt[w].seen)
      <3>1. /\ attempt'[w].pc = "idle"
            /\ \A v \in Workers : v # w => attempt'[v] = attempt[v]
        BY <1>7, <2>2 DEF FailureMirror, Return, Idle, CircuitTypeOK
      <3>2. Tripping' = Tripping /\ Counting' = Counting
        BY <1>7, <2>2, <3>1 DEF FailureMirror, AttemptAt, Tripping, Counting
      <3>3. QED
        BY <1>7, <3>2, NothingCounted DEF FailureMirror
    <2>3. QED
      BY <2>1, <2>2
  <1>8. CASE Trip(w)
    <2>1. db'.failures = db.failures /\ db'.open = TRUE
      BY <1>8 DEF Trip, CircuitTypeOK, State
    <2>2. Counting' = Counting
      BY <1>8 DEF Trip, AttemptGoes, AttemptAt, Counting, CircuitTypeOK, Attempt
    <2>3. QED
      BY <1>0, <1>8, <2>1, <2>2, Groups DEF Trip, CircuitInv
  <1>9. CASE Throw(w) \/ Crash(w)
    BY <1>9, MishapCircuit
  <1>10. QED
    BY <1>1, <1>2, <1>3, <1>4, <1>5, <1>6, <1>7, <1>8, <1>9 DEF WorkerStep, Progress

LEMMA NextCircuit == CircuitTypeOK /\ CircuitInv /\ [CircuitNext]_circuitVars => CircuitInv'
  <1> SUFFICES ASSUME CircuitTypeOK, CircuitInv, [CircuitNext]_circuitVars PROVE CircuitInv'
    OBVIOUS
  <1>1. CASE Enable
    BY <1>1, GroupsNext, ThresholdIsPositive DEF Enable, Restart, Closed, CircuitInv
  <1>2. CASE ReadRow \/ FillMirror \/ LoseMirror \/ UNCHANGED circuitVars
    <2>1. UNCHANGED <<db, attempt, cuts>>
      BY <1>2 DEF ReadRow, FillMirror, LoseMirror, circuitVars, restarts
    <2>2. Tripping' = Tripping /\ Counting' = Counting
      BY <2>1 DEF Tripping, Counting, AttemptAt
    <2>3. QED
      BY <2>1, <2>2, NothingCounted
  <1>3. QED
    BY <1>1, <1>2, WorkerStepCircuit DEF CircuitNext

\* Failures beyond the threshold are accounted for by workers about to trip the breaker or,
\* once it is open, by those still under way.
THEOREM CircuitInvariant == CircuitSpec => []CircuitInv
  <1>1. CircuitTypeOK /\ CircuitInv /\ [CircuitNext]_circuitVars => CircuitInv'
    BY NextCircuit
  <1>2. QED
    BY <1>1, InitCircuit, CircuitTyped, PTL DEF CircuitSpec

\* When no recording is in progress, an endpoint whose count reached the threshold is disabled;
\* every await that threw and every process that died since the count began may delay that by
\* one failure.
THEOREM BreakerTrips == CircuitSpec => []TrippedAtThreshold
  <1>1. CircuitTypeOK /\ CircuitInv => TrippedAtThreshold
    <2> SUFFICES ASSUME CircuitTypeOK, CircuitInv, ~db.open,
                        \A w \in Workers : ~Recording(w)
                 PROVE  db.failures < CIRCUIT_BREAKER_THRESHOLD + cuts
      BY ThresholdIsPositive, MishapsAreCounted DEF TrippedAtThreshold, CircuitTypeOK, State
    <2>1. Tripping = {}
      BY DEF Tripping, Recording, AttemptAt
    <2>2. Cardinality(Tripping) = 0
      BY <2>1, FS_EmptySet
    <2>3. QED
      BY <2>2, ThresholdIsPositive, MishapsAreCounted DEF CircuitInv, CircuitTypeOK, State
  <1>2. QED
    BY <1>1, CircuitTyped, CircuitInvariant, PTL

\* With n workers the count stays below the threshold plus n, plus the mishaps since it began.
THEOREM OvershootIsBounded == CircuitSpec => []OvershootBounded
  <1>1. CircuitTypeOK /\ CircuitInv => OvershootBounded
    BY Groups, ThresholdIsPositive, MishapsAreCounted
       DEF OvershootBounded, CircuitInv, CircuitTypeOK, State
  <1>2. QED
    BY <1>1, CircuitTyped, CircuitInvariant, PTL

-----------------------------------------------------------------------------
(* Who trips the breaker *)

\* Held counts survive a step after which w holds none, when the count has not shrunk or has
\* been restarted.
LEMMA HoldersKept ==
    ASSUME CircuitTypeOK, CircuitTypeOK', HoldingInv, NEW w \in Workers,
           \A v \in Workers \ {w} : attempt'[v] = attempt[v],
           attempt'[w] = attempt[w] \/ attempt'[w].pc \notin {"failureMirror", "trip"},
           \/ db'.failures >= db.failures /\ outrun \subseteq outrun'
           \/ outrun' = outrun \cup Holding
    PROVE  HoldingInv'
  <1>1. \A v \in Workers : AttemptAt(v, "trip")' => attempt'[v] = attempt[v]
    BY DEF AttemptAt
  <1>2. \A v \in Workers : AttemptAt(v, "trip")' => Trips(attempt[v].seen)'
    BY <1>1 DEF HoldingInv, AttemptAt, Trips
  <1>3. \A v \in Holding' : attempt'[v] = attempt[v] /\ v \in Holding
    BY DEF Holding, AttemptAt
  <1>4. \A v \in Workers : attempt[v].seen.failures \in Nat
    BY DEF CircuitTypeOK, Attempt, State
  <1>5. db.failures \in Nat /\ db'.failures \in Nat
    BY DEF CircuitTypeOK, State
  <1>6. ASSUME NEW v \in Holding' \ outrun'
        PROVE  attempt'[v].seen.failures <= db'.failures
    <2>1. v \in Holding \ outrun /\ v \in Workers /\ db'.failures >= db.failures
      BY <1>3, <1>6 DEF Holding
    <2>2. attempt[v].seen.failures <= db.failures
      BY <2>1 DEF HoldingInv
    <2>3. QED
      BY <1>3, <1>4, <1>5, <2>1, <2>2
  <1>7. QED
    BY <1>2, <1>6 DEF HoldingInv

LEMMA NextHolding ==
    CircuitTypeOK /\ HoldingInv /\ [CircuitNext]_circuitVars => HoldingInv'
  <1> SUFFICES ASSUME CircuitTypeOK, HoldingInv, [CircuitNext]_circuitVars PROVE HoldingInv'
    OBVIOUS
  <1>1. CircuitTypeOK'
    BY NextType
  <1> USE DEF restarts, Restart
  <1>2. ASSUME NEW w \in Workers, WorkerStep(w)
        PROVE  HoldingInv'
    <2>0. attempt[w] \in Attempt /\ db.failures \in Nat /\ outrun \in SUBSET Workers
      BY DEF CircuitTypeOK, State
    <2>1. CASE Start(w) \/ Delivered(w) \/ Refused(w) \/ Unreachable(w) \/ Trip(w)
               \/ SuccessMirror(w) \/ TripMirror(w)
      <3>1. /\ \A v \in Workers \ {w} : attempt'[v] = attempt[v]
            /\ attempt'[w].pc \notin {"failureMirror", "trip"}
        BY <2>0, <2>1 DEF Start, Delivered, Refused, Unreachable, Trip, SuccessMirror, TripMirror,
                          AttemptGoes, Return, Idle, CircuitTypeOK, Attempt
      <3>2. db'.failures = db.failures /\ outrun' = outrun
        BY <2>0, <2>1 DEF Start, Delivered, Refused, Unreachable, Trip, SuccessMirror, TripMirror,
                          CircuitTypeOK, State
      <3>3. QED
        BY <1>1, <2>0, <3>1, <3>2, HoldersKept
    <2>2. CASE SuccessRow(w)
      <3>1. /\ \A v \in Workers \ {w} : attempt'[v] = attempt[v]
            /\ attempt'[w].pc \notin {"failureMirror", "trip"}
        BY <2>0, <2>2 DEF SuccessRow, AttemptGoes, CircuitTypeOK, Attempt
      <3>2. QED
        BY <1>1, <2>2, <3>1, HoldersKept DEF SuccessRow
    <2>3. CASE Increment(w)
      <3>1. /\ db'.failures = db.failures + 1
            /\ attempt'[w].pc = "failureMirror" /\ attempt'[w].seen = db'
            /\ outrun' = outrun \ {w}
            /\ \A v \in Workers \ {w} : attempt'[v] = attempt[v]
        BY <2>0, <2>3 DEF Increment, CircuitTypeOK, State, Attempt
      <3>2. \A v \in Workers : attempt'[v].pc = "trip" => Trips(attempt'[v].seen)
        BY <3>1 DEF HoldingInv, AttemptAt
      <3>3. ASSUME NEW v \in Holding' \ outrun'
            PROVE  attempt'[v].seen.failures <= db'.failures
        <4>1. CASE v = w
          BY <2>0, <3>1, <4>1
        <4>2. CASE v # w
          <5>1. v \in Holding \ outrun /\ v \in Workers /\ attempt'[v] = attempt[v]
            BY <3>1, <3>3, <4>2 DEF Holding, AttemptAt
          <5>2. attempt[v].seen.failures <= db.failures /\ attempt[v].seen.failures \in Nat
            BY <5>1 DEF HoldingInv, CircuitTypeOK, Attempt, State
          <5>3. QED
            BY <2>0, <3>1, <5>1, <5>2
        <4>3. QED
          BY <4>1, <4>2
      <3>4. QED
        BY <3>2, <3>3 DEF HoldingInv, AttemptAt, Trips
    <2>4. CASE FailureMirror(w)
      <3>1. UNCHANGED <<db, outrun>>
        BY <2>4 DEF FailureMirror
      <3>2. CASE ~Trips(attempt[w].seen)
        <4>1. /\ \A v \in Workers \ {w} : attempt'[v] = attempt[v]
              /\ attempt'[w].pc \notin {"failureMirror", "trip"}
          BY <2>4, <3>2 DEF FailureMirror, Return, Idle, CircuitTypeOK
        <4>2. QED
          BY <1>1, <2>0, <3>1, <4>1, HoldersKept
      <3>3. CASE Trips(attempt[w].seen)
        <4>1. /\ \A v \in Workers : attempt'[v].seen = attempt[v].seen
              /\ \A v \in Workers \ {w} : attempt'[v] = attempt[v]
              /\ AttemptAt(w, "failureMirror") /\ attempt'[w].pc = "trip"
          BY <2>0, <2>4, <3>3 DEF FailureMirror, AttemptGoes, AttemptAt, CircuitTypeOK, Attempt
        <4>2. \A v \in Workers : attempt'[v].pc = "trip" => Trips(attempt'[v].seen)
          BY <3>3, <4>1 DEF HoldingInv, AttemptAt
        <4>3. Holding' \subseteq Holding /\ Holding \subseteq Workers
          BY <4>1 DEF Holding, AttemptAt
        <4>4. QED
          BY <3>1, <4>1, <4>2, <4>3 DEF HoldingInv, AttemptAt, Trips
      <3>4. QED
        BY <3>2, <3>3
    <2>5. CASE Throw(w) \/ Crash(w)
      <3>1. /\ \A v \in Workers \ {w} : attempt'[v] = attempt[v]
            /\ attempt'[w].pc \notin {"failureMirror", "trip"}
        BY <2>5 DEF Throw, Crash, Return, Idle, CircuitTypeOK
      <3>2. \/ db'.failures >= db.failures /\ outrun \subseteq outrun'
            \/ outrun' = outrun \cup Holding
        BY <2>0, <2>5 DEF Throw, Crash, Half, CircuitTypeOK, State
      <3>3. QED
        BY <1>1, <3>1, <3>2, HoldersKept
    <2>6. QED
      BY <1>2, <2>1, <2>2, <2>3, <2>4, <2>5 DEF WorkerStep, Progress
  <1>3. CASE Enable
    <2>1. Holding' = Holding /\ outrun' = outrun \cup Holding /\ attempt' = attempt
      BY <1>3 DEF Enable, Holding, AttemptAt
    <2>2. QED
      BY <2>1 DEF HoldingInv, AttemptAt, Trips
  <1>4. CASE ReadRow \/ FillMirror \/ LoseMirror \/ UNCHANGED circuitVars
    <2>1. UNCHANGED <<db, attempt, outrun>>
      BY <1>4 DEF ReadRow, FillMirror, LoseMirror, circuitVars
    <2>2. QED
      BY <2>1 DEF HoldingInv, Holding, AttemptAt, Trips
  <1>5. QED
    BY <1>2, <1>3, <1>4 DEF CircuitNext

\* Below the threshold an endpoint is disabled only by a worker whose count was restarted under
\* its hands, however many workers, successes, re-enablings and mishaps there are.
THEOREM EarlyTripsAreOutrun == CircuitSpec => EarlyTripIsOutrun
  <1>1. CircuitInit => HoldingInv
    BY DEF CircuitInit, HoldingInv, Holding, AttemptAt, Idle
  <1>2. CircuitTypeOK /\ HoldingInv /\ [CircuitNext]_circuitVars => HoldingInv'
    BY NextHolding
  <1>3. ASSUME CircuitTypeOK, HoldingInv, [CircuitNext]_circuitVars,
               ~db.open, db'.open, db.failures < CIRCUIT_BREAKER_THRESHOLD
        PROVE  \E w \in outrun : AttemptAt(w, "trip") /\ ~AttemptAt(w, "trip")'
    <2>1. db'.open # db.open /\ db \in State
      BY <1>3 DEF CircuitTypeOK
    <2>2. ~(Enable \/ ReadRow \/ FillMirror \/ LoseMirror \/ UNCHANGED circuitVars)
      BY <1>3 DEF Enable, Closed, ReadRow, FillMirror, LoseMirror, circuitVars
    <2>3. PICK w \in Workers : WorkerStep(w)
      BY <1>3, <2>2 DEF CircuitNext
    <2>4. ~(Start(w) \/ Delivered(w) \/ Refused(w) \/ Unreachable(w) \/ SuccessRow(w)
            \/ SuccessMirror(w) \/ Increment(w) \/ FailureMirror(w) \/ TripMirror(w))
      BY <2>1 DEF Start, Delivered, Refused, Unreachable, SuccessRow, SuccessMirror, Increment,
                  FailureMirror, TripMirror, State
    <2>5. Throw(w) \/ Crash(w) => AttemptAt(w, "trip")
      BY <2>1 DEF Throw, Crash, Half, State
    <2>6. Trip(w) \/ (AttemptAt(w, "trip") /\ (Throw(w) \/ Crash(w)))
      BY <2>3, <2>4, <2>5 DEF WorkerStep, Progress
    <2>7. AttemptAt(w, "trip") /\ ~AttemptAt(w, "trip")'
      BY <1>3, <2>6 DEF Trip, Throw, Crash, AttemptGoes, Return, Idle, AttemptAt, CircuitTypeOK,
                        Attempt
    <2>8. attempt[w].seen.failures >= CIRCUIT_BREAKER_THRESHOLD /\ w \in Holding
      BY <1>3, <2>7 DEF HoldingInv, Trips, Holding
    <2>9. db.failures \in Nat /\ attempt[w].seen.failures \in Nat
      BY <1>3 DEF CircuitTypeOK, State, Attempt
    <2>10. w \in outrun
      BY <1>3, <2>8, <2>9, ThresholdIsPositive DEF HoldingInv
    <2>11. QED
      BY <2>7, <2>10
  <1>4. CircuitTypeOK /\ HoldingInv /\ [CircuitNext]_circuitVars
        => [~db.open /\ db'.open /\ db.failures < CIRCUIT_BREAKER_THRESHOLD
              => \E w \in outrun : AttemptAt(w, "trip") /\ ~AttemptAt(w, "trip")']_circuitVars
    BY <1>3
  <1>5. QED
    BY <1>1, <1>2, <1>4, CircuitTyped, PTL DEF CircuitSpec, EarlyTripIsOutrun

-----------------------------------------------------------------------------
(* Events: the invariant, which is inductive as it stands *)

PropagationInv ==
    /\ TypeOK
    /\ SubscriptionsReleased
    /\ AnnouncedUnlessInterrupted
    /\ OpenStreamsAreHeld

LEMMA PropagationInit ==
    Init => PropagationInv
  <1> SUFFICES ASSUME Init
               PROVE  PropagationInv
    OBVIOUS
  <1>1. RealtimeTypeOK
    BY FaultsAreCounted DEF Init, RealtimeInit, RealtimeTypeOK
  <1>2. 0 \in Versions
    BY VersionsAreCounted DEF Versions
  <1>3. /\ job \in [Jobs -> Job]
        /\ \A j \in Jobs : job[j].failures # ATTEMPTS /\ job[j].pc # "failed"
    BY <1>2, AttemptsArePositive DEF Init, Job
  <1>4. hook \in [Hooks -> Hook]
    BY <1>2 DEF Init, Hook
  <1>5. TypeOK
    BY <1>1, <1>2, <1>3, <1>4 DEF Init, TypeOK
  <1>6. QED
    BY <1>5 DEF PropagationInv, Init, RealtimeInit, SubscriptionsReleased,
                AnnouncedUnlessInterrupted,
                OpenStreamsAreHeld

-----------------------------------------------------------------------------
(* Streams *)

StreamsOK ==
    /\ RealtimeTypeOK
    /\ controller \in Streams \cup {None}
    /\ reading \in SUBSET Streams /\ overtaken \in SUBSET Streams

LEMMA CloseStream ==
    ASSUME RealtimeTypeOK, SubscriptionsReleased, NEW s \in Streams, Close(s)
    PROVE  /\ stream' \in [Streams -> {"unused", "connecting", "open", "closed"}]
           /\ subscribed' \in SUBSET Streams
           /\ inbox' \in [Streams -> SUBSET Events]
           /\ releasing' \in SUBSET Streams
           /\ hasty' \in SUBSET Streams /\ abandoned' \in SUBSET Streams
           /\ SubscriptionsReleased'
           /\ stream'[s] = "closed" /\ \A r \in Streams \ {s} : stream'[r] = stream[r]
  BY DEF Close, RealtimeTypeOK, SubscriptionsReleased

LEMMA OpenStream ==
    ASSUME RealtimeTypeOK, SubscriptionsReleased, NEW s \in Streams, Open(s)
    PROVE  /\ stream' \in [Streams -> {"unused", "connecting", "open", "closed"}]
           /\ subscribed' \in SUBSET Streams
           /\ inbox' \in [Streams -> SUBSET Events]
           /\ releasing' \in SUBSET Streams
           /\ hasty' \in SUBSET Streams /\ abandoned' \in SUBSET Streams
           /\ SubscriptionsReleased'
           /\ \A r \in Streams \ {s} : stream'[r] = stream[r]
  BY DEF Open, RealtimeTypeOK, SubscriptionsReleased

LEMMA FaultCounted ==
    ASSUME RealtimeTypeOK, Fault
    PROVE  faults' \in 0..MaxFaults
  BY FaultsAreCounted DEF RealtimeTypeOK, Fault

LEMMA PublishTyped ==
    ASSUME RealtimeTypeOK, NEW e \in Events, Publish(e)
    PROVE  inbox' \in [Streams -> SUBSET Events]
  BY DEF RealtimeTypeOK, Publish

LEMMA NextStreams ==
    ASSUME StreamsOK, SubscriptionsReleased, OpenStreamsAreHeld, [Next]_vars
    PROVE  StreamsOK' /\ SubscriptionsReleased' /\ OpenStreamsAreHeld'
  <1> USE DEF StreamsOK
  \* A step that leaves the streams and the page's part of them alone.
  <1>1. ASSUME UNCHANGED <<connections, controller, reading, overtaken>>,
               inbox' \in [Streams -> SUBSET Events], faults' \in 0..MaxFaults
        PROVE  StreamsOK' /\ SubscriptionsReleased' /\ OpenStreamsAreHeld'
    BY <1>1 DEF connections, RealtimeTypeOK, SubscriptionsReleased, OpenStreamsAreHeld
  <1>2. "erp.doc_updated" \in Events /\ "flag.updated" \in Events
    BY EventsAreNamed
  <1>3. inbox \in [Streams -> SUBSET Events] /\ faults \in 0..MaxFaults
    BY DEF RealtimeTypeOK
  <1>4. ASSUME NEW e \in Events, PublishFails(e)
        PROVE  inbox' \in [Streams -> SUBSET Events] /\ faults' \in 0..MaxFaults
    BY <1>3, <1>4, PublishTyped, FaultCounted DEF PublishFails
  <1>5. ASSUME NEW j \in Jobs, JobStep(j)
        PROVE  StreamsOK' /\ SubscriptionsReleased' /\ OpenStreamsAreHeld'
    <2>1. CASE \/ Enqueue(j) \/ Fetch(j) \/ CompareHash(j)
               \/ StoreDoc(j) \/ StoreHash(j)
      BY <1>1, <1>3, <2>1 DEF Enqueue, Fetch, CompareHash, StoreDoc, StoreHash, streams, page
    <2>2. CASE PublishDoc(j)
      <3>1. inbox' \in [Streams -> SUBSET Events]
        BY <1>2, <2>2, PublishTyped DEF PublishDoc
      <3>2. QED
        BY <1>1, <1>3, <2>2, <3>1 DEF PublishDoc, page
    <2>3. CASE PublishDocFails(j)
      <3>1. inbox' \in [Streams -> SUBSET Events] /\ faults' \in 0..MaxFaults
        BY <1>2, <1>4, <2>3 DEF PublishDocFails
      <3>2. QED
        BY <1>1, <2>3, <3>1 DEF PublishDocFails, page
    <2>4. CASE AttemptFails(j)
      BY <1>1, <1>3, <2>4, FaultCounted DEF AttemptFails, streams, page
    <2>5. QED
      BY <1>5, <2>1, <2>2, <2>3, <2>4 DEF JobStep
  <1>6. ASSUME NEW a \in Changes, ChangeStep(a)
        PROVE  StreamsOK' /\ SubscriptionsReleased' /\ OpenStreamsAreHeld'
    <2>1. CASE SetFlag(a)
      BY <1>1, <1>3, <2>1 DEF SetFlag, streams, page
    <2>2. CASE PublishFlag(a)
      <3>1. inbox' \in [Streams -> SUBSET Events]
        BY <1>2, <2>2, PublishTyped DEF PublishFlag
      <3>2. QED
        BY <1>1, <1>3, <2>2, <3>1 DEF PublishFlag, page
    <2>3. CASE PublishFlagFails(a)
      <3>1. inbox' \in [Streams -> SUBSET Events] /\ faults' \in 0..MaxFaults
        BY <1>2, <1>4, <2>3 DEF PublishFlagFails
      <3>2. QED
        BY <1>1, <2>3, <3>1 DEF PublishFlagFails, page
    <2>4. QED
      BY <1>6, <2>1, <2>2, <2>3 DEF ChangeStep
  <1>7. ASSUME NEW h \in Hooks, HookStep(h)
        PROVE  StreamsOK' /\ SubscriptionsReleased' /\ OpenStreamsAreHeld'
    <2>1. CASE Mount(h)
      <3>1. CASE controller = None
        <4>1. PICK s \in Streams : Open(s) /\ controller' = s /\ reading' = reading \cup {s}
          BY <2>1, <3>1 DEF Mount
        <4>2. overtaken' = overtaken /\ faults' = faults
          BY <2>1 DEF Mount
        <4>3. \A r \in reading : stream[r] # "closed" => r \in overtaken
          BY <3>1, NoneIsAbsent DEF OpenStreamsAreHeld
        <4>4. \A r \in reading \ {s} : stream'[r] = stream[r]
          BY <4>1, OpenStream
        <4>5. OpenStreamsAreHeld'
          BY <4>1, <4>2, <4>3, <4>4 DEF OpenStreamsAreHeld
        <4>6. StreamsOK' /\ SubscriptionsReleased'
          BY <1>3, <4>1, <4>2, OpenStream DEF RealtimeTypeOK
        <4>7. QED
          BY <4>5, <4>6
      <3>2. CASE controller # None
        BY <1>1, <1>3, <2>1, <3>2 DEF Mount, streams
      <3>3. QED
        BY <3>1, <3>2
    <2>2. CASE AnswerFlags(h) \/ FetchFlagsFails(h) \/ ShowFlag(h)
      BY <1>1, <1>3, <2>2 DEF AnswerFlags, FetchFlagsFails, ShowFlag, streams
    <2>3. CASE Unmount(h)
      <3>1. CASE UNCHANGED <<streams, controller>>
        BY <1>1, <1>3, <2>3, <3>1 DEF Unmount, streams
      <3>2. CASE ~UNCHANGED <<streams, controller>>
        <4>1. /\ controller \in Streams /\ controller' = None
              /\ IF stream[controller] = "closed" THEN UNCHANGED streams ELSE Close(controller)
              /\ reading' = reading /\ overtaken' = overtaken /\ faults' = faults
          BY <2>3, <3>2 DEF Unmount
        <4>2. CASE stream[controller] = "closed"
          BY <1>3, <4>1, <4>2 DEF streams, connections, RealtimeTypeOK, SubscriptionsReleased, OpenStreamsAreHeld
        <4>3. CASE stream[controller] # "closed"
          <5>1. /\ stream'[controller] = "closed"
                /\ \A r \in Streams \ {controller} : stream'[r] = stream[r]
            BY <4>1, <4>3, CloseStream
          <5>2. OpenStreamsAreHeld'
            BY <4>1, <5>1 DEF OpenStreamsAreHeld
          <5>3. StreamsOK' /\ SubscriptionsReleased'
            BY <1>3, <4>1, <4>3, CloseStream DEF RealtimeTypeOK
          <5>4. QED
            BY <5>2, <5>3
        <4>4. QED
          BY <4>2, <4>3
      <3>3. QED
        BY <3>1, <3>2
    <2>4. QED
      BY <1>7, <2>1, <2>2, <2>3 DEF HookStep
  <1>8. ASSUME NEW s \in Streams, NetworkStep(s)
        PROVE  StreamsOK' /\ SubscriptionsReleased' /\ OpenStreamsAreHeld'
    <2>1. controller' = controller /\ reading' = reading /\ overtaken' = overtaken
      BY <1>8 DEF NetworkStep, page
    <2>2. CASE Subscribe(s) /\ UNCHANGED faults
      BY <1>3, <2>1, <2>2 DEF Subscribe, RealtimeTypeOK, SubscriptionsReleased, OpenStreamsAreHeld
    <2>3. CASE Lapse(s)
      BY <1>3, <2>1, <2>3, FaultCounted DEF Lapse, RealtimeTypeOK, SubscriptionsReleased,
                                            OpenStreamsAreHeld
    <2>4. CASE Resubscribe(s) /\ UNCHANGED faults
      BY <1>3, <2>1, <2>4 DEF Resubscribe, RealtimeTypeOK, SubscriptionsReleased, OpenStreamsAreHeld
    <2>5. CASE Release(s) /\ UNCHANGED faults
      BY <1>3, <2>1, <2>5 DEF Release, RealtimeTypeOK, SubscriptionsReleased, OpenStreamsAreHeld
    <2>6. CASE ReleaseFails(s) /\ UNCHANGED faults
      BY <1>3, <2>1, <2>6 DEF ReleaseFails, RealtimeTypeOK, SubscriptionsReleased,
                              OpenStreamsAreHeld
    <2>7. QED
      BY <1>8, <2>2, <2>3, <2>4, <2>5, <2>6 DEF NetworkStep, StreamStep
  <1>9. CASE DocumentChanges \/ WorkerDies \/ Expire \/ UNCHANGED vars
    BY <1>1, <1>3, <1>9, FaultCounted DEF DocumentChanges, WorkerDies, Expire, vars, streams, page
  <1>10. CASE ReadEvent
    BY <1>1, <1>3, <1>10 DEF ReadEvent, page
  <1>11. ASSUME NEW r \in Streams, StreamEnds(r) \/ StreamBreaks(r)
         PROVE  StreamsOK' /\ SubscriptionsReleased' /\ OpenStreamsAreHeld'
    <2>1. faults' = faults /\ r \in reading /\ reading' = reading \ {r}
      BY <1>11 DEF StreamEnds, StreamBreaks
    <2>2. Close(r) \/ UNCHANGED streams
      BY <1>11 DEF StreamEnds, StreamBreaks
    <2>3. /\ RealtimeTypeOK' /\ SubscriptionsReleased'
          /\ \A s \in Streams \ {r} : stream'[s] = stream[s]
      <3>1. CASE Close(r)
        BY <1>3, <2>1, <3>1, CloseStream DEF RealtimeTypeOK
      <3>2. CASE UNCHANGED streams
        BY <1>3, <2>1, <3>2 DEF streams, connections, RealtimeTypeOK, SubscriptionsReleased
      <3>3. QED
        BY <2>2, <3>1, <3>2
    <2>4. CASE StreamEnds(r)
      BY <2>1, <2>3, <2>4 DEF StreamEnds, OpenStreamsAreHeld
    <2>5. CASE StreamBreaks(r)
      BY <2>1, <2>3, <2>5, NoneIsAbsent DEF StreamBreaks, OpenStreamsAreHeld
    <2>6. QED
      BY <1>11, <2>4, <2>5
  <1>12. QED
    BY <1>5, <1>6, <1>7, <1>8, <1>9, <1>10, <1>11 DEF Next

-----------------------------------------------------------------------------
(* Jobs *)

\* What TypeOK says of the jobs, and the rest of it.
JobsTyped ==
    /\ job \in [Jobs -> Job]
    /\ \A j \in Jobs : /\ job[j].failures = ATTEMPTS => job[j].pc = "failed"
                       /\ job[j].pc = "failed" => job[j].failures = ATTEMPTS \/ job[j].stalled
SyncTyped ==
    /\ document \in Versions
    /\ cachedDoc \in Versions \cup {None} /\ cachedHash \in Versions \cup {None}
    /\ announced \in SUBSET Versions /\ interrupted \in SUBSET Versions
PageTyped ==
    /\ flag \in Versions
    /\ change \in [Changes -> {"unused", "publish", "done"}]
    /\ hook \in [Hooks -> Hook]
    /\ cachedFlag \in Versions \cup {None}

\* A job on which an attempt goes on has failed fewer times than it may.
LEMMA JobGoesOn ==
    ASSUME JobsTyped, NEW j \in Jobs,
           NEW p \in {"waiting", "hash", "doc", "store", "publish", "done"},
           job[j].pc # "failed", Go(j, p)
    PROVE  JobsTyped'
  <1>1. job[j] \in Job /\ job[j].failures # ATTEMPTS
    BY DEF JobsTyped
  <1>2. PICK o \in Job : o = [job[j] EXCEPT !.pc = p]
    BY <1>1 DEF Job
  <1>3. job' = [job EXCEPT ![j] = o]
    BY <1>2 DEF Go, JobsTyped
  <1>4. o.pc = p /\ o.failures = job[j].failures
    BY <1>1, <1>2 DEF Job
  <1>5. QED
    BY <1>1, <1>3, <1>4 DEF JobsTyped

LEMMA NextJobs ==
    ASSUME JobsTyped, SyncTyped, [Next]_vars
    PROVE  JobsTyped'
  <1>1. ASSUME NEW j \in Jobs, JobStep(j)
        PROVE  JobsTyped'
    <2>1. CASE Enqueue(j)
      BY <2>1, JobGoesOn DEF Enqueue, At
    <2>2. CASE Fetch(j)
      <3>1. job[j] \in Job /\ job[j].failures # ATTEMPTS
        BY <2>2 DEF JobsTyped, Fetch, At
      <3>2. PICK o \in Job : o = [job[j] EXCEPT !.pc = "hash", !.version = document]
        BY <3>1 DEF Job, SyncTyped
      <3>3. job' = [job EXCEPT ![j] = o]
        BY <2>2, <3>2 DEF Fetch, JobsTyped
      <3>4. o.pc = "hash" /\ o.failures = job[j].failures
        BY <3>1, <3>2 DEF Job
      <3>5. QED
        BY <3>1, <3>3, <3>4 DEF JobsTyped
    <2>3. CASE CompareHash(j)
      <3>1. PICK p \in {"doc", "done"} : Go(j, p)
        BY <2>3 DEF CompareHash
      <3>2. QED
        BY <2>3, <3>1, JobGoesOn DEF CompareHash, At
    <2>4. CASE StoreDoc(j)
      BY <2>4, JobGoesOn DEF StoreDoc, At
    <2>5. CASE StoreHash(j)
      BY <2>5, JobGoesOn DEF StoreHash, At
    <2>6. CASE PublishDoc(j) \/ PublishDocFails(j)
      BY <2>6, JobGoesOn DEF PublishDoc, PublishDocFails, At
    <2>7. CASE AttemptFails(j)
      <3>1. job[j] \in Job /\ job[j].failures # ATTEMPTS
        BY <2>7 DEF JobsTyped, AttemptFails, At
      <3>2. PICK n \in 0..ATTEMPTS : n = job[j].failures + 1
        BY <3>1, AttemptsArePositive DEF Job
      <3>3. PICK p \in {"failed", "waiting"} : p = IF n = ATTEMPTS THEN "failed" ELSE "waiting"
        OBVIOUS
      <3>4. PICK o \in Job : o = [job[j] EXCEPT !.failures = n, !.pc = p]
        BY <3>1 DEF Job
      <3>5. job' = [job EXCEPT ![j] = o]
        BY <2>7, <3>2, <3>3, <3>4 DEF AttemptFails, JobsTyped
      <3>6. o.pc = p /\ o.failures = n
        BY <3>1, <3>4 DEF Job
      <3>7. QED
        BY <3>3, <3>5, <3>6 DEF JobsTyped
    <2>8. QED
      BY <1>1, <2>1, <2>2, <2>3, <2>4, <2>5, <2>6, <2>7 DEF JobStep
  <1>2. CASE WorkerDies
    <2>1. DOMAIN job' = Jobs /\ job' = [j \in Jobs |-> job'[j]]
      BY <1>2 DEF WorkerDies
    <2>2. ASSUME NEW j \in Jobs
          PROVE  /\ job'[j] \in Job
                 /\ job'[j].failures = ATTEMPTS => job'[j].pc = "failed"
                 /\ job'[j].pc = "failed" => job'[j].failures = ATTEMPTS \/ job'[j].stalled
      <3>1. job[j] \in Job
        BY DEF JobsTyped
      <3>2. CASE job[j].pc \in {"hash", "doc", "store", "publish"}
        <4>1. PICK p \in {"failed", "waiting"} : p = IF job[j].stalled THEN "failed" ELSE "waiting"
          OBVIOUS
        <4>2. PICK o \in Job : o = [job[j] EXCEPT !.pc = p, !.stalled = TRUE]
          BY <3>1 DEF Job
        <4>3. job'[j] = o
          BY <1>2, <3>2, <4>1, <4>2 DEF WorkerDies
        <4>4. o.stalled = TRUE /\ o.failures = job[j].failures /\ job[j].failures # ATTEMPTS
          BY <3>1, <3>2, <4>2 DEF Job, JobsTyped
        <4>5. QED
          BY <4>3, <4>4
      <3>3. CASE job[j].pc \notin {"hash", "doc", "store", "publish"}
        <4>1. job'[j] = job[j]
          BY <1>2, <3>3 DEF WorkerDies
        <4>2. QED
          BY <3>1, <4>1 DEF JobsTyped
      <3>4. QED
        BY <3>2, <3>3
    <2>3. QED
      BY <2>1, <2>2 DEF JobsTyped
  <1>3. ASSUME UNCHANGED job
        PROVE  JobsTyped'
    BY <1>3 DEF JobsTyped
  <1>4. ASSUME NEW a \in Changes, ChangeStep(a)
        PROVE  UNCHANGED job
    BY <1>4 DEF ChangeStep, SetFlag, PublishFlag, PublishFlagFails, sync
  <1>5. ASSUME NEW h \in Hooks, HookStep(h)
        PROVE  UNCHANGED job
    BY <1>5 DEF HookStep, Mount, AnswerFlags, FetchFlagsFails, ShowFlag, Unmount, sync
  <1>6. ASSUME NEW s \in Streams, NetworkStep(s) \/ StreamEnds(s) \/ StreamBreaks(s)
        PROVE  UNCHANGED job
    BY <1>6 DEF NetworkStep, StreamEnds, StreamBreaks, sync
  <1>7. CASE DocumentChanges \/ Expire \/ ReadEvent \/ UNCHANGED vars
    BY <1>3, <1>7 DEF DocumentChanges, Expire, ReadEvent, vars, sync
  <1>8. QED
    BY <1>1, <1>2, <1>3, <1>4, <1>5, <1>6, <1>7 DEF Next

-----------------------------------------------------------------------------
(* The document, and what was said of it *)

LEMMA NextSync ==
    ASSUME JobsTyped, SyncTyped, AnnouncedUnlessInterrupted, [Next]_vars
    PROVE  SyncTyped' /\ AnnouncedUnlessInterrupted'
  <1>1. ASSUME NEW j \in Jobs, JobStep(j)
        PROVE  SyncTyped' /\ AnnouncedUnlessInterrupted'
    <2>1. job[j] \in Job /\ job[j].version \in Versions
      BY DEF JobsTyped, Job
    <2>2. \A k \in Jobs \ {j} : job'[k] = job[k]
      BY <1>1 DEF JobStep, Enqueue, Fetch, CompareHash, StoreDoc, StoreHash, PublishDoc,
                  PublishDocFails, AttemptFails, Go, JobsTyped
    \* A step that leaves the hash and what was said of it alone, of a job that had nothing to say.
    <2>3. ASSUME ~At(j, "publish"), UNCHANGED <<document, cachedHash, announced, interrupted>>,
                 cachedDoc' \in Versions \cup {None}
          PROVE  SyncTyped' /\ AnnouncedUnlessInterrupted'
      BY <2>2, <2>3 DEF SyncTyped, AnnouncedUnlessInterrupted, At
    <2>4. CASE Enqueue(j) \/ Fetch(j) \/ CompareHash(j)
      BY <2>3, <2>4 DEF Enqueue, Fetch, CompareHash, At, SyncTyped
    <2>5. CASE StoreDoc(j)
      BY <2>1, <2>3, <2>5 DEF StoreDoc, At
    <2>6. CASE StoreHash(j)
      <3>1. job'[j].pc = "publish" /\ job'[j].version = job[j].version
        BY <2>1, <2>6 DEF StoreHash, Go, Job, JobsTyped
      <3>2. AnnouncedUnlessInterrupted'
        BY <2>6, <3>1 DEF StoreHash, AnnouncedUnlessInterrupted, At
      <3>3. SyncTyped'
        BY <2>1, <2>6 DEF StoreHash, SyncTyped
      <3>4. QED
        BY <3>2, <3>3
    <2>7. CASE PublishDoc(j)
      <3>1. SyncTyped'
        BY <2>1, <2>7 DEF PublishDoc, SyncTyped
      <3>2. AnnouncedUnlessInterrupted'
        BY <2>2, <2>7 DEF PublishDoc, AnnouncedUnlessInterrupted, At
      <3>3. QED
        BY <3>1, <3>2
    <2>8. CASE PublishDocFails(j)
      <3>1. SyncTyped'
        BY <2>1, <2>8 DEF PublishDocFails, SyncTyped
      <3>2. AnnouncedUnlessInterrupted'
        BY <2>2, <2>8 DEF PublishDocFails, AnnouncedUnlessInterrupted, At
      <3>3. QED
        BY <3>1, <3>2
    <2>9. CASE AttemptFails(j)
      <3>1. document' = document /\ announced' = announced /\ ~At(j, "publish")
        BY <2>9 DEF AttemptFails, At
      <3>2. CASE UNCHANGED <<cachedHash, interrupted>>
        <4>1. cachedDoc' \in Versions \cup {None}
          BY <2>1, <2>9 DEF AttemptFails, SyncTyped
        <4>2. QED
          BY <2>3, <3>1, <3>2, <4>1
      <3>3. CASE /\ cachedHash' \in {cachedHash, job[j].version}
                 /\ interrupted' = interrupted \cup {job[j].version}
                 /\ UNCHANGED cachedDoc
        <4>1. SyncTyped'
          BY <2>1, <3>1, <3>3 DEF SyncTyped
        <4>2. AnnouncedUnlessInterrupted'
          BY <2>2, <3>1, <3>3 DEF AnnouncedUnlessInterrupted, At
        <4>3. QED
          BY <4>1, <4>2
      <3>4. QED
        BY <2>9, <3>2, <3>3 DEF AttemptFails
    <2>10. QED
      BY <1>1, <2>4, <2>5, <2>6, <2>7, <2>8, <2>9 DEF JobStep
  <1>2. CASE WorkerDies
    <2>1. /\ cachedHash' = cachedHash /\ cachedDoc' = cachedDoc /\ document' = document
          /\ announced' = announced
          /\ interrupted' = interrupted \cup {job[j].version : j \in {k \in Jobs : At(k, "publish")}}
      BY <1>2 DEF WorkerDies
    <2>2. SyncTyped'
      BY <2>1 DEF SyncTyped, JobsTyped, Job
    <2>3. AnnouncedUnlessInterrupted'
      BY <2>1 DEF AnnouncedUnlessInterrupted, At
    <2>4. QED
      BY <2>2, <2>3
  <1>3. CASE Expire
    BY <1>3 DEF Expire, SyncTyped, AnnouncedUnlessInterrupted, At
  <1>4. CASE DocumentChanges
    <2>1. document' \in Versions
      BY <1>4, VersionsAreCounted DEF DocumentChanges, SyncTyped, Versions
    <2>2. QED
      BY <1>4, <2>1 DEF DocumentChanges, SyncTyped, AnnouncedUnlessInterrupted, At
  <1>5. ASSUME UNCHANGED sync
        PROVE  SyncTyped' /\ AnnouncedUnlessInterrupted'
    BY <1>5 DEF sync, SyncTyped, AnnouncedUnlessInterrupted, At
  <1>6. ASSUME NEW a \in Changes, ChangeStep(a)
        PROVE  UNCHANGED sync
    BY <1>6 DEF ChangeStep, SetFlag, PublishFlag, PublishFlagFails
  <1>7. ASSUME NEW h \in Hooks, HookStep(h)
        PROVE  UNCHANGED sync
    BY <1>7 DEF HookStep, Mount, AnswerFlags, FetchFlagsFails, ShowFlag, Unmount
  <1>8. ASSUME NEW s \in Streams, NetworkStep(s) \/ StreamEnds(s) \/ StreamBreaks(s)
        PROVE  UNCHANGED sync
    BY <1>8 DEF NetworkStep, StreamEnds, StreamBreaks
  <1>9. CASE ReadEvent \/ UNCHANGED vars
    BY <1>5, <1>9 DEF ReadEvent, vars
  <1>10. QED
    BY <1>1, <1>2, <1>3, <1>4, <1>5, <1>6, <1>7, <1>8, <1>9 DEF Next

-----------------------------------------------------------------------------
(* The flag and the page *)

LEMMA NextPage ==
    ASSUME PageTyped, [Next]_vars
    PROVE  PageTyped'
  <1>1. 0 \in Versions
    BY VersionsAreCounted DEF Versions
  <1>2. ASSUME NEW a \in Changes, ChangeStep(a)
        PROVE  PageTyped'
    <2>1. CASE SetFlag(a)
      BY <2>1, VersionsAreCounted DEF SetFlag, PageTyped, Versions, page
    <2>2. CASE PublishFlag(a) \/ PublishFlagFails(a)
      BY <2>2 DEF PublishFlag, PublishFlagFails, PageTyped, page
    <2>3. QED
      BY <1>2, <2>1, <2>2 DEF ChangeStep
  <1>3. ASSUME NEW h \in Hooks, HookStep(h)
        PROVE  PageTyped'
    <2>1. hook[h] \in Hook
      BY DEF PageTyped
    <2>2. UNCHANGED flags
      BY <1>3 DEF HookStep, Mount, AnswerFlags, FetchFlagsFails, ShowFlag, Unmount
    <2>3. cachedFlag' \in Versions \cup {None}
      BY <1>3, <2>1 DEF HookStep, Mount, AnswerFlags, FetchFlagsFails, ShowFlag, Unmount,
                        PageTyped, Hook
    <2>4. hook' \in [Hooks -> Hook]
      <3>1. CASE Mount(h)
        <4>1. PICK o \in Hook :
                o = [hook[h] EXCEPT !.mounted = TRUE, !.shown = cachedFlag,
                                    !.fetch = IF cachedFlag = None THEN "asked" ELSE @]
          BY <2>1 DEF Hook, PageTyped
        <4>2. hook' = [hook EXCEPT ![h] = o]
          BY <3>1, <4>1 DEF Mount, PageTyped
        <4>3. QED
          BY <4>2 DEF PageTyped
      <3>2. CASE AnswerFlags(h)
        <4>1. PICK o \in Hook : o = [hook[h] EXCEPT !.fetch = "answered", !.reply = flag]
          BY <2>1 DEF Hook, PageTyped
        <4>2. hook' = [hook EXCEPT ![h] = o]
          BY <3>2, <4>1 DEF AnswerFlags, PageTyped
        <4>3. QED
          BY <4>2 DEF PageTyped
      <3>3. CASE FetchFlagsFails(h)
        <4>1. PICK o \in Hook : o = [hook[h] EXCEPT !.fetch = "none"]
          BY <2>1 DEF Hook
        <4>2. hook' = [hook EXCEPT ![h] = o]
          BY <3>3, <4>1 DEF FetchFlagsFails, PageTyped
        <4>3. QED
          BY <4>2 DEF PageTyped
      <3>4. CASE ShowFlag(h)
        <4>1. PICK o \in Hook :
                o = [hook[h] EXCEPT !.fetch = "none", !.reply = 0,
                                    !.shown = IF hook[h].mounted THEN hook[h].reply ELSE @]
          BY <1>1, <2>1 DEF Hook
        <4>2. hook' = [hook EXCEPT ![h] = o]
          BY <3>4, <4>1 DEF ShowFlag, PageTyped
        <4>3. QED
          BY <4>2 DEF PageTyped
      <3>5. CASE Unmount(h)
        <4>1. PICK o \in Hook : o = [hook[h] EXCEPT !.mounted = FALSE]
          BY <2>1 DEF Hook
        <4>2. hook' = [hook EXCEPT ![h] = o]
          BY <3>5, <4>1 DEF Unmount, PageTyped
        <4>3. QED
          BY <4>2 DEF PageTyped
      <3>6. QED
        BY <1>3, <3>1, <3>2, <3>3, <3>4, <3>5 DEF HookStep
    <2>5. QED
      BY <2>2, <2>3, <2>4 DEF PageTyped, flags
  <1>4. ASSUME UNCHANGED <<flags, hook, cachedFlag>>
        PROVE  PageTyped'
    BY <1>4 DEF flags, PageTyped
  <1>5. ASSUME NEW j \in Jobs, JobStep(j)
        PROVE  UNCHANGED <<flags, hook, cachedFlag>>
    BY <1>5 DEF JobStep, Enqueue, Fetch, CompareHash, StoreDoc, StoreHash, PublishDoc,
                PublishDocFails, AttemptFails, page
  <1>6. ASSUME NEW s \in Streams, NetworkStep(s) \/ StreamEnds(s) \/ StreamBreaks(s)
        PROVE  UNCHANGED <<flags, hook, cachedFlag>>
    BY <1>6 DEF NetworkStep, StreamEnds, StreamBreaks, page
  <1>7. CASE \/ DocumentChanges \/ WorkerDies \/ Expire \/ ReadEvent
             \/ UNCHANGED vars
    BY <1>4, <1>7 DEF DocumentChanges, WorkerDies, Expire, ReadEvent, vars, page
  <1>8. QED
    BY <1>2, <1>3, <1>4, <1>5, <1>6, <1>7 DEF Next

-----------------------------------------------------------------------------
(* The theorems *)

LEMMA TypeOKParts == TypeOK <=> StreamsOK /\ JobsTyped /\ SyncTyped /\ PageTyped
  BY DEF TypeOK, StreamsOK, JobsTyped, SyncTyped, PageTyped

LEMMA TypeOKPartsNext == TypeOK' <=> StreamsOK' /\ JobsTyped' /\ SyncTyped' /\ PageTyped'
  BY DEF TypeOK, StreamsOK, JobsTyped, SyncTyped, PageTyped

LEMMA PropagationInvariant == Spec => []PropagationInv
  <1>1. Init => PropagationInv
    BY PropagationInit
  <1>2. PropagationInv /\ [Next]_vars => PropagationInv'
    <2>1. SUFFICES ASSUME PropagationInv, [Next]_vars
                   PROVE  PropagationInv'
      OBVIOUS
    <2>2. StreamsOK /\ JobsTyped /\ SyncTyped /\ PageTyped
      BY <2>1, TypeOKParts DEF PropagationInv
    <2>3. StreamsOK' /\ SubscriptionsReleased' /\ OpenStreamsAreHeld'
      BY <2>1, <2>2, NextStreams DEF PropagationInv
    <2>4. JobsTyped' /\ SyncTyped' /\ AnnouncedUnlessInterrupted'
      BY <2>1, <2>2, NextJobs, NextSync DEF PropagationInv
    <2>5. PageTyped'
      BY <2>1, <2>2, NextPage
    <2>6. QED
      BY <2>3, <2>4, <2>5, TypeOKPartsNext DEF PropagationInv
  <1>3. QED
    BY <1>1, <1>2, PTL DEF Spec

\* The jobs, the flag, the page and its streams stay what the model says they are: among the rest,
\* a job fails for good only after ATTEMPTS failed attempts or on stalling again.
THEOREM FeedTyped == Spec => []TypeOK
  BY PropagationInvariant, PTL DEF PropagationInv

\* A stream that has ended holds a subscription only while it is being released, or when it was
\* closed before it was made or could not be released for a broken connection.
THEOREM SubscriptionsAreReleased == Spec => []SubscriptionsReleased
  BY PropagationInvariant, PTL DEF PropagationInv

\* However jobs overlap, are retried and lose their worker, the version whose hash keeps later jobs
\* from publishing was published, is about to be, or its job was cut short in between.
THEOREM ChangesAreAnnounced == Spec => []AnnouncedUnlessInterrupted
  BY PropagationInvariant, PTL DEF PropagationInv

\* However hooks come and go and streams break, a page leaves a stream open behind only when the
\* loop of an older stream cleared its controller.
THEOREM StreamsAreHeld == Spec => []OpenStreamsAreHeld
  BY PropagationInvariant, PTL DEF PropagationInv

=============================================================================
