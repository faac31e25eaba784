------------------------------- MODULE UsageProofs -------------------------------
(* Theorems about Usage, for any number of chats, posts, calls, attempts,     *)
(* rounds, months and faults: what the retries of ErpClient create whatever   *)
(* its callers do; what the counters of a month are and whom the quota        *)
(* admits; what is saved of a conversation.                                   *)
EXTENDS Usage, FiniteSetTheorems, SequenceTheorems, TLAPS

-----------------------------------------------------------------------------
(* The steps of ErpClient are all that happens to its calls. *)

LEMMA CallersUseCallErp ==
    ASSUME [Next]_vars
    PROVE  \/ \E c \in Creates : ErpStep(c)
           \/ \E calls \in SUBSET Creates : CallErp(calls) /\ faults' = faults
           \/ UNCHANGED erp /\ (faults' = faults \/ Fault)
  <1>1. ASSUME NEW c \in Chats, ChatStep(c)
        PROVE  \/ \E calls \in SUBSET Creates : CallErp(calls) /\ faults' = faults
               \/ UNCHANGED erp /\ (faults' = faults \/ Fault)
    <2>1. CASE ModelCalls(c)
      BY <2>1 DEF ModelCalls
    <2>2. CASE ~ModelCalls(c)
      BY <1>1, <2>2 DEF ChatStep, ReadQueries, ReadTokens, ReadHistory, ChatFails, ModelEnds,
                        ModelStops, ToolsReturn, Record, RecordBreaks, Save, SaveFails
    <2>3. QED
      BY <2>1, <2>2
  <1>2. ASSUME NEW p \in Posts, PostStep(p)
        PROVE  \/ \E calls \in SUBSET Creates : CallErp(calls) /\ faults' = faults
               \/ UNCHANGED erp /\ (faults' = faults \/ Fault)
    <2>1. CASE BeginPost(p)
      BY <2>1 DEF BeginPost
    <2>2. CASE ~BeginPost(p)
      BY <1>2, <2>2 DEF PostStep, AnswerPost, Meter, MeterBreaks
    <2>3. QED
      BY <2>1, <2>2
  <1>3. QED
    BY <1>1, <1>2 DEF Next, ErpWorks, ExpireConversation, Tick, vars

-----------------------------------------------------------------------------
(* A request that was sent and not refused may have created a document, or   *)
(* create one yet.  All such requests but the present one of a call that     *)
(* waits or has succeeded were left without an answer.                       *)

Loose(c) == {i \in Attempts : request[c][i] \in {"sent", "created"}}

Present(c) == IF client[c] \in {"waiting", "created"} THEN {attempt[c]} ELSE {}

Accounted(c) ==
    /\ client[c] = "idle" => attempt[c] = 0 /\ lost[c] = 0
    /\ client[c] = "waiting" => attempt[c] \in Attempts /\ lost[c] < attempt[c]
    /\ client[c] = "created" => attempt[c] \in Attempts /\ request[c][attempt[c]] = "created"
    /\ \A i \in Attempts : i > attempt[c] => request[c][i] = "unsent"
    /\ Cardinality(Loose(c) \ Present(c)) <= lost[c]

ErpInv == ErpTypeOK /\ \A c \in Creates : Accounted(c)

LEMMA AccountedIfUntouched ==
    ASSUME NEW c, Accounted(c), UNCHANGED <<client[c], attempt[c], request[c], lost[c]>>
    PROVE  Accounted(c)'
  <1>1. /\ client'[c] = client[c] /\ attempt'[c] = attempt[c]
        /\ request'[c] = request[c] /\ lost'[c] = lost[c]
    OBVIOUS
  <1>2. Loose(c)' = Loose(c)
    BY <1>1 DEF Loose, Attempts
  <1>3. Present(c)' = Present(c)
    BY <1>1 DEF Present
  <1>4. Cardinality(Loose(c) \ Present(c))' = Cardinality(Loose(c) \ Present(c))
    BY <1>2, <1>3
  <1>5. QED
    BY <1>1, <1>4 DEF Accounted, Attempts

LEMMA AttemptsAreFinite ==
    /\ IsFiniteSet(Attempts) /\ 1 \in Attempts
    /\ \A S : S \subseteq Attempts => IsFiniteSet(S) /\ Cardinality(S) \in Nat
    /\ \A S, T : S \subseteq T /\ T \subseteq Attempts => Cardinality(S) <= Cardinality(T)
    /\ \A S, i : S \subseteq Attempts => Cardinality(S) <= Cardinality(S \ {i}) + 1
  <1>1. IsFiniteSet(Attempts) /\ 1 \in Attempts
    BY AttemptsArePositive, FS_Interval DEF Attempts
  <1>2. ASSUME NEW S, S \subseteq Attempts
        PROVE  IsFiniteSet(S) /\ Cardinality(S) \in Nat
    BY <1>1, <1>2, FS_Subset, FS_CardinalityType
  <1>3. ASSUME NEW S, NEW T, S \subseteq T, T \subseteq Attempts
        PROVE  Cardinality(S) <= Cardinality(T)
    BY <1>2, <1>3, FS_Subset
  <1>4. ASSUME NEW S, NEW i, S \subseteq Attempts
        PROVE  Cardinality(S) <= Cardinality(S \ {i}) + 1
    <2>1. Cardinality(S \ {i}) = IF i \in S THEN Cardinality(S) - 1 ELSE Cardinality(S)
      BY <1>2, <1>4, FS_RemoveElement
    <2>2. Cardinality(S) \in Nat
      BY <1>2, <1>4
    <2>3. QED
      BY <2>1, <2>2
  <1>5. QED
    BY <1>1, <1>2, <1>3, <1>4

LEMMA InitErp == Init => ErpInv
  <1> SUFFICES ASSUME Init PROVE ErpInv
    OBVIOUS
  <1>1. ErpTypeOK
    BY AttemptsArePositive, FaultsAreCounted DEF Init, ErpInit, ErpTypeOK, Attempts
  <1>2. ASSUME NEW c \in Creates
        PROVE  Loose(c) \ Present(c) = {} /\ lost[c] = 0
    BY DEF Init, ErpInit, Loose
  <1>3. Cardinality({}) = 0
    BY FS_EmptySet
  <1>4. ASSUME NEW c \in Creates
        PROVE  Accounted(c)
    <2>1. /\ client[c] = "idle" /\ attempt[c] = 0 /\ lost[c] = 0
          /\ \A i \in Attempts : request[c][i] = "unsent"
      BY DEF Init, ErpInit
    <2>2. Cardinality(Loose(c) \ Present(c)) = 0
      BY <1>2, <1>3
    <2>3. QED
      BY <2>1, <2>2 DEF Accounted
  <1>5. QED
    BY <1>1, <1>4 DEF ErpInv

\* Another request: what was loose is loose, and the new request is the present one.
LEMMA ResendLeavesLoose ==
    ASSUME ErpInv, NEW c \in Creates, client[c] = "waiting", Resend(c)
    PROVE  /\ client' \in [Creates -> {"idle", "waiting", "created", "failed"}]
           /\ attempt' \in [Creates -> 0..MAX_ATTEMPTS]
           /\ request' \in [Creates -> [Attempts -> {"unsent", "sent", "created", "refused", "busy"}]]
           /\ \A d \in Creates \ {c} : UNCHANGED <<client[d], attempt[d], request[d]>>
           /\ client'[c] \in {"waiting", "failed"}
           /\ client'[c] = "waiting" => attempt'[c] \in Attempts /\ attempt'[c] = attempt[c] + 1
           /\ \A i \in Attempts : i > attempt'[c] => request'[c][i] = "unsent"
           /\ Loose(c)' \ Present(c)' \subseteq Loose(c)
  <1>1. attempt[c] \in Attempts /\ MAX_ATTEMPTS \in Nat \ {0}
    BY AttemptsArePositive DEF ErpInv, Accounted
  <1>2. CASE attempt[c] = MAX_ATTEMPTS
    <2>1. client' = [client EXCEPT ![c] = "failed"] /\ UNCHANGED <<attempt, request>>
      BY <1>2 DEF Resend
    <2>2. Loose(c)' \subseteq Loose(c)
      BY <2>1 DEF Loose
    <2>3. client'[c] = "failed" /\ \A d \in Creates \ {c} : client'[d] = client[d]
      BY <2>1 DEF ErpInv, ErpTypeOK
    <2>4. \A i \in Attempts : i > attempt'[c] => request'[c][i] = "unsent"
      BY <2>1 DEF ErpInv, Accounted
    <2>5. QED
      BY <2>1, <2>2, <2>3, <2>4 DEF ErpInv, ErpTypeOK
  <1>3. CASE attempt[c] # MAX_ATTEMPTS
    <2>1. attempt[c] + 1 \in Attempts /\ attempt[c] + 1 \in 0..MAX_ATTEMPTS
      BY <1>1, <1>3 DEF Attempts
    <2>2. /\ attempt' = [attempt EXCEPT ![c] = @ + 1]
          /\ request' = [request EXCEPT ![c][attempt[c] + 1] = "sent"]
          /\ client' = client
      BY <1>3 DEF Resend
    <2>3. /\ attempt' \in [Creates -> 0..MAX_ATTEMPTS] /\ attempt'[c] = attempt[c] + 1
          /\ request' \in [Creates -> [Attempts -> {"unsent", "sent", "created", "refused", "busy"}]]
          /\ request'[c] = [request[c] EXCEPT ![attempt[c] + 1] = "sent"]
      BY <2>1, <2>2 DEF ErpInv, ErpTypeOK
    <2>4. \A i \in Attempts : i > attempt'[c] => request'[c][i] = "unsent"
      <3>1. ASSUME NEW i \in Attempts, i > attempt[c] + 1
            PROVE  request'[c][i] = request[c][i] /\ i > attempt[c]
        BY <1>1, <2>3, <3>1 DEF ErpInv, ErpTypeOK, Attempts
      <3>2. QED
        BY <2>3, <3>1 DEF ErpInv, Accounted
    <2>5. Loose(c)' \ Present(c)' \subseteq Loose(c)
      <3>1. Present(c)' = {attempt[c] + 1}
        BY <2>2, <2>3 DEF Present
      <3>2. \A i \in Attempts \ {attempt[c] + 1} : request'[c][i] = request[c][i]
        BY <2>3 DEF ErpInv, ErpTypeOK
      <3>3. QED
        BY <3>1, <3>2 DEF Loose, Attempts
    <2>6. QED
      BY <2>1, <2>2, <2>3, <2>4, <2>5 DEF ErpInv, ErpTypeOK
  <1>4. QED
    BY <1>2, <1>3

LEMMA ErpStepAccounts ==
    ASSUME ErpInv, NEW c \in Creates, ErpStep(c)
    PROVE  ErpInv'
  <1>1. /\ ErpTypeOK /\ Accounted(c) /\ MAX_ATTEMPTS \in Nat \ {0} /\ MaxFaults \in Nat
        /\ Loose(c) \subseteq Attempts
    BY AttemptsArePositive, FaultsAreCounted DEF ErpInv, Loose
  <1>2. ASSUME \A d \in Creates \ {c} : UNCHANGED <<client[d], attempt[d], request[d], lost[d]>>,
               ErpTypeOK', Accounted(c)'
        PROVE  ErpInv'
    <2>1. ASSUME NEW d \in Creates \ {c}
          PROVE  Accounted(d)'
      BY <1>2, AccountedIfUntouched DEF ErpInv
    <2>2. QED
      BY <1>2, <2>1 DEF ErpInv
  <1>3. ASSUME NEW i \in Attempts, Execute(c, i)
        PROVE  ErpInv'
    <2>1. PICK outcome \in {"created", "refused", "busy"} :
             request' = [request EXCEPT ![c][i] = outcome]
      BY <1>3 DEF Execute
    <2>2. /\ request[c][i] = "sent" /\ UNCHANGED <<client, attempt, faults, lost>>
          /\ request'[c] = [request[c] EXCEPT ![i] = outcome]
          /\ \A d \in Creates \ {c} : request'[d] = request[d]
      BY <1>1, <1>3, <2>1 DEF Execute, ErpTypeOK
    <2>3. ErpTypeOK'
      BY <1>1, <2>1, <2>2 DEF ErpTypeOK
    <2>4. \A k \in Attempts \ {i} : request'[c][k] = request[c][k]
      BY <1>1, <2>2 DEF ErpTypeOK
    <2>5. /\ Loose(c)' \ Present(c)' \subseteq Loose(c) \ Present(c)
          /\ Loose(c) \ Present(c) \subseteq Attempts
      BY <1>1, <2>2, <2>4 DEF Loose, Present
    <2>6. /\ Cardinality(Loose(c)' \ Present(c)') <= Cardinality(Loose(c) \ Present(c))
          /\ Cardinality(Loose(c)' \ Present(c)') \in Nat
          /\ Cardinality(Loose(c) \ Present(c)) \in Nat
      BY <2>5, AttemptsAreFinite
    <2>7. Cardinality(Loose(c) \ Present(c))' <= lost'[c]
      BY <1>1, <2>2, <2>6 DEF Accounted, ErpTypeOK
    <2>8. ~(i > attempt[c])
      BY <1>1, <2>2 DEF Accounted
    <2>9. \A k \in Attempts : k > attempt'[c] => request'[c][k] = "unsent"
      BY <1>1, <2>2, <2>4, <2>8 DEF Accounted
    <2>10. client'[c] = "created" => attempt'[c] \in Attempts /\ request'[c][attempt'[c]] = "created"
      BY <1>1, <2>2, <2>4 DEF Accounted
    <2>11. Accounted(c)'
      BY <1>1, <2>2, <2>7, <2>9, <2>10 DEF Accounted
    <2>12. QED
      BY <1>2, <2>2, <2>3, <2>11
  <1>4. CASE Answer(c)
    <2>1. /\ client[c] = "waiting" /\ attempt[c] \in Attempts /\ UNCHANGED <<attempt, request, faults, lost>>
          /\ client'[c] = IF request[c][attempt[c]] = "created" THEN "created" ELSE "failed"
          /\ request[c][attempt[c]] # "created" => request[c][attempt[c]] = "refused"
          /\ \A d \in Creates \ {c} : client'[d] = client[d]
      BY <1>1, <1>4 DEF Answer, ErpTypeOK, Accounted
    <2>2. ErpTypeOK'
      BY <1>1, <1>4, <2>1 DEF Answer, ErpTypeOK
    <2>3. Loose(c)' \ Present(c)' = Loose(c) \ Present(c)
      BY <2>1 DEF Loose, Present
    <2>4. Accounted(c)'
      BY <1>1, <2>1, <2>3 DEF Accounted
    <2>5. QED
      BY <1>2, <2>1, <2>2, <2>4
  <1>5. CASE Busy(c)
    <2>1. /\ client[c] = "waiting" /\ Resend(c) /\ UNCHANGED <<faults, lost>>
          /\ request[c][attempt[c]] = "busy"
      BY <1>5 DEF Busy
    <2>2. ErpTypeOK'
      BY <1>1, <2>1, ResendLeavesLoose DEF ErpTypeOK
    <2>3. Loose(c) = Loose(c) \ Present(c)
      BY <2>1 DEF Loose, Present
    <2>4. /\ Cardinality(Loose(c)' \ Present(c)') <= Cardinality(Loose(c) \ Present(c))
          /\ Cardinality(Loose(c)' \ Present(c)') \in Nat
          /\ Cardinality(Loose(c) \ Present(c)) \in Nat
      BY <1>1, <2>1, <2>3, ResendLeavesLoose, AttemptsAreFinite
    <2>5. Cardinality(Loose(c) \ Present(c))' <= lost'[c]
      BY <1>1, <2>1, <2>4 DEF Accounted, ErpTypeOK
    <2>6. client'[c] = "waiting" => lost'[c] < attempt'[c]
      BY <1>1, <2>1, ResendLeavesLoose DEF Accounted, ErpTypeOK
    <2>7. Accounted(c)'
      BY <2>1, <2>5, <2>6, ResendLeavesLoose DEF Accounted
    <2>8. QED
      BY <1>2, <2>1, <2>2, <2>7, ResendLeavesLoose
  <1>6. ASSUME Fault, lost' = [lost EXCEPT ![c] = @ + 1], client[c] = "waiting"
        PROVE  /\ faults' \in 0..MaxFaults
               /\ lost' \in [Creates -> 0..MAX_ATTEMPTS] /\ lost'[c] = lost[c] + 1
               /\ \A d \in Creates \ {c} : lost'[d] = lost[d]
               /\ Cardinality(Loose(c)) <= lost'[c] /\ Cardinality(Loose(c)) \in Nat
    <2>1. attempt[c] \in Attempts /\ lost[c] < attempt[c] /\ Present(c) = {attempt[c]}
      BY <1>1, <1>6 DEF Accounted, Present
    <2>2. lost[c] \in 0..MAX_ATTEMPTS /\ attempt[c] \in 0..MAX_ATTEMPTS /\ faults \in 0..MaxFaults
      BY <1>1 DEF ErpTypeOK
    <2>3. lost[c] + 1 \in 0..MAX_ATTEMPTS
      BY <1>1, <2>1, <2>2
    <2>4. lost' \in [Creates -> 0..MAX_ATTEMPTS] /\ lost'[c] = lost[c] + 1
          /\ \A d \in Creates \ {c} : lost'[d] = lost[d]
      BY <1>1, <1>6, <2>3 DEF ErpTypeOK
    <2>5. faults' \in 0..MaxFaults
      BY <1>1, <1>6, <2>2 DEF Fault
    <2>6. /\ Cardinality(Loose(c)) <= Cardinality(Loose(c) \ {attempt[c]}) + 1
          /\ Cardinality(Loose(c)) \in Nat /\ Cardinality(Loose(c) \ {attempt[c]}) \in Nat
      BY <1>1, AttemptsAreFinite
    <2>7. Cardinality(Loose(c) \ {attempt[c]}) <= lost[c]
      BY <1>1, <2>1 DEF Accounted
    <2>8. QED
      BY <2>2, <2>4, <2>5, <2>6, <2>7
  <1>7. CASE LoseAnswer(c)
    <2>1. client[c] = "waiting" /\ Resend(c) /\ Fault /\ lost' = [lost EXCEPT ![c] = @ + 1]
      BY <1>7 DEF LoseAnswer
    <2>2. ErpTypeOK'
      BY <1>1, <1>6, <2>1, ResendLeavesLoose DEF ErpTypeOK
    <2>3. /\ Cardinality(Loose(c)' \ Present(c)') <= Cardinality(Loose(c))
          /\ Cardinality(Loose(c)' \ Present(c)') \in Nat
      BY <1>1, <2>1, ResendLeavesLoose, AttemptsAreFinite
    <2>4. Cardinality(Loose(c) \ Present(c))' <= lost'[c]
      <3>1. lost'[c] \in Nat
        BY <2>2 DEF ErpTypeOK
      <3>2. QED
        BY <1>6, <2>1, <2>3, <3>1
    <2>5. client'[c] = "waiting" => lost'[c] < attempt'[c]
      <3>1. lost[c] < attempt[c] /\ lost[c] \in Nat /\ attempt[c] \in Nat
        BY <1>1, <2>1 DEF Accounted, ErpTypeOK
      <3>2. QED
        BY <1>6, <2>1, <3>1, ResendLeavesLoose
    <2>6. Accounted(c)'
      BY <2>1, <2>4, <2>5, ResendLeavesLoose DEF Accounted
    <2>7. QED
      BY <1>2, <1>6, <2>1, <2>2, <2>6, ResendLeavesLoose
  <1>8. CASE GiveUp(c)
    <2>1. /\ client[c] = "waiting" /\ Fault /\ lost' = [lost EXCEPT ![c] = @ + 1]
          /\ client' = [client EXCEPT ![c] = "failed"] /\ UNCHANGED <<attempt, request>>
      BY <1>8 DEF GiveUp
    <2>2. /\ client' \in [Creates -> {"idle", "waiting", "created", "failed"}]
          /\ client'[c] = "failed" /\ \A d \in Creates \ {c} : client'[d] = client[d]
      BY <1>1, <2>1 DEF ErpTypeOK
    <2>3. ErpTypeOK'
      BY <1>1, <1>6, <2>1, <2>2 DEF ErpTypeOK
    <2>4. Loose(c)' \ Present(c)' = Loose(c)
      BY <2>1, <2>2 DEF Loose, Present
    <2>5. Accounted(c)'
      BY <1>1, <1>6, <2>1, <2>2, <2>4 DEF Accounted
    <2>6. QED
      BY <1>2, <1>6, <2>1, <2>2, <2>3, <2>5
  <1>9. QED
    BY <1>3, <1>4, <1>5, <1>7, <1>8 DEF ErpStep

LEMMA CallErpAccounts ==
    ASSUME ErpInv, NEW calls \in SUBSET Creates, CallErp(calls), faults' = faults
    PROVE  ErpInv'
  <1>1. 1 \in Attempts /\ 1 \in 0..MAX_ATTEMPTS /\ \A i \in Attempts : i > 0
    BY AttemptsArePositive DEF Attempts
  <1>2. ASSUME NEW c \in calls
        PROVE  /\ client'[c] = "waiting" /\ attempt'[c] = 1 /\ lost'[c] = 0
               /\ request'[c] = [request[c] EXCEPT ![1] = "sent"]
               /\ \A i \in Attempts : request[c][i] = "unsent"
    <2>1. c \in Creates /\ client[c] = "idle"
      BY <1>2 DEF CallErp
    <2>2. \A i \in Attempts : request[c][i] = "unsent"
      <3>1. Accounted(c) /\ attempt[c] = 0
        BY <2>1 DEF ErpInv, Accounted
      <3>2. QED
        BY <1>1, <3>1 DEF Accounted
    <2>3. client'[c] = "waiting" /\ attempt'[c] = 1
      BY <1>2, <2>1 DEF CallErp
    <2>4. lost'[c] = 0
      BY <2>1 DEF CallErp, ErpInv, Accounted
    <2>5. request'[c] = [request[c] EXCEPT ![1] = "sent"]
      BY <1>2, <2>1 DEF CallErp
    <2>6. QED
      BY <2>2, <2>3, <2>4, <2>5
  <1>3. ASSUME NEW c \in Creates \ calls
        PROVE  UNCHANGED <<client[c], attempt[c], request[c], lost[c]>>
    BY DEF CallErp
  <1>4. ASSUME NEW c \in Creates
        PROVE  [request[c] EXCEPT ![1] = "sent"] \in
                   [Attempts -> {"unsent", "sent", "created", "refused", "busy"}]
    BY <1>1 DEF ErpInv, ErpTypeOK
  <1>5. ErpTypeOK'
    BY <1>1, <1>4 DEF CallErp, ErpInv, ErpTypeOK
  <1>6. ASSUME NEW c \in calls
        PROVE  Accounted(c)'
    <2>1. \A i \in Attempts \ {1} : request'[c][i] = "unsent"
      <3>1. c \in Creates /\ request[c] \in [Attempts -> {"unsent", "sent", "created", "refused", "busy"}]
        BY <1>6 DEF ErpInv, ErpTypeOK
      <3>2. /\ request'[c] = [request[c] EXCEPT ![1] = "sent"]
            /\ \A i \in Attempts : request[c][i] = "unsent"
        BY <1>2, <1>6
      <3>3. QED
        BY <3>1, <3>2
    <2>2. Loose(c)' \ Present(c)' = {}
      BY <1>2, <1>6, <2>1 DEF Loose, Present, Attempts
    <2>3. Cardinality(Loose(c) \ Present(c))' = 0
      BY <2>2, FS_EmptySet
    <2>4. \A i \in Attempts : i > 1 => request'[c][i] = "unsent"
      BY <2>1
    <2>5. QED
      <3>1. client'[c] = "waiting" /\ attempt'[c] = 1 /\ lost'[c] = 0
        BY <1>2, <1>6
      <3>2. attempt'[c] \in Attempts' /\ lost'[c] < attempt'[c]
        BY <1>1, <3>1 DEF Attempts
      <3>3. \A i \in Attempts' : i > attempt'[c] => request'[c][i] = "unsent"
        BY <2>4, <3>1 DEF Attempts
      <3>4. Cardinality(Loose(c) \ Present(c))' <= lost'[c]
        BY <2>3, <3>1
      <3>5. QED
        BY <3>1, <3>2, <3>3, <3>4 DEF Accounted
  <1>7. ASSUME NEW c \in Creates \ calls
        PROVE  Accounted(c)'
    BY <1>3, <1>7, AccountedIfUntouched DEF ErpInv
  <1>8. QED
    BY <1>5, <1>6, <1>7 DEF ErpInv

LEMMA NextErp ==
    ASSUME ErpInv, [Next]_vars
    PROVE  ErpInv'
  <1>1. ASSUME UNCHANGED erp, faults' = faults \/ Fault
        PROVE  ErpInv'
    <2>1. faults' \in 0..MaxFaults
      BY <1>1, FaultsAreCounted DEF Fault, ErpInv, ErpTypeOK
    <2>2. ErpTypeOK'
      BY <1>1, <2>1 DEF erp, ErpInv, ErpTypeOK
    <2>3. ASSUME NEW c \in Creates
          PROVE  Accounted(c)'
      BY <1>1, AccountedIfUntouched DEF erp, ErpInv
    <2>4. QED
      BY <2>2, <2>3 DEF ErpInv
  <1>2. QED
    BY <1>1, ErpStepAccounts, CallErpAccounts, CallersUseCallErp

\* Every call, attempt, request and fault of the ERP client is well typed.
THEOREM ErpTyped == Spec => []ErpTypeOK
  <1>1. ErpInv => ErpTypeOK
    BY DEF ErpInv
  <1>2. QED
    BY <1>1, InitErp, NextErp, PTL DEF Spec

\* Retries create no document beyond the one reported but for requests whose answer was lost, and
\* a success is never reported without a document.
THEOREM DocumentsAccounted == Spec => []DocumentsAreAccounted
  <1>1. ErpInv => DocumentsAreAccounted
    <2> SUFFICES ASSUME ErpInv, NEW c \in Creates
                 PROVE  /\ client[c] = "created" => Documents(c) # {}
                        /\ Cardinality(Documents(c)) <=
                               lost[c] + (IF client[c] \in {"waiting", "created"} THEN 1 ELSE 0)
      BY DEF DocumentsAreAccounted
    <2>1. Accounted(c) /\ lost[c] \in Nat
      BY DEF ErpInv, ErpTypeOK
    <2>2. Documents(c) \subseteq Loose(c) /\ Loose(c) \subseteq Attempts
      BY DEF Documents, Loose
    <2>3. /\ Cardinality(Documents(c)) <= Cardinality(Loose(c))
          /\ Cardinality(Documents(c)) \in Nat /\ Cardinality(Loose(c)) \in Nat
      BY <2>2, AttemptsAreFinite
    <2>4. client[c] = "created" => Documents(c) # {}
      BY <2>1 DEF Accounted, Documents
    <2>5. CASE client[c] \in {"waiting", "created"}
      <3>1. Cardinality(Loose(c)) <= Cardinality(Loose(c) \ {attempt[c]}) + 1
            /\ Cardinality(Loose(c) \ {attempt[c]}) \in Nat
        BY <2>2, AttemptsAreFinite
      <3>2. Cardinality(Loose(c) \ {attempt[c]}) <= lost[c]
        BY <2>1, <2>5 DEF Accounted, Present
      <3>3. QED
        BY <2>1, <2>3, <2>4, <2>5, <3>1, <3>2
    <2>6. CASE client[c] \notin {"waiting", "created"}
      <3>1. Loose(c) \ Present(c) = Loose(c)
        BY <2>6 DEF Present
      <3>2. Cardinality(Loose(c)) <= lost[c]
        BY <2>1, <3>1 DEF Accounted
      <3>3. QED
        BY <2>1, <2>3, <2>4, <2>6, <3>2
    <2>7. QED
      BY <2>5, <2>6
  <1>2. QED
    BY <1>1, InitErp, NextErp, PTL DEF Spec

-----------------------------------------------------------------------------
(* Time and types *)

\* The present month is one of the months, and lies where it should.
LEMMA MonthsPass ==
    ASSUME NEW t \in Nat, t <= MaxTime
    PROVE  /\ t \div MONTH \in Months
           /\ (t \div MONTH) * MONTH <= t
           /\ t < (t \div MONTH) * MONTH + MONTH
  <1>1. MONTH \in Nat \ {0} /\ MaxTime \in Nat
    BY CountersOutliveMonth, TimeIsBounded
  <1>2. ASSUME NEW a \in Nat, NEW m \in Nat \ {0}
        PROVE  a \div m \in Int /\ m * (a \div m) <= a /\ a < m * (a \div m) + m
    BY <1>2
  <1>3. /\ MONTH * (MaxTime \div MONTH) <= MaxTime
        /\ MaxTime < MONTH * (MaxTime \div MONTH) + MONTH
        /\ t \div MONTH \in Int /\ MaxTime \div MONTH \in Int
        /\ MONTH * (t \div MONTH) <= t
        /\ t < MONTH * (t \div MONTH) + MONTH
    BY <1>1, <1>2
  <1>4. /\ (t \div MONTH) * MONTH <= t
        /\ t < (t \div MONTH) * MONTH + MONTH
    BY <1>1, <1>3
  <1>5. ASSUME NEW a \in Int, NEW b \in Int, NEW n \in Nat \ {0}, n * a < n * b + n
        PROVE  a <= b
    BY <1>5
  <1>6. MONTH * (t \div MONTH) < MONTH * (MaxTime \div MONTH) + MONTH
    BY <1>1, <1>3
  <1>7. t \div MONTH <= MaxTime \div MONTH
    BY <1>1, <1>3, <1>5, <1>6
  <1>8. 0 <= t \div MONTH
    <2>1. MONTH * 0 < MONTH * (t \div MONTH) + MONTH
      BY <1>1, <1>3
    <2>2. QED
      BY <1>1, <1>3, <1>5, <2>1
  <1>9. QED
    BY <1>3, <1>4, <1>7, <1>8 DEF Months

UsageTypeOK == ErpInv /\ TypeOK /\ now <= MaxTime

LEMMA PresentMonth ==
    ASSUME UsageTypeOK
    PROVE  /\ ThisMonth \in Months /\ ThisMonth \in Nat
           /\ ThisMonth * MONTH <= now /\ now < ThisMonth * MONTH + MONTH
  <1>1. ThisMonth \in Months /\ ThisMonth * MONTH <= now /\ now < ThisMonth * MONTH + MONTH
    BY MonthsPass DEF UsageTypeOK, TypeOK, ThisMonth
  <1>2. \A m \in Months : m \in Nat
    BY DEF Months
  <1>3. QED
    BY <1>1, <1>2

LEMMA InitUsageTypes == Init => UsageTypeOK
  <1> SUFFICES ASSUME Init PROVE UsageTypeOK
    OBVIOUS
  <1>1. <<>> \in Seq(Message)
    BY EmptySeq
  <1>2. usage \in [Months -> Counters]
    BY DEF Init, NoCounters, Counters
  <1>3. chat \in [Chats -> Chat]
    BY <1>1 DEF Init, Chat
  <1>4. QED
    BY <1>1, <1>2, <1>3, InitErp, TimeIsBounded DEF Init, UsageTypeOK, ErpInv, TypeOK

\* The last messages of a history and one more turn are a history.
LEMMA TurnIsAdded ==
    ASSUME NEW s \in Seq(Message), NEW c \in Chats
    PROVE  LET turn == <<[role |-> "user", chat |-> c], [role |-> "assistant", chat |-> c]>>
               all == s \o turn
               last == LastMessages(all, HISTORY)
               drop == IF Len(s) + 2 > HISTORY THEN Len(s) + 2 - HISTORY ELSE 0
           IN  /\ Len(s) \in Nat /\ last \in Seq(Message)
               /\ Len(last) = Len(s) + 2 - drop
               /\ \A i \in 1..Len(last) : last[i] =
                      IF i + drop <= Len(s) THEN s[i + drop] ELSE turn[i + drop - Len(s)]
  <1> DEFINE turn == <<[role |-> "user", chat |-> c], [role |-> "assistant", chat |-> c]>>
             all == s \o turn
             last == LastMessages(all, HISTORY)
             drop == IF Len(s) + 2 > HISTORY THEN Len(s) + 2 - HISTORY ELSE 0
  <1>1. turn \in Seq(Message) /\ Len(turn) = 2
    BY DEF Message
  <1>2. Len(s) \in Nat /\ HISTORY \in Nat \ {0} /\ drop \in Nat
    BY LenProperties, HistoryIsEven
  <1>3. all \in Seq(Message) /\ Len(all) = Len(s) + 2
        /\ \A i \in 1..(Len(s) + 2) : all[i] = IF i <= Len(s) THEN s[i] ELSE turn[i - Len(s)]
    BY <1>1, ConcatProperties
  <1>4. last = SubSeq(all, drop + 1, Len(s) + 2) /\ drop < Len(s) + 2
    BY <1>2, <1>3 DEF LastMessages
  <1> HIDE DEF turn, all, drop, last
  <1>5. \A i \in (drop + 1)..(Len(s) + 2) : all[i] \in Message
    BY <1>2, <1>3, ElementOfSeq
  <1>6. /\ SubSeq(all, drop + 1, Len(s) + 2) \in Seq(Message)
        /\ Len(SubSeq(all, drop + 1, Len(s) + 2)) = (Len(s) + 2) - (drop + 1) + 1
        /\ \A i \in 1..((Len(s) + 2) - (drop + 1) + 1) :
               SubSeq(all, drop + 1, Len(s) + 2)[i] = all[(drop + 1) + i - 1]
    <2>1. drop + 1 \in Int /\ Len(s) + 2 \in Int /\ drop + 1 <= Len(s) + 2
      BY <1>2, <1>4
    <2>2. QED
      BY <1>5, <2>1, SubSeqProperties
  <1>7. /\ last \in Seq(Message)
        /\ Len(last) = Len(s) + 2 - drop
        /\ \A i \in 1..Len(last) : last[i] = all[i + drop]
    BY <1>2, <1>4, <1>6
  <1>8. ASSUME NEW i \in 1..Len(last)
        PROVE  last[i] = IF i + drop <= Len(s) THEN s[i + drop] ELSE turn[i + drop - Len(s)]
    <2>1. i \in Int /\ i + drop \in 1..(Len(s) + 2) /\ last[i] = all[i + drop]
      BY <1>2, <1>7
    <2>2. PICK k \in 1..(Len(s) + 2) : k = i + drop
      BY <2>1
    <2>3. all[k] = IF k <= Len(s) THEN s[k] ELSE turn[k - Len(s)]
      BY <1>3
    <2>4. QED
      BY <1>2, <2>1, <2>2, <2>3
  <1>9. QED
    BY <1>2, <1>7, <1>8 DEF turn, all, drop, last

\* What a chat does to itself: the counters and the rounds it has had.
LEMMA ChatChanges ==
    ASSUME UsageTypeOK, NEW c \in Chats, ChatStep(c)
    PROVE  /\ now' = now /\ UNCHANGED post
           /\ chat' \in [Chats -> Chat]
           /\ \A d \in Chats \ {c} : chat'[d] = chat[d]
           /\ spent' \in [Chats -> Nat] /\ charged' \in [Chats -> Months \cup {-1}]
           /\ \A d \in Chats \ {c} : spent'[d] = spent[d] /\ charged'[d] = charged[d]
           /\ earlier' \in [Chats -> SUBSET Chats]
           /\ \A d \in Chats \ {c} : earlier'[d] = earlier[d]
           /\ unsure' \in SUBSET (Chats \cup Posts) /\ unsure \subseteq unsure'
           /\ metered' = metered
  <1>1. /\ chat \in [Chats -> Chat] /\ chat[c] \in Chat /\ chat[c].tokens \in Nat /\ chat[c].round \in Nat
        /\ ThisMonth \in Months /\ ThisMonth \in Nat
        /\ spent \in [Chats -> Nat] /\ charged \in [Chats -> Months \cup {-1}]
        /\ earlier \in [Chats -> SUBSET Chats] /\ unsure \in SUBSET (Chats \cup Posts)
        /\ conversation \in Seq(Message)
        /\ \A m \in Months : usage[m].queries \in Nat
    BY PresentMonth DEF UsageTypeOK, TypeOK, Chat, Counters
  <1>2. ASSUME NEW pc \in {"new", "tokens", "history", "model", "tools", "record", "save",
                           "answered", "denied", "failed"}, Go(c, pc)
        PROVE  chat' \in [Chats -> Chat] /\ \A d \in Chats \ {c} : chat'[d] = chat[d]
    BY <1>1, <1>2 DEF Go, Chat
  <1>3. CASE ReadQueries(c)
    BY <1>1, <1>3 DEF ReadQueries, Chat, counters
  <1>4. CASE ReadTokens(c)
    BY <1>1, <1>2, <1>4 DEF ReadTokens, history, counters
  <1>5. CASE ReadHistory(c)
    BY <1>1, <1>5 DEF ReadHistory, Chat, history, counters
  <1>6. CASE ChatFails(c)
    BY <1>1, <1>2, <1>6 DEF ChatFails, history, counters
  <1>a. ASSUME NEW n \in Nat, NEW k \in Nat,
               NEW pc \in {"record", "model", "tools"},
               chat' = [chat EXCEPT ![c] = [chat[c] EXCEPT !.tokens = n, !.round = k, !.pc = pc]]
        PROVE  chat' \in [Chats -> Chat] /\ \A d \in Chats \ {c} : chat'[d] = chat[d]
    BY <1>1, <1>a DEF Chat
  <1>b. spent[c] + 1 \in Nat /\ chat[c].tokens + 1 \in Nat /\ chat[c].round + 1 \in Nat
        /\ AfterRound(c) \in {"record", "model"}
    BY <1>1 DEF AfterRound
  <1>7. CASE ModelEnds(c)
    <2>1. chat' = [chat EXCEPT ![c] = [chat[c] EXCEPT !.tokens = chat[c].tokens + 1,
                                                      !.round = chat[c].round, !.pc = "record"]]
      BY <1>1, <1>7 DEF ModelEnds, Chat
    <2>2. chat' \in [Chats -> Chat] /\ \A d \in Chats \ {c} : chat'[d] = chat[d]
      BY <1>1, <1>a, <1>b, <2>1
    <2>3. QED
      BY <1>1, <1>7, <1>b, <2>2 DEF ModelEnds, counters
  <1>8. CASE ModelStops(c)
    <2>1. chat' = [chat EXCEPT ![c] = [chat[c] EXCEPT !.tokens = chat[c].tokens + 1,
                                                      !.round = chat[c].round + 1, !.pc = AfterRound(c)]]
      BY <1>1, <1>8 DEF ModelStops, Chat
    <2>2. chat' \in [Chats -> Chat] /\ \A d \in Chats \ {c} : chat'[d] = chat[d]
      BY <1>1, <1>a, <1>b, <2>1
    <2>3. QED
      BY <1>1, <1>8, <1>b, <2>2 DEF ModelStops, counters
  <1>9. CASE ModelCalls(c)
    <2>1. chat' = [chat EXCEPT ![c] = [chat[c] EXCEPT !.tokens = chat[c].tokens + 1,
                                                      !.round = chat[c].round, !.pc = "tools"]]
      BY <1>1, <1>9 DEF ModelCalls, Chat
    <2>2. chat' \in [Chats -> Chat] /\ \A d \in Chats \ {c} : chat'[d] = chat[d]
      BY <1>1, <1>a, <1>b, <2>1
    <2>3. QED
      BY <1>1, <1>9, <1>b, <2>2 DEF ModelCalls, counters
  <1>10. CASE ToolsReturn(c)
    <2>1. chat' = [chat EXCEPT ![c] = [chat[c] EXCEPT !.tokens = chat[c].tokens,
                                                      !.round = chat[c].round + 1, !.pc = AfterRound(c)]]
      BY <1>1, <1>10 DEF ToolsReturn, Chat
    <2>2. chat' \in [Chats -> Chat] /\ \A d \in Chats \ {c} : chat'[d] = chat[d]
      BY <1>1, <1>a, <1>b, <2>1
    <2>3. QED
      BY <1>1, <1>10, <1>b, <2>2 DEF ToolsReturn, history, counters
  <1>11. CASE Record(c)
    BY <1>1, <1>2, <1>11 DEF Record
  <1>12. CASE RecordBreaks(c)
    BY <1>1, <1>2, <1>12 DEF RecordBreaks
  <1>13. CASE Save(c)
    BY <1>1, <1>2, <1>13 DEF Save, history, counters
  <1>14. CASE SaveFails(c)
    BY <1>1, <1>2, <1>14 DEF SaveFails, history, counters
  <1>15. QED
    BY <1>3, <1>4, <1>5, <1>6, <1>7, <1>8, <1>9, <1>10, <1>11, <1>12, <1>13, <1>14 DEF ChatStep

\* What is charged is added to the counters of the present month.
LEMMA ChargeAdds ==
    ASSUME UsageTypeOK, NEW c \in Chats, NEW q \in 0..2, NEW t \in 0..2, NEW expire \in BOOLEAN,
           Charge(c, q, t, expire)
    PROVE  /\ ThisMonth \in Months
           /\ usage' \in [Months -> Counters]
           /\ \A m \in Months \ {ThisMonth} : usage'[m] = usage[m]
           /\ usage'[ThisMonth].queries = usage[ThisMonth].queries + q
           /\ usage'[ThisMonth].tokens = usage[ThisMonth].tokens + t * chat[c].tokens
           /\ usage'[ThisMonth].until \in {usage[ThisMonth].until, now + USAGE_TTL, Never}
           /\ usage'[ThisMonth].until = 0 => usage[ThisMonth].until = 0 /\ q = 0 /\ t = 0
           /\ expire /\ q = 1 => usage'[ThisMonth].until = now + USAGE_TTL
  <1> DEFINE m == ThisMonth
             old == usage[m]
             new == [queries |-> old.queries + q,
                     tokens |-> old.tokens + t * chat[c].tokens,
                     until |-> CASE expire /\ (old.until # 0 \/ q + t # 0) -> now + USAGE_TTL
                                 [] ~expire /\ old.until = 0 /\ q + t # 0 -> Never
                                 [] OTHER -> old.until]
  <1>1. /\ usage \in [Months -> Counters] /\ m \in Months /\ m \in Nat
        /\ old.queries \in Nat /\ old.tokens \in Nat /\ old.until \in Nat
        /\ chat[c].tokens \in Nat /\ now \in Nat /\ USAGE_TTL \in Nat \ {0}
        /\ Never \in Nat \ {0}
    <2>1. m \in Months /\ m \in Nat
      BY PresentMonth
    <2>2. usage \in [Months -> Counters] /\ chat \in [Chats -> Chat] /\ now \in Nat
      BY DEF UsageTypeOK, TypeOK
    <2>3. old \in Counters /\ chat[c] \in Chat
      BY <2>1, <2>2
    <2>4. /\ USAGE_TTL \in Nat \ {0} /\ Never \in Nat \ {0}
      BY TimeIsBounded, CountersOutliveMonth DEF Never
    <2>5. QED
      BY <2>1, <2>2, <2>3, <2>4 DEF Counters, Chat
  <1>2. usage' = [usage EXCEPT ![m] = new]
    BY DEF Charge
  <1>3. /\ new.queries = old.queries + q
        /\ new.tokens = old.tokens + t * chat[c].tokens
        /\ new.until = CASE expire /\ (old.until # 0 \/ q + t # 0) -> now + USAGE_TTL
                         [] ~expire /\ old.until = 0 /\ q + t # 0 -> Never
                         [] OTHER -> old.until
    OBVIOUS
  <1>4. /\ new.until \in {old.until, now + USAGE_TTL, Never}
        /\ new.until = 0 => old.until = 0 /\ q = 0 /\ t = 0
        /\ expire /\ q = 1 => new.until = now + USAGE_TTL
        /\ new.until \in Nat
    BY <1>1, <1>3
  <1>5. new.queries \in Nat /\ new.tokens \in Nat
    <2>0. ASSUME NEW a \in Nat, NEW b \in Nat
          PROVE  a * b \in Nat
      BY <2>0
    <2>1. t * chat[c].tokens \in Nat
      BY <1>1, <2>0
    <2>2. /\ old.queries + q \in Nat
          /\ \A n \in Nat : old.tokens + n \in Nat
      BY <1>1
    <2>3. QED
      BY <1>3, <2>1, <2>2
  <1>6. new \in Counters
    BY <1>3, <1>4, <1>5 DEF Counters
  <1> HIDE DEF new, m
  <1>7. usage' \in [Months -> Counters] /\ usage'[m] = new /\ \A k \in Months \ {m} : usage'[k] = usage[k]
    BY <1>1, <1>2, <1>6
  <1>8. QED
    BY <1>1, <1>3, <1>4, <1>7 DEF m

LEMMA NextUsageTypes ==
    ASSUME UsageTypeOK, [Next]_vars
    PROVE  UsageTypeOK'
  <1>1. ErpInv' /\ ErpTypeOK'
    BY NextErp DEF UsageTypeOK, ErpInv
  <1>2. ASSUME now' \in Nat, now' <= MaxTime, usage' \in [Months -> Counters],
               chat' \in [Chats -> Chat], conversation' \in Seq(Message),
               owner' \in [Creates -> Chats \cup Posts \cup {Null}],
               post' \in [Posts -> {"new", "waiting", "metering", "created", "failed"}],
               metered' \in Nat, spent' \in [Chats -> Nat],
               charged' \in [Chats -> Months \cup {-1}], earlier' \in [Chats -> SUBSET Chats],
               unsure' \in SUBSET (Chats \cup Posts)
        PROVE  UsageTypeOK'
    BY <1>1, <1>2 DEF UsageTypeOK, TypeOK, Months, Counters, Chat, Message
  <1>3. ASSUME NEW c \in Chats, ChatStep(c)
        PROVE  UsageTypeOK'
    <2>1. usage' \in [Months -> Counters]
      <3>1. CASE Record(c)
        <4>1. Charge(c, 1, 1, TRUE)
          BY <3>1 DEF Record
        <4>2. 1 \in 0..2 /\ TRUE \in BOOLEAN
          OBVIOUS
        <4>3. QED
          BY <4>1, <4>2, ChargeAdds
      <3>2. CASE RecordBreaks(c)
        BY <3>2, ChargeAdds DEF RecordBreaks
      <3>3. CASE ~Record(c) /\ ~RecordBreaks(c)
        <4>1. UNCHANGED usage
          BY <1>3, <3>3 DEF ChatStep, ReadQueries, ReadTokens, ReadHistory, ChatFails, ModelEnds,
                            ModelStops, ModelCalls, ToolsReturn, Save, SaveFails, counters
        <4>2. QED
          BY <4>1 DEF UsageTypeOK, TypeOK
      <3>4. QED
        BY <3>1, <3>2, <3>3
    <2>2. conversation' \in Seq(Message)
      <3>1. CASE Save(c)
        <4>1. chat[c].history \in Seq(Message)
          BY DEF UsageTypeOK, TypeOK, Chat
        <4>2. QED
          BY <3>1, <4>1, TurnIsAdded DEF Save
      <3>2. CASE ~Save(c)
        <4>1. UNCHANGED conversation
          BY <1>3, <3>2 DEF ChatStep, ReadQueries, ReadTokens, ReadHistory, ChatFails, ModelEnds,
                            ModelStops, ModelCalls, ToolsReturn, Record, RecordBreaks, SaveFails
        <4>2. QED
          BY <4>1 DEF UsageTypeOK, TypeOK
      <3>3. QED
        BY <3>1, <3>2
    <2>3. owner' \in [Creates -> Chats \cup Posts \cup {Null}]
      <3>1. CASE ModelCalls(c)
        BY <3>1 DEF ModelCalls, UsageTypeOK, TypeOK
      <3>2. CASE ~ModelCalls(c)
        <4>1. UNCHANGED owner
          BY <1>3, <3>2 DEF ChatStep, ReadQueries, ReadTokens, ReadHistory, ChatFails, ModelEnds,
                            ModelStops, ToolsReturn, Record, RecordBreaks, Save, SaveFails
        <4>2. QED
          BY <4>1 DEF UsageTypeOK, TypeOK
      <3>3. QED
        BY <3>1, <3>2
    <2>4. QED
      BY <1>2, <1>3, <2>1, <2>2, <2>3, ChatChanges DEF UsageTypeOK, TypeOK
  <1>4. ASSUME NEW p \in Posts, PostStep(p)
        PROVE  UsageTypeOK'
    <2>1. /\ owner' \in [Creates -> Chats \cup Posts \cup {Null}]
          /\ post' \in [Posts -> {"new", "waiting", "metering", "created", "failed"}]
          /\ metered' \in Nat /\ unsure' \in SUBSET (Chats \cup Posts)
          /\ UNCHANGED <<now, usage, chat, conversation, spent, charged, earlier>>
      <3>1. CASE BeginPost(p)
        BY <3>1 DEF BeginPost, UsageTypeOK, TypeOK, history, counters
      <3>2. CASE AnswerPost(p)
        BY <3>2 DEF AnswerPost, UsageTypeOK, TypeOK, history, counters
      <3>3. CASE Meter(p)
        BY <3>3 DEF Meter, UsageTypeOK, TypeOK, history
      <3>4. CASE MeterBreaks(p)
        BY <3>4 DEF MeterBreaks, UsageTypeOK, TypeOK
      <3>5. QED
        BY <1>4, <3>1, <3>2, <3>3, <3>4 DEF PostStep
    <2>2. QED
      BY <1>2, <2>1 DEF UsageTypeOK, TypeOK
  <1>5. ASSUME NEW c \in Creates, ErpWorks(c)
        PROVE  UsageTypeOK'
    BY <1>2, <1>5 DEF ErpWorks, counters, history, UsageTypeOK, TypeOK
  <1>6. CASE ExpireConversation
    BY <1>2, <1>6, EmptySeq DEF ExpireConversation, counters, history, UsageTypeOK, TypeOK
  <1>7. CASE Tick
    <2>1. now' = now + 1 /\ now < MaxTime /\ now \in Nat /\ MaxTime \in Nat
      BY <1>7, TimeIsBounded DEF Tick, UsageTypeOK, TypeOK
    <2>2. NoCounters \in Counters
      BY DEF NoCounters, Counters
    <2>3. usage' \in [Months -> Counters]
      BY <1>7, <2>2 DEF Tick, UsageTypeOK, TypeOK
    <2>4. now' \in Nat /\ now' <= MaxTime
      BY <2>1
    <2>5. UNCHANGED <<chat, conversation, owner, post, metered, spent, charged, earlier, unsure>>
      BY <1>7 DEF Tick, history
    <2>6. QED
      BY <1>2, <2>3, <2>4, <2>5 DEF UsageTypeOK, TypeOK
  <1>8. CASE UNCHANGED vars
    BY <1>2, <1>8 DEF vars, counters, history, UsageTypeOK, TypeOK
  <1>9. QED
    BY <1>3, <1>4, <1>5, <1>6, <1>7, <1>8 DEF Next

\* Every counter, chat, message, call and post is well typed.
THEOREM UsageTyped == Spec => []TypeOK
  <1>1. UsageTypeOK => TypeOK
    BY DEF UsageTypeOK
  <1>2. QED
    BY <1>1, InitUsageTypes, NextUsageTypes, PTL DEF Spec

-----------------------------------------------------------------------------
(* What is saved of a conversation.  A chat that is answered remains so: what *)
(* it has read of others, and the next chat reads of it, remains whole turns. *)

\* s is whole turns of chats of done.
Turns(s, done) ==
    /\ Len(s) <= HISTORY /\ Len(s) % 2 = 0
    /\ \A i \in 1..(Len(s) \div 2) :
        LET question == s[2 * i - 1]
            answer == s[2 * i]
        IN  /\ question.role = "user" /\ answer.role = "assistant"
            /\ question.chat = answer.chat
            /\ question.chat \in done

Answered == {c \in Chats : At(c, "answered")}

HistoryInv ==
    /\ UsageTypeOK
    /\ Turns(conversation, Answered)
    /\ \A c \in Chats : Turns(chat[c].history, Answered)

LEMMA TurnsOfMore ==
    ASSUME NEW s, NEW D, NEW E, D \subseteq E, Turns(s, D)
    PROVE  Turns(s, E)
  BY DEF Turns

LEMMA NoTurns ==
    ASSUME NEW D
    PROVE  Turns(<<>>, D)
  <1>1. Len(<<>>) = 0 /\ HISTORY \in Nat /\ 0 % 2 = 0 /\ 0 \div 2 = 0
    BY EmptySeq, HistoryIsEven
  <1>2. 1..(Len(<<>>) \div 2) = {}
    BY <1>1
  <1>3. QED
    BY <1>1, <1>2 DEF Turns

LEMMA TurnsGrow ==
    ASSUME NEW s \in Seq(Message), NEW c \in Chats, NEW D, Turns(s, D)
    PROVE  Turns(LastMessages(s \o <<[role |-> "user", chat |-> c], [role |-> "assistant", chat |-> c]>>,
                              HISTORY),
                 D \cup {c})
  <1> DEFINE turn == <<[role |-> "user", chat |-> c], [role |-> "assistant", chat |-> c]>>
             last == LastMessages(s \o turn, HISTORY)
  <1>1. PICK drop :
          /\ drop = IF Len(s) + 2 > HISTORY THEN Len(s) + 2 - HISTORY ELSE 0
          /\ Len(s) \in Nat
          /\ Len(last) = Len(s) + 2 - drop
          /\ \A i \in 1..Len(last) : last[i] =
                 IF i + drop <= Len(s) THEN s[i + drop] ELSE turn[i + drop - Len(s)]
    BY TurnIsAdded
  <1> HIDE DEF last
  <1>2. PICK k \in Nat : Len(s) = 2 * k /\ Len(s) \div 2 = k
    BY <1>1 DEF Turns
  <1>3. PICK h \in Nat \ {0} : HISTORY = 2 * h
    BY HistoryIsEven
  <1>4. 2 * k <= 2 * h
    BY <1>2, <1>3 DEF Turns
  <1>5. PICK e \in {0, 1} : drop = 2 * e /\ k + 1 - e <= h
    BY <1>1, <1>2, <1>3, <1>4
  <1>6. /\ Len(last) = 2 * (k + 1 - e) /\ Len(last) \div 2 = k + 1 - e
        /\ Len(last) <= HISTORY /\ Len(last) % 2 = 0
    <2>1. Len(last) = 2 * (k + 1 - e) /\ k + 1 - e \in Nat
      BY <1>1, <1>2, <1>5
    <2>2. ASSUME NEW n \in Nat
          PROVE  (2 * n) \div 2 = n /\ (2 * n) % 2 = 0
      BY <2>2
    <2>3. QED
      BY <1>3, <1>5, <2>1, <2>2
  <1>7. ASSUME NEW i \in 1..(k + 1 - e)
        PROVE  /\ last[2 * i - 1].role = "user" /\ last[2 * i].role = "assistant"
               /\ last[2 * i - 1].chat = last[2 * i].chat
               /\ last[2 * i - 1].chat \in D \cup {c}
    <2>1. /\ i \in Nat /\ 2 * i - 1 \in 1..Len(last) /\ 2 * i \in 1..Len(last)
      BY <1>6
    <2>2. CASE i + e <= k
      <3>1. PICK j \in 1..(Len(s) \div 2) : j = i + e
        BY <1>2, <1>5, <2>1, <2>2
      <3>2. last[2 * i - 1] = s[2 * i - 1 + drop] /\ last[2 * i] = s[2 * i + drop]
        BY <1>1, <1>2, <1>5, <2>1, <2>2
      <3>3. 2 * i - 1 + drop = 2 * j - 1 /\ 2 * i + drop = 2 * j
        BY <1>5, <2>1, <3>1
      <3>4. last[2 * i - 1] = s[2 * j - 1] /\ last[2 * i] = s[2 * j]
        BY <3>2, <3>3
      <3>5. QED
        BY <3>1, <3>4 DEF Turns
    <2>3. CASE ~(i + e <= k)
      <3>1. i + e = k + 1
        BY <1>5, <2>1, <2>3
      <3>2. /\ 2 * i - 1 + drop = Len(s) + 1 /\ 2 * i + drop = Len(s) + 2
        BY <1>2, <1>5, <2>1, <3>1
      <3>3. /\ 2 * i - 1 + drop - Len(s) = 1 /\ 2 * i + drop - Len(s) = 2
            /\ ~(2 * i - 1 + drop <= Len(s)) /\ ~(2 * i + drop <= Len(s))
        BY <1>1, <1>2, <1>5, <2>1, <3>2
      <3>4. last[2 * i - 1] = turn[1] /\ last[2 * i] = turn[2]
        BY <1>1, <2>1, <3>3
      <3>5. QED
        BY <3>4
    <2>4. QED
      BY <2>2, <2>3
  <1>8. Turns(last, D \cup {c})
    BY <1>6, <1>7 DEF Turns
  <1>9. QED
    BY <1>8 DEF last

\* What a step of c does to what is answered and read.
LEMMA AnsweredRemain ==
    ASSUME HistoryInv, NEW c \in Chats, ChatStep(c)
    PROVE  /\ Answered \subseteq Answered'
           /\ c \notin Answered
           /\ Save(c) \/ conversation' = conversation
           /\ Save(c) => Answered' = Answered \cup {c}
           /\ \A d \in Chats : \/ chat'[d].history = chat[d].history
                               \/ chat'[d].history = conversation
  <1>1. /\ chat \in [Chats -> Chat] /\ chat' \in [Chats -> Chat]
        /\ \A d \in Chats \ {c} : chat'[d] = chat[d]
    BY ChatChanges DEF HistoryInv, UsageTypeOK, TypeOK
  <1>2. chat[c].pc # "answered"
    BY <1>1 DEF ChatStep, At, ReadQueries, ReadTokens, ReadHistory, ChatFails, ModelEnds, ModelStops,
                ModelCalls, ToolsReturn, Record, RecordBreaks, Save, SaveFails
  <1>3. Answered \subseteq Answered' /\ c \notin Answered
    BY <1>1, <1>2 DEF Answered, At
  <1>4. CASE Save(c)
    <2>1. chat' = [chat EXCEPT ![c].pc = "answered"]
      BY <1>4 DEF Save, Go
    <2>2. chat'[c].pc = "answered" /\ chat'[c].history = chat[c].history
      BY <1>1, <2>1 DEF Chat
    <2>3. Answered' = Answered \cup {c}
      BY <1>1, <2>2 DEF Answered, At
    <2>4. QED
      BY <1>1, <1>3, <1>4, <2>2, <2>3
  <1>5. CASE ~Save(c)
    <2>1. conversation' = conversation
      BY <1>5 DEF ChatStep, ReadQueries, ReadTokens, ReadHistory, ChatFails, ModelEnds,
                  ModelStops, ModelCalls, ToolsReturn, Record, RecordBreaks, SaveFails
    <2>2. chat'[c].history \in {chat[c].history, conversation}
      <3>1. CASE ReadHistory(c)
        BY <1>1, <3>1 DEF ReadHistory, Chat
      <3>2. CASE ReadQueries(c) \/ ModelEnds(c) \/ ModelStops(c) \/ ModelCalls(c) \/ ToolsReturn(c)
        BY <1>1, <3>2 DEF ReadQueries, ModelEnds, ModelStops, ModelCalls, ToolsReturn, Chat
      <3>3. CASE ReadTokens(c) \/ ChatFails(c) \/ Record(c) \/ RecordBreaks(c) \/ SaveFails(c)
        BY <1>1, <3>3 DEF ReadTokens, ChatFails, Record, RecordBreaks, SaveFails, Go, Chat
      <3>4. QED
        BY <1>5, <3>1, <3>2, <3>3 DEF ChatStep
    <2>3. QED
      BY <1>1, <1>3, <1>5, <2>1, <2>2
  <1>6. QED
    BY <1>4, <1>5

LEMMA NextHistory ==
    ASSUME HistoryInv, [Next]_vars
    PROVE  HistoryInv'
  <1>1. UsageTypeOK'
    BY NextUsageTypes DEF HistoryInv
  <1>2. ASSUME Turns(conversation', Answered'),
               \A c \in Chats : Turns(chat'[c].history, Answered')
        PROVE  HistoryInv'
    BY <1>1, <1>2 DEF HistoryInv, Turns
  <1>3. ASSUME conversation' \in {conversation, <<>>}, UNCHANGED chat
        PROVE  HistoryInv'
    <2>1. Answered' = Answered
      BY <1>3 DEF Answered, At
    <2>2. Turns(conversation', Answered')
      BY <1>3, <2>1, NoTurns DEF HistoryInv
    <2>3. QED
      BY <1>2, <1>3, <2>1, <2>2 DEF HistoryInv
  <1>4. ASSUME NEW c \in Chats, ChatStep(c)
        PROVE  HistoryInv'
    <2>1. Turns(conversation, Answered') /\ \A d \in Chats : Turns(chat[d].history, Answered')
      BY <1>4, AnsweredRemain, TurnsOfMore DEF HistoryInv
    <2>2. \A d \in Chats : Turns(chat'[d].history, Answered')
      <3>1. ASSUME NEW d \in Chats
            PROVE  Turns(chat'[d].history, Answered')
        <4>1. chat'[d].history = chat[d].history \/ chat'[d].history = conversation
          BY <1>4, AnsweredRemain
        <4>2. QED
          BY <2>1, <4>1
      <3>2. QED
        BY <3>1
    <2>3. Turns(conversation', Answered')
      <3>1. CASE Save(c)
        <4>1. chat[c].history \in Seq(Message) /\ Turns(chat[c].history, Answered)
          BY DEF HistoryInv, UsageTypeOK, TypeOK, Chat
        <4>2. Turns(conversation', Answered \cup {c})
          BY <3>1, <4>1, TurnsGrow DEF Save
        <4>3. QED
          BY <1>4, <3>1, <4>2, AnsweredRemain
      <3>2. CASE conversation' = conversation
        BY <2>1, <3>2
      <3>3. QED
        BY <1>4, <3>1, <3>2, AnsweredRemain
    <2>4. QED
      BY <1>2, <2>2, <2>3
  <1>5. CASE \E p \in Posts : PostStep(p)
    BY <1>3, <1>5 DEF PostStep, BeginPost, AnswerPost, Meter, MeterBreaks
  <1>6. CASE \E c \in Creates : ErpWorks(c)
    BY <1>3, <1>6 DEF ErpWorks
  <1>7. CASE ExpireConversation
    BY <1>3, <1>7 DEF ExpireConversation
  <1>8. CASE Tick
    BY <1>3, <1>8 DEF Tick
  <1>9. CASE UNCHANGED vars
    BY <1>3, <1>9 DEF vars
  <1>10. QED
    BY <1>4, <1>5, <1>6, <1>7, <1>8, <1>9 DEF Next

\* However chats overlap, the saved conversation is whole turns of chats that were answered, and no
\* longer than the history that is kept.
THEOREM ConversationWhole == Spec => []ConversationIsWhole
  <1>1. Init => HistoryInv
    <2> SUFFICES ASSUME Init PROVE HistoryInv
      OBVIOUS
    <2>1. conversation = <<>> /\ \A c \in Chats : chat[c].history = <<>>
      BY DEF Init
    <2>2. QED
      BY <2>1, InitUsageTypes, NoTurns DEF HistoryInv
  <1>2. HistoryInv => ConversationIsWhole
    BY DEF HistoryInv, Turns, Answered, ConversationIsWhole
  <1>3. QED
    BY <1>1, <1>2, NextHistory, PTL DEF Spec

-----------------------------------------------------------------------------
(* The counters of a month.  A round is a pair: a sum of rounds is the size of *)
(* a set, which grows by as many as a chat has had when the chat is added.     *)

LEMMA ChatsAreCounted ==
    /\ \A S \in SUBSET Chats : IsFiniteSet(S) /\ Cardinality(S) \in Nat
    /\ \A S, T \in SUBSET Chats : S \subseteq T => Cardinality(S) <= Cardinality(T)
    /\ \A S \in SUBSET Chats, c \in Chats : c \notin S => Cardinality(S \cup {c}) = Cardinality(S) + 1
    /\ Cardinality({}) = 0
  <1>1. ASSUME NEW S \in SUBSET Chats
        PROVE  IsFiniteSet(S) /\ Cardinality(S) \in Nat
    BY ChatsAreFinite, FS_Subset, FS_CardinalityType
  <1>2. ASSUME NEW S \in SUBSET Chats, NEW T \in SUBSET Chats, S \subseteq T
        PROVE  Cardinality(S) <= Cardinality(T)
    BY <1>1, <1>2, FS_Subset
  <1>3. ASSUME NEW S \in SUBSET Chats, NEW c \in Chats, c \notin S
        PROVE  Cardinality(S \cup {c}) = Cardinality(S) + 1
    BY <1>1, <1>3, FS_AddElement
  <1>4. QED
    BY <1>1, <1>2, <1>3, FS_EmptySet

RoundsOf(f, S) == UNION {{c} \X (1..f[c]) : c \in S}

LEMMA RoundsAreCounted ==
    ASSUME NEW f \in [Chats -> 0..MAX_ROUNDS]
    PROVE  /\ \A S \in SUBSET Chats : Cardinality(RoundsOf(f, S)) \in Nat
           /\ \A S, T \in SUBSET Chats :
                S \subseteq T => Cardinality(RoundsOf(f, S)) <= Cardinality(RoundsOf(f, T))
           /\ \A S \in SUBSET Chats, c \in Chats : c \notin S =>
                Cardinality(RoundsOf(f, S \cup {c})) = Cardinality(RoundsOf(f, S)) + f[c]
           /\ Cardinality(RoundsOf(f, {})) = 0
  <1>1. \A n \in 0..MAX_ROUNDS : IsFiniteSet(1..n) /\ Cardinality(1..n) = n
    BY RoundsArePositive, FS_Interval
  <1>2. ASSUME NEW S \in SUBSET Chats
        PROVE  IsFiniteSet(RoundsOf(f, S)) /\ Cardinality(RoundsOf(f, S)) \in Nat
    <2>1. ASSUME NEW c \in S
          PROVE  {c} \X (1..f[c]) \subseteq Chats \X (1..MAX_ROUNDS)
      <3>1. f[c] \in 0..MAX_ROUNDS /\ c \in Chats
        OBVIOUS
      <3>2. 1..f[c] \subseteq 1..MAX_ROUNDS
        BY <3>1, RoundsArePositive
      <3>3. QED
        BY <3>1, <3>2
    <2>2. IsFiniteSet(Chats \X (1..MAX_ROUNDS))
      <3>1. IsFiniteSet(1..MAX_ROUNDS)
        BY RoundsArePositive, FS_Interval
      <3>2. QED
        BY <3>1, ChatsAreFinite, FS_Product
    <2>3. RoundsOf(f, S) \subseteq Chats \X (1..MAX_ROUNDS)
      BY <2>1 DEF RoundsOf
    <2>4. QED
      BY <2>2, <2>3, FS_Subset, FS_CardinalityType
  <1>3. ASSUME NEW S \in SUBSET Chats, NEW T \in SUBSET Chats, S \subseteq T
        PROVE  Cardinality(RoundsOf(f, S)) <= Cardinality(RoundsOf(f, T))
    <2>1. RoundsOf(f, S) \subseteq RoundsOf(f, T)
      BY <1>3 DEF RoundsOf
    <2>2. QED
      BY <1>2, <2>1, FS_Subset
  <1>4. ASSUME NEW S \in SUBSET Chats, NEW c \in Chats, c \notin S
        PROVE  Cardinality(RoundsOf(f, S \cup {c})) = Cardinality(RoundsOf(f, S)) + f[c]
    <2>1. RoundsOf(f, S \cup {c}) = RoundsOf(f, S) \cup ({c} \X (1..f[c]))
      BY DEF RoundsOf
    <2>2. RoundsOf(f, S) \cap ({c} \X (1..f[c])) = {}
      BY <1>4 DEF RoundsOf
    <2>3. IsFiniteSet({c} \X (1..f[c])) /\ Cardinality({c} \X (1..f[c])) = f[c]
      <3>1. f[c] \in 0..MAX_ROUNDS /\ f[c] \in Nat
        BY RoundsArePositive
      <3>2. IsFiniteSet({c}) /\ Cardinality({c}) = 1
        BY FS_Singleton
      <3>3. IsFiniteSet(1..f[c]) /\ Cardinality(1..f[c]) = f[c]
        BY <1>1, <3>1
      <3>4. IsFiniteSet({c} \X (1..f[c])) /\ Cardinality({c} \X (1..f[c])) = 1 * f[c]
        BY <3>2, <3>3, FS_Product
      <3>5. QED
        BY <3>1, <3>4
    <2>4. Cardinality({}) = 0 /\ f[c] \in Nat
      BY RoundsArePositive, FS_EmptySet
    <2>5. /\ IsFiniteSet(RoundsOf(f, S)) /\ Cardinality(RoundsOf(f, S)) \in Nat
      BY <1>2
    <2>6. Cardinality(RoundsOf(f, S) \cup ({c} \X (1..f[c])))
            = Cardinality(RoundsOf(f, S)) + Cardinality({c} \X (1..f[c]))
              - Cardinality(RoundsOf(f, S) \cap ({c} \X (1..f[c])))
      BY <2>3, <2>5, FS_Union
    <2>7. Cardinality(RoundsOf(f, S) \cap ({c} \X (1..f[c]))) = 0
      BY <2>2, <2>4
    <2>8. ASSUME NEW a \in Nat, NEW b \in Nat, NEW u, u = a + b - 0
          PROVE  u = a + b
      BY <2>8
    <2>9. Cardinality(RoundsOf(f, S) \cup ({c} \X (1..f[c]))) = Cardinality(RoundsOf(f, S)) + f[c]
      BY <2>3, <2>4, <2>5, <2>6, <2>7, <2>8
    <2>10. QED
      BY <2>1, <2>9
  <1>5. RoundsOf(f, {}) = {}
    BY DEF RoundsOf
  <1>6. QED
    BY <1>2, <1>3, <1>4, <1>5, FS_EmptySet

Recorded(m) == {c \in Chats : charged[c] = m}

\* The chats whose use was in the counters of its month when c asked.
Before(c) == {d \in earlier[c] : charged[d] = chat[c].month}

RoundsInv(c) ==
    /\ spent[c] <= MAX_ROUNDS /\ chat[c].tokens = spent[c]
    /\ chat[c].pc \in {"new", "tokens", "history"} => spent[c] = 0 /\ chat[c].round = 0
    /\ chat[c].pc = "model" => spent[c] = chat[c].round /\ chat[c].round < MAX_ROUNDS
    /\ chat[c].pc = "tools" => spent[c] = chat[c].round + 1 /\ chat[c].round < MAX_ROUNDS
    /\ charged[c] # -1 => chat[c].pc \in {"save", "answered", "failed"}

\* Counters are never less than what was recorded, and no more while no command was lost; those of
\* a month in which a chat was recorded are there for longer than the month.
CountersInv(m) ==
    /\ usage[m].until = 0 => usage[m].queries = 0 /\ usage[m].tokens = 0
    /\ Recorded(m) # {} => \/ m * MONTH + USAGE_TTL <= now
                           \/ m * MONTH + USAGE_TTL <= usage[m].until
    /\ usage[m].until # 0 => /\ Cardinality(Recorded(m)) <= usage[m].queries
                             /\ SpentBy(Recorded(m)) <= usage[m].tokens
    /\ usage[m].until # 0 /\ unsure = {} => /\ Cardinality(Recorded(m)) = usage[m].queries
                                            /\ SpentBy(Recorded(m)) = usage[m].tokens

\* What c has read of them covers what had been recorded when it asked.
ReadsInv(c) ==
    /\ \A d \in earlier[c] : charged[d] # -1
    /\ chat[c].pc = "tokens" => /\ chat[c].month \in Months
                                /\ now < chat[c].month * MONTH + USAGE_TTL
                                /\ Cardinality(Before(c)) <= chat[c].queries
    /\ Admitted(c) => Cardinality(Before(c)) < QUERY_LIMIT /\ SpentBy(Before(c)) < TOKEN_LIMIT

PostInv(p) ==
    post[p] \in {"metering", "created"} => \E d \in Creates : owner[d] = p /\ client[d] = "created"

MeterInv == unsure = {} => metered = Cardinality({p \in Posts : post[p] = "created"})

CountInv ==
    /\ UsageTypeOK
    /\ \A c \in Chats : RoundsInv(c)
    /\ \A m \in Months : CountersInv(m)
    /\ \A c \in Chats : ReadsInv(c)
    /\ \A p \in Posts : PostInv(p)
    /\ MeterInv

LEMMA SpentIsRounds ==
    /\ \A S : SpentBy(S) = Cardinality(RoundsOf(spent, S))
    /\ \A S : SpentBy(S)' = Cardinality(RoundsOf(spent', S))
  BY DEF SpentBy, Rounds, RoundsOf

\* Counters that cannot have expired cover what was recorded.
LEMMA CountersCover ==
    ASSUME CountInv, NEW m \in Months, now < m * MONTH + USAGE_TTL
    PROVE  /\ Cardinality(Recorded(m)) <= usage[m].queries
           /\ SpentBy(Recorded(m)) <= usage[m].tokens
           /\ unsure = {} => /\ Cardinality(Recorded(m)) = usage[m].queries
                             /\ SpentBy(Recorded(m)) = usage[m].tokens
           /\ Recorded(m) # {} => usage[m].until # 0
  <1>1. /\ CountersInv(m) /\ now \in Nat /\ m \in Nat /\ MONTH \in Nat /\ USAGE_TTL \in Nat \ {0}
        /\ usage[m] \in Counters
    <2>1. CountersInv(m) /\ UsageTypeOK
      BY DEF CountInv
    <2>2. now \in Nat /\ usage[m] \in Counters
      BY <2>1 DEF UsageTypeOK, TypeOK
    <2>3. m \in Nat
      BY DEF Months
    <2>4. QED
      BY <2>1, <2>2, <2>3, CountersOutliveMonth
  <1>2. m * MONTH \in Nat
    <2>1. ASSUME NEW a \in Nat, NEW b \in Nat
          PROVE  a * b \in Nat
      BY <2>1
    <2>2. QED
      BY <1>1, <2>1
  <1>3. Recorded(m) # {} => usage[m].until # 0
    <2>1. usage[m].until \in Nat
      BY <1>1 DEF Counters
    <2>2. Recorded(m) # {} => m * MONTH + USAGE_TTL <= usage[m].until
      BY <1>1, <1>2 DEF CountersInv
    <2>3. QED
      BY <1>1, <1>2, <2>1, <2>2
  <1>4. CASE usage[m].until # 0
    BY <1>1, <1>3, <1>4 DEF CountersInv
  <1>5. CASE usage[m].until = 0
    <2>1. Recorded(m) = {} /\ usage[m].queries = 0 /\ usage[m].tokens = 0
      BY <1>1, <1>3, <1>5 DEF CountersInv
    <2>2. Cardinality({}) = 0 /\ SpentBy({}) = 0
      BY FS_EmptySet DEF SpentBy, Rounds
    <2>3. QED
      BY <1>3, <2>1, <2>2
  <1>6. QED
    BY <1>4, <1>5

\* The rounds of a chat, and what is settled once it is recorded.
LEMMA NextRounds ==
    ASSUME CountInv, NEW c \in Chats, ChatStep(c)
    PROVE  /\ \A d \in Chats : RoundsInv(d)'
           /\ \A d \in Chats : charged[d] # -1 => charged'[d] = charged[d] /\ spent'[d] = spent[d]
           /\ \A d \in Chats : \/ charged'[d] = charged[d]
                               \/ charged[d] = -1 /\ d = c /\ Record(c)
  <1>1. /\ chat \in [Chats -> Chat] /\ chat' \in [Chats -> Chat] /\ chat[c] \in Chat
        /\ spent \in [Chats -> Nat] /\ spent' \in [Chats -> Nat] /\ charged \in [Chats -> Months \cup {-1}]
        /\ \A d \in Chats \ {c} : chat'[d] = chat[d] /\ spent'[d] = spent[d] /\ charged'[d] = charged[d]
        /\ chat[c].round \in Nat /\ chat[c].tokens \in Nat /\ spent[c] \in Nat
        /\ MAX_ROUNDS \in Nat \ {0} /\ RoundsInv(c)
        /\ \A m \in Months : m # -1
    <2>1. UsageTypeOK /\ RoundsInv(c)
      BY DEF CountInv
    <2>2. /\ chat \in [Chats -> Chat] /\ spent \in [Chats -> Nat] /\ charged \in [Chats -> Months \cup {-1}]
      BY <2>1 DEF UsageTypeOK, TypeOK
    <2>3. chat[c].round \in Nat /\ chat[c].tokens \in Nat
      BY <2>2 DEF Chat
    <2>4. \A m \in Months : m # -1
      BY DEF Months
    <2>5. QED
      BY <2>1, <2>2, <2>3, <2>4, ChatChanges, RoundsArePositive
  <1>2. ASSUME RoundsInv(c)', charged[c] # -1 => charged'[c] = charged[c] /\ spent'[c] = spent[c],
               charged'[c] = charged[c] \/ (charged[c] = -1 /\ Record(c))
        PROVE  /\ \A d \in Chats : RoundsInv(d)'
               /\ \A d \in Chats : charged[d] # -1 => charged'[d] = charged[d] /\ spent'[d] = spent[d]
               /\ \A d \in Chats : \/ charged'[d] = charged[d]
                                   \/ charged[d] = -1 /\ d = c /\ Record(c)
    <2>1. ASSUME NEW d \in Chats \ {c}
          PROVE  RoundsInv(d)'
      BY <1>1 DEF CountInv, RoundsInv
    <2>2. QED
      BY <1>1, <1>2, <2>1
  <1>3. ASSUME NEW pc \in {"tokens", "history", "record", "save", "answered", "denied", "failed"},
               Go(c, pc)
        PROVE  chat'[c].pc = pc /\ chat'[c].round = chat[c].round /\ chat'[c].tokens = chat[c].tokens
    BY <1>1, <1>3 DEF Go, Chat
  <1>4. CASE ReadQueries(c)
    <2>1. /\ chat[c].pc = "new" /\ chat'[c].pc = "tokens" /\ chat'[c].round = chat[c].round
          /\ chat'[c].tokens = chat[c].tokens /\ spent' = spent /\ charged' = charged
      BY <1>1, <1>4 DEF ReadQueries, At, Chat
    <2>2. RoundsInv(c)' /\ (charged[c] # -1 => spent'[c] = spent[c])
      BY <1>1, <2>1 DEF RoundsInv
    <2>3. QED
      BY <1>2, <2>1, <2>2
  <1>5. CASE ReadTokens(c)
    <2>1. /\ chat[c].pc = "tokens" /\ chat'[c].pc \in {"history", "denied"}
          /\ chat'[c].round = chat[c].round
          /\ chat'[c].tokens = chat[c].tokens /\ spent' = spent /\ charged' = charged
      BY <1>3, <1>5 DEF ReadTokens, At, history
    <2>2. RoundsInv(c)' /\ (charged[c] # -1 => spent'[c] = spent[c])
      BY <1>1, <2>1 DEF RoundsInv
    <2>3. QED
      BY <1>2, <2>1, <2>2
  <1>6. CASE ReadHistory(c)
    <2>1. /\ chat[c].pc = "history" /\ chat'[c].pc = "model" /\ chat'[c].round = chat[c].round
          /\ chat'[c].tokens = chat[c].tokens /\ spent' = spent /\ charged' = charged
      BY <1>1, <1>6 DEF ReadHistory, At, Chat, history
    <2>2. RoundsInv(c)' /\ (charged[c] # -1 => spent'[c] = spent[c])
      BY <1>1, <2>1 DEF RoundsInv
    <2>3. QED
      BY <1>2, <2>1, <2>2
  <1>7. CASE ChatFails(c)
    <2>1. /\ chat[c].pc \in {"tokens", "history", "model"} /\ chat'[c].pc = "failed"
          /\ chat'[c].round = chat[c].round
          /\ chat'[c].tokens = chat[c].tokens /\ spent' = spent /\ charged' = charged
      BY <1>3, <1>7 DEF ChatFails, At, history
    <2>2. RoundsInv(c)' /\ (charged[c] # -1 => spent'[c] = spent[c])
      BY <1>1, <2>1 DEF RoundsInv
    <2>3. QED
      BY <1>2, <2>1, <2>2
  <1>8. CASE ModelEnds(c)
    <2>1. /\ chat[c].pc = "model" /\ chat'[c].pc = "record" /\ chat'[c].round = chat[c].round
          /\ chat'[c].tokens = chat[c].tokens + 1 /\ spent'[c] = spent[c] + 1 /\ charged' = charged
      BY <1>1, <1>8 DEF ModelEnds, At, Chat
    <2>2. RoundsInv(c)' /\ (charged[c] # -1 => spent'[c] = spent[c])
      BY <1>1, <2>1 DEF RoundsInv
    <2>3. QED
      BY <1>2, <2>1, <2>2
  <1>9. CASE ModelStops(c)
    <2>1. /\ chat[c].pc = "model" /\ chat'[c].pc = AfterRound(c) /\ chat'[c].round = chat[c].round + 1
          /\ chat'[c].tokens = chat[c].tokens + 1 /\ spent'[c] = spent[c] + 1 /\ charged' = charged
      BY <1>1, <1>9 DEF ModelStops, At, Chat
    <2>2. RoundsInv(c)' /\ (charged[c] # -1 => spent'[c] = spent[c])
      BY <1>1, <2>1 DEF RoundsInv, AfterRound
    <2>3. QED
      BY <1>2, <2>1, <2>2
  <1>10. CASE ModelCalls(c)
    <2>1. /\ chat[c].pc = "model" /\ chat'[c].pc = "tools" /\ chat'[c].round = chat[c].round
          /\ chat'[c].tokens = chat[c].tokens + 1 /\ spent'[c] = spent[c] + 1 /\ charged' = charged
      BY <1>1, <1>10 DEF ModelCalls, At, Chat
    <2>2. RoundsInv(c)' /\ (charged[c] # -1 => spent'[c] = spent[c])
      BY <1>1, <2>1 DEF RoundsInv
    <2>3. QED
      BY <1>2, <2>1, <2>2
  <1>11. CASE ToolsReturn(c)
    <2>1. /\ chat[c].pc = "tools" /\ chat'[c].pc = AfterRound(c) /\ chat'[c].round = chat[c].round + 1
          /\ chat'[c].tokens = chat[c].tokens /\ spent' = spent /\ charged' = charged
      BY <1>1, <1>11 DEF ToolsReturn, At, Chat, history
    <2>2. RoundsInv(c)' /\ (charged[c] # -1 => spent'[c] = spent[c])
      BY <1>1, <2>1 DEF RoundsInv, AfterRound
    <2>3. QED
      BY <1>2, <2>1, <2>2
  <1>12. CASE Record(c)
    <2>1. /\ chat[c].pc = "record" /\ chat'[c].pc = "save"
          /\ chat'[c].round = chat[c].round /\ chat'[c].tokens = chat[c].tokens /\ spent' = spent
      BY <1>3, <1>12 DEF Record, At
    <2>2. charged[c] = -1
      BY <1>1, <2>1 DEF RoundsInv
    <2>3. RoundsInv(c)'
      BY <1>1, <2>1 DEF RoundsInv
    <2>4. QED
      BY <1>2, <1>12, <2>1, <2>2, <2>3
  <1>13. CASE RecordBreaks(c)
    <2>1. /\ chat[c].pc = "record" /\ chat'[c].pc \in {"save", "failed"}
          /\ chat'[c].round = chat[c].round /\ chat'[c].tokens = chat[c].tokens
          /\ spent' = spent /\ charged' = charged
      BY <1>3, <1>13 DEF RecordBreaks, At
    <2>2. RoundsInv(c)' /\ (charged[c] # -1 => spent'[c] = spent[c])
      BY <1>1, <2>1 DEF RoundsInv
    <2>3. QED
      BY <1>2, <2>1, <2>2
  <1>14. CASE Save(c) \/ SaveFails(c)
    <2>1. /\ chat[c].pc = "save" /\ chat'[c].pc \in {"answered", "failed"}
          /\ chat'[c].round = chat[c].round /\ chat'[c].tokens = chat[c].tokens
          /\ spent' = spent /\ charged' = charged
      BY <1>3, <1>14 DEF Save, SaveFails, At, history
    <2>2. RoundsInv(c)' /\ (charged[c] # -1 => spent'[c] = spent[c])
      BY <1>1, <2>1 DEF RoundsInv
    <2>3. QED
      BY <1>2, <2>1, <2>2
  <1>15. QED
    BY <1>4, <1>5, <1>6, <1>7, <1>8, <1>9, <1>10, <1>11, <1>12, <1>13, <1>14 DEF ChatStep

\* A sum of rounds, and the chats before another, stay what they are while those chats do.
LEMMA SumStays ==
    ASSUME NEW S, \A d \in S : spent'[d] = spent[d]
    PROVE  Cardinality(RoundsOf(spent', S)) = Cardinality(RoundsOf(spent, S))
  <1>1. RoundsOf(spent', S) = RoundsOf(spent, S)
    BY DEF RoundsOf
  <1>2. QED
    BY <1>1

LEMMA ReadsStay ==
    ASSUME CountInv, NEW c \in Chats,
           \A d \in Chats : charged[d] # -1 => charged'[d] = charged[d] /\ spent'[d] = spent[d],
           earlier'[c] = earlier[c], chat'[c].month = chat[c].month,
           chat'[c].queries = chat[c].queries
    PROVE  /\ \A d \in earlier'[c] : charged'[d] # -1
           /\ Before(c)' = Before(c) /\ SpentBy(Before(c))' = SpentBy(Before(c))
           /\ Cardinality(Before(c))' = Cardinality(Before(c))
           /\ Before(c) \in SUBSET Chats
  <1>1. earlier[c] \subseteq Chats /\ \A d \in earlier[c] : charged[d] # -1
    BY DEF CountInv, ReadsInv, UsageTypeOK, TypeOK
  <1>2. Before(c)' = Before(c) /\ Before(c) \in SUBSET Chats
    BY <1>1 DEF Before
  <1>3. SpentBy(Before(c))' = Cardinality(RoundsOf(spent', Before(c)))
    <2>1. SpentBy(Before(c))' = Cardinality(RoundsOf(spent', Before(c)'))
      BY DEF SpentBy, Rounds, RoundsOf
    <2>2. QED
      BY <1>2, <2>1
  <1>4. Cardinality(RoundsOf(spent', Before(c))) = Cardinality(RoundsOf(spent, Before(c)))
    <2>1. \A d \in Before(c) : spent'[d] = spent[d]
      BY <1>1 DEF Before
    <2>2. QED
      BY <2>1, SumStays
  <1>5. SpentBy(Before(c)) = Cardinality(RoundsOf(spent, Before(c)))
    BY DEF SpentBy, Rounds, RoundsOf
  <1>6. QED
    BY <1>1, <1>2, <1>3, <1>4, <1>5

LEMMA SpentIsBounded ==
    ASSUME CountInv
    PROVE  spent \in [Chats -> 0..MAX_ROUNDS]
  <1>1. spent \in [Chats -> Nat] /\ \A c \in Chats : spent[c] <= MAX_ROUNDS
    BY DEF CountInv, RoundsInv, UsageTypeOK, TypeOK
  <1>2. \A c \in Chats : spent[c] \in 0..MAX_ROUNDS
    BY <1>1, RoundsArePositive
  <1>3. QED
    BY <1>1, <1>2

LEMMA NextReads ==
    ASSUME CountInv, NEW c \in Chats, ChatStep(c)
    PROVE  \A d \in Chats : ReadsInv(d)'
  <1>1. /\ chat \in [Chats -> Chat] /\ chat' \in [Chats -> Chat]
        /\ \A d \in Chats \ {c} : chat'[d] = chat[d] /\ earlier'[d] = earlier[d]
        /\ now' = now /\ now \in Nat
        /\ earlier \in [Chats -> SUBSET Chats]
    BY ChatChanges DEF CountInv, UsageTypeOK, TypeOK
  <1>2. \A d \in Chats : charged[d] # -1 => charged'[d] = charged[d] /\ spent'[d] = spent[d]
    BY NextRounds
  <1>3. ASSUME NEW d \in Chats, earlier'[d] = earlier[d], chat'[d].month = chat[d].month,
               chat'[d].queries = chat[d].queries,
               chat'[d].pc = "tokens" => chat[d].pc = "tokens",
               Admitted(d)' => Admitted(d)
        PROVE  ReadsInv(d)'
    <2>1. /\ \A e \in earlier'[d] : charged'[e] # -1
          /\ SpentBy(Before(d))' = SpentBy(Before(d))
          /\ Cardinality(Before(d))' = Cardinality(Before(d))
      BY <1>2, <1>3, ReadsStay
    <2>2. ReadsInv(d)
      BY DEF CountInv
    <2>3. QED
      BY <1>1, <1>3, <2>1, <2>2 DEF ReadsInv, Months
  <1>4. ASSUME NEW d \in Chats \ {c}
        PROVE  ReadsInv(d)'
    BY <1>1, <1>3 DEF Admitted
  <1>5. CASE ReadQueries(c)
    <2> DEFINE m == ThisMonth
    <2>1. m \in Months /\ now < m * MONTH + USAGE_TTL
      <3>1. m \in Months /\ m \in Nat /\ now < m * MONTH + MONTH
        BY PresentMonth DEF CountInv
      <3>2. \A a \in Nat : now < a + MONTH => now < a + USAGE_TTL
        BY <1>1, CountersOutliveMonth
      <3>3. ASSUME NEW a \in Nat, NEW b \in Nat
            PROVE  a * b \in Nat
        BY <3>3
      <3>4. QED
        BY <3>1, <3>2, <3>3, CountersOutliveMonth
    <2>2. /\ chat'[c].pc = "tokens" /\ chat'[c].month = m /\ chat'[c].queries = usage[m].queries
          /\ earlier'[c] = {d \in Chats : charged[d] # -1} /\ charged' = charged
      BY <1>1, <1>5 DEF ReadQueries, Chat
    <2>3. Before(c)' = Recorded(m)
      <3>1. m # -1
        BY <2>1 DEF Months
      <3>2. Before(c)' = {d \in earlier'[c] : charged'[d] = chat'[c].month}
        BY DEF Before
      <3>3. QED
        BY <2>2, <3>1, <3>2 DEF Recorded
    <2>4. Cardinality(Recorded(m)) <= usage[m].queries
      BY <2>1, CountersCover
    <2>5. Cardinality(Before(c))' <= chat'[c].queries
      BY <2>2, <2>3, <2>4
    <2>6. ~Admitted(c)'
      BY <2>2 DEF Admitted
    <2>7. ReadsInv(c)'
      BY <1>1, <2>1, <2>2, <2>5, <2>6 DEF ReadsInv, Months
    <2>8. QED
      BY <1>4, <2>7
  <1>6. CASE ReadTokens(c)
    <2> DEFINE m == chat[c].month
    <2>1. /\ chat[c].pc = "tokens" /\ UNCHANGED <<earlier, charged, spent>>
          /\ chat'[c].month = m /\ chat'[c].queries = chat[c].queries
          /\ chat'[c].pc \in {"history", "denied"}
          /\ chat'[c].pc = "history" => chat[c].queries < QUERY_LIMIT /\ usage[m].tokens < TOKEN_LIMIT
      BY <1>1, <1>6 DEF ReadTokens, Go, At, Chat, history
    <2>2. /\ m \in Months /\ now < m * MONTH + USAGE_TTL
          /\ Cardinality(Before(c)) <= chat[c].queries
      BY <2>1 DEF CountInv, ReadsInv
    <2>3. /\ \A d \in earlier'[c] : charged'[d] # -1
          /\ SpentBy(Before(c))' = SpentBy(Before(c))
          /\ Cardinality(Before(c))' = Cardinality(Before(c))
          /\ Before(c) \in SUBSET Chats
      BY <1>2, <2>1, ReadsStay
    <2>4. SpentBy(Before(c)) \in Nat /\ SpentBy(Before(c)) <= usage[m].tokens
      <3>1. Before(c) \subseteq Recorded(m) /\ Recorded(m) \in SUBSET Chats
        BY <2>3 DEF Before, Recorded
      <3>2. /\ SpentBy(Before(c)) \in Nat /\ SpentBy(Recorded(m)) \in Nat
            /\ SpentBy(Before(c)) <= SpentBy(Recorded(m))
        BY <2>3, <3>1, RoundsAreCounted, SpentIsBounded, SpentIsRounds
      <3>3. SpentBy(Recorded(m)) <= usage[m].tokens
        BY <2>2, CountersCover
      <3>4. usage[m].tokens \in Nat
        BY <2>2 DEF CountInv, UsageTypeOK, TypeOK, Counters
      <3>5. QED
        BY <3>2, <3>3, <3>4
    <2>5. Cardinality(Before(c)) \in Nat /\ chat[c].queries \in Nat /\ usage[m].tokens \in Nat
          /\ QUERY_LIMIT \in Nat /\ TOKEN_LIMIT \in Nat
      <3>1. Cardinality(Before(c)) \in Nat
        BY <2>3, ChatsAreCounted
      <3>2. chat[c].queries \in Nat /\ usage[m].tokens \in Nat
        <4>1. usage[m] \in Counters /\ chat[c] \in Chat
          BY <2>2 DEF CountInv, UsageTypeOK, TypeOK
        <4>2. QED
          BY <4>1 DEF Counters, Chat
      <3>3. QED
        BY <3>1, <3>2, LimitsArePositive
    <2>6. Admitted(c)' => /\ Cardinality(Before(c)) < QUERY_LIMIT
                          /\ SpentBy(Before(c)) < TOKEN_LIMIT
      <3>1. Admitted(c)' => chat'[c].pc = "history"
        BY <2>1 DEF Admitted
      <3>2. QED
        BY <2>1, <2>2, <2>4, <2>5, <3>1
    <2>7. ReadsInv(c)'
      BY <2>1, <2>3, <2>6 DEF ReadsInv
    <2>8. QED
      BY <1>4, <2>7
  <1>7. CASE ~ReadQueries(c) /\ ~ReadTokens(c)
    <2>1. /\ earlier'[c] = earlier[c] /\ chat'[c].month = chat[c].month
          /\ chat'[c].queries = chat[c].queries
          /\ chat'[c].pc # "tokens" /\ (Admitted(c)' => Admitted(c))
      <3>1. CASE ReadHistory(c)
        BY <1>1, <3>1 DEF ReadHistory, At, Admitted, Chat, history
      <3>2. CASE ModelEnds(c) \/ ModelStops(c) \/ ModelCalls(c)
        BY <1>1, <3>2 DEF ModelEnds, ModelStops, ModelCalls, AfterRound, At, Admitted, Chat
      <3>3. CASE ToolsReturn(c)
        BY <1>1, <3>3 DEF ToolsReturn, AfterRound, At, Admitted, Chat, history
      <3>4. CASE ChatFails(c) \/ Record(c) \/ RecordBreaks(c) \/ Save(c) \/ SaveFails(c)
        <4>1. ASSUME NEW pc \in {"failed", "save", "answered"}, Go(c, pc)
              PROVE  /\ chat'[c].month = chat[c].month /\ chat'[c].queries = chat[c].queries
                     /\ chat'[c].pc = pc
          BY <1>1, <4>1 DEF Go, Chat
        <4>2. /\ Go(c, "failed") \/ (chat[c].pc \in {"record", "save"} /\ (Go(c, "save") \/ Go(c, "answered")))
              /\ earlier' = earlier
          BY <3>4 DEF ChatFails, Record, RecordBreaks, Save, SaveFails, At, history
        <4>3. QED
          BY <4>1, <4>2 DEF Admitted
      <3>5. QED
        BY <1>7, <3>1, <3>2, <3>3, <3>4 DEF ChatStep
    <2>2. QED
      BY <1>3, <1>4, <2>1
  <1>8. QED
    BY <1>5, <1>6, <1>7

LEMMA CountersStay ==
    ASSUME CountInv, NEW m \in Months, usage'[m] = usage[m], Recorded(m)' = Recorded(m),
           \A d \in Recorded(m) : spent'[d] = spent[d],
           unsure' = {} => unsure = {}, now' \in Nat, now <= now'
    PROVE  CountersInv(m)'
  <1>1. CountersInv(m) /\ now \in Nat /\ m \in Nat /\ MONTH \in Nat /\ USAGE_TTL \in Nat
    BY CountersOutliveMonth DEF CountInv, UsageTypeOK, TypeOK, Months
  <1>2. SpentBy(Recorded(m))' = SpentBy(Recorded(m)) /\ Cardinality(Recorded(m))' = Cardinality(Recorded(m))
    <2>1. SpentBy(Recorded(m))' = Cardinality(RoundsOf(spent', Recorded(m)'))
      BY DEF SpentBy, Rounds, RoundsOf
    <2>2. Cardinality(RoundsOf(spent', Recorded(m))) = Cardinality(RoundsOf(spent, Recorded(m)))
      BY SumStays
    <2>3. SpentBy(Recorded(m)) = Cardinality(RoundsOf(spent, Recorded(m)))
      BY DEF SpentBy, Rounds, RoundsOf
    <2>4. QED
      BY <2>1, <2>2, <2>3
  <1>3. m * MONTH + USAGE_TTL <= now => m * MONTH + USAGE_TTL <= now'
    <2>1. \A a \in Int : a <= now => a <= now'
      BY <1>1
    <2>2. ASSUME NEW a \in Nat, NEW b \in Nat
          PROVE  a * b \in Nat
      BY <2>2
    <2>3. QED
      BY <1>1, <2>1, <2>2
  <1>4. QED
    BY <1>1, <1>2, <1>3 DEF CountersInv

\* A chat is recorded: its month has one more, with its rounds.
LEMMA RecordCounts ==
    ASSUME CountInv, NEW c \in Chats, Record(c)
    PROVE  \A m \in Months : CountersInv(m)'
  <1>0. PICK m \in Months : m = ThisMonth
    BY PresentMonth DEF CountInv
  <1>1. Charge(c, 1, 1, TRUE)
    BY DEF Record
  <1>2. /\ m \in Months
        /\ \A k \in Months \ {m} : usage'[k] = usage[k]
        /\ usage'[m].queries = usage[m].queries + 1
        /\ usage'[m].tokens = usage[m].tokens + 1 * chat[c].tokens
        /\ usage'[m].until = now + USAGE_TTL
    <2>1. 1 \in 0..2 /\ TRUE \in BOOLEAN
      OBVIOUS
    <2>2. QED
      BY <1>0, <1>1, <2>1, ChargeAdds DEF CountInv
  <1>3. /\ now' = now /\ now \in Nat /\ spent' = spent /\ unsure' = unsure
        /\ charged' = [charged EXCEPT ![c] = m]
        /\ charged \in [Chats -> Months \cup {-1}]
        /\ usage[m] \in Counters /\ chat[c].tokens = spent[c] /\ spent[c] \in Nat
        /\ chat[c].pc = "record" /\ RoundsInv(c)
    <2>1. UsageTypeOK /\ RoundsInv(c)
      BY DEF CountInv
    <2>2. now \in Nat /\ charged \in [Chats -> Months \cup {-1}] /\ spent[c] \in Nat /\ usage[m] \in Counters
      BY <1>0, <2>1 DEF UsageTypeOK, TypeOK
    <2>3. /\ now' = now /\ spent' = spent /\ unsure' = unsure
          /\ charged' = [charged EXCEPT ![c] = m] /\ chat[c].pc = "record"
      BY <1>0 DEF Record, At
    <2>4. chat[c].tokens = spent[c]
      BY <2>1 DEF RoundsInv
    <2>5. QED
      BY <2>1, <2>2, <2>3, <2>4
  <1>4. charged[c] = -1 /\ \A k \in Months : k # -1
    BY <1>3 DEF RoundsInv, Months
  <1>5. Recorded(m)' = Recorded(m) \cup {c} /\ c \notin Recorded(m)
    BY <1>2, <1>3, <1>4 DEF Recorded
  <1>6. \A k \in Months \ {m} : Recorded(k)' = Recorded(k)
    BY <1>2, <1>3, <1>4 DEF Recorded
  <1>7. ASSUME NEW k \in Months \ {m}
        PROVE  CountersInv(k)'
    BY <1>2, <1>3, <1>6, CountersStay
  <1>8. /\ m * MONTH <= now /\ now < m * MONTH + USAGE_TTL /\ m * MONTH \in Int
        /\ USAGE_TTL \in Nat \ {0}
    <2>1. m \in Nat /\ m * MONTH <= now /\ now < m * MONTH + MONTH
      BY <1>0, PresentMonth DEF CountInv
    <2>2. m * MONTH \in Int
      BY <2>1, CountersOutliveMonth
    <2>3. QED
      BY <1>3, <2>1, <2>2, CountersOutliveMonth
  <1>9. /\ Cardinality(Recorded(m)) <= usage[m].queries
        /\ SpentBy(Recorded(m)) <= usage[m].tokens
        /\ unsure = {} => /\ Cardinality(Recorded(m)) = usage[m].queries
                          /\ SpentBy(Recorded(m)) = usage[m].tokens
    BY <1>2, <1>8, CountersCover
  <1>10. Cardinality(Recorded(m))' = Cardinality(Recorded(m)) + 1 /\ Cardinality(Recorded(m)) \in Nat
    BY <1>5, ChatsAreCounted DEF Recorded
  <1>11. SpentBy(Recorded(m))' = SpentBy(Recorded(m)) + spent[c] /\ SpentBy(Recorded(m)) \in Nat
    <2>1. SpentBy(Recorded(m))' = Cardinality(RoundsOf(spent', Recorded(m)'))
      BY DEF SpentBy, Rounds, RoundsOf
    <2>2. SpentBy(Recorded(m)) = Cardinality(RoundsOf(spent, Recorded(m)))
      BY DEF SpentBy, Rounds, RoundsOf
    <2>3. Recorded(m) \in SUBSET Chats /\ spent \in [Chats -> 0..MAX_ROUNDS]
      BY SpentIsBounded DEF Recorded
    <2>4. /\ Cardinality(RoundsOf(spent, Recorded(m) \cup {c}))
               = Cardinality(RoundsOf(spent, Recorded(m))) + spent[c]
          /\ Cardinality(RoundsOf(spent, Recorded(m))) \in Nat
      BY <1>5, <2>3, RoundsAreCounted
    <2>5. SpentBy(Recorded(m))' = Cardinality(RoundsOf(spent, Recorded(m) \cup {c}))
      BY <1>3, <1>5, <2>1
    <2>6. QED
      BY <2>2, <2>4, <2>5
  <1>12. usage[m].queries \in Nat /\ usage[m].tokens \in Nat
    BY <1>3 DEF Counters
  <1>13. ASSUME NEW r \in Nat, NEW s \in Nat, NEW q \in Nat, NEW t \in Nat, NEW n \in Nat
         PROVE  /\ r <= q => r + 1 <= q + 1
                /\ s <= t => s + n <= t + 1 * n
                /\ s = t => s + n = t + 1 * n
    OBVIOUS
  <1>14. /\ Cardinality(Recorded(m))' <= usage'[m].queries
         /\ SpentBy(Recorded(m))' <= usage'[m].tokens
         /\ unsure = {} => /\ Cardinality(Recorded(m))' = usage'[m].queries
                           /\ SpentBy(Recorded(m))' = usage'[m].tokens
    BY <1>2, <1>3, <1>9, <1>10, <1>11, <1>12, <1>13
  <1>15. usage'[m].until # 0 /\ m * MONTH + USAGE_TTL <= usage'[m].until
    BY <1>2, <1>3, <1>8
  <1>16. CountersInv(m)'
    BY <1>3, <1>5, <1>14, <1>15 DEF CountersInv
  <1>17. QED
    BY <1>7, <1>16

\* The commands of a chat are lost or repeated: its month has at least what it had.
LEMMA RecordBreaksCounts ==
    ASSUME CountInv, NEW c \in Chats, RecordBreaks(c)
    PROVE  \A m \in Months : CountersInv(m)'
  <1>1. PICK q \in 0..2, t \in 0..2, expire \in BOOLEAN : Charge(c, q, t, expire)
    BY DEF RecordBreaks
  <1>2. PICK m \in Months : m = ThisMonth
    BY PresentMonth DEF CountInv
  <1>3. /\ \A k \in Months \ {m} : usage'[k] = usage[k]
        /\ usage'[m].queries = usage[m].queries + q
        /\ usage'[m].tokens = usage[m].tokens + t * chat[c].tokens
        /\ usage'[m].until \in {usage[m].until, now + USAGE_TTL, Never}
        /\ usage'[m].until = 0 => usage[m].until = 0 /\ q = 0 /\ t = 0
    BY <1>1, <1>2, ChargeAdds DEF CountInv
  <1>4. /\ now' = now /\ now \in Nat /\ spent' = spent /\ unsure' # {} /\ charged' = charged
        /\ usage[m] \in Counters /\ chat[c].tokens \in Nat /\ CountersInv(m)
    BY DEF RecordBreaks, CountInv, UsageTypeOK, TypeOK, Chat
  <1>5. \A k \in Months : Recorded(k)' = Recorded(k)
    BY <1>4 DEF Recorded
  <1>6. ASSUME NEW k \in Months \ {m}
        PROVE  CountersInv(k)'
    BY <1>3, <1>4, <1>5, CountersStay
  <1>7. /\ m * MONTH <= now /\ now < m * MONTH + USAGE_TTL /\ m * MONTH \in Int
        /\ USAGE_TTL \in Nat \ {0} /\ now <= MaxTime
    <2>1. m \in Nat /\ m * MONTH <= now /\ now < m * MONTH + MONTH
      BY <1>2, PresentMonth DEF CountInv
    <2>2. m * MONTH \in Int
      BY <2>1, CountersOutliveMonth
    <2>3. now <= MaxTime
      BY DEF CountInv, UsageTypeOK
    <2>4. QED
      BY <1>4, <2>1, <2>2, <2>3, CountersOutliveMonth
  <1>8. /\ Cardinality(Recorded(m)) <= usage[m].queries
        /\ SpentBy(Recorded(m)) <= usage[m].tokens
        /\ Cardinality(Recorded(m)) \in Nat /\ SpentBy(Recorded(m)) \in Nat
        /\ usage[m].queries \in Nat /\ usage[m].tokens \in Nat
    <2>1. Recorded(m) \in SUBSET Chats
      BY DEF Recorded
    <2>2. Cardinality(Recorded(m)) \in Nat /\ SpentBy(Recorded(m)) \in Nat
      BY <2>1, ChatsAreCounted, RoundsAreCounted, SpentIsBounded, SpentIsRounds
    <2>3. QED
      BY <1>4, <1>7, <2>2, CountersCover DEF Counters
  <1>9. SpentBy(Recorded(m))' = SpentBy(Recorded(m)) /\ Cardinality(Recorded(m))' = Cardinality(Recorded(m))
    BY <1>4, <1>5 DEF SpentBy, Rounds
  <1>10. ASSUME NEW a \in Nat, NEW n \in Nat, NEW k \in 0..2
         PROVE  a <= a + k * n /\ a <= a + k /\ (k = 0 => a + k * n = a)
    <2>1. k * n \in Nat /\ (k = 0 => k * n = 0)
      BY <1>10
    <2>2. QED
      BY <2>1
  <1>11. usage[m].queries <= usage'[m].queries /\ usage[m].tokens <= usage'[m].tokens
    BY <1>3, <1>4, <1>8, <1>10
  <1>12. usage'[m].queries \in Nat /\ usage'[m].tokens \in Nat
    <2>1. UsageTypeOK'
      <3>1. ChatStep(c)
        BY DEF ChatStep
      <3>2. QED
        BY <3>1, NextUsageTypes DEF CountInv, Next
    <2>2. QED
      BY <2>1 DEF UsageTypeOK, TypeOK, Counters, Months
  <1>13. Cardinality(Recorded(m)) <= usage'[m].queries /\ SpentBy(Recorded(m)) <= usage'[m].tokens
    BY <1>8, <1>11, <1>12
  <1>14. usage'[m].until = 0 => usage'[m].queries = 0 /\ usage'[m].tokens = 0
    <2>1. usage[m].until = 0 => usage[m].queries = 0 /\ usage[m].tokens = 0
      BY <1>4 DEF CountersInv
    <2>2. usage'[m].until = 0 =>
            usage'[m].queries = usage[m].queries /\ usage'[m].tokens = usage[m].tokens
      BY <1>3, <1>4, <1>8, <1>10
    <2>3. QED
      BY <1>3, <2>1, <2>2
  <1>15. Recorded(m) # {} => m * MONTH + USAGE_TTL <= usage'[m].until
    <2>1. Recorded(m) # {} => m * MONTH + USAGE_TTL <= usage[m].until
      BY <1>4, <1>7 DEF CountersInv
    <2>2. m * MONTH + USAGE_TTL <= now + USAGE_TTL
      BY <1>4, <1>7
    <2>3. m * MONTH + USAGE_TTL <= Never
      BY <1>4, <1>7, TimeIsBounded DEF Never
    <2>4. QED
      BY <1>3, <2>1, <2>2, <2>3
  <1>16. CountersInv(m)'
    BY <1>4, <1>5, <1>9, <1>13, <1>14, <1>15 DEF CountersInv
  <1>17. QED
    BY <1>6, <1>16

\* Time takes the counters of a month away only after the month.
LEMMA TickCounts ==
    ASSUME CountInv, Tick
    PROVE  (\A m \in Months : CountersInv(m)') /\ (\A c \in Chats : ReadsInv(c)')
  <1>1. /\ now \in Nat /\ now' = now + 1 /\ USAGE_TTL \in Nat /\ MONTH \in Nat
        /\ UNCHANGED <<chat, spent, charged, earlier, unsure>>
        /\ \A m \in Months : usage'[m] = IF usage[m].until <= now' THEN NoCounters ELSE usage[m]
        /\ \A c \in Chats : chat[c].pc = "tokens" => now' < chat[c].month * MONTH + USAGE_TTL
    BY CountersOutliveMonth DEF Tick, ReadsAreAnswered, At, CountInv, UsageTypeOK, TypeOK, history
  <1>2. ASSUME NEW m \in Months
        PROVE  CountersInv(m)'
    <2>1. Recorded(m)' = Recorded(m)
      BY <1>1 DEF Recorded
    <2>2. CASE usage[m].until <= now'
      <3>1. usage'[m].until = 0 /\ usage'[m].queries = 0 /\ usage'[m].tokens = 0
        BY <1>1, <2>2 DEF NoCounters
      <3>2. Recorded(m) # {} => m * MONTH + USAGE_TTL <= now'
        <4>1. m * MONTH \in Int
          BY <1>1 DEF Months
        <4>2. usage[m].until \in Nat /\ CountersInv(m)
          BY DEF CountInv, UsageTypeOK, TypeOK, Counters
        <4>3. QED
          BY <1>1, <2>2, <4>1, <4>2 DEF CountersInv
      <3>3. QED
        BY <2>1, <3>1, <3>2 DEF CountersInv
    <2>3. CASE ~(usage[m].until <= now')
      <3>1. usage'[m] = usage[m] /\ now' \in Nat /\ now <= now'
        BY <1>1, <2>3
      <3>2. QED
        BY <1>1, <2>1, <3>1, CountersStay
    <2>4. QED
      BY <2>2, <2>3
  <1>3. ASSUME NEW c \in Chats
        PROVE  ReadsInv(c)'
    <2>1. /\ \A d \in earlier'[c] : charged'[d] # -1
          /\ SpentBy(Before(c))' = SpentBy(Before(c))
          /\ Cardinality(Before(c))' = Cardinality(Before(c))
      BY <1>1, ReadsStay
    <2>2. ReadsInv(c)
      BY DEF CountInv
    <2>3. QED
      BY <1>1, <2>1, <2>2 DEF ReadsInv, Admitted, Months
  <1>4. QED
    BY <1>2, <1>3

LEMMA NextCounters ==
    ASSUME CountInv, [Next]_vars
    PROVE  /\ \A c \in Chats : RoundsInv(c)'
           /\ \A m \in Months : CountersInv(m)'
           /\ \A c \in Chats : ReadsInv(c)'
  <1>1. ASSUME UNCHANGED <<now, usage, chat, spent, charged, earlier>>, unsure \subseteq unsure'
        PROVE  /\ \A c \in Chats : RoundsInv(c)'
               /\ \A m \in Months : CountersInv(m)'
               /\ \A c \in Chats : ReadsInv(c)'
    <2>1. ASSUME NEW m \in Months
          PROVE  CountersInv(m)'
      <3>1. now \in Nat /\ Recorded(m)' = Recorded(m)
        BY <1>1 DEF CountInv, UsageTypeOK, TypeOK, Recorded
      <3>2. QED
        BY <1>1, <3>1, CountersStay
    <2>2. ASSUME NEW c \in Chats
          PROVE  ReadsInv(c)' /\ RoundsInv(c)'
      <3>1. /\ \A d \in earlier'[c] : charged'[d] # -1
            /\ SpentBy(Before(c))' = SpentBy(Before(c))
            /\ Cardinality(Before(c))' = Cardinality(Before(c))
        BY <1>1, ReadsStay
      <3>2. ReadsInv(c) /\ RoundsInv(c)
        BY DEF CountInv
      <3>3. QED
        BY <1>1, <3>1, <3>2 DEF ReadsInv, RoundsInv, Admitted, Months
    <2>3. QED
      BY <2>1, <2>2
  <1>2. ASSUME NEW c \in Chats, ChatStep(c)
        PROVE  \A m \in Months : CountersInv(m)'
    <2>1. CASE Record(c)
      BY <2>1, RecordCounts
    <2>2. CASE RecordBreaks(c)
      BY <2>2, RecordBreaksCounts
    <2>3. CASE ~Record(c) /\ ~RecordBreaks(c)
      <3>1. /\ UNCHANGED <<usage, now>> /\ now \in Nat /\ unsure \subseteq unsure'
            /\ \A d \in Chats : charged'[d] = charged[d]
            /\ \A d \in Chats : charged[d] # -1 => spent'[d] = spent[d]
        <4>1. UNCHANGED usage
          BY <1>2, <2>3 DEF ChatStep, ReadQueries, ReadTokens, ReadHistory, ChatFails, ModelEnds,
                            ModelStops, ModelCalls, ToolsReturn, Save, SaveFails, counters
        <4>2. QED
          BY <1>2, <2>3, <4>1, ChatChanges, NextRounds DEF CountInv, UsageTypeOK, TypeOK
      <3>2. ASSUME NEW m \in Months
            PROVE  CountersInv(m)'
        <4>1. Recorded(m)' = Recorded(m) /\ m # -1
          BY <3>1 DEF Recorded, Months
        <4>2. \A d \in Recorded(m) : spent'[d] = spent[d]
          BY <3>1, <4>1 DEF Recorded
        <4>3. QED
          BY <3>1, <4>1, <4>2, CountersStay
      <3>3. QED
        BY <3>2
    <2>4. QED
      BY <2>1, <2>2, <2>3
  <1>3. CASE \E p \in Posts : PostStep(p)
    BY <1>1, <1>3 DEF PostStep, BeginPost, AnswerPost, Meter, MeterBreaks, history, counters
  <1>4. CASE \E c \in Creates : ErpWorks(c)
    BY <1>1, <1>4 DEF ErpWorks, history, counters
  <1>5. CASE ExpireConversation
    BY <1>1, <1>5 DEF ExpireConversation, history, counters
  <1>6. CASE Tick
    <2>1. \A c \in Chats : RoundsInv(c)'
      BY <1>6 DEF Tick, history, CountInv, RoundsInv
    <2>2. QED
      BY <1>6, <2>1, TickCounts
  <1>7. CASE UNCHANGED vars
    BY <1>1, <1>7 DEF vars, history, counters
  <1>8. QED
    BY <1>2, <1>3, <1>4, <1>5, <1>6, <1>7, NextRounds, NextReads DEF Next

-----------------------------------------------------------------------------
(* The meter.  A post that goes on to be metered has a document, acknowledged  *)
(* by the ERP system, and a call once acknowledged stays its post's.           *)

LEMMA CreatedRemains ==
    ASSUME UsageTypeOK, [Next]_vars, NEW d \in Creates, client[d] = "created"
    PROVE  client'[d] = "created" /\ owner'[d] = owner[d]
  <1>1. client \in [Creates -> {"idle", "waiting", "created", "failed"}]
    BY DEF UsageTypeOK, ErpInv, ErpTypeOK
  <1>2. ASSUME NEW c \in Creates, ErpStep(c)
        PROVE  client'[d] = "created"
    BY <1>1, <1>2 DEF ErpStep, Execute, Answer, Busy, LoseAnswer, GiveUp, Resend
  <1>3. ASSUME NEW calls \in SUBSET Creates, CallErp(calls)
        PROVE  client'[d] = "created" /\ d \notin calls
    BY <1>3 DEF CallErp
  <1>4. client'[d] = "created"
    BY <1>2, <1>3, CallersUseCallErp DEF erp
  <1>5. owner'[d] = owner[d]
    <2>1. ASSUME NEW c \in Chats, ChatStep(c)
          PROVE  owner'[d] = owner[d]
      <3>1. CASE ModelCalls(c)
        BY <3>1 DEF ModelCalls
      <3>2. CASE ~ModelCalls(c)
        BY <2>1, <3>2 DEF ChatStep, ReadQueries, ReadTokens, ReadHistory, ChatFails, ModelEnds,
                          ModelStops, ToolsReturn, Record, RecordBreaks, Save, SaveFails
      <3>3. QED
        BY <3>1, <3>2
    <2>2. ASSUME NEW p \in Posts, PostStep(p)
          PROVE  owner'[d] = owner[d]
      <3>1. CASE BeginPost(p)
        BY <3>1 DEF BeginPost, CallErp, UsageTypeOK, TypeOK
      <3>2. CASE ~BeginPost(p)
        BY <2>2, <3>2 DEF PostStep, AnswerPost, Meter, MeterBreaks
      <3>3. QED
        BY <3>1, <3>2
    <2>3. QED
      BY <2>1, <2>2 DEF Next, ErpWorks, ExpireConversation, Tick, vars
  <1>6. QED
    BY <1>4, <1>5

LEMMA NextMeter ==
    ASSUME CountInv, [Next]_vars
    PROVE  (\A p \in Posts : PostInv(p)') /\ MeterInv'
  <1>1. \A p \in Posts : (\E d \in Creates : owner[d] = p /\ client[d] = "created") =>
                         (\E d \in Creates : owner'[d] = p /\ client'[d] = "created")
    BY CreatedRemains DEF CountInv
  <1>2. post \in [Posts -> {"new", "waiting", "metering", "created", "failed"}]
        /\ metered \in Nat /\ unsure \in SUBSET (Chats \cup Posts)
    BY DEF CountInv, UsageTypeOK, TypeOK
  <1>3. ASSUME UNCHANGED <<post, metered>>, unsure \subseteq unsure'
        PROVE  (\A p \in Posts : PostInv(p)') /\ MeterInv'
    BY <1>1, <1>3 DEF CountInv, PostInv, MeterInv
  <1>4. ASSUME NEW p \in Posts, PostStep(p)
        PROVE  (\A r \in Posts : PostInv(r)') /\ MeterInv'
    <2> DEFINE done == {r \in Posts : post[r] = "created"}
    <2>1. ASSUME NEW pc \in {"waiting", "failed"}, post' = [post EXCEPT ![p] = pc],
                 post[p] # "created", UNCHANGED <<metered, unsure>>
          PROVE  (\A r \in Posts : PostInv(r)') /\ MeterInv'
      <3>1. \A r \in Posts : PostInv(r)'
        BY <1>1, <1>2, <2>1 DEF CountInv, PostInv
      <3>2. {r \in Posts : post'[r] = "created"} = done
        BY <1>2, <2>1
      <3>3. QED
        BY <2>1, <3>1, <3>2 DEF CountInv, MeterInv
    <2>2. CASE BeginPost(p)
      BY <2>1, <2>2 DEF BeginPost, history, counters
    <2>3. CASE AnswerPost(p)
      <3>1. post[p] = "waiting" /\ UNCHANGED <<metered, unsure, owner, client>>
        BY <2>3 DEF AnswerPost, history, counters, erp
      <3>2. PICK d \in Creates :
              /\ owner[d] = p
              /\ post' = [post EXCEPT ![p] = IF client[d] = "created" THEN "metering" ELSE "failed"]
        BY <2>3 DEF AnswerPost
      <3>3. CASE client[d] = "created"
        <4>1. \A r \in Posts : PostInv(r)'
          BY <1>1, <1>2, <3>1, <3>2, <3>3 DEF CountInv, PostInv
        <4>2. {r \in Posts : post'[r] = "created"} = done
          BY <1>2, <3>1, <3>2, <3>3
        <4>3. QED
          BY <3>1, <4>1, <4>2 DEF CountInv, MeterInv
      <3>4. CASE client[d] # "created"
        BY <2>1, <3>1, <3>2, <3>4
      <3>5. QED
        BY <3>3, <3>4
    <2>4. ASSUME post' = [post EXCEPT ![p] = "created"], post[p] = "metering"
          PROVE  \A r \in Posts : PostInv(r)'
      BY <1>1, <1>2, <2>4 DEF CountInv, PostInv
    <2>5. CASE Meter(p)
      <3>1. /\ post' = [post EXCEPT ![p] = "created"] /\ post[p] = "metering"
            /\ metered' = metered + 1 /\ unsure' = unsure
        BY <2>5 DEF Meter, history
      <3>2. {r \in Posts : post'[r] = "created"} = done \cup {p} /\ p \notin done
        BY <1>2, <3>1
      <3>3. Cardinality(done \cup {p}) = Cardinality(done) + 1
        <4>1. IsFiniteSet(done)
          BY ChatsAreFinite, FS_Subset
        <4>2. QED
          BY <3>2, <4>1, FS_AddElement
      <3>4. MeterInv'
        BY <3>1, <3>2, <3>3 DEF CountInv, MeterInv
      <3>5. QED
        BY <2>4, <3>1, <3>4
    <2>6. CASE MeterBreaks(p)
      <3>1. /\ post' = [post EXCEPT ![p] = "created"] /\ post[p] = "metering" /\ unsure' # {}
        BY <2>6 DEF MeterBreaks
      <3>2. QED
        BY <2>4, <3>1 DEF MeterInv
    <2>7. QED
      BY <1>4, <2>2, <2>3, <2>5, <2>6 DEF PostStep
  <1>5. ASSUME NEW c \in Chats, ChatStep(c)
        PROVE  (\A p \in Posts : PostInv(p)') /\ MeterInv'
    BY <1>3, <1>5, ChatChanges DEF CountInv
  <1>6. QED
    BY <1>3, <1>4, <1>5 DEF Next, ErpWorks, ExpireConversation, Tick, vars, history, counters

LEMMA InitCount == Init => CountInv
  <1> SUFFICES ASSUME Init PROVE CountInv
    OBVIOUS
  <1>1. UsageTypeOK
    BY InitUsageTypes
  <1>2. \A c \in Chats : /\ chat[c].pc = "new" /\ chat[c].tokens = 0 /\ chat[c].round = 0
                         /\ spent[c] = 0 /\ charged[c] = -1 /\ earlier[c] = {}
    BY DEF Init
  <1>3. \A m \in Months : /\ Recorded(m) = {} /\ usage[m].until = 0 /\ usage[m].queries = 0
                          /\ usage[m].tokens = 0
    BY DEF Init, Recorded, Months, NoCounters
  <1>4. \A c \in Chats : RoundsInv(c)
    BY <1>2, RoundsArePositive DEF RoundsInv
  <1>5. \A m \in Months : CountersInv(m)
    BY <1>3 DEF CountersInv
  <1>6. \A c \in Chats : ReadsInv(c)
    BY <1>2 DEF ReadsInv, Admitted
  <1>7. (\A p \in Posts : PostInv(p)) /\ MeterInv
    <2>1. {p \in Posts : post[p] = "created"} = {} /\ metered = 0
      BY DEF Init
    <2>2. QED
      BY <2>1, FS_EmptySet DEF Init, PostInv, MeterInv
  <1>8. QED
    BY <1>1, <1>4, <1>5, <1>6, <1>7 DEF CountInv

LEMMA NextCount == CountInv /\ [Next]_vars => CountInv'
  <1> SUFFICES ASSUME CountInv, [Next]_vars PROVE CountInv'
    OBVIOUS
  <1>1. UsageTypeOK'
    BY NextUsageTypes DEF CountInv
  <1>2. /\ \A c \in Chats : RoundsInv(c)' /\ ReadsInv(c)'
        /\ \A m \in Months : CountersInv(m)'
        /\ \A p \in Posts : PostInv(p)'
        /\ MeterInv'
    BY NextCounters, NextMeter
  <1>3. QED
    BY <1>1, <1>2 DEF CountInv, Months

\* Whatever overlaps, is lost or expires, a chat is admitted only while fewer chats and fewer tokens
\* than the plan allows had been recorded in that month when it asked.
THEOREM QuotaHolds == Spec => []QuotaHoldsInSequence
  <1>1. CountInv => QuotaHoldsInSequence
    BY DEF CountInv, ReadsInv, Before, QuotaHoldsInSequence
  <1>2. QED
    BY <1>1, InitCount, NextCount, PTL DEF Spec

\* While no counter command is lost, a month's counters are the chats recorded in it with all the
\* rounds they had, and the meter is the posts whose document was acknowledged.
THEOREM CountersExact == Spec => []CountersAreExact
  <1>1. CountInv => CountersAreExact
    <2> SUFFICES ASSUME CountInv, unsure = {}
                 PROVE  /\ \A m \in Months : usage[m].until # 0 =>
                            /\ usage[m].queries = Cardinality(Recorded(m))
                            /\ usage[m].tokens = SpentBy(Recorded(m))
                        /\ metered = Cardinality({p \in Posts : post[p] = "created"
                                /\ \E d \in Creates : owner[d] = p /\ client[d] = "created"})
      BY DEF CountersAreExact, Recorded
    <2>1. {p \in Posts : post[p] = "created"} =
          {p \in Posts : post[p] = "created" /\ \E d \in Creates : owner[d] = p /\ client[d] = "created"}
      BY DEF CountInv, PostInv
    <2>2. metered = Cardinality({p \in Posts : post[p] = "created"})
      BY DEF CountInv, MeterInv
    <2>3. QED
      BY <2>1, <2>2 DEF CountInv, CountersInv
  <1>2. QED
    BY <1>1, InitCount, NextCount, PTL DEF Spec

=============================================================================
