--------------------------- MODULE CredentialsProofs ---------------------------
(* Theorems about Credentials: typing, how many reset tokens can be live    *)
(* and how often one is used, what a reset revokes, and how many wrong      *)
(* passwords fit before a lock, for any numbers of concurrent requests.     *)
EXTENDS Credentials, FiniteSetTheorems, WellFoundedInduction, TLAPS

-----------------------------------------------------------------------------
(* Typing *)

LEMMA InitType == Init => TypeOK
  <1> SUFFICES ASSUME Init PROVE TypeOK
    OBVIOUS
  <1>1. now \in 0..MaxTime /\ faults \in 0..MaxFaults
    BY Durations, FaultBudget DEF Init
  <1>2. user \in User
    BY DEF Init, User
  <1>3. QED
    BY <1>1, <1>2 DEF Init, TypeOK

LEMMA CarriedType ==
    ASSUME TypeOK
    PROVE  Open \subseteq Passwords /\ InFlight \subseteq Passwords
  <1>1. Open \subseteq Passwords
    BY DEF TypeOK, Open
  <1>2. ASSUME NEW l \in Proven
        PROVE  login[l].guess \in Passwords \cup {Null}
    BY <1>2 DEF Proven, At, TypeOK, Login
  <1>3. QED
    BY <1>1, <1>2 DEF InFlight

LEMMA LoginStepType ==
    ASSUME TypeOK, NEW l \in Logins, LoginStep(l)
    PROVE  TypeOK'
  <1> USE DEF TypeOK, history
  <1>1. ASSUME NEW guess \in Passwords, BeginLogin(l, guess)
        PROVE  TypeOK'
    <2>1. [pc |-> "erp", guess |-> guess, seen |-> user.failedLoginAttempts, until |-> 0] \in Login
      BY DEF Login, User
    <2>2. QED
      BY <1>1, <2>1 DEF BeginLogin
  <1>2. CASE Verify(l)
    <2>1. login[l] \in Login /\ Until(l) \in Nat
      BY <1>2, Durations DEF Verify, At, Until
    <2>2. /\ [login[l] EXCEPT !.pc = "verified", !.seen = 0] \in Login
          /\ [login[l] EXCEPT !.pc = "failed", !.guess = Null, !.until = Until(l)] \in Login
      BY <2>1 DEF Login
    <2>3. login' \in [Logins -> Login \cup {Null}]
      BY <1>2, <2>1, <2>2 DEF Verify
    <2>4. faults' \in 0..MaxFaults /\ wrong' \in Nat
      BY <1>2, FaultBudget DEF Verify, Fault
    <2>5. QED
      BY <1>2, <2>3, <2>4 DEF Verify
  <1>3. CASE RecordFailure(l)
    <2>1. login[l] \in Login
      BY <1>3 DEF RecordFailure, At
    <2>2. user' \in User
      BY <1>3, <2>1 DEF RecordFailure, Login, User
    <2>3. QED
      BY <1>3, <2>2 DEF RecordFailure
  <1>4. CASE RecordSuccess(l)
    <2>1. [login[l] EXCEPT !.pc = "session"] \in Login
      BY <1>4 DEF RecordSuccess, At, Login
    <2>2. user' \in User
      BY <1>4 DEF RecordSuccess, User
    <2>3. QED
      BY <1>4, <2>1, <2>2 DEF RecordSuccess
  <1>5. CASE CreateSession(l)
    <2>1. login[l].guess \in Passwords \cup {Null}
      BY <1>5 DEF CreateSession, At, Login
    <2>2. QED
      BY <1>5, <2>1 DEF CreateSession
  <1>6. CASE LoginThrows(l)
    BY <1>6, FaultBudget DEF LoginThrows, Fault
  <1>7. QED
    BY <1>1, <1>2, <1>3, <1>4, <1>5, <1>6 DEF LoginStep

LEMMA ResetStepType ==
    ASSUME TypeOK, ResetStep
    PROVE  TypeOK'
  <1> USE DEF TypeOK, history
  <1>1. ASSUME NEW q \in Requests, Invalidate(q)
        PROVE  TypeOK'
    <2>1. ASSUME NEW t \in Tokens, token[t] # Null
          PROVE  [token[t] EXCEPT !.used = TRUE] \in Token
      BY <2>1 DEF Token
    <2>2. \A t \in Tokens : token[t] # Null => token'[t] # Null
      BY <1>1, <2>1, NullIsNoValue DEF Invalidate
    <2>3. \A a \in Applies : apply[a] # Null => apply[a].token \in Tokens
      BY DEF Apply
    <2>4. QED
      BY <1>1, <2>1, <2>2, <2>3 DEF Invalidate
  <1>2. ASSUME NEW q \in Requests, CreateToken(q)
        PROVE  TypeOK'
    <2>1. [used |-> FALSE, expiresAt |-> now + RESET_EXPIRY] \in Token
      BY Durations DEF Token
    <2>2. faults' \in 0..MaxFaults
      BY <1>2, FaultBudget DEF CreateToken, Fault
    <2>3. token' \in [Tokens -> Token \cup {Null}]
      BY <1>2, <2>1 DEF CreateToken
    <2>4. \A t \in Tokens : token[t] # Null => token'[t] = token[t]
      BY <1>2 DEF CreateToken
    <2>5. \A a \in Applies : apply[a] # Null => apply[a].token \in Tokens
      BY DEF Apply
    <2>6. QED
      BY <1>2, <2>2, <2>3, <2>4, <2>5 DEF CreateToken
  <1>3. ASSUME NEW a \in Applies, NEW t \in Tokens, NEW new \in Passwords, BeginApply(a, t, new)
        PROVE  TypeOK'
    <2>1. [pc |-> "erp", token |-> t, new |-> new] \in Apply
      BY DEF Apply
    <2>2. token[t] # Null
      BY <1>3 DEF BeginApply, Live
    <2>3. QED
      BY <1>3, <2>1, <2>2 DEF BeginApply
  <1>4. ASSUME NEW a \in Applies, ApplyErp(a)
        PROVE  TypeOK'
    <2>1. apply[a] \in Apply
      BY <1>4 DEF ApplyErp, At
    <2>2. /\ apply[a].new \in Passwords /\ apply[a].token \in Tokens
          /\ \A pc \in {"commit", "late"} :
                /\ [apply[a] EXCEPT !.pc = pc] \in Apply
                /\ [apply[a] EXCEPT !.pc = pc].token = apply[a].token
          /\ apply[a] # Null
      BY <1>4, <2>1 DEF Apply, ApplyErp, At
    <2>3. faults' \in 0..MaxFaults /\ erp' \in Passwords
      BY <1>4, <2>2, FaultBudget DEF ApplyErp, Fault
    <2>4. apply' \in [Applies -> Apply \cup {Null}] /\ uses' \in [Tokens -> Nat]
      BY <1>4, <2>2 DEF ApplyErp
    <2>5. \A b \in Applies : apply'[b] # Null =>
             apply[b] # Null /\ apply'[b].token = apply[b].token
      BY <1>4, <2>2 DEF ApplyErp
    <2>6. carried' \in SUBSET Passwords
      BY <1>4, CarriedType DEF ApplyErp
    <2>7. QED
      BY <1>4, <2>3, <2>4, <2>5, <2>6 DEF ApplyErp
  <1>5. ASSUME NEW a \in Applies, Commit(a)
        PROVE  TypeOK'
    <2>1. apply[a].token \in Tokens /\ token[apply[a].token] \in Token
      BY <1>5 DEF Commit, At, Apply
    <2>2. [failedLoginAttempts |-> 0, lockedUntil |-> 0] \in User
      BY DEF User
    <2>3. faults' \in 0..MaxFaults
      BY <1>5, FaultBudget DEF Commit, Fault
    <2>4. [token[apply[a].token] EXCEPT !.used = TRUE] \in Token
      BY <2>1 DEF Token
    <2>5. /\ token' \in [Tokens -> Token \cup {Null}]
          /\ \A t \in Tokens : token[t] # Null => token'[t] # Null
      BY <1>5, <2>1, <2>4, NullIsNoValue DEF Commit
    <2>6. \A b \in Applies : apply[b] # Null => apply[b].token \in Tokens
      BY DEF Apply
    <2>7. apply' \in [Applies -> Apply \cup {Null}]
            /\ \A b \in Applies : apply'[b] # Null => apply'[b] = apply[b]
      BY <1>5 DEF Commit
    <2>8. carried' \in SUBSET Passwords
      BY <1>5, CarriedType DEF Commit
    <2>9. QED
      BY <1>5, <2>2, <2>3, <2>5, <2>6, <2>7, <2>8 DEF Commit
  <1>6. ASSUME NEW a \in Applies, ApplyLate(a)
        PROVE  TypeOK'
    <2>1. apply[a] \in Apply /\ apply[a].new \in Passwords /\ apply[a].token \in Tokens
      BY <1>6 DEF ApplyLate, At, Apply
    <2>2. erp' \in Passwords /\ uses' \in [Tokens -> Nat] /\ apply' \in [Applies -> Apply \cup {Null}]
      BY <1>6, <2>1 DEF ApplyLate
    <2>3. \A b \in Applies : apply'[b] # Null => apply'[b] = apply[b]
      BY <1>6 DEF ApplyLate
    <2>4. carried' \in SUBSET Passwords
      BY <1>6, CarriedType DEF ApplyLate
    <2>5. QED
      BY <1>6, <2>2, <2>3, <2>4 DEF ApplyLate
  <1>7. QED
    BY <1>1, <1>2, <1>3, <1>4, <1>5, <1>6 DEF ResetStep

LEMMA ChangeStepType ==
    ASSUME TypeOK, NEW c \in Changes, ChangeStep(c)
    PROVE  TypeOK'
  <1> USE DEF TypeOK, history
  <1>1. ASSUME NEW s \in Sessions, NEW current, NEW new \in Passwords, BeginChange(c, s, current, new)
        PROVE  TypeOK'
    <2>1. [pc |-> "erp", own |-> s, new |-> new, late |-> FALSE] \in Change
      BY DEF Change
    <2>2. QED
      BY <1>1, <2>1 DEF BeginChange
  <1>2. CASE ChangeErp(c)
    <2>1. change[c] \in Change
      BY <1>2 DEF ChangeErp, At
    <2>2. /\ change[c].new \in Passwords
          /\ \A late \in BOOLEAN : [change[c] EXCEPT !.pc = "commit", !.late = late] \in Change
      BY <2>1 DEF Change
    <2>3. faults' \in 0..MaxFaults /\ erp' \in Passwords
      <3>1. (faults' = faults \/ Fault) /\ erp' \in {erp, change[c].new}
        BY <1>2 DEF ChangeErp
      <3>2. faults' \in 0..MaxFaults
        BY <3>1, FaultBudget DEF Fault
      <3>3. QED
        BY <2>2, <3>1, <3>2
    <2>4. carried' \in SUBSET Passwords
      BY <1>2, CarriedType DEF ChangeErp
    <2>5. change' \in [Changes -> Change \cup {Null}]
      BY <1>2, <2>2 DEF ChangeErp
    <2>6. QED
      BY <1>2, <2>3, <2>4, <2>5 DEF ChangeErp
  <1>3. CASE ChangeCommit(c)
    <2>1. change[c].new \in Passwords /\ [change[c] EXCEPT !.pc = "done"] \in Change
      BY <1>3 DEF ChangeCommit, At, Change
    <2>2. faults' \in 0..MaxFaults
      BY <1>3, FaultBudget DEF ChangeCommit, Fault
    <2>3. change' \in [Changes -> Change \cup {Null}]
      BY <1>3, <2>1 DEF ChangeCommit
    <2>4. hash' \in Passwords \cup {Null} /\ session' \in [Sessions -> Passwords \cup {Null}]
      BY <1>3, <2>1 DEF ChangeCommit
    <2>5. QED
      BY <1>3, <2>2, <2>3, <2>4 DEF ChangeCommit
  <1>4. CASE ChangeLate(c)
    <2>1. change[c].new \in Passwords /\ [change[c] EXCEPT !.late = FALSE] \in Change
      BY <1>4 DEF ChangeLate, Change
    <2>2. erp' \in Passwords /\ change' \in [Changes -> Change \cup {Null}]
      BY <1>4, <2>1 DEF ChangeLate
    <2>3. carried' \in SUBSET Passwords
      BY <1>4, CarriedType DEF ChangeLate
    <2>4. QED
      BY <1>4, <2>2, <2>3 DEF ChangeLate
  <1>5. QED
    BY <1>1, <1>2, <1>3, <1>4 DEF ChangeStep

LEMMA NextType == TypeOK /\ [Next]_vars => TypeOK'
  <1> SUFFICES ASSUME TypeOK, [Next]_vars PROVE TypeOK'
    OBVIOUS
  <1>1. ASSUME NEW s \in Sessions, EndSession(s)
        PROVE  TypeOK'
    BY <1>1 DEF EndSession, TypeOK, procs, history
  <1>2. CASE Tick
    <2>1. now' \in 0..MaxTime
      BY <1>2, Durations DEF Tick, TypeOK
    <2>2. QED
      BY <1>2, <2>1 DEF Tick, TypeOK, procs, history
  <1>3. CASE UNCHANGED vars
    BY <1>3 DEF vars, TypeOK, procs, history
  <1>4. QED
    BY <1>1, <1>2, <1>3, LoginStepType, ResetStepType, ChangeStepType DEF Next

\* Every reachable state of the credentials is well typed.
THEOREM CredentialsTyped == Spec => []TypeOK
  BY InitType, NextType, PTL DEF Spec

-----------------------------------------------------------------------------
(* Reset tokens *)

LEMMA Counts ==
    /\ IsFiniteSet(Unused) /\ Cardinality(Unused) \in Nat
    /\ IsFiniteSet(Creating) /\ Cardinality(Creating) \in Nat
    /\ Cardinality(Creating) <= Cardinality(Requests)
    /\ Cardinality(Requests) \in Nat
  <1>1. Unused \subseteq Tokens /\ Creating \subseteq Requests
    BY DEF Unused, Creating
  <1>2. IsFiniteSet(Unused) /\ IsFiniteSet(Creating)
    BY <1>1, ProcessesAreFinite, FS_Subset
  <1>3. QED
    BY <1>1, <1>2, ProcessesAreFinite, FS_Subset, FS_CardinalityType

\* Steps that only mark tokens used, or leave them alone.
LEMMA NoNewToken ==
    ASSUME UnusedInv, Unused' \subseteq Unused, UNCHANGED request
    PROVE  UnusedInv'
  <1>1. Creating' = Creating
    BY DEF Creating
  <1>2. Cardinality(Unused') <= Cardinality(Unused) /\ Cardinality(Unused') \in Nat
    BY Counts, FS_Subset, FS_CardinalityType
  <1>3. QED
    BY <1>1, <1>2, Counts DEF UnusedInv

LEMMA InitUnused == Init => UnusedInv
  <1> SUFFICES ASSUME Init PROVE UnusedInv
    OBVIOUS
  <1>1. Unused = {}
    BY DEF Init, Unused
  <1>2. Cardinality(Unused) = 0
    BY <1>1, FS_EmptySet
  <1>3. QED
    BY <1>2, Counts DEF UnusedInv

LEMMA NextUnused == TypeOK /\ UnusedInv /\ [Next]_vars => UnusedInv'
  <1> SUFFICES ASSUME TypeOK, UnusedInv, [Next]_vars PROVE UnusedInv'
    OBVIOUS
  <1>1. ASSUME NEW q \in Requests, Invalidate(q)
        PROVE  UnusedInv'
    <2>1. Unused' = {}
      BY <1>1 DEF Invalidate, Unused, TypeOK, Token
    <2>2. Cardinality(Unused') = 0
      BY <2>1, FS_EmptySet
    <2>3. Creating' \subseteq Requests
      BY DEF Creating
    <2>4. Cardinality(Creating') <= Cardinality(Requests) /\ Cardinality(Creating') \in Nat
      BY <2>3, ProcessesAreFinite, FS_Subset, FS_CardinalityType
    <2>5. QED
      BY <2>2, <2>4, Counts DEF UnusedInv
  <1>2. ASSUME NEW q \in Requests, CreateToken(q)
        PROVE  UnusedInv'
    <2>1. q \in Creating /\ Creating' = Creating \ {q}
      BY <1>2, NullIsNoValue DEF CreateToken, Creating, TypeOK
    <2>2. Cardinality(Creating') = Cardinality(Creating) - 1
      BY <2>1, Counts, FS_RemoveElement
    <2>3. UNCHANGED token \/ \E t \in Tokens : Unused' \subseteq Unused \cup {t}
      <3>1. ASSUME NEW t \in Tokens,
                   token' = [token EXCEPT ![t] = [used |-> FALSE, expiresAt |-> now + RESET_EXPIRY]]
            PROVE  Unused' \subseteq Unused \cup {t}
        BY <3>1 DEF Unused, TypeOK
      <3>2. QED
        BY <1>2, <3>1 DEF CreateToken
    <2>4. Cardinality(Unused') <= Cardinality(Unused) + 1 /\ Cardinality(Unused') \in Nat
      <3>1. CASE UNCHANGED token
        <4>1. Unused' = Unused
          BY <3>1 DEF Unused
        <4>2. QED
          BY <4>1, Counts
      <3>2. ASSUME NEW t \in Tokens, Unused' \subseteq Unused \cup {t}
            PROVE  Cardinality(Unused') <= Cardinality(Unused) + 1 /\ Cardinality(Unused') \in Nat
        <4>0. /\ IsFiniteSet(Unused \cup {t})
              /\ Cardinality(Unused \cup {t}) =
                    IF t \in Unused THEN Cardinality(Unused) ELSE Cardinality(Unused) + 1
          BY Counts, FS_AddElement
        <4>1. /\ IsFiniteSet(Unused \cup {t})
              /\ Cardinality(Unused \cup {t}) <= Cardinality(Unused) + 1
          BY <4>0, Counts
        <4>2. /\ IsFiniteSet(Unused')
              /\ Cardinality(Unused') <= Cardinality(Unused \cup {t})
          BY <3>2, <4>1, FS_Subset
        <4>3. Cardinality(Unused') \in Nat /\ Cardinality(Unused \cup {t}) \in Nat
          BY <4>1, <4>2, FS_CardinalityType
        <4>4. QED
          BY <4>1, <4>2, <4>3, Counts
      <3>3. QED
        BY <1>2, <2>3, <3>1, <3>2
    <2>5. QED
      BY <2>2, <2>4, Counts DEF UnusedInv
  <1>3. ASSUME NEW a \in Applies, Commit(a)
        PROVE  UnusedInv'
    <2>1. apply[a].token \in Tokens /\ token[apply[a].token] \in Token
      BY <1>3 DEF Commit, At, TypeOK, Apply
    <2>2. [token[apply[a].token] EXCEPT !.used = TRUE].used
      BY <2>1 DEF Token
    <2>3. Unused' \subseteq Unused /\ UNCHANGED request
      BY <1>3, <2>1, <2>2 DEF Commit, Unused, TypeOK
    <2>4. QED
      BY <2>3, NoNewToken
  <1>4. CASE UNCHANGED <<token, request>>
    BY <1>4, NoNewToken DEF Unused
  <1>5. QED
    BY <1>1, <1>2, <1>3, <1>4
       DEF Next, LoginStep, ResetStep, ChangeStep, BeginLogin, Verify, RecordFailure,
           RecordSuccess, CreateSession, LoginThrows, EndSession, BeginApply, ApplyErp,
           ApplyLate, BeginChange, ChangeErp, ChangeCommit, ChangeLate, Tick, vars, procs

\* Unused tokens and requests about to create one never outnumber the concurrent requests.
THEOREM UnusedInvariant == Spec => []UnusedInv
  <1>1. QED
    BY InitUnused, NextUnused, CredentialsTyped, PTL DEF Spec

\* At any time there are at most as many live reset tokens as concurrent requests.
THEOREM LiveTokensAreBounded == Spec => []LiveTokensBounded
  <1>1. UnusedInv => LiveTokensBounded
    <2> SUFFICES ASSUME UnusedInv PROVE LiveTokensBounded
      OBVIOUS
    <2> DEFINE L == {t \in Tokens : Live(t)}
    <2>1. L \subseteq Unused
      BY DEF Live, Unused
    <2>2. Cardinality(L) <= Cardinality(Unused) /\ Cardinality(L) \in Nat
      BY <2>1, Counts, FS_Subset, FS_CardinalityType
    <2>3. QED
      BY <2>2, Counts DEF UnusedInv, LiveTokensBounded
  <1>2. QED
    BY <1>1, UnusedInvariant, PTL

-----------------------------------------------------------------------------
(* What a reset leaves open *)

\* Steps that change neither the password nor a reset between ERPNext and its transaction, and
\* add no session or login with another password.
LEMMA NothingCarried ==
    ASSUME RevokeInv, UNCHANGED <<erp, apply>>, carried \subseteq carried',
           Open' \cup InFlight' \subseteq Open \cup InFlight \cup {erp}
    PROVE  RevokeInv'
  <1>1. ASSUME NEW a \in Applies
        PROVE  At(apply, a, "commit")' = At(apply, a, "commit")
    BY DEF At
  <1>2. QED
    BY <1>1 DEF RevokeInv

\* A step after which a reset is between ERPNext and its transaction.
LEMMA Pending ==
    ASSUME NEW a \in Applies, At(apply, a, "commit")'
    PROVE  RevokeInv'
  BY DEF RevokeInv

\* A step that carries everything over.
LEMMA AllCarried ==
    ASSUME Open' \cup InFlight' \subseteq {erp'} \cup carried'
    PROVE  RevokeInv'
  BY DEF RevokeInv

LEMMA InitRevoke == Init => RevokeInv
  BY DEF Init, RevokeInv, Open, InFlight, Proven, At

LEMMA LoginStepRevoke ==
    ASSUME TypeOK, RevokeInv, NEW l \in Logins, LoginStep(l)
    PROVE  RevokeInv'
  <1>0. UNCHANGED <<erp, apply, carried>>
    BY DEF LoginStep, BeginLogin, Verify, RecordFailure, RecordSuccess, CreateSession, LoginThrows,
           history
  <1>1. login \in [Logins -> Login \cup {Null}] /\ Null \notin Login
    BY NullIsNoValue DEF TypeOK
  <1>2. ASSUME NEW guess \in Passwords, BeginLogin(l, guess)
        PROVE  Open' \cup InFlight' \subseteq Open \cup InFlight \cup {erp}
    <2>1. Proven' = Proven \ {l} /\ \A k \in Proven' : login'[k] = login[k]
      BY <1>1, <1>2 DEF BeginLogin, Proven, At
    <2>2. QED
      BY <1>2, <2>1 DEF BeginLogin, InFlight, Open
  <1>3. ASSUME Verify(l)
        PROVE  Open' \cup InFlight' \subseteq Open \cup InFlight \cup {erp}
    <2>1. login[l] \in Login
      BY <1>1, <1>3 DEF Verify, At
    <2>2. \A k \in Proven' \ {l} : k \in Proven /\ login'[k] = login[k]
      BY <1>1, <1>3 DEF Verify, Proven, At
    <2>3. l \in Proven' => login'[l].guess \in {erp, Null}
      BY <1>1, <1>3, <2>1 DEF Verify, Proven, At, Login
    <2>4. QED
      BY <1>3, <2>2, <2>3 DEF Verify, InFlight, Open
  <1>4. ASSUME RecordFailure(l) \/ LoginThrows(l)
        PROVE  Open' \cup InFlight' \subseteq Open \cup InFlight \cup {erp}
    <2>1. Proven' \subseteq Proven /\ \A k \in Proven' : login'[k] = login[k]
      BY <1>1, <1>4 DEF RecordFailure, LoginThrows, Proven, At
    <2>2. QED
      BY <1>4, <2>1 DEF RecordFailure, LoginThrows, InFlight, Open
  <1>5. ASSUME RecordSuccess(l)
        PROVE  Open' \cup InFlight' \subseteq Open \cup InFlight \cup {erp}
    <2>1. login[l] \in Login /\ l \in Proven
      BY <1>1, <1>5 DEF RecordSuccess, At, Proven
    <2>2. Proven' \subseteq Proven /\ \A k \in Proven' : login'[k].guess = login[k].guess
      BY <1>1, <1>5, <2>1 DEF RecordSuccess, Proven, At, Login
    <2>3. QED
      BY <1>5, <2>2 DEF RecordSuccess, InFlight, Open
  <1>6. ASSUME CreateSession(l)
        PROVE  Open' \cup InFlight' \subseteq Open \cup InFlight \cup {erp}
    <2>1. login[l] \in Login /\ l \in Proven
      BY <1>1, <1>6 DEF CreateSession, At, Proven
    <2>2. Proven' \subseteq Proven /\ \A k \in Proven' : login'[k] = login[k]
      BY <1>1, <1>6 DEF CreateSession, Proven, At
    <2>3. Open' \subseteq Open \cup InFlight
      BY <1>6, <2>1 DEF CreateSession, Open, InFlight, TypeOK
    <2>4. QED
      BY <2>2, <2>3 DEF InFlight
  <1>7. QED
    BY <1>0, <1>2, <1>3, <1>4, <1>5, <1>6, NothingCarried DEF LoginStep

LEMMA NextRevoke == TypeOK /\ RevokeInv /\ [Next]_vars => RevokeInv'
  <1> SUFFICES ASSUME TypeOK, RevokeInv, [Next]_vars PROVE RevokeInv'
    OBVIOUS
  <1>0. apply \in [Applies -> Apply \cup {Null}] /\ Null \notin Apply
    BY NullIsNoValue DEF TypeOK
  <1>1. ASSUME NEW a \in Applies, ApplyErp(a)
        PROVE  RevokeInv'
    <2>0. Open' = Open /\ InFlight' = InFlight
      BY <1>1 DEF ApplyErp, Open, InFlight, Proven, At
    <2>1. CASE UNCHANGED faults
      <3>1. apply' = [apply EXCEPT ![a].pc = "commit"] /\ apply[a] \in Apply
        BY <1>0, <1>1, <2>1, FaultBudget DEF ApplyErp, Fault, At, TypeOK
      <3>2. apply'[a] \in Apply /\ apply'[a].pc = "commit"
        BY <1>0, <3>1 DEF Apply
      <3>3. At(apply, a, "commit")'
        BY <1>0, <3>2 DEF At
      <3>4. QED
        BY <3>3, Pending
    <2>2. CASE faults' # faults /\ erp' # erp
      BY <1>1, <2>0, <2>2, AllCarried DEF ApplyErp
    <2>3. CASE faults' # faults /\ erp' = erp
      <3>1. carried' = carried \ {erp}
        BY <1>1, <2>3 DEF ApplyErp
      <3>2. apply' = [apply EXCEPT ![a] = Null] \/ apply' = [apply EXCEPT ![a].pc = "late"]
        BY <1>1, <2>3 DEF ApplyErp
      <3>3. \A b \in Applies : At(apply, b, "commit") => At(apply, b, "commit")'
        BY <1>0, <1>1, <3>2 DEF At, ApplyErp
      <3>4. QED
        BY <2>0, <2>3, <3>1, <3>3 DEF RevokeInv
    <2>4. QED
      BY <2>1, <2>2, <2>3
  <1>2. ASSUME NEW a \in Applies, Commit(a)
        PROVE  RevokeInv'
    <2>1. InFlight' = InFlight /\ erp' = erp
      BY <1>2 DEF Commit, InFlight, Proven, At
    <2>2. Open' \subseteq Open /\ (Open' = {} \/ carried' = (carried \cup InFlight \cup Open) \ {erp})
      BY <1>2 DEF Commit, Open, TypeOK
    <2>3. carried' = (carried \cup InFlight) \ {erp} \/ carried' = (carried \cup InFlight \cup Open) \ {erp}
      BY <1>2 DEF Commit
    <2>4. QED
      BY <2>1, <2>2, <2>3, AllCarried
  <1>3. ASSUME NEW c \in Changes, ChangeErp(c)
        PROVE  RevokeInv'
    <2>1. InFlight' = InFlight /\ Open' = Open
      BY <1>3 DEF ChangeErp, Open, InFlight, Proven, At
    <2>2. QED
      BY <1>3, <2>1, AllCarried DEF ChangeErp
  <1>4. ASSUME NEW a \in Applies, NEW t \in Tokens, NEW new \in Passwords, BeginApply(a, t, new)
        PROVE  RevokeInv'
    <2>1. UNCHANGED <<erp, carried>> /\ Open' = Open /\ InFlight' = InFlight
      BY <1>4 DEF BeginApply, Open, InFlight, Proven, At, history
    <2>2. \A b \in Applies : At(apply, b, "commit") => At(apply, b, "commit")'
      BY <1>0, <1>4 DEF BeginApply, At
    <2>3. QED
      BY <2>1, <2>2 DEF RevokeInv
  <1>5. ASSUME UNCHANGED <<erp, apply, carried, login>>,
               \A s \in Sessions : session'[s] \in {session[s], Null}
        PROVE  RevokeInv'
    <2>1. InFlight' = InFlight
      BY <1>5 DEF InFlight, Proven, At
    <2>2. Open' \subseteq Open
      BY <1>5 DEF Open
    <2>3. QED
      BY <1>5, <2>1, <2>2, NothingCarried
  <1>6. ASSUME NEW s \in Sessions, EndSession(s)
        PROVE  RevokeInv'
    BY <1>5, <1>6 DEF EndSession, procs, history, TypeOK
  <1>7. ASSUME NEW c \in Changes, ChangeCommit(c)
        PROVE  RevokeInv'
    BY <1>5, <1>7 DEF ChangeCommit, history, TypeOK
  <1>8. CASE UNCHANGED <<erp, apply, carried, login, session>>
    BY <1>5, <1>8
  <1>9. ASSUME UNCHANGED <<session, login>>,
               \A b \in Applies : At(apply, b, "commit") => At(apply, b, "commit")',
               carried' = IF erp' # erp THEN (carried \cup InFlight \cup Open) \ {erp'} ELSE carried
        PROVE  RevokeInv'
    <2>1. Open' = Open /\ InFlight' = InFlight
      BY <1>9 DEF Open, InFlight, Proven, At
    <2>2. QED
      BY <1>9, <2>1 DEF RevokeInv
  <1>10. ASSUME NEW a \in Applies, ApplyLate(a)
         PROVE  RevokeInv'
    <2>1. \A b \in Applies : At(apply, b, "commit") => At(apply, b, "commit")'
      BY <1>0, <1>10 DEF ApplyLate, At
    <2>2. QED
      BY <1>9, <1>10, <2>1 DEF ApplyLate
  <1>11. ASSUME NEW c \in Changes, ChangeLate(c)
         PROVE  RevokeInv'
    BY <1>9, <1>11 DEF ChangeLate, At
  <1>12. QED
    BY <1>1, <1>2, <1>3, <1>4, <1>6, <1>7, <1>8, <1>10, <1>11, LoginStepRevoke
       DEF Next, ResetStep, ChangeStep, Invalidate, CreateToken, BeginChange, Tick, vars, procs, history

\* A reset ends every session opened with an earlier password, but for the named exceptions, for
\* any number of logins, resets and changes of password.
THEOREM ResetsRevoke == Spec => []ResetRevokes
  <1>1. RevokeInv => ResetRevokes
    BY DEF RevokeInv, ResetRevokes, Open
  <1>2. QED
    BY <1>1, InitRevoke, NextRevoke, CredentialsTyped, PTL DEF Spec

-----------------------------------------------------------------------------
(* How often a token is used *)

LEMMA HoldingCounts ==
    ASSUME NEW t
    PROVE  /\ IsFiniteSet(Holding(t, "erp")) /\ Cardinality(Holding(t, "erp")) \in Nat
           /\ IsFiniteSet(Holding(t, "commit")) /\ Cardinality(Holding(t, "commit")) \in Nat
           /\ IsFiniteSet(Holding(t, "late")) /\ Cardinality(Holding(t, "late")) \in Nat
           /\ Cardinality(Applies) \in Nat
           /\ Cardinality(Holding(t, "erp")) + Cardinality(Holding(t, "commit")) <= Cardinality(Applies)
  <1> DEFINE E == Holding(t, "erp")
             C == Holding(t, "commit")
  <1>1. E \subseteq Applies /\ C \subseteq Applies /\ E \cap C = {} /\ Holding(t, "late") \subseteq Applies
    BY DEF Holding, At
  <1>2. IsFiniteSet(E) /\ IsFiniteSet(C) /\ IsFiniteSet(E \cup C) /\ IsFiniteSet(Holding(t, "late"))
    BY <1>1, ProcessesAreFinite, FS_Subset, FS_Union
  <1>3. Cardinality(E \cup C) = Cardinality(E) + Cardinality(C)
    <2>1. Cardinality(E \cup C) = Cardinality(E) + Cardinality(C) - Cardinality(E \cap C)
      BY <1>2, FS_Union
    <2>2. Cardinality(E \cap C) = 0
      BY <1>1, FS_EmptySet
    <2> HIDE DEF E, C
    <2>3. Cardinality(E) \in Nat /\ Cardinality(C) \in Nat
      BY <1>2, FS_CardinalityType
    <2>4. QED
      BY <2>1, <2>2, <2>3
  <1>4. E \cup C \subseteq Applies
    BY <1>1
  <1> HIDE DEF E, C
  <1>5. Cardinality(E \cup C) <= Cardinality(Applies)
    BY <1>4, ProcessesAreFinite, FS_Subset
  <1>6. /\ Cardinality(E) \in Nat /\ Cardinality(C) \in Nat /\ Cardinality(Applies) \in Nat
        /\ Cardinality(Holding(t, "late")) \in Nat
    BY <1>2, ProcessesAreFinite, FS_CardinalityType
  <1>7. QED
    BY <1>2, <1>3, <1>5, <1>6 DEF E, C

\* Whatever has become of a token, its uses and the applications about to use it stay within
\* the applications and the faults.
LEMMA UsesBound ==
    ASSUME TypeOK, UsesInv, NEW t \in Tokens
    PROVE  uses[t] + Cardinality(Holding(t, "late")) + Cardinality(Holding(t, "erp"))
             <= Cardinality(Applies) + faults
  <1>1. uses[t] \in Nat /\ faults \in Nat
    BY FaultBudget DEF TypeOK
  <1>2. QED
    BY <1>1, HoldingCounts DEF UsesInv

\* Steps that leave the applications alone, and may mark tokens used or create one.
LEMMA NoUse ==
    ASSUME TypeOK, UsesInv, UNCHANGED <<apply, uses>>,
           faults' \in Nat, faults <= faults',
           \A t \in Tokens : ~(t \in Unused \/ token[t] = Null) => ~(t \in Unused \/ token[t] = Null)'
    PROVE  UsesInv'
  <1>1. \A t : /\ Holding(t, "erp")' = Holding(t, "erp")
               /\ Holding(t, "commit")' = Holding(t, "commit")
               /\ Holding(t, "late")' = Holding(t, "late")
    BY DEF Holding, At
  <1>2. ASSUME NEW t \in Tokens
        PROVE  IF (t \in Unused \/ token[t] = Null)'
               THEN uses[t] + Cardinality(Holding(t, "late"))
                      <= Cardinality(Holding(t, "commit")) + faults'
               ELSE uses[t] + Cardinality(Holding(t, "late")) + Cardinality(Holding(t, "erp"))
                      <= Cardinality(Applies) + faults'
    <2>1. uses[t] \in Nat /\ faults \in Nat
      BY FaultBudget DEF TypeOK
    <2>2. QED
      BY <2>1, HoldingCounts, UsesBound DEF UsesInv
  <1>3. QED
    BY <1>1, <1>2 DEF UsesInv

\* One application ends: the others hold on to what they held.
LEMMA Leaves ==
    ASSUME TypeOK, NEW a \in Applies, apply[a] # Null,
           apply' \in [Applies -> Apply \cup {Null}],
           \A b \in Applies \ {a} : apply'[b] = apply[b],
           apply'[a] = Null, NEW t \in Tokens, NEW pc \in {"erp", "commit", "late"}
    PROVE  Cardinality(Holding(t, pc)') =
             Cardinality(Holding(t, pc)) - (IF a \in Holding(t, pc) THEN 1 ELSE 0)
  <1>1. Holding(t, pc)' = Holding(t, pc) \ {a}
    BY DEF Holding, At
  <1>2. CASE a \in Holding(t, pc)
    BY <1>1, <1>2, HoldingCounts, FS_RemoveElement
  <1>3. CASE a \notin Holding(t, pc)
    <2>1. Holding(t, pc)' = Holding(t, pc)
      BY <1>1, <1>3
    <2>2. QED
      BY <1>3, <2>1, HoldingCounts
  <1>4. QED
    BY <1>2, <1>3

LEMMA BeginApplyUses ==
    ASSUME TypeOK, UsesInv, NEW a \in Applies, NEW s \in Tokens, NEW new \in Passwords,
           BeginApply(a, s, new)
    PROVE  UsesInv'
  <1>0. apply \in [Applies -> Apply \cup {Null}] /\ Null \notin Apply
    BY NullIsNoValue DEF TypeOK
  <1>1. /\ apply[a] = Null /\ s \in Unused
        /\ apply' = [apply EXCEPT ![a] = [pc |-> "erp", token |-> s, new |-> new]]
        /\ UNCHANGED <<token, uses, faults>>
    BY DEF BeginApply, Live, Unused, history
  <1>2. Unused' = Unused
    BY <1>1 DEF Unused
  <1>3. \A t \in Tokens : /\ Holding(t, "commit")' = Holding(t, "commit")
                          /\ Holding(t, "late")' = Holding(t, "late")
    BY <1>0, <1>1 DEF Holding, At
  <1>4. \A t \in Tokens \ {s} : Holding(t, "erp")' = Holding(t, "erp")
    BY <1>0, <1>1 DEF Holding, At
  <1>5. QED
    BY <1>1, <1>2, <1>3, <1>4 DEF UsesInv

\* An application goes from ERPNext to another state.
LEMMA Moves ==
    ASSUME TypeOK, NEW a \in Applies, At(apply, a, "erp"), NEW q \in {"commit", "late"},
           apply' = [apply EXCEPT ![a].pc = q], NEW t \in Tokens, NEW pc \in {"erp", "commit", "late"}
    PROVE  Cardinality(Holding(t, pc)') =
             Cardinality(Holding(t, pc)) + (IF t # apply[a].token THEN 0
                                            ELSE IF pc = q THEN 1 ELSE IF pc = "erp" THEN -1 ELSE 0)
  <1>0. apply \in [Applies -> Apply \cup {Null}] /\ Null \notin Apply /\ apply[a] \in Apply
    BY NullIsNoValue DEF TypeOK, At
  <1>1. apply'[a] = [apply[a] EXCEPT !.pc = q] /\ \A b \in Applies \ {a} : apply'[b] = apply[b]
    BY <1>0
  <1>2. apply'[a] # Null /\ apply'[a].pc = q /\ apply'[a].token = apply[a].token
    <2>1. apply'[a] \in Apply
      BY <1>0, <1>1 DEF Apply
    <2>2. QED
      BY <1>0, <1>1, <2>1 DEF Apply
  <1>3. \A b \in Applies \ {a} : b \in Holding(t, pc)' <=> b \in Holding(t, pc)
    BY <1>1 DEF Holding, At
  <1>4. /\ a \in Holding(t, pc)' <=> t = apply[a].token /\ pc = q
        /\ a \in Holding(t, pc) <=> t = apply[a].token /\ pc = "erp"
    BY <1>2 DEF Holding, At
  <1>5. Holding(t, pc) \subseteq Applies /\ Holding(t, pc)' \subseteq Applies
    BY DEF Holding
  <1>6. IsFiniteSet(Holding(t, pc)) /\ Cardinality(Holding(t, pc)) \in Nat
    BY HoldingCounts
  <1>7. CASE t = apply[a].token /\ pc = q
    <2>1. Holding(t, pc)' = Holding(t, pc) \cup {a} /\ a \notin Holding(t, pc)
      BY <1>3, <1>4, <1>5, <1>7
    <2>2. QED
      BY <1>6, <1>7, <2>1, FS_AddElement
  <1>8. CASE t = apply[a].token /\ pc = "erp"
    <2>1. Holding(t, pc)' = Holding(t, pc) \ {a} /\ a \in Holding(t, pc) /\ pc # q
      BY <1>3, <1>4, <1>5, <1>8
    <2>2. Cardinality(Holding(t, pc)') = Cardinality(Holding(t, pc)) - 1
      BY <1>6, <2>1, FS_RemoveElement
    <2>3. QED
      BY <1>6, <1>8, <2>1, <2>2
  <1>9. CASE t # apply[a].token \/ pc \notin {q, "erp"}
    <2>1. Holding(t, pc)' = Holding(t, pc)
      BY <1>3, <1>4, <1>5, <1>9
    <2>2. QED
      BY <1>6, <1>9, <2>1
  <1>10. QED
    BY <1>7, <1>8, <1>9

LEMMA ApplyErpUses ==
    ASSUME TypeOK, UsesInv, NEW a \in Applies, ApplyErp(a) \/ ApplyLate(a)
    PROVE  UsesInv'
  <1>0. apply \in [Applies -> Apply \cup {Null}] /\ Null \notin Apply /\ apply[a] \in Apply
    BY NullIsNoValue DEF TypeOK, ApplyErp, ApplyLate, At
  <1>s. PICK s \in Tokens : s = apply[a].token
    BY <1>0 DEF Apply
  <1>1. \A t \in Tokens, pc \in {"erp", "commit", "late"} :
           a \in Holding(t, pc) <=> t = s /\ apply[a].pc = pc
    BY <1>0, <1>s DEF Holding, At
  <1>2. /\ faults \in Nat /\ uses \in [Tokens -> Nat]
        /\ uses' \in [Tokens -> Nat] /\ uses'[s] <= uses[s] + 1
        /\ \A t \in Tokens \ {s} : uses'[t] = uses[t]
        /\ Unused' = Unused /\ token' = token
    BY <1>s, FaultBudget DEF ApplyErp, ApplyLate, TypeOK, Unused
  <1> DEFINE Covered(t, f) ==
                 IF t \in Unused \/ token[t] = Null
                 THEN uses'[t] + Cardinality(Holding(t, "late")')
                        <= Cardinality(Holding(t, "commit")') + f
                 ELSE uses'[t] + Cardinality(Holding(t, "late")') + Cardinality(Holding(t, "erp")')
                        <= Cardinality(Applies) + f
  <1>3. SUFFICES ASSUME NEW t \in Tokens PROVE Covered(t, faults')
    BY <1>2 DEF UsesInv
  <1>4. /\ uses[t] \in Nat /\ uses'[t] \in Nat /\ uses'[t] <= uses[t] + 1
        /\ t = s \/ uses'[t] = uses[t]
    BY <1>2
  <1>5. CASE At(apply, a, "erp") /\ apply' = [apply EXCEPT ![a].pc = "commit"]
    <2>1. faults' = faults
      BY <1>0, <1>5, <1>2 DEF ApplyErp, ApplyLate, At, Fault, Apply
    <2>2. \A pc \in {"erp", "commit", "late"} :
             Cardinality(Holding(t, pc)') =
                Cardinality(Holding(t, pc)) + (IF t # s THEN 0 ELSE IF pc = "commit" THEN 1
                                               ELSE IF pc = "erp" THEN -1 ELSE 0)
      BY <1>5, <1>s, Moves
    <2>3. QED
      BY <1>2, <1>4, <2>1, <2>2, HoldingCounts DEF UsesInv
  <1>6. CASE At(apply, a, "erp") /\ apply' = [apply EXCEPT ![a].pc = "late"]
    <2>1. faults' = faults + 1 /\ uses' = uses
      BY <1>0, <1>6 DEF ApplyErp, ApplyLate, At, Fault, Apply
    <2>2. \A pc \in {"erp", "commit", "late"} :
             Cardinality(Holding(t, pc)') =
                Cardinality(Holding(t, pc)) + (IF t # s THEN 0 ELSE IF pc = "late" THEN 1
                                               ELSE IF pc = "erp" THEN -1 ELSE 0)
      BY <1>6, <1>s, Moves
    <2>3. QED
      BY <1>2, <1>4, <2>1, <2>2, HoldingCounts DEF UsesInv
  <1>7. CASE apply' = [apply EXCEPT ![a] = Null]
    <2>1. \A pc \in {"erp", "commit", "late"} :
             Cardinality(Holding(t, pc)') =
                Cardinality(Holding(t, pc)) - (IF t = s /\ apply[a].pc = pc THEN 1 ELSE 0)
      BY <1>0, <1>1, <1>7, Leaves
    <2>2. \/ faults' = faults + 1 /\ apply[a].pc = "erp"
          \/ faults' = faults /\ apply[a].pc = "late"
      BY <1>0, <1>7 DEF ApplyErp, ApplyLate, At, Fault, Apply
    <2>3. QED
      BY <1>2, <1>4, <2>1, <2>2, HoldingCounts DEF UsesInv
  <1>8. QED
    BY <1>5, <1>6, <1>7 DEF ApplyErp, ApplyLate

LEMMA CommitUses ==
    ASSUME TypeOK, UsesInv, NEW a \in Applies, Commit(a)
    PROVE  UsesInv'
  <1>0. apply \in [Applies -> Apply \cup {Null}] /\ Null \notin Apply /\ apply[a] \in Apply
    BY NullIsNoValue DEF TypeOK, Commit, At
  <1>s. PICK s \in Tokens : s = apply[a].token
    BY <1>0 DEF Apply
  <1>1. /\ token[s] \in Token /\ a \in Holding(s, "commit")
        /\ \A t \in Tokens \ {s} : a \notin Holding(t, "commit")
        /\ \A t \in Tokens : a \notin Holding(t, "erp") /\ a \notin Holding(t, "late")
    BY <1>0, <1>s DEF Apply, Holding, Commit, At, TypeOK
  <1>2. /\ faults \in Nat /\ uses \in [Tokens -> Nat] /\ uses' = uses
        /\ apply' = [apply EXCEPT ![a] = Null]
    BY FaultBudget DEF Commit, TypeOK
  <1>3. \A t \in Tokens, pc \in {"erp", "commit", "late"} :
           Cardinality(Holding(t, pc)') =
              Cardinality(Holding(t, pc)) - (IF a \in Holding(t, pc) THEN 1 ELSE 0)
    BY <1>0, <1>1, <1>2, Leaves DEF Holding
  <1>4. \A t \in Tokens : /\ Cardinality(Holding(t, "erp")') = Cardinality(Holding(t, "erp"))
                          /\ Cardinality(Holding(t, "late")') = Cardinality(Holding(t, "late"))
                          /\ t # s => Cardinality(Holding(t, "commit")') = Cardinality(Holding(t, "commit"))
    BY <1>1, <1>3, HoldingCounts
  <1>5. CASE UNCHANGED faults
    <2>1. token' = [token EXCEPT ![s].used = TRUE]
      BY <1>2, <1>5, <1>s DEF Commit, Fault
    <2>2. /\ \A t \in Tokens \ {s} : token'[t] = token[t]
          /\ token'[s] = [token[s] EXCEPT !.used = TRUE]
      BY <1>1, <2>1 DEF TypeOK
    <2>3. token'[s] \in Token /\ token'[s].used
      BY <1>1, <2>2 DEF Token
    <2>4. token'[s] # Null /\ s \notin Unused'
      BY <2>3, NullIsNoValue DEF Unused
    <2>5. \A t \in Tokens \ {s} : (t \in Unused') = (t \in Unused)
      BY <2>2 DEF Unused
    <2>6. ASSUME NEW t \in Tokens
          PROVE  IF t \in Unused' \/ token'[t] = Null
                 THEN uses[t] + Cardinality(Holding(t, "late")')
                        <= Cardinality(Holding(t, "commit")') + faults
                 ELSE uses[t] + Cardinality(Holding(t, "late")') + Cardinality(Holding(t, "erp")')
                        <= Cardinality(Applies) + faults
      <3>1. CASE t = s
        BY <1>4, <2>4, <3>1, UsesBound
      <3>2. CASE t # s
        BY <1>4, <2>2, <2>5, <3>2 DEF UsesInv
      <3>3. QED
        BY <3>1, <3>2
    <2>7. QED
      BY <1>2, <1>5, <2>6 DEF UsesInv
  <1>6. CASE faults' # faults
    <2>1. faults' = faults + 1 /\ token' = token /\ Unused' = Unused
      BY <1>6 DEF Commit, Fault, Unused
    <2>2. ASSUME NEW t \in Tokens
          PROVE  IF t \in Unused \/ token[t] = Null
                 THEN uses[t] + Cardinality(Holding(t, "late")')
                        <= Cardinality(Holding(t, "commit")') + faults'
                 ELSE uses[t] + Cardinality(Holding(t, "late")') + Cardinality(Holding(t, "erp")')
                        <= Cardinality(Applies) + faults'
      <3>1. uses[t] \in Nat
        BY <1>2
      <3>2. Cardinality(Holding(t, "commit")') \in Int
            /\ Cardinality(Holding(t, "commit")') + 1 >= Cardinality(Holding(t, "commit"))
        BY <1>3, HoldingCounts
      <3>3. QED
        BY <1>2, <1>4, <2>1, <3>1, <3>2, HoldingCounts DEF UsesInv
    <2>3. QED
      BY <1>2, <2>1, <2>2 DEF UsesInv
  <1>7. QED
    BY <1>5, <1>6

LEMMA NextUses == TypeOK /\ UsesInv /\ [Next]_vars => UsesInv'
  <1> SUFFICES ASSUME TypeOK, UsesInv, [Next]_vars PROVE UsesInv'
    OBVIOUS
  <1>0. faults \in Nat
    BY FaultBudget DEF TypeOK
  <1>1. ASSUME NEW q \in Requests, Invalidate(q)
        PROVE  UsesInv'
    <2>1. \A t \in Tokens : token[t] # Null =>
             [token[t] EXCEPT !.used = TRUE] \in Token /\ [token[t] EXCEPT !.used = TRUE].used
      BY DEF TypeOK, Token
    <2>2. \A t \in Tokens : token[t] # Null => token'[t] # Null /\ token'[t].used
      BY <1>1, <2>1, NullIsNoValue DEF Invalidate
    <2>3. QED
      BY <1>0, <1>1, <2>2, NoUse DEF Invalidate, Unused, history
  <1>2. ASSUME NEW q \in Requests, CreateToken(q)
        PROVE  UsesInv'
    <2>1. \A t \in Tokens : token[t] # Null => token'[t] = token[t]
      BY <1>2 DEF CreateToken, TypeOK
    <2>2. faults' \in Nat /\ faults <= faults'
      BY <1>0, <1>2 DEF CreateToken, Fault
    <2>3. QED
      BY <1>2, <2>1, <2>2, NoUse DEF CreateToken, Unused, history
  <1>3. CASE UNCHANGED <<token, apply, uses>> /\ (faults' = faults \/ Fault)
    <2>1. faults' \in Nat /\ faults <= faults'
      BY <1>0, <1>3 DEF Fault
    <2>2. QED
      BY <1>3, <2>1, NoUse DEF Unused
  <1>4. QED
    BY <1>1, <1>2, <1>3, BeginApplyUses, ApplyErpUses, CommitUses
       DEF Next, LoginStep, ResetStep, ChangeStep, BeginLogin, Verify, RecordFailure,
           RecordSuccess, CreateSession, LoginThrows, EndSession,
           BeginChange, ChangeErp, ChangeCommit, ChangeLate, Tick, vars, procs, history

\* A reset token changes the password once per concurrent application at most, and once more
\* for every application that broke off after ERPNext had taken the password.
THEOREM TokenUsesAreBounded == Spec => []TokenUsesBounded
  <1>1. Init => UsesInv
    <2> SUFFICES ASSUME Init PROVE UsesInv
      OBVIOUS
    <2>1. \A t, pc : Holding(t, pc) = {}
      BY DEF Init, Holding, At
    <2>2. Cardinality({}) = 0 /\ faults = 0 /\ \A t \in Tokens : uses[t] = 0 /\ token[t] = Null
      BY FS_EmptySet DEF Init
    <2>3. QED
      BY <2>1, <2>2 DEF UsesInv
  <1>2. TypeOK /\ UsesInv => TokenUsesBounded
    <2> SUFFICES ASSUME TypeOK, UsesInv, NEW t \in Tokens
                 PROVE  uses[t] <= Cardinality(Applies) + faults
      BY DEF TokenUsesBounded
    <2>1. uses[t] \in Nat /\ faults \in Nat
      BY FaultBudget DEF TypeOK
    <2>2. QED
      BY <2>1, UsesBound, HoldingCounts
  <1>3. QED
    BY <1>1, <1>2, NextUses, CredentialsTyped, PTL DEF Spec

-----------------------------------------------------------------------------
(* Profiles and their lexicographic order *)

LEMMA MinOfSet ==
    ASSUME NEW M \in SUBSET Nat, M # {}
    PROVE  \E k \in M : \A m \in M : k <= m
  <1>1. PICK k \in M : \A m \in M : ~(<<m, k>> \in OpToRel(<, Nat))
    BY NatLessThanWellFounded, WFMin, Zenon
  <1>2. \A m \in M : ~(m < k)
    BY <1>1 DEF OpToRel
  <1>3. QED
    BY <1>2

\* There are finitely many profiles: each is determined by its graph.
LEMMA ProfilesAreFinite ==
    ASSUME NEW n \in Nat, NEW t \in Nat
    PROVE  IsFiniteSet(Profiles(n, t)) /\ Cardinality(Profiles(n, t)) \in Nat
  <1> DEFINE D == 0..(t - 2)
             R == 0..n
             graph == [p \in Profiles(n, t) |-> {d \in D \X R : p[d[1]] = d[2]}]
  <1>1. IsFiniteSet(SUBSET (D \X R))
    <2>1. IsFiniteSet(D) /\ IsFiniteSet(R)
      BY FS_Interval
    <2>2. IsFiniteSet(D \X R)
      <3> HIDE DEF D, R
      <3>1. QED
        BY <2>1, FS_Product
    <2>3. QED
      BY <2>2, FS_SUBSET
  <1>2. graph \in [Profiles(n, t) -> SUBSET (D \X R)]
    OBVIOUS
  <1>3. ASSUME NEW p \in Profiles(n, t), NEW q \in Profiles(n, t), graph[p] = graph[q]
        PROVE  p = q
    <2>1. p \in [D -> R] /\ q \in [D -> R]
      BY DEF Profiles
    <2>2. ASSUME NEW j \in D
          PROVE  p[j] = q[j]
      <3>1. <<j, p[j]>> \in graph[p]
        BY <2>1
      <3>2. <<j, p[j]>> \in graph[q]
        BY <1>3, <3>1
      <3>3. QED
        BY <3>2
    <2>3. QED
      BY <2>1, <2>2
  <1>4. graph \in Injection(Profiles(n, t), SUBSET (D \X R))
    <2> HIDE DEF graph
    <2>1. QED
      BY <1>2, <1>3 DEF Injection, IsInjective
  <1>5. IsFiniteSet(Profiles(n, t))
    <2> HIDE DEF graph, D, R
    <2>1. QED
      BY <1>1, <1>4, FS_Injection
  <1>6. QED
    BY <1>5, FS_CardinalityType

LEMMA LowerIsStrict ==
    ASSUME NEW k \in Int, NEW p \in [0..k -> Nat]
    PROVE  ~Lower(p, p)
  BY DEF Lower

LEMMA LowerIsTransitive ==
    ASSUME NEW k \in Int, NEW p \in [0..k -> Nat], NEW q \in [0..k -> Nat], NEW r \in [0..k -> Nat],
           Lower(p, q), Lower(q, r)
    PROVE  Lower(p, r)
  <1>1. PICK i \in 0..k : p[i] < q[i] /\ \A j \in 0..k : j < i => p[j] = q[j]
    BY DEF Lower
  <1>2. PICK m \in 0..k : q[m] < r[m] /\ \A j \in 0..k : j < m => q[j] = r[j]
    BY DEF Lower
  <1>3. CASE i < m
    BY <1>1, <1>2, <1>3 DEF Lower
  <1>4. CASE m < i
    BY <1>1, <1>2, <1>4 DEF Lower
  <1>5. CASE i = m
    <2>1. p[i] < r[i] /\ \A j \in 0..k : j < i => p[j] = r[j]
      BY <1>1, <1>2, <1>5
    <2>2. QED
      BY <2>1 DEF Lower
  <1>6. QED
    BY <1>3, <1>4, <1>5

\* Less at v and no more before it.
LEMMA LowerAt ==
    ASSUME NEW k \in Int, NEW p \in [0..k -> Nat], NEW q \in [0..k -> Nat],
           NEW v \in 0..k, p[v] < q[v], \A j \in 0..k : j < v => p[j] <= q[j]
    PROVE  Lower(p, q)
  <1> DEFINE M == {j \in 0..k : p[j] < q[j]}
  <1>1. M \in SUBSET Nat /\ v \in M
    OBVIOUS
  <1>2. PICK m \in M : \A j \in M : m <= j
    <2> HIDE DEF M
    <2>1. QED
      BY <1>1, MinOfSet
  <1>3. m \in 0..k /\ p[m] < q[m] /\ m <= v
    BY <1>1, <1>2
  <1>4. ASSUME NEW j \in 0..k, j < m
        PROVE  p[j] = q[j]
    <2>1. j \notin M /\ p[j] <= q[j]
      BY <1>2, <1>3, <1>4
    <2>2. QED
      BY <2>1
  <1>5. QED
    BY <1>3, <1>4 DEF Lower

LEMMA LowerOrEqual ==
    ASSUME NEW k \in Int, NEW p \in [0..k -> Nat], NEW q \in [0..k -> Nat],
           \A j \in 0..k : p[j] <= q[j]
    PROVE  p = q \/ Lower(p, q)
  <1>1. CASE \A j \in 0..k : p[j] = q[j]
    BY <1>1
  <1>2. CASE \E j \in 0..k : p[j] # q[j]
    <2>1. PICK v \in 0..k : p[v] < q[v]
      BY <1>2
    <2>2. QED
      BY <2>1, LowerAt
  <1>3. QED
    BY <1>1, <1>2

-----------------------------------------------------------------------------
(* What is left below a profile *)

All == Profiles(Cardinality(Logins), THRESHOLD)
LeftOf(q) == {p \in All : Lower(p, q)}

LEMMA AllProfiles ==
    /\ Cardinality(Logins) \in Nat /\ THRESHOLD \in Nat \ {0} /\ THRESHOLD - 2 \in Int
    /\ IsFiniteSet(All) /\ Cardinality(All) \in Nat
    /\ \A p \in All : p \in [0..(THRESHOLD - 2) -> Nat]
    /\ \A q : IsFiniteSet(LeftOf(q)) /\ Cardinality(LeftOf(q)) \in Nat
  <1>1. Cardinality(Logins) \in Nat /\ THRESHOLD \in Nat \ {0}
    BY ProcessesAreFinite, ThresholdIsPositive, FS_CardinalityType
  <1>2. IsFiniteSet(All) /\ Cardinality(All) \in Nat
    BY <1>1, ProfilesAreFinite DEF All
  <1>3. \A p \in All : p \in [0..(THRESHOLD - 2) -> Nat]
    BY <1>1 DEF All, Profiles
  <1>4. ASSUME NEW q
        PROVE  IsFiniteSet(LeftOf(q)) /\ Cardinality(LeftOf(q)) \in Nat
    <2>1. LeftOf(q) \in SUBSET All
      BY DEF LeftOf
    <2>2. QED
      BY <1>2, <2>1, FS_Subset, FS_CardinalityType
  <1>5. QED
    BY <1>1, <1>2, <1>3, <1>4

\* A profile is not left below itself.
LEMMA LeftIsLess ==
    ASSUME NEW q \in All
    PROVE  Cardinality(LeftOf(q)) < Cardinality(All)
  <1>1. q \notin LeftOf(q)
    BY AllProfiles, LowerIsStrict DEF LeftOf
  <1>2. LeftOf(q) \in SUBSET All /\ LeftOf(q) # All
    BY <1>1 DEF LeftOf
  <1>3. /\ Cardinality(LeftOf(q)) <= Cardinality(All)
        /\ Cardinality(LeftOf(q)) = Cardinality(All) => LeftOf(q) = All
    BY <1>2, AllProfiles, FS_Subset
  <1>4. QED
    BY <1>2, <1>3, AllProfiles

\* Below a lower profile less is left.
LEMMA LeftShrinks ==
    ASSUME NEW p \in All, NEW q \in All, Lower(p, q)
    PROVE  Cardinality(LeftOf(p)) < Cardinality(LeftOf(q))
  <1>1. p \in LeftOf(q) /\ p \notin LeftOf(p)
    BY AllProfiles, LowerIsStrict DEF LeftOf
  <1>2. LeftOf(p) \in SUBSET LeftOf(q)
    BY AllProfiles, LowerIsTransitive DEF LeftOf
  <1>3. /\ Cardinality(LeftOf(p)) <= Cardinality(LeftOf(q))
        /\ Cardinality(LeftOf(p)) = Cardinality(LeftOf(q)) => LeftOf(p) = LeftOf(q)
    BY <1>2, AllProfiles, FS_Subset
  <1>4. QED
    BY <1>1, <1>3, AllProfiles

\* The profile of logins that count from f.
ProfileOf(f) == [j \in 0..(THRESHOLD - 2) |-> Cardinality({l \in Logins : f[l] <= j})]

LEMMA Groups ==
    ASSUME NEW G \in SUBSET Logins
    PROVE  /\ IsFiniteSet(G) /\ Cardinality(G) \in 0..Cardinality(Logins)
  <1>1. IsFiniteSet(G) /\ Cardinality(G) <= Cardinality(Logins)
    BY ProcessesAreFinite, FS_Subset
  <1>2. Cardinality(G) \in Nat /\ Cardinality(Logins) \in Nat
    BY <1>1, ProcessesAreFinite, FS_CardinalityType
  <1>3. QED
    BY <1>1, <1>2

LEMMA ProfileOfType ==
    ASSUME NEW f \in [Logins -> Nat]
    PROVE  ProfileOf(f) \in All
  <1> DEFINE D == 0..(THRESHOLD - 2)
             G(j) == {l \in Logins : f[l] <= j}
  <1>1. ASSUME NEW j \in D
        PROVE  G(j) \in SUBSET Logins /\ Cardinality(G(j)) \in 0..Cardinality(Logins)
    BY Groups
  <1>2. ASSUME NEW i \in D, NEW j \in D, i <= j
        PROVE  Cardinality(G(i)) <= Cardinality(G(j))
    <2>1. D \subseteq Int
      BY AllProfiles
    <2>2. G(i) \in SUBSET G(j)
      BY <1>2, <2>1
    <2>3. G(j) \in SUBSET Logins
      OBVIOUS
    <2>4. IsFiniteSet(G(j))
      BY <2>3, Groups
    <2>5. QED
      BY <2>2, <2>4, FS_Subset
  <1>3. ProfileOf(f) = [j \in D |-> Cardinality(G(j))]
    BY DEF ProfileOf
  <1>4. QED
    <2> HIDE DEF G
    <2>1. QED
      BY <1>1, <1>2, <1>3 DEF All, Profiles

LEMMA FewerCount ==
    ASSUME NEW f \in [Logins -> Nat], NEW g \in [Logins -> Nat], NEW j \in 0..(THRESHOLD - 2),
           \A l \in Logins : g[l] <= j => f[l] <= j
    PROVE  /\ ProfileOf(g)[j] <= ProfileOf(f)[j]
           /\ ProfileOf(g)[j] = ProfileOf(f)[j] => \A l \in Logins : f[l] <= j => g[l] <= j
  <1>1. PICK A \in SUBSET Logins : A = {l \in Logins : f[l] <= j}
    OBVIOUS
  <1>2. PICK B \in SUBSET Logins : B = {l \in Logins : g[l] <= j}
    OBVIOUS
  <1>3. B \in SUBSET A
    BY <1>1, <1>2
  <1>4. Cardinality(B) <= Cardinality(A) /\ (Cardinality(B) = Cardinality(A) => B = A)
    BY <1>3, Groups, FS_Subset
  <1>5. ProfileOf(f)[j] = Cardinality(A) /\ ProfileOf(g)[j] = Cardinality(B)
    BY <1>1, <1>2 DEF ProfileOf
  <1>6. QED
    BY <1>1, <1>2, <1>4, <1>5

\* No login counts from less than before.
LEMMA ProfileSinks ==
    ASSUME NEW f \in [Logins -> Nat], NEW g \in [Logins -> Nat], \A l \in Logins : f[l] <= g[l]
    PROVE  Cardinality(LeftOf(ProfileOf(g))) <= Cardinality(LeftOf(ProfileOf(f)))
  <1>1. PICK p \in All : p = ProfileOf(f)
    BY ProfileOfType
  <1>2. PICK q \in All : q = ProfileOf(g)
    BY ProfileOfType
  <1>3. ASSUME NEW j \in 0..(THRESHOLD - 2)
        PROVE  q[j] <= p[j]
    <2>1. ASSUME NEW l \in Logins, g[l] <= j
          PROVE  f[l] <= j
      <3>1. f[l] \in Nat /\ g[l] \in Nat /\ f[l] <= g[l] /\ j \in Int
        BY AllProfiles
      <3>2. QED
        BY <2>1, <3>1
    <2>2. QED
      BY <1>1, <1>2, <2>1, FewerCount
  <1>4. q = p \/ Lower(q, p)
    BY <1>3, AllProfiles, LowerOrEqual
  <1>5. CASE q = p
    BY <1>1, <1>2, <1>5, AllProfiles
  <1>6. CASE Lower(q, p)
    BY <1>1, <1>2, <1>6, AllProfiles, LeftShrinks
  <1>7. QED
    BY <1>4, <1>5, <1>6

\* A login leaves v, from where none was yet to lock, and those that count from less than before
\* count from more than v.
LEMMA ProfileFalls ==
    ASSUME NEW f \in [Logins -> Nat], NEW g \in [Logins -> Nat],
           NEW k \in Logins, f[k] <= THRESHOLD - 2, f[k] < g[k],
           \A l \in Logins : f[l] <= g[l] \/ f[k] < g[l]
    PROVE  Cardinality(LeftOf(ProfileOf(g))) < Cardinality(LeftOf(ProfileOf(f)))
  <1>1. PICK p \in All : p = ProfileOf(f)
    BY ProfileOfType
  <1>2. PICK q \in All : q = ProfileOf(g)
    BY ProfileOfType
  <1>3. PICK v \in 0..(THRESHOLD - 2) : v = f[k]
    BY AllProfiles
  <1>4. ASSUME NEW j \in 0..(THRESHOLD - 2), j <= v
        PROVE  q[j] <= p[j] /\ (q[j] = p[j] => \A l \in Logins : f[l] <= j => g[l] <= j)
    <2>1. ASSUME NEW l \in Logins, g[l] <= j
          PROVE  f[l] <= j
      <3>1. f[l] \in Nat /\ g[l] \in Nat /\ j \in Int /\ v \in Int
        BY AllProfiles
      <3>2. f[l] <= g[l] \/ v < g[l]
        BY <1>3
      <3>3. QED
        BY <1>4, <2>1, <3>1, <3>2
    <2>2. QED
      BY <1>1, <1>2, <2>1, FewerCount
  <1>5. q[v] # p[v]
    BY <1>3, <1>4, AllProfiles
  <1>6. p \in [0..(THRESHOLD - 2) -> Nat] /\ q \in [0..(THRESHOLD - 2) -> Nat]
    BY AllProfiles
  <1>7. q[v] < p[v] /\ \A j \in 0..(THRESHOLD - 2) : j < v => q[j] <= p[j]
    BY <1>4, <1>5, <1>6, AllProfiles
  <1>8. Lower(q, p)
    BY <1>6, <1>7, AllProfiles, LowerAt
  <1>9. QED
    BY <1>1, <1>2, <1>8, LeftShrinks

-----------------------------------------------------------------------------
(* Wrong passwords *)

Levels == [l \in Logins |-> Level(l)]

LEMMA LeftIsOfLevels ==
    ASSUME TypeOK
    PROVE  Levels \in [Logins -> Nat] /\ Left = LeftOf(ProfileOf(Levels))
  <1>1. Levels \in [Logins -> Nat]
    BY DEF Levels, Level, At, TypeOK, Login, User
  <1>2. Profile = ProfileOf(Levels)
    BY DEF Profile, ProfileOf, Levels
  <1>3. QED
    BY <1>1, <1>2 DEF Left, LeftOf, All

LEMMA LeftIsOfLevelsNext ==
    ASSUME TypeOK'
    PROVE  Levels' \in [Logins -> Nat] /\ Left' = LeftOf(ProfileOf(Levels'))
  <1>1. Levels' \in [Logins -> Nat]
    BY DEF Levels, Level, At, TypeOK, Login, User
  <1>2. Profile' = ProfileOf(Levels')
    BY DEF Profile, ProfileOf, Levels
  <1>3. QED
    BY <1>1, <1>2 DEF Left, LeftOf, All

LEMMA GuessNumbers ==
    ASSUME TypeOK
    PROVE  /\ Cardinality(Left) \in Nat /\ Cardinality(Left) < Cardinality(All)
           /\ Cardinality(All) \in Nat
           /\ Cardinality(Failing) \in 0..Cardinality(Logins) /\ IsFiniteSet(Failing)
           /\ wrong \in Nat /\ faults \in Nat
  <1>1. PICK f \in [Logins -> Nat] : f = Levels /\ Left = LeftOf(ProfileOf(f))
    BY LeftIsOfLevels
  <1>2. PICK q \in All : q = ProfileOf(f)
    BY ProfileOfType
  <1>3. Failing \in SUBSET Logins
    BY DEF Failing
  <1>4. QED
    BY <1>1, <1>2, <1>3, LeftIsLess, AllProfiles, Groups, FaultBudget DEF TypeOK

LEMMA GuessNumbersNext ==
    ASSUME TypeOK'
    PROVE  /\ Cardinality(Left') \in Nat /\ Cardinality(Left') < Cardinality(All)
           /\ Cardinality(All) \in Nat
           /\ Cardinality(Failing') \in 0..Cardinality(Logins) /\ IsFiniteSet(Failing')
           /\ wrong' \in Nat /\ faults' \in Nat
  <1>1. PICK f \in [Logins -> Nat] : f = Levels' /\ Left' = LeftOf(ProfileOf(f))
    BY LeftIsOfLevelsNext
  <1>2. PICK q \in All : q = ProfileOf(f)
    BY ProfileOfType
  <1>3. Failing' \in SUBSET Logins
    BY DEF Failing
  <1>4. QED
    BY <1>1, <1>2, <1>3, LeftIsLess, AllProfiles, Groups, FaultBudget DEF TypeOK

LEMMA InitGuess == Init => GuessInv
  <1> SUFFICES ASSUME Init PROVE GuessInv
    OBVIOUS
  <1>1. TypeOK
    BY InitType
  <1>2. Failing = {} /\ wrong = 0 /\ faults = 0
    BY DEF Init, Failing, At
  <1>3. Cardinality(Failing) = 0
    BY <1>2, FS_EmptySet
  <1>4. QED
    BY <1>1, <1>2, <1>3, GuessNumbers DEF GuessInv, All

\* The count restarts.
LEMMA Restarts ==
    ASSUME TypeOK', GuessInv, wrong' = 0,
           \A l \in Logins : login'[l] = login[l] \/ l \notin Failing'
    PROVE  GuessInv'
  <1>1. \A l \in Failing' : login'[l].until = 0 => login'[l].seen + 1 < THRESHOLD
    BY DEF GuessInv, Failing, At
  <1>2. QED
    BY <1>1, GuessNumbersNext DEF GuessInv, All

\* No login counts from less, and what is wrong is a failure to be written or a fault.
LEMMA GoesOn ==
    ASSUME TypeOK, TypeOK', GuessInv,
           \A l \in Logins : Level(l) <= Level(l)',
           wrong' + Cardinality(Failing) + faults <= wrong + Cardinality(Failing') + faults',
           \A l \in Failing' : login'[l].until = 0 => login'[l].seen + 1 < THRESHOLD
    PROVE  GuessInv'
  <1>1. PICK f \in [Logins -> Nat] : f = Levels /\ Left = LeftOf(ProfileOf(f))
    BY LeftIsOfLevels
  <1>2. PICK g \in [Logins -> Nat] : g = Levels' /\ Left' = LeftOf(ProfileOf(g))
    BY LeftIsOfLevelsNext
  <1>3. \A l \in Logins : f[l] <= g[l]
    BY <1>1, <1>2 DEF Levels
  <1>4. Cardinality(Left') <= Cardinality(Left)
    BY <1>1, <1>2, <1>3, ProfileSinks
  <1>5. QED
    BY <1>4, GuessNumbers, GuessNumbersNext DEF GuessInv, All

\* Neither the counter nor any login changes.
LEMMA Unconcerned ==
    ASSUME TypeOK, TypeOK', GuessInv, UNCHANGED <<user, login, wrong>>, faults <= faults'
    PROVE  GuessInv'
  <1>1. Failing' = Failing
    BY DEF Failing, At
  <1>2. \A l \in Logins : Level(l)' = Level(l)
    BY DEF Level, At
  <1>3. \A l \in Logins : Level(l) \in Nat
    BY DEF Level, At, TypeOK, Login, User
  <1>4. wrong \in Nat /\ faults \in Nat /\ faults' \in Nat /\ Cardinality(Failing) \in Nat
    BY GuessNumbers, GuessNumbersNext, FS_CardinalityType
  <1>5. \A l \in Failing' : login'[l].until = 0 => login'[l].seen + 1 < THRESHOLD
    BY <1>1 DEF GuessInv
  <1>6. QED
    BY <1>1, <1>2, <1>3, <1>4, <1>5, GoesOn

LEMMA LoginStepGuess ==
    ASSUME TypeOK, TypeOK', GuessInv, NEW l \in Logins, LoginStep(l)
    PROVE  GuessInv'
  <1>1. /\ login \in [Logins -> Login \cup {Null}] /\ login' \in [Logins -> Login \cup {Null}]
        /\ user.failedLoginAttempts \in Nat /\ user'.failedLoginAttempts \in Nat
        /\ THRESHOLD \in Nat \ {0} /\ LOCKOUT \in Nat \ {0} /\ now \in Nat
        /\ wrong \in Nat /\ faults \in Nat /\ Null \notin Login
    BY Durations, ThresholdIsPositive, FaultBudget, NullIsNoValue DEF TypeOK, User
  <1>2. \A k \in Logins \ {l} : login'[k] = login[k]
    BY <1>1 DEF LoginStep, BeginLogin, Verify, RecordFailure, RecordSuccess, CreateSession,
                LoginThrows
  <1>3. Failing' \ {l} = Failing \ {l}
    BY <1>2 DEF Failing, At
  <1>4. ASSUME NEW k \in Failing' \ {l}, login'[k].until = 0
        PROVE  login'[k].seen + 1 < THRESHOLD
    <2>1. k \in Failing /\ k \in Logins \ {l}
      BY <1>3 DEF Failing
    <2>2. QED
      BY <1>2, <1>4, <2>1 DEF GuessInv
  <1>5. \A k \in Logins : At(login, k, "erp") \/ At(login, k, "failed") => login[k].seen \in Nat
    BY <1>1 DEF At, Login
  <1>6. \A k \in Logins : Level(k) \in Nat /\ Level(k) <= user.failedLoginAttempts
    BY <1>1, <1>5 DEF Level
  <1>7. /\ IsFiniteSet(Failing) /\ Cardinality(Failing) \in Nat
        /\ IsFiniteSet(Failing') /\ Cardinality(Failing') \in Nat
    BY GuessNumbers, GuessNumbersNext, FS_CardinalityType
  \* Levels when the counter stays.
  <1>8. ASSUME UNCHANGED user, NEW k \in Logins \ {l}
        PROVE  Level(k)' = Level(k)
    BY <1>2, <1>8 DEF Level, At
  <1>9. ASSUME NEW guess \in Passwords, BeginLogin(l, guess)
        PROVE  GuessInv'
    <2>1. PICK o \in Login :
             o = [pc |-> "erp", guess |-> guess, seen |-> user.failedLoginAttempts, until |-> 0]
      BY <1>1 DEF Login
    <2>2. login'[l] = o /\ o.pc = "erp" /\ o.seen = user.failedLoginAttempts
      BY <1>1, <1>9, <2>1 DEF BeginLogin
    <2>3. At(login', l, "erp") /\ ~At(login', l, "failed") /\ login[l] = Null
      BY <1>1, <1>9, <2>2 DEF BeginLogin, At
    <2>4. Failing' = Failing
      BY <1>3, <2>3 DEF Failing, At
    <2>5. Level(l)' = user.failedLoginAttempts
      BY <1>9, <2>2 DEF Level, BeginLogin
    <2>6. \A k \in Logins : Level(k) <= Level(k)'
      BY <1>6, <1>8, <1>9, <2>5 DEF BeginLogin
    <2>7. wrong' = wrong /\ faults' = faults
      BY <1>9 DEF BeginLogin, history
    <2>8. \A k \in Failing' : login'[k].until = 0 => login'[k].seen + 1 < THRESHOLD
      BY <1>4, <2>3 DEF Failing, At
    <2>9. QED
      BY <1>1, <1>7, <2>4, <2>6, <2>7, <2>8, GoesOn
  <1>10. CASE Verify(l)
    <2>1. UNCHANGED user /\ At(login, l, "erp") /\ login[l] \in Login
      BY <1>1, <1>10 DEF Verify, At
    <2>2. CASE login' = [login EXCEPT ![l].pc = "verified", ![l].seen = 0] /\ UNCHANGED <<faults, wrong>>
      <3>1. login'[l].pc = "verified"
        BY <1>1, <2>1, <2>2 DEF Login
      <3>2. Failing' = Failing
        BY <1>3, <2>1, <3>1 DEF Failing, At
      <3>3. Level(l)' = user.failedLoginAttempts
        BY <2>1, <3>1 DEF Level, At
      <3>4. \A k \in Logins : Level(k) <= Level(k)'
        BY <1>6, <1>8, <2>1, <3>3
      <3>5. \A k \in Failing' : login'[k].until = 0 => login'[k].seen + 1 < THRESHOLD
        BY <1>4, <3>1 DEF Failing, At
      <3>6. wrong' + Cardinality(Failing) + faults <= wrong + Cardinality(Failing') + faults'
        BY <1>1, <1>7, <2>2, <3>2
      <3>7. QED
        BY <3>4, <3>5, <3>6, GoesOn
    <2>3. CASE /\ login' = [login EXCEPT ![l].pc = "failed", ![l].guess = Null, ![l].until = Until(l)]
               /\ wrong' + faults <= wrong + faults' + 1
      <3>1. PICK u \in Nat : u = Until(l) /\ (u = 0 => login[l].seen + 1 < THRESHOLD)
        BY <1>1, <1>5, <2>1 DEF Until
      <3>2. PICK o \in Login : o = [login[l] EXCEPT !.pc = "failed", !.guess = Null, !.until = u]
        BY <2>1, <3>1 DEF Login
      <3>3. login' = [login EXCEPT ![l] = o]
        BY <1>1, <2>3, <3>1, <3>2
      <3>4. o.pc = "failed" /\ o.seen = login[l].seen /\ o.until = u
        BY <2>1, <3>2 DEF Login
      <3>5. login'[l] = o /\ At(login', l, "failed")
        BY <1>1, <3>3, <3>4 DEF At
      <3>6. Failing' = Failing \cup {l} /\ l \notin Failing
        BY <1>3, <2>1, <3>5 DEF Failing, At
      <3>7. Cardinality(Failing') = Cardinality(Failing) + 1
        BY <1>7, <3>6, FS_AddElement
      <3>8. Level(l)' = Level(l)
        BY <2>1, <3>4, <3>5 DEF Level
      <3>9. \A k \in Logins : Level(k) <= Level(k)'
        BY <1>6, <1>8, <2>1, <3>8
      <3>10. \A k \in Failing' : login'[k].until = 0 => login'[k].seen + 1 < THRESHOLD
        BY <1>4, <3>1, <3>4, <3>5
      <3>11. wrong' \in Nat /\ faults' \in Nat
        BY GuessNumbersNext
      <3>12. wrong' + Cardinality(Failing) + faults <= wrong + Cardinality(Failing') + faults'
        BY <1>1, <1>7, <2>3, <3>7, <3>11
      <3>13. QED
        BY <3>9, <3>10, <3>12, GoesOn
    <2>4. QED
      BY <1>1, <1>10, <2>2, <2>3 DEF Verify, Fault
  <1>11. CASE RecordFailure(l)
    <2>1. /\ l \in Failing /\ login[l] \in Login /\ login'[l] = Null
          /\ user'.failedLoginAttempts = login[l].seen + 1 /\ faults' = faults
          /\ wrong' = IF login[l].until > 0 THEN 0 ELSE wrong
      BY <1>1, <1>11 DEF RecordFailure, Failing, At
    <2>2. login[l].seen \in Nat /\ login[l].until \in Nat
      BY <2>1 DEF Login
    <2>3. l \notin Failing'
      BY <2>1 DEF Failing, At
    <2>4. CASE login[l].until > 0
      BY <1>2, <2>1, <2>3, <2>4, Restarts
    <2>5. CASE login[l].until = 0
      <3>1. login[l].seen + 1 < THRESHOLD /\ wrong' = wrong
        BY <2>1, <2>5 DEF GuessInv
      <3>2. Failing' = Failing \ {l}
        BY <1>3, <2>1, <2>3
      <3>3. Cardinality(Failing') = Cardinality(Failing) - 1
        BY <1>7, <2>1, <3>2, FS_RemoveElement
      <3>4. PICK f \in [Logins -> Nat] : f = Levels /\ Left = LeftOf(ProfileOf(f))
        BY LeftIsOfLevels
      <3>5. PICK g \in [Logins -> Nat] : g = Levels' /\ Left' = LeftOf(ProfileOf(g))
        BY LeftIsOfLevelsNext
      <3>6. f[l] <= login[l].seen /\ g[l] = login[l].seen + 1
        <4>1. f[l] <= login[l].seen
          BY <1>1, <2>1, <2>2, <3>4 DEF Levels, Level, Failing
        <4>2. g[l] = user'.failedLoginAttempts
          BY <2>1, <3>5 DEF Levels, Level, At
        <4>3. QED
          BY <2>1, <4>1, <4>2
      <3>7. ASSUME NEW k \in Logins
            PROVE  f[k] <= g[k] \/ f[l] < g[k]
        <4>1. CASE k = l
          BY <2>2, <3>6, <4>1
        <4>2. CASE k # l /\ g[k] = user'.failedLoginAttempts
          BY <2>1, <2>2, <3>6, <4>2
        <4>3. CASE k # l /\ g[k] # user'.failedLoginAttempts
          <5>1. /\ At(login', k, "erp") \/ At(login', k, "failed")
                /\ g[k] = login'[k].seen
            BY <3>5, <4>3 DEF Levels, Level, At
          <5>2. /\ At(login, k, "erp") \/ At(login, k, "failed")
                /\ g[k] = login[k].seen
            BY <1>2, <4>3, <5>1 DEF At
          <5>3. f[k] <= login[k].seen
            BY <1>1, <1>5, <3>4, <5>2 DEF Levels, Level
          <5>4. QED
            BY <5>2, <5>3
        <4>4. QED
          BY <4>1, <4>2, <4>3
      <3>8. f[l] <= THRESHOLD - 2 /\ f[l] < g[l]
        BY <1>1, <2>2, <3>1, <3>6
      <3>9. Cardinality(Left') < Cardinality(Left)
        BY <3>4, <3>5, <3>7, <3>8, ProfileFalls
      <3>10. \A k \in Failing' : login'[k].until = 0 => login'[k].seen + 1 < THRESHOLD
        BY <1>4, <2>3
      <3>11. QED
        BY <1>1, <1>7, <2>1, <3>1, <3>3, <3>9, <3>10, GuessNumbers, GuessNumbersNext
           DEF GuessInv, All
    <2>6. QED
      BY <2>2, <2>4, <2>5
  <1>12. CASE RecordSuccess(l)
    <2>1. wrong' = 0 /\ login'[l].pc = "session"
      BY <1>1, <1>12 DEF RecordSuccess, At, Login
    <2>2. l \notin Failing'
      BY <2>1 DEF Failing, At
    <2>3. QED
      BY <1>2, <2>1, <2>2, Restarts
  \* A login that is over counts from the counter.
  <1>13. ASSUME UNCHANGED <<user, wrong>>, login'[l] = Null,
                l \in Failing => faults' = faults + 1, faults' \in {faults, faults + 1}
         PROVE  GuessInv'
    <2>1. l \notin Failing' /\ Failing' = Failing \ {l}
      BY <1>3, <1>13 DEF Failing, At
    <2>2. IF l \in Failing THEN Cardinality(Failing') = Cardinality(Failing) - 1
                           ELSE Cardinality(Failing') = Cardinality(Failing)
      <3>1. CASE l \in Failing
        BY <1>7, <2>1, <3>1, FS_RemoveElement
      <3>2. CASE l \notin Failing
        <4>1. Failing' = Failing
          BY <2>1, <3>2
        <4>2. QED
          BY <3>2, <4>1
      <3>3. QED
        BY <3>1, <3>2
    <2>3. wrong' + Cardinality(Failing) + faults <= wrong + Cardinality(Failing') + faults'
      BY <1>1, <1>7, <1>13, <2>2
    <2>4. Level(l)' = user.failedLoginAttempts
      BY <1>13 DEF Level, At
    <2>5. \A k \in Logins : Level(k) <= Level(k)'
      BY <1>6, <1>8, <1>13, <2>4
    <2>6. \A k \in Failing' : login'[k].until = 0 => login'[k].seen + 1 < THRESHOLD
      BY <1>4, <2>1
    <2>7. QED
      BY <2>3, <2>5, <2>6, GoesOn
  <1>14. CASE CreateSession(l)
    <2>1. login'[l] = Null /\ l \notin Failing
      BY <1>1, <1>14 DEF CreateSession, Failing, At
    <2>2. QED
      BY <1>13, <1>14, <2>1 DEF CreateSession, history
  <1>15. CASE LoginThrows(l)
    <2>1. login'[l] = Null
      BY <1>1, <1>15 DEF LoginThrows
    <2>2. QED
      BY <1>13, <1>15, <2>1 DEF LoginThrows, Fault, history
  <1>16. QED
    BY <1>9, <1>10, <1>11, <1>12, <1>14, <1>15 DEF LoginStep

LEMMA NextGuess == TypeOK /\ TypeOK' /\ GuessInv /\ [Next]_vars => GuessInv'
  <1> SUFFICES ASSUME TypeOK, TypeOK', GuessInv, [Next]_vars PROVE GuessInv'
    OBVIOUS
  <1>1. faults \in Nat /\ faults' \in Nat
    BY GuessNumbers, GuessNumbersNext
  <1>2. ASSUME NEW s \in Sessions, EndSession(s)
        PROVE  GuessInv'
    BY <1>1, <1>2, Unconcerned DEF EndSession, procs, history
  <1>3. ASSUME NEW q \in Requests, Invalidate(q) \/ CreateToken(q)
        PROVE  GuessInv'
    BY <1>1, <1>3, Unconcerned DEF Invalidate, CreateToken, Fault, history
  <1>4. ASSUME NEW a \in Applies, NEW t \in Tokens, NEW new \in Passwords, BeginApply(a, t, new)
        PROVE  GuessInv'
    BY <1>1, <1>4, Unconcerned DEF BeginApply, history
  <1>5. ASSUME NEW a \in Applies, ApplyErp(a)
        PROVE  GuessInv'
    BY <1>1, <1>5, Unconcerned DEF ApplyErp, Fault
  <1>6. ASSUME NEW a \in Applies, Commit(a)
        PROVE  GuessInv'
    <2>1. CASE wrong' = 0
      BY <1>6, <2>1, Restarts DEF Commit
    <2>2. CASE wrong' # 0
      BY <1>1, <1>6, <2>2, Unconcerned DEF Commit, Fault
    <2>3. QED
      BY <2>1, <2>2
  <1>l. ASSUME NEW a \in Applies, ApplyLate(a)
        PROVE  GuessInv'
    BY <1>1, <1>l, Unconcerned DEF ApplyLate
  <1>7. CASE ResetStep
    BY <1>3, <1>4, <1>5, <1>6, <1>7, <1>l DEF ResetStep
  <1>8. ASSUME NEW c \in Changes, ChangeStep(c)
        PROVE  GuessInv'
    BY <1>1, <1>8, Unconcerned DEF ChangeStep, BeginChange, ChangeErp, ChangeCommit, ChangeLate, Fault, history
  <1>9. CASE Tick \/ UNCHANGED vars
    BY <1>1, <1>9, Unconcerned DEF Tick, vars, procs, history
  <1>10. QED
    BY <1>2, <1>7, <1>8, <1>9, LoginStepGuess DEF Next

\* For any number of concurrent logins and any threshold, the wrong passwords tried before a lock
\* are at most the logins and the profiles there are, and one more for each fault.
THEOREM GuessesAreBounded == Spec => []GuessesBounded
  <1>1. TypeOK /\ GuessInv => GuessesBounded
    <2> SUFFICES ASSUME TypeOK, GuessInv PROVE GuessesBounded
      OBVIOUS
    <2>1. Cardinality(Failing) <= Cardinality(Logins) /\ Cardinality(Failing) \in Nat
      BY GuessNumbers, AllProfiles
    <2>2. QED
      BY <2>1, GuessNumbers, AllProfiles DEF GuessInv, GuessesBounded, All
  <1>2. Init => GuessInv
    BY InitGuess
  <1>3. TypeOK /\ TypeOK' /\ GuessInv /\ [Next]_vars => GuessInv'
    BY NextGuess
  <1>4. QED
    BY <1>1, <1>2, <1>3, CredentialsTyped, PTL DEF Spec

=============================================================================
