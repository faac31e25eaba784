----------------------------- MODULE AccountsProofs -----------------------------
(* Theorems about Accounts: typing, the owner who stays until a deletion,   *)
(* and the deleted account that stays empty, for any number of concurrent   *)
(* signups, notifications, logins, invites and acceptances.                 *)
EXTENDS Accounts, FiniteSetTheorems, TLAPS

-----------------------------------------------------------------------------
(* Typing *)

LEMMA InitType == Init => TypeOK
  BY OwnerHasEmail, FaultBudget DEF Init, TypeOK, Status, Present

LEMMA FaultType == TypeOK /\ Fault => faults' \in 0..MaxFaults
  BY FaultBudget DEF TypeOK, Fault

\* An invite that is closed, or moved on, is still an invite.
LEMMA InviteMoves ==
    ASSUME TypeOK
    PROVE  \A t \in Invites, st \in {"unsent", "sent", "used", "expired", "gone"} :
             invite[t] # Null => /\ [invite[t] EXCEPT !.state = st] \in InviteRow
                                 /\ [invite[t] EXCEPT !.state = st] # Null
  <1>1. \A t \in Invites, st \in {"unsent", "sent", "used", "expired", "gone"} :
          invite[t] # Null => [invite[t] EXCEPT !.state = st] \in InviteRow
    BY DEF TypeOK, InviteRow
  <1>2. QED
    BY <1>1, NullIsNoValue

LEMMA SignupStepType ==
    ASSUME TypeOK, NEW p \in Signups, SignupStep(p)
    PROVE  TypeOK'
  <1> USE DEF TypeOK, people, billing, teamProcs
  <1>1. CASE BeginSignup(p)
    BY <1>1 DEF BeginSignup
  <1>2. CASE CommitSignup(p)
    <2>1. account' \in [Accounts -> Status]
      BY <1>2 DEF CommitSignup, Status, Present
    <2>2. user' \in [Accounts -> [Emails -> Roles \cup {Null}]] /\ anonymised' \in SUBSET Accounts
      BY <1>2 DEF CommitSignup
    <2>3. /\ invite' \in [Invites -> InviteRow \cup {Null}]
          /\ \A t \in Invites : invite[t] # Null => invite'[t] # Null
      BY <1>2, InviteMoves, NullIsNoValue DEF CommitSignup
    <2>4. \A i \in Invitations : invitation[i] # Null /\ invitation[i].pc = "mail"
                                    => invitation[i].invite \in Invites
      BY DEF Invitation
    <2>5. QED
      BY <1>2, <2>1, <2>2, <2>3, <2>4 DEF CommitSignup
  <1>3. CASE SignupFails(p)
    BY <1>3, FaultType DEF SignupFails
  <1>4. QED
    BY <1>1, <1>2, <1>3 DEF SignupStep

LEMMA PaymentStepType ==
    ASSUME TypeOK,
           \/ \E r \in Orders, payment \in Payment : Pay(r, payment)
           \/ \E d \in Deliveries : DeliveryStep(d)
           \/ \E r \in Orders : LoseAck(r) \/ LoseKey(r)
    PROVE  TypeOK'
  <1> USE DEF TypeOK, people, billing, teamProcs
  <1>0. \A d \in Deliveries : delivery[d] # Null => delivery[d].order \in Orders
    BY DEF Delivery
  <1>1. ASSUME NEW r \in Orders, NEW payment \in Payment, Pay(r, payment)
        PROVE  TypeOK'
    BY <1>0, <1>1, NullIsNoValue DEF Pay
  <1>2. ASSUME NEW d \in Deliveries, NEW r \in Orders, Deliver(d, r)
        PROVE  TypeOK'
    <2>1. [pc |-> "key", order |-> r] \in Delivery
      BY DEF Delivery
    <2>2. QED
      BY <1>2, <2>1 DEF Deliver
  <1>3. ASSUME NEW d \in Deliveries, ClaimKey(d) \/ Resend(d)
        PROVE  TypeOK'
    <2>1. /\ delivery[d] \in Delivery
          /\ \A pc \in {"mark", "resend"} :
               /\ [delivery[d] EXCEPT !.pc = pc] \in Delivery
               /\ [delivery[d] EXCEPT !.pc = pc].order = delivery[d].order
      BY <1>3 DEF ClaimKey, Resend, DeliveryAt, Delivery
    <2>2. Proceed(d, "mark") \/ Proceed(d, "resend") \/ EndDelivery(d)
      BY <1>3 DEF ClaimKey, Resend, SetKey, PassKey, Answer200
    <2>3. paid' = paid
      BY <1>3 DEF ClaimKey, Resend
    <2>4. /\ delivery' \in [Deliveries -> Delivery \cup {Null}]
          /\ \A c \in Deliveries : delivery'[c] # Null => paid'[delivery'[c].order] # Null
      <3>1. \/ delivery'[d] = Null
            \/ /\ delivery'[d] \in Delivery
               /\ delivery'[d].order = delivery[d].order
        BY <2>1, <2>2 DEF Proceed, EndDelivery
      <3>2. \A c \in Deliveries \ {d} : delivery'[c] = delivery[c]
        BY <2>2 DEF Proceed, EndDelivery
      <3>3. delivery' \in [Deliveries -> Delivery \cup {Null}]
        BY <2>1, <2>2 DEF Proceed, EndDelivery
      <3>4. paid[delivery[d].order] # Null
        BY <1>3 DEF ClaimKey, Resend, DeliveryAt
      <3>5. QED
        BY <2>3, <3>1, <3>2, <3>3, <3>4
    <2>5. delivery[d] # Null /\ delivery[d].order \in Orders
      BY <1>0, <1>3 DEF ClaimKey, Resend, DeliveryAt
    <2>6. /\ keys' = keys \/ keys' = keys \cup {delivery[d].order}
          /\ acked' = acked \/ acked' = acked \cup {delivery[d].order}
          /\ dropped' = dropped \/ dropped' = dropped \cup {delivery[d].order}
          /\ Fault \/ UNCHANGED faults
      BY <1>3 DEF ClaimKey, Resend, SetKey, PassKey, Answer200, SetUnheard
    <2>7. /\ keys' \in SUBSET Orders /\ acked' \in SUBSET Orders /\ dropped' \in SUBSET Orders
          /\ faults' \in 0..MaxFaults
      BY <2>5, <2>6, FaultType
    <2>8. QED
      BY <1>3, <2>3, <2>4, <2>7 DEF ClaimKey, Resend
  <1>4. ASSUME NEW d \in Deliveries, Mark(d)
        PROVE  TypeOK'
    <2>1. /\ delivery[d] # Null /\ delivery[d].order \in Orders
          /\ delivery' = [delivery EXCEPT ![d] = Null]
          /\ acked' = acked \cup {delivery[d].order}
      BY <1>0, <1>4 DEF Mark, Answer200, DeliveryAt, EndDelivery
    <2>2. account' \in [Accounts -> Status] /\ crossed' \in SUBSET Accounts
      <3>1. CASE UNCHANGED <<account, crossed>>
        BY <3>1
      <3>2. ASSUME NEW a \in Current, account' = [account EXCEPT ![a] = "active"],
                   crossed' = crossed \/ crossed' = crossed \cup {a}
            PROVE  account' \in [Accounts -> Status] /\ crossed' \in SUBSET Accounts
        BY <3>2 DEF Current, Status, Present
      <3>3. \/ UNCHANGED <<account, crossed>>
            \/ LET a == paid[delivery[d].order].account IN
               /\ a \in Current
               /\ account' = [account EXCEPT ![a] = "active"]
               /\ crossed' = crossed \/ crossed' = crossed \cup {a}
        BY <1>4 DEF Mark
      <3>4. QED
        BY <3>1, <3>2, <3>3
    <2>3. recorded' \in [Orders -> Nat] /\ dropped' \in SUBSET Orders
      <3>1. \/ recorded' = recorded
            \/ recorded' = [recorded EXCEPT ![delivery[d].order] = recorded[delivery[d].order] + 1]
        BY <1>4 DEF Mark
      <3>2. dropped' = dropped \/ dropped' = dropped \cup {delivery[d].order}
        BY <1>4 DEF Mark
      <3>3. recorded' \in [Orders -> Nat]
        BY <2>1, <3>1
      <3>4. QED
        BY <2>1, <3>2, <3>3
    <2>4. QED
      BY <1>4, <2>1, <2>2, <2>3 DEF Mark
  <1>5. ASSUME NEW d \in Deliveries, MarkFails(d)
        PROVE  TypeOK'
    BY <1>0, <1>5, FaultType DEF MarkFails, DeliveryAt, EndDelivery
  <1>6. ASSUME NEW r \in Orders, LoseAck(r) \/ LoseKey(r)
        PROVE  TypeOK'
    BY <1>6, FaultType DEF LoseAck, LoseKey
  <1>7. QED
    BY <1>1, <1>2, <1>3, <1>4, <1>5, <1>6 DEF DeliveryStep

LEMMA LoginStepType ==
    ASSUME TypeOK, NEW l \in Logins,
           (\E a \in Accounts : BeginLogin(l, a)) \/ CreateOwner(l)
    PROVE  TypeOK'
  <1> USE DEF TypeOK, people, billing, teamProcs
  <1>1. ASSUME NEW a \in Accounts, BeginLogin(l, a)
        PROVE  TypeOK'
    BY <1>1 DEF BeginLogin
  <1>2. CASE CreateOwner(l)
    <2>1. login[l] \in Accounts
      BY <1>2 DEF CreateOwner
    <2>2. user' \in [Accounts -> [Emails -> Roles \cup {Null}]]
      BY <1>2, <2>1, OwnerHasEmail DEF CreateOwner, Roles
    <2>3. faults' \in 0..MaxFaults
      BY <1>2, FaultType DEF CreateOwner
    <2>4. QED
      BY <1>2, <2>2, <2>3 DEF CreateOwner
  <1>3. QED
    BY <1>1, <1>2

LEMMA InvitationStepType ==
    ASSUME TypeOK,
           (\E i \in Invitations : InvitationStep(i)) \/ (\E t \in Invites : Expire(t))
    PROVE  TypeOK'
  <1> USE DEF TypeOK, people, billing, teamProcs
  <1>0. \A i \in Invitations : invitation[i] # Null /\ invitation[i].pc = "mail"
                                  => invitation[i].invite \in Invites
    BY DEF Invitation
  <1>1. ASSUME NEW i \in Invitations, NEW a \in Accounts, NEW e \in Emails,
               NEW role \in {"admin", "member"}, Authorise(i, a, e, role)
        PROVE  TypeOK'
    <2>1. [pc |-> "check", account |-> a, email |-> e, role |-> role] \in Invitation
      BY DEF Invitation
    <2>2. QED
      BY <1>1, <2>1 DEF Authorise
  <1>2. ASSUME NEW i \in Invitations, CheckInvitee(i)
        PROVE  TypeOK'
    <2>1. [invitation[i] EXCEPT !.pc = "commit"] \in Invitation
      <3>1. invitation[i] \in Invitation /\ invitation[i].pc = "check"
        BY <1>2 DEF CheckInvitee, InvitationAt
      <3>2. QED
        BY <3>1 DEF Invitation
    <2>2. QED
      <3>1. [invitation[i] EXCEPT !.pc = "commit"].pc = "commit"
        BY <1>2 DEF CheckInvitee, InvitationAt, Invitation
      <3>2. QED
        BY <1>0, <1>2, <2>1, <3>1 DEF CheckInvitee, EndInvitation
  <1>3. ASSUME NEW i \in Invitations, CommitInvite(i)
        PROVE  TypeOK'
    <2>1. /\ invitation[i].account \in Accounts
          /\ invitation[i].email \in Emails
          /\ invitation[i].role \in {"admin", "member"}
      BY <1>3 DEF CommitInvite, InvitationAt, Invitation
    <2>2. [account |-> invitation[i].account, email |-> invitation[i].email,
           role |-> invitation[i].role, state |-> "unsent"] \in InviteRow
      BY <2>1 DEF InviteRow
    <2>3. \A t \in Invites : [pc |-> "mail", invite |-> t] \in Invitation
      BY DEF Invitation
    <2>4. /\ invite' \in [Invites -> InviteRow \cup {Null}]
          /\ \A t \in Invites : invite[t] # Null => invite'[t] # Null
      BY <1>3, <2>2, NullIsNoValue DEF CommitInvite
    <2>5. CASE \E t \in Invites :
                 /\ invite' = [invite EXCEPT ![t] =
                        [account |-> invitation[i].account, email |-> invitation[i].email,
                         role |-> invitation[i].role, state |-> "unsent"]]
                 /\ invitation' = [invitation EXCEPT ![i] = [pc |-> "mail", invite |-> t]]
                 /\ UNCHANGED faults
      <3>1. PICK t \in Invites :
                 /\ invite' = [invite EXCEPT ![t] =
                        [account |-> invitation[i].account, email |-> invitation[i].email,
                         role |-> invitation[i].role, state |-> "unsent"]]
                 /\ invitation' = [invitation EXCEPT ![i] = [pc |-> "mail", invite |-> t]]
                 /\ UNCHANGED faults
        BY <2>5
      <3>2. invite'[t] # Null
        BY <2>2, <3>1, NullIsNoValue
      <3>3. QED
        BY <1>0, <1>3, <2>3, <2>4, <3>1, <3>2 DEF CommitInvite
    <2>6. CASE EndInvitation(i) /\ UNCHANGED invite /\ (UNCHANGED faults \/ Fault)
      BY <1>3, <2>6, FaultType DEF CommitInvite, EndInvitation
    <2>7. QED
      BY <1>3, <2>5, <2>6 DEF CommitInvite
  <1>4. ASSUME NEW i \in Invitations, MailInvite(i)
        PROVE  TypeOK'
    <2>1. invitation[i].invite \in Invites /\ invite[invitation[i].invite] \in InviteRow
      BY <1>0, <1>4 DEF MailInvite, InvitationAt
    <2>2. /\ invite' \in [Invites -> InviteRow \cup {Null}]
          /\ \A t \in Invites : invite[t] # Null => invite'[t] # Null
      <3>1. \/ invite' = invite
            \/ \E st \in {"sent", "gone"} :
                 invite' = [invite EXCEPT ![invitation[i].invite].state = st]
        BY <1>4 DEF MailInvite
      <3>2. invite[invitation[i].invite] # Null
        BY <2>1, NullIsNoValue
      <3>3. CASE invite' = invite
        BY <3>3
      <3>4. ASSUME NEW st \in {"sent", "gone"},
                   invite' = [invite EXCEPT ![invitation[i].invite].state = st]
            PROVE  /\ invite' \in [Invites -> InviteRow \cup {Null}]
                   /\ \A t \in Invites : invite[t] # Null => invite'[t] # Null
        BY <2>1, <3>2, <3>4, InviteMoves
      <3>5. QED
        BY <3>1, <3>3, <3>4
    <2>3. faults' \in 0..MaxFaults
      BY <1>4, FaultType DEF MailInvite
    <2>4. QED
      BY <1>0, <1>4, <2>2, <2>3 DEF MailInvite, EndInvitation
  <1>5. ASSUME NEW t \in Invites, Expire(t)
        PROVE  TypeOK'
    <2>1. /\ invite' \in [Invites -> InviteRow \cup {Null}]
          /\ \A u \in Invites : invite[u] # Null => invite'[u] # Null
      BY <1>5, InviteMoves, NullIsNoValue DEF Expire
    <2>2. QED
      BY <1>0, <1>5, <2>1 DEF Expire
  <1>6. QED
    BY <1>1, <1>2, <1>3, <1>4, <1>5 DEF InvitationStep

LEMMA AcceptStepType ==
    ASSUME TypeOK, NEW x \in Acceptances,
           (\E t \in Invites : BeginAccept(x, t)) \/ CommitAccept(x)
    PROVE  TypeOK'
  <1> USE DEF TypeOK, people, billing, teamProcs
  <1>1. ASSUME NEW t \in Invites, BeginAccept(x, t)
        PROVE  TypeOK'
    BY <1>1 DEF BeginAccept
  <1>2. CASE CommitAccept(x)
    <2>1. acceptance[x] \in Invites /\ invite[acceptance[x]] \in InviteRow
      BY <1>2 DEF CommitAccept
    <2>2. /\ invite' \in [Invites -> InviteRow \cup {Null}]
          /\ \A t \in Invites : invite[t] # Null => invite'[t] # Null
      <3>1. \/ invite' = invite
            \/ invite' = [invite EXCEPT ![acceptance[x]].state = "used"]
        BY <1>2 DEF CommitAccept
      <3>2. invite[acceptance[x]] # Null
        BY <2>1, NullIsNoValue
      <3>3. QED
        BY <2>1, <3>1, <3>2, InviteMoves
    <2>3. user' \in [Accounts -> [Emails -> Roles \cup {Null}]]
      <3>1. /\ invite[acceptance[x]].account \in Accounts
            /\ invite[acceptance[x]].email \in Emails
            /\ invite[acceptance[x]].role \in Roles
        BY <2>1 DEF InviteRow, Roles
      <3>2. "owner" \in Roles
        BY DEF Roles
      <3>3. \/ user' = user
            \/ \E role \in Roles : user' = [user EXCEPT ![invite[acceptance[x]].account]
                                                    [invite[acceptance[x]].email] = role]
        BY <1>2, <3>1, <3>2 DEF CommitAccept
      <3>4. ASSUME NEW a \in Accounts, NEW e \in Emails, NEW role \in Roles,
                   user' = [user EXCEPT ![a][e] = role]
            PROVE  user' \in [Accounts -> [Emails -> Roles \cup {Null}]]
        <4>1. [user[a] EXCEPT ![e] = role] \in [Emails -> Roles \cup {Null}]
          OBVIOUS
        <4>2. QED
          BY <3>4, <4>1
      <3>5. QED
        BY <3>1, <3>3, <3>4
    <2>4. faults' \in 0..MaxFaults
      BY <1>2, FaultType DEF CommitAccept
    <2>5. \A i \in Invitations : invitation[i] # Null /\ invitation[i].pc = "mail"
                                    => invitation[i].invite \in Invites
      BY DEF Invitation
    <2>6. QED
      BY <1>2, <2>2, <2>3, <2>4, <2>5 DEF CommitAccept
  <1>3. QED
    BY <1>1, <1>2

LEMMA DeleteStepType ==
    ASSUME TypeOK, (\E a \in Accounts : BeginDelete(a)) \/ CommitDelete \/ DeleteFails
    PROVE  TypeOK'
  <1> USE DEF TypeOK, people, billing, teamProcs
  <1>1. ASSUME NEW a \in Accounts, BeginDelete(a)
        PROVE  TypeOK'
    BY <1>1 DEF BeginDelete, Closing, Users
  <1>2. CASE CommitDelete
    <2>1. closing.account \in Accounts
      BY <1>2 DEF CommitDelete, Closing
    <2>2. /\ invite' \in [Invites -> InviteRow \cup {Null}]
          /\ \A t \in Invites : invite[t] # Null => invite'[t] # Null
      BY <1>2, InviteMoves, NullIsNoValue DEF CommitDelete
    <2>3. user' \in [Accounts -> [Emails -> Roles \cup {Null}]]
      BY <1>2, <2>1 DEF CommitDelete
    <2>4. account' \in [Accounts -> Status]
      BY <1>2, <2>1 DEF CommitDelete, Status, Present
    <2>5. \A i \in Invitations : invitation[i] # Null /\ invitation[i].pc = "mail"
                                    => invitation[i].invite \in Invites
      BY DEF Invitation
    <2>6. QED
      BY <1>2, <2>1, <2>2, <2>3, <2>4, <2>5 DEF CommitDelete
  <1>3. CASE DeleteFails
    BY <1>3, FaultType DEF DeleteFails
  <1>4. QED
    BY <1>1, <1>2, <1>3

LEMMA NextType == TypeOK /\ [Next]_vars => TypeOK'
  <1> SUFFICES ASSUME TypeOK, [Next]_vars PROVE TypeOK'
    OBVIOUS
  <1>1. CASE UNCHANGED vars
    BY <1>1 DEF TypeOK, vars, people, billing, teamProcs
  <1>2. CASE Next
    BY <1>2, SignupStepType, PaymentStepType, LoginStepType, InvitationStepType,
       AcceptStepType, DeleteStepType DEF Next
  <1>3. QED
    BY <1>1, <1>2

\* Every variable keeps its type: no status, role or invite state but those of the code, and
\* no process refers to a payment or an invite that does not exist.
THEOREM AccountsTyped == Spec => []TypeOK
  <1>1. QED
    BY InitType, NextType, PTL DEF Spec

-----------------------------------------------------------------------------
(* The owner stays, and a deleted account stays empty *)

invVars == <<account, people, login, invitation, late>>

LEMMA InitInv == Init => AccountInv
  BY NullIsNoValue DEF Init, AccountInv, RowsInv, OwnerInv, VacatedInv, HasUsers, Users, Standing,
     Asking, InvitationAt

\* The steps that only read what the invariant speaks of.
LEMMA FrameInv ==
    ASSUME AccountInv, UNCHANGED invVars
    PROVE  AccountInv'
  BY DEF invVars, people, AccountInv, RowsInv, OwnerInv, VacatedInv, HasUsers, Users, Current,
     Standing, Asking, InvitationAt

\* A replaced account loses its users and invites with its row, and the new one has none.
LEMMA CommitSignupInv ==
    ASSUME TypeOK, AccountInv, NEW p \in Signups, CommitSignup(p)
    PROVE  AccountInv'
  <1> USE DEF AccountInv, HasUsers, Users, Standing, Asking, InvitationAt, teamProcs
  <1>1. PICK b \in Accounts :
          /\ account[b] = "new"
          /\ account' = [a \in Accounts |-> IF a = b THEN "pending"
                             ELSE IF a \in Current THEN "replaced" ELSE account[a]]
    BY DEF CommitSignup
  <1>2. b \notin Current /\ Current' = {b}
    BY <1>1 DEF Current, Present
  <1>3. \A a \in Accounts : Users(a)' = {} /\ a \notin anonymised'
    BY DEF CommitSignup, RowsInv, TypeOK
  <1>4. \A t \in Invites : ~Standing(t)'
    <2>1. ASSUME NEW t \in Invites, invite[t] # Null
          PROVE  [invite[t] EXCEPT !.state = "gone"].state = "gone"
      BY <2>1 DEF TypeOK, InviteRow
    <2>2. QED
      BY <2>1 DEF CommitSignup, RowsInv, TypeOK
  <1>5. \A i \in Invitations : Asking(i) => /\ invitation'[i] = invitation[i]
                                            /\ invitation[i].account \in Accounts \ {b}
    BY <1>1 DEF CommitSignup, RowsInv, TypeOK, Invitation
  <1>6. RowsInv'
    BY <1>1, <1>2, <1>3, <1>4, <1>5 DEF RowsInv, CommitSignup, Current, Present
  <1>7. OwnerInv'
    BY <1>2, <1>3, <1>4, <1>5 DEF OwnerInv, CommitSignup
  <1>8. VacatedInv'
    BY <1>3, <1>4 DEF VacatedInv, CommitSignup, TypeOK, Invitation
  <1>9. QED
    BY <1>6, <1>7, <1>8

LEMMA MarkInv ==
    ASSUME TypeOK, AccountInv, NEW d \in Deliveries, Mark(d)
    PROVE  AccountInv'
  <1> USE DEF AccountInv, HasUsers, Users, Standing, Asking, InvitationAt, people, teamProcs
  <1>1. Current' = Current /\ \A a \in Accounts : account[a] # "new" => account'[a] # "new"
    BY DEF Mark, Current, Present, TypeOK
  <1>2. UNCHANGED <<people, login, invitation, late>>
    BY DEF Mark
  <1>3. \A i \in Invitations : Asking(i) => invitation[i].account \in Accounts
    BY DEF TypeOK, Invitation
  <1>4. RowsInv'
    BY <1>1, <1>2, <1>3 DEF RowsInv
  <1>5. OwnerInv' /\ VacatedInv'
    BY <1>1, <1>2 DEF OwnerInv, VacatedInv
  <1>6. QED
    BY <1>4, <1>5

LEMMA LoginInv ==
    ASSUME TypeOK, AccountInv, NEW l \in Logins,
           (\E a \in Accounts : BeginLogin(l, a)) \/ CreateOwner(l)
    PROVE  AccountInv'
  <1> USE DEF AccountInv, Standing, Asking, InvitationAt, people
  <1>1. ASSUME NEW a \in Accounts, BeginLogin(l, a)
        PROVE  AccountInv'
    BY <1>1 DEF BeginLogin, RowsInv, OwnerInv, VacatedInv, TypeOK, HasUsers, Users, Current
  <1>2. CASE CreateOwner(l) /\ user' = user
    BY <1>2, NullIsNoValue DEF CreateOwner, RowsInv, OwnerInv, VacatedInv, TypeOK, HasUsers, Users,
       Current
  <1>3. CASE CreateOwner(l) /\ user' # user
    <2>0. PICK a \in Accounts : a = login[l]
      BY <1>3 DEF CreateOwner, TypeOK
    <2>1. /\ a \in Accounts /\ a \in Current
          /\ user' = [user EXCEPT ![a][OwnerEmail] = "owner"]
          /\ login' = [login EXCEPT ![l] = Null]
      BY <1>3, <2>0 DEF CreateOwner
    <2>2. UNCHANGED <<account, anonymised, invite, invitation, late>>
      BY <1>3 DEF CreateOwner
    <2>3. /\ OwnerEmail \in Users(a)' /\ user'[a][OwnerEmail] = "owner"
          /\ \A c \in Accounts \ {a} : Users(c)' = Users(c) /\ user'[c] = user[c]
      <3>1. user'[a] = [user[a] EXCEPT ![OwnerEmail] = "owner"]
        BY <2>1 DEF TypeOK
      <3>2. user'[a][OwnerEmail] = "owner"
        BY <2>1, <3>1, OwnerHasEmail DEF TypeOK
      <3>3. "owner" # Null
        BY NullIsNoValue DEF Roles
      <3>4. \A c \in Accounts \ {a} : user'[c] = user[c]
        BY <2>1 DEF TypeOK
      <3>5. QED
        BY <3>2, <3>3, <3>4, OwnerHasEmail DEF Users
    <2>4. RowsInv'
      BY <2>1, <2>2, <2>3 DEF RowsInv, HasUsers, Current
    <2>5. /\ \A t \in Invites : Standing(t) => invite[t].account \in Accounts
          /\ \A i \in Invitations : Asking(i) => invitation[i].account \in Accounts
      BY DEF TypeOK, InviteRow, Invitation
    <2>6. OwnerInv'
      BY <2>1, <2>2, <2>3, <2>5 DEF OwnerInv, Current
    <2>7. VacatedInv'
      BY <2>0, <2>1, <2>2, <2>3, NullIsNoValue DEF VacatedInv, TypeOK
    <2>8. QED
      BY <2>4, <2>6, <2>7
  <1>4. QED
    BY <1>1, <1>2, <1>3

LEMMA InvitationInv ==
    ASSUME TypeOK, AccountInv, NEW i \in Invitations, InvitationStep(i)
    PROVE  AccountInv'
  <1> USE DEF AccountInv, Standing, people
  <1>0. /\ \A t \in Invites : Standing(t) => invite[t].account \in Accounts
        /\ \A j \in Invitations : Asking(j) => /\ invitation[j].account \in Accounts
                                                /\ invitation[j].email \in Emails
    BY DEF TypeOK, InviteRow, Invitation, Asking, InvitationAt
  <1>1. ASSUME NEW a \in Accounts, NEW e \in Emails, NEW role \in {"admin", "member"},
               Authorise(i, a, e, role)
        PROVE  AccountInv'
    <2>1. Users(a) # {} /\ a \in Current /\ account[a] # "new"
      BY <1>1, NullIsNoValue DEF Authorise, Users, RowsInv, HasUsers, Current, Present, Roles
    <2>2. UNCHANGED <<account, people, login, late>>
      BY <1>1 DEF Authorise
    <2>3. /\ Asking(i)' /\ invitation'[i].account = a /\ invitation'[i].pc = "check"
          /\ \A j \in Invitations \ {i} : invitation'[j] = invitation[j]
      BY <1>1, NullIsNoValue DEF Authorise, TypeOK, Asking, InvitationAt, Invitation
    <2>4. \A j \in Invitations \ {i} : Asking(j)' = Asking(j)
      BY <2>3 DEF Asking, InvitationAt
    <2>5. RowsInv'
      BY <2>1, <2>2, <2>3, <2>4 DEF RowsInv, HasUsers, Users, Current
    <2>6. OwnerInv'
      BY <2>1, <2>2, <2>3, <2>4 DEF OwnerInv, Users, Current
    <2>7. VacatedInv'
      BY <2>1, <2>2, <2>3, <2>4 DEF VacatedInv, Users
    <2>8. QED
      BY <2>5, <2>6, <2>7
  <1>2. CASE CheckInvitee(i)
    <2>1. UNCHANGED <<account, people, login, late>>
      BY <1>2 DEF CheckInvitee
    <2>2. \A j \in Invitations \ {i} : invitation'[j] = invitation[j] /\ Asking(j)' = Asking(j)
      BY <1>2 DEF CheckInvitee, EndInvitation, TypeOK, Asking, InvitationAt
    <2>3. Asking(i)
      BY <1>2 DEF CheckInvitee, Asking
    <2>4. Asking(i)' => /\ invitation'[i].account = invitation[i].account
                        /\ invitation'[i].email = invitation[i].email
                        /\ user[invitation[i].account][invitation[i].email] = Null
      BY <1>2 DEF CheckInvitee, EndInvitation, TypeOK, Asking, InvitationAt, Invitation
    <2>5. RowsInv'
      BY <2>1, <2>2, <2>3, <2>4 DEF RowsInv, HasUsers, Users, Current
    <2>6. ASSUME invitation[i].account \in Current \ anonymised,
                 user[invitation[i].account][invitation[i].email] = Null
          PROVE  invitation[i].email # OwnerEmail
      BY <1>0, <2>3, <2>6, NullIsNoValue DEF OwnerInv, Roles
    <2>7. OwnerInv'
      BY <2>1, <2>2, <2>3, <2>4, <2>6 DEF OwnerInv, Users, Current
    <2>8. VacatedInv'
      BY <2>1, <2>2, <2>3, <2>4 DEF VacatedInv, Users
    <2>9. QED
      BY <2>5, <2>7, <2>8
  <1>3. CASE CommitInvite(i)
    <2>1. UNCHANGED <<account, user, anonymised, login, late>>
      BY <1>3 DEF CommitInvite
    <2>2. \A j \in Invitations \ {i} : invitation'[j] = invitation[j] /\ Asking(j)' = Asking(j)
      BY <1>3 DEF CommitInvite, EndInvitation, TypeOK, Asking, InvitationAt
    <2>3. Asking(i) /\ invitation[i].pc = "commit" /\ ~Asking(i)'
      BY <1>3, NullIsNoValue DEF CommitInvite, EndInvitation, TypeOK, Asking, InvitationAt
    <2>4. ASSUME NEW t \in Invites, invite'[t] # invite[t]
          PROVE  /\ invitation[i].account \in Current
                 /\ invite'[t].account = invitation[i].account
                 /\ invite'[t].email = invitation[i].email
      BY <1>3, <2>4 DEF CommitInvite, TypeOK
    <2>5. RowsInv'
      BY <1>0, <2>1, <2>2, <2>3, <2>4 DEF RowsInv, HasUsers, Users, Current
    <2>6. OwnerInv'
      BY <1>0, <2>1, <2>2, <2>3, <2>4 DEF OwnerInv, Users, Current
    <2>7. VacatedInv'
      BY <1>0, <2>1, <2>2, <2>3, <2>4 DEF VacatedInv, Users
    <2>8. QED
      BY <2>5, <2>6, <2>7
  <1>4. CASE MailInvite(i)
    <2>1. UNCHANGED <<account, user, anonymised, login, late>>
      BY <1>4 DEF MailInvite
    <2>2. \A j \in Invitations \ {i} : invitation'[j] = invitation[j] /\ Asking(j)' = Asking(j)
      BY <1>4 DEF MailInvite, EndInvitation, TypeOK, Asking, InvitationAt
    <2>3. ~Asking(i)'
      BY <1>4, NullIsNoValue DEF MailInvite, EndInvitation, TypeOK, Asking, InvitationAt
    <2>4. invitation[i].invite \in Invites /\ invite[invitation[i].invite] \in InviteRow
      BY <1>4, NullIsNoValue DEF MailInvite, InvitationAt, TypeOK, Invitation
    <2>5. \A t \in Invites : Standing(t)' => /\ Standing(t)
                                             /\ invite'[t].account = invite[t].account
                                             /\ invite'[t].email = invite[t].email
      <3>1. \/ invite' = invite
            \/ /\ invite[invitation[i].invite].state # "gone"
               /\ \E st \in {"sent", "gone"} :
                    invite' = [invite EXCEPT ![invitation[i].invite].state = st]
        BY <1>4 DEF MailInvite
      <3>2. CASE invite' = invite
        BY <3>2
      <3>3. ASSUME NEW st \in {"sent", "gone"},
                   invite[invitation[i].invite].state # "gone",
                   invite' = [invite EXCEPT ![invitation[i].invite].state = st]
            PROVE  \A t \in Invites : Standing(t)' => /\ Standing(t)
                                                      /\ invite'[t].account = invite[t].account
                                                      /\ invite'[t].email = invite[t].email
        BY <2>4, <3>3, NullIsNoValue DEF TypeOK, InviteRow
      <3>4. QED
        BY <3>1, <3>2, <3>3
    <2>6. RowsInv'
      BY <2>1, <2>2, <2>3, <2>5 DEF RowsInv, HasUsers, Users, Current
    <2>7. OwnerInv'
      BY <1>0, <2>1, <2>2, <2>3, <2>5 DEF OwnerInv, Users, Current
    <2>8. VacatedInv'
      BY <1>0, <2>1, <2>2, <2>3, <2>5 DEF VacatedInv, Users
    <2>9. QED
      BY <2>6, <2>7, <2>8
  <1>5. QED
    BY <1>1, <1>2, <1>3, <1>4 DEF InvitationStep

LEMMA ExpireInv ==
    ASSUME TypeOK, AccountInv, NEW t \in Invites, Expire(t)
    PROVE  AccountInv'
  <1>1. UNCHANGED <<account, user, anonymised, login, invitation, late>>
    BY DEF Expire, teamProcs
  <1>2. \A u \in Invites : Standing(u)' => /\ Standing(u)
                                           /\ invite'[u].account = invite[u].account
                                           /\ invite'[u].email = invite[u].email
    BY NullIsNoValue DEF Expire, TypeOK, InviteRow, Standing
  <1>3. \A u \in Invites : Standing(u) => invite[u].account \in Accounts
    BY DEF TypeOK, InviteRow, Standing
  <1>4. QED
    BY <1>1, <1>2, <1>3 DEF AccountInv, RowsInv, OwnerInv, VacatedInv, HasUsers, Users, Current,
       Asking, InvitationAt

\* An invite to the owner's address stands only in a deleted account, so an acceptance
\* never demotes the owner; and an account with a standing invite has users.
LEMMA AcceptInv ==
    ASSUME TypeOK, AccountInv, NEW x \in Acceptances, CommitAccept(x)
    PROVE  AccountInv'
  <1> USE DEF AccountInv, Standing
  <1>1. PICK t \in Invites : t = acceptance[x] /\ invite[t] \in InviteRow
    BY DEF CommitAccept, TypeOK
  <1>2. PICK a \in Accounts, e \in Emails : a = invite[t].account /\ e = invite[t].email
    BY <1>1 DEF InviteRow
  <1>3. UNCHANGED <<account, anonymised, login, invitation, late>>
    BY DEF CommitAccept
  <1>4. CASE invite' = invite /\ user' = user
    BY <1>3, <1>4, FrameInv DEF invVars, people
  <1>5. CASE ~(invite' = invite /\ user' = user)
    <2>1. /\ Standing(t)
          /\ invite' = [invite EXCEPT ![t].state = "used"]
          /\ user' = [user EXCEPT ![a][e] = IF HasUsers(a) THEN invite[t].role ELSE "owner"]
      BY <1>1, <1>2, <1>5, NullIsNoValue DEF CommitAccept
    <2>2. \A u \in Invites : Standing(u)' => /\ Standing(u)
                                             /\ invite'[u].account = invite[u].account
                                             /\ invite'[u].email = invite[u].email
      BY <1>1, <2>1 DEF TypeOK, InviteRow
    <2>3. /\ e \in Users(a)'
          /\ \A c \in Accounts, f \in Emails : c # a \/ f # e => user'[c][f] = user[c][f]
      <3>1. user'[a] = [user[a] EXCEPT ![e] = IF HasUsers(a) THEN invite[t].role ELSE "owner"]
        BY <2>1 DEF TypeOK
      <3>2. user'[a][e] = IF HasUsers(a) THEN invite[t].role ELSE "owner"
        BY <3>1 DEF TypeOK
      <3>3. user'[a][e] # Null
        BY <1>1, <3>2, NullIsNoValue DEF InviteRow, Roles
      <3>4. \A c \in Accounts \ {a} : user'[c] = user[c]
        BY <2>1 DEF TypeOK
      <3>5. \A f \in Emails \ {e} : user'[a][f] = user[a][f]
        BY <3>1 DEF TypeOK
      <3>6. QED
        BY <3>3, <3>4, <3>5 DEF Users
    <2>4. a \in Current /\ HasUsers(a)
      BY <1>2, <2>1 DEF RowsInv, OwnerInv, HasUsers
    <2>5. \A c \in Accounts : /\ Users(c) # {} => \E f \in Emails : user'[c][f] # Null
                              /\ c # a => Users(c)' = Users(c)
      BY <2>3 DEF Users
    <2>6. /\ \A u \in Invites : Standing(u) => invite[u].account \in Accounts
          /\ \A j \in Invitations : Asking(j) => invitation[j].account \in Accounts
      BY DEF TypeOK, InviteRow, Invitation, Asking, InvitationAt
    <2>7. RowsInv'
      BY <1>3, <2>2, <2>4, <2>5, <2>6 DEF RowsInv, HasUsers, Current, Asking, InvitationAt
    <2>8. a \notin anonymised => e # OwnerEmail
      BY <1>2, <2>1 DEF OwnerInv
    <2>9. \A c \in Accounts \ anonymised : Users(c)' # {} => user'[c][OwnerEmail] = "owner"
      <3>1. CASE a \in anonymised
        BY <2>3, <2>5, <3>1, OwnerHasEmail DEF OwnerInv
      <3>2. CASE a \notin anonymised
        BY <1>2, <2>1, <2>3, <2>5, <2>8, <3>2, OwnerHasEmail DEF OwnerInv
      <3>3. QED
        BY <3>1, <3>2
    <2>10. OwnerInv'
      <3>1. \A u \in Invites : (Standing(u) /\ invite[u].account \notin anonymised =>
              Users(invite[u].account) # {} /\ invite[u].email # OwnerEmail)'
        <4>1. ASSUME NEW u \in Invites, Standing(u)', invite'[u].account \notin anonymised
              PROVE  /\ invite'[u].account = invite[u].account
                     /\ invite[u].account \in Accounts
                     /\ Users(invite[u].account) # {}
                     /\ invite'[u].email # OwnerEmail
          BY <2>2, <2>6, <4>1 DEF OwnerInv
        <4>2. ASSUME NEW u \in Invites, Standing(u)', invite'[u].account \notin anonymised
              PROVE  (Users(invite[u].account) # {} /\ invite[u].email # OwnerEmail)'
          <5>1. \E f \in Emails : user'[invite'[u].account][f] # Null
            BY <2>5, <4>1, <4>2 DEF Users
          <5>2. QED
            BY <4>1, <4>2, <5>1 DEF Users
        <4>3. QED
          BY <1>3, <4>2
      <3>2. Current' = Current /\ \A j \in Invitations : Asking(j)' <=> Asking(j)
        BY <1>3 DEF Current, Asking, InvitationAt
      <3>3. \A j \in Invitations :
              (Asking(j) /\ invitation[j].account \in Current \ anonymised =>
                /\ Users(invitation[j].account) # {}
                /\ invitation[j].pc = "commit" => invitation[j].email # OwnerEmail)'
        <4>1. ASSUME NEW j \in Invitations, Asking(j), invitation[j].account \in Current \ anonymised
              PROVE  /\ invitation[j].account \in Accounts
                     /\ Users(invitation[j].account) # {}
                     /\ invitation[j].pc = "commit" => invitation[j].email # OwnerEmail
          BY <2>6, <4>1 DEF OwnerInv
        <4>2. ASSUME NEW j \in Invitations, Asking(j), invitation[j].account \in Current \ anonymised
              PROVE  (/\ Users(invitation[j].account) # {}
                      /\ invitation[j].pc = "commit" => invitation[j].email # OwnerEmail)'
          <5>1. \E f \in Emails : user'[invitation[j].account][f] # Null
            BY <2>5, <4>1, <4>2 DEF Users
          <5>2. QED
            BY <1>3, <4>1, <4>2, <5>1 DEF Users
        <4>3. QED
          BY <1>3, <3>2, <4>2
      <3>4. QED
        BY <1>3, <2>9, <3>1, <3>3 DEF OwnerInv
    <2>11. a \notin anonymised \ late
      BY <1>2, <2>1 DEF VacatedInv
    <2>12. VacatedInv'
      BY <1>3, <2>2, <2>5, <2>6, <2>11 DEF VacatedInv, TypeOK, Asking, InvitationAt
    <2>13. QED
      BY <2>7, <2>10, <2>12
  <1>6. QED
    BY <1>4, <1>5

\* What the deletion does not clear is in flight, and so recorded in late.
LEMMA DeleteInv ==
    ASSUME TypeOK, AccountInv, CommitDelete
    PROVE  AccountInv'
  <1> USE DEF AccountInv, Standing
  <1>1. PICK a \in Accounts : a = closing.account /\ a \in Current
    BY DEF CommitDelete, TypeOK, Closing
  <1>2. /\ UNCHANGED <<login, invitation>>
        /\ anonymised' = anonymised \cup {a}
        /\ account' = [account EXCEPT ![a] = "deleted"]
        /\ late' = IF InFlight(a) THEN late \cup {a} ELSE late
    BY <1>1 DEF CommitDelete
  <1>3. /\ Current' = Current
        /\ \A c \in Accounts : account[c] # "new" => account'[c] # "new"
    BY <1>1, <1>2 DEF Current, Present, TypeOK
  <1>4. \A t \in Invites : Standing(t)' => /\ Standing(t)
                                           /\ invite'[t] = invite[t]
                                           /\ invite[t].account # a
    <2>1. ASSUME NEW t \in Invites, invite[t] # Null
          PROVE  [invite[t] EXCEPT !.state = "gone"].state = "gone"
      BY <2>1 DEF TypeOK, InviteRow
    <2>2. QED
      BY <1>1, <2>1 DEF CommitDelete
  <1>5. /\ \A c \in Accounts \ {a} : user'[c] = user[c] /\ Users(c)' = Users(c)
        /\ Users(a)' = Users(a) \ closing.seen
    BY <1>1 DEF CommitDelete, Users, TypeOK
  <1>6. /\ \A t \in Invites : Standing(t) => invite[t].account \in Accounts
        /\ \A j \in Invitations : Asking(j) => invitation[j].account \in Accounts
    BY DEF TypeOK, InviteRow, Invitation, Asking, InvitationAt
  <1>7. RowsInv'
    BY <1>1, <1>2, <1>3, <1>4, <1>5, <1>6 DEF RowsInv, HasUsers, Asking, InvitationAt
  <1>8. OwnerInv'
    BY <1>1, <1>2, <1>3, <1>4, <1>5, <1>6 DEF OwnerInv, Asking, InvitationAt
  <1>9. a \notin late' => /\ Users(a) = closing.seen
                          /\ \A l \in Logins : login[l] # a
                          /\ \A i \in Invitations : Asking(i) => invitation[i].account # a
    BY <1>1, <1>2 DEF InFlight, Asking, InvitationAt
  <1>10. VacatedInv'
    <2>1. \A c \in (anonymised \ late)' :
            /\ c \in Accounts
            /\ Users(c)' = {} /\ \A t \in Invites : Standing(t)' => invite'[t].account # c
      <3>1. ASSUME NEW c \in (anonymised \ late)', c # a
            PROVE  c \in anonymised \ late /\ c \in Accounts
        BY <1>2, <3>1 DEF TypeOK
      <3>2. a \notin late' => Users(a)' = {}
        BY <1>5, <1>9
      <3>3. QED
        BY <1>4, <1>5, <3>1, <3>2 DEF VacatedInv
    <2>2. late \subseteq late' /\ anonymised' = anonymised \cup {a}
      BY <1>2
    <2>3. \A l \in Logins : login'[l] \in anonymised' => login'[l] \in late'
      BY <1>2, <1>9, <2>2 DEF VacatedInv
    <2>4. \A i \in Invitations :
            Asking(i)' /\ invitation'[i].account \in anonymised' => invitation'[i].account \in late'
      <3>1. \A i \in Invitations : Asking(i)' <=> Asking(i)
        BY <1>2 DEF Asking, InvitationAt
      <3>2. QED
        <4>1. ASSUME NEW i \in Invitations, Asking(i), invitation[i].account \in anonymised
              PROVE  invitation[i].account \in late'
          BY <2>2, <4>1 DEF VacatedInv
        <4>2. ASSUME NEW i \in Invitations, Asking(i), invitation[i].account = a
              PROVE  invitation[i].account \in late'
          BY <1>9, <4>2 DEF Asking, InvitationAt, Users
        <4>3. QED
          BY <1>2, <2>2, <3>1, <4>1, <4>2
    <2>5. QED
      BY <2>1, <2>3, <2>4 DEF VacatedInv
  <1>11. QED
    BY <1>7, <1>8, <1>10

LEMMA NextInv == TypeOK /\ AccountInv /\ [Next]_vars => AccountInv'
  <1> SUFFICES ASSUME TypeOK, AccountInv, [Next]_vars PROVE AccountInv'
    OBVIOUS
  <1> USE DEF invVars, people, teamProcs
  <1>1. CASE UNCHANGED vars
    BY <1>1, FrameInv DEF vars
  <1>2. ASSUME NEW p \in Signups, SignupStep(p)
        PROVE  AccountInv'
    BY <1>2, FrameInv, CommitSignupInv DEF SignupStep, BeginSignup, SignupFails
  <1>3. ASSUME NEW r \in Orders, (\E payment \in Payment : Pay(r, payment)) \/ LoseAck(r) \/ LoseKey(r)
        PROVE  AccountInv'
    BY <1>3, FrameInv DEF Pay, LoseAck, LoseKey
  <1>4. ASSUME NEW d \in Deliveries, DeliveryStep(d)
        PROVE  AccountInv'
    BY <1>4, FrameInv, MarkInv DEF DeliveryStep, Deliver, ClaimKey, Resend, MarkFails
  <1>5. ASSUME NEW x \in Acceptances, \E t \in Invites : BeginAccept(x, t)
        PROVE  AccountInv'
    BY <1>5, FrameInv DEF BeginAccept
  <1>6. CASE (\E a \in Accounts : BeginDelete(a)) \/ DeleteFails
    BY <1>6, FrameInv DEF BeginDelete, DeleteFails
  <1>7. QED
    BY <1>1, <1>2, <1>3, <1>4, <1>5, <1>6, LoginInv, InvitationInv, ExpireInv, AcceptInv, DeleteInv
    DEF Next

\* The inductive invariant: foreign keys hold, no invite on its way or standing is addressed
\* to the owner of an account that is not deleted, and whatever could put a user back into a
\* deleted account was in flight when it was deleted.
THEOREM AccountInvariant == Spec => []AccountInv
  <1>1. QED
    BY InitType, InitInv, NextType, NextInv, PTL DEF Spec

\* The owner of an account stays its owner until the account is deleted.
THEOREM OwnerRemains == Spec => []OwnerStays
  <1>1. AccountInv => OwnerStays
    BY DEF AccountInv, OwnerInv, OwnerStays
  <1>2. QED
    BY <1>1, AccountInvariant, PTL

\* A deleted account stays empty, but for the requests in flight when it was deleted.
THEOREM DeletionIsFinal == Spec => []DeletedIsVacated
  <1>1. AccountInv => DeletedIsVacated
    BY DEF AccountInv, VacatedInv, DeletedIsVacated, Standing
  <1>2. QED
    BY <1>1, AccountInvariant, PTL

-----------------------------------------------------------------------------
(* Payments: recorded once per fault at most, and not lost once answered for *)

LEMMA MarksAreCounted ==
    ASSUME NEW r
    PROVE  IsFiniteSet(Marks(r)) /\ Cardinality(Marks(r)) \in Nat
  BY DeliveriesAreFinite, FS_Subset, FS_CardinalityType DEF Marks

\* Where the handlers, the keys, the records and the faults stay, so do the counts.
LEMMA ClaimFrame ==
    ASSUME UNCHANGED <<delivery, keys, recorded, acked, dropped>>, faults' >= faults,
           \A r \in Orders : Keyed(r)' => Keyed(r),
           TypeOK, TypeOK', ClaimInv, KeyInv
    PROVE  ClaimInv' /\ KeyInv'
  <1>1. \A r \in Orders : Marks(r)' = Marks(r)
    BY DEF Marks, DeliveryAt
  <1>2. KeyInv'
    BY <1>1 DEF KeyInv, TypeOK
  <1>3. ASSUME NEW r \in Orders, Keyed(r)'
        PROVE  recorded'[r] + Cardinality(Marks(r)') + (IF r \in keys' THEN 0 ELSE 1) <= 1 + faults'
    <2>1. Keyed(r)
      BY <1>3
    <2>2. QED
      BY <1>1, <2>1, MarksAreCounted DEF ClaimInv, TypeOK
  <1>4. QED
    BY <1>2, <1>3 DEF ClaimInv

\* A step of one handler moves it in or out of the set of those that may record its order.
LEMMA OneHandler ==
    ASSUME TypeOK, NEW d \in Deliveries, NEW o \in Orders,
           \A c \in Deliveries \ {d} : delivery'[c] = delivery[c],
           delivery[d] # Null => delivery[d].order = o,
           delivery'[d] # Null => delivery'[d].order = o
    PROVE  /\ \A r \in Orders \ {o} : Marks(r)' = Marks(r)
           /\ DeliveryAt(d, "mark")' /\ ~DeliveryAt(d, "mark") =>
                d \in Marks(o)' /\ Cardinality(Marks(o)') = Cardinality(Marks(o)) + 1
           /\ ~DeliveryAt(d, "mark")' /\ DeliveryAt(d, "mark") =>
                Cardinality(Marks(o)') = Cardinality(Marks(o)) - 1
           /\ ~DeliveryAt(d, "mark")' /\ ~DeliveryAt(d, "mark") => Marks(o)' = Marks(o)
  <1>1. \A r \in Orders \ {o} : Marks(r)' = Marks(r)
    BY DEF Marks, DeliveryAt
  <1>2. ASSUME DeliveryAt(d, "mark")', ~DeliveryAt(d, "mark")
        PROVE  d \in Marks(o)' /\ Cardinality(Marks(o)') = Cardinality(Marks(o)) + 1
    <2>1. Marks(o)' = Marks(o) \cup {d} /\ d \notin Marks(o)
      BY <1>2 DEF Marks, DeliveryAt
    <2>2. QED
      BY <2>1, MarksAreCounted, FS_AddElement
  <1>3. ASSUME ~DeliveryAt(d, "mark")', DeliveryAt(d, "mark")
        PROVE  Cardinality(Marks(o)') = Cardinality(Marks(o)) - 1
    <2>1. Marks(o)' = Marks(o) \ {d} /\ d \in Marks(o)
      BY <1>3 DEF Marks, DeliveryAt
    <2>2. QED
      BY <2>1, MarksAreCounted, FS_RemoveElement
  <1>4. ASSUME ~DeliveryAt(d, "mark")', ~DeliveryAt(d, "mark")
        PROVE  Marks(o)' = Marks(o)
    BY <1>4 DEF Marks, DeliveryAt
  <1>5. QED
    BY <1>1, <1>2, <1>3, <1>4

\* What a handler's step does to the counts of its own order.
LEMMA ClaimSteps ==
    ASSUME TypeOK, TypeOK', NEW d \in Deliveries,
           ClaimKey(d) \/ Resend(d) \/ Mark(d) \/ MarkFails(d)
    PROVE  LET o == delivery[d].order IN
           /\ o \in Orders
           /\ paid' = paid /\ paid[o] # Null
           /\ \A c \in Deliveries \ {d} : delivery'[c] = delivery[c]
           /\ delivery'[d] # Null => delivery'[d].order = o
           /\ \A r \in Orders \ {o} : /\ recorded'[r] = recorded[r]
                                      /\ r \in keys' <=> r \in keys
                                      /\ r \in acked' <=> r \in acked
                                      /\ r \in dropped' <=> r \in dropped
           /\ faults' \in Nat /\ faults \in Nat /\ faults' >= faults
  <1>1. delivery[d] \in Delivery /\ delivery[d] # Null
    BY DEF ClaimKey, Resend, Mark, MarkFails, DeliveryAt, TypeOK
  <1>2. \/ delivery' = [delivery EXCEPT ![d].pc = "mark"]
        \/ delivery' = [delivery EXCEPT ![d].pc = "resend"]
        \/ delivery' = [delivery EXCEPT ![d] = Null]
    BY DEF ClaimKey, Resend, SetKey, PassKey, Answer200, Mark, MarkFails, Proceed, EndDelivery
  <1>3. /\ delivery[d].order \in Orders
        /\ \A c \in Deliveries \ {d} : delivery'[c] = delivery[c]
        /\ delivery'[d] # Null => delivery'[d].order = delivery[d].order
    BY <1>1, <1>2 DEF Delivery, TypeOK
  <1>4. \A r \in Orders \ {delivery[d].order} : /\ recorded'[r] = recorded[r]
                                                /\ r \in keys' <=> r \in keys
                                                /\ r \in acked' <=> r \in acked
                                                /\ r \in dropped' <=> r \in dropped
    BY <1>3 DEF ClaimKey, Resend, SetKey, SetUnheard, PassKey, Answer200, Mark, MarkFails, TypeOK
  <1>5. faults' \in Nat /\ faults \in Nat /\ faults' >= faults
    BY FaultBudget DEF ClaimKey, Resend, SetKey, Mark, MarkFails, Fault, TypeOK
  <1>6. paid' = paid /\ paid[delivery[d].order] # Null
    BY <1>1 DEF ClaimKey, Resend, Mark, MarkFails, TypeOK
  <1>7. QED
    BY <1>3, <1>4, <1>5, <1>6

LEMMA HandlerClaims ==
    ASSUME TypeOK, TypeOK', ClaimInv, KeyInv,
           NEW d \in Deliveries, ClaimKey(d) \/ Resend(d) \/ Mark(d) \/ MarkFails(d)
    PROVE  ClaimInv' /\ KeyInv'
  <1>1. PICK o \in Orders : o = delivery[d].order
    BY ClaimSteps
  <1>2. /\ \A r \in Orders \ {o} : Marks(r)' = Marks(r)
        /\ DeliveryAt(d, "mark")' /\ ~DeliveryAt(d, "mark") =>
             d \in Marks(o)' /\ Cardinality(Marks(o)') = Cardinality(Marks(o)) + 1
        /\ ~DeliveryAt(d, "mark")' /\ DeliveryAt(d, "mark") =>
             Cardinality(Marks(o)') = Cardinality(Marks(o)) - 1
        /\ ~DeliveryAt(d, "mark")' /\ ~DeliveryAt(d, "mark") => Marks(o)' = Marks(o)
    BY <1>1, OneHandler, ClaimSteps
  <1>3. \A r \in Orders \ {o} : /\ recorded'[r] = recorded[r]
                                /\ r \in keys' <=> r \in keys
                                /\ r \in acked' <=> r \in acked
                                /\ r \in dropped' <=> r \in dropped
    BY <1>1, ClaimSteps
  <1>4. /\ faults' \in Nat /\ faults \in Nat /\ faults' >= faults
        /\ recorded[o] \in Nat /\ recorded'[o] \in Nat
        /\ Cardinality(Marks(o)) \in Nat
        /\ o \in keys <=> ~(o \notin keys)
        /\ paid[o] # Null /\ \A r \in Orders : Keyed(r)' = Keyed(r)
    BY <1>1, ClaimSteps, MarksAreCounted DEF TypeOK, Keyed, Numbered
  <1>5. Keyed(o) => recorded[o] + Cardinality(Marks(o)) + (IF o \in keys THEN 0 ELSE 1) <= 1 + faults
    BY DEF ClaimInv
  <1>6. o \in (acked \cup keys) \ dropped => Marks(o) # {} \/ recorded[o] > 0
    BY DEF KeyInv
  <1> DEFINE Counted == Keyed(o) =>
               recorded'[o] + Cardinality(Marks(o)') + (IF o \in keys' THEN 0 ELSE 1) <= 1 + faults'
             Backed == o \in (acked' \cup keys') \ dropped' => Marks(o)' # {} \/ recorded'[o] > 0
  <1>6a. /\ Proceed(d, "mark") => DeliveryAt(d, "mark")'
         /\ Proceed(d, "resend") => ~DeliveryAt(d, "mark")'
         /\ EndDelivery(d) => ~DeliveryAt(d, "mark")'
    <2>1. delivery[d] \in Delivery /\ delivery \in [Deliveries -> Delivery \cup {Null}]
      BY DEF ClaimKey, Resend, Mark, MarkFails, DeliveryAt, TypeOK
    <2>2. ASSUME NEW pc \in {"mark", "resend"}, Proceed(d, pc)
          PROVE  delivery'[d].pc = pc /\ delivery'[d] # Null
      <3>1. [delivery[d] EXCEPT !.pc = pc] \in Delivery /\ [delivery[d] EXCEPT !.pc = pc].pc = pc
        BY <2>1 DEF Delivery
      <3>2. delivery'[d] = [delivery[d] EXCEPT !.pc = pc]
        BY <2>1, <2>2 DEF Proceed
      <3>3. QED
        BY <3>1, <3>2, NullIsNoValue
    <2>3. EndDelivery(d) => delivery'[d] = Null
      BY <2>1 DEF EndDelivery
    <2>4. QED
      BY <2>2, <2>3 DEF DeliveryAt
  <1>7. ASSUME ClaimKey(d) \/ Resend(d)
        PROVE  Counted /\ Backed
    <2>1. ~DeliveryAt(d, "mark") /\ recorded' = recorded
      BY <1>7 DEF ClaimKey, Resend, DeliveryAt
    <2>2. \/ Cardinality(Marks(o)') = Cardinality(Marks(o)) + 1 /\ Marks(o)' # {}
          \/ Marks(o)' = Marks(o)
      BY <1>2, <2>1
    <2>3. ASSUME PassKey(d)
          PROVE  Backed
      <3>1. CASE Proceed(d, "mark")
        BY <1>2, <1>6a, <2>1, <3>1
      <3>2. CASE dropped' = dropped \cup {delivery[d].order}
        BY <1>1, <3>2
      <3>3. QED
        BY <2>3, <3>1, <3>2 DEF PassKey
    <2>4. CASE ~Numbered(o) /\ PassKey(d)
      BY <1>4, <2>3, <2>4 DEF Keyed
    <2>5. CASE o \notin keys /\ keys' = keys \cup {o} /\ PassKey(d) /\ UNCHANGED faults
      <3>1. Counted
        BY <1>4, <1>5, <2>1, <2>2, <2>5
      <3>2. QED
        BY <2>3, <2>5, <3>1
    <2>6. CASE Fault /\ PassKey(d) /\ UNCHANGED keys
      <3>1. faults' = faults + 1
        BY <2>6 DEF Fault
      <3>2. Counted
        BY <1>4, <1>5, <2>1, <2>2, <2>6, <3>1
      <3>3. QED
        BY <2>3, <2>6, <3>2
    <2>7. CASE /\ EndDelivery(d) \/ Proceed(d, "resend")
               /\ keys' \subseteq keys \cup {o}
               /\ o \in (acked' \cup keys') \ dropped' => o \in (acked \cup keys) \ dropped
               /\ o \in keys => o \in keys'
      <3>1. Marks(o)' = Marks(o)
        BY <1>2, <1>6a, <2>1, <2>7
      <3>2. Backed
        BY <1>6, <2>1, <2>7, <3>1
      <3>3. Counted
        BY <1>4, <1>5, <2>1, <2>7, <3>1
      <3>4. QED
        BY <3>2, <3>3
    <2>8. ASSUME SetKey(d)
          PROVE  Counted /\ Backed
      <3>1. CASE o \notin keys /\ keys' = keys \cup {o} /\ PassKey(d) /\ UNCHANGED faults
        BY <2>5, <3>1
      <3>2. CASE o \in keys /\ Answer200(d) /\ UNCHANGED <<keys, dropped, faults>>
        BY <1>1, <2>7, <3>2 DEF Answer200
      <3>3. CASE /\ EndDelivery(d) \/ Proceed(d, "resend")
                 /\ UNCHANGED acked
                 /\ SetUnheard(o) \/ UNCHANGED <<keys, dropped>>
        BY <2>7, <3>3 DEF SetUnheard
      <3>4. QED
        BY <1>1, <2>8, <3>1, <3>2, <3>3 DEF SetKey
    <2>9. QED
      BY <1>1, <1>7, <2>4, <2>6, <2>8 DEF ClaimKey, Resend
  <1>8. ASSUME Mark(d)
        PROVE  Counted /\ Backed
    <2>1. DeliveryAt(d, "mark") /\ ~DeliveryAt(d, "mark")'
      BY <1>6a, <1>8 DEF Mark, Answer200
    <2>2. keys' = keys /\ faults' = faults
      BY <1>8 DEF Mark
    <2>3. \/ recorded'[o] = recorded[o] + 1
          \/ recorded'[o] = recorded[o] /\ o \in dropped'
      BY <1>1, <1>8 DEF Mark, TypeOK
    <2>4. Counted
      BY <1>2, <1>4, <1>5, <2>1, <2>2, <2>3
    <2>5. QED
      BY <1>4, <2>3, <2>4
  <1>9. ASSUME MarkFails(d)
        PROVE  Counted /\ Backed
    <2>1. DeliveryAt(d, "mark") /\ ~DeliveryAt(d, "mark")'
      BY <1>9 DEF MarkFails, DeliveryAt, EndDelivery, TypeOK
    <2>2. /\ UNCHANGED <<recorded, keys, acked>> /\ faults' = faults + 1
          /\ o \in keys \cup acked => o \in dropped'
      BY <1>1, <1>9 DEF MarkFails, Fault
    <2>3. Counted
      BY <1>2, <1>4, <1>5, <2>1, <2>2
    <2>4. QED
      BY <2>2, <2>3
  <1>10. Counted /\ Backed
    BY <1>7, <1>8, <1>9
  <1>11. ASSUME NEW r \in Orders \ {o}
         PROVE  /\ Keyed(r) => recorded'[r] + Cardinality(Marks(r)') + (IF r \in keys' THEN 0 ELSE 1)
                                 <= 1 + faults'
                /\ r \in (acked' \cup keys') \ dropped' => Marks(r)' # {} \/ recorded'[r] > 0
    <2>1. /\ recorded[r] \in Nat /\ Cardinality(Marks(r)) \in Nat
          /\ Keyed(r) => recorded[r] + Cardinality(Marks(r)) + (IF r \in keys THEN 0 ELSE 1)
                           <= 1 + faults
      BY <1>11, MarksAreCounted DEF ClaimInv, TypeOK
    <2>2. r \in (acked \cup keys) \ dropped => Marks(r) # {} \/ recorded[r] > 0
      BY DEF KeyInv
    <2>3. Marks(r)' = Marks(r)
      BY <1>2
    <2>4. QED
      BY <1>3, <1>4, <2>1, <2>2, <2>3
  <1>12. ClaimInv'
    BY <1>4, <1>10, <1>11 DEF ClaimInv
  <1>13. KeyInv'
    BY <1>10, <1>11 DEF KeyInv, TypeOK
  <1>14. QED
    BY <1>12, <1>13

\* A key lost may be claimed again: one more record, paid for with a fault.
LEMMA LossClaims ==
    ASSUME TypeOK, TypeOK', ClaimInv, KeyInv, NEW o \in Orders, LoseKey(o) \/ LoseAck(o)
    PROVE  ClaimInv' /\ KeyInv'
  <1>1. \A r \in Orders : Marks(r)' = Marks(r)
    BY DEF Marks, DeliveryAt, LoseKey, LoseAck
  <1>2. faults \in Nat /\ faults' = faults + 1 /\ recorded' = recorded /\ dropped' = dropped
    BY FaultBudget DEF LoseKey, LoseAck, Fault, TypeOK
  <1>3. acked' \cup keys' \subseteq acked \cup keys
    BY DEF LoseKey, LoseAck
  <1>4. KeyInv'
    BY <1>1, <1>2, <1>3 DEF KeyInv, TypeOK
  <1>5. ASSUME NEW r \in Orders, Keyed(r)'
        PROVE  recorded'[r] + Cardinality(Marks(r)') + (IF r \in keys' THEN 0 ELSE 1) <= 1 + faults'
    <2>0. Keyed(r)
      BY <1>5 DEF Keyed, Numbered, LoseKey, LoseAck
    <2>1. /\ recorded[r] \in Nat /\ Cardinality(Marks(r)) \in Nat
          /\ recorded[r] + Cardinality(Marks(r)) + (IF r \in keys THEN 0 ELSE 1) <= 1 + faults
      BY <1>5, <2>0, MarksAreCounted DEF ClaimInv, TypeOK
    <2>2. r \in keys' => r \in keys
      BY DEF LoseKey, LoseAck
    <2>3. (r \in keys /\ r \notin keys') \/ (r \in keys' <=> r \in keys)
      BY <2>2
    <2>4. QED
      BY <1>1, <1>2, <2>1, <2>3
  <1>6. QED
    BY <1>4, <1>5 DEF ClaimInv

\* A delivery that begins has claimed nothing.
LEMMA DeliverClaims ==
    ASSUME TypeOK, TypeOK', ClaimInv, KeyInv, NEW d \in Deliveries, NEW o \in Orders, Deliver(d, o)
    PROVE  ClaimInv' /\ KeyInv'
  <1>1. \A r \in Orders : Marks(r)' = Marks(r)
    <2>1. ~DeliveryAt(d, "mark") /\ ~DeliveryAt(d, "mark")'
      BY DEF Deliver, DeliveryAt, TypeOK
    <2>2. \A c \in Deliveries \ {d} : delivery'[c] = delivery[c]
      BY DEF Deliver, TypeOK
    <2>3. QED
      BY <2>1, <2>2 DEF Marks, DeliveryAt
  <1>2. UNCHANGED <<paid, keys, acked, recorded, dropped, faults>>
    BY DEF Deliver, billing
  <1>3. KeyInv'
    BY <1>1, <1>2 DEF KeyInv, TypeOK
  <1>4. ASSUME NEW r \in Orders, Keyed(r)'
        PROVE  recorded'[r] + Cardinality(Marks(r)') + (IF r \in keys' THEN 0 ELSE 1) <= 1 + faults'
    <2>1. Keyed(r)
      BY <1>2, <1>4 DEF Keyed, Numbered
    <2>2. QED
      BY <1>1, <1>2, <1>4, <2>1 DEF ClaimInv
  <1>5. QED
    BY <1>3, <1>4 DEF ClaimInv

LEMMA InitClaims == Init => ClaimInv /\ KeyInv
  <1> SUFFICES ASSUME Init PROVE ClaimInv /\ KeyInv
    OBVIOUS
  <1>1. ASSUME NEW r \in Orders
        PROVE  recorded[r] + Cardinality(Marks(r)) + (IF r \in keys THEN 0 ELSE 1) <= 1 + faults
    <2>1. Marks(r) = {}
      BY DEF Init, Marks, DeliveryAt
    <2>2. recorded[r] = 0 /\ keys = {} /\ faults = 0
      BY DEF Init
    <2>3. QED
      BY <2>1, <2>2, FS_EmptySet
  <1>2. KeyInv
    BY DEF Init, KeyInv
  <1>3. QED
    BY <1>1, <1>2 DEF ClaimInv

LEMMA NextClaims == TypeOK /\ TypeOK' /\ ClaimInv /\ KeyInv /\ [Next]_vars => ClaimInv' /\ KeyInv'
  <1> SUFFICES ASSUME TypeOK, TypeOK', ClaimInv, KeyInv, [Next]_vars PROVE ClaimInv' /\ KeyInv'
    OBVIOUS
  <1>0. Fault \/ UNCHANGED faults => faults' >= faults
    BY FaultBudget DEF Fault, TypeOK
  <1>1. CASE /\ UNCHANGED <<delivery, keys, recorded, acked, dropped, paid>>
             /\ Fault \/ UNCHANGED faults
    BY <1>0, <1>1, ClaimFrame DEF Keyed, Numbered
  <1>2. CASE UNCHANGED vars
    BY <1>1, <1>2 DEF vars, billing
  <1>3. ASSUME NEW p \in Signups, SignupStep(p)
        PROVE  ClaimInv' /\ KeyInv'
    BY <1>1, <1>3 DEF SignupStep, BeginSignup, CommitSignup, SignupFails, billing
  <1>4. ASSUME NEW r \in Orders, NEW payment \in Payment, Pay(r, payment)
        PROVE  ClaimInv' /\ KeyInv'
    <2>1. UNCHANGED <<delivery, keys, recorded, acked, dropped, faults>>
      BY <1>4 DEF Pay
    <2>2. \A o \in Orders : Keyed(o)' => Keyed(o)
      BY <1>4 DEF Pay, Keyed, Numbered, TypeOK
    <2>3. QED
      BY <1>0, <2>1, <2>2, ClaimFrame
  <1>5. ASSUME NEW d \in Deliveries, DeliveryStep(d)
        PROVE  ClaimInv' /\ KeyInv'
    BY <1>5, HandlerClaims, DeliverClaims DEF DeliveryStep
  <1>6. ASSUME NEW l \in Logins, (\E a \in Accounts : BeginLogin(l, a)) \/ CreateOwner(l)
        PROVE  ClaimInv' /\ KeyInv'
    BY <1>1, <1>6 DEF BeginLogin, CreateOwner, billing
  <1>7. ASSUME NEW i \in Invitations, InvitationStep(i)
        PROVE  ClaimInv' /\ KeyInv'
    BY <1>1, <1>7 DEF InvitationStep, Authorise, CheckInvitee, CommitInvite, MailInvite, billing
  <1>8. ASSUME NEW t \in Invites, Expire(t)
        PROVE  ClaimInv' /\ KeyInv'
    BY <1>1, <1>8 DEF Expire, billing
  <1>9. ASSUME NEW x \in Acceptances, (\E t \in Invites : BeginAccept(x, t)) \/ CommitAccept(x)
        PROVE  ClaimInv' /\ KeyInv'
    BY <1>1, <1>9 DEF BeginAccept, CommitAccept, billing
  <1>10. CASE (\E a \in Accounts : BeginDelete(a)) \/ CommitDelete \/ DeleteFails
    BY <1>1, <1>10 DEF BeginDelete, CommitDelete, DeleteFails, billing
  <1>11. QED
    BY <1>2, <1>3, <1>4, <1>5, <1>6, <1>7, <1>8, <1>9, <1>10, LossClaims DEF Next

\* However often, in whatever order and by however many handlers at once a notification with
\* an order number is delivered, its order is recorded once, and once more at most per fault.
THEOREM OrdersRecordedOnce == Spec => []RecordedOnce
  <1>1. TypeOK /\ ClaimInv => RecordedOnce
    <2> SUFFICES ASSUME TypeOK, ClaimInv, NEW r \in Orders, paid[r] # Null, Numbered(r)
                 PROVE  recorded[r] <= 1 + faults
      BY DEF RecordedOnce
    <2>1. recorded[r] \in Nat /\ Cardinality(Marks(r)) \in Nat /\ faults \in Nat
      BY MarksAreCounted, FaultBudget DEF TypeOK
    <2>2. recorded[r] + Cardinality(Marks(r)) + (IF r \in keys THEN 0 ELSE 1) <= 1 + faults
      BY DEF ClaimInv, Keyed
    <2>3. QED
      BY <2>1, <2>2
  <1>2. QED
    BY <1>1, InitType, InitClaims, NextType, NextClaims, PTL DEF Spec

\* A payment answered 200 was recorded or is about to be, with the exceptions of dropped: no
\* account with a row was named, or a handler ended before recording it with the key set or the
\* order answered for, or never heard of the key it had set.
THEOREM AnsweredIsRecorded == Spec => []AcknowledgedIsRecorded
  <1>1. KeyInv => AcknowledgedIsRecorded
    BY DEF KeyInv, AcknowledgedIsRecorded
  <1>2. QED
    BY <1>1, InitType, InitClaims, NextType, NextClaims, PTL DEF Spec

-----------------------------------------------------------------------------
(* Signup and activation *)

LEMMA NextCrossed == TypeOK /\ CrossedInv /\ [Next]_vars => CrossedInv'
  <1> SUFFICES ASSUME TypeOK, CrossedInv, [Next]_vars PROVE CrossedInv'
    OBVIOUS
  <1> USE DEF CrossedInv, teamProcs
  <1>1. CASE UNCHANGED <<account, signup, crossed>>
    BY <1>1
  <1>2. CASE UNCHANGED vars
    BY <1>1, <1>2 DEF vars
  <1>3. ASSUME NEW p \in Signups, BeginSignup(p)
        PROVE  CrossedInv'
    BY <1>3 DEF BeginSignup, Current, Present, TypeOK
  <1>4. ASSUME NEW p \in Signups, CommitSignup(p)
        PROVE  CrossedInv'
    BY <1>4 DEF CommitSignup, Current, Present, TypeOK
  <1>5. ASSUME NEW p \in Signups, SignupFails(p)
        PROVE  CrossedInv'
    BY <1>5 DEF SignupFails, TypeOK
  <1>6. ASSUME NEW d \in Deliveries, Mark(d)
        PROVE  CrossedInv'
    BY <1>6 DEF Mark, TypeOK
  <1>7. ASSUME NEW d \in Deliveries, DeliveryStep(d), ~Mark(d)
        PROVE  CrossedInv'
    BY <1>1, <1>7 DEF DeliveryStep, Deliver, ClaimKey, Resend, MarkFails
  <1>8. CASE \E r \in Orders : (\E payment \in Payment : Pay(r, payment)) \/ LoseAck(r) \/ LoseKey(r)
    BY <1>1, <1>8 DEF Pay, LoseAck, LoseKey
  <1>9. CASE \E l \in Logins : (\E a \in Accounts : BeginLogin(l, a)) \/ CreateOwner(l)
    BY <1>1, <1>9 DEF BeginLogin, CreateOwner
  <1>10. CASE (\E i \in Invitations : InvitationStep(i)) \/ (\E t \in Invites : Expire(t))
    BY <1>1, <1>10 DEF InvitationStep, Authorise, CheckInvitee, CommitInvite, MailInvite, Expire
  <1>11. CASE \E x \in Acceptances : (\E t \in Invites : BeginAccept(x, t)) \/ CommitAccept(x)
    BY <1>1, <1>11 DEF BeginAccept, CommitAccept
  <1>12. CASE (\E a \in Accounts : BeginDelete(a)) \/ DeleteFails
    BY <1>1, <1>12 DEF BeginDelete, DeleteFails
  <1>13. CASE CommitDelete
    BY <1>13 DEF CommitDelete, TypeOK
  <1>14. QED
    BY <1>2, <1>3, <1>4, <1>5, <1>6, <1>7, <1>8, <1>9, <1>10, <1>11, <1>12, <1>13
    DEF Next, SignupStep

\* Only a signup replaces an account, and no other step touches the status of an active one
\* but its deletion.
LEMMA OnlySignupReplaces ==
    ASSUME TypeOK, [Next]_vars, NEW a \in Accounts,
           account[a] = "active", account'[a] = "replaced"
    PROVE  \E p \in Signups : signup[p] # Null
  <1> USE DEF teamProcs
  <1>1. UNCHANGED account => FALSE
    OBVIOUS
  <1>2. ASSUME NEW p \in Signups, SignupStep(p)
        PROVE  signup[p] # Null
    BY <1>1, <1>2 DEF SignupStep, BeginSignup, CommitSignup, SignupFails
  <1>3. ASSUME NEW d \in Deliveries, DeliveryStep(d)
        PROVE  FALSE
    BY <1>1, <1>3 DEF DeliveryStep, Deliver, ClaimKey, Resend, Mark, MarkFails, TypeOK
  <1>4. CASE CommitDelete
    BY <1>4 DEF CommitDelete, TypeOK
  <1>5. CASE \/ UNCHANGED vars
             \/ \E r \in Orders : (\E b \in Payment : Pay(r, b)) \/ LoseAck(r) \/ LoseKey(r)
             \/ \E l \in Logins : (\E b \in Accounts : BeginLogin(l, b)) \/ CreateOwner(l)
             \/ \E i \in Invitations : InvitationStep(i)
             \/ \E t \in Invites : Expire(t)
             \/ \E x \in Acceptances : (\E t \in Invites : BeginAccept(x, t)) \/ CommitAccept(x)
             \/ \E b \in Accounts : BeginDelete(b)
             \/ DeleteFails
    BY <1>1, <1>5 DEF vars, Pay, LoseAck, LoseKey, BeginLogin, CreateOwner, InvitationStep,
       Authorise, CheckInvitee, CommitInvite, MailInvite, Expire, BeginAccept, CommitAccept,
       BeginDelete, DeleteFails
  <1>6. QED
    BY <1>2, <1>3, <1>4, <1>5 DEF Next

\* A signup ends an active account only if the payment came in between the signup's read
\* and its commit.
THEOREM ActiveIsNotReplaced == Spec => ActiveSurvivesSignup
  <1>1. Init => CrossedInv
    BY DEF Init, CrossedInv
  <1>2. TypeOK /\ CrossedInv /\ [Next]_vars =>
          [\A a \in Accounts : account[a] = "active" /\ account'[a] = "replaced" => a \in crossed]_vars
    BY OnlySignupReplaces DEF CrossedInv
  <1>3. QED
    BY <1>1, <1>2, InitType, NextType, NextCrossed, PTL DEF Spec, ActiveSurvivesSignup

-----------------------------------------------------------------------------
(* Every member was invited *)

MemberInv == MailInv /\ MembersWereInvited

\* The steps that leave users, invites and their mails alone.
LEMMA MemberFrame ==
    ASSUME MemberInv, UNCHANGED <<user, anonymised, invite, invitation, acceptance>>
    PROVE  MemberInv'
  BY DEF MemberInv, MailInv, MembersWereInvited, InvitationAt

\* A new account has nobody, and the invites of the account it replaces can no longer be mailed.
LEMMA CommitSignupMembers ==
    ASSUME TypeOK, AccountInv, MemberInv, NEW p \in Signups, CommitSignup(p)
    PROVE  MemberInv'
  <1>1. UNCHANGED <<invitation, acceptance>>
    BY DEF CommitSignup, teamProcs
  <1>2. \A a \in Accounts, e \in Emails : user'[a][e] = Null
    BY DEF CommitSignup, AccountInv, RowsInv, HasUsers, Users, TypeOK
  <1>3. \A t \in Invites : /\ invite'[t] = Null <=> invite[t] = Null
                           /\ invite[t] # Null => invite'[t].state \in {invite[t].state, "gone"}
    <2>1. \A t \in Invites : invite[t] # Null =>
            /\ [invite[t] EXCEPT !.state = "gone"] # Null
            /\ [invite[t] EXCEPT !.state = "gone"].state = "gone"
      <3>1. ASSUME NEW t \in Invites, invite[t] # Null
            PROVE  invite[t] \in InviteRow
        BY <3>1 DEF TypeOK
      <3>2. \A row \in InviteRow : [row EXCEPT !.state = "gone"].state = "gone"
        BY DEF InviteRow
      <3>3. QED
        BY <3>1, <3>2, InviteMoves
    <2>2. QED
      BY <2>1 DEF CommitSignup, TypeOK
  <1>4. /\ \A i \in Invitations : InvitationAt(i, "mail") =>
             invitation[i].invite \in Invites /\ invite[invitation[i].invite] # Null
        /\ \A x \in Acceptances : acceptance[x] # Null =>
             acceptance[x] \in Invites /\ invite[acceptance[x]] # Null
    BY DEF TypeOK, InvitationAt, Invitation
  <1>5. MailInv'
    BY <1>1, <1>3, <1>4 DEF MemberInv, MailInv, InvitationAt
  <1>6. MembersWereInvited'
    BY <1>2, NullIsNoValue DEF MembersWereInvited, Roles
  <1>7. QED
    BY <1>5, <1>6 DEF MemberInv

\* A used invite stays used as long as no mail about it is pending: no mail is.
LEMMA InvitationMembers ==
    ASSUME TypeOK, MemberInv, NEW i \in Invitations, InvitationStep(i)
    PROVE  MemberInv'
  <1>1. UNCHANGED <<user, anonymised, acceptance>>
    BY DEF InvitationStep, Authorise, CheckInvitee, CommitInvite, MailInvite, people
  <1>2. \A j \in Invitations \ {i} : invitation'[j] = invitation[j]
    BY DEF InvitationStep, Authorise, CheckInvitee, CommitInvite, MailInvite, EndInvitation, TypeOK
  <1>3. /\ \A j \in Invitations : InvitationAt(j, "mail") =>
             invitation[j].invite \in Invites /\ invite[invitation[j].invite] # Null
        /\ \A x \in Acceptances : acceptance[x] # Null =>
             acceptance[x] \in Invites /\ invite[acceptance[x]] # Null
    BY DEF TypeOK, InvitationAt, Invitation
  <1>4. CASE invite' = invite /\ ~InvitationAt(i, "mail")'
    <2>1. MailInv'
      BY <1>1, <1>2, <1>4 DEF MemberInv, MailInv, InvitationAt
    <2>2. MembersWereInvited'
      BY <1>1, <1>4 DEF MemberInv, MembersWereInvited
    <2>3. QED
      BY <2>1, <2>2 DEF MemberInv
  <1>5. ASSUME NEW a \in Accounts, NEW e \in Emails, NEW role \in {"admin", "member"},
               Authorise(i, a, e, role)
        PROVE  MemberInv'
    BY <1>4, <1>5 DEF Authorise, people, InvitationAt, TypeOK
  <1>6. CASE CheckInvitee(i)
    <2>1. invitation[i] \in Invitation /\ invitation[i].pc = "check"
      BY <1>6 DEF CheckInvitee, InvitationAt, TypeOK
    <2>2. [invitation[i] EXCEPT !.pc = "commit"].pc = "commit"
      BY <2>1 DEF Invitation
    <2>3. QED
      BY <1>4, <1>6, <2>2 DEF CheckInvitee, EndInvitation, people, InvitationAt, TypeOK
  <1>7. CASE CommitInvite(i) /\ invite' = invite /\ EndInvitation(i)
    BY <1>4, <1>7 DEF EndInvitation, InvitationAt, TypeOK
  <1>8. CASE CommitInvite(i) /\ ~(invite' = invite /\ EndInvitation(i))
    <2>1. PICK t \in Invites :
            /\ invite[t] = Null
            /\ invite' = [invite EXCEPT ![t] = [account |-> invitation[i].account,
                 email |-> invitation[i].email, role |-> invitation[i].role, state |-> "unsent"]]
            /\ invitation' = [invitation EXCEPT ![i] = [pc |-> "mail", invite |-> t]]
      BY <1>8 DEF CommitInvite
    <2>2. /\ invite'[t].state = "unsent" /\ invitation'[i].invite = t
          /\ \A u \in Invites \ {t} : invite'[u] = invite[u]
      BY <2>1 DEF TypeOK
    <2>3. MailInv'
      BY <1>1, <1>2, <1>3, <2>1, <2>2 DEF MemberInv, MailInv, InvitationAt
    <2>4. MembersWereInvited'
      <3>1. ASSUME NEW a \in Accounts \ anonymised, NEW e \in Emails,
                   user[a][e] \in {"admin", "member"}
            PROVE  \E u \in Invites : invite'[u] = [account |-> a, email |-> e, role |-> user[a][e],
                                                    state |-> "used"]
        <4>1. PICK u \in Invites : invite[u] = [account |-> a, email |-> e, role |-> user[a][e],
                                                state |-> "used"]
          BY <3>1 DEF MemberInv, MembersWereInvited
        <4>2. invite[u] \in InviteRow
          BY <3>1, <4>1 DEF InviteRow
        <4>3. QED
          BY <2>1, <2>2, <4>1, <4>2, NullIsNoValue
      <3>2. QED
        BY <1>1, <3>1 DEF MembersWereInvited
    <2>5. QED
      BY <2>3, <2>4 DEF MemberInv
  <1>9. CASE MailInvite(i)
    <2>1. PICK t \in Invites : t = invitation[i].invite /\ invite[t] \in InviteRow
      BY <1>3, <1>9 DEF MailInvite, TypeOK
    <2>2. invite[t].state \in {"unsent", "gone"}
      BY <1>9, <2>1 DEF MailInvite, MemberInv, MailInv
    <2>3. ~InvitationAt(i, "mail")'
      BY <1>9 DEF MailInvite, EndInvitation, InvitationAt, TypeOK
    <2>4. CASE invite' = invite
      BY <1>4, <2>3, <2>4
    <2>5. ASSUME NEW st \in {"sent", "gone"}, invite[t].state # "gone",
                 invite' = [invite EXCEPT ![t].state = st]
          PROVE  MemberInv'
      <3>1. invite[t].state = "unsent"
        BY <2>2, <2>5
      <3>2. invite'[t].state = st /\ \A u \in Invites \ {t} : invite'[u] = invite[u]
        BY <2>1, <2>5 DEF TypeOK, InviteRow
      <3>3. \A j \in Invitations : InvitationAt(j, "mail") /\ j # i => invitation[j].invite # t
        BY <1>9, <2>1 DEF MailInvite, MemberInv, MailInv
      <3>4. \A x \in Acceptances : acceptance[x] # Null => acceptance[x] # t
        BY <3>1 DEF MemberInv, MailInv
      <3>5. MailInv'
        BY <1>1, <1>2, <1>3, <2>3, <3>2, <3>3, <3>4 DEF MemberInv, MailInv, InvitationAt
      <3>6. MembersWereInvited'
        <4>1. ASSUME NEW a \in Accounts \ anonymised, NEW e \in Emails,
                     user[a][e] \in {"admin", "member"}
              PROVE  \E u \in Invites : invite'[u] = [account |-> a, email |-> e,
                                                      role |-> user[a][e], state |-> "used"]
          <5>1. PICK u \in Invites : invite[u] = [account |-> a, email |-> e, role |-> user[a][e],
                                                  state |-> "used"]
            BY <4>1 DEF MemberInv, MembersWereInvited
          <5>2. QED
            BY <3>1, <3>2, <5>1
        <4>2. QED
          BY <1>1, <4>1 DEF MembersWereInvited
      <3>7. QED
        BY <3>5, <3>6 DEF MemberInv
    <2>6. QED
      BY <1>9, <2>1, <2>4, <2>5 DEF MailInvite
  <1>10. QED
    BY <1>5, <1>6, <1>7, <1>8, <1>9 DEF InvitationStep

\* Accepting an invite leaves behind the invite that says why the user is there.
LEMMA AcceptMembers ==
    ASSUME TypeOK, MemberInv, NEW x \in Acceptances,
           (\E t \in Invites : BeginAccept(x, t)) \/ CommitAccept(x)
    PROVE  MemberInv'
  <1>1. UNCHANGED <<anonymised, invitation>>
    BY DEF BeginAccept, CommitAccept, people
  <1>2. \A y \in Acceptances \ {x} : acceptance'[y] = acceptance[y]
    BY DEF BeginAccept, CommitAccept, TypeOK
  <1>3. \A i \in Invitations : InvitationAt(i, "mail") =>
          invitation[i].invite \in Invites /\ invite[invitation[i].invite] # Null
    BY DEF TypeOK, InvitationAt, Invitation
  <1>4. \A y \in Acceptances : acceptance[y] # Null =>
          acceptance[y] \in Invites /\ invite[acceptance[y]] # Null
    BY DEF TypeOK
  <1>5. ASSUME NEW t \in Invites, BeginAccept(x, t)
        PROVE  MemberInv'
    <2>1. acceptance'[x] = t /\ invite' = invite /\ user' = user /\ invite[t].state = "sent"
      BY <1>5 DEF BeginAccept, people, TypeOK
    <2>2. MailInv'
      BY <1>1, <1>2, <2>1 DEF MemberInv, MailInv, InvitationAt
    <2>3. QED
      BY <1>1, <2>1, <2>2 DEF MemberInv, MembersWereInvited
  <1>6. CASE CommitAccept(x) /\ invite' = invite /\ user' = user
    <2>1. acceptance'[x] = Null
      BY <1>6 DEF CommitAccept, TypeOK
    <2>2. MailInv'
      BY <1>1, <1>2, <1>6, <2>1 DEF MemberInv, MailInv, InvitationAt
    <2>3. QED
      BY <1>1, <1>6, <2>2 DEF MemberInv, MembersWereInvited
  <1>7. CASE CommitAccept(x) /\ ~(invite' = invite /\ user' = user)
    <2>1. PICK t \in Invites : t = acceptance[x] /\ invite[t] \in InviteRow
      BY <1>4, <1>7 DEF CommitAccept, TypeOK
    <2>2. PICK a \in Accounts, e \in Emails : a = invite[t].account /\ e = invite[t].email
      BY <2>1 DEF InviteRow
    <2>3. /\ acceptance'[x] = Null
          /\ invite[t].state # "gone"
          /\ invite' = [invite EXCEPT ![t].state = "used"]
          /\ user' = [user EXCEPT ![a][e] = IF HasUsers(a) THEN invite[t].role ELSE "owner"]
      BY <1>7, <2>1, <2>2 DEF CommitAccept, TypeOK
    <2>4. /\ invite'[t] = [account |-> a, email |-> e, role |-> invite[t].role, state |-> "used"]
          /\ invite'[t].state = "used"
          /\ \A u \in Invites \ {t} : invite'[u] = invite[u]
      BY <2>1, <2>2, <2>3 DEF TypeOK, InviteRow
    <2>5. \A i \in Invitations : InvitationAt(i, "mail") => invitation[i].invite # t
      <3>1. acceptance[x] # Null /\ invite[t].state # "unsent"
        BY <1>7, <2>1 DEF CommitAccept, MemberInv, MailInv
      <3>2. QED
        BY <2>3, <3>1 DEF MemberInv, MailInv
    <2>6. MailInv'
      BY <1>1, <1>2, <1>3, <1>4, <2>3, <2>4, <2>5 DEF MemberInv, MailInv, InvitationAt
    <2>7. ASSUME NEW b \in Accounts \ anonymised, NEW f \in Emails,
                 user'[b][f] \in {"admin", "member"}
          PROVE  \E u \in Invites : invite'[u] = [account |-> b, email |-> f,
                                                  role |-> user'[b][f], state |-> "used"]
      <3>1. CASE b = a /\ f = e
        <4>1. user'[b][f] = invite[t].role
          BY <2>3, <2>7, <3>1 DEF TypeOK
        <4>2. QED
          BY <2>4, <3>1, <4>1
      <3>2. CASE ~(b = a /\ f = e)
        <4>1. user'[b][f] = user[b][f]
          BY <2>3, <3>2 DEF TypeOK
        <4>2. PICK u \in Invites : invite[u] = [account |-> b, email |-> f,
                                                role |-> user[b][f], state |-> "used"]
          BY <2>7, <4>1 DEF MemberInv, MembersWereInvited
        <4>3. u # t
          BY <2>2, <3>2, <4>2
        <4>4. QED
          BY <2>4, <4>1, <4>2, <4>3
      <3>3. QED
        BY <3>1, <3>2
    <2>8. QED
      BY <1>1, <2>6, <2>7 DEF MemberInv, MembersWereInvited
  <1>8. QED
    BY <1>5, <1>6, <1>7

LEMMA ExpireMembers ==
    ASSUME TypeOK, MemberInv, NEW t \in Invites, Expire(t)
    PROVE  MemberInv'
  <1>1. UNCHANGED <<user, anonymised, invitation, acceptance>>
    BY DEF Expire, teamProcs
  <1>2. invite[t] \in InviteRow /\ invite[t].state = "sent"
    BY DEF Expire, TypeOK
  <1>3. invite'[t].state = "expired" /\ \A u \in Invites \ {t} : invite'[u] = invite[u]
    BY <1>2 DEF Expire, TypeOK, InviteRow
  <1>4. \A i \in Invitations : InvitationAt(i, "mail") =>
          invitation[i].invite \in Invites \ {t}
    BY <1>2 DEF TypeOK, InvitationAt, Invitation, MemberInv, MailInv
  <1>5. \A x \in Acceptances : acceptance[x] # Null => acceptance[x] \in Invites
    BY DEF TypeOK
  <1>6. MailInv'
    BY <1>1, <1>3, <1>4, <1>5 DEF MemberInv, MailInv, InvitationAt
  <1>7. ASSUME NEW b \in Accounts \ anonymised, NEW f \in Emails, user[b][f] \in {"admin", "member"}
        PROVE  \E u \in Invites : invite'[u] = [account |-> b, email |-> f, role |-> user[b][f],
                                                state |-> "used"]
    <2>1. PICK u \in Invites : invite[u] = [account |-> b, email |-> f, role |-> user[b][f],
                                            state |-> "used"]
      BY <1>7 DEF MemberInv, MembersWereInvited
    <2>2. u # t
      BY <1>2, <2>1
    <2>3. QED
      BY <1>3, <2>1, <2>2
  <1>8. QED
    BY <1>1, <1>6, <1>7 DEF MemberInv, MembersWereInvited

\* Nobody is asked for an invite after the account is deleted; the others keep theirs.
LEMMA DeleteMembers ==
    ASSUME TypeOK, MemberInv, CommitDelete
    PROVE  MemberInv'
  <1>1. UNCHANGED <<invitation, acceptance>>
    BY DEF CommitDelete
  <1>2. PICK a \in Accounts : a = closing.account /\ a \in anonymised'
    BY NullIsNoValue DEF CommitDelete, TypeOK, Closing
  <1>3. \A u \in Invites : invite[u] # Null =>
          /\ [invite[u] EXCEPT !.state = "gone"] # Null
          /\ [invite[u] EXCEPT !.state = "gone"].state = "gone"
    <2>1. ASSUME NEW u \in Invites, invite[u] # Null
          PROVE  invite[u] \in InviteRow
      BY <2>1 DEF TypeOK
    <2>2. \A row \in InviteRow : [row EXCEPT !.state = "gone"].state = "gone"
      BY DEF InviteRow
    <2>3. QED
      BY <2>1, <2>2, InviteMoves
  <1>4. \A u \in Invites : /\ invite[u] # Null => invite'[u].state \in {invite[u].state, "gone"}
                           /\ invite'[u] = invite[u] \/ (invite[u] # Null /\ invite[u].account = a)
    BY <1>2, <1>3 DEF CommitDelete, TypeOK
  <1>5. /\ \A i \in Invitations : InvitationAt(i, "mail") =>
             invitation[i].invite \in Invites /\ invite[invitation[i].invite] # Null
        /\ \A x \in Acceptances : acceptance[x] # Null =>
             acceptance[x] \in Invites /\ invite[acceptance[x]] # Null
    BY DEF TypeOK, InvitationAt, Invitation
  <1>6. MailInv'
    BY <1>1, <1>4, <1>5 DEF MemberInv, MailInv, InvitationAt
  <1>7. ASSUME NEW b \in Accounts \ anonymised', NEW f \in Emails,
               user'[b][f] \in {"admin", "member"}
        PROVE  \E u \in Invites : invite'[u] = [account |-> b, email |-> f, role |-> user'[b][f],
                                                state |-> "used"]
    <2>1. b # a /\ b \notin anonymised /\ user'[b] = user[b]
      BY <1>2 DEF CommitDelete, TypeOK
    <2>2. PICK u \in Invites : invite[u] = [account |-> b, email |-> f, role |-> user[b][f],
                                            state |-> "used"]
      BY <1>7, <2>1 DEF MemberInv, MembersWereInvited
    <2>3. QED
      BY <1>4, <2>1, <2>2
  <1>8. QED
    BY <1>6, <1>7 DEF MemberInv, MembersWereInvited

\* The first user of an account is its owner.
LEMMA LoginMembers ==
    ASSUME TypeOK, MemberInv, NEW l \in Logins, CreateOwner(l)
    PROVE  MemberInv'
  <1>1. UNCHANGED <<anonymised, invite, invitation, acceptance>>
    BY DEF CreateOwner
  <1>2. login[l] \in Accounts
    BY DEF CreateOwner, TypeOK
  <1>3. \A a \in Accounts, e \in Emails : user'[a][e] \in {user[a][e], "owner"}
    BY <1>2, OwnerHasEmail DEF CreateOwner, TypeOK
  <1>4. QED
    <2>1. MailInv'
      BY <1>1 DEF MemberInv, MailInv, InvitationAt
    <2>2. MembersWereInvited'
      BY <1>1, <1>3 DEF MemberInv, MembersWereInvited
    <2>3. QED
      BY <2>1, <2>2 DEF MemberInv

LEMMA NextMembers == TypeOK /\ AccountInv /\ MemberInv /\ [Next]_vars => MemberInv'
  <1> SUFFICES ASSUME TypeOK, AccountInv, MemberInv, [Next]_vars PROVE MemberInv'
    OBVIOUS
  <1> USE DEF people, teamProcs
  <1>1. CASE UNCHANGED vars
    BY <1>1, MemberFrame DEF vars
  <1>2. ASSUME NEW p \in Signups, SignupStep(p)
        PROVE  MemberInv'
    BY <1>2, MemberFrame, CommitSignupMembers DEF SignupStep, BeginSignup, SignupFails
  <1>3. ASSUME NEW r \in Orders, (\E payment \in Payment : Pay(r, payment)) \/ LoseAck(r) \/ LoseKey(r)
        PROVE  MemberInv'
    BY <1>3, MemberFrame DEF Pay, LoseAck, LoseKey
  <1>4. ASSUME NEW d \in Deliveries, DeliveryStep(d)
        PROVE  MemberInv'
    BY <1>4, MemberFrame DEF DeliveryStep, Deliver, ClaimKey, Resend, Mark, MarkFails
  <1>5. ASSUME NEW l \in Logins, NEW a \in Accounts, BeginLogin(l, a)
        PROVE  MemberInv'
    BY <1>5, MemberFrame DEF BeginLogin
  <1>6. CASE (\E a \in Accounts : BeginDelete(a)) \/ DeleteFails
    BY <1>6, MemberFrame DEF BeginDelete, DeleteFails
  <1>7. QED
    BY <1>1, <1>2, <1>3, <1>4, <1>5, <1>6, LoginMembers, InvitationMembers, ExpireMembers,
       AcceptMembers, DeleteMembers DEF Next

\* Every user but the owner of an account that is not deleted is there because an invite to
\* that address, with that role, was used: a race of acceptances, mails, signups and
\* deletions puts nobody else in.
THEOREM MembersAreInvited == Spec => []MembersWereInvited
  <1>1. Init => MemberInv
    BY NullIsNoValue DEF Init, MemberInv, MailInv, MembersWereInvited, InvitationAt, Roles
  <1>2. MemberInv => MembersWereInvited
    BY DEF MemberInv
  <1>3. QED
    BY <1>1, <1>2, InitType, InitInv, NextType, NextInv, NextMembers, PTL DEF Spec

=============================================================================
