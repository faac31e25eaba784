------------------------------- MODULE Accounts -------------------------------
(***************************************************************************)
(* The life of a customer: signup and payment                              *)
(* (lib/services/billing.service.ts, app/api/webhooks/2checkout), the      *)
(* first user (app/api/auth/login), the team (lib/services/invite.service) *)
(* and deletion (app/api/account/delete).                                  *)
(*                                                                         *)
(* All accounts here are signups with one e-mail address, OwnerEmail:      *)
(* accounts with different addresses share nothing.  Account.email is      *)
(* unique, so at most one of them has a row.                               *)
(*                                                                         *)
(* Transactions run at the database's default level, read committed: what  *)
(* a transaction read may have changed by the time it commits.  Each is a  *)
(* read step and a commit step; unique and foreign keys hold at commit,    *)
(* and the transaction throws when they would not.                         *)
(*                                                                         *)
(* Bounds: Accounts and Invites are used once each; MaxFaults.             *)
(***************************************************************************)
EXTENDS Integers, FiniteSets

CONSTANTS
    Accounts,     \* ids of accounts
    Emails, OwnerEmail,
    Invites,      \* ids of invite tokens
    Orders,       \* 2Checkout payments (REFNO)
    Signups,      \* concurrent createAccount
    Deliveries,   \* concurrent POST /api/webhooks/2checkout
    Logins,       \* concurrent logins as the first user
    Invitations,  \* concurrent createInvite
    Acceptances,  \* concurrent acceptInvite
    MaxFaults,
    Null

ASSUME OwnerHasEmail == OwnerEmail \in Emails
ASSUME FaultBudget == MaxFaults \in Nat
ASSUME DeliveriesAreFinite == IsFiniteSet(Deliveries)

Roles == {"owner", "admin", "member"}
Present == {"pending", "active", "deleted"}      \* a row exists
Status == Present \cup {"new", "replaced"}

\* sent: the recipient has the link.  gone: the row was deleted.
InviteRow == [account: Accounts, email: Emails, role: {"admin", "member"},
              state: {"unsent", "sent", "used", "expired", "gone"}]
\* What a notification names: the account (MERCHANT_ORDER_ID, else EXTERNAL_REFERENCE), and
\* the number its idempotency key is made of (REFNO, else ORDERNO).
Payment == [account: Accounts \cup {Null}, number: {"REFNO", "ORDERNO", "none"}]
Delivery == [pc: {"key", "resend", "mark"}, order: Orders]
Invitation == [pc: {"check", "commit"}, account: Accounts, email: Emails,
               role: {"admin", "member"}] \cup [pc: {"mail"}, invite: Invites]
Closing == [account: Accounts, seen: SUBSET Emails]

ASSUME NullIsNoValue ==
    Null \notin Roles \cup Accounts \cup InviteRow \cup Payment \cup Delivery \cup Invitation
                      \cup Closing \cup Invites \cup {"create", "replace"}

VARIABLES
    account,      \* Account.status
    user,         \* roles of the users who have not been anonymised
    anonymised,   \* accounts with anonymised users
    invite,       \* table InviteToken
    paid,         \* 2Checkout: what the notifications of each order name
    acked,        \* 2Checkout: orders whose notification was answered 200
    keys,         \* Redis: idempotency keys webhook:2co:<refno>, by order
    signup, delivery, login, invitation, acceptance, closing,
    faults,
    \* History: written, never read, by the actions.
    recorded,     \* how often markAccountPaid updated a row for an order
    dropped,      \* orders that named no account with a row, or whose handling ended before
                  \* markAccountPaid with the key set, or already answered for
    crossed,      \* accounts activated while a signup was past its read
    late          \* accounts deleted while a request of theirs was in flight

people == <<user, anonymised, invite>>
billing == <<paid, acked, keys, recorded, dropped>>
teamProcs == <<login, invitation, acceptance, closing>>
vars == <<account, people, billing, signup, delivery, teamProcs, faults, crossed, late>>

TypeOK ==
    /\ account \in [Accounts -> Status]
    /\ user \in [Accounts -> [Emails -> Roles \cup {Null}]]
    /\ anonymised \in SUBSET Accounts
    /\ invite \in [Invites -> InviteRow \cup {Null}]
    /\ paid \in [Orders -> Payment \cup {Null}]
    /\ acked \in SUBSET Orders
    /\ keys \in SUBSET Orders
    /\ signup \in [Signups -> {Null, "create", "replace"}]
    /\ delivery \in [Deliveries -> Delivery \cup {Null}]
    /\ login \in [Logins -> Accounts \cup {Null}]
    /\ invitation \in [Invitations -> Invitation \cup {Null}]
    /\ acceptance \in [Acceptances -> Invites \cup {Null}]
    /\ closing \in Closing \cup {Null}
    /\ faults \in 0..MaxFaults
    /\ recorded \in [Orders -> Nat]
    /\ dropped \in SUBSET Orders
    /\ crossed \in SUBSET Accounts
    /\ late \in SUBSET Accounts
    /\ \A d \in Deliveries : delivery[d] # Null => paid[delivery[d].order] # Null
    /\ \A i \in Invitations : invitation[i] # Null /\ invitation[i].pc = "mail"
                                => invite[invitation[i].invite] # Null
    /\ \A x \in Acceptances : acceptance[x] # Null => invite[acceptance[x]] # Null

Init ==
    /\ account = [a \in Accounts |-> "new"]
    /\ user = [a \in Accounts |-> [e \in Emails |-> Null]]
    /\ anonymised = {}
    /\ invite = [t \in Invites |-> Null]
    /\ paid = [r \in Orders |-> Null]
    /\ acked = {} /\ keys = {}
    /\ signup = [p \in Signups |-> Null]
    /\ delivery = [d \in Deliveries |-> Null]
    /\ login = [l \in Logins |-> Null]
    /\ invitation = [i \in Invitations |-> Null]
    /\ acceptance = [x \in Acceptances |-> Null]
    /\ closing = Null
    /\ faults = 0
    /\ recorded = [r \in Orders |-> 0]
    /\ dropped = {} /\ crossed = {} /\ late = {}

Fault == faults < MaxFaults /\ faults' = faults + 1

Current == {a \in Accounts : account[a] \in Present}
Users(a) == {e \in Emails : user[a][e] # Null}
HasUsers(a) == Users(a) # {} \/ a \in anonymised

-----------------------------------------------------------------------------
(* createAccount *)

\* account.findUnique in the transaction; an active account ends the signup.
\* Bound: a signup begins only if an account id is left for it.
BeginSignupUnchecked(p) ==
    /\ signup[p] = Null
    /\ Cardinality({q \in Signups : signup[q] # Null})
         < Cardinality({a \in Accounts : account[a] = "new"})
    /\ signup' = [signup EXCEPT ![p] = IF Current = {} THEN "create" ELSE "replace"]
    /\ UNCHANGED <<account, people, billing, delivery, teamProcs, faults, crossed, late>>
BeginSignup(p) ==
    /\ signup[p] = Null
    /\ Cardinality({q \in Signups : signup[q] # Null})
         < Cardinality({a \in Accounts : account[a] = "new"})
    /\ \A a \in Current : account[a] # "active"
    /\ signup' = [signup EXCEPT ![p] = IF Current = {} THEN "create" ELSE "replace"]
    /\ UNCHANGED <<account, people, billing, delivery, teamProcs, faults, crossed, late>>

\* account.delete by e-mail, of whatever row has it by now, with its users and invites
\* (onDelete: Cascade), then account.create.
CommitSignupDraft(p) ==
    /\ signup[p] # Null
    /\ (signup[p] = "create") <=> (Current = {})
    /\ \E b \in Accounts :
         /\ account[b] = "new"
         /\ account' = [a \in Accounts |-> IF a = b THEN "draft"
                                           ELSE IF a \in Current THEN "replaced" ELSE account[a]]
    /\ signup' = [signup EXCEPT ![p] = Null]
    /\ UNCHANGED <<people, billing, delivery, teamProcs, faults, crossed, late>>
CommitSignup(p) ==
    /\ signup[p] # Null
    /\ (signup[p] = "create") <=> (Current = {})
    /\ \E b \in Accounts :
         /\ account[b] = "new"
         /\ account' = [a \in Accounts |-> IF a = b THEN "pending"
                                           ELSE IF a \in Current THEN "replaced" ELSE account[a]]
    /\ user' = [a \in Accounts |-> IF a \in Current THEN [e \in Emails |-> Null] ELSE user[a]]
    /\ anonymised' = anonymised \ Current
    /\ invite' = [t \in Invites |-> IF invite[t] # Null /\ invite[t].account \in Current
                                    THEN [invite[t] EXCEPT !.state = "gone"] ELSE invite[t]]
    /\ signup' = [signup EXCEPT ![p] = Null]
    /\ UNCHANGED <<billing, delivery, teamProcs, faults, crossed, late>>

\* The row to replace is gone, or the address is taken by now, or the database fails.
SignupFails(p) ==
    /\ signup[p] # Null
    /\ \/ ((signup[p] = "create") <=> (Current # {})) /\ UNCHANGED faults
       \/ Fault
    /\ signup' = [signup EXCEPT ![p] = Null]
    /\ UNCHANGED <<account, people, billing, delivery, teamProcs, crossed, late>>

-----------------------------------------------------------------------------
(* 2Checkout and POST /api/webhooks/2checkout *)

\* The customer follows the payment link of an account, whatever became of the account, or
\* pays without one.
Pay(r, payment) ==
    /\ paid[r] = Null
    /\ payment.account # Null => account[payment.account] # "new"
    /\ paid' = [paid EXCEPT ![r] = payment]
    /\ UNCHANGED <<account, people, acked, keys, recorded, dropped, signup, delivery,
                   teamProcs, faults, crossed, late>>

\* A signed notification of success; repeated until answered 200.
Deliver(d, r) ==
    /\ delivery[d] = Null
    /\ paid[r] # Null
    /\ r \notin acked
    /\ delivery' = [delivery EXCEPT ![d] = [pc |-> "key", order |-> r]]
    /\ UNCHANGED <<account, people, billing, signup, teamProcs, faults, crossed, late>>

DeliveryAt(d, pc) == delivery[d] # Null /\ delivery[d].pc = pc
Proceed(d, pc) == delivery' = [delivery EXCEPT ![d].pc = pc]
EndDelivery(d) == delivery' = [delivery EXCEPT ![d] = Null]
Answer200(d) == acked' = acked \cup {delivery[d].order} /\ EndDelivery(d)

Numbered(r) == paid[r].number # "none"
\* REFNO stands in for a missing account id (and is the id of no row).
Addressed(r) == paid[r].account # Null \/ paid[r].number = "REFNO"

\* Past the key: without an account id the notification is answered 200 there and then.
PassKey(d) ==
    LET r == delivery[d].order IN
    \/ Addressed(r) /\ Proceed(d, "mark") /\ UNCHANGED <<acked, dropped>>
    \/ ~Addressed(r) /\ Answer200(d) /\ dropped' = dropped \cup {r}

\* redis.set(key, "1", "EX", 24 h, "NX") is executed, and the handler is not told.
SetUnheard(r) ==
    /\ keys' = keys \cup {r}
    /\ dropped' = IF r \in keys THEN dropped ELSE dropped \cup {r}

\* One sending of the command: the key is set before the account is updated, and stays when
\* the update fails; a key that is there ends the request with 200.
SetKeyWithoutNX(d) ==
    keys' = keys \cup {delivery[d].order} /\ PassKey(d) /\ UNCHANGED faults
SetKeyConflict(d) ==
    LET r == delivery[d].order IN
    \/ r \notin keys /\ keys' = keys \cup {r} /\ PassKey(d) /\ UNCHANGED faults
    \/ r \in keys /\ EndDelivery(d) /\ UNCHANGED <<acked, keys, dropped, faults>>
SetKey(d) ==
    LET r == delivery[d].order IN
    \/ r \notin keys /\ keys' = keys \cup {r} /\ PassKey(d) /\ UNCHANGED faults
    \/ r \in keys /\ Answer200(d) /\ UNCHANGED <<keys, dropped, faults>>
    \* The reply is lost with the connection: the client will send the command again.
    \/ Fault /\ SetUnheard(r) /\ Proceed(d, "resend") /\ UNCHANGED acked
    \* The client throws (500) or the process dies, with the command executed or not.
    \/ Fault /\ EndDelivery(d) /\ UNCHANGED acked
       /\ (SetUnheard(r) \/ UNCHANGED <<keys, dropped>>)

\* A notification without a number has no key; nor is there one without a Redis client.
ClaimKeyNeedsRedis(d) ==
    /\ DeliveryAt(d, "key")
    /\ \/ ~Numbered(delivery[d].order) /\ PassKey(d) /\ UNCHANGED <<keys, faults>>
       \/ Numbered(delivery[d].order) /\ SetKey(d)
       \/ Numbered(delivery[d].order) /\ Fault /\ Answer200(d) /\ UNCHANGED <<keys, dropped>>
    /\ UNCHANGED <<account, people, paid, recorded, signup, teamProcs, crossed, late>>
ClaimKey(d) ==
    /\ DeliveryAt(d, "key")
    /\ \/ ~Numbered(delivery[d].order) /\ PassKey(d) /\ UNCHANGED <<keys, faults>>
       \/ Numbered(delivery[d].order) /\ SetKey(d)
       \/ Numbered(delivery[d].order) /\ Fault /\ PassKey(d) /\ UNCHANGED keys
    /\ UNCHANGED <<account, people, paid, recorded, signup, teamProcs, crossed, late>>

\* ioredis sends an unanswered command again on its next connection: the handler is told of
\* the key it has set itself.
Resend(d) ==
    /\ DeliveryAt(d, "resend")
    /\ SetKey(d)
    /\ UNCHANGED <<account, people, paid, recorded, signup, teamProcs, crossed, late>>

\* markAccountPaid: updateMany by id, whatever the status was; no row is no error.
Mark(d) ==
    LET r == delivery[d].order
        a == paid[r].account IN
    /\ DeliveryAt(d, "mark")
    /\ \/ /\ a \in Current
          /\ account' = [account EXCEPT ![a] = "active"]
          /\ crossed' = IF \E p \in Signups : signup[p] # Null
                        THEN crossed \cup {a} ELSE crossed
          /\ recorded' = [recorded EXCEPT ![r] = @ + 1]
          /\ UNCHANGED dropped
       \/ /\ a \notin Current
          /\ dropped' = dropped \cup {r}
          /\ UNCHANGED <<account, crossed, recorded>>
    /\ Answer200(d)
    /\ UNCHANGED <<people, paid, keys, signup, teamProcs, faults, late>>

\* The update throws (500) or the process dies before it.
MarkFails(d) ==
    LET r == delivery[d].order IN
    /\ DeliveryAt(d, "mark")
    /\ Fault
    /\ dropped' = IF r \in keys \cup acked THEN dropped \cup {r} ELSE dropped
    /\ EndDelivery(d)
    /\ UNCHANGED <<account, people, paid, acked, keys, recorded, signup, teamProcs, crossed, late>>

\* The 200 does not reach 2Checkout; the key expires or Redis loses it.
LoseAck(r) ==
    /\ r \in acked
    /\ Fault
    /\ acked' = acked \ {r}
    /\ UNCHANGED <<account, people, paid, keys, recorded, dropped, signup, delivery, teamProcs,
                   crossed, late>>
LoseKey(r) ==
    /\ r \in keys
    /\ Fault
    /\ keys' = keys \ {r}
    /\ UNCHANGED <<account, people, paid, acked, recorded, dropped, signup, delivery, teamProcs,
                   crossed, late>>

-----------------------------------------------------------------------------
(* The first login of an account: user.count is 0, then user.create as owner *)

BeginLogin(l, a) ==
    /\ login[l] = Null
    /\ a \in Current
    /\ ~HasUsers(a)
    /\ login' = [login EXCEPT ![l] = a]
    /\ UNCHANGED <<account, people, billing, signup, delivery, invitation, acceptance, closing,
                   faults, crossed, late>>

\* Throws when the account is gone, or another login created the user.
CreateOwner(l) ==
    LET a == login[l] IN
    /\ a # Null
    /\ \/ /\ a \in Current /\ user[a][OwnerEmail] = Null
          /\ user' = [user EXCEPT ![a][OwnerEmail] = "owner"]
          /\ UNCHANGED faults
       \/ /\ ~(a \in Current /\ user[a][OwnerEmail] = Null)
          /\ UNCHANGED <<user, faults>>
       \/ Fault /\ UNCHANGED user
    /\ login' = [login EXCEPT ![l] = Null]
    /\ UNCHANGED <<account, anonymised, invite, billing, signup, delivery, invitation, acceptance,
                   closing, crossed, late>>

-----------------------------------------------------------------------------
(* createInvite *)

InvitationAt(i, pc) == invitation[i] # Null /\ invitation[i].pc = pc
EndInvitation(i) == invitation' = [invitation EXCEPT ![i] = Null]

\* withPermission("users:invite").  A session cached before a deletion and used after it is
\* a request authorised before it.
Authorise(i, a, e, role) ==
    /\ invitation[i] = Null
    /\ \E inviter \in Emails : user[a][inviter] \in {"owner", "admin"}
    /\ invitation' = [invitation EXCEPT ![i] =
           [pc |-> "check", account |-> a, email |-> e, role |-> role]]
    /\ UNCHANGED <<account, people, billing, signup, delivery, login, acceptance, closing,
                   faults, crossed, late>>

\* A user with this address ends the request (no user ever has the status invited).
CheckInviteeSkipped(i) ==
    /\ InvitationAt(i, "check")
    /\ invitation' = [invitation EXCEPT ![i].pc = "commit"]
    /\ UNCHANGED <<account, people, billing, signup, delivery, login, acceptance, closing,
                   faults, crossed, late>>
CheckInvitee(i) ==
    /\ InvitationAt(i, "check")
    /\ IF user[invitation[i].account][invitation[i].email] = Null
       THEN invitation' = [invitation EXCEPT ![i].pc = "commit"]
       ELSE EndInvitation(i)
    /\ UNCHANGED <<account, people, billing, signup, delivery, login, acceptance, closing,
                   faults, crossed, late>>

Rows(a, e) == {t \in Invites :
    invite[t] # Null /\ invite[t].state # "gone" /\ invite[t].account = a /\ invite[t].email = e}

\* The transaction marks earlier invites used and creates one; (account, e-mail) is unique, so
\* with any earlier row it throws and the marking is rolled back.
CommitInvite(i) ==
    LET req == invitation[i] IN
    /\ InvitationAt(i, "commit")
    /\ \/ /\ req.account \in Current
          /\ Rows(req.account, req.email) = {}
          /\ \E t \in Invites :
               /\ invite[t] = Null
               /\ invite' = [invite EXCEPT ![t] = [account |-> req.account, email |-> req.email,
                                                  role |-> req.role, state |-> "unsent"]]
               /\ invitation' = [invitation EXCEPT ![i] = [pc |-> "mail", invite |-> t]]
          /\ UNCHANGED faults
       \/ /\ req.account \notin Current \/ Rows(req.account, req.email) # {}
          /\ EndInvitation(i)
          /\ UNCHANGED <<invite, faults>>
       \/ Fault /\ EndInvitation(i) /\ UNCHANGED invite
    /\ UNCHANGED <<account, user, anonymised, billing, signup, delivery, login, acceptance, closing,
                   crossed, late>>

\* sendEmail; when it fails the row is deleted, and a failure of that is ignored.
MailInvite(i) ==
    LET t == invitation[i].invite
        To(state) == invite' = IF invite[t].state = "gone" THEN invite
                               ELSE [invite EXCEPT ![t].state = state] IN
    /\ InvitationAt(i, "mail")
    /\ \/ To("sent") /\ UNCHANGED faults
       \/ Fault /\ To("gone")
       \/ Fault /\ UNCHANGED invite
    /\ EndInvitation(i)
    /\ UNCHANGED <<account, user, anonymised, billing, signup, delivery, login, acceptance, closing,
                   crossed, late>>

\* INVITE_EXPIRY_HOURS pass.
Expire(t) ==
    /\ invite[t] # Null /\ invite[t].state = "sent"
    /\ invite' = [invite EXCEPT ![t].state = "expired"]
    /\ UNCHANGED <<account, user, anonymised, billing, signup, delivery, teamProcs, faults,
                   crossed, late>>

-----------------------------------------------------------------------------
(* acceptInvite *)

\* The validation inside acceptInvite; the route's own, and the password it then sets in
\* ERPNext, come before and leave nothing here.
BeginAccept(x, t) ==
    /\ acceptance[x] = Null
    /\ invite[t] # Null /\ invite[t].state = "sent"
    /\ acceptance' = [acceptance EXCEPT ![x] = t]
    /\ UNCHANGED <<account, people, billing, signup, delivery, login, invitation, closing,
                   faults, crossed, late>>

\* The transaction: mark the row by id (it throws when the row is gone), count, upsert.
CommitAcceptUnmarked(x) ==
    LET t == acceptance[x]
        a == invite[t].account
        e == invite[t].email IN
    /\ t # Null
    /\ invite[t].state # "gone"
    /\ user' = [user EXCEPT ![a][e] =
           IF HasUsers(a) THEN invite[t].role ELSE "owner"]
    /\ acceptance' = [acceptance EXCEPT ![x] = Null]
    /\ UNCHANGED <<account, anonymised, invite, billing, signup, delivery, login, invitation,
                   closing, faults, crossed, late>>
CommitAccept(x) ==
    LET t == acceptance[x]
        a == invite[t].account
        e == invite[t].email IN
    /\ t # Null
    /\ \/ /\ invite[t].state # "gone"
          /\ invite' = [invite EXCEPT ![t].state = "used"]
          /\ user' = [user EXCEPT ![a][e] =
                 IF HasUsers(a) THEN invite[t].role ELSE "owner"]
          /\ UNCHANGED faults
       \/ invite[t].state = "gone" /\ UNCHANGED <<invite, user, faults>>
       \/ Fault /\ UNCHANGED <<invite, user>>
    /\ acceptance' = [acceptance EXCEPT ![x] = Null]
    /\ UNCHANGED <<account, anonymised, billing, signup, delivery, login, invitation, closing,
                   crossed, late>>

-----------------------------------------------------------------------------
(* DELETE /api/account/delete, by an owner *)

\* The transaction reads the users first.
BeginDelete(a) ==
    /\ closing = Null
    /\ \E e \in Emails : user[a][e] = "owner"
    /\ closing' = [account |-> a, seen |-> Users(a)]
    /\ UNCHANGED <<account, people, billing, signup, delivery, login, invitation, acceptance,
                   faults, crossed, late>>

\* Requests of this account past their checks.
InFlight(a) ==
    \/ \E l \in Logins : login[l] = a
    \/ \E i \in Invitations : ~InvitationAt(i, "mail") /\ invitation[i] # Null
                                /\ invitation[i].account = a
    \/ Users(a) # closing.seen     \* someone joined since the read

\* It anonymises the users it read, deletes the invites and marks the account deleted.
CommitDeleteKeepsInvites ==
    LET a == closing.account IN
    /\ closing # Null
    /\ a \in Current
    /\ user' = [user EXCEPT ![a] = [e \in Emails |-> IF e \in closing.seen THEN Null ELSE @[e]]]
    /\ anonymised' = anonymised \cup {a}
    /\ account' = [account EXCEPT ![a] = "deleted"]
    /\ late' = IF InFlight(a) THEN late \cup {a} ELSE late
    /\ closing' = Null
    /\ UNCHANGED <<invite, billing, signup, delivery, login, invitation, acceptance, faults, crossed>>
CommitDelete ==
    LET a == closing.account IN
    /\ closing # Null
    /\ a \in Current
    /\ user' = [user EXCEPT ![a] = [e \in Emails |-> IF e \in closing.seen THEN Null ELSE @[e]]]
    /\ anonymised' = anonymised \cup {a}
    /\ invite' = [t \in Invites |-> IF invite[t] # Null /\ invite[t].account = a
                                    THEN [invite[t] EXCEPT !.state = "gone"] ELSE invite[t]]
    /\ account' = [account EXCEPT ![a] = "deleted"]
    /\ late' = IF InFlight(a) THEN late \cup {a} ELSE late
    /\ closing' = Null
    /\ UNCHANGED <<billing, signup, delivery, login, invitation, acceptance, faults, crossed>>

\* The account was replaced meanwhile, or the database fails: nothing is changed.
DeleteFails ==
    /\ closing # Null
    /\ (closing.account \notin Current /\ UNCHANGED faults) \/ Fault
    /\ closing' = Null
    /\ UNCHANGED <<account, people, billing, signup, delivery, login, invitation, acceptance,
                   crossed, late>>

-----------------------------------------------------------------------------

SignupStep(p) == BeginSignup(p) \/ CommitSignup(p) \/ SignupFails(p)

DeliveryStep(d) ==
    \/ \E r \in Orders : Deliver(d, r)
    \/ ClaimKey(d)
    \/ Resend(d)
    \/ Mark(d)
    \/ MarkFails(d)

InvitationStep(i) ==
    \/ \E a \in Accounts, e \in Emails, role \in {"admin", "member"} : Authorise(i, a, e, role)
    \/ CheckInvitee(i)
    \/ CommitInvite(i)
    \/ MailInvite(i)

Next ==
    \/ \E p \in Signups : SignupStep(p)
    \/ \E r \in Orders, payment \in Payment : Pay(r, payment)
    \/ \E d \in Deliveries : DeliveryStep(d)
    \/ \E r \in Orders : LoseAck(r) \/ LoseKey(r)
    \/ \E l \in Logins : (\E a \in Accounts : BeginLogin(l, a)) \/ CreateOwner(l)
    \/ \E i \in Invitations : InvitationStep(i)
    \/ \E t \in Invites : Expire(t)
    \/ \E x \in Acceptances : (\E t \in Invites : BeginAccept(x, t)) \/ CommitAccept(x)
    \/ \E a \in Accounts : BeginDelete(a)
    \/ CommitDelete
    \/ DeleteFails

Spec == Init /\ [][Next]_vars

\* 2Checkout repeats a notification until it is answered, and a handler that has begun runs on.
FairSpec ==
    /\ Spec
    /\ \A r \in Orders : WF_vars(\E d \in Deliveries : Deliver(d, r))
    /\ \A d \in Deliveries : WF_vars(ClaimKey(d)) /\ WF_vars(Resend(d)) /\ WF_vars(Mark(d))

-----------------------------------------------------------------------------
(* What the proofs rest on *)

\* The row exists, or will not be found by an update of its id.
Standing(t) == invite[t] # Null /\ invite[t].state # "gone"
Asking(i) == InvitationAt(i, "check") \/ InvitationAt(i, "commit")

\* Foreign keys: users, anonymised or not, and invites only of accounts that have a row.
RowsInv ==
    /\ \A a \in Accounts : HasUsers(a) => a \in Current
    /\ \A t \in Invites : Standing(t) => invite[t].account \in Current
    /\ \A i \in Invitations : Asking(i) => account[invitation[i].account] # "new"

\* Until a deletion, an account with users has its owner, and whatever is on its way to
\* become an invite, or is one, is addressed to someone else.
OwnerInv ==
    /\ \A a \in Accounts \ anonymised : Users(a) # {} => user[a][OwnerEmail] = "owner"
    /\ \A t \in Invites : Standing(t) /\ invite[t].account \notin anonymised =>
         /\ Users(invite[t].account) # {}
         /\ invite[t].email # OwnerEmail
    /\ \A i \in Invitations :
         Asking(i) /\ invitation[i].account \in Current \ anonymised =>
           /\ Users(invitation[i].account) # {}
           /\ invitation[i].pc = "commit" => invitation[i].email # OwnerEmail

\* What could still add a user to a deleted account is accounted for in late.
VacatedInv ==
    /\ \A a \in anonymised \ late : Users(a) = {} /\ \A t \in Invites : Standing(t) => invite[t].account # a
    /\ \A l \in Logins : login[l] \in anonymised => login[l] \in late
    /\ \A i \in Invitations :
         Asking(i) /\ invitation[i].account \in anonymised => invitation[i].account \in late

\* The inductive invariant behind OwnerStays and DeletedIsVacated.
AccountInv == RowsInv /\ OwnerInv /\ VacatedInv

\* An invite being mailed is mailed by one request, and nobody has been given its link yet.
MailInv ==
    /\ \A i, j \in Invitations :
         InvitationAt(i, "mail") /\ InvitationAt(j, "mail")
           /\ invitation[i].invite = invitation[j].invite => i = j
    /\ \A i \in Invitations :
         InvitationAt(i, "mail") => invite[invitation[i].invite].state \in {"unsent", "gone"}
    /\ \A x \in Acceptances : acceptance[x] # Null => invite[acceptance[x]].state # "unsent"

\* The handlers that hold the right to record an order.
Marks(r) == {d \in Deliveries : DeliveryAt(d, "mark") /\ delivery[d].order = r}

\* An order with a number was recorded, is being recorded, or is free to be claimed: once in
\* all, and once more per fault.
Keyed(r) == paid[r] # Null => Numbered(r)
ClaimInv ==
    \A r \in Orders : Keyed(r) =>
        recorded[r] + Cardinality(Marks(r)) + (IF r \in keys THEN 0 ELSE 1) <= 1 + faults

\* A key that is set, like an answer 200, stands for a handler that will record the order, or did.
KeyInv == \A r \in (acked \cup keys) \ dropped : Marks(r) # {} \/ recorded[r] > 0

\* An account active under the eyes of a signup was activated after the signup's read.
CrossedInv ==
    (\E p \in Signups : signup[p] # Null) =>
        \A a \in Accounts : account[a] = "active" => a \in crossed

-----------------------------------------------------------------------------
(* Properties *)

\* A deleted account is empty, unless one of its requests was in flight when it was deleted:
\* no stale invite, login or acceptance puts a user back into it.
DeletedIsVacated ==
    \A a \in anonymised \ late :
        /\ Users(a) = {}
        /\ \A t \in Invites : invite[t] # Null /\ invite[t].account = a => invite[t].state = "gone"

\* CHANGELOG.md:68: "all subsequent users must be invited".  Every user but the owner joined
\* by a used invite to that address, with the role it names.  (A deletion removes the invites,
\* and keeps a user who joined while it ran.)
MembersWereInvited ==
    \A a \in Accounts \ anonymised, e \in Emails : user[a][e] \in {"admin", "member"} =>
        \E t \in Invites : invite[t] = [account |-> a, email |-> e, role |-> user[a][e],
                                        state |-> "used"]

\* An account with users keeps an owner until it is deleted: no invite, however late it is
\* accepted, replaces the owner's role.
OwnerStays ==
    \A a \in Accounts \ anonymised : Users(a) # {} => user[a][OwnerEmail] = "owner"

\* Signup replaces an account that has been activated only if the activation fell between
\* the signup's read and its commit.
ActiveSurvivesSignup ==
    [][\A a \in Accounts : account[a] = "active" /\ account'[a] = "replaced" => a \in crossed]_vars

\* A payment with an order number is recorded at most once, however often and concurrently
\* its notification is delivered, except for one more time per fault (a key lost, no Redis).
RecordedOnce ==
    \A r \in Orders : paid[r] # Null /\ Numbered(r) => recorded[r] <= 1 + faults

\* A payment answered 200 has been recorded, or is about to be: a handler that ends as a
\* duplicate, and a handler that fails before it sets the key, leave it to another.  The
\* exceptions, in dropped: the notification named no account that has a row; a handler failed
\* with the key set, or after the order was answered for; the key was set by a command whose
\* reply the handler never had (it takes its own key for another's, or has gone).
AcknowledgedIsRecorded ==
    \A r \in acked \ dropped : Marks(r) # {} \/ recorded[r] > 0

\* 2Checkout's repetitions end: every payment is eventually answered 200.
PaymentsAreAcknowledged == \A r \in Orders : paid[r] # Null ~> r \in acked

=============================================================================
