\* Signups, payments, the first login, an invite and a deletion interleaved.
CONSTANTS
    Accounts = {a1, a2}
    Emails = {owner, guest}
    OwnerEmail = owner
    Invites = {t1}
    Orders = {r1}
    Signups = {p1}
    Deliveries = {d1, d2}
    Logins = {l1}
    Invitations = {i1}
    Acceptances = {x1}
    MaxFaults = 1
    Null = Null
SPECIFICATION FairSpec
CONSTRAINT UnusualPaymentsApart
CHECK_DEADLOCK FALSE
INVARIANTS
    TypeOK
    DeletedIsVacated
    MembersWereInvited
    OwnerStays
    RecordedOnce
    AcknowledgedIsRecorded
PROPERTIES
    ActiveSurvivesSignup
    PaymentsAreAcknowledged
