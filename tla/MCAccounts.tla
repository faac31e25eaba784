------------------------------ MODULE MCAccounts ------------------------------
(* Small instances of Accounts for TLC.                                     *)
EXTENDS Accounts, TLC

\* Payments that do not name an account and a REFNO are looked at apart from the team.
TeamRests ==
    /\ \A a \in Accounts : ~HasUsers(a)
    /\ \A l \in Logins : login[l] = Null
UnusualPaymentsApart ==
    (\E r \in Orders : paid[r] # Null /\ (paid[r].account = Null \/ paid[r].number # "REFNO"))
        => TeamRests

=============================================================================
