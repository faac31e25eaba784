-------------------------------- MODULE ErpClient --------------------------------
(***************************************************************************)
(* fetchErp of lib/data/erpnext.client.ts, for the calls that create a      *)
(* document (erpCreate): a POST that is sent again when the connection      *)
(* fails or the ERP system is busy, at most MAX_ATTEMPTS times, and given   *)
(* up at once when it times out or is refused.  A POST is not idempotent    *)
(* and carries no key by which the ERP system could recognise a repetition. *)
(*                                                                         *)
(* A request the client has stopped waiting for is still on its way: the    *)
(* ERP system may execute it later, or never.  Callers begin calls with     *)
(* CallErp and read their outcome from client.  Bounds: each member of      *)
(* Creates is one call, used once; MaxFaults, shared with the callers.      *)
(***************************************************************************)
EXTENDS Integers, FiniteSets

CONSTANTS Creates, MAX_ATTEMPTS, MaxFaults

ASSUME AttemptsArePositive == MAX_ATTEMPTS \in Nat \ {0}
ASSUME FaultsAreCounted == MaxFaults \in Nat

VARIABLES
    client,       \* what the caller knows of its call
    attempt,      \* how many requests the call has sent
    request,      \* request[c][i]: what the ERP system has made of request i
    faults,
    lost          \* History: how many requests of the call were left without an answer

erp == <<client, attempt, request, lost>>

Attempts == 1..MAX_ATTEMPTS

ErpTypeOK ==
    /\ client \in [Creates -> {"idle", "waiting", "created", "failed"}]
    /\ attempt \in [Creates -> 0..MAX_ATTEMPTS]
    /\ request \in [Creates -> [Attempts -> {"unsent", "sent", "created", "refused", "busy"}]]
    /\ faults \in 0..MaxFaults
    /\ lost \in [Creates -> 0..MAX_ATTEMPTS]

ErpInit ==
    /\ client = [c \in Creates |-> "idle"]
    /\ attempt = [c \in Creates |-> 0]
    /\ request = [c \in Creates |-> [i \in Attempts |-> "unsent"]]
    /\ faults = 0
    /\ lost = [c \in Creates |-> 0]

Fault ==
    /\ faults < MaxFaults
    /\ faults' = faults + 1

\* erpCreate for each call of a set: the first request is sent.
CallErp(calls) ==
    /\ \A c \in calls : client[c] = "idle"
    /\ client' = [c \in Creates |-> IF c \in calls THEN "waiting" ELSE client[c]]
    /\ attempt' = [c \in Creates |-> IF c \in calls THEN 1 ELSE attempt[c]]
    /\ request' = [c \in Creates |->
           IF c \in calls THEN [request[c] EXCEPT ![1] = "sent"] ELSE request[c]]
    /\ UNCHANGED lost

\* Another request, unless this was the last attempt.
ResendOnceMore(c) ==
    IF attempt[c] > MAX_ATTEMPTS
    THEN /\ client' = [client EXCEPT ![c] = "failed"]
         /\ UNCHANGED <<attempt, request>>
    ELSE /\ attempt' = [attempt EXCEPT ![c] = @ + 1]
         /\ request' = [request EXCEPT ![c][attempt[c] + 1] = "sent"]
         /\ UNCHANGED client
Resend(c) ==
    IF attempt[c] = MAX_ATTEMPTS
    THEN /\ client' = [client EXCEPT ![c] = "failed"]
         /\ UNCHANGED <<attempt, request>>
    ELSE /\ attempt' = [attempt EXCEPT ![c] = @ + 1]
         /\ request' = [request EXCEPT ![c][attempt[c] + 1] = "sent"]
         /\ UNCHANGED client

\* The ERP system executes a request, whether or not the client still waits for it.
Execute(c, i) ==
    /\ request[c][i] = "sent"
    /\ \E outcome \in {"created", "refused", "busy"} :
        request' = [request EXCEPT ![c][i] = outcome]
    /\ UNCHANGED <<client, attempt, faults, lost>>

\* res.ok, or a status that is not retried: the answer is the call's outcome.
AnswerAnyStatus(c) ==
    /\ client[c] = "waiting"
    /\ request[c][attempt[c]] \in {"created", "refused"}
    /\ client' = [client EXCEPT ![c] = "created"]
    /\ UNCHANGED <<attempt, request, faults, lost>>
Answer(c) ==
    /\ client[c] = "waiting"
    /\ request[c][attempt[c]] \in {"created", "refused"}
    /\ client' = [client EXCEPT ![c] =
           IF request[c][attempt[c]] = "created" THEN "created" ELSE "failed"]
    /\ UNCHANGED <<attempt, request, faults, lost>>

\* 502, 503 or 429: the system is busy and has created nothing.
Busy(c) ==
    /\ client[c] = "waiting"
    /\ request[c][attempt[c]] = "busy"
    /\ Resend(c)
    /\ UNCHANGED <<faults, lost>>

\* A TypeError of fetch, or a gateway's 502 for an answer it did not get: the request may have
\* been executed, may be executed yet, or never.
LoseAnswer(c) ==
    /\ client[c] = "waiting"
    /\ Fault
    /\ lost' = [lost EXCEPT ![c] = @ + 1]
    /\ Resend(c)

\* The time-out of the request, or an answer that is no JSON: not retried.
GiveUp(c) ==
    /\ client[c] = "waiting"
    /\ Fault
    /\ lost' = [lost EXCEPT ![c] = @ + 1]
    /\ client' = [client EXCEPT ![c] = "failed"]
    /\ UNCHANGED <<attempt, request>>

ErpStep(c) ==
    \/ \E i \in Attempts : Execute(c, i)
    \/ Answer(c)
    \/ Busy(c)
    \/ LoseAnswer(c)
    \/ GiveUp(c)

-----------------------------------------------------------------------------

Documents(c) == {i \in Attempts : request[c][i] = "created"}

\* A call that reports success has created a document, and every document beyond the one
\* reported belongs to a request whose answer was lost: retries duplicate, and failures hide, a
\* document only then.
DocumentsAreAccounted ==
    \A c \in Creates :
        /\ client[c] = "created" => Documents(c) # {}
        /\ Cardinality(Documents(c)) <=
               lost[c] + (IF client[c] \in {"waiting", "created"} THEN 1 ELSE 0)

=============================================================================
