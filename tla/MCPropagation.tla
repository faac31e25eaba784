----------------------------- MODULE MCPropagation -----------------------------
(* Small instances of Propagation for TLC.                                  *)
EXTENDS Propagation, TLC

\* The document and the flag share nothing but Realtime: each is followed where the other rests.
\* A connection to Redis breaks while the flag has not changed; the state in which the
\* publication of a changed flag has failed is checked and not left.
OneAtATime ==
    \/ document = 0 /\ (\A j \in Jobs : At(j, "unused")) /\ flag + faults <= 1
    \/ flag = 0 /\ \A s \in Streams : stream[s] = "unused"

=============================================================================
