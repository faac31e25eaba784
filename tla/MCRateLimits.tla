------------------------------ MODULE MCRateLimits ------------------------------
(* Small instances of RateLimits for TLC.                                   *)
EXTENDS RateLimits, TLC

\* Two endpoints that share a key: the stricter one admits one request, the other two.
MCEndpoints == {"strict", "lax"}
MCLimit == [e \in MCEndpoints |-> IF e = "strict" THEN 1 ELSE 2]

Symmetry == Permutations(Requests)

=============================================================================
