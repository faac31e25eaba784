----------------------------- MODULE MCCredentials -----------------------------
(* Small instances of Credentials for TLC.                                  *)
EXTENDS Credentials, Combinatorics, TLC

Symmetry ==
    UNION {Permutations(Logins), Permutations(Requests), Permutations(Applies),
           Permutations(Tokens), Permutations(Sessions), Permutations(Passwords)}

\* The bound of GuessesBounded is a binomial coefficient.
ASSUME ProfilesAreCounted ==
    \A n, t \in 1..4 : Cardinality(Profiles(n, t)) = choose(n + t - 1, n)

=============================================================================
