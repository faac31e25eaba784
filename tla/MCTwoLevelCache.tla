----------------------------- MODULE MCTwoLevelCache -----------------------------
(* Small instances of TwoLevelCache for TLC.                                *)
EXTENDS TwoLevelCache, TLC

\* The life of an answer is followed to its end, through three calls, where nothing is
\* invalidated and nothing fails.  Races with invalidations and faults need less time: there, two
\* calls or invalidations overlap, and what happens in all is bounded.
Bounded ==
    LET calls == {c \in Calls : ~At(c, "new")}
        invalidations == {i \in Invalidations : ~InvalidationAt(i, "new")}
    IN  faults > 0 \/ invalidations # {} =>
            /\ Cardinality({c \in calls : Active(c)})
                   + Cardinality({i \in invalidations : Invalidating(i)}) <= 2
            /\ Cardinality(calls) + now + 2 * (Cardinality(invalidations) + faults) <= 6

Symmetry == Permutations(Calls) \cup Permutations(Processes) \cup Permutations(Invalidations)

=============================================================================
