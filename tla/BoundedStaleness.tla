----------------------------- MODULE BoundedStaleness -----------------------------
(***************************************************************************)
(* What a cache in front of a changing source promises its readers: an      *)
(* answer is a version that was current at most BOUND ago.                  *)
(***************************************************************************)
EXTENDS Integers, Sequences

CONSTANTS Readers, BOUND, None

VARIABLES
    now,
    replaced,   \* the times at which the first, second, ... version was replaced
    answer      \* answer[r]: the version r was given

abstract == <<now, replaced, answer>>

Current == Len(replaced) + 1

\* Version v was the current one at time t or later.
CurrentSince(v, t) ==
    \/ v = Current
    \/ v \in DOMAIN replaced /\ replaced[v] >= t

AbstractInit ==
    /\ now = 0
    /\ replaced = <<>>
    /\ answer = [r \in Readers |-> None]

Write ==
    /\ replaced' = Append(replaced, now)
    /\ UNCHANGED <<now, answer>>

Pass ==
    /\ now' = now + 1
    /\ UNCHANGED <<replaced, answer>>

Reply(r) ==
    /\ answer[r] = None
    /\ \E v \in 1..Current :
        /\ CurrentSince(v, now - BOUND)
        /\ answer' = [answer EXCEPT ![r] = v]
    /\ UNCHANGED <<now, replaced>>

AbstractNext == Write \/ Pass \/ \E r \in Readers : Reply(r)

AbstractSpec == AbstractInit /\ [][AbstractNext]_abstract

=============================================================================
