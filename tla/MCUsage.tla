------------------------------- MODULE MCUsage -------------------------------
(* Small instances of Usage for TLC.                                        *)
EXTENDS Usage, TLC

\* Posts and chats share nothing but the ERP system: each are followed where the others rest.
PostsAlone == \A p \in Posts, c \in Chats : post[p] = "new" \/ chat[c].pc = "new"

\* Two chats overlap; a third comes before or after them where no fault has happened and no
\* document is created.
TwoAtATime ==
    LET begun == {c \in Chats : chat[c].pc # "new"}
    IN  IF faults > 0 \/ \E d \in Creates : client[d] # "idle"
        THEN Cardinality(begun) <= 2
        ELSE Cardinality({c \in begun : chat[c].pc \notin {"answered", "denied"}}) <= 2

Bounded == PostsAlone /\ TwoAtATime

Symmetry == Permutations(Chats) \cup Permutations(Creates)

=============================================================================
