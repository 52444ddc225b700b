----------------------------- MODULE MCSqlRanks -----------------------------
(* Rules and rollouts of one flag for TLC: two at the start and one to come. *)
EXTENDS SqlRanks

CONSTANTS i1, i2, i3

TwoItems == <<i1, i2>>

\* Bound: an ordering that names all three items names each of them once.  With
\* two items lists are repeated, partial and complete as they come.
LongListsOnce ==
    \A c \in Client : op[c] = "order" /\ Len(ids[c]) = 3 =>
        \A j, k \in 1..3 : ids[c][j] = ids[c][k] => j = k

=============================================================================
