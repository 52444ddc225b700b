----------------------------- MODULE MCTransfer -----------------------------
(* The SQL store, exports of it, and imports of the files, for TLC.        *)
EXTENDS MCSqlStore, Transfer

\* Bounds that leave nothing out: the batch size is told apart only where an export
\* may still begin, and a state is not gone on from when every request has ended
\* and no other may come.
BatchMatters == requests > MaxTransferRequests => batch = 1
SomethingToCome == requests = MaxRequests => \E c \in Client : pc[c] # "idle"

\* Bound: distributions are one client's business; clients are otherwise alike, so
\* this leaves out only two requests for distributions at a time.
DistributionsByOne ==
    \A c \in Client : pc[c] \in {"validate", "write"} => c = CHOOSE d \in Client : TRUE

=============================================================================
