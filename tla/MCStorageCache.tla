--------------------------- MODULE MCStorageCache ---------------------------
(* The storage cache for TLC: two requests on one instance, one on another. *)
EXTENDS StorageCache

CONSTANTS c1, c2, c3, h1, h2

TwoInstances == [c \in Client |-> IF c = c3 THEN h2 ELSE h1]

=============================================================================
