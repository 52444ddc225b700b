--------------------------- MODULE MCSnapshotCache ---------------------------
(* The snapshot cache for TLC: interchangeable callers, references and keys. *)
EXTENDS SnapshotCache, TLC

Symmetry == Permutations(Ref) \cup Permutations(Key) \cup Permutations(Caller)

=============================================================================
