------------------------------ MODULE MCCleanup ------------------------------
(* The cleanup of expired authentications for TLC. *)
EXTENDS Cleanup

=============================================================================
