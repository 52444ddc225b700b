----------------------------- MODULE MCGitStore -----------------------------
(* The git store for TLC: the constants are model values of the configs. *)
EXTENDS GitStore

=============================================================================
