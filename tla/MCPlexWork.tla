---------------------------- MODULE MCPlexWork ----------------------------
(* Instances of PlexWork for TLC. *)
EXTENDS PlexWork, TLC

RunSymmetry == Permutations(Runs)

=============================================================================
