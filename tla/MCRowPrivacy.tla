---------------------------- MODULE MCRowPrivacy ----------------------------
(* TLC's instance of RowPrivacy. *)
EXTENDS RowPrivacy, TLC

=============================================================================
