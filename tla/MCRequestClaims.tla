-------------------------- MODULE MCRequestClaims --------------------------
(* Instances of RequestClaims for TLC.                                     *)
EXTENDS RequestClaims
CONSTANTS t1, t2

NothingWaits == <<>>
BothWait == <<t1, t2>>
=============================================================================
