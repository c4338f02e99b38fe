---------------------------- MODULE MCOwnerClaim ----------------------------
(* The runs of OwnerClaim: three claimants, as many attempts as make two    *)
(* conflicts in a row possible.                                             *)
EXTENDS OwnerClaim
=============================================================================
