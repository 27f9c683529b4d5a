------------------------------ MODULE MCClaims ------------------------------
(* The values of MCMiniRaft for Claims.                                    *)
EXTENDS Claims, MCMiniRaft
=============================================================================
