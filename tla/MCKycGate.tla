------------------------------ MODULE MCKycGate ------------------------------
(* Two accounts of one user, one of them verified. *)
EXTENDS KycGate

CONSTANTS w1, w2, m1
=============================================================================
