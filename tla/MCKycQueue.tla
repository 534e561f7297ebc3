----------------------------- MODULE MCKycQueue -----------------------------
(* Instances of KycQueue for TLC. *)
EXTENDS KycQueue

CONSTANTS d1, d2, a1, s1
=============================================================================
