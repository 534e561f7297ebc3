------------------------ MODULE MCAttestationConsumer ------------------------
(* Instances of AttestationConsumer for TLC. *)
EXTENDS AttestationConsumer

CONSTANTS w1, r1, r2, c1, c2, h1, h2

Events == {{"Revoked"}, {"Issued", "Revoked"}}
OneKind == {{"Issued", "Revoked"}}
=============================================================================
